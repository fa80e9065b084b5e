-------------------------- MODULE ShmRegistryProofs --------------------------
(***************************************************************************)
(* Proofs about the shared-memory list of tee-supplicant, for any clients, *)
(* any finite number of structs, any ids and any sizes.                    *)
(***************************************************************************)
EXTENDS ShmRegistry, FiniteSetTheorems, WellFoundedInduction, TLAPS

-----------------------------------------------------------------------------
(***************************************************************************)
(* The inductive invariant.  Every struct in use is somebody's: the client *)
(* has the buffer (it is in the list), or its thread makes or releases it. *)
(***************************************************************************)
Owns(c) == mine[c] # NoId
Private(c) == pc[c] \in {"ioctl", "mmap", "push", "close", "unmap", "free"}

\* The struct that is c's.
Held(c) == IF Owns(c) THEN own[c] ELSE IF Private(c) THEN tshm[c] ELSE NULL

\* The id whose descriptor is open for c's struct.
Fd(c) == IF Owns(c) THEN mine[c]
         ELSE IF pc[c] \in {"mmap", "push", "close"} THEN node[tshm[c]].id ELSE NoId

\* What the thread of c and c's struct are to each other.
ClientInv(c) ==
    /\ Owns(c) => /\ own[c] \in Nodes /\ ~Private(c)
                  /\ node[own[c]].id = mine[c] /\ node[own[c]].p # "none"
    /\ pc[c] \in {"check", "use"} => Owns(c) /\ tshm[c] = own[c]
    /\ pc[c] = "pop" => Owns(c)
    /\ pc[c] \in {"mmap", "push", "close"} => node[tshm[c]].id \in Ids
    /\ pc[c] = "push" => node[tshm[c]].p # "none"
    /\ pc[c] = "ioctl" /\ Registers => node[tshm[c]].p = "memory"
    /\ pc[c] = "use" => range[c].offs + range[c].sz <= node[tshm[c]].size

\* No two clients have the same struct or the same id.
Apart ==
    \A c, d \in Clients : c # d => /\ Held(c) # NULL => Held(c) # Held(d)
                                   /\ Fd(c) # NoId => Fd(c) # Fd(d)

\* What is allocated or open is somebody's.
Owned ==
    /\ \A a \in Nodes : /\ node[a].heap = "live" <=> \E c \in Clients : Held(c) = a
                        /\ node[a].heap = "free" => node[a] = FreeNode
    /\ \A i \in Ids : "fd" \in refs[i] <=> \E c \in Clients : Fd(c) = i

\* g[0], g[1], ... are the structs of the list, then NULL from g[n] on.
IsList(g, n) ==
    /\ \A k \in Nat : g[k] = NULL <=> k >= n
    /\ \A j, k \in Nat : g[j] = g[k] /\ g[j] # NULL => j = k
    /\ shm_head = g[0]
    /\ \A k \in Nat : k < n => node[g[k]].next = g[k + 1]

\* The structs of the list are those of the clients that have a buffer.
IsOwners(g, n) ==
    /\ \A k \in Nat : k < n => \E c \in Clients : Owns(c) /\ own[c] = g[k]
    /\ \A c \in Clients : Owns(c) => \E k \in Nat : k < n /\ own[c] = g[k]

ListInv ==
    \E g \in [Nat -> Nodes \cup {NULL}], n \in Nat : IsList(g, n) /\ IsOwners(g, n)

RegistryInv ==
    /\ TypeOK
    /\ \A c \in Clients : ClientInv(c)
    /\ Apart
    /\ Owned
    /\ ListInv

-----------------------------------------------------------------------------
(***************************************************************************)
(* The list.                                                               *)
(***************************************************************************)

Less == {ss \in Nat \X Nat : ss[1] < ss[2]}

\* The order on the natural numbers, as the relation the library reasons about.
LEMMA LessWellFounded == IsWellFoundedOn(Less, Nat)
BY NatLessThanWellFounded, Zenon DEF OpToRel, Less

\* Every non-empty set of natural numbers has a least element.
LEMMA LeastElement ==
    ASSUME NEW T, T \subseteq Nat, T # {}
    PROVE  \E x \in T : \A y \in T : x <= y
<1>1. \A x, y \in Nat : y < x => <<y, x>> \in Less
  BY DEF Less
<1>2. PICK x \in T : \A y \in T : ~(<<y, x>> \in Less)
  BY LessWellFounded, WFMin
<1>3. ASSUME NEW y \in T PROVE x <= y
  <2>1. x \in Nat /\ y \in Nat
    OBVIOUS
  <2>2. ~(y < x)
    BY <2>1, <1>1, <1>2
  <2> QED
    BY <2>1, <2>2
<1> QED
  BY <1>3

\* First is the least element.
LEMMA FirstOfOne == ASSUME NEW k \in Nat PROVE First({k}) = k
<1>1. \A j \in {k} : k <= j
  OBVIOUS
<1> QED
  BY <1>1 DEF First

\* A list of different structs is no longer than there are structs.
LEMMA ListFits ==
    ASSUME NEW g \in [Nat -> Nodes \cup {NULL}], NEW n \in Nat, IsList(g, n)
    PROVE  n <= Cardinality(Nodes) /\ Cardinality(Nodes) \in Nat
<1> DEFINE f == [k \in 1 .. n |-> g[k - 1]]
<1>1. f \in [1 .. n -> Nodes]
  <2>1. ASSUME NEW k \in 1 .. n PROVE g[k - 1] \in Nodes
    <3>1. k - 1 \in Nat /\ ~(k - 1 >= n)
      OBVIOUS
    <3> QED
      BY <3>1 DEF IsList
  <2> QED
    BY <2>1
<1>2. ASSUME NEW j \in 1 .. n, NEW k \in 1 .. n, f[j] = f[k] PROVE j = k
  <2>1. j - 1 \in Nat /\ k - 1 \in Nat /\ ~(j - 1 >= n)
    OBVIOUS
  <2>2. g[j - 1] = g[k - 1]
    BY <1>2
  <2>3. j - 1 = k - 1
    BY <2>1, <2>2 DEF IsList
  <2> QED
    BY <2>3
<1> HIDE DEF f
<1>3. f \in Injection(1 .. n, Nodes)
  BY <1>1, <1>2 DEF Injection, IsInjective
<1>4. Cardinality(1 .. n) <= Cardinality(Nodes)
  BY <1>3, NodesAssumption, FS_Injection
<1>5. Cardinality(1 .. n) = n
  BY FS_Interval
<1> QED
  BY <1>4, <1>5, NodesAssumption, FS_CardinalityType

\* Walking the list as find_tshm and pop_tshm do meets exactly those structs.
LEMMA WalkIsList ==
    ASSUME NEW g \in [Nat -> Nodes \cup {NULL}], NEW n \in Nat, IsList(g, n)
    PROVE  /\ DOMAIN At = 0 .. Cardinality(Nodes)
           /\ \A k \in 0 .. Cardinality(Nodes) : At[k] = g[k]
<1> DEFINE N == Cardinality(Nodes)
           h == [k \in 0 .. N |-> g[k]]
           W1(f) == [k \in 0 .. N |-> IF k = 0 THEN shm_head
                       ELSE IF f[k - 1] = NULL THEN NULL ELSE node[f[k - 1]].next]
<1>1. n <= N /\ N \in Nat
  BY ListFits
<1> HIDE DEF N
<1>2. ASSUME NEW k \in 0 .. N
      PROVE  h[k] = IF k = 0 THEN shm_head
                    ELSE IF h[k - 1] = NULL THEN NULL ELSE node[h[k - 1]].next
  <2>1. CASE k = 0
    BY <2>1, <1>1 DEF IsList
  <2>2. CASE k # 0
    <3>1. k - 1 \in Nat /\ k - 1 \in 0 .. N /\ (k - 1) + 1 = k /\ k \in Nat
      BY <2>2, <1>1
    <3>2. h[k - 1] = g[k - 1] /\ h[k] = g[k]
      BY <3>1
    <3>3. CASE k - 1 >= n
      <4>1. k >= n
        BY <3>1, <3>3
      <4>2. g[k - 1] = NULL /\ g[k] = NULL
        BY <3>1, <3>3, <4>1 DEF IsList
      <4> QED
        BY <2>2, <3>2, <4>2
    <3>4. CASE k - 1 < n
      <4>1. g[k - 1] # NULL /\ node[g[k - 1]].next = g[k]
        BY <3>1, <3>4 DEF IsList
      <4> QED
        BY <2>2, <3>2, <4>1
    <3> QED
      BY <3>1, <3>3, <3>4
  <2> QED
    BY <2>1, <2>2
<1>3. h = W1(h)
  <2> HIDE DEF h
  <2>1. \A k \in 0 .. N : h[k] = W1(h)[k]
    BY <1>2
  <2>2. h = [k \in 0 .. N |-> h[k]]
    BY DEF h
  <2> QED
    BY <2>1, <2>2
<1> HIDE DEF h
<1>4. At = W1(At)
  BY <1>3 DEF At, N
<1>5. DOMAIN At = 0 .. N
  BY <1>4
<1>6. \A k \in 0 .. N : At[k] = h[k]
  <2> DEFINE T == {k \in 0 .. N : At[k] # h[k]}
  <2> SUFFICES ASSUME T # {} PROVE FALSE
    OBVIOUS
  <2>1. T \subseteq Nat
    OBVIOUS
  <2>2. PICK k \in T : \A j \in T : k <= j
    BY <2>1, LeastElement
  <2>3. k \in 0 .. N /\ At[k] # h[k]
    OBVIOUS
  <2>4. /\ At[k] = IF k = 0 THEN shm_head
                   ELSE IF At[k - 1] = NULL THEN NULL ELSE node[At[k - 1]].next
        /\ h[k] = IF k = 0 THEN shm_head
                  ELSE IF h[k - 1] = NULL THEN NULL ELSE node[h[k - 1]].next
    <3>1. At[k] = W1(At)[k]
      BY <1>4
    <3> QED
      BY <2>3, <3>1, <1>2
  <2>5. k # 0
    BY <2>3, <2>4
  <2>6. k - 1 \in 0 .. N /\ ~(k <= k - 1)
    BY <2>3, <2>5, <1>1
  <2>7. At[k - 1] = h[k - 1]
    BY <2>2, <2>6
  <2> QED
    BY <2>3, <2>4, <2>7
<1> QED
  BY <1>5, <1>6 DEF h, N

\* The structs of the list, told by their ids: each id has one position.
LEMMA PositionOf ==
    ASSUME TypeOK, \A c \in Clients : ClientInv(c), Apart,
           NEW g \in [Nat -> Nodes \cup {NULL}], NEW n \in Nat, IsList(g, n), IsOwners(g, n),
           NEW c \in Clients, Owns(c), NEW k \in Nat, k < n, own[c] = g[k]
    PROVE  /\ k \in 0 .. Cardinality(Nodes) /\ At[k] = own[c] /\ own[c] \in Nodes
           /\ Positions(mine[c]) = {k}
           /\ First(Positions(mine[c])) = k
           /\ Find(mine[c]) = own[c]
<1>1. n <= Cardinality(Nodes) /\ Cardinality(Nodes) \in Nat
  BY ListFits
<1>2. k \in 0 .. Cardinality(Nodes)
  BY <1>1
<1>3. DOMAIN At = 0 .. Cardinality(Nodes) /\ \A j \in 0 .. Cardinality(Nodes) : At[j] = g[j]
  BY WalkIsList
<1>4. At[k] = own[c] /\ own[c] \in Nodes /\ node[own[c]].id = mine[c]
  BY <1>2, <1>3 DEF ClientInv
<1>5. own[c] # NULL
  BY <1>4, NullAssumption
<1>6. k \in Positions(mine[c])
  BY <1>2, <1>3, <1>4, <1>5 DEF Positions
<1>7. ASSUME NEW j \in Positions(mine[c]) PROVE j = k
  <2>1. j \in 0 .. Cardinality(Nodes) /\ At[j] # NULL /\ node[At[j]].id = mine[c]
    BY <1>3 DEF Positions
  <2>2. j \in Nat /\ g[j] = At[j]
    BY <2>1, <1>1, <1>3
  <2>3. j < n
    BY <2>1, <2>2 DEF IsList
  <2>4. PICK d \in Clients : Owns(d) /\ own[d] = g[j]
    BY <2>2, <2>3 DEF IsOwners
  <2>5. mine[d] = mine[c]
    BY <2>1, <2>2, <2>4 DEF ClientInv
  <2>6. Fd(c) = mine[c] /\ Fd(d) = mine[d] /\ mine[c] # NoId
    BY <2>4 DEF Fd, Owns
  <2>7. d = c
    BY <2>5, <2>6 DEF Apart
  <2> QED
    BY <2>1, <2>2, <2>4, <2>7 DEF IsList
<1>8. Positions(mine[c]) = {k}
  BY <1>6, <1>7
<1>9. First(Positions(mine[c])) = k
  BY <1>8, FirstOfOne
<1> QED
  BY <1>2, <1>4, <1>8, <1>9 DEF Find

\* find_tshm finds the struct of a client that has a buffer, and nothing for one
\* that has none.
LEMMA FindOwn ==
    ASSUME RegistryInv, NEW c \in Clients
    PROVE  Find(mine[c]) = IF Owns(c) THEN own[c] ELSE NULL
<1>1. PICK g \in [Nat -> Nodes \cup {NULL}], n \in Nat : IsList(g, n) /\ IsOwners(g, n)
  BY DEF RegistryInv, ListInv
<1>2. CASE Owns(c)
  <2>1. PICK k \in Nat : k < n /\ own[c] = g[k]
    BY <1>1, <1>2 DEF IsOwners
  <2> QED
    BY <1>1, <1>2, <2>1, PositionOf DEF RegistryInv
<1>3. CASE ~Owns(c)
  <2>1. DOMAIN At = 0 .. Cardinality(Nodes) /\ \A j \in 0 .. Cardinality(Nodes) : At[j] = g[j]
    BY <1>1, WalkIsList
  <2>2. Cardinality(Nodes) \in Nat
    BY <1>1, ListFits
  <2>3. ASSUME NEW j \in Positions(mine[c]) PROVE FALSE
    <3>1. j \in 0 .. Cardinality(Nodes) /\ At[j] # NULL /\ node[At[j]].id = mine[c]
      BY <2>1 DEF Positions
    <3>2. j \in Nat /\ g[j] = At[j]
      BY <3>1, <2>1, <2>2
    <3>3. j < n
      BY <1>1, <3>1, <3>2 DEF IsList
    <3>4. PICK d \in Clients : Owns(d) /\ own[d] = g[j]
      BY <1>1, <3>2, <3>3 DEF IsOwners
    <3>5. node[own[d]].id = mine[d]
      BY <3>4 DEF RegistryInv, ClientInv
    <3> QED
      BY <1>3, <3>1, <3>2, <3>4, <3>5 DEF Owns
  <2>4. Positions(mine[c]) = {}
    BY <2>3
  <2> QED
    BY <1>3, <2>4 DEF Find
<1> QED
  BY <1>2, <1>3

-----------------------------------------------------------------------------
(***************************************************************************)
(* The invariant implies the properties.                                   *)
(***************************************************************************)

LEMMA ListSoundHolds == RegistryInv => ListSound
<1> SUFFICES ASSUME RegistryInv PROVE ListSound
  OBVIOUS
<1>1. PICK g \in [Nat -> Nodes \cup {NULL}], n \in Nat : IsList(g, n) /\ IsOwners(g, n)
  BY DEF RegistryInv, ListInv
<1>2. DOMAIN At = 0 .. Cardinality(Nodes) /\ \A j \in 0 .. Cardinality(Nodes) : At[j] = g[j]
  BY <1>1, WalkIsList
<1>3. n <= Cardinality(Nodes) /\ Cardinality(Nodes) \in Nat
  BY <1>1, ListFits
<1>4. At[Cardinality(Nodes)] = NULL
  <2>1. Cardinality(Nodes) >= n /\ Cardinality(Nodes) \in 0 .. Cardinality(Nodes)
    BY <1>3
  <2> QED
    BY <1>1, <1>2, <1>3, <2>1 DEF IsList
<1>5. ASSUME NEW k \in DOMAIN At, At[k] # NULL
      PROVE  /\ node[At[k]].heap = "live" /\ node[At[k]].p # "none"
             /\ Positions(node[At[k]].id) = {k}
  <2>1. k \in Nat /\ k < n /\ g[k] = At[k]
    BY <1>1, <1>2, <1>3, <1>5 DEF IsList
  <2>2. PICK c \in Clients : Owns(c) /\ own[c] = g[k]
    BY <1>1, <2>1 DEF IsOwners
  <2>3. Positions(mine[c]) = {k}
    BY <1>1, <2>1, <2>2, PositionOf DEF RegistryInv
  <2>4. own[c] \in Nodes /\ node[own[c]].id = mine[c] /\ node[own[c]].p # "none"
    BY <2>2 DEF RegistryInv, ClientInv
  <2>5. Held(c) = own[c]
    BY <2>2 DEF Held
  <2>6. node[own[c]].heap = "live"
    BY <2>4, <2>5 DEF RegistryInv, Owned
  <2> QED
    BY <2>1, <2>2, <2>3, <2>4, <2>6
<1> QED
  BY <1>4, <1>5 DEF ListSound

LEMMA OwnBufferHolds == RegistryInv => OwnBuffer
BY FindOwn DEF OwnBuffer, Owns

\* A pointer that a thread has is to its client's own struct.
LEMMA PointerHeld ==
    ASSUME RegistryInv, NEW c \in Clients, tshm[c] # NULL
    PROVE  /\ tshm[c] \in Nodes /\ Held(c) = tshm[c] /\ node[tshm[c]].heap = "live"
           /\ pc[c] \in {"check", "use"} \/ Private(c)
<1>1. pc[c] \in PCs /\ pc[c] \notin {"idle", "find", "pop"} /\ tshm[c] \in Nodes
  BY DEF RegistryInv, TypeOK
<1>2. pc[c] \in {"check", "use"} \/ Private(c)
  BY <1>1 DEF PCs, Private
<1>3. Held(c) = tshm[c]
  BY <1>2 DEF RegistryInv, ClientInv, Held
<1> QED
  BY <1>1, <1>2, <1>3 DEF RegistryInv, Owned

LEMMA PointersLiveHolds == RegistryInv => PointersLive
<1> SUFFICES ASSUME RegistryInv, NEW c \in Clients,
                    pc[c] \in {"check", "use", "close", "unmap", "free"}
             PROVE  /\ node[tshm[c]].heap = "live"
                    /\ pc[c] \in {"check", "use"} => node[tshm[c]].p # "none"
                    /\ \A d \in Clients \ {c} : tshm[d] # tshm[c]
  BY DEF PointersLive
<1>1. tshm[c] # NULL
  BY DEF RegistryInv, TypeOK
<1>2. Held(c) = tshm[c] /\ node[tshm[c]].heap = "live"
  BY <1>1, PointerHeld
<1>3. pc[c] \in {"check", "use"} => node[tshm[c]].p # "none"
  BY DEF RegistryInv, ClientInv
<1>4. ASSUME NEW d \in Clients \ {c}, tshm[d] = tshm[c] PROVE FALSE
  <2>1. Held(d) = tshm[d]
    BY <1>1, <1>4, PointerHeld
  <2> QED
    BY <1>1, <1>2, <1>4, <2>1 DEF RegistryInv, Apart
<1> QED
  BY <1>2, <1>3, <1>4

LEMMA InBoundsHolds == RegistryInv => InBounds
BY DEF RegistryInv, ClientInv, InBounds

LEMMA NoLeakHolds == RegistryInv => NoLeak
<1> SUFFICES ASSUME RegistryInv, \A c \in Clients : pc[c] = "idle" /\ mine[c] = NoId
             PROVE  /\ shm_head = NULL
                    /\ \A a \in Nodes : node[a] = FreeNode
                    /\ \A i \in Ids : "fd" \notin refs[i]
  BY DEF NoLeak
<1>1. \A c \in Clients : ~Owns(c) /\ Held(c) = NULL /\ Fd(c) = NoId
  BY DEF Owns, Held, Fd, Private
<1>2. shm_head = NULL
  <2>1. PICK g \in [Nat -> Nodes \cup {NULL}], n \in Nat : IsList(g, n) /\ IsOwners(g, n)
    BY DEF RegistryInv, ListInv
  <2>2. ~(0 < n)
    BY <1>1, <2>1 DEF IsOwners
  <2> QED
    BY <2>1, <2>2 DEF IsList
<1>3. ASSUME NEW a \in Nodes PROVE node[a] = FreeNode
  <2>1. node[a].heap # "live"
    BY <1>1, NullAssumption DEF RegistryInv, Owned
  <2>2. node[a].heap \in {"free", "live"}
    BY DEF RegistryInv, TypeOK, Structs
  <2> QED
    BY <2>1, <2>2 DEF RegistryInv, Owned
<1>4. \A i \in Ids : "fd" \notin refs[i]
  BY <1>1, NoIdAssumption DEF RegistryInv, Owned
<1> QED
  BY <1>2, <1>3, <1>4

-----------------------------------------------------------------------------
(***************************************************************************)
(* Every step preserves the types.                                         *)
(***************************************************************************)

\* The structs a step makes of another.
LEMMA StructUpdates ==
    ASSUME NEW s \in Structs
    PROVE  /\ FreeNode \in Structs
           /\ \A z \in Word, q \in {"none", "memory", "map"} :
                 [FreeNode EXCEPT !.heap = "live", !.size = z, !.p = q] \in Structs
           /\ \A i \in Ids : [s EXCEPT !.id = i] \in Structs
           /\ \A q \in {"none", "memory", "map"} : [s EXCEPT !.p = q] \in Structs
           /\ \A a \in Nodes \cup {NULL} : [s EXCEPT !.next = a] \in Structs
BY WordAssumption DEF Structs, FreeNode

LEMMA TypeInit == Init => TypeOK
<1> SUFFICES ASSUME Init PROVE TypeOK
  OBVIOUS
<1>1. FreeNode \in Structs
  BY WordAssumption DEF Structs, FreeNode
<1>2. NoRange \in [sz : Word, offs : Word]
  BY WordAssumption DEF NoRange
<1> QED
  BY <1>1, <1>2 DEF Init, TypeOK, PCs

\* A thread that holds a pointer points to a struct.
LEMMA Pointing ==
    ASSUME TypeOK, NEW c \in Clients, pc[c] \notin {"idle", "find", "pop"}
    PROVE  tshm[c] \in Nodes /\ tshm[c] # NULL /\ node[tshm[c]] \in Structs
BY NullAssumption DEF TypeOK

\* A step of c that leaves the other threads where they are keeps the types, if
\* what it writes has them.
LEMMA TypeFrame ==
    ASSUME TypeOK, NEW c \in Clients, gen_caps' = gen_caps,
           shm_head' \in Nodes \cup {NULL}, node' \in [Nodes -> Structs],
           refs' \in [Ids -> SUBSET {"fd", "map"}],
           NEW to \in PCs, pc' = [pc EXCEPT ![c] = to],
           NEW t \in Nodes \cup {NULL}, tshm' = [tshm EXCEPT ![c] = t],
           range' \in [Clients -> [sz : Word, offs : Word]],
           mine' \in [Clients -> Ids \cup {NoId}],
           own' \in [Clients -> Nodes \cup {NULL}],
           (t = NULL) <=> to \in {"idle", "find", "pop"}
    PROVE  TypeOK'
<1>1. pc' \in [Clients -> PCs] /\ tshm' \in [Clients -> Nodes \cup {NULL}]
  BY DEF TypeOK
<1>2. \A d \in Clients : (tshm'[d] = NULL) <=> pc'[d] \in {"idle", "find", "pop"}
  BY DEF TypeOK
<1> QED
  BY <1>1, <1>2 DEF TypeOK

LEMMA TypeStep ==
    ASSUME RegistryInv, [Next]_vars
    PROVE  TypeOK'
<1> USE DEF PCs
<1>0. TypeOK
  BY DEF RegistryInv
<1>1. CASE UNCHANGED vars
  BY <1>0, <1>1 DEF vars, TypeOK
<1>2. ASSUME NEW c \in Clients, process_alloc(c) PROVE TypeOK'
  <2>1. PICK a \in Nodes, s \in Sizes :
           /\ node' = [node EXCEPT ![a] =
                         [FreeNode EXCEPT !.heap = "live", !.size = s, !.p = FirstMemory]]
           /\ tshm' = [tshm EXCEPT ![c] = a]
    BY <1>2 DEF process_alloc
  <2>2. [FreeNode EXCEPT !.heap = "live", !.size = s, !.p = FirstMemory] \in Structs
    BY <1>0, SizesAssumption, StructUpdates DEF TypeOK, FirstMemory
  <2>3. node' \in [Nodes -> Structs]
    BY <1>0, <2>1, <2>2 DEF TypeOK
  <2>4. pc' = [pc EXCEPT ![c] = "ioctl"] /\ UNCHANGED <<gen_caps, shm_head, refs, range, mine, own>>
    BY <1>2 DEF process_alloc, Goto
  <2> QED
    BY <1>0, <2>1, <2>3, <2>4, NullAssumption, TypeFrame DEF TypeOK
<1>3. ASSUME NEW c \in Clients, NEW from \in {"ioctl", "mmap"}, AllocFails(c, from),
             refs' \in [Ids -> SUBSET {"fd", "map"}],
             UNCHANGED <<gen_caps, shm_head, range, mine, own>>
      PROVE  TypeOK'
  <2>1. node' \in [Nodes -> Structs]
    BY <1>0, <1>3, Pointing, StructUpdates DEF AllocFails, Goto, TypeOK
  <2> QED
    BY <1>0, <1>3, <2>1, TypeFrame DEF AllocFails, Goto, TypeOK
<1>4. ASSUME NEW c \in Clients, ShmIoctl(c) PROVE TypeOK'
  <2>1. ASSUME Goto(c, "ioctl", IF Registers THEN "push" ELSE "mmap"),
               NEW i \in Ids, refs' = [refs EXCEPT ![i] = {"fd"}],
               node' = [node EXCEPT ![tshm[c]].id = i],
               UNCHANGED <<gen_caps, shm_head, tshm, range, mine, own>>
        PROVE  TypeOK'
    <3>1. tshm[c] \in Nodes /\ tshm[c] # NULL /\ node[tshm[c]] \in Structs
      BY <1>0, <2>1, Pointing DEF Goto
    <3>2. node' = [node EXCEPT ![tshm[c]] = [node[tshm[c]] EXCEPT !.id = i]]
      BY <2>1
    <3>3. node' \in [Nodes -> Structs]
      BY <1>0, <3>1, <3>2, StructUpdates DEF TypeOK
    <3>4. refs' \in [Ids -> SUBSET {"fd", "map"}]
      BY <1>0, <2>1 DEF TypeOK
    <3>5. tshm' = [tshm EXCEPT ![c] = tshm[c]]
      BY <1>0, <2>1 DEF TypeOK
    <3>6. PICK to \in {"push", "mmap"} : pc' = [pc EXCEPT ![c] = to]
      BY <2>1 DEF Goto
    <3> QED
      BY <1>0, <2>1, <3>1, <3>3, <3>4, <3>5, <3>6, TypeFrame DEF TypeOK
  <2>2. CASE AllocFails(c, "ioctl") /\ UNCHANGED <<gen_caps, shm_head, refs, range, mine, own>>
    BY <1>0, <1>3, <2>2 DEF TypeOK
  <2> QED
    BY <1>4, <2>1, <2>2 DEF ShmIoctl
<1>5. ASSUME NEW c \in Clients, Mmap(c) PROVE TypeOK'
  <2>0. refs' \in [Ids -> SUBSET {"fd", "map"}]
    BY <1>0, <1>5 DEF Mmap, TypeOK
  <2>1. ASSUME Goto(c, "mmap", "push"), node' = [node EXCEPT ![tshm[c]].p = "map"],
               UNCHANGED <<gen_caps, shm_head, tshm, range, mine, own>>
        PROVE  TypeOK'
    <3>1. tshm[c] \in Nodes /\ tshm[c] # NULL /\ node[tshm[c]] \in Structs
      BY <1>0, <2>1, Pointing DEF Goto
    <3>2. node' = [node EXCEPT ![tshm[c]] = [node[tshm[c]] EXCEPT !.p = "map"]]
      BY <2>1
    <3>3. node' \in [Nodes -> Structs]
      BY <1>0, <3>1, <3>2, StructUpdates DEF TypeOK
    <3>5. tshm' = [tshm EXCEPT ![c] = tshm[c]] /\ pc' = [pc EXCEPT ![c] = "push"]
      BY <1>0, <2>1 DEF TypeOK, Goto
    <3> QED
      BY <1>0, <2>0, <2>1, <3>1, <3>3, <3>5, TypeFrame DEF TypeOK
  <2>2. CASE AllocFails(c, "mmap") /\ UNCHANGED <<gen_caps, shm_head, range, mine, own>>
    BY <1>3, <2>0, <2>2
  <2> QED
    BY <1>5, <2>1, <2>2 DEF Mmap
<1>6. ASSUME NEW c \in Clients, push_tshm(c) PROVE TypeOK'
  <2>1. tshm[c] \in Nodes /\ tshm[c] # NULL /\ node[tshm[c]] \in Structs
    BY <1>0, <1>6, Pointing DEF push_tshm, Goto
  <2>2. node' = [node EXCEPT ![tshm[c]] = [node[tshm[c]] EXCEPT !.next = shm_head]]
    BY <1>6 DEF push_tshm
  <2>3. node' \in [Nodes -> Structs]
    BY <1>0, <2>1, <2>2, StructUpdates DEF TypeOK
  <2>4. node[tshm[c]].id \in Ids \cup {NoId}
    BY <2>1 DEF Structs
  <2>5. mine' \in [Clients -> Ids \cup {NoId}] /\ own' \in [Clients -> Nodes \cup {NULL}]
    BY <1>0, <1>6, <2>1, <2>4 DEF push_tshm, TypeOK
  <2>6. /\ pc' = [pc EXCEPT ![c] = "idle"] /\ tshm' = [tshm EXCEPT ![c] = NULL]
        /\ shm_head' = tshm[c] /\ UNCHANGED <<gen_caps, refs, range>>
    BY <1>6 DEF push_tshm, Goto
  <2> QED
    BY <1>0, <2>1, <2>3, <2>5, <2>6, TypeFrame DEF TypeOK
<1>7. ASSUME NEW c \in Clients, Command(c) \/ process_free(c) PROVE TypeOK'
  <2>1. PICK to \in {"find", "pop"} : pc[c] = "idle" /\ pc' = [pc EXCEPT ![c] = to]
    BY <1>7 DEF Command, process_free, Goto
  <2>2. tshm' = [tshm EXCEPT ![c] = NULL]
    BY <1>0, <1>7, <2>1 DEF Command, process_free, TypeOK
  <2> QED
    BY <1>0, <1>7, <2>1, <2>2, TypeFrame DEF Command, process_free, TypeOK
<1>8. ASSUME NEW c \in Clients, find_tshm(c) PROVE TypeOK'
  <2>1. Find(mine[c]) \in Nodes \cup {NULL}
    BY FindOwn DEF RegistryInv, TypeOK
  <2>2. PICK to \in {"idle", "check"} :
           pc' = [pc EXCEPT ![c] = to] /\ (to = "idle" <=> Find(mine[c]) = NULL)
    BY <1>8 DEF find_tshm, Goto
  <2> QED
    BY <1>0, <1>8, <2>1, <2>2, TypeFrame DEF find_tshm, TypeOK
<1>9. ASSUME NEW c \in Clients, get_param(c) PROVE TypeOK'
  <2>1. PICK sz \in Word, offs \in Word :
           \/ /\ pc' = [pc EXCEPT ![c] = "use"]
              /\ range' = [range EXCEPT ![c] = [sz |-> sz, offs |-> offs]]
              /\ UNCHANGED tshm
           \/ /\ pc' = [pc EXCEPT ![c] = "idle"]
              /\ tshm' = [tshm EXCEPT ![c] = NULL]
              /\ UNCHANGED range
    BY <1>9 DEF get_param, Goto
  <2>2. UNCHANGED <<gen_caps, shm_head, node, refs, mine, own>> /\ pc[c] = "check"
    BY <1>9 DEF get_param
  <2>3. tshm[c] \in Nodes /\ tshm[c] # NULL
    BY <1>0, <2>2, Pointing
  <2>4. range' \in [Clients -> [sz : Word, offs : Word]]
    BY <1>0, <2>1 DEF TypeOK
  <2>5. tshm = [tshm EXCEPT ![c] = tshm[c]]
    BY <1>0 DEF TypeOK
  <2>6. CASE pc' = [pc EXCEPT ![c] = "use"] /\ UNCHANGED tshm
    BY <1>0, <2>2, <2>3, <2>4, <2>5, <2>6, TypeFrame DEF TypeOK
  <2>7. CASE pc' = [pc EXCEPT ![c] = "idle"] /\ tshm' = [tshm EXCEPT ![c] = NULL]
    BY <1>0, <2>2, <2>4, <2>7, TypeFrame DEF TypeOK
  <2> QED
    BY <2>1, <2>6, <2>7
<1>10. ASSUME NEW c \in Clients, UseBuffer(c) PROVE TypeOK'
  <2>1. NoRange \in [sz : Word, offs : Word]
    BY WordAssumption DEF NoRange
  <2>2. range' \in [Clients -> [sz : Word, offs : Word]]
    BY <1>0, <1>10, <2>1 DEF UseBuffer, TypeOK
  <2> QED
    BY <1>0, <1>10, <2>2, TypeFrame DEF UseBuffer, Goto, TypeOK
<1>11. ASSUME NEW c \in Clients, pop_tshm(c) PROVE TypeOK'
  <2>1. PICK g \in [Nat -> Nodes \cup {NULL}], n \in Nat : IsList(g, n) /\ IsOwners(g, n)
    BY DEF RegistryInv, ListInv
  <2>2. Owns(c) /\ pc[c] = "pop"
    BY <1>11 DEF RegistryInv, ClientInv, pop_tshm
  <2>3. PICK k \in Nat : k < n /\ own[c] = g[k]
    BY <2>1, <2>2 DEF IsOwners
  <2>4. /\ k \in 0 .. Cardinality(Nodes) /\ At[k] = own[c] /\ own[c] \in Nodes
        /\ Positions(mine[c]) = {k}
        /\ First(Positions(mine[c])) = k
        /\ Find(mine[c]) = own[c]
    BY <2>1, <2>2, <2>3, PositionOf DEF RegistryInv
  <2>5. /\ pc' = [pc EXCEPT ![c] = "close"] /\ tshm' = [tshm EXCEPT ![c] = own[c]]
        /\ Unlink(k)
    BY <1>11, <2>4 DEF pop_tshm, Goto
  <2>6. /\ mine' \in [Clients -> Ids \cup {NoId}] /\ own' \in [Clients -> Nodes \cup {NULL}]
        /\ UNCHANGED <<gen_caps, refs, range>>
    BY <1>0, <1>11 DEF pop_tshm, TypeOK
  <2>7. node[own[c]].next \in Nodes \cup {NULL}
    BY <1>0, <2>4 DEF TypeOK, Structs
  <2>8. shm_head' \in Nodes \cup {NULL} /\ node' \in [Nodes -> Structs]
    <3>1. CASE k = 0
      <4>1. own[c] = shm_head
        BY <2>1, <2>3, <3>1 DEF IsList
      <4> QED
        BY <1>0, <2>5, <2>7, <3>1, <4>1 DEF Unlink, TypeOK
    <3>2. CASE k # 0
      <4>1. k - 1 \in Nat /\ k - 1 \in 0 .. Cardinality(Nodes)
        BY <2>1, <2>4, <3>2, ListFits
      <4>2. At[k - 1] = g[k - 1] /\ k - 1 < n
        BY <2>1, <2>3, <4>1, WalkIsList
      <4>3. At[k - 1] \in Nodes
        BY <2>1, <4>1, <4>2 DEF IsList
      <4>4. node' = [node EXCEPT ![At[k - 1]] =
                       [node[At[k - 1]] EXCEPT !.next = node[own[c]].next]]
        BY <2>4, <2>5, <3>2 DEF Unlink
      <4>5. node[At[k - 1]] \in Structs
        BY <1>0, <4>3 DEF TypeOK
      <4>6. node' \in [Nodes -> Structs]
        BY <1>0, <2>7, <4>3, <4>4, <4>5, StructUpdates DEF TypeOK
      <4> QED
        BY <1>0, <2>5, <3>2, <4>6 DEF Unlink, TypeOK
    <3> QED
      BY <3>1, <3>2
  <2>9. own[c] # NULL
    BY <2>4, NullAssumption
  <2> QED
    BY <1>0, <2>4, <2>5, <2>6, <2>8, <2>9, TypeFrame DEF TypeOK
<1>12. ASSUME NEW c \in Clients, CloseFd(c) PROVE TypeOK'
  <2>1. refs' \in [Ids -> SUBSET {"fd", "map"}]
    BY <1>0, <1>12 DEF CloseFd, TypeOK
  <2>2. tshm[c] \in Nodes /\ tshm[c] # NULL /\ tshm' = [tshm EXCEPT ![c] = tshm[c]]
    BY <1>0, <1>12, Pointing DEF CloseFd, Goto, TypeOK
  <2> QED
    BY <1>0, <1>12, <2>1, <2>2, TypeFrame DEF CloseFd, Goto, TypeOK
<1>13. ASSUME NEW c \in Clients, Unmap(c) PROVE TypeOK'
  <2>1. tshm[c] \in Nodes /\ tshm[c] # NULL /\ node[tshm[c]] \in Structs
    BY <1>0, <1>13, Pointing DEF Unmap, Goto
  <2>2. /\ tshm' = [tshm EXCEPT ![c] = tshm[c]] /\ pc' = [pc EXCEPT ![c] = "free"]
        /\ UNCHANGED <<gen_caps, shm_head, range, mine, own>>
    BY <1>0, <1>13 DEF Unmap, Goto, TypeOK
  <2>3. [node EXCEPT ![tshm[c]] = [node[tshm[c]] EXCEPT !.p = "none"]] \in [Nodes -> Structs]
    BY <1>0, <2>1, StructUpdates DEF TypeOK
  <2>4. node' \in [Nodes -> Structs]
    BY <1>0, <1>13, <2>3 DEF Unmap, TypeOK
  <2>5. refs' \in [Ids -> SUBSET {"fd", "map"}]
    BY <1>0, <1>13 DEF Unmap, TypeOK
  <2> QED
    BY <1>0, <2>1, <2>2, <2>4, <2>5, TypeFrame DEF TypeOK
<1>14. ASSUME NEW c \in Clients, FreeStruct(c) PROVE TypeOK'
  <2>1. node' \in [Nodes -> Structs]
    BY <1>0, <1>14, Pointing, StructUpdates DEF FreeStruct, Goto, TypeOK
  <2> QED
    BY <1>0, <1>14, <2>1, TypeFrame DEF FreeStruct, Goto, TypeOK
<1> QED
  BY <1>1, <1>2, <1>4, <1>5, <1>6, <1>7, <1>8, <1>9, <1>10, <1>11, <1>12, <1>13, <1>14
  DEF Next

-----------------------------------------------------------------------------
(***************************************************************************)
(* Every step preserves the ownership of structs and ids.                  *)
(***************************************************************************)

\* The step is c's: the other clients and their threads stay where they are.
StepOf(c) ==
    /\ gen_caps' = gen_caps
    /\ \A d \in Clients \ {c} :
          /\ pc'[d] = pc[d] /\ tshm'[d] = tshm[d] /\ range'[d] = range[d]
          /\ mine'[d] = mine[d] /\ own'[d] = own[d]

\* The struct at a stays the same, but for the pointer to the next one when it is in use.
Kept(a) ==
    /\ node'[a].heap = node[a].heap /\ node'[a].id = node[a].id
    /\ node'[a].p = node[a].p /\ node'[a].size = node[a].size
    /\ node[a].heap = "free" => node'[a] = node[a]

\* A step of c touches only c's struct, which may be a new one or be freed, ...
StructStep(c) ==
    /\ \A a \in Nodes : a # Held(c) /\ a # Held(c)' => Kept(a)
    /\ Held(c)' # NULL => /\ Held(c)' \in Nodes /\ node'[Held(c)'].heap = "live"
                          /\ Held(c)' = Held(c) \/ node[Held(c)'].heap = "free"
    /\ Held(c) # NULL /\ Held(c)' # Held(c) => node'[Held(c)] = FreeNode

\* ... and only c's id, which may be a new one or be given back.
FdStep(c) ==
    /\ \A i \in Ids : i # Fd(c) /\ i # Fd(c)' => ("fd" \in refs'[i] <=> "fd" \in refs[i])
    /\ Fd(c)' # NoId => /\ Fd(c)' \in Ids /\ "fd" \in refs'[Fd(c)']
                        /\ Fd(c)' = Fd(c) \/ "fd" \notin refs[Fd(c)']
    /\ Fd(c) # NoId /\ Fd(c)' # Fd(c) => "fd" \notin refs'[Fd(c)]

LEMMA HeldLive ==
    ASSUME RegistryInv, NEW c \in Clients, Held(c) # NULL
    PROVE  Held(c) \in Nodes /\ node[Held(c)].heap = "live"
<1>1. Held(c) \in Nodes
  BY DEF RegistryInv, TypeOK, Held
<1> QED
  BY <1>1 DEF RegistryInv, Owned

LEMMA FdOpen ==
    ASSUME RegistryInv, NEW c \in Clients, Fd(c) # NoId
    PROVE  Fd(c) \in Ids /\ "fd" \in refs[Fd(c)]
<1>1. Fd(c) \in Ids
  BY DEF RegistryInv, TypeOK, ClientInv, Fd
<1> QED
  BY <1>1 DEF RegistryInv, Owned

\* What such a step leaves of another client.
LEMMA OthersKept ==
    ASSUME RegistryInv, NEW c \in Clients, StepOf(c), StructStep(c),
           NEW d \in Clients \ {c}
    PROVE  /\ Held(d)' = Held(d) /\ Fd(d)' = Fd(d)
           /\ Held(d) # NULL => Held(d) \in Nodes /\ Kept(Held(d))
           /\ ClientInv(d)'
<1>1. Owns(d)' = Owns(d) /\ Private(d)' = Private(d) /\ Held(d)' = Held(d)
  BY DEF StepOf, Owns, Private, Held
<1>2. ASSUME Held(d) # NULL PROVE Held(d) \in Nodes /\ Kept(Held(d))
  <2>1. Held(d) \in Nodes /\ node[Held(d)].heap = "live"
    BY <1>2, HeldLive
  <2>2. Held(d) # Held(c)
    BY <1>2 DEF RegistryInv, Apart
  <2>3. Held(d) # Held(c)'
    BY <1>2, <2>1, <2>2 DEF StructStep
  <2> QED
    BY <2>1, <2>2, <2>3 DEF StructStep
<1>3. ASSUME Private(d) \/ pc[d] \in {"check", "use"}
      PROVE  /\ tshm[d] = Held(d) /\ tshm'[d] = tshm[d]
             /\ node'[tshm[d]].id = node[tshm[d]].id /\ node'[tshm[d]].p = node[tshm[d]].p
             /\ node'[tshm[d]].size = node[tshm[d]].size
  <2>1. tshm[d] # NULL
    BY <1>3, NullAssumption DEF RegistryInv, TypeOK, Private
  <2>2. tshm[d] = Held(d)
    BY <2>1, PointerHeld
  <2> QED
    BY <1>2, <2>1, <2>2 DEF Kept, StepOf
<1>4. ASSUME Owns(d)
      PROVE  own'[d] = own[d] /\ node'[own[d]].id = node[own[d]].id
             /\ node'[own[d]].p = node[own[d]].p
  <2>1. own[d] = Held(d) /\ own[d] # NULL
    BY <1>4, NullAssumption DEF RegistryInv, ClientInv, Held
  <2> QED
    BY <1>2, <2>1 DEF Kept, StepOf
<1>5. Fd(d)' = Fd(d)
  BY <1>1, <1>3 DEF StepOf, Fd, Private
<1>6. ClientInv(d)
  BY DEF RegistryInv
<1>7. /\ pc'[d] = pc[d] /\ tshm'[d] = tshm[d] /\ range'[d] = range[d]
      /\ mine'[d] = mine[d] /\ own'[d] = own[d] /\ Registers' = Registers
  BY DEF StepOf, Registers
<1>8. ClientInv(d)'
  BY <1>1, <1>3, <1>4, <1>6, <1>7 DEF ClientInv, Private
<1> QED
  BY <1>1, <1>2, <1>5, <1>8

\* So a step that keeps to c's struct and id keeps the ownership of all.
LEMMA OwnershipStep ==
    ASSUME RegistryInv, TypeOK', NEW c \in Clients, StepOf(c), StructStep(c), FdStep(c),
           ClientInv(c)'
    PROVE  (\A d \in Clients : ClientInv(d)') /\ Apart' /\ Owned'
<1>1. \A d \in Clients : ClientInv(d)'
  BY OthersKept
<1>2. \A d \in Clients \ {c} : Held(d)' = Held(d) /\ Fd(d)' = Fd(d)
  BY OthersKept
<1>3. ASSUME NEW d \in Clients \ {c}
      PROVE  /\ Held(d) # NULL => Held(d) # Held(c)'
             /\ Fd(d) # NoId => Fd(d) # Fd(c)'
  <2>1. ASSUME Held(d) # NULL PROVE Held(d) # Held(c)'
    <3>1. Held(d) # Held(c) /\ node[Held(d)].heap = "live"
      BY <2>1, HeldLive DEF RegistryInv, Apart
    <3> QED
      BY <2>1, <3>1 DEF StructStep
  <2>2. ASSUME Fd(d) # NoId PROVE Fd(d) # Fd(c)'
    <3>1. Fd(d) # Fd(c) /\ "fd" \in refs[Fd(d)]
      BY <2>2, FdOpen DEF RegistryInv, Apart
    <3> QED
      BY <2>2, <3>1 DEF FdStep
  <2> QED
    BY <2>1, <2>2
<1>4. Apart'
  <2> SUFFICES ASSUME NEW d \in Clients, NEW e \in Clients, d # e
               PROVE  /\ Held(d)' # NULL => Held(d)' # Held(e)'
                      /\ Fd(d)' # NoId => Fd(d)' # Fd(e)'
    BY DEF Apart
  <2>1. CASE d = c
    BY <1>2, <1>3, <2>1
  <2>2. CASE e = c
    BY <1>2, <1>3, <2>2
  <2>3. CASE d # c /\ e # c
    BY <1>2, <2>3 DEF RegistryInv, Apart
  <2> QED
    BY <2>1, <2>2, <2>3
<1>5. ASSUME NEW a \in Nodes
      PROVE  /\ node'[a].heap = "live" <=> \E d \in Clients : Held(d)' = a
             /\ node'[a].heap = "free" => node'[a] = FreeNode
  <2>0. a # NULL
    BY NullAssumption
  <2>1. CASE a = Held(c)'
    <3>1. node'[a].heap = "live"
      BY <2>0, <2>1 DEF StructStep
    <3> QED
      BY <2>1, <3>1
  <2>2. CASE a # Held(c)' /\ a = Held(c)
    <3>1. node'[a] = FreeNode /\ node'[a].heap = "free"
      BY <2>0, <2>2 DEF StructStep, FreeNode
    <3>2. \A d \in Clients \ {c} : Held(d) # a
      BY <2>0, <2>2 DEF RegistryInv, Apart
    <3> QED
      BY <1>2, <2>2, <3>1, <3>2
  <2>3. CASE a # Held(c)' /\ a # Held(c)
    <3>1. Kept(a)
      BY <2>3 DEF StructStep
    <3>2. /\ node[a].heap = "live" <=> \E d \in Clients : Held(d) = a
          /\ node[a].heap = "free" => node[a] = FreeNode
      BY DEF RegistryInv, Owned
    <3>3. (\E d \in Clients : Held(d)' = a) <=> \E d \in Clients : Held(d) = a
      BY <1>2, <2>3
    <3> QED
      BY <3>1, <3>2, <3>3 DEF Kept
  <2> QED
    BY <2>1, <2>2, <2>3
<1>6. ASSUME NEW i \in Ids
      PROVE  "fd" \in refs'[i] <=> \E d \in Clients : Fd(d)' = i
  <2>0. i # NoId
    BY NoIdAssumption
  <2>1. CASE i = Fd(c)'
    BY <2>0, <2>1 DEF FdStep
  <2>2. CASE i # Fd(c)' /\ i = Fd(c)
    <3>1. "fd" \notin refs'[i]
      BY <2>0, <2>2 DEF FdStep
    <3>2. \A d \in Clients \ {c} : Fd(d) # i
      BY <2>0, <2>2 DEF RegistryInv, Apart
    <3> QED
      BY <1>2, <2>2, <3>1, <3>2
  <2>3. CASE i # Fd(c)' /\ i # Fd(c)
    <3>1. "fd" \in refs'[i] <=> "fd" \in refs[i]
      BY <2>3 DEF FdStep
    <3>2. "fd" \in refs[i] <=> \E d \in Clients : Fd(d) = i
      BY DEF RegistryInv, Owned
    <3>3. (\E d \in Clients : Fd(d)' = i) <=> \E d \in Clients : Fd(d) = i
      BY <1>2, <2>3
    <3> QED
      BY <3>1, <3>2, <3>3
  <2> QED
    BY <2>1, <2>2, <2>3
<1>7. Owned'
  BY <1>5, <1>6 DEF Owned
<1> QED
  BY <1>1, <1>4, <1>7

\* The list stays as it is when nobody gets or gives up a buffer.
LEMMA ListKept ==
    ASSUME RegistryInv, shm_head' = shm_head, mine' = mine, own' = own,
           \A c \in Clients : Owns(c) => node'[own[c]].next = node[own[c]].next
    PROVE  ListInv'
<1>1. PICK g \in [Nat -> Nodes \cup {NULL}], n \in Nat : IsList(g, n) /\ IsOwners(g, n)
  BY DEF RegistryInv, ListInv
<1>2. IsOwners(g, n)'
  BY <1>1 DEF IsOwners, Owns
<1>3. \A k \in Nat : k < n => node'[g[k]].next = node[g[k]].next
  BY <1>1 DEF IsOwners
<1>4. IsList(g, n)'
  BY <1>1, <1>3 DEF IsList
<1> QED
  BY <1>2, <1>4 DEF ListInv

\* get_param's tests leave out no wrapped sum.
LEMMA FitsInside ==
    ASSUME NEW sz \in Word, NEW offs \in Word, NEW size \in Word, Fits(sz, offs, size)
    PROVE  offs + sz <= size
<1> DEFINE M == 2^W
<1>1. M \in Int /\ sz \in 0 .. M - 1 /\ offs \in 0 .. M - 1 /\ size \in 0 .. M - 1
  BY WidthAssumption DEF Word
<1>2. LET end == (sz + offs) % M IN ~(end < sz) /\ ~(end > size)
  BY DEF Fits
<1> HIDE DEF M
<1>3. M > 0
  BY <1>1
<1>4. CASE sz + offs < M
  <2>1. (sz + offs) % M = sz + offs
    BY <1>1, <1>3, <1>4
  <2> QED
    BY <1>1, <1>2, <2>1
<1>5. CASE sz + offs >= M
  <2>1. sz + offs < M + M
    BY <1>1
  <2>2. (sz + offs) % M = sz + offs - M
    BY <1>1, <1>3, <1>5, <2>1
  <2> QED
    BY <1>1, <1>2, <1>3, <2>2
<1> QED
  BY <1>1, <1>4, <1>5

\* A free struct, or one that a thread makes or releases, is not in the list.
LEMMA OutsideList ==
    ASSUME RegistryInv, NEW c \in Clients, NEW a \in Nodes,
           node[a].heap = "free" \/ (Private(c) /\ a = tshm[c]),
           NEW d \in Clients, Owns(d)
    PROVE  own[d] # a /\ own[d] \in Nodes
<1>1. own[d] \in Nodes /\ own[d] = Held(d) /\ own[d] # NULL
  BY NullAssumption DEF RegistryInv, ClientInv, Held
<1>2. CASE node[a].heap = "free"
  BY <1>1, <1>2, HeldLive
<1>3. CASE Private(c) /\ a = tshm[c]
  <2>1. ~Owns(c)
    BY <1>3 DEF RegistryInv, ClientInv
  <2>2. Held(c) = a /\ c # d
    BY <1>3, <2>1 DEF Held
  <2> QED
    BY <1>1, <2>2 DEF RegistryInv, Apart
<1> QED
  BY <1>1, <1>2, <1>3

LEMMA RegistryInit == Init => RegistryInv
<1> SUFFICES ASSUME Init PROVE RegistryInv
  OBVIOUS
<1>1. TypeOK
  BY TypeInit
<1>2. \A c \in Clients : ~Owns(c) /\ Held(c) = NULL /\ Fd(c) = NoId /\ pc[c] = "idle"
  BY DEF Init, Owns, Held, Fd, Private
<1>3. \A c \in Clients : ClientInv(c)
  BY <1>2 DEF ClientInv
<1>4. Apart
  BY <1>2 DEF Apart
<1>5. Owned
  <2>1. \A a \in Nodes : node[a] = FreeNode /\ node[a].heap = "free" /\ a # NULL
    BY NullAssumption DEF Init, FreeNode
  <2>2. \A i \in Ids : refs[i] = {} /\ i # NoId
    BY NoIdAssumption DEF Init
  <2> QED
    BY <1>2, <2>1, <2>2 DEF Owned
<1>6. ListInv
  <2> DEFINE g == [k \in Nat |-> NULL]
  <2>1. g \in [Nat -> Nodes \cup {NULL}] /\ 0 \in Nat /\ \A k \in Nat : g[k] = NULL
    OBVIOUS
  <2> HIDE DEF g
  <2>2. IsList(g, 0) /\ IsOwners(g, 0)
    BY <1>2, <2>1 DEF IsList, IsOwners, Init
  <2> QED
    BY <2>1, <2>2 DEF ListInv
<1> QED
  BY <1>1, <1>3, <1>4, <1>5, <1>6 DEF RegistryInv

\* A step of c that ends in a state with these parts ends in one of the invariant.
LEMMA StepParts ==
    ASSUME RegistryInv, [Next]_vars, NEW c \in Clients, StepOf(c), StructStep(c), FdStep(c),
           ClientInv(c)', ListInv'
    PROVE  RegistryInv'
<1>1. TypeOK'
  BY TypeStep
<1>2. (\A d \in Clients : ClientInv(d)') /\ Apart' /\ Owned'
  BY <1>1, OwnershipStep
<1> QED
  BY <1>1, <1>2 DEF RegistryInv

\* The requests for a buffer, up to the list.
LEMMA AllocSteps ==
    ASSUME RegistryInv, [Next]_vars, NEW c \in Clients,
           process_alloc(c) \/ ShmIoctl(c) \/ Mmap(c)
    PROVE  RegistryInv'
<1>0. TypeOK /\ ClientInv(c)
  BY DEF RegistryInv
<1>1. CASE process_alloc(c)
  <2>1. PICK a \in Nodes, s \in Sizes :
           /\ node[a].heap = "free"
           /\ node' = [node EXCEPT ![a] =
                         [FreeNode EXCEPT !.heap = "live", !.size = s, !.p = FirstMemory]]
           /\ tshm' = [tshm EXCEPT ![c] = a]
    BY <1>1 DEF process_alloc
  <2>2. /\ mine[c] = NoId /\ pc[c] = "idle" /\ pc' = [pc EXCEPT ![c] = "ioctl"]
        /\ UNCHANGED <<gen_caps, shm_head, refs, range, mine, own>>
    BY <1>1 DEF process_alloc, Goto
  <2>3. StepOf(c)
    BY <1>0, <2>1, <2>2 DEF StepOf, TypeOK
  <2>4. pc'[c] = "ioctl" /\ tshm'[c] = a /\ mine'[c] = NoId
    BY <1>0, <2>1, <2>2 DEF TypeOK
  <2>5. \A b \in Nodes \ {a} : node'[b] = node[b]
    BY <1>0, <2>1 DEF TypeOK
  <2>6. node'[a].heap = "live" /\ node'[a].p = FirstMemory
    BY <1>0, <2>1 DEF TypeOK, FreeNode
  <2>7. Held(c) = NULL /\ Held(c)' = a /\ Fd(c) = NoId /\ Fd(c)' = NoId /\ ~Owns(c)'
    BY <2>2, <2>4 DEF Held, Fd, Owns, Private
  <2>8. StructStep(c)
    BY <2>1, <2>5, <2>6, <2>7 DEF StructStep, Kept
  <2>9. FdStep(c)
    BY <2>2, <2>7 DEF FdStep
  <2>10. ClientInv(c)'
    BY <2>2, <2>4, <2>6, <2>7 DEF ClientInv, FirstMemory, Registers
  <2>11. ListInv'
    BY <2>1, <2>2, <2>5, OutsideList, ListKept
  <2> QED
    BY <2>3, <2>8, <2>9, <2>10, <2>11, StepParts
<1>2. ASSUME pc[c] \in {"ioctl", "mmap"}, AllocFails(c, pc[c]),
             UNCHANGED <<gen_caps, shm_head, range, mine, own>>,
             IF pc[c] = "mmap" THEN refs' = [refs EXCEPT ![node[tshm[c]].id] = @ \ {"fd"}]
                               ELSE UNCHANGED refs
      PROVE  RegistryInv'
  <2>1. Private(c) /\ ~Owns(c) /\ mine[c] = NoId
    BY <1>0, <1>2 DEF ClientInv, Private, Owns
  <2>2. /\ pc' = [pc EXCEPT ![c] = "idle"] /\ tshm' = [tshm EXCEPT ![c] = NULL]
        /\ node' = [node EXCEPT ![tshm[c]] = FreeNode]
    BY <1>2 DEF AllocFails, Goto
  <2>3. StepOf(c)
    BY <1>0, <1>2, <2>2 DEF StepOf, TypeOK
  <2>4. pc'[c] = "idle" /\ tshm'[c] = NULL /\ mine'[c] = NoId
    BY <1>0, <1>2, <2>1, <2>2 DEF TypeOK
  <2>5. tshm[c] \in Nodes
    BY <1>0, <1>2, Pointing
  <2>6. node'[tshm[c]] = FreeNode /\ \A b \in Nodes \ {tshm[c]} : node'[b] = node[b]
    BY <1>0, <2>2, <2>5 DEF TypeOK
  <2>7. Held(c) = tshm[c] /\ Held(c)' = NULL /\ Fd(c)' = NoId /\ ~Owns(c)'
    BY <2>1, <2>4 DEF Held, Fd, Owns, Private
  <2>8. StructStep(c)
    BY <2>6, <2>7 DEF StructStep, Kept
  <2>9. FdStep(c)
    <3>1. CASE pc[c] = "ioctl"
      <4>1. Fd(c) = NoId
        BY <2>1, <3>1 DEF Fd
      <4> QED
        BY <1>2, <2>7, <3>1, <4>1 DEF FdStep
    <3>2. CASE pc[c] = "mmap"
      <4>1. Fd(c) = node[tshm[c]].id /\ Fd(c) \in Ids
        BY <1>0, <2>1, <3>2 DEF Fd, ClientInv
      <4>2. refs' = [refs EXCEPT ![Fd(c)] = @ \ {"fd"}]
        BY <1>2, <3>2, <4>1
      <4>3. "fd" \notin refs'[Fd(c)] /\ \A i \in Ids \ {Fd(c)} : refs'[i] = refs[i]
        BY <1>0, <4>1, <4>2 DEF TypeOK
      <4> QED
        BY <2>7, <4>1, <4>3 DEF FdStep
    <3> QED
      BY <1>2, <3>1, <3>2
  <2>10. ClientInv(c)'
    BY <2>4, <2>7 DEF ClientInv
  <2>11. ListInv'
    BY <1>2, <2>1, <2>5, <2>6, OutsideList, ListKept
  <2> QED
    BY <2>3, <2>8, <2>9, <2>10, <2>11, StepParts
<1>3. CASE ShmIoctl(c)
  <2>1. ASSUME Goto(c, "ioctl", IF Registers THEN "push" ELSE "mmap"),
               NEW i \in Ids, refs[i] = {}, refs' = [refs EXCEPT ![i] = {"fd"}],
               node' = [node EXCEPT ![tshm[c]].id = i],
               UNCHANGED <<gen_caps, shm_head, tshm, range, mine, own>>
        PROVE  RegistryInv'
    <3>1. pc[c] = "ioctl" /\ Private(c) /\ ~Owns(c) /\ mine[c] = NoId
      BY <1>0, <2>1 DEF ClientInv, Private, Owns, Goto
    <3>2. StepOf(c)
      BY <1>0, <2>1 DEF StepOf, TypeOK, Goto
    <3>3. PICK to \in {"push", "mmap"} : /\ pc' = [pc EXCEPT ![c] = to] /\ pc'[c] = to
                                         /\ to = "push" <=> Registers
      BY <1>0, <2>1 DEF TypeOK, Goto
    <3>4. tshm[c] \in Nodes /\ node[tshm[c]] \in Structs
      BY <1>0, <3>1, Pointing
    <3>5. /\ node'[tshm[c]] = [node[tshm[c]] EXCEPT !.id = i]
          /\ \A b \in Nodes \ {tshm[c]} : node'[b] = node[b]
      BY <1>0, <2>1, <3>4 DEF TypeOK
    <3>6. /\ node'[tshm[c]].id = i /\ node'[tshm[c]].p = node[tshm[c]].p
          /\ node'[tshm[c]].heap = node[tshm[c]].heap
      BY <3>4, <3>5 DEF Structs
    <3>7. Held(c) = tshm[c] /\ Held(c)' = tshm[c] /\ Fd(c) = NoId /\ Fd(c)' = i /\ ~Owns(c)'
      BY <2>1, <3>1, <3>3, <3>6 DEF Held, Fd, Owns, Private
    <3>8. node[tshm[c]].heap = "live"
      BY <3>4, <3>7, NullAssumption, HeldLive
    <3>9. StructStep(c)
      BY <3>4, <3>5, <3>6, <3>7, <3>8 DEF StructStep, Kept
    <3>10. "fd" \in refs'[i] /\ \A j \in Ids \ {i} : refs'[j] = refs[j]
      BY <1>0, <2>1 DEF TypeOK
    <3>11. FdStep(c)
      BY <2>1, <3>7, <3>10 DEF FdStep
    <3>12. ClientInv(c)'
      <4>1. Registers => node[tshm[c]].p = "memory"
        BY <1>0, <3>1 DEF ClientInv
      <4> QED
        BY <2>1, <3>3, <3>6, <3>7, <4>1 DEF ClientInv, Registers
    <3>13. ListInv'
      BY <2>1, <3>1, <3>4, <3>5, OutsideList, ListKept
    <3> QED
      BY <3>2, <3>9, <3>11, <3>12, <3>13, StepParts
  <2>2. ASSUME AllocFails(c, "ioctl"), UNCHANGED <<gen_caps, shm_head, refs, range, mine, own>>
        PROVE  RegistryInv'
    <3>1. pc[c] = "ioctl"
      BY <2>2 DEF AllocFails, Goto
    <3> QED
      BY <1>2, <2>2, <3>1
  <2> QED
    BY <1>3, <2>1, <2>2 DEF ShmIoctl
<1>4. CASE Mmap(c)
  <2>1. ASSUME Goto(c, "mmap", "push"),
               refs' = [refs EXCEPT ![node[tshm[c]].id] = @ \cup {"map"}],
               node' = [node EXCEPT ![tshm[c]].p = "map"],
               UNCHANGED <<gen_caps, shm_head, tshm, range, mine, own>>
        PROVE  RegistryInv'
    <3>1. pc[c] = "mmap" /\ Private(c) /\ ~Owns(c) /\ mine[c] = NoId
      BY <1>0, <2>1 DEF ClientInv, Private, Owns, Goto
    <3>2. StepOf(c)
      BY <1>0, <2>1 DEF StepOf, TypeOK, Goto
    <3>3. pc'[c] = "push"
      BY <1>0, <2>1 DEF TypeOK, Goto
    <3>4. tshm[c] \in Nodes /\ node[tshm[c]] \in Structs
      BY <1>0, <3>1, Pointing
    <3>5. /\ node'[tshm[c]] = [node[tshm[c]] EXCEPT !.p = "map"]
          /\ \A b \in Nodes \ {tshm[c]} : node'[b] = node[b]
      BY <1>0, <2>1, <3>4 DEF TypeOK
    <3>6. /\ node'[tshm[c]].id = node[tshm[c]].id /\ node'[tshm[c]].p = "map"
          /\ node'[tshm[c]].heap = node[tshm[c]].heap
      BY <3>4, <3>5 DEF Structs
    <3>7. /\ Held(c) = tshm[c] /\ Held(c)' = tshm[c] /\ ~Owns(c)'
          /\ Fd(c) = node[tshm[c]].id /\ Fd(c)' = Fd(c) /\ Fd(c) \in Ids
      BY <1>0, <2>1, <3>1, <3>3, <3>6 DEF Held, Fd, Owns, Private, ClientInv
    <3>8. node[tshm[c]].heap = "live"
      BY <3>4, <3>7, NullAssumption, HeldLive
    <3>9. StructStep(c)
      BY <3>4, <3>5, <3>6, <3>7, <3>8 DEF StructStep, Kept
    <3>10. refs' = [refs EXCEPT ![Fd(c)] = @ \cup {"map"}]
      BY <2>1, <3>7
    <3>11. \A j \in Ids : "fd" \in refs'[j] <=> "fd" \in refs[j]
      BY <1>0, <3>7, <3>10 DEF TypeOK
    <3>12. "fd" \in refs[Fd(c)]
      BY <3>7, NoIdAssumption, FdOpen
    <3>13. FdStep(c)
      BY <3>7, <3>11, <3>12 DEF FdStep
    <3>14. ClientInv(c)'
      BY <2>1, <3>3, <3>6, <3>7 DEF ClientInv
    <3>15. ListInv'
      BY <2>1, <3>1, <3>4, <3>5, OutsideList, ListKept
    <3> QED
      BY <3>2, <3>9, <3>13, <3>14, <3>15, StepParts
  <2>2. ASSUME AllocFails(c, "mmap"), UNCHANGED <<gen_caps, shm_head, range, mine, own>>,
               refs' = [refs EXCEPT ![node[tshm[c]].id] = @ \ {"fd"}]
        PROVE  RegistryInv'
    <3>1. pc[c] = "mmap"
      BY <2>2 DEF AllocFails, Goto
    <3> QED
      BY <1>2, <2>2, <3>1
  <2> QED
    BY <1>4, <2>1, <2>2 DEF Mmap
<1> QED
  BY <1>1, <1>3, <1>4

\* push_tshm puts a struct that no other client has in front of the list.
LEMMA PushStep ==
    ASSUME RegistryInv, [Next]_vars, NEW c \in Clients, push_tshm(c)
    PROVE  RegistryInv'
<1>0. TypeOK /\ ClientInv(c)
  BY DEF RegistryInv
<1>a. PICK a \in Nodes : a = tshm[c]
  BY <1>0, Pointing DEF push_tshm, Goto
<1>1. /\ pc[c] = "push" /\ pc' = [pc EXCEPT ![c] = "idle"] /\ shm_head' = a
      /\ node' = [node EXCEPT ![a].next = shm_head]
      /\ mine' = [mine EXCEPT ![c] = node[a].id] /\ own' = [own EXCEPT ![c] = a]
      /\ tshm' = [tshm EXCEPT ![c] = NULL] /\ UNCHANGED <<gen_caps, refs, range>>
  BY <1>a DEF push_tshm, Goto
<1>2. Private(c) /\ ~Owns(c) /\ mine[c] = NoId
  BY <1>0, <1>1 DEF ClientInv, Private, Owns
<1>3. a \in Nodes /\ a # NULL /\ node[a] \in Structs
  BY <1>0, <1>1, <1>a, Pointing
<1>4. node[a].id \in Ids /\ node[a].p # "none"
  BY <1>0, <1>1, <1>a DEF ClientInv
<1>5. /\ pc'[c] = "idle" /\ tshm'[c] = NULL /\ mine'[c] = node[a].id /\ own'[c] = a
      /\ \A d \in Clients \ {c} : mine'[d] = mine[d] /\ own'[d] = own[d]
  BY <1>0, <1>1 DEF TypeOK
<1>6. StepOf(c)
  BY <1>0, <1>1 DEF StepOf, TypeOK
<1>7. /\ node'[a] = [node[a] EXCEPT !.next = shm_head]
      /\ \A b \in Nodes \ {a} : node'[b] = node[b]
  BY <1>0, <1>1, <1>3 DEF TypeOK
<1>8. /\ node'[a].id = node[a].id /\ node'[a].p = node[a].p /\ node'[a].heap = node[a].heap
      /\ node'[a].next = shm_head
  BY <1>3, <1>7 DEF Structs
<1>9. /\ Held(c) = a /\ Held(c)' = a /\ Owns(c)' /\ ~Private(c)'
      /\ Fd(c) = node[a].id /\ Fd(c)' = node[a].id
  BY <1>a, <1>1, <1>2, <1>4, <1>5, NoIdAssumption DEF Held, Fd, Owns, Private
<1>10. node[a].heap = "live"
  BY <1>3, <1>9, HeldLive
<1>11. StructStep(c)
  BY <1>3, <1>7, <1>8, <1>9, <1>10 DEF StructStep, Kept
<1>12. FdStep(c)
  <2>1. Fd(c) \in Ids /\ "fd" \in refs[Fd(c)]
    BY <1>4, <1>9, NoIdAssumption, FdOpen
  <2> QED
    BY <1>1, <1>9, <2>1 DEF FdStep
<1>13. ClientInv(c)'
  BY <1>3, <1>4, <1>5, <1>8, <1>9 DEF ClientInv
<1>14. ListInv'
  <2>1. PICK g \in [Nat -> Nodes \cup {NULL}], n \in Nat : IsList(g, n) /\ IsOwners(g, n)
    BY DEF RegistryInv, ListInv
  <2> DEFINE h == [k \in Nat |-> IF k = 0 THEN a ELSE g[k - 1]]
  <2>2. h \in [Nat -> Nodes \cup {NULL}] /\ n + 1 \in Nat /\ h[0] = a
        /\ \A k \in Nat : h[k + 1] = g[k]
    BY <1>3
  <2> HIDE DEF h
  <2>3. \A k \in Nat : k = 0 \/ (k - 1 \in Nat /\ (k - 1) + 1 = k)
    OBVIOUS
  <2>4. ASSUME NEW k \in Nat, k < n PROVE g[k] # a /\ g[k] \in Nodes
    <3>1. PICK d \in Clients : Owns(d) /\ own[d] = g[k]
      BY <2>1, <2>4 DEF IsOwners
    <3> QED
      BY <1>a, <1>2, <1>3, <3>1, OutsideList
  <2>5. \A k \in Nat : h[k] = NULL <=> k >= n + 1
    <3>1. ASSUME NEW k \in Nat PROVE h[k + 1] = NULL <=> k + 1 >= n + 1
      <4>1. h[k + 1] = g[k] /\ (g[k] = NULL <=> k >= n)
        BY <2>1, <2>2 DEF IsList
      <4>2. k >= n <=> k + 1 >= n + 1
        OBVIOUS
      <4> QED
        BY <4>1, <4>2
    <3>2. h[0] # NULL /\ ~(0 >= n + 1)
      BY <1>3, <2>2
    <3>3. ASSUME NEW k \in Nat PROVE h[k] = NULL <=> k >= n + 1
      <4>1. CASE k = 0
        BY <3>2, <4>1
      <4>2. CASE k # 0
        <5>1. k - 1 \in Nat /\ (k - 1) + 1 = k
          BY <4>2
        <5> QED
          BY <3>1, <5>1
      <4> QED
        BY <4>1, <4>2
    <3> QED
      BY <3>3
  <2>6. ASSUME NEW j \in Nat, NEW k \in Nat, h[j] = h[k], h[j] # NULL PROVE j = k
    <3>1. ASSUME NEW i \in Nat, h[i + 1] = a PROVE FALSE
      <4>1. g[i] = a
        BY <2>2, <3>1
      <4>2. i < n
        BY <1>3, <2>1, <4>1 DEF IsList
      <4> QED
        BY <2>4, <4>1, <4>2
    <3>2. CASE j = 0
      BY <2>2, <2>3, <2>6, <3>1, <3>2
    <3>3. CASE k = 0
      BY <2>2, <2>3, <2>6, <3>1, <3>3
    <3>4. CASE j # 0 /\ k # 0
      <4>1. j - 1 \in Nat /\ k - 1 \in Nat /\ (j - 1) + 1 = j /\ (k - 1) + 1 = k
        BY <3>4
      <4>2. g[j - 1] = h[j] /\ g[k - 1] = h[k]
        BY <2>2, <4>1
      <4>3. j - 1 = k - 1
        BY <2>1, <2>6, <4>1, <4>2 DEF IsList
      <4> QED
        BY <4>3
    <3> QED
      BY <3>2, <3>3, <3>4
  <2>7. ASSUME NEW k \in Nat, k < n + 1 PROVE node'[h[k]].next = h[k + 1]
    <3>1. CASE k = 0
      <4>1. shm_head = g[0] /\ h[0 + 1] = g[0]
        BY <2>1, <2>2 DEF IsList
      <4> QED
        BY <1>8, <2>2, <3>1, <4>1
    <3>2. CASE k # 0
      <4>1. k - 1 \in Nat /\ (k - 1) + 1 = k /\ k - 1 < n
        BY <2>7, <3>2
      <4>2. h[k] = g[k - 1] /\ h[k + 1] = g[k]
        BY <2>2, <4>1
      <4>3. node'[g[k - 1]] = node[g[k - 1]]
        BY <1>7, <2>4, <4>1
      <4>4. node[g[k - 1]].next = g[(k - 1) + 1]
        BY <2>1, <4>1 DEF IsList
      <4> QED
        BY <4>1, <4>2, <4>3, <4>4
    <3> QED
      BY <3>1, <3>2
  <2>8. IsList(h, n + 1)'
    BY <1>1, <2>2, <2>5, <2>6, <2>7 DEF IsList
  <2>9. \A d \in Clients \ {c} : Owns(d)' = Owns(d)
    BY <1>5 DEF Owns
  <2>10. ASSUME NEW k \in Nat, k < n + 1
         PROVE  \E d \in Clients : Owns(d)' /\ own'[d] = h[k]
    <3>1. CASE k = 0
      BY <1>5, <1>9, <2>2, <3>1
    <3>2. CASE k # 0
      <4>1. k - 1 \in Nat /\ (k - 1) + 1 = k /\ k - 1 < n
        BY <2>10, <3>2
      <4>2. PICK d \in Clients : Owns(d) /\ own[d] = g[k - 1]
        BY <2>1, <4>1 DEF IsOwners
      <4>3. d # c /\ h[k] = g[k - 1]
        BY <1>2, <2>2, <4>1, <4>2
      <4> QED
        BY <1>5, <2>9, <4>2, <4>3
    <3> QED
      BY <3>1, <3>2
  <2>11. ASSUME NEW d \in Clients, Owns(d)'
         PROVE  \E k \in Nat : k < n + 1 /\ own'[d] = h[k]
    <3>1. CASE d = c
      <4>1. 0 \in Nat /\ 0 < n + 1
        OBVIOUS
      <4> QED
        BY <1>5, <2>2, <3>1, <4>1
    <3>2. CASE d # c
      <4>1. PICK k \in Nat : k < n /\ own[d] = g[k]
        BY <2>1, <2>9, <2>11, <3>2 DEF IsOwners
      <4>2. k + 1 \in Nat /\ k + 1 < n + 1 /\ own'[d] = h[k + 1]
        BY <1>5, <2>2, <3>2, <4>1
      <4> QED
        BY <4>2
    <3> QED
      BY <3>1, <3>2
  <2>12. IsOwners(h, n + 1)'
    BY <2>10, <2>11 DEF IsOwners
  <2> QED
    BY <2>2, <2>8, <2>12 DEF ListInv
<1> QED
  BY <1>6, <1>11, <1>12, <1>13, <1>14, StepParts

\* pop_tshm takes out the struct of the client, wherever it is in the list.
LEMMA PopStep ==
    ASSUME RegistryInv, [Next]_vars, NEW c \in Clients, pop_tshm(c)
    PROVE  RegistryInv'
<1> DEFINE a == own[c]
<1>0. TypeOK /\ ClientInv(c)
  BY DEF RegistryInv
<1>1. Owns(c) /\ pc[c] = "pop"
  BY <1>0 DEF pop_tshm, ClientInv
<1>2. PICK g \in [Nat -> Nodes \cup {NULL}], n \in Nat : IsList(g, n) /\ IsOwners(g, n)
  BY DEF RegistryInv, ListInv
<1>3. PICK j \in Nat : j < n /\ a = g[j]
  BY <1>1, <1>2 DEF IsOwners
<1>4. /\ j \in 0 .. Cardinality(Nodes) /\ At[j] = a /\ a \in Nodes
      /\ Positions(mine[c]) = {j} /\ First(Positions(mine[c])) = j /\ Find(mine[c]) = a
  BY <1>1, <1>2, <1>3, PositionOf DEF RegistryInv
<1>5. a # NULL /\ node[a].id = mine[c] /\ node[a].p # "none" /\ mine[c] \in Ids
  BY <1>0, <1>1, <1>4, NullAssumption DEF ClientInv, TypeOK, Owns
<1> HIDE DEF a
<1>6. /\ pc' = [pc EXCEPT ![c] = "close"] /\ tshm' = [tshm EXCEPT ![c] = a]
      /\ mine' = [mine EXCEPT ![c] = NoId] /\ own' = [own EXCEPT ![c] = NULL]
      /\ Unlink(j) /\ UNCHANGED <<gen_caps, refs, range>>
  BY <1>4 DEF pop_tshm, Goto
<1>7. /\ pc'[c] = "close" /\ tshm'[c] = a /\ mine'[c] = NoId
      /\ \A d \in Clients \ {c} : mine'[d] = mine[d] /\ own'[d] = own[d]
  BY <1>0, <1>6 DEF TypeOK
<1>8. StepOf(c)
  BY <1>0, <1>6 DEF StepOf, TypeOK
<1>9. \A k \in Nat : k < n => g[k] \in Nodes /\ node[g[k]].heap = "live"
  <2> SUFFICES ASSUME NEW k \in Nat, k < n PROVE g[k] \in Nodes /\ node[g[k]].heap = "live"
    OBVIOUS
  <2>1. PICK d \in Clients : Owns(d) /\ own[d] = g[k]
    BY <1>2 DEF IsOwners
  <2>2. Held(d) = g[k] /\ g[k] # NULL
    BY <1>2, <2>1 DEF Held, IsList
  <2> QED
    BY <2>2, HeldLive
\* What Unlink does to the structs of the list.
<1>10. /\ shm_head' = IF j = 0 THEN g[1] ELSE g[0]
       /\ \A b \in Nodes : Kept(b)
       /\ \A k \in Nat : k < n => node'[g[k]].next = IF k + 1 = j THEN g[j + 1] ELSE g[k + 1]
  <2>1. node[a].next = g[j + 1]
    BY <1>2, <1>3 DEF IsList
  <2>2. CASE j = 0
    <3>1. shm_head = a /\ shm_head' = node[shm_head].next /\ node' = node
      BY <1>2, <1>3, <1>6, <2>2 DEF Unlink, IsList
    <3>2. shm_head' = g[1]
      BY <2>1, <2>2, <3>1
    <3>3. \A k \in Nat : k + 1 # 0
      OBVIOUS
    <3> QED
      BY <1>2, <2>2, <3>1, <3>2, <3>3 DEF Kept, IsList
  <2>3. CASE j # 0
    <3>1. j - 1 \in Nat /\ j - 1 \in 0 .. Cardinality(Nodes) /\ j - 1 < n
      BY <1>2, <1>3, <1>4, <2>3, ListFits
    <3>2. At[j - 1] = g[j - 1]
      BY <1>2, <3>1, WalkIsList
    <3> DEFINE b == g[j - 1]
    <3>3. b \in Nodes /\ node[b].heap = "live" /\ node[b] \in Structs
      BY <1>0, <1>9, <3>1 DEF TypeOK
    <3>4. node' = [node EXCEPT ![b] = [node[b] EXCEPT !.next = g[j + 1]]] /\ shm_head' = shm_head
      BY <1>4, <1>6, <2>1, <2>3, <3>2 DEF Unlink
    <3> HIDE DEF b
    <3>5. /\ node'[b] = [node[b] EXCEPT !.next = g[j + 1]]
          /\ \A x \in Nodes \ {b} : node'[x] = node[x]
      BY <1>0, <3>3, <3>4 DEF TypeOK
    <3>6. /\ node'[b].heap = node[b].heap /\ node'[b].id = node[b].id
          /\ node'[b].p = node[b].p /\ node'[b].size = node[b].size
          /\ node'[b].next = g[j + 1]
      BY <3>3, <3>5 DEF Structs
    <3>7. \A x \in Nodes : Kept(x)
      BY <3>3, <3>5, <3>6 DEF Kept
    <3>8. ASSUME NEW k \in Nat, k < n
          PROVE  node'[g[k]].next = IF k + 1 = j THEN g[j + 1] ELSE g[k + 1]
      <4>1. CASE k + 1 = j
        <5>1. k = j - 1
          BY <4>1
        <5> QED
          BY <3>6, <4>1, <5>1 DEF b
      <4>2. CASE k + 1 # j
        <5>1. k # j - 1
          BY <3>1, <4>2
        <5>2. g[k] # b /\ g[k] \in Nodes
          BY <1>2, <1>9, <3>1, <3>8, <5>1 DEF b, IsList
        <5> QED
          BY <1>2, <3>5, <3>8, <4>2, <5>2 DEF IsList
      <4> QED
        BY <4>1, <4>2
    <3> QED
      BY <1>2, <2>3, <3>4, <3>7, <3>8 DEF IsList
  <2> QED
    BY <2>2, <2>3
<1>11. /\ Held(c) = a /\ Held(c)' = a /\ ~Owns(c)' /\ Private(c)'
       /\ Fd(c) = mine[c] /\ Fd(c)' = mine[c]
  <2>1. node'[a].id = node[a].id
    BY <1>4, <1>10 DEF Kept
  <2> QED
    BY <1>1, <1>5, <1>7, <2>1 DEF Held, Fd, Owns, Private, a
<1>12. StructStep(c)
  <2>1. node'[a].heap = "live"
    BY <1>4, <1>3, <1>9, <1>10 DEF Kept
  <2> QED
    BY <1>4, <1>10, <1>11, <2>1 DEF StructStep
<1>13. FdStep(c)
  <2>1. Fd(c) \in Ids /\ "fd" \in refs[Fd(c)]
    BY <1>5, <1>11, NoIdAssumption, FdOpen
  <2> QED
    BY <1>6, <1>11, <2>1 DEF FdStep
<1>14. ClientInv(c)'
  <2>1. node'[a].id = node[a].id
    BY <1>4, <1>10 DEF Kept
  <2> QED
    BY <1>5, <1>7, <1>11, <2>1 DEF ClientInv
<1>15. ListInv'
  <2> DEFINE h == [k \in Nat |-> IF k < j THEN g[k] ELSE g[k + 1]]
  <2>1. h \in [Nat -> Nodes \cup {NULL}] /\ n - 1 \in Nat
    BY <1>3
  <2>2. \A k \in Nat : h[k] = IF k < j THEN g[k] ELSE g[k + 1]
    OBVIOUS
  <2> HIDE DEF h
  <2>3. ASSUME NEW k \in Nat PROVE h[k] = NULL <=> k >= n - 1
    <3>1. CASE k < j
      BY <1>2, <1>3, <2>2, <3>1 DEF IsList
    <3>2. CASE ~(k < j)
      <4>1. g[k + 1] = NULL <=> k + 1 >= n
        BY <1>2 DEF IsList
      <4> QED
        BY <2>2, <3>2, <4>1
    <3> QED
      BY <3>1, <3>2
  <2>4. ASSUME NEW i \in Nat, NEW k \in Nat, h[i] = h[k], h[i] # NULL PROVE i = k
    <3>1. PICK x \in Nat : h[i] = g[x] /\ x = (IF i < j THEN i ELSE i + 1)
      BY <2>2
    <3>2. PICK y \in Nat : h[k] = g[y] /\ y = (IF k < j THEN k ELSE k + 1)
      BY <2>2
    <3>3. x = y
      BY <1>2, <2>4, <3>1, <3>2 DEF IsList
    <3> QED
      BY <3>1, <3>2, <3>3
  <2>5. shm_head' = h[0]
    <3>1. CASE j = 0
      BY <1>10, <2>2, <3>1
    <3>2. CASE j # 0
      <4>1. 0 < j
        BY <3>2
      <4> QED
        BY <1>10, <2>2, <3>2, <4>1
    <3> QED
      BY <3>1, <3>2
  <2>6. ASSUME NEW k \in Nat, k < n - 1 PROVE node'[h[k]].next = h[k + 1]
    <3>1. CASE k < j
      <4>1. h[k] = g[k] /\ k < n
        BY <1>3, <2>2, <3>1
      <4>2. CASE k + 1 = j
        <5>1. h[k + 1] = g[j + 1]
          BY <2>2, <4>2
        <5> QED
          BY <1>10, <4>1, <4>2, <5>1
      <4>3. CASE k + 1 # j
        <5>1. h[k + 1] = g[k + 1]
          BY <2>2, <3>1, <4>3
        <5> QED
          BY <1>10, <4>1, <4>3, <5>1
      <4> QED
        BY <4>2, <4>3
    <3>2. CASE ~(k < j)
      <4>1. h[k] = g[k + 1] /\ h[k + 1] = g[(k + 1) + 1] /\ k + 1 < n /\ (k + 1) + 1 # j
        BY <2>2, <2>6, <3>2
      <4> QED
        BY <1>10, <4>1
    <3> QED
      BY <3>1, <3>2
  <2>7. IsList(h, n - 1)'
    BY <2>1, <2>3, <2>4, <2>5, <2>6 DEF IsList
  <2>8. \A d \in Clients \ {c} : Owns(d)' = Owns(d)
    BY <1>7 DEF Owns
  <2>9. ASSUME NEW k \in Nat, k < n - 1
        PROVE  \E d \in Clients : Owns(d)' /\ own'[d] = h[k]
    <3>1. PICK x \in Nat : x < n /\ x # j /\ h[k] = g[x]
      <4>1. CASE k < j
        BY <1>3, <2>2, <4>1
      <4>2. CASE ~(k < j)
        <5>1. k + 1 \in Nat /\ k + 1 < n /\ k + 1 # j /\ h[k] = g[k + 1]
          BY <2>2, <2>9, <4>2
        <5> QED
          BY <5>1
      <4> QED
        BY <4>1, <4>2
    <3>2. PICK d \in Clients : Owns(d) /\ own[d] = g[x]
      BY <1>2, <3>1 DEF IsOwners
    <3>3. d # c
      BY <1>2, <1>3, <1>5, <3>1, <3>2 DEF IsList, a
    <3> QED
      BY <1>7, <2>8, <3>1, <3>2, <3>3
  <2>10. ASSUME NEW d \in Clients, Owns(d)'
         PROVE  \E k \in Nat : k < n - 1 /\ own'[d] = h[k]
    <3>1. d # c /\ Owns(d) /\ own'[d] = own[d]
      BY <1>7, <1>11, <2>8, <2>10
    <3>2. PICK x \in Nat : x < n /\ own[d] = g[x]
      BY <1>2, <3>1 DEF IsOwners
    <3>3. x # j
      <4>1. Held(d) = own[d] /\ Held(d) # Held(c)
        BY <1>5, <1>11, <3>1 DEF Held, RegistryInv, Apart
      <4> QED
        BY <1>3, <1>11, <3>2, <4>1
    <3>4. CASE x < j
      <4>1. x < n - 1 /\ h[x] = g[x]
        BY <1>3, <2>2, <3>4
      <4> QED
        BY <3>1, <3>2, <4>1
    <3>5. CASE ~(x < j)
      <4>1. x - 1 \in Nat /\ ~(x - 1 < j) /\ (x - 1) + 1 = x /\ x - 1 < n - 1
        BY <3>2, <3>3, <3>5
      <4>2. h[x - 1] = g[x]
        BY <2>2, <4>1
      <4> QED
        BY <3>1, <3>2, <4>1, <4>2
    <3> QED
      BY <3>4, <3>5
  <2>11. IsOwners(h, n - 1)'
    BY <2>9, <2>10 DEF IsOwners
  <2> QED
    BY <2>1, <2>7, <2>11 DEF ListInv
<1> QED
  BY <1>8, <1>12, <1>13, <1>14, <1>15, StepParts

\* The steps of a request with a memref, and the start of a free: nothing changes
\* hands.
LEMMA QuietStep ==
    ASSUME RegistryInv, [Next]_vars, NEW c \in Clients, StepOf(c),
           UNCHANGED <<shm_head, node, refs, mine, own>>,
           ~Private(c), ~Private(c)', ClientInv(c)'
    PROVE  RegistryInv'
<1>1. Held(c)' = Held(c) /\ Fd(c)' = Fd(c)
  BY DEF Held, Fd, Owns, Private
<1>2. StructStep(c)
  BY <1>1, HeldLive DEF StructStep, Kept
<1>3. FdStep(c)
  BY <1>1, FdOpen DEF FdStep
<1>4. ListInv'
  BY ListKept
<1> QED
  BY <1>2, <1>3, <1>4, StepParts

LEMMA UseSteps ==
    ASSUME RegistryInv, [Next]_vars, NEW c \in Clients,
           \/ Command(c) \/ find_tshm(c) \/ get_param(c) \/ UseBuffer(c) \/ process_free(c)
    PROVE  RegistryInv'
<1>0. TypeOK /\ ClientInv(c)
  BY DEF RegistryInv
<1>1. UNCHANGED <<gen_caps, shm_head, node, refs, mine, own>>
  BY DEF Command, find_tshm, get_param, UseBuffer, process_free
<1>2. Owns(c)' = Owns(c)
  BY <1>1 DEF Owns
<1>3. CASE Command(c) \/ process_free(c)
  <2>1. PICK to \in {"find", "pop"} :
           pc[c] = "idle" /\ pc' = [pc EXCEPT ![c] = to] /\ (to = "pop" => Owns(c))
    BY <1>3 DEF Command, process_free, Goto, Owns
  <2>2. pc'[c] = to /\ StepOf(c)
    BY <1>0, <1>1, <1>3, <2>1 DEF TypeOK, StepOf, Command, process_free
  <2>3. ~Private(c) /\ ~Private(c)'
    BY <2>1, <2>2 DEF Private
  <2>4. ClientInv(c)'
    BY <1>0, <1>1, <1>2, <2>1, <2>2, <2>3 DEF ClientInv
  <2> QED
    BY <1>1, <2>2, <2>3, <2>4, QuietStep
<1>4. CASE find_tshm(c)
  <2>1. Find(mine[c]) = IF Owns(c) THEN own[c] ELSE NULL
    BY FindOwn
  <2>2. Owns(c) => own[c] # NULL
    BY <1>0, NullAssumption DEF ClientInv
  <2>3. PICK to \in {"idle", "check"} :
           /\ pc[c] = "find" /\ pc' = [pc EXCEPT ![c] = to]
           /\ tshm' = [tshm EXCEPT ![c] = Find(mine[c])]
           /\ to = "check" => Owns(c)
    BY <1>4, <2>1, <2>2 DEF find_tshm, Goto
  <2>4. pc'[c] = to /\ tshm'[c] = Find(mine[c])
    BY <1>0, <2>3 DEF TypeOK
  <2>5. StepOf(c)
    BY <1>0, <1>1, <1>4, <2>3 DEF TypeOK, StepOf, find_tshm
  <2>6. ~Private(c) /\ ~Private(c)'
    BY <2>3, <2>4 DEF Private
  <2>7. ClientInv(c)'
    BY <1>0, <1>1, <1>2, <2>1, <2>3, <2>4, <2>6 DEF ClientInv
  <2> QED
    BY <1>1, <2>5, <2>6, <2>7, QuietStep
<1>5. CASE get_param(c)
  <2>1. PICK sz \in Word, offs \in Word :
           IF Fits(sz, offs, node[tshm[c]].size)
           THEN /\ Goto(c, "check", "use")
                /\ range' = [range EXCEPT ![c] = [sz |-> sz, offs |-> offs]]
                /\ UNCHANGED tshm
           ELSE /\ Goto(c, "check", "idle")
                /\ tshm' = [tshm EXCEPT ![c] = NULL]
                /\ UNCHANGED range
    BY <1>5 DEF get_param
  <2>2. pc[c] = "check" /\ ~Private(c)
    BY <1>5 DEF get_param, Private
  <2>3. tshm[c] \in Nodes /\ node[tshm[c]].size \in Word
    BY <1>0, <2>2, Pointing DEF Structs
  <2>4. Owns(c) /\ tshm[c] = own[c]
    BY <1>0, <2>2 DEF ClientInv
  <2>5. StepOf(c)
    BY <1>0, <1>1, <2>1 DEF TypeOK, StepOf, Goto
  <2>6. CASE Fits(sz, offs, node[tshm[c]].size)
    <3>1. /\ pc'[c] = "use" /\ tshm' = tshm
          /\ range'[c].sz = sz /\ range'[c].offs = offs
      BY <1>0, <2>1, <2>6 DEF TypeOK, Goto
    <3>2. offs + sz <= node[tshm[c]].size
      BY <2>3, <2>6, FitsInside
    <3>3. ~Private(c)'
      BY <3>1 DEF Private
    <3>4. ClientInv(c)'
      BY <1>0, <1>1, <1>2, <2>4, <3>1, <3>2, <3>3 DEF ClientInv
    <3> QED
      BY <1>1, <2>2, <2>5, <3>3, <3>4, QuietStep
  <2>7. CASE ~Fits(sz, offs, node[tshm[c]].size)
    <3>1. pc'[c] = "idle"
      BY <1>0, <2>1, <2>7 DEF TypeOK, Goto
    <3>2. ~Private(c)'
      BY <3>1 DEF Private
    <3>3. ClientInv(c)'
      BY <1>0, <1>1, <1>2, <3>1, <3>2 DEF ClientInv
    <3> QED
      BY <1>1, <2>2, <2>5, <3>2, <3>3, QuietStep
  <2> QED
    BY <2>6, <2>7
<1>6. CASE UseBuffer(c)
  <2>1. pc[c] = "use" /\ pc'[c] = "idle" /\ StepOf(c)
    BY <1>0, <1>6 DEF TypeOK, UseBuffer, Goto, StepOf
  <2>2. ~Private(c) /\ ~Private(c)'
    BY <2>1 DEF Private
  <2>3. ClientInv(c)'
    BY <1>0, <1>1, <1>2, <2>1, <2>2 DEF ClientInv
  <2> QED
    BY <1>1, <2>1, <2>2, <2>3, QuietStep
<1> QED
  BY <1>3, <1>4, <1>5, <1>6

\* process_free after pop_tshm.
LEMMA FreeSteps ==
    ASSUME RegistryInv, [Next]_vars, NEW c \in Clients,
           CloseFd(c) \/ Unmap(c) \/ FreeStruct(c)
    PROVE  RegistryInv'
<1>0. TypeOK /\ ClientInv(c)
  BY DEF RegistryInv
<1>1. /\ UNCHANGED <<gen_caps, shm_head, range, mine, own>>
      /\ pc[c] \in {"close", "unmap", "free"}
  BY DEF CloseFd, Unmap, FreeStruct, Goto
<1>2. Private(c) /\ ~Owns(c) /\ ~Owns(c)' /\ mine[c] = NoId
  BY <1>0, <1>1 DEF ClientInv, Private, Owns
<1>3. tshm[c] \in Nodes /\ tshm[c] # NULL /\ node[tshm[c]] \in Structs
  BY <1>0, <1>1, Pointing
<1>4. Held(c) = tshm[c]
  BY <1>2 DEF Held
<1>5. node[tshm[c]].heap = "live"
  BY <1>3, <1>4, HeldLive
<1>6. StepOf(c)
  BY <1>0, <1>1 DEF TypeOK, StepOf, CloseFd, Unmap, FreeStruct, Goto
<1>7. CASE CloseFd(c)
  <2>1. pc[c] = "close" /\ pc'[c] = "unmap" /\ tshm' = tshm /\ node' = node
    BY <1>0, <1>7 DEF TypeOK, CloseFd, Goto
  <2>2. Private(c)' /\ Held(c)' = tshm[c] /\ Fd(c)' = NoId
    BY <1>2, <2>1 DEF Private, Held, Fd
  <2>3. Fd(c) = node[tshm[c]].id /\ Fd(c) \in Ids
    BY <1>0, <1>2, <2>1 DEF Fd, ClientInv
  <2>4. refs' = [refs EXCEPT ![Fd(c)] = @ \ {"fd"}]
    BY <1>7, <2>3 DEF CloseFd
  <2>5. "fd" \notin refs'[Fd(c)] /\ \A i \in Ids \ {Fd(c)} : refs'[i] = refs[i]
    BY <1>0, <2>3, <2>4 DEF TypeOK
  <2>6. StructStep(c)
    BY <1>3, <1>4, <1>5, <2>1, <2>2 DEF StructStep, Kept
  <2>7. FdStep(c)
    BY <2>2, <2>5 DEF FdStep
  <2>8. ClientInv(c)'
    BY <1>2, <2>1, <2>2 DEF ClientInv
  <2>9. ListInv'
    BY <1>1, <2>1, ListKept
  <2> QED
    BY <1>6, <2>6, <2>7, <2>8, <2>9, StepParts
<1>8. CASE Unmap(c)
  <2>1. pc[c] = "unmap" /\ pc'[c] = "free" /\ tshm' = tshm
    BY <1>0, <1>8 DEF TypeOK, Unmap, Goto
  <2>2. Private(c)' /\ Held(c)' = tshm[c] /\ Fd(c) = NoId /\ Fd(c)' = NoId
    BY <1>2, <2>1 DEF Private, Held, Fd
  <2>3. node' = node \/ node' = [node EXCEPT ![tshm[c]] = [node[tshm[c]] EXCEPT !.p = "none"]]
    BY <1>8 DEF Unmap
  <2>4. node'[tshm[c]].heap = "live" /\ \A b \in Nodes \ {tshm[c]} : node'[b] = node[b]
    BY <1>0, <1>3, <1>5, <2>3 DEF TypeOK, Structs
  <2>5. \A i \in Ids : "fd" \in refs'[i] <=> "fd" \in refs[i]
    <3>1. CASE refs' = refs
      BY <3>1
    <3>2. CASE refs' = [refs EXCEPT ![node[tshm[c]].id] =
                           IF node[tshm[c]].p = "map" THEN @ \ {"map"} ELSE @]
      <4>1. CASE node[tshm[c]].p = "map"
        BY <1>0, <3>2, <4>1 DEF TypeOK
      <4>2. CASE node[tshm[c]].p # "map"
        BY <1>0, <3>2, <4>2 DEF TypeOK
      <4> QED
        BY <4>1, <4>2
    <3> QED
      BY <1>8, <3>1, <3>2 DEF Unmap
  <2>6. StructStep(c)
    BY <1>3, <1>4, <2>2, <2>4 DEF StructStep, Kept
  <2>7. FdStep(c)
    BY <2>2, <2>5 DEF FdStep
  <2>8. ClientInv(c)'
    BY <1>2, <2>1, <2>2 DEF ClientInv
  <2>9. ListInv'
    BY <1>1, <1>2, <1>3, <2>4, OutsideList, ListKept
  <2> QED
    BY <1>6, <2>6, <2>7, <2>8, <2>9, StepParts
<1>9. CASE FreeStruct(c)
  <2>1. /\ pc[c] = "free" /\ pc'[c] = "idle" /\ tshm'[c] = NULL /\ refs' = refs
        /\ node'[tshm[c]] = FreeNode /\ \A b \in Nodes \ {tshm[c]} : node'[b] = node[b]
    BY <1>0, <1>3, <1>9 DEF TypeOK, FreeStruct, Goto
  <2>2. Held(c)' = NULL /\ Fd(c) = NoId /\ Fd(c)' = NoId
    BY <1>2, <2>1 DEF Private, Held, Fd
  <2>3. StructStep(c)
    BY <1>4, <2>1, <2>2 DEF StructStep, Kept
  <2>4. FdStep(c)
    BY <2>1, <2>2 DEF FdStep
  <2>5. ClientInv(c)'
    BY <1>2, <2>1 DEF ClientInv
  <2>6. ListInv'
    BY <1>1, <1>2, <1>3, <2>1, OutsideList, ListKept
  <2> QED
    BY <1>6, <2>3, <2>4, <2>5, <2>6, StepParts
<1> QED
  BY <1>7, <1>8, <1>9

LEMMA RegistryStep == RegistryInv /\ [Next]_vars => RegistryInv'
<1> SUFFICES ASSUME RegistryInv, [Next]_vars PROVE RegistryInv'
  OBVIOUS
<1>1. CASE UNCHANGED vars
  <2>1. TypeOK'
    BY TypeStep
  <2>2. /\ gen_caps' = gen_caps /\ shm_head' = shm_head /\ node' = node /\ refs' = refs
        /\ pc' = pc /\ tshm' = tshm /\ range' = range /\ mine' = mine /\ own' = own
    BY <1>1 DEF vars
  <2>3. \A c \in Clients : Held(c)' = Held(c) /\ Fd(c)' = Fd(c)
    BY <2>2 DEF Held, Fd, Owns, Private
  <2>4. \A c \in Clients : ClientInv(c)'
    BY <2>2 DEF RegistryInv, ClientInv, Owns, Private, Registers
  <2>5. Apart' /\ Owned'
    BY <2>2, <2>3 DEF RegistryInv, Apart, Owned
  <2>6. ListInv'
    BY <2>2, ListKept
  <2> QED
    BY <2>1, <2>4, <2>5, <2>6 DEF RegistryInv
<1> QED
  BY <1>1, AllocSteps, PushStep, UseSteps, PopStep, FreeSteps DEF Next

-----------------------------------------------------------------------------
(***************************************************************************)
(* The theorems, for any clients, finitely many structs, any ids and       *)
(* sizes, and any width of size_t.                                         *)
(***************************************************************************)

\* The structs, pointers and ids are well typed.
THEOREM RegistryTypeCorrect == Spec => []TypeOK
<1>1. RegistryInv => TypeOK
  BY DEF RegistryInv
<1> QED
  BY <1>1, RegistryInit, RegistryStep, PTL DEF Spec

\* Walking the list of shared buffers ends, and meets only structs that are
\* allocated, mapped and of different ids, at every point of every interleaving.
THEOREM ListIsSound == Spec => []ListSound
BY RegistryInit, RegistryStep, ListSoundHolds, PTL DEF Spec

\* find_tshm gives a client its own struct, whatever other threads allocate and free.
THEOREM FindsOwnBuffer == Spec => []OwnBuffer
BY RegistryInit, RegistryStep, OwnBufferHolds, PTL DEF Spec

\* A pointer to a struct that a thread uses outside shm_mutex is never dangling, and
\* nobody else has one to a struct that is being released.
THEOREM PointersAreLive == Spec => []PointersLive
BY RegistryInit, RegistryStep, PointersLiveHolds, PTL DEF Spec

\* What a handler reads or writes lies inside its buffer, for every width of size_t:
\* get_param refuses every sum that wraps around.
THEOREM UseInBounds == Spec => []InBounds
BY RegistryInit, RegistryStep, InBoundsHolds, PTL DEF Spec

\* When no request is under way and no client has a buffer, no struct, list entry or
\* descriptor is left.
THEOREM NothingLeaks == Spec => []NoLeak
BY RegistryInit, RegistryStep, NoLeakHolds, PTL DEF Spec
=============================================================================
