---------------------------- MODULE ShmRegistry ----------------------------
(***************************************************************************)
(* The shared-memory list of tee-supplicant (tee_supplicant.c): the        *)
(* buffers the secure world has asked for, in a linked list of struct      *)
(* tee_shm under shm_mutex.  A handler looks a buffer up under the mutex   *)
(* and uses it without; a free takes the struct off the list under the     *)
(* mutex and releases it without.                                          *)
(*                                                                         *)
(* A secure-world thread has one request under way at a time, so "the      *)
(* thread that handles c's request" is named by c.  One action is a        *)
(* section under shm_mutex, a system call, or the use of the buffer.       *)
(***************************************************************************)
EXTENDS Integers, FiniteSets

CONSTANTS
    Clients,    \* the secure-world threads
    Nodes,      \* the addresses calloc can return for a struct tee_shm
    NULL,
    Ids,        \* the ids the kernel can give to a shared buffer
    W,          \* the width of size_t
    Sizes       \* the sizes asked for

ASSUME NodesAssumption == IsFiniteSet(Nodes)
ASSUME NullAssumption == NULL \notin Nodes
ASSUME WidthAssumption == W \in Nat \ {0}

Word == 0 .. 2^W - 1
\* (WidthAssumption implies it; the provers know no laws of ^.)
ASSUME WordAssumption == 0 \in Word
ASSUME SizesAssumption == Sizes \subseteq Word

NoId == "no id"
ASSUME NoIdAssumption == NoId \notin Ids

VARIABLES
    gen_caps,       \* "REG_MEM" if the device registers user memory, else "none"
    shm_head,
    node,           \* struct tee_shm at each address
    refs,           \* what keeps each id in use in the kernel (external)
    pc,             \* where the thread that handles a client's request stands
    tshm,           \* its pointer to a struct tee_shm
    range,          \* the part of the buffer it uses
    mine,           \* the id a client has been given
    own             \* the struct made for it (history variable)

vars == <<gen_caps, shm_head, node, refs, pc, tshm, range, mine, own>>

FreeNode == [heap |-> "free", id |-> NoId, p |-> "none", size |-> 0, next |-> NULL]
NoRange == [sz |-> 0, offs |-> 0]

PCs == {"idle", "ioctl", "mmap", "push", "find", "check", "use",
        "pop", "close", "unmap", "free"}

Init ==
    /\ gen_caps \in {"REG_MEM", "none"}
    /\ shm_head = NULL
    /\ node = [a \in Nodes |-> FreeNode]
    /\ refs = [i \in Ids |-> {}]
    /\ pc = [c \in Clients |-> "idle"]
    /\ tshm = [c \in Clients |-> NULL]
    /\ range = [c \in Clients |-> NoRange]
    /\ mine = [c \in Clients |-> NoId]
    /\ own = [c \in Clients |-> NULL]

Goto(c, from, to) == pc[c] = from /\ pc' = [pc EXCEPT ![c] = to]

(***************************************************************************)
(* The list.                                                               *)
(***************************************************************************)

\* The k-th struct of the list, counted from 0.
At[k \in 0 .. Cardinality(Nodes)] ==
    IF k = 0 THEN shm_head
    ELSE IF At[k - 1] = NULL THEN NULL ELSE node[At[k - 1]].next

Positions(id) == {k \in DOMAIN At : At[k] # NULL /\ node[At[k]].id = id}
First(S) == CHOOSE k \in S : \A j \in S : k <= j

\* find_tshm: the first struct with this id.
Find(id) == IF Positions(id) = {} THEN NULL ELSE At[First(Positions(id))]

\* Mutants of Unlink: a struct behind the head stays linked; the head moves past it
\* and loses the structs before it.
Unlink_OnlyHead(k) ==
    /\ shm_head' = IF k = 0 THEN node[shm_head].next ELSE shm_head
    /\ UNCHANGED node

Unlink_Cuts(k) == shm_head' = node[At[k]].next /\ UNCHANGED node

\* pop_tshm: unlink the struct at position k from the head or from its
\* predecessor; its own next pointer stays.
Unlink(k) ==
    IF k = 0 THEN shm_head' = node[shm_head].next /\ UNCHANGED node
    ELSE /\ node' = [node EXCEPT ![At[k - 1]].next = node[At[k]].next]
         /\ UNCHANGED shm_head

(***************************************************************************)
(* OPTEE_MSG_RPC_CMD_SHM_ALLOC: process_alloc, with register_local_shm or  *)
(* alloc_shm.                                                              *)
(***************************************************************************)
Registers == gen_caps = "REG_MEM"

\* paged_aligned_alloc: only a buffer that will be registered has memory before the ioctl.
FirstMemory == IF Registers THEN "memory" ELSE "none"

\* Memory for the struct (and, to register it, for the buffer).  When there is
\* none the reply is TEEC_ERROR_OUT_OF_MEMORY and nothing has changed.
process_alloc(c) ==
    /\ mine[c] = NoId
    /\ Goto(c, "idle", "ioctl")
    /\ \E a \in Nodes, s \in Sizes :
          /\ node[a].heap = "free"
          /\ node' = [node EXCEPT ![a] =
                         [FreeNode EXCEPT !.heap = "live", !.size = s, !.p = FirstMemory]]
          /\ tshm' = [tshm EXCEPT ![c] = a]
    /\ UNCHANGED <<gen_caps, shm_head, refs, range, mine, own>>

\* Mutant of AllocFails: the freed struct's address is returned, not NULL.
AllocFails_Dangling(c, from) ==
    /\ Goto(c, from, "idle")
    /\ node' = [node EXCEPT ![tshm[c]] = FreeNode]
    /\ UNCHANGED tshm

\* The struct and what hangs off it are freed, and the reply is an error.
AllocFails(c, from) ==
    /\ Goto(c, from, "idle")
    /\ node' = [node EXCEPT ![tshm[c]] = FreeNode]
    /\ tshm' = [tshm EXCEPT ![c] = NULL]

\* TEE_IOC_SHM_REGISTER or TEE_IOC_SHM_ALLOC: the kernel chooses an id not in use.
ShmIoctl(c) ==
    \/ /\ Goto(c, "ioctl", IF Registers THEN "push" ELSE "mmap")
       /\ \E i \in Ids :
             /\ refs[i] = {}
             /\ refs' = [refs EXCEPT ![i] = {"fd"}]
             /\ node' = [node EXCEPT ![tshm[c]].id = i]
       /\ UNCHANGED <<gen_caps, shm_head, tshm, range, mine, own>>
    \/ /\ AllocFails(c, "ioctl")
       /\ UNCHANGED <<gen_caps, shm_head, refs, range, mine, own>>

\* Mutant of Mmap: the descriptor stays open when mmap fails.
Mmap_KeepsFd(c) ==
    \/ /\ Goto(c, "mmap", "push")
       /\ refs' = [refs EXCEPT ![node[tshm[c]].id] = @ \cup {"map"}]
       /\ node' = [node EXCEPT ![tshm[c]].p = "map"]
       /\ UNCHANGED <<gen_caps, shm_head, tshm, range, mine, own>>
    \/ /\ AllocFails(c, "mmap")
       /\ UNCHANGED <<gen_caps, shm_head, refs, range, mine, own>>

\* alloc_shm: mmap, which keeps the id in use as the descriptor does.
Mmap(c) ==
    \/ /\ Goto(c, "mmap", "push")
       /\ refs' = [refs EXCEPT ![node[tshm[c]].id] = @ \cup {"map"}]
       /\ node' = [node EXCEPT ![tshm[c]].p = "map"]
       /\ UNCHANGED <<gen_caps, shm_head, tshm, range, mine, own>>
    \/ /\ AllocFails(c, "mmap")
       /\ refs' = [refs EXCEPT ![node[tshm[c]].id] = @ \ {"fd"}]
       /\ UNCHANGED <<gen_caps, shm_head, range, mine, own>>

\* push_tshm, and the reply with the id.
push_tshm(c) ==
    /\ Goto(c, "push", "idle")
    /\ node' = [node EXCEPT ![tshm[c]].next = shm_head]
    /\ shm_head' = tshm[c]
    /\ mine' = [mine EXCEPT ![c] = node[tshm[c]].id]
    /\ own' = [own EXCEPT ![c] = tshm[c]]
    /\ tshm' = [tshm EXCEPT ![c] = NULL]
    /\ UNCHANGED <<gen_caps, refs, range>>

(***************************************************************************)
(* A request with a memref: get_param or tee_supp_param_to_va, then the    *)
(* handler.                                                                *)
(***************************************************************************)
Command(c) ==
    /\ Goto(c, "idle", "find")
    /\ UNCHANGED <<gen_caps, shm_head, node, refs, tshm, range, mine, own>>

\* A client without a buffer sends an id that is not in the list: it asks for the
\* size it needs, or the handler refuses.
find_tshm(c) ==
    /\ Goto(c, "find", IF Find(mine[c]) = NULL THEN "idle" ELSE "check")
    /\ tshm' = [tshm EXCEPT ![c] = Find(mine[c])]
    /\ UNCHANGED <<gen_caps, shm_head, node, refs, range, mine, own>>

\* Mutant of Fits: a sum that wraps around is not noticed.
Fits_Wraps(sz, offs, size) == ~((sz + offs) % 2^W > size)

\* get_param's tests, in size_t arithmetic.
Fits(sz, offs, size) ==
    LET end == (sz + offs) % 2^W IN ~(end < sz) /\ ~(end > size)

\* The struct is read after find_tshm has released shm_mutex.
get_param(c) ==
    /\ pc[c] = "check"
    /\ \E sz, offs \in Word :
          IF Fits(sz, offs, node[tshm[c]].size)
          THEN /\ Goto(c, "check", "use")
               /\ range' = [range EXCEPT ![c] = [sz |-> sz, offs |-> offs]]
               /\ UNCHANGED tshm
          ELSE /\ Goto(c, "check", "idle")
               /\ tshm' = [tshm EXCEPT ![c] = NULL]
               /\ UNCHANGED range
    /\ UNCHANGED <<gen_caps, shm_head, node, refs, mine, own>>

\* The handler reads or writes the buffer, and replies.
UseBuffer(c) ==
    /\ Goto(c, "use", "idle")
    /\ tshm' = [tshm EXCEPT ![c] = NULL]
    /\ range' = [range EXCEPT ![c] = NoRange]
    /\ UNCHANGED <<gen_caps, shm_head, node, refs, mine, own>>

(***************************************************************************)
(* OPTEE_MSG_RPC_CMD_SHM_FREE: process_free.                               *)
(***************************************************************************)
process_free(c) ==
    /\ mine[c] # NoId
    /\ Goto(c, "idle", "pop")
    /\ UNCHANGED <<gen_caps, shm_head, node, refs, tshm, range, mine, own>>

pop_tshm(c) ==
    /\ pc[c] = "pop"
    /\ IF Positions(mine[c]) = {}
       THEN /\ Goto(c, "pop", "idle")
            /\ UNCHANGED <<shm_head, node, tshm>>
       ELSE /\ Goto(c, "pop", "close")
            /\ tshm' = [tshm EXCEPT ![c] = Find(mine[c])]
            /\ Unlink(First(Positions(mine[c])))
    /\ mine' = [mine EXCEPT ![c] = NoId]
    /\ own' = [own EXCEPT ![c] = NULL]
    /\ UNCHANGED <<gen_caps, refs, range>>

CloseFd(c) ==
    /\ Goto(c, "close", "unmap")
    /\ refs' = [refs EXCEPT ![node[tshm[c]].id] = @ \ {"fd"}]
    /\ UNCHANGED <<gen_caps, shm_head, node, tshm, range, mine, own>>

\* Mutant of Unmap: the struct is freed with the failed mapping, and again after it.
Unmap_FreesTwice(c) ==
    /\ Goto(c, "unmap", "free")
    /\ \/ /\ node' = [node EXCEPT ![tshm[c]].p = "none"]
          /\ refs' = [refs EXCEPT ![node[tshm[c]].id] =
                         IF node[tshm[c]].p = "map" THEN @ \ {"map"} ELSE @]
       \/ /\ node[tshm[c]].p = "map"
          /\ node' = [node EXCEPT ![tshm[c]] = FreeNode]
          /\ UNCHANGED refs
    /\ UNCHANGED <<gen_caps, shm_head, tshm, range, mine, own>>

\* free(p) or munmap.  When munmap fails, the mapping stays and process_free says
\* so, but frees the struct all the same.
Unmap(c) ==
    /\ Goto(c, "unmap", "free")
    /\ \/ /\ node' = [node EXCEPT ![tshm[c]].p = "none"]
          /\ refs' = [refs EXCEPT ![node[tshm[c]].id] =
                         IF node[tshm[c]].p = "map" THEN @ \ {"map"} ELSE @]
       \/ node[tshm[c]].p = "map" /\ UNCHANGED <<node, refs>>
    /\ UNCHANGED <<gen_caps, shm_head, tshm, range, mine, own>>

FreeStruct(c) ==
    /\ Goto(c, "free", "idle")
    /\ node' = [node EXCEPT ![tshm[c]] = FreeNode]
    /\ tshm' = [tshm EXCEPT ![c] = NULL]
    /\ UNCHANGED <<gen_caps, shm_head, refs, range, mine, own>>

Next ==
    \E c \in Clients :
        \/ process_alloc(c) \/ ShmIoctl(c) \/ Mmap(c) \/ push_tshm(c)
        \/ Command(c) \/ find_tshm(c) \/ get_param(c) \/ UseBuffer(c)
        \/ process_free(c) \/ pop_tshm(c) \/ CloseFd(c) \/ Unmap(c) \/ FreeStruct(c)

Spec == Init /\ [][Next]_vars

-----------------------------------------------------------------------------
(***************************************************************************)
(* Properties.                                                             *)
(***************************************************************************)

\* struct tee_shm.
Structs == [heap : {"free", "live"}, id : Ids \cup {NoId}, p : {"none", "memory", "map"},
            size : Word, next : Nodes \cup {NULL}]

\* The structs, the threads' pointers and the clients' ids are well typed, and a
\* thread has a pointer exactly between the steps that set and use it.
TypeOK ==
    /\ gen_caps \in {"REG_MEM", "none"}
    /\ shm_head \in Nodes \cup {NULL}
    /\ node \in [Nodes -> Structs]
    /\ refs \in [Ids -> SUBSET {"fd", "map"}]
    /\ pc \in [Clients -> PCs]
    /\ tshm \in [Clients -> Nodes \cup {NULL}]
    /\ range \in [Clients -> [sz : Word, offs : Word]]
    /\ mine \in [Clients -> Ids \cup {NoId}]
    /\ own \in [Clients -> Nodes \cup {NULL}]
    /\ \A c \in Clients : (tshm[c] = NULL) <=> pc[c] \in {"idle", "find", "pop"}

\* Walking the list ends, meets only structs that are allocated and whose buffer
\* is mapped, and never the same id twice: pop_tshm takes a struct off the list
\* before close() lets the kernel give its id to another buffer.
ListSound ==
    /\ At[Cardinality(Nodes)] = NULL
    /\ \A k \in DOMAIN At : At[k] # NULL =>
          /\ node[At[k]].heap = "live" /\ node[At[k]].p # "none"
          /\ Positions(node[At[k]].id) = {k}

\* While a client has an id, looking it up gives the struct that was made for it,
\* whatever the other threads allocate and free meanwhile.
OwnBuffer == \A c \in Clients : mine[c] # NoId => Find(mine[c]) = own[c]

\* A pointer that find_tshm or pop_tshm returned is good for as long as the thread
\* uses it without shm_mutex: nobody has freed the struct or its buffer, and no
\* other thread is about to.
PointersLive ==
    \A c \in Clients :
        /\ pc[c] \in {"check", "use", "close", "unmap", "free"} =>
              node[tshm[c]].heap = "live"
        /\ pc[c] \in {"check", "use"} => node[tshm[c]].p # "none"
        /\ pc[c] \in {"close", "unmap", "free"} =>
              \A d \in Clients \ {c} : tshm[d] # tshm[c]

\* What a handler uses lies inside the buffer: the test for an overflow of
\* sz + offs leaves out no wrapped sum.
InBounds ==
    \A c \in Clients : pc[c] = "use" =>
        range[c].offs + range[c].sz <= node[tshm[c]].size

\* When no request is under way and no client has a buffer, the list is empty and
\* nothing is left allocated: every error path gives back what it took.  (A munmap
\* that fails leaves its mapping.)
NoLeak ==
    (\A c \in Clients : pc[c] = "idle" /\ mine[c] = NoId) =>
        /\ shm_head = NULL
        /\ \A a \in Nodes : node[a] = FreeNode
        /\ \A i \in Ids : "fd" \notin refs[i]
=============================================================================
