--------------------------- MODULE SuppPoolProofs ---------------------------
(***************************************************************************)
(* Proofs about the threads of tee-supplicant, for any finite number of    *)
(* threads, any clients and any failures.                                  *)
(***************************************************************************)
EXTENDS SuppPool, FiniteSetTheorems, TLAPS

USE DEF PCs, CountedPCs

\* The counted threads are finitely many.
LEMMA CountedFinite ==
    ASSUME NEW p
    PROVE  IsFiniteSet(CountedIn(p)) /\ Cardinality(CountedIn(p)) \in Nat
<1>1. CountedIn(p) \subseteq Threads
  BY DEF CountedIn
<1>2. IsFiniteSet(CountedIn(p))
  BY <1>1, ThreadsAssumption, FS_Subset
<1> QED
  BY <1>2, FS_CardinalityType

\* What the move of one thread (Goto) does to the number of counted threads.
LEMMA MoveCount ==
    ASSUME NEW p \in [Threads -> PCs], NEW t \in Threads, NEW to \in PCs
    PROVE  LET q == [p EXCEPT ![t] = to]
               n == Cardinality(CountedIn(p))
               m == Cardinality(CountedIn(q))
           IN  /\ p[t] \in CountedPCs /\ to \in CountedPCs => m = n
               /\ p[t] \notin CountedPCs /\ to \notin CountedPCs => m = n
               /\ p[t] \notin CountedPCs /\ to \in CountedPCs => m = n + 1
               /\ p[t] \in CountedPCs /\ to \notin CountedPCs => m = n - 1 /\ n > 0
<1> DEFINE q == [p EXCEPT ![t] = to]
           n == Cardinality(CountedIn(p))
           m == Cardinality(CountedIn(q))
<1>1. \A u \in Threads : q[u] = IF u = t THEN to ELSE p[u]
  OBVIOUS
<1>2. n \in Nat /\ m \in Nat /\ IsFiniteSet(CountedIn(p)) /\ IsFiniteSet(CountedIn(q))
  BY CountedFinite
<1>3. ASSUME p[t] \in CountedPCs, to \in CountedPCs
      PROVE  m = n
  <2>1. CountedIn(q) = CountedIn(p)
    BY <1>1, <1>3 DEF CountedIn
  <2> QED
    BY <2>1
<1>4. ASSUME p[t] \notin CountedPCs, to \notin CountedPCs
      PROVE  m = n
  <2>1. CountedIn(q) = CountedIn(p)
    BY <1>1, <1>4 DEF CountedIn
  <2> QED
    BY <2>1
<1>5. ASSUME p[t] \notin CountedPCs, to \in CountedPCs
      PROVE  m = n + 1
  <2>1. CountedIn(q) = CountedIn(p) \cup {t} /\ t \notin CountedIn(p)
    BY <1>1, <1>5 DEF CountedIn
  <2> QED
    BY <2>1, <1>2, FS_AddElement
<1>6. ASSUME p[t] \in CountedPCs, to \notin CountedPCs
      PROVE  m = n - 1 /\ n > 0
  <2>1. CountedIn(q) = CountedIn(p) \ {t} /\ t \in CountedIn(p)
    BY <1>1, <1>6 DEF CountedIn
  <2>2. m = n - 1
    BY <2>1, <1>2, FS_RemoveElement
  <2> QED
    BY <2>2, <1>2
<1> HIDE DEF q, n, m
<1>7. /\ p[t] \in CountedPCs /\ to \in CountedPCs => m = n
      /\ p[t] \notin CountedPCs /\ to \notin CountedPCs => m = n
      /\ p[t] \notin CountedPCs /\ to \in CountedPCs => m = n + 1
      /\ p[t] \in CountedPCs /\ to \notin CountedPCs => m = n - 1 /\ n > 0
  BY <1>3, <1>4, <1>5, <1>6
<1> QED
  BY <1>7 DEF q, n, m
-----------------------------------------------------------------------------
\* The invariant holds when tee-supplicant starts.
LEMMA PoolInit == Init => PoolInv
<1> SUFFICES ASSUME Init PROVE PoolInv
  OBVIOUS
<1>1. \A t \in Threads : pc[t] = IF t = Main THEN "loop" ELSE "none"
  BY DEF Init
<1>2. CountedIn(pc) = {}
  BY <1>1 DEF CountedIn
<1>3. Cardinality(Counted) = 0
  BY <1>2, FS_EmptySet DEF Counted
<1>4. num_waiters = 0 /\ abort = "no" /\ pc \in [Threads -> PCs]
  BY DEF Init
<1>5. \E t \in Threads : pc[t] \in {"loop", "spawn"}
  BY <1>1, MainAssumption
<1> QED
  BY <1>3, <1>4, <1>5 DEF PoolInv, WaiterCount

\* A thread that has failed stays visible: it is on its way to set abort, which
\* nobody clears.
LEMMA FailingStays ==
    ASSUME PoolInv, [Next]_vars, ~Failing'
    PROVE  ~Failing
<1> USE DEF PoolInv
<1>1. ASSUME abort = "yes" PROVE abort' = "yes"
  <2>1. CASE UNCHANGED vars
    BY <2>1, <1>1 DEF vars
  <2>2. CASE \E c \in Clients : Request(c)
    BY <2>2, <1>1 DEF Request
  <2>3. ASSUME NEW t \in Threads, Proceed(t) \/ Fail(t) \/ Handle(t)
        PROVE  abort' = "yes"
    BY <2>3, <1>1 DEF Proceed, Fail, Handle, thread_main, Loop, Leave, read_request,
       Uncounted, spawn_thread, pthread_create, SpawnFailed, write_response, SetAbort,
       ReceiveFails, CreateFails, ResponseFails, MutexFails
  <2> QED
    BY <2>1, <2>2, <2>3 DEF Next
<1>2. ASSUME NEW u \in Threads, pc[u] \in {"uncount", "failed"}, abort' # "yes"
      PROVE  pc'[u] \in {"uncount", "failed"}
  <2>1. CASE UNCHANGED vars
    BY <2>1, <1>2 DEF vars
  <2>2. CASE \E c \in Clients : Request(c)
    BY <2>2, <1>2 DEF Request
  <2>3. ASSUME NEW t \in Threads, Proceed(t) \/ Fail(t) \/ Handle(t)
        PROVE  pc'[u] \in {"uncount", "failed"}
    BY <2>3, <1>2 DEF Proceed, Fail, Handle, thread_main, Loop, Leave, read_request,
       Uncounted, spawn_thread, pthread_create, SpawnFailed, write_response, SetAbort,
       ReceiveFails, CreateFails, ResponseFails, MutexFails, Goto
  <2> QED
    BY <2>1, <2>2, <2>3 DEF Next
<1> QED
  BY <1>1, <1>2 DEF Failing

\* One thread moves, and num_waiters moves with the counted threads.
LEMMA MoveStep ==
    ASSUME PoolInv, [Next]_vars,
           NEW t \in Threads, NEW from \in PCs, NEW to \in PCs, Goto(t, from, to),
           abort' \in {"no", "yes"},
           \/ (from \in CountedPCs <=> to \in CountedPCs) /\ num_waiters' = num_waiters
           \/ from \notin CountedPCs /\ to \in CountedPCs /\ num_waiters' = num_waiters + 1
           \/ from \in CountedPCs /\ to \notin CountedPCs /\ num_waiters' = num_waiters - 1
    PROVE  /\ num_waiters' \in Nat /\ abort' \in {"no", "yes"} /\ pc' \in [Threads -> PCs]
           /\ WaiterCount'
<1> DEFINE q == [pc EXCEPT ![t] = to]
           n == Cardinality(CountedIn(pc))
           m == Cardinality(CountedIn(q))
<1>1. pc \in [Threads -> PCs] /\ num_waiters \in Nat /\ pc' = q /\ pc[t] = from
  BY DEF PoolInv, Goto
<1>2. pc' \in [Threads -> PCs]
  BY <1>1
<1>3. n \in Nat /\ m \in Nat
  BY CountedFinite
<1>4. /\ from \in CountedPCs /\ to \in CountedPCs => m = n
      /\ from \notin CountedPCs /\ to \notin CountedPCs => m = n
      /\ from \notin CountedPCs /\ to \in CountedPCs => m = n + 1
      /\ from \in CountedPCs /\ to \notin CountedPCs => m = n - 1 /\ n > 0
  BY <1>1, MoveCount
<1>5. num_waiters >= n /\ (~Failing => num_waiters = n)
  BY DEF PoolInv, WaiterCount, Counted
<1>6. Cardinality(Counted') = m
  BY <1>1 DEF Counted
<1>7. ~Failing' => ~Failing
  BY FailingStays
<1> HIDE DEF n, m, q
<1>8. num_waiters' \in Nat /\ num_waiters' >= m /\ (~Failing => num_waiters' = m)
  BY <1>1, <1>3, <1>4, <1>5
<1>9. WaiterCount'
  BY <1>6, <1>7, <1>8 DEF WaiterCount
<1> QED
  BY <1>2, <1>8, <1>9

\* A counted thread shows in num_waiters: the assert of num_waiters_dec.
LEMMA CountedPositive ==
    ASSUME PoolInv, NEW t \in Threads, pc[t] \in CountedPCs
    PROVE  num_waiters > 0
<1>1. Cardinality(CountedIn(pc)) \in Nat /\ Cardinality(CountedIn(pc)) > 0
  BY MoveCount, CountedFinite DEF PoolInv
<1> QED
  BY <1>1 DEF PoolInv, WaiterCount, Counted

\* Every step of a thread, of the kernel or of a client preserves the invariant.
LEMMA PoolStep == PoolInv /\ [Next]_vars => PoolInv'
<1> SUFFICES ASSUME PoolInv, [Next]_vars PROVE PoolInv'
  OBVIOUS
<1>1. CASE UNCHANGED vars
  BY <1>1 DEF vars, PoolInv, WaiterCount, Failing, Counted
<1>2. ASSUME NEW c \in Clients, Request(c) PROVE PoolInv'
  BY <1>2 DEF Request, PoolInv, WaiterCount, Failing, Counted
<1>3. ASSUME NEW t \in Threads, thread_main(t) PROVE PoolInv'
  <2>1. Goto(t, "spawned", "loop") /\ abort' \in {"no", "yes"}
    BY <1>3 DEF thread_main, PoolInv
  <2>2. num_waiters' \in Nat /\ abort' \in {"no", "yes"} /\ pc' \in [Threads -> PCs]
        /\ WaiterCount'
    BY <1>3, <2>1, MoveStep DEF thread_main, num_waiters_inc, num_waiters_dec
  <2>3. \E u \in Threads : pc'[u] \in {"loop", "spawn"}
    BY <2>1 DEF Goto, PoolInv
  <2> QED
    BY <2>2, <2>3 DEF PoolInv
<1>4. ASSUME NEW t \in Threads, Loop(t) PROVE PoolInv'
  <2>1. Goto(t, "loop", "recv") /\ abort' \in {"no", "yes"}
    BY <1>4 DEF Loop, PoolInv
  <2>2. num_waiters' \in Nat /\ abort' \in {"no", "yes"} /\ pc' \in [Threads -> PCs]
        /\ WaiterCount'
    BY <1>4, <2>1, MoveStep DEF Loop, num_waiters_inc, num_waiters_dec
  <2>3. num_waiters' > 0
    BY <1>4, <2>1, CountedPositive DEF Loop, Goto, PoolInv, num_waiters_inc
  <2> QED
    BY <2>2, <2>3 DEF PoolInv
<1>5. ASSUME NEW t \in Threads, Leave(t) PROVE PoolInv'
  <2>1. Goto(t, "loop", "exited") /\ abort' \in {"no", "yes"}
    BY <1>5 DEF Leave, PoolInv
  <2>2. num_waiters' \in Nat /\ abort' \in {"no", "yes"} /\ pc' \in [Threads -> PCs]
        /\ WaiterCount'
    BY <1>5, <2>1, MoveStep DEF Leave, num_waiters_inc, num_waiters_dec
  <2>3. Failing'
    BY <1>5, <2>1 DEF Leave, Goto, Failing, PoolInv
  <2> QED
    BY <2>2, <2>3 DEF PoolInv
<1>6. ASSUME NEW t \in Threads, read_request(t) PROVE PoolInv'
  <2>1. Goto(t, "recv", "got") /\ abort' \in {"no", "yes"}
    BY <1>6 DEF read_request, PoolInv
  <2>2. num_waiters' \in Nat /\ abort' \in {"no", "yes"} /\ pc' \in [Threads -> PCs]
        /\ WaiterCount'
    BY <1>6, <2>1, MoveStep DEF read_request, num_waiters_inc, num_waiters_dec
  <2>3. num_waiters' > 0
    BY <1>6, <2>1, CountedPositive DEF read_request, Goto, PoolInv, num_waiters_inc
  <2> QED
    BY <2>2, <2>3 DEF PoolInv
<1>7. ASSUME NEW t \in Threads, ReceiveFails(t) PROVE PoolInv'
  <2>1. (Goto(t, "recv", "failed") \/ Goto(t, "got", "failed")) /\ UNCHANGED <<num_waiters, abort>>
    BY <1>7 DEF ReceiveFails
  <2>2. pc'[t] = "failed" /\ Failing'
    BY <2>1 DEF Goto, Failing, PoolInv
  <2>3. num_waiters' \in Nat /\ abort' \in {"no", "yes"} /\ pc' \in [Threads -> PCs]
    BY <2>1 DEF Goto, PoolInv
  <2>4. Cardinality(CountedIn(pc')) = Cardinality(CountedIn(pc)) - 1
    <3>1. pc' = [pc EXCEPT ![t] = "failed"] /\ pc[t] \in CountedPCs
      BY <2>1 DEF Goto
    <3>2. pc \in [Threads -> PCs]
      BY DEF PoolInv
    <3>3. Cardinality(CountedIn([pc EXCEPT ![t] = "failed"])) = Cardinality(CountedIn(pc)) - 1
      BY <3>1, <3>2, MoveCount
    <3> QED
      BY <3>1, <3>3
  <2>5. num_waiters' >= Cardinality(Counted')
    BY <2>1, <2>4, CountedFinite DEF PoolInv, WaiterCount, Counted
  <2> QED
    BY <2>2, <2>3, <2>5 DEF PoolInv, WaiterCount
<1>8. ASSUME NEW t \in Threads, Uncounted(t) PROVE PoolInv'
  <2>1. PICK to \in {"spawn", "handle"} :
           Goto(t, "got", to) /\ to = IF num_waiters = 1 THEN "spawn" ELSE "handle"
    BY <1>8 DEF Uncounted
  <2>2. num_waiters' \in Nat /\ abort' \in {"no", "yes"} /\ pc' \in [Threads -> PCs]
        /\ WaiterCount'
    BY <1>8, <2>1, MoveStep DEF Uncounted, num_waiters_dec, PoolInv
  <2>3. num_waiters > 0 /\ num_waiters \in Nat
    BY <2>1, CountedPositive DEF Goto, PoolInv
  <2>4. CASE num_waiters = 1
    BY <2>1, <2>2, <2>4 DEF Goto, PoolInv
  <2>5. CASE num_waiters # 1
    <3>1. num_waiters' > 0
      BY <1>8, <2>3, <2>5 DEF Uncounted, num_waiters_dec
    <3> QED
      BY <2>2, <3>1 DEF PoolInv
  <2> QED
    BY <2>4, <2>5
<1>9. ASSUME NEW t \in Threads, spawn_thread(t) PROVE PoolInv'
  <2>1. Goto(t, "spawn", "create") /\ abort' \in {"no", "yes"}
    BY <1>9 DEF spawn_thread, PoolInv
  <2>2. num_waiters' \in Nat /\ abort' \in {"no", "yes"} /\ pc' \in [Threads -> PCs]
        /\ WaiterCount'
    BY <1>9, <2>1, MoveStep DEF spawn_thread, num_waiters_inc, num_waiters_dec
  <2>3. num_waiters' > 0
    BY <1>9, <2>1, CountedPositive DEF spawn_thread, Goto, PoolInv, num_waiters_inc
  <2> QED
    BY <2>2, <2>3 DEF PoolInv
<1>10. ASSUME NEW t \in Threads, pthread_create(t) PROVE PoolInv'
  <2>1. PICK new \in Threads :
           pc[new] = "none" /\ pc' = [pc EXCEPT ![t] = "handle", ![new] = "spawned"]
    BY <1>10 DEF pthread_create
  <2>2. pc[t] = "create" /\ t # new /\ UNCHANGED <<num_waiters, abort>>
    BY <1>10, <2>1 DEF pthread_create
  <2> DEFINE p == [pc EXCEPT ![t] = "handle"]
  <2>3. pc' = [p EXCEPT ![new] = "spawned"] /\ p \in [Threads -> PCs] /\ p[new] = "none"
    BY <2>1, <2>2 DEF PoolInv
  <2>4. Cardinality(CountedIn(p)) = Cardinality(CountedIn(pc)) - 1
    BY <2>2, MoveCount DEF PoolInv
  <2>5. Cardinality(CountedIn(pc')) = Cardinality(CountedIn(p)) + 1
    <3> HIDE DEF p
    <3> QED
      BY <2>3, MoveCount
  <2>6. Cardinality(CountedIn(pc')) = Cardinality(CountedIn(pc))
    BY <2>4, <2>5, CountedFinite
  <2>7. ~Failing' => ~Failing
    BY FailingStays
  <2>8. WaiterCount'
    BY <2>2, <2>6, <2>7 DEF PoolInv, WaiterCount, Counted
  <2>9. num_waiters' > 0
    BY <2>2, CountedPositive
  <2>10. pc' \in [Threads -> PCs]
    BY <2>1 DEF PoolInv
  <2> QED
    BY <2>2, <2>8, <2>9, <2>10 DEF PoolInv
<1>11. ASSUME NEW t \in Threads, CreateFails(t) PROVE PoolInv'
  <2>1. Goto(t, "create", "uncount") /\ abort' \in {"no", "yes"}
    BY <1>11 DEF CreateFails, PoolInv
  <2>2. num_waiters' \in Nat /\ abort' \in {"no", "yes"} /\ pc' \in [Threads -> PCs]
        /\ WaiterCount'
    BY <1>11, <2>1, MoveStep DEF CreateFails, num_waiters_inc, num_waiters_dec
  <2>3. Failing'
    BY <1>11, <2>1 DEF CreateFails, Goto, Failing, PoolInv
  <2> QED
    BY <2>2, <2>3 DEF PoolInv
<1>12. ASSUME NEW t \in Threads, SpawnFailed(t) PROVE PoolInv'
  <2>1. Goto(t, "uncount", "failed") /\ abort' \in {"no", "yes"}
    BY <1>12 DEF SpawnFailed, PoolInv
  <2>2. num_waiters' \in Nat /\ abort' \in {"no", "yes"} /\ pc' \in [Threads -> PCs]
        /\ WaiterCount'
    BY <1>12, <2>1, MoveStep DEF SpawnFailed, num_waiters_inc, num_waiters_dec
  <2>3. Failing'
    BY <1>12, <2>1 DEF SpawnFailed, Goto, Failing, PoolInv
  <2> QED
    BY <2>2, <2>3 DEF PoolInv
<1>13. ASSUME NEW t \in Threads, Handle(t) PROVE PoolInv'
  <2>1. Goto(t, "handle", "send") /\ abort' \in {"no", "yes"}
    BY <1>13 DEF Handle, PoolInv
  <2>2. num_waiters' \in Nat /\ abort' \in {"no", "yes"} /\ pc' \in [Threads -> PCs]
        /\ WaiterCount'
    BY <1>13, <2>1, MoveStep DEF Handle, num_waiters_inc, num_waiters_dec
  <2>3. ~Failing' => num_waiters' > 0 \/ \E u \in Threads : pc'[u] \in {"loop", "spawn"}
    <3>1. ~Failing' => num_waiters > 0 \/ \E u \in Threads : pc[u] \in {"loop", "spawn"}
      BY FailingStays DEF PoolInv
    <3>2. \A u \in Threads : pc[u] \in {"loop", "spawn"} => pc'[u] = pc[u]
      BY <2>1 DEF Goto, PoolInv
    <3> QED
      BY <1>13, <3>1, <3>2 DEF Handle
  <2> QED
    BY <2>2, <2>3 DEF PoolInv
<1>14. ASSUME NEW t \in Threads, write_response(t) PROVE PoolInv'
  <2>1. Goto(t, "send", "loop") /\ abort' \in {"no", "yes"}
    BY <1>14 DEF write_response, PoolInv
  <2>2. num_waiters' \in Nat /\ abort' \in {"no", "yes"} /\ pc' \in [Threads -> PCs]
        /\ WaiterCount'
    BY <1>14, <2>1, MoveStep DEF write_response, num_waiters_inc, num_waiters_dec
  <2>3. \E u \in Threads : pc'[u] \in {"loop", "spawn"}
    BY <2>1 DEF Goto, PoolInv
  <2> QED
    BY <2>2, <2>3 DEF PoolInv
<1>15. ASSUME NEW t \in Threads, ResponseFails(t) PROVE PoolInv'
  <2>1. Goto(t, "send", "failed") /\ abort' \in {"no", "yes"}
    BY <1>15 DEF ResponseFails, PoolInv
  <2>2. num_waiters' \in Nat /\ abort' \in {"no", "yes"} /\ pc' \in [Threads -> PCs]
        /\ WaiterCount'
    BY <1>15, <2>1, MoveStep DEF ResponseFails, num_waiters_inc, num_waiters_dec
  <2>3. Failing'
    BY <1>15, <2>1 DEF ResponseFails, Goto, Failing, PoolInv
  <2> QED
    BY <2>2, <2>3 DEF PoolInv
<1>16. ASSUME NEW t \in Threads, SetAbort(t) PROVE PoolInv'
  <2>1. Goto(t, "failed", "loop") /\ abort' \in {"no", "yes"}
    BY <1>16 DEF SetAbort, PoolInv
  <2>2. num_waiters' \in Nat /\ abort' \in {"no", "yes"} /\ pc' \in [Threads -> PCs]
        /\ WaiterCount'
    BY <1>16, <2>1, MoveStep DEF SetAbort, num_waiters_inc, num_waiters_dec
  <2>3. Failing'
    BY <1>16, <2>1 DEF SetAbort, Goto, Failing, PoolInv
  <2> QED
    BY <2>2, <2>3 DEF PoolInv
<1>17. ASSUME NEW t \in Threads, MutexFails(t) PROVE PoolInv'
  BY <1>17 DEF MutexFails, PoolInv, WaiterCount, Failing, Counted
<1> QED
  BY <1>1, <1>2, <1>3, <1>4, <1>5, <1>6, <1>7, <1>8, <1>9, <1>10, <1>11, <1>12, <1>13,
     <1>14, <1>15, <1>16, <1>17 DEF Next, Proceed, Fail

\* In every behaviour of the supplicant, for any number of threads and clients and
\* with any failures, num_waiters counts at least the threads it stands for, so that
\* the assert of num_waiters_dec holds, and exactly those until a thread fails.
THEOREM WaitersCounted == Spec => []WaiterCount
<1>1. Init => PoolInv
  BY PoolInit
<1>2. PoolInv /\ [Next]_vars => PoolInv'
  BY PoolStep
<1>3. PoolInv => WaiterCount
  BY DEF PoolInv
<1> QED
  BY <1>1, <1>2, <1>3, PTL DEF Spec

\* The pool never has all its threads inside handlers, for any number of threads and
\* clients, until a thread fails (the process's limit of threads included).
THEOREM PoolNeverAllBusy == Spec => []NeverAllBusy
<1>1. Init => PoolInv
  BY PoolInit
<1>2. PoolInv /\ [Next]_vars => PoolInv'
  BY PoolStep
<1>3. PoolInv => NeverAllBusy
  <2> SUFFICES ASSUME PoolInv, ~Failing
               PROVE  \E t \in Threads :
                         pc[t] \in {"spawned", "loop", "recv", "got", "spawn", "create"}
    BY DEF NeverAllBusy
  <2>1. CASE \E t \in Threads : pc[t] \in {"loop", "spawn"}
    BY <2>1
  <2>2. CASE num_waiters > 0
    <3>1. Cardinality(CountedIn(pc)) # 0
      BY <2>2 DEF PoolInv, WaiterCount, Counted
    <3>2. CountedIn(pc) # {}
      BY <3>1, FS_EmptySet
    <3>3. PICK t \in Threads : pc[t] \in CountedPCs
      BY <3>2 DEF CountedIn
    <3>4. pc[t] # "uncount"
      BY DEF Failing
    <3> QED
      BY <3>3, <3>4
  <2> QED
    BY <2>1, <2>2 DEF PoolInv
<1> QED
  BY <1>1, <1>2, <1>3, PTL DEF Spec

-----------------------------------------------------------------------------
(***************************************************************************)
(* The requests.                                                           *)
(***************************************************************************)

\* The types of what the kernel, the clients and the threads know of the requests.
RequestTypes ==
    /\ holds \in [Threads -> Clients \cup {NoClient}]
    /\ queue \in Seq(Clients) /\ waiting \subseteq Clients
    /\ reqs \in [Clients -> 0 .. MaxReqs]
    /\ daemon \in {"up", "gone"}

\* The places of a thread that has received a request and not answered it.
HoldingPCs == {"got", "spawn", "create", "uncount", "handle", "send"}
Holders == \A t \in Threads : (holds[t] # NoClient) <=> pc[t] \in HoldingPCs

LEMMA TypeParts ==
    PoolInv => (TypeOK <=> RequestTypes /\ Holders)
BY DEF PoolInv, TypeOK, RequestTypes, Holders, HoldingPCs

\* The steps that neither receive nor give up a request.
Quiet(t) ==
    \/ thread_main(t) \/ Loop(t) \/ Uncounted(t) \/ spawn_thread(t)
    \/ pthread_create(t) \/ CreateFails(t) \/ Handle(t) \/ SetAbort(t)

\* The steps that give a request up without an answer.
Drop(t) == ReceiveFails(t) \/ SpawnFailed(t) \/ ResponseFails(t)

\* What the two kinds of steps do to the requests.
LEMMA QuietStep ==
    ASSUME PoolInv, NEW t \in Threads, Quiet(t)
    PROVE  /\ UNCHANGED <<holds, Kernel>>
           /\ \A u \in Threads : pc'[u] \in HoldingPCs <=> pc[u] \in HoldingPCs
<1>1. UNCHANGED <<holds, Kernel>>
  BY DEF Quiet, thread_main, Loop, Uncounted, spawn_thread, pthread_create, CreateFails,
         Handle, SetAbort
<1>2. \A u \in Threads : pc'[u] \in HoldingPCs <=> pc[u] \in HoldingPCs
  <2>1. CASE pthread_create(t)
    BY <2>1 DEF pthread_create, PoolInv, HoldingPCs
  <2>2. CASE Uncounted(t)
    BY <2>2 DEF Uncounted, Goto, PoolInv, HoldingPCs
  <2>3. CASE \/ thread_main(t) \/ Loop(t) \/ spawn_thread(t)
             \/ CreateFails(t) \/ Handle(t) \/ SetAbort(t)
    BY <2>3 DEF thread_main, Loop, spawn_thread, CreateFails, Handle, SetAbort, Goto,
                PoolInv, HoldingPCs
  <2> QED
    BY <2>1, <2>2, <2>3 DEF Quiet
<1> QED
  BY <1>1, <1>2

LEMMA DropStep ==
    ASSUME PoolInv, NEW t \in Threads, Drop(t)
    PROVE  /\ UNCHANGED Kernel
           /\ holds' = [holds EXCEPT ![t] = NoClient]
           /\ pc' = [pc EXCEPT ![t] = "failed"]
           /\ Failing'
<1>1. /\ UNCHANGED Kernel
      /\ holds' = [holds EXCEPT ![t] = NoClient]
      /\ pc' = [pc EXCEPT ![t] = "failed"]
  BY DEF Drop, ReceiveFails, SpawnFailed, ResponseFails, Goto
<1>2. pc'[t] = "failed"
  BY <1>1 DEF PoolInv
<1> QED
  BY <1>1, <1>2 DEF Failing

\* Every step is one of these.
LEMMA StepKinds ==
    ASSUME [Next]_vars
    PROVE  \/ UNCHANGED vars
           \/ \E c \in Clients : Request(c)
           \/ \E t \in Threads : \/ Quiet(t) \/ Drop(t) \/ Leave(t) \/ MutexFails(t)
                                 \/ read_request(t) \/ write_response(t)
BY DEF Next, Proceed, Fail, Quiet, Drop

LEMMA RequestTypesInit == Init => RequestTypes /\ Holders
BY MaxReqsAssumption DEF Init, RequestTypes, Holders, HoldingPCs

\* Every step preserves the types of the requests.
LEMMA RequestTypesStep ==
    ASSUME PoolInv, RequestTypes, Holders, [Next]_vars
    PROVE  RequestTypes' /\ Holders'
<1>1. CASE UNCHANGED vars
  BY <1>1 DEF vars, RequestTypes, Holders
<1>2. ASSUME NEW c \in Clients, Request(c) PROVE RequestTypes' /\ Holders'
  <2>1. reqs' \in [Clients -> 0 .. MaxReqs]
    BY <1>2, MaxReqsAssumption DEF Request, RequestTypes
  <2> QED
    BY <1>2, <2>1 DEF Request, RequestTypes, Holders
<1>3. ASSUME NEW t \in Threads, Quiet(t) PROVE RequestTypes' /\ Holders'
  BY <1>3, QuietStep DEF Kernel, RequestTypes, Holders
<1>4. ASSUME NEW t \in Threads, Drop(t) PROVE RequestTypes' /\ Holders'
  <2>1. \A u \in Threads : /\ holds'[u] = IF u = t THEN NoClient ELSE holds[u]
                           /\ pc'[u] = IF u = t THEN "failed" ELSE pc[u]
    BY <1>4, DropStep DEF PoolInv, RequestTypes
  <2>2. Holders'
    BY <2>1 DEF Holders, HoldingPCs
  <2> QED
    BY <1>4, DropStep, <2>2 DEF Kernel, RequestTypes
<1>5. ASSUME NEW t \in Threads, Leave(t) PROVE RequestTypes' /\ Holders'
  <2>1. \A u \in Threads : pc'[u] = IF u = t THEN "exited" ELSE pc[u]
    BY <1>5 DEF Leave, Goto, PoolInv
  <2>2. Holders'
    BY <1>5, <2>1 DEF Leave, Goto, Holders, HoldingPCs
  <2>3. queue' \in Seq(Clients) /\ waiting' \subseteq Clients /\ daemon' \in {"up", "gone"}
    <3>1. CASE t = Main
      <4>1. <<>> \in Seq(Clients)
        OBVIOUS
      <4> QED
        BY <1>5, <3>1, <4>1 DEF Leave
    <3>2. CASE t # Main
      BY <1>5, <3>2 DEF Leave, RequestTypes
    <3> QED
      BY <3>1, <3>2
  <2>4. RequestTypes'
    BY <1>5, <2>3 DEF Leave, RequestTypes
  <2> QED
    BY <2>2, <2>4
<1>6. ASSUME NEW t \in Threads, read_request(t) PROVE RequestTypes' /\ Holders'
  <2>1. Head(queue) \in Clients /\ Tail(queue) \in Seq(Clients)
    BY <1>6 DEF read_request, RequestTypes
  <2>2. \A u \in Threads : /\ holds'[u] = IF u = t THEN Head(queue) ELSE holds[u]
                           /\ pc'[u] = IF u = t THEN "got" ELSE pc[u]
    BY <1>6 DEF read_request, Goto, PoolInv, RequestTypes
  <2>3. Holders'
    BY <2>1, <2>2, NoClientAssumption DEF Holders, HoldingPCs
  <2>4. RequestTypes'
    BY <1>6, <2>1 DEF read_request, RequestTypes
  <2> QED
    BY <2>3, <2>4
<1>7. ASSUME NEW t \in Threads, write_response(t) PROVE RequestTypes' /\ Holders'
  <2>1. \A u \in Threads : /\ holds'[u] = IF u = t THEN NoClient ELSE holds[u]
                           /\ pc'[u] = IF u = t THEN "loop" ELSE pc[u]
    BY <1>7 DEF write_response, Goto, PoolInv, RequestTypes
  <2>2. Holders'
    BY <2>1 DEF Holders, HoldingPCs
  <2>3. RequestTypes'
    BY <1>7 DEF write_response, RequestTypes
  <2> QED
    BY <2>2, <2>3
<1>8. ASSUME NEW t \in Threads, MutexFails(t) PROVE RequestTypes' /\ Holders'
  <2>1. <<>> \in Seq(Clients)
    OBVIOUS
  <2> QED
    BY <1>8, <2>1 DEF MutexFails, RequestTypes, Holders
<1> QED
  BY <1>1, <1>2, <1>3, <1>4, <1>5, <1>6, <1>7, <1>8, StepKinds

LEMMA RequestInvInit == Init => RequestInv
BY DEF Init, RequestInv

\* Every step preserves the accounts of the requests.
LEMMA RequestInvStep ==
    ASSUME PoolInv, RequestTypes, Holders, RequestInv, [Next]_vars
    PROVE  RequestInv'
<1>0. ~Failing' => ~Failing
  BY FailingStays
<1>1. CASE UNCHANGED vars
  BY <1>0, <1>1 DEF vars, RequestInv, Queued
<1>2. ASSUME NEW c \in Clients, Request(c) PROVE RequestInv'
  <2>1. /\ daemon = "up" /\ daemon' = "up" /\ c \notin waiting
        /\ queue' = Append(queue, c) /\ waiting' = waiting \cup {c} /\ holds' = holds
    BY <1>2 DEF Request
  <2>2. /\ Len(queue) \in Nat /\ Len(queue') = Len(queue) + 1
        /\ \A i \in 1 .. Len(queue) : queue'[i] = queue[i]
        /\ queue'[Len(queue) + 1] = c
    BY <2>1 DEF RequestTypes
  <2>3. c # NoClient
    BY NoClientAssumption
  <2>4. \A t \in Threads : holds[t] # c
    BY <2>1, <2>3 DEF RequestInv
  <2>5. \A i \in 1 .. Len(queue) : queue[i] # c
    BY <2>1 DEF RequestInv
  <2>6. \A i \in 1 .. Len(queue') : i \in 1 .. Len(queue) \/ i = Len(queue) + 1
    BY <2>2
  <2>7. \A i \in 1 .. Len(queue') : queue'[i] \in waiting'
    BY <2>1, <2>2, <2>6 DEF RequestInv
  <2>8. \A i, j \in 1 .. Len(queue') : queue'[i] = queue'[j] => i = j
    BY <2>2, <2>5, <2>6 DEF RequestInv
  <2>9. \A t \in Threads : \A i \in 1 .. Len(queue') : holds'[t] # queue'[i]
    BY <2>1, <2>2, <2>4, <2>6 DEF RequestInv
  <2>10. \A d \in Clients : Queued(d) \/ d = c => Queued(d)'
    BY <2>2 DEF Queued
  <2>11. ~Failing' => \A d \in waiting' : Queued(d)' \/ \E t \in Threads : holds'[t] = d
    BY <1>0, <2>1, <2>10 DEF RequestInv, RequestTypes
  <2> QED
    BY <2>1, <2>7, <2>8, <2>9, <2>11 DEF RequestInv
<1>3. ASSUME NEW t \in Threads, Quiet(t) PROVE RequestInv'
  BY <1>0, <1>3, QuietStep DEF Kernel, RequestInv, Queued
<1>4. ASSUME NEW t \in Threads, Drop(t) PROVE RequestInv'
  <2>1. UNCHANGED Kernel /\ Failing'
    BY <1>4, DropStep
  <2>2. \A u \in Threads : holds'[u] = NoClient \/ holds'[u] = holds[u]
    BY <1>4, DropStep DEF RequestTypes
  <2>3. \A i \in 1 .. Len(queue) : queue[i] # NoClient
    BY NoClientAssumption DEF RequestTypes, RequestInv
  <2> QED
    BY <2>1, <2>2, <2>3 DEF Kernel, RequestInv
<1>5. ASSUME NEW t \in Threads, Leave(t) PROVE RequestInv'
  <2>1. Failing' /\ holds' = holds /\ daemon = "up"
    BY <1>5 DEF Leave, Failing, Goto
  <2>2. CASE t = Main
    <3>1. queue' = <<>> /\ waiting' = {} /\ daemon' = "gone"
      BY <1>5, <2>2 DEF Leave
    <3> QED
      BY <2>1, <3>1 DEF RequestInv
  <2>3. CASE t # Main
    BY <1>5, <2>1, <2>3 DEF Leave, RequestInv
  <2> QED
    BY <2>2, <2>3
<1>6. ASSUME NEW t \in Threads, read_request(t) PROVE RequestInv'
  <2> DEFINE c == Head(queue)
  <2>1. /\ daemon = "up" /\ daemon' = "up" /\ waiting' = waiting /\ queue' = Tail(queue)
        /\ queue # <<>> /\ pc[t] = "recv"
    BY <1>6 DEF read_request, Goto
  <2>2. /\ Len(queue) \in Nat /\ Len(queue) > 0 /\ Len(queue') = Len(queue) - 1
        /\ \A i \in 1 .. Len(queue') : queue'[i] = queue[i + 1]
        /\ c = queue[1] /\ c \in Clients
    BY <2>1 DEF RequestTypes
  <2>3. \A u \in Threads : holds'[u] = IF u = t THEN c ELSE holds[u]
    BY <1>6 DEF read_request, RequestTypes
  <2> HIDE DEF c
  <2>4. c # NoClient /\ holds[t] = NoClient
    BY <2>1, <2>2, NoClientAssumption DEF Holders, HoldingPCs
  <2>5. \A i \in 1 .. Len(queue') : i + 1 \in 1 .. Len(queue) /\ i + 1 # 1
    BY <2>2
  <2>6. 1 \in 1 .. Len(queue)
    BY <2>2
  <2>7. \A i \in 1 .. Len(queue') : queue'[i] \in waiting' /\ queue'[i] # c
    BY <2>1, <2>2, <2>5, <2>6 DEF RequestInv
  <2>8. \A i, j \in 1 .. Len(queue') : queue'[i] = queue'[j] => i = j
    <3> SUFFICES ASSUME NEW i \in 1 .. Len(queue'), NEW j \in 1 .. Len(queue'),
                        queue'[i] = queue'[j]
                 PROVE  i = j
      OBVIOUS
    <3>1. queue[i + 1] = queue[j + 1] /\ i + 1 \in 1 .. Len(queue) /\ j + 1 \in 1 .. Len(queue)
      BY <2>2, <2>5
    <3>2. i + 1 = j + 1
      BY <3>1 DEF RequestInv
    <3> QED
      BY <3>2
  <2>9. \A u \in Threads : holds'[u] # NoClient => holds'[u] \in waiting'
    BY <2>1, <2>2, <2>3, <2>6 DEF RequestInv
  <2>10. \A u \in Threads : \A i \in 1 .. Len(queue') : holds'[u] # queue'[i]
    BY <2>2, <2>3, <2>5, <2>7 DEF RequestInv
  <2>11. \A u \in Threads : holds[u] # c
    BY <2>2, <2>6 DEF RequestInv
  <2>12. \A u, v \in Threads : holds'[u] # NoClient /\ holds'[u] = holds'[v] => u = v
    BY <2>3, <2>11 DEF RequestInv
  <2>13. ASSUME NEW d \in waiting, Queued(d) PROVE Queued(d)' \/ d = c
    <3>1. PICK i \in 1 .. Len(queue) : queue[i] = d
      BY <2>13 DEF Queued
    <3>2. CASE i = 1
      BY <3>1, <3>2, <2>2
    <3>3. CASE i # 1
      <4>1. i - 1 \in 1 .. Len(queue') /\ (i - 1) + 1 = i
        BY <3>3, <2>2
      <4>2. queue'[i - 1] = d
        BY <4>1, <3>1, <2>2
      <4> QED
        BY <4>1, <4>2 DEF Queued
    <3> QED
      BY <3>2, <3>3
  <2>14. ~Failing' => \A d \in waiting' : Queued(d)' \/ \E u \in Threads : holds'[u] = d
    <3> SUFFICES ASSUME ~Failing', NEW d \in waiting'
                 PROVE  Queued(d)' \/ \E u \in Threads : holds'[u] = d
      OBVIOUS
    <3>1. d \in waiting /\ (Queued(d) \/ \E u \in Threads : holds[u] = d)
      BY <1>0, <2>1 DEF RequestInv
    <3>2. CASE Queued(d)
      BY <3>1, <3>2, <2>3, <2>13
    <3>3. ASSUME NEW u \in Threads, holds[u] = d PROVE holds'[u] = d
      <4>1. d # NoClient
        BY <3>1, NoClientAssumption DEF RequestTypes
      <4> QED
        BY <3>3, <4>1, <2>3, <2>4
    <3> QED
      BY <3>1, <3>2, <3>3
  <2> QED
    BY <2>1, <2>7, <2>8, <2>9, <2>10, <2>12, <2>14 DEF RequestInv
<1>7. ASSUME NEW t \in Threads, write_response(t) PROVE RequestInv'
  <2>1. /\ daemon = "up" /\ daemon' = "up" /\ queue' = queue
        /\ waiting' = waiting \ {holds[t]} /\ pc[t] = "send"
    BY <1>7 DEF write_response, Goto
  <2>2. \A u \in Threads : holds'[u] = IF u = t THEN NoClient ELSE holds[u]
    BY <1>7 DEF write_response, RequestTypes
  <2>3. holds[t] # NoClient
    BY <2>1 DEF Holders, HoldingPCs
  <2>4. \A i \in 1 .. Len(queue') : queue'[i] \in waiting'
    BY <2>1 DEF RequestInv
  <2>5. \A u \in Threads : holds'[u] # NoClient => holds'[u] \in waiting'
    BY <2>1, <2>2, <2>3 DEF RequestInv
  <2>6. \A u \in Threads : \A i \in 1 .. Len(queue') : holds'[u] # queue'[i]
    BY <2>1, <2>2, NoClientAssumption DEF RequestInv, RequestTypes
  <2>7. \A u, v \in Threads : holds'[u] # NoClient /\ holds'[u] = holds'[v] => u = v
    BY <2>2 DEF RequestInv
  <2>8. ~Failing' => \A d \in waiting' : Queued(d)' \/ \E u \in Threads : holds'[u] = d
    <3> SUFFICES ASSUME ~Failing', NEW d \in waiting'
                 PROVE  Queued(d)' \/ \E u \in Threads : holds'[u] = d
      OBVIOUS
    <3>1. d \in waiting /\ d # holds[t] /\ (Queued(d) \/ \E u \in Threads : holds[u] = d)
      BY <1>0, <2>1 DEF RequestInv
    <3>2. CASE Queued(d)
      BY <3>2, <2>1 DEF Queued
    <3> QED
      BY <3>1, <3>2, <2>2
  <2> QED
    BY <2>1, <2>4, <2>5, <2>6, <2>7, <2>8 DEF RequestInv
<1>8. ASSUME NEW t \in Threads, MutexFails(t) PROVE RequestInv'
  <2>1. queue' = <<>> /\ waiting' = {} /\ daemon' = "gone" /\ holds' = holds
    BY <1>8 DEF MutexFails
  <2> QED
    BY <2>1 DEF RequestInv
<1> QED
  BY <1>1, <1>2, <1>3, <1>4, <1>5, <1>6, <1>7, <1>8, StepKinds

\* A set with no two different elements is empty or has one.
LEMMA AtMostOne ==
    ASSUME NEW S, \A x, y \in S : x = y
    PROVE  IF S = {} THEN Cardinality(S) = 0 ELSE Cardinality(S) = 1
<1>1. CASE S = {}
  BY <1>1, FS_EmptySet
<1>2. CASE S # {}
  <2>1. PICK x \in S : TRUE
    BY <1>2
  <2>2. S = {x}
    BY <2>1
  <2>3. Cardinality({x}) = 1
    BY FS_Singleton
  <2> QED
    BY <1>2, <2>2, <2>3
<1> QED
  BY <1>1, <1>2

\* The inductive invariant accounts for every request.
LEMMA RequestsAccounted ==
    ASSUME RequestTypes, RequestInv
    PROVE  Accounted
<1> SUFFICES ASSUME NEW c \in waiting
             PROVE  LET here == {i \in 1 .. Len(queue) : queue[i] = c}
                        there == {t \in Threads : holds[t] = c}
                    IN  IF Failing THEN Cardinality(here) + Cardinality(there) <= 1
                                   ELSE Cardinality(here) + Cardinality(there) = 1
  BY DEF Accounted
<1> DEFINE here == {i \in 1 .. Len(queue) : queue[i] = c}
           there == {t \in Threads : holds[t] = c}
<1>1. c # NoClient
  BY NoClientAssumption DEF RequestTypes
<1>2. \A i, j \in here : i = j
  BY DEF RequestInv
<1>3. \A t, u \in there : t = u
  BY <1>1 DEF RequestInv
<1>4. here = {} \/ there = {}
  BY DEF RequestInv
<1>5. ~Failing => here # {} \/ there # {}
  BY DEF RequestInv, Queued
<1> HIDE DEF here, there
<1>6. /\ IF here = {} THEN Cardinality(here) = 0 ELSE Cardinality(here) = 1
      /\ IF there = {} THEN Cardinality(there) = 0 ELSE Cardinality(there) = 1
  BY <1>2, <1>3, AtMostOne
<1>7. IF Failing THEN Cardinality(here) + Cardinality(there) <= 1
                 ELSE Cardinality(here) + Cardinality(there) = 1
  BY <1>4, <1>5, <1>6
<1> QED
  BY <1>7 DEF here, there

\* The state of the pool is well typed, and only a thread between receiving a request
\* and answering it holds one, for any threads, clients and failures.
THEOREM PoolTypeCorrect == Spec => []TypeOK
<1> DEFINE I == PoolInv /\ RequestTypes /\ Holders
<1>1. Init => I
  BY PoolInit, RequestTypesInit
<1>2. I /\ [Next]_vars => I'
  BY PoolStep, RequestTypesStep
<1>3. I => TypeOK
  BY TypeParts
<1> QED
  BY <1>1, <1>2, <1>3, PTL DEF Spec

\* In every behaviour of the supplicant a client that waits has its request in the
\* queue or with exactly one thread, and a request is dropped only when the daemon is
\* about to end, for any threads, clients and failures.
THEOREM EveryRequestAccounted == Spec => []Accounted
<1> DEFINE I == PoolInv /\ RequestTypes /\ Holders /\ RequestInv
<1>1. Init => I
  BY PoolInit, RequestTypesInit, RequestInvInit
<1>2. I /\ [Next]_vars => I'
  BY PoolStep, RequestTypesStep, RequestInvStep
<1>3. I => Accounted
  BY RequestsAccounted
<1> QED
  BY <1>1, <1>2, <1>3, PTL DEF Spec
=============================================================================
