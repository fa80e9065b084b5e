------------------------------ MODULE SuppPool ------------------------------
(***************************************************************************)
(* The threads of tee-supplicant (tee_supplicant.c).  The kernel queues    *)
(* the requests of the secure world; a thread receives one, handles it and *)
(* sends the response.  A thread that took the last waiting thread's place *)
(* starts another one before it handles its request, so that a handler may *)
(* block for as long as it likes.  num_waiters counts the threads that     *)
(* wait and those that were started and have not run yet.                  *)
(*                                                                         *)
(* One action is what a thread does between two operations that other      *)
(* threads can see: the mutex of num_waiters, the flag abort (read and     *)
(* written without it), an ioctl, pthread_create.                          *)
(***************************************************************************)
EXTENDS Integers, Sequences, FiniteSets

CONSTANTS
    Threads,    \* the threads the process may have
    Main,       \* the one that runs main()
    Clients,    \* the secure-world threads that send requests
    MaxReqs,    \* BOUND: the requests of one client in a behaviour
    Faults      \* whether the ioctls, pthread_create and the mutex can fail

ASSUME MainAssumption == Main \in Threads
ASSUME ThreadsAssumption == IsFiniteSet(Threads)
ASSUME FaultsAssumption == Faults \in BOOLEAN
ASSUME MaxReqsAssumption == MaxReqs \in Nat

NoClient == "no client"
ASSUME NoClientAssumption == NoClient \notin Clients

VARIABLES
    \* struct thread_arg, and the threads
    num_waiters,
    abort,          \* "no", "yes"
    pc,             \* where each thread stands
    holds,          \* the client whose request a thread has received
    \* The kernel and its clients (external)
    queue,          \* requests no thread has received yet, oldest first
    waiting,        \* clients with a request that has no answer
    reqs,           \* the requests each client has made
    daemon          \* "up", or "gone" once the process has ended

vars == <<num_waiters, abort, pc, holds, queue, waiting, reqs, daemon>>

PCs == {"none", "spawned", "loop", "recv", "got", "spawn", "create", "uncount",
        "handle", "send", "failed", "exited"}

Init ==
    /\ num_waiters = 0 /\ abort = "no"
    /\ pc = [t \in Threads |-> IF t = Main THEN "loop" ELSE "none"]
    /\ holds = [t \in Threads |-> NoClient]
    /\ queue = <<>> /\ waiting = {} /\ reqs = [c \in Clients |-> 0]
    /\ daemon = "up"

Goto(t, from, to) == daemon = "up" /\ pc[t] = from /\ pc' = [pc EXCEPT ![t] = to]

num_waiters_inc == num_waiters' = num_waiters + 1
num_waiters_dec == num_waiters' = num_waiters - 1

\* What a thread leaves alone between two ioctls.
Kernel == <<queue, waiting, reqs, daemon>>

(***************************************************************************)
(* process_one_request, in the loops of main() and thread_main().          *)
(***************************************************************************)

\* Mutant of thread_main: the increment of spawn_thread is not compensated.
thread_main_NoDec(t) ==
    /\ Goto(t, "spawned", "loop")
    /\ UNCHANGED <<num_waiters, abort, holds, Kernel>>

\* The thread pthread_create has started runs for the first time.
thread_main(t) ==
    /\ Goto(t, "spawned", "loop")
    /\ num_waiters_dec
    /\ UNCHANGED <<abort, holds, Kernel>>

\* The head of the loop, and num_waiters_inc in process_one_request.
Loop(t) ==
    /\ abort = "no"
    /\ Goto(t, "loop", "recv")
    /\ num_waiters_inc
    /\ UNCHANGED <<abort, holds, Kernel>>

\* abort is set: a worker ends, main() closes the device and ends the process.
\* The kernel then fails every request that has no answer.
Leave(t) ==
    /\ abort = "yes"
    /\ Goto(t, "loop", "exited")
    /\ IF t = Main
       THEN daemon' = "gone" /\ queue' = <<>> /\ waiting' = {}
       ELSE UNCHANGED <<daemon, queue, waiting>>
    /\ UNCHANGED <<num_waiters, abort, holds, reqs>>

\* read_request: TEE_IOC_SUPPL_RECV blocks until there is a request.
read_request(t) ==
    /\ queue # <<>>
    /\ Goto(t, "recv", "got")
    /\ holds' = [holds EXCEPT ![t] = Head(queue)]
    /\ queue' = Tail(queue)
    /\ UNCHANGED <<num_waiters, abort, waiting, reqs, daemon>>

\* read_request or find_params returns false, with num_waiters still counting t.
ReceiveFails(t) ==
    /\ Faults
    /\ \/ Goto(t, "recv", "failed")
       \/ Goto(t, "got", "failed")
    /\ holds' = [holds EXCEPT ![t] = NoClient]
    /\ UNCHANGED <<num_waiters, abort, Kernel>>

\* Mutant of Uncounted: another thread is started one waiter too late.
Uncounted_Late(t) ==
    /\ Goto(t, "got", IF num_waiters = 0 THEN "spawn" ELSE "handle")
    /\ num_waiters_dec
    /\ UNCHANGED <<abort, holds, Kernel>>

\* The request has a meta parameter: the supplicant announces it can take one,
\* and the kernel then always sends one.
Uncounted(t) ==
    /\ Goto(t, "got", IF num_waiters = 1 THEN "spawn" ELSE "handle")
    /\ num_waiters_dec
    /\ UNCHANGED <<abort, holds, Kernel>>

\* spawn_thread, up to pthread_create.
spawn_thread(t) ==
    /\ Goto(t, "spawn", "create")
    /\ num_waiters_inc
    /\ UNCHANGED <<abort, holds, Kernel>>

\* Mutant of pthread_create: the request is left to the new thread, which does not
\* know of it.
pthread_create_Forgets(t) ==
    /\ daemon = "up" /\ pc[t] = "create"
    /\ \E new \in Threads :
          /\ pc[new] = "none"
          /\ pc' = [pc EXCEPT ![t] = "loop", ![new] = "spawned"]
    /\ UNCHANGED <<num_waiters, abort, holds, Kernel>>

pthread_create(t) ==
    /\ daemon = "up" /\ pc[t] = "create"
    /\ \E new \in Threads :
          /\ pc[new] = "none"
          /\ pc' = [pc EXCEPT ![t] = "handle", ![new] = "spawned"]
    /\ UNCHANGED <<num_waiters, abort, holds, Kernel>>

CreateFails(t) ==
    /\ Faults \/ \A new \in Threads : pc[new] # "none"
    /\ Goto(t, "create", "uncount")
    /\ UNCHANGED <<num_waiters, abort, holds, Kernel>>

\* Mutant of SpawnFailed: both spawn_thread and its caller take the increment back.
SpawnFailed_TwoDecs(t) ==
    /\ Goto(t, "uncount", "failed")
    /\ num_waiters' = num_waiters - 2
    /\ holds' = [holds EXCEPT ![t] = NoClient]
    /\ UNCHANGED <<abort, Kernel>>

\* spawn_thread takes its increment back and process_one_request returns false;
\* the request it had received gets no answer.
SpawnFailed(t) ==
    /\ Goto(t, "uncount", "failed")
    /\ num_waiters_dec
    /\ holds' = [holds EXCEPT ![t] = NoClient]
    /\ UNCHANGED <<abort, Kernel>>

\* The switch on func: one of the handlers, for as long as it takes.
Handle(t) ==
    /\ Goto(t, "handle", "send")
    /\ UNCHANGED <<num_waiters, abort, holds, Kernel>>

\* write_response: TEE_IOC_SUPPL_SEND finds the request by its meta parameter.
write_response(t) ==
    /\ Goto(t, "send", "loop")
    /\ waiting' = waiting \ {holds[t]}
    /\ holds' = [holds EXCEPT ![t] = NoClient]
    /\ UNCHANGED <<num_waiters, abort, queue, reqs, daemon>>

ResponseFails(t) ==
    /\ Faults
    /\ Goto(t, "send", "failed")
    /\ holds' = [holds EXCEPT ![t] = NoClient]
    /\ UNCHANGED <<num_waiters, abort, Kernel>>

\* Mutants of SetAbort: the loop goes on after a failure; only the thread that
\* failed ends.
SetAbort_GoesOn(t) ==
    /\ Goto(t, "failed", "loop")
    /\ UNCHANGED <<num_waiters, abort, holds, Kernel>>

SetAbort_EndsAlone(t) ==
    /\ Goto(t, "failed", "exited")
    /\ UNCHANGED <<num_waiters, abort, holds, Kernel>>

\* process_one_request has returned false.
SetAbort(t) ==
    /\ Goto(t, "failed", "loop")
    /\ abort' = "yes"
    /\ UNCHANGED <<num_waiters, holds, Kernel>>

(***************************************************************************)
(* The secure world (external): thread_rpc_cmd sends a request and waits.  *)
(***************************************************************************)
Request(c) ==
    /\ daemon = "up"
    /\ c \notin waiting /\ reqs[c] < MaxReqs
    /\ queue' = Append(queue, c)
    /\ waiting' = waiting \cup {c}
    /\ reqs' = [reqs EXCEPT ![c] = @ + 1]
    /\ UNCHANGED <<num_waiters, abort, pc, holds, daemon>>

\* The steps a thread takes of its own accord.  An ioctl or a pthread_create that
\* can succeed need not fail.
Proceed(t) ==
    \/ thread_main(t) \/ Loop(t) \/ Leave(t) \/ read_request(t) \/ Uncounted(t)
    \/ spawn_thread(t) \/ pthread_create(t) \/ SpawnFailed(t)
    \/ write_response(t) \/ SetAbort(t)

\* tee_supp_mutex_lock and tee_supp_mutex_unlock exit() when pthread_mutex fails, in
\* whatever thread: the process ends as it stands, and the kernel fails the requests.
MutexFails(t) ==
    /\ Faults /\ daemon = "up"
    /\ pc[t] \in {"spawned", "loop", "got", "spawn", "uncount", "handle"}
    /\ daemon' = "gone" /\ queue' = <<>> /\ waiting' = {}
    /\ UNCHANGED <<num_waiters, abort, pc, holds, reqs>>

Fail(t) == ReceiveFails(t) \/ CreateFails(t) \/ ResponseFails(t) \/ MutexFails(t)

Next ==
    \/ \E t \in Threads : Proceed(t) \/ Fail(t) \/ Handle(t)
    \/ \E c \in Clients : Request(c)

\* The scheduler runs every thread.  Nothing is assumed of Handle: a handler may
\* block for ever (sleep, read, fcntl and the sockets can).
Spec == Init /\ [][Next]_vars /\ \A t \in Threads : WF_vars(Proceed(t) \/ CreateFails(t))

\* No handler blocks for ever.
HandlersReturn == \A t \in Threads : WF_vars(Handle(t))

-----------------------------------------------------------------------------
(***************************************************************************)
(* Properties.                                                             *)
(***************************************************************************)

\* The threads num_waiters is meant to count, when they stand where p says.
CountedPCs == {"spawned", "recv", "got", "create", "uncount"}
CountedIn(p) == {t \in Threads : p[t] \in CountedPCs}
Counted == CountedIn(pc)

\* A thread has failed: abort is set or about to be.
Failing == abort = "yes" \/ \E t \in Threads : pc[t] \in {"uncount", "failed"}

\* The threads' state is well typed, and only the threads from "got" to "send"
\* hold a request.
TypeOK ==
    /\ num_waiters \in Nat
    /\ abort \in {"no", "yes"}
    /\ pc \in [Threads -> PCs]
    /\ holds \in [Threads -> Clients \cup {NoClient}]
    /\ \A t \in Threads :
          (holds[t] # NoClient)
             <=> pc[t] \in {"got", "spawn", "create", "uncount", "handle", "send"}
    /\ queue \in Seq(Clients) /\ waiting \subseteq Clients
    /\ reqs \in [Clients -> 0 .. MaxReqs]
    /\ daemon \in {"up", "gone"}

\* num_waiters never falls behind the threads it stands for, so that the assert
\* of num_waiters_dec (tee_supplicant.c:137) holds, and is exact until a thread
\* fails between num_waiters_inc and num_waiters_dec.
WaiterCount ==
    /\ num_waiters >= Cardinality(Counted)
    /\ ~Failing => num_waiters = Cardinality(Counted)

\* Whatever the interleaving, the threads are never all inside handlers: some
\* thread waits, is about to, or is about to start one that will.
NeverAllBusy ==
    ~Failing =>
        \E t \in Threads : pc[t] \in {"spawned", "loop", "recv", "got", "spawn", "create"}

\* What makes the two inductive: as long as no thread has failed, either some thread
\* is counted, or the thread that brought the count to 0 is about to start one, or
\* a thread is about to wait.
PoolInv ==
    /\ num_waiters \in Nat /\ abort \in {"no", "yes"} /\ pc \in [Threads -> PCs]
    /\ WaiterCount
    /\ ~Failing => num_waiters > 0 \/ \E t \in Threads : pc[t] \in {"loop", "spawn"}

\* A client that waits has its request in the queue or in the hands of exactly
\* one thread; a request is only ever dropped by a thread that then ends the
\* daemon.
Accounted ==
    \A c \in waiting :
        LET here == {i \in 1 .. Len(queue) : queue[i] = c}
            there == {t \in Threads : holds[t] = c}
        IN  IF Failing THEN Cardinality(here) + Cardinality(there) <= 1
                       ELSE Cardinality(here) + Cardinality(there) = 1

Queued(c) == \E i \in 1 .. Len(queue) : queue[i] = c

\* What makes Accounted inductive: no request is in two places, and none is in the
\* queue or, while the daemon runs, with a thread unless its client waits for it.
RequestInv ==
    /\ daemon = "gone" => queue = <<>> /\ waiting = {}
    /\ \A i \in 1 .. Len(queue) : queue[i] \in waiting
    /\ \A i, j \in 1 .. Len(queue) : queue[i] = queue[j] => i = j
    /\ daemon = "up" => \A t \in Threads : holds[t] # NoClient => holds[t] \in waiting
    /\ \A t \in Threads : \A i \in 1 .. Len(queue) : holds[t] # queue[i]
    /\ \A t, u \in Threads : holds[t] # NoClient /\ holds[t] = holds[u] => t = u
    /\ ~Failing => \A c \in waiting : Queued(c) \/ \E t \in Threads : holds[t] = c

\* Every request leaves the kernel's queue, even if no handler ever returns: a
\* handler that blocks never holds up another client's request.
RequestTaken == \A c \in Clients : Queued(c) ~> ~Queued(c)

\* If handlers return, every request is answered.
RequestAnswered ==
    HandlersReturn => \A c \in Clients : c \in waiting ~> c \notin waiting

\* If handlers return, then even when ioctls and pthread_create fail a request that
\* has arrived is received, or failed by the kernel when the daemon ends.
TakenOrFailed == HandlersReturn => RequestTaken
=============================================================================
