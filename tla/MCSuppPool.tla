----------------------------- MODULE MCSuppPool -----------------------------
(***************************************************************************)
(* SuppPool with two clients.  A thread is started at most once for every  *)
(* request, so one thread more than the requests is never short of         *)
(* threads; with fewer, pthread_create reaches the process's limit.        *)
(***************************************************************************)
EXTENDS SuppPool

CONSTANT NumThreads

MCThreads == 0 .. NumThreads - 1

\* Threads other than Main are alike: pthread_create takes the lowest one.
InOrder == \A t, u \in Threads : t < u /\ pc[u] # "none" => pc[t] # "none"

MCNext == Next /\ InOrder'

MCFair == \A t \in Threads :
              WF_vars((Proceed(t) \/ CreateFails(t)) /\ InOrder')

MCSpec == Init /\ [][MCNext]_vars /\ MCFair
=============================================================================
