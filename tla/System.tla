------------------------------- MODULE System -------------------------------
(***************************************************************************)
(* The example as a whole: the host program (host/main.c) and the command  *)
(* of the trusted application that it invokes (ta/tee_sqlite.c: exec,      *)
(* testWithotKey), over SQLite's transactions (Commit), with tee-supplicant *)
(* starting at the same time (SuppStart).  The host's own database is not  *)
(* reached through this VFS, and is left out but for its handle.           *)
(*                                                                         *)
(* Both programs are tables from labels to steps: an operation, and the    *)
(* labels where it goes on after a success and after an error.             *)
(***************************************************************************)
EXTENDS Commit, SuppStart

CONSTANTS
    Requests,   \* what clients send: [cmd, types, open], with types the set of those that
                \* the command's parameters may have
    MaxRuns     \* BOUND: runs of the host program

\* The databases of exec() and of testWithotKey().
ASSUME FilesAssumption == {"test.db", "test1.db"} \subseteq Files

VARIABLES
    pc,         \* the labels of "host" and "ta"
    handle,     \* what their variable db is: "null", "live", "sick" (its open failed), "closed"
    rc,         \* their variable rc
    msg,        \* what their variable err_msg is: "null", "set", "freed"
    request,
    runs,
    \* History variable.
    misuse      \* what was done with a handle or a message that the interface of SQLite forbids

appVars == <<pc, handle, rc, msg, request, runs, misuse>>
vars == <<commitVars, startVars, appVars>>
notFaults == <<files, mode, todo, result, txs, history>>

Step(op, file, ok, err) == [op |-> op, file |-> file, ok |-> ok, err |-> err]

\* Mutant of main: the session is asked for again after an error.
main_Retries ==
    [start    |-> Step("open", "test2.db", "sql", "undo"),
     sql      |-> Step("exec", "test2.db", "shut", "fail"),
     shut     |-> Step("close", "test2.db", "reopen", "reopen"),
     reopen   |-> Step("open", "test2.db", "select", "select"),
     select   |-> Step("exec", "test2.db", "shut2", "fail"),
     shut2    |-> Step("close", "test2.db", "context", "context"),
     context  |-> Step("TEEC_InitializeContext", "", "session", "exit1"),
     session  |-> Step("TEEC_OpenSession", "", "invoke", "session"),
     invoke   |-> Step("TEEC_InvokeCommand", "", "leave", "exit1"),
     leave    |-> Step("TEEC_CloseSession", "", "exit0", "exit0"),
     fail     |-> Step("free", "", "undo", "undo"),
     undo     |-> Step("close", "test2.db", "exit1", "exit1")]

\* main() of the host.  The 1000 turns of its loop are one "select".
main ==
    [start    |-> Step("open", "test2.db", "sql", "undo"),
     sql      |-> Step("exec", "test2.db", "shut", "fail"),
     shut     |-> Step("close", "test2.db", "reopen", "reopen"),
     reopen   |-> Step("open", "test2.db", "select", "select"),
     select   |-> Step("exec", "test2.db", "shut2", "fail"),
     shut2    |-> Step("close", "test2.db", "context", "context"),
     context  |-> Step("TEEC_InitializeContext", "", "session", "exit1"),
     session  |-> Step("TEEC_OpenSession", "", "invoke", "exit1"),
     invoke   |-> Step("TEEC_InvokeCommand", "", "leave", "exit1"),
     leave    |-> Step("TEEC_CloseSession", "", "exit0", "exit0"),
     fail     |-> Step("free", "", "undo", "undo"),
     undo     |-> Step("close", "test2.db", "exit1", "exit1")]

\* Mutant of exec: the handle is not closed when the second statement fails.
exec_NotClosed ==
    [start    |-> Step("open", "test.db", "key", "key"),
     key      |-> Step("key", "test.db", "opened", "opened"),
     opened   |-> Step("if rc", "test.db", "sql", "undo"),
     sql      |-> Step("write", "test.db", "select", "fail"),
     select   |-> Step("read", "test.db", "shut", "return1"),
     shut     |-> Step("close", "test.db", "test", "test"),
     fail     |-> Step("free", "", "undo", "undo"),
     undo     |-> Step("close", "test.db", "return1", "return1")]

\* exec() of the trusted application, and testWithotKey(), which it calls.
exec ==
    [start    |-> Step("open", "test.db", "key", "key"),
     key      |-> Step("key", "test.db", "opened", "opened"),
     opened   |-> Step("if rc", "test.db", "sql", "undo"),
     sql      |-> Step("write", "test.db", "select", "fail"),
     select   |-> Step("read", "test.db", "shut", "fail"),
     shut     |-> Step("close", "test.db", "test", "test"),
     fail     |-> Step("free", "", "undo", "undo"),
     undo     |-> Step("close", "test.db", "return1", "return1")]

testWithotKey ==
    [test     |-> Step("open", "test1.db", "tsql", "tundo"),
     tsql     |-> Step("write", "test1.db", "tshut", "tfail"),
     tshut    |-> Step("close", "test1.db", "treopen", "treopen"),
     treopen  |-> Step("open", "test1.db", "tselect", "tselect"),
     tselect  |-> Step("read", "test1.db", "tundo", "tfail"),
     tfail    |-> Step("free", "", "tundo", "tundo"),
     tundo    |-> Step("close", "test1.db", "types", "types"),
     types    |-> Step("types", "", "return0", "returnBad")]

At(a) == IF a = "host" THEN main[pc[a]]
         ELSE IF pc[a] \in DOMAIN exec THEN exec[pc[a]] ELSE testWithotKey[pc[a]]
Running(a) == IF a = "host" THEN pc[a] \in DOMAIN main
              ELSE pc[a] \in DOMAIN exec \cup DOMAIN testWithotKey

\* The step of a ends with rc r.
Go(a, r) ==
    /\ pc' = [pc EXCEPT ![a] = IF r = "OK" THEN At(a).ok ELSE At(a).err]
    /\ rc' = [rc EXCEPT ![a] = r]

Init ==
    /\ CommitInit /\ StartInit
    /\ pc = [host |-> "start", ta |-> "none"] /\ runs = 1
    /\ handle = [host |-> "null", ta |-> "null"] /\ rc = [host |-> "OK", ta |-> "OK"]
    /\ msg = [host |-> "null", ta |-> "null"]
    /\ request \in Requests /\ misuse = {}

Actors == {"host", "ta"}

(***************************************************************************)
(* The interface of SQLite (external), as both programs use it.            *)
(***************************************************************************)
Doing(a, op) == Running(a) /\ At(a).op = op

\* "Whether or not an error occurs when it is opened, resources associated with the
\* database connection handle should be released by passing it to sqlite3_close()";
\* the handle is NULL if there is no memory for it.
sqlite3_open(a, h) ==
    /\ Doing(a, "open")
    /\ handle' = [handle EXCEPT ![a] = h] /\ Go(a, IF h = "live" THEN "OK" ELSE "ERROR")
    /\ misuse' = IF handle[a] \in {"live", "sick"} THEN misuse \cup {"leak"} ELSE misuse
    /\ UNCHANGED <<notFaults, startVars, msg, request, runs>>

\* The host's SQLite has a VFS of its own.
HostOpen ==
    \/ sqlite3_open("host", "live") /\ UNCHANGED faults
    \/ \E h \in {"sick", "null"} : sqlite3_open("host", h) /\ Fault

\* The first open of the application initializes SQLite, which calls sqlite3_os_init:
\* its result is anything (VfsNames), and an error leaves no handle.
sqlite3_initialize == IF pc["ta"] = "start" THEN {"OK", "ERROR"} ELSE {"OK"}

\* The application's opens need RPCs.
TaOpen ==
    \/ Serving /\ "OK" \in sqlite3_initialize /\ sqlite3_open("ta", "live") /\ UNCHANGED faults
    \/ "ERROR" \in sqlite3_initialize /\ sqlite3_open("ta", "null") /\ UNCHANGED faults
    \/ \E h \in {"sick", "null"} : sqlite3_open("ta", h) /\ Fault

\* "A pointer to an sqlite3 object ... not previously closed"; NULL is a no-op.
sqlite3_close(a) ==
    /\ Doing(a, "close")
    /\ handle' = [handle EXCEPT ![a] = IF @ = "null" THEN "null" ELSE "closed"]
    /\ misuse' = IF handle[a] = "closed" THEN misuse \cup {"double close"} ELSE misuse
    /\ pc' = [pc EXCEPT ![a] = At(a).ok]
    /\ UNCHANGED <<commitVars, startVars, rc, msg, request, runs>>

\* sqlite3_key looks into the handle before rc is looked at.
sqlite3_key ==
    /\ Doing("ta", "key")
    /\ pc' = [pc EXCEPT !["ta"] = At("ta").ok]
    /\ misuse' = IF handle["ta"] = "null" THEN misuse \cup {"key of NULL"} ELSE misuse
    /\ UNCHANGED <<commitVars, startVars, handle, rc, msg, request, runs>>

CheckRc ==
    /\ Doing("ta", "if rc") /\ Go("ta", rc["ta"])
    /\ UNCHANGED <<commitVars, startVars, handle, msg, request, runs, misuse>>

\* A message is freed once; NULL is a no-op.
sqlite3_free(a) ==
    /\ Doing(a, "free")
    /\ msg' = [msg EXCEPT ![a] = IF @ = "null" THEN "null" ELSE "freed"]
    /\ misuse' = IF msg[a] = "freed" THEN misuse \cup {"double free"} ELSE misuse
    /\ pc' = [pc EXCEPT ![a] = At(a).ok]
    /\ UNCHANGED <<commitVars, startVars, handle, rc, request, runs>>

\* sqlite3_exec returns r to a, with a message of its own if that is an error: "the
\* application should invoke sqlite3_free() on error message strings".
ExecReturns(a, r) ==
    /\ Go(a, r) /\ msg' = [msg EXCEPT ![a] = IF r = "OK" THEN "null" ELSE "set"]
    /\ misuse' = IF msg[a] = "set" THEN misuse \cup {"message lost"} ELSE misuse

\* On a handle that is not live it is refused, and leaves the message as it is; a closed
\* one must not be used.
ExecRefused(a) ==
    /\ Doing(a, "exec") \/ Doing(a, "write") \/ Doing(a, "read")
    /\ handle[a] # "live" /\ Go(a, "ERROR")
    /\ misuse' = IF handle[a] = "closed" THEN misuse \cup {"use after close"} ELSE misuse
    /\ UNCHANGED <<commitVars, startVars, handle, msg, request, runs>>

HostExec ==
    /\ Doing("host", "exec") /\ handle["host"] = "live"
    /\ \E r \in {"OK", "ERROR"} : ExecReturns("host", r)
    /\ UNCHANGED <<commitVars, startVars, handle, request, runs>>

TaExecuting == (Doing("ta", "write") \/ Doing("ta", "read")) /\ handle["ta"] = "live"

\* The next statement of the application's SQL starts.
TaStatement ==
    /\ TaExecuting /\ rc["ta"] # "busy"
    /\ Statement(At("ta").file, At("ta").op)
    /\ rc' = [rc EXCEPT !["ta"] = "busy"]
    /\ UNCHANGED <<startVars, pc, handle, msg, request, runs, misuse>>

\* Its VFS calls.  Without tee-supplicant none succeeds.
TaCall ==
    /\ TaExecuting /\ rc["ta"] = "busy"
    /\ \/ Serving /\ Call(At("ta").file)
       \/ LostCall(At("ta").file)
       \/ CallFails(At("ta").file)
    /\ UNCHANGED <<startVars, appVars>>

\* "If an sqlite3_exec() callback returns non-zero, the sqlite3_exec() routine returns
\* SQLITE_ABORT without invoking the callback again": this one shows a row, and returns 0.
callback == "OK"

\* It has ended: sqlite3_exec goes on to its next statement, or returns.
TaStatementEnds ==
    /\ TaExecuting /\ rc["ta"] = "busy" /\ mode[At("ta").file] = "idle"
    /\ \/ ExecReturns("ta", IF result[At("ta").file] = "OK" /\ Doing("ta", "read")
                             THEN callback ELSE result[At("ta").file])
       \/ /\ result[At("ta").file] = "OK" /\ Doing("ta", "write")
          /\ rc' = [rc EXCEPT !["ta"] = "OK"] /\ UNCHANGED <<pc, msg, misuse>>
    /\ UNCHANGED <<commitVars, startVars, handle, request, runs>>

\* exec() looks at its parameters' types when its work is done.
CheckTypes ==
    /\ Doing("ta", "types")
    /\ \E types \in request.types : Go("ta", IF types = "INOUT" THEN "OK" ELSE "ERROR")
    /\ UNCHANGED <<commitVars, startVars, handle, msg, request, runs, misuse>>

(***************************************************************************)
(* The client API (external) and the application's entry points.           *)
(***************************************************************************)
TEEC_InitializeContext ==
    /\ Doing("host", "TEEC_InitializeContext")
    /\ \E r \in {"OK", "ERROR"} : Go("host", r)
    /\ UNCHANGED <<commitVars, startVars, handle, msg, request, runs, misuse>>

\* The application has nothing to set up; a session wants no parameters.
TA_CreateEntryPoint == "OK"
TA_OpenSessionEntryPoint(types) == IF types = "NONE" THEN "OK" ELSE "ERROR"

\* tee-supplicant's load_ta finds the application and it fits the buffer, or not.
TEEC_OpenSession ==
    /\ Doing("host", "TEEC_OpenSession") /\ Serving
    /\ \E loaded \in BOOLEAN :
          LET r == IF loaded /\ TA_CreateEntryPoint = "OK" THEN TA_OpenSessionEntryPoint(request.open) ELSE "ERROR" IN
          /\ pc' = [host |-> IF r = "OK" THEN At("host").ok ELSE At("host").err,
                    ta |-> IF r = "OK" THEN "idle" ELSE "none"]
          /\ rc' = [rc EXCEPT !["host"] = r]
    /\ UNCHANGED <<commitVars, startVars, handle, msg, request, runs, misuse>>

TA_InvokeCommandEntryPoint(cmd) == IF cmd = "EXEC" THEN "start" ELSE "returnBad"

TEEC_InvokeCommand ==
    /\ Doing("host", "TEEC_InvokeCommand") /\ pc["ta"] = "idle"
    /\ pc' = [pc EXCEPT !["ta"] = TA_InvokeCommandEntryPoint(request.cmd)]
    /\ handle' = [handle EXCEPT !["ta"] = "null"] /\ rc' = [rc EXCEPT !["ta"] = "OK"]
    /\ msg' = [msg EXCEPT !["ta"] = "null"]
    /\ UNCHANGED <<commitVars, startVars, request, runs, misuse>>

Returned == {"return0", "return1", "returnBad"}

\* The command has returned, or the application is dead.
InvokeReturns ==
    /\ Doing("host", "TEEC_InvokeCommand") /\ pc["ta"] \in Returned \cup {"dead"}
    /\ LET r == IF pc["ta"] = "return0" THEN "OK" ELSE "ERROR" IN
          /\ pc' = [host |-> IF r = "OK" THEN At("host").ok ELSE At("host").err,
                    ta |-> IF r = "OK" THEN "idle" ELSE "none"]
          /\ rc' = [rc EXCEPT !["host"] = r]
    /\ UNCHANGED <<commitVars, startVars, handle, msg, request, runs, misuse>>

\* A multi-instance application "with no specific attribute": each session has its own.
TA_FLAGS == {"EXEC_DDR"}

\* The last call in an instance, which frees nothing, and is gone then.
TA_DestroyEntryPoint == "none"

\* TA_CloseSessionEntryPoint does nothing more.
TEEC_CloseSession ==
    /\ Doing("host", "TEEC_CloseSession")
    /\ pc' = [host |-> At("host").ok,
              ta |-> IF "INSTANCE_KEEP_ALIVE" \in TA_FLAGS THEN "idle" ELSE TA_DestroyEntryPoint]
    /\ UNCHANGED <<commitVars, startVars, handle, rc, msg, request, runs, misuse>>

HostEnded == pc["host"] \in {"exit0", "exit1", "off"}

\* The program is run again, and sends what it did.
RunAgain ==
    /\ HostEnded /\ runs < MaxRuns /\ runs' = runs + 1
    /\ pc' = [host |-> "start", ta |-> "none"]
    /\ handle' = [a \in Actors |-> "null"] /\ rc' = [a \in Actors |-> "OK"]
    /\ msg' = [a \in Actors |-> "null"]
    /\ UNCHANGED <<commitVars, startVars, request, misuse>>

\* The application panics while it executes SQL.
TaPanics ==
    /\ TaExecuting
    /\ Panic /\ pc' = [pc EXCEPT !["ta"] = "dead"]
    /\ handle' = [handle EXCEPT !["ta"] = "null"]
    /\ msg' = [msg EXCEPT !["ta"] = "null"]
    /\ UNCHANGED <<startVars, rc, request, runs, misuse>>

\* The power fails while it does; then tee-supplicant is started again.
MachineStops ==
    /\ TaExecuting
    /\ PowerFails /\ pc' = [host |-> "off", ta |-> "none"]
    /\ handle' = [a \in Actors |-> "null"] /\ rc' = [a \in Actors |-> "OK"]
    /\ msg' = [a \in Actors |-> "null"] /\ Restart
    /\ UNCHANGED <<request, runs, misuse>>

Supplicant ==
    /\ (StartSteps /\ UNCHANGED faults) \/ (StartFaults /\ Fault)
    /\ UNCHANGED <<notFaults, appVars>>

HostStep ==
    \/ HostOpen \/ sqlite3_close("host") \/ sqlite3_free("host") \/ ExecRefused("host") \/ HostExec
    \/ TEEC_InitializeContext \/ TEEC_OpenSession \/ TEEC_InvokeCommand \/ InvokeReturns
    \/ TEEC_CloseSession

TaStep ==
    \/ TaOpen \/ sqlite3_close("ta") \/ sqlite3_free("ta") \/ ExecRefused("ta") \/ sqlite3_key
    \/ CheckRc \/ TaStatement \/ TaCall \/ TaStatementEnds \/ CheckTypes

Next ==
    \/ HostStep \/ TaStep \/ Supplicant
    \/ RunAgain \/ TaPanics \/ MachineStops

\* Linux schedules the processes.  The calls of the application need a tee-supplicant
\* that serves them: it is not assumed that they end without one.
Fairness ==
    /\ WF_vars(HostStep) /\ WF_vars(Serving /\ TaStep)
    /\ WF_vars(StartSteps /\ UNCHANGED <<commitVars, appVars>>)

Spec == Init /\ [][Next]_vars /\ Fairness

-----------------------------------------------------------------------------
\* Every handle is closed, once, when the command returns or the host ends, and none
\* is used after: a connection left open would write to the database beside that of
\* the next command, and the locks of this VFS (demoLock, demoCheckReservedLock) would
\* not keep them apart.  Likewise every message is freed, once.  Only sqlite3_key is
\* given the NULL of an open that failed.
ConnectionsClosed ==
    /\ misuse \subseteq {"key of NULL"}
    /\ pc["ta"] \in Returned \cup {"idle", "none"} =>
           handle["ta"] \notin {"live", "sick"} /\ msg["ta"] # "set"
    /\ HostEnded => handle["host"] \notin {"live", "sick"} /\ msg["host"] # "set"

\* While tee-supplicant serves, the host program ends: whatever the SQL, the application
\* and the VFS meet, no error path leaves it waiting.
HostEnds == []<>(HostEnded \/ ~Serving)
=============================================================================
