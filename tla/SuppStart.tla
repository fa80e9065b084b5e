----------------------------- MODULE SuppStart ------------------------------
(***************************************************************************)
(* How tee-supplicant starts (tee_supplicant.c: main, make_daemon,         *)
(* get_dev_fd, open_dev).  With --daemonize the parent waits on a pipe     *)
(* until its child has opened the device; the child serves requests.       *)
(***************************************************************************)
EXTENDS Integers

CONSTANTS
    MAX_DEV_SEQ,    \* /dev/teepriv0 ... are tried up to this one
    Argvs,          \* command lines: [help, daemonize, bad : BOOLEAN, dev : Int],
                    \* dev -1 if no device is named, bad for an unknown option or argument
    Devices         \* what the devices may be

ASSUME DevicesAssumption ==
    Devices \subseteq [0..MAX_DEV_SEQ - 1 -> {"absent", "other", "optee"}]

Procs == {"parent", "child"}
NoDev == -1

VARIABLES
    argv,
    devs,       \* what each device is: "absent", "other" (not OP-TEE), "optee"
    at,         \* where each process stands
    writers,    \* processes that have pipefd[1] open
    readers,    \* processes that have pipefd[0] open
    bytes,      \* bytes in the pipe
    fd,         \* the device each process has open
    \* History variables.
    opened,     \* "yes" once a device was opened
    readError   \* "yes" once the parent's read() has failed

startVars == <<argv, devs, at, writers, readers, bytes, fd, opened, readError>>

StartInit ==
    /\ argv \in Argvs
    /\ devs \in Devices
    /\ at = [q \in Procs |-> IF q = "parent" THEN "main" ELSE "unborn"]
    /\ writers = {} /\ readers = {} /\ bytes = 0 /\ fd = [q \in Procs |-> NoDev]
    /\ opened = "no" /\ readError = "no"

Ended == {"unborn", "exit 0", "exit 1", "killed"}

\* A process ends, and Linux closes what it has open.
Leave(q, how) ==
    /\ at' = [at EXCEPT ![q] = how] /\ fd' = [fd EXCEPT ![q] = NoDev]
    /\ writers' = writers \ {q} /\ readers' = readers \ {q}

To(q, where) == at' = [at EXCEPT ![q] = where]

\* -h, or an option that is not known or one argument too many.
usage ==
    \/ argv.help /\ Leave("parent", "exit 0")
    \/ argv.bad /\ Leave("parent", "exit 1")

\* Without memory for the directories of applications it does not return.
set_ta_path(Goes) == Leave("parent", "exit 1") \/ Goes

\* main() up to make_daemon(): the mutex, the plugins and the pipe may end it too.
Prepare ==
    /\ at["parent"] = "main"
    /\ \/ usage
       \/ /\ ~argv.help /\ ~argv.bad
          /\ set_ta_path(/\ IF argv.daemonize
                            THEN To("parent", "fork") /\ writers' = {"parent"} /\ readers' = {"parent"}
                            ELSE To("parent", "open device") /\ UNCHANGED <<writers, readers>>
                         /\ UNCHANGED fd)
       \/ Leave("parent", "exit 1")
    /\ UNCHANGED <<argv, devs, bytes, opened, readError>>

\* Mutant of Fork: the parent keeps its writing end of the pipe.
Fork_WriteEndKept ==
    /\ at["parent"] = "fork"
    /\ \/ /\ at' = [at EXCEPT !["parent"] = "wait", !["child"] = "detach"]
          /\ writers' = {"parent", "child"} /\ readers' = {"parent"} /\ UNCHANGED fd
       \/ Leave("parent", "exit 1")
    /\ UNCHANGED <<argv, devs, bytes, opened, readError>>

\* fork(): each process closes the end of the pipe that it does not use.
Fork ==
    /\ at["parent"] = "fork"
    /\ \/ /\ at' = [at EXCEPT !["parent"] = "wait", !["child"] = "detach"]
          /\ writers' = {"child"} /\ readers' = {"parent"} /\ UNCHANGED fd
       \/ Leave("parent", "exit 1")
    /\ UNCHANGED <<argv, devs, bytes, opened, readError>>

\* Mutant of Wait: the result of read() is not looked at.
Wait_ResultUnseen ==
    /\ at["parent"] = "wait" /\ (bytes > 0 \/ writers = {})
    /\ Leave("parent", "exit 0")
    /\ UNCHANGED <<argv, devs, bytes, opened, readError>>

\* The parent's read() returns 1, or 0 at the end of the file.
Wait ==
    /\ at["parent"] = "wait"
    /\ \/ bytes > 0 /\ Leave("parent", "exit 0")
       \/ bytes = 0 /\ writers = {} /\ Leave("parent", "exit 1")
    /\ UNCHANGED <<argv, devs, bytes, opened, readError>>

\* Its read() fails: the result is only compared with 0, so that the parent reports
\* success.
ReadFails ==
    /\ at["parent"] = "wait"
    /\ Leave("parent", "exit 0") /\ readError' = "yes"
    /\ UNCHANGED <<argv, devs, bytes, opened>>

\* setsid, chdir, /dev/null.
Detach ==
    /\ at["child"] = "detach"
    /\ \/ To("child", "open device") /\ UNCHANGED <<writers, readers, fd>>
       \/ Leave("child", "exit 1")
    /\ UNCHANGED <<argv, devs, bytes, opened, readError>>

\* open_dev: the device is there, tells its version, and is OP-TEE's.
open_dev(n) == n \in DOMAIN devs /\ devs[n] = "optee"

\* get_dev_fd: the first device that can be opened.
get_dev_fd == {n \in DOMAIN devs : open_dev(n) /\ \A m \in 0..n-1 : ~open_dev(m)}

OpenDevice(q) ==
    /\ at[q] = "open device"
    /\ \/ \E n \in IF argv.dev # NoDev THEN {m \in {argv.dev} : open_dev(m)} ELSE get_dev_fd :
             /\ fd' = [fd EXCEPT ![q] = n]
             /\ To(q, IF argv.daemonize THEN "release" ELSE "serve")
             /\ opened' = "yes" /\ UNCHANGED <<writers, readers>>
       \/ Leave(q, "exit 1") /\ UNCHANGED opened
    /\ UNCHANGED <<argv, devs, bytes, readError>>

\* The child releases its parent: write() may fail, and kills the child if nobody
\* can read.
Release ==
    /\ at["child"] = "release"
    /\ \/ /\ readers # {}
          /\ bytes' = bytes + 1 /\ writers' = writers \ {"child"}
          /\ To("child", "serve") /\ UNCHANGED <<readers, fd>>
       \/ Leave("child", IF readers = {} THEN "killed" ELSE "exit 1") /\ UNCHANGED bytes
    /\ UNCHANGED <<argv, devs, opened, readError>>

\* The loop of process_one_request ends (SuppPool).
StopServing(q) ==
    /\ at[q] = "serve" /\ Leave(q, "exit 1")
    /\ UNCHANGED <<argv, devs, bytes, opened, readError>>

\* A process is killed: the child before it serves, the parent before it is released.
Kill(q) ==
    /\ at[q] \notin Ended \cup {"serve"} /\ bytes = 0 /\ Leave(q, "killed")
    /\ UNCHANGED <<argv, devs, bytes, opened, readError>>

\* Some process takes requests from the device.
Serving == \E q \in Procs : at[q] = "serve"

\* The machine starts again, and tee-supplicant with it.
Restart ==
    /\ at' = [q \in Procs |-> IF q = "parent" THEN "main" ELSE "unborn"]
    /\ writers' = {} /\ readers' = {} /\ bytes' = 0 /\ fd' = [q \in Procs |-> NoDev]
    /\ opened' = "no" /\ readError' = "no" /\ UNCHANGED <<argv, devs>>

StartSteps == Prepare \/ Fork \/ Wait \/ Detach \/ Release \/ \E q \in Procs : OpenDevice(q)
StartFaults == ReadFails \/ \E q \in Procs : StopServing(q) \/ Kill(q)

-----------------------------------------------------------------------------
\* "run as a daemon (fork and return after child has opened the TEE device or on
\* error)" (tee_supplicant.c:511): a parent that reports success has a child that
\* opened the device.  The one exception is a read() that failed, which make_daemon
\* does not tell from one that returned a byte.
ReleasedAfterOpen ==
    argv.daemonize /\ ~argv.help /\ at["parent"] = "exit 0" =>
        opened = "yes" \/ readError = "yes"

\* The parent never waits for ever: its child writes, or ends and closes the pipe.
ParentReturns == (at["parent"] = "wait") ~> (at["parent"] # "wait")
=============================================================================
