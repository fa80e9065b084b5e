----------------------------- MODULE DemoNames ------------------------------
(***************************************************************************)
(* The methods on names of SQLite's example VFS, as its authors wrote them *)
(* for Linux (host/demovfs.c): what the trusted application's port of them *)
(* (VfsNames) was made from.  They call Linux directly, so that a call     *)
(* either does its work or says that it did not.  Opening, syncing and     *)
(* closing the directory are one step.                                     *)
(***************************************************************************)
CONSTANTS Names, NoName

VARIABLES entry, onDisk, pc, zPath, dirSync, rc, reply

vars == <<entry, onDisk, pc, zPath, dirSync, rc, reply>>
directory == <<entry, onDisk>>

Reply(op, name, code, found) == [op |-> op, name |-> name, rc |-> code, found |-> found]
NoReply == Reply("none", NoName, "OK", "none")

Init ==
    /\ entry \in SUBSET Names /\ onDisk = entry
    /\ pc = "idle" /\ zPath = NoName /\ dirSync = "no" /\ rc = "0" /\ reply = NoReply

Return(r) == pc' = "idle" /\ zPath' = NoName /\ dirSync' = "no" /\ rc' = "0" /\ reply' = r

Deleted(r) == Return(Reply("delete", zPath, IF r = "0" THEN "OK" ELSE "IOERR_DELETE", "none"))

demoDelete ==
    /\ pc = "idle" /\ pc' = "unlink" /\ zPath' \in Names /\ dirSync' \in {"yes", "no"}
    /\ reply' = NoReply
    /\ UNCHANGED <<directory, rc>>

\* ENOENT is a success, of which nothing is synced.
Unlink ==
    /\ pc = "unlink"
    /\ \/ /\ zPath \in entry /\ entry' = entry \ {zPath}
          /\ IF dirSync = "yes" THEN pc' = "sync" /\ UNCHANGED <<zPath, dirSync, rc, reply>>
                                ELSE Deleted("0")
       \/ zPath \notin entry /\ Deleted("0") /\ UNCHANGED entry
       \/ Deleted("-1") /\ UNCHANGED entry
    /\ UNCHANGED onDisk

SyncDirectory ==
    /\ pc = "sync"
    /\ \/ Deleted("-1") /\ UNCHANGED onDisk
       \/ /\ pc' = "return"
          /\ \/ rc' = "0" /\ onDisk' = entry
             \/ rc' = "-1" /\ UNCHANGED onDisk
          /\ UNCHANGED <<zPath, dirSync, reply>>
    /\ UNCHANGED entry

ReturnRc == pc = "return" /\ Deleted(rc) /\ UNCHANGED directory

\* The permissions that Linux is asked for.
eAccess(flags) ==
    CASE flags = "EXISTS" -> {} [] flags = "READ" -> {"R"} [] flags = "READWRITE" -> {"R", "W"}

\* Besides, access() may fail.
demoAccess ==
    /\ pc = "idle"
    /\ \E f \in Names, flags \in {"EXISTS", "READ", "READWRITE"},
          permissions \in SUBSET {"R", "W"}, r \in {"0", "-1"} :
          /\ r = "0" => f \in entry /\ eAccess(flags) \subseteq permissions
          /\ Return(Reply("access", f, "OK", IF r = "0" THEN "yes" ELSE "no"))
    /\ UNCHANGED directory

Answer(op, code, worth) ==
    pc = "idle" /\ Return(Reply(op, NoName, code, worth)) /\ UNCHANGED directory

\* If getcwd() fails there is no name.
demoFullPathname == Answer("full pathname", "OK", "yes") \/ Answer("full pathname", "IOERR", "none")

demoDl == Answer("library", "OK", "no")

demoRandomness == Answer("randomness", "OK", "no")

\* A signal may wake it.
demoSleep == \E slept \in {"yes", "no"} : Answer("sleep", "OK", slept)

demoCurrentTime == Answer("time", "OK", "yes")

\* The VFS with these methods is in SQLite's list after op, or not, as listed says; code
\* is what the caller takes for the result.
sqlite3_demovfs(op, code, listed) == Answer(op, code, listed)

\* It has no return statement.
sqlite3_os_init == \E garbage \in {"OK", "ERROR"} : sqlite3_demovfs("os_init", garbage, "yes")

\* The commands of the test programs.
register_demovfs == sqlite3_demovfs("register", "OK", "yes")
unregister_demovfs == sqlite3_demovfs("unregister", "OK", "no")

\* SQLite opens a journal, Linux writes back, the power fails (external).
Create ==
    /\ pc = "idle" /\ reply' = NoReply
    /\ \E f \in Names \ entry : entry' = entry \cup {f}
    /\ UNCHANGED <<onDisk, pc, zPath, dirSync, rc>>

Writeback == onDisk' = entry /\ UNCHANGED <<entry, pc, zPath, dirSync, rc, reply>>

PowerLoss ==
    /\ \E S \in SUBSET (entry \cup onDisk) : entry \cap onDisk \subseteq S /\ entry' = S /\ onDisk' = S
    /\ Return(NoReply)

Next ==
    \/ demoDelete \/ Unlink \/ SyncDirectory \/ ReturnRc \/ demoAccess
    \/ demoFullPathname \/ demoDl \/ demoRandomness \/ demoSleep \/ demoCurrentTime \/ sqlite3_os_init
    \/ register_demovfs \/ unregister_demovfs
    \/ Create \/ Writeback \/ PowerLoss
=============================================================================
