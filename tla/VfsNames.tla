------------------------------ MODULE VfsNames ------------------------------
(***************************************************************************)
(* The methods of the trusted application's SQLite VFS that work on names  *)
(* (ta/tee_vfs.c: demoDelete, demoAccess), for the journals of a           *)
(* directory, and those that keep no state.  SQLite commits by deleting a  *)
(* journal and rolls back if it finds one, so what these methods say       *)
(* decides what has been committed.                                        *)
(*                                                                         *)
(* A directory entry is in the page cache and, from some later moment, on  *)
(* stable storage.  Every utee_vfs_* call may fail in Linux or for lack of *)
(* a payload (both -1), or on the way, and then returns 0 with errno 0     *)
(* (core/tee/tee_sqlite.c).  The paths are full ones, as demoFullPathname  *)
(* makes them: they have a slash.                                          *)
(***************************************************************************)
CONSTANT Names      \* the journals in the directory

NoName == "no name"
ASSUME NamesAssumption == NoName \notin Names

VARIABLES
    entry,      \* the names in the page cache's directory
    onDisk,     \* the names in the directory on stable storage
    pc,         \* where the method under way stands
    zPath,      \* demoDelete's arguments
    dirSync,    \* "yes" or "no"
    rc,
    reply,      \* what the last method returned
    \* History variables.
    rpc,        \* "failed" once an RPC of the method under way, or of the last one if none
                \* is, has failed, else "ok"
    removed     \* names that a demoDelete with dirSync has unlinked, and said so
                \* after no failed RPC, until they are created again

vars == <<entry, onDisk, pc, zPath, dirSync, rc, reply, rpc, removed>>
frame == <<pc, zPath, dirSync, rc, reply, rpc>>

Reply(op, name, code, found) == [op |-> op, name |-> name, rc |-> code, found |-> found]
NoReply == Reply("none", NoName, "OK", "none")

Init ==
    /\ entry \in SUBSET Names /\ onDisk = entry
    /\ pc = "idle" /\ zPath = NoName /\ dirSync = "no" /\ rc = "0"
    /\ reply = NoReply /\ rpc = "ok" /\ removed = {}

\* A method returns, and leaves its frame; its RPCs went as how says.
Return(r, how) ==
    /\ pc' = "idle" /\ zPath' = NoName /\ dirSync' = "no" /\ rc' = "0"
    /\ reply' = r /\ rpc' = how

Goto(to) == pc' = to /\ UNCHANGED <<zPath, dirSync, reply>>

(***************************************************************************)
(* demoDelete.                                                             *)
(***************************************************************************)

\* Mutant of DeleteRc: the result of the last call is returned as it is.
DeleteRc_Raw(r) == IF r = "0" THEN "OK" ELSE r

DeleteRc(r) == IF r = "0" THEN "OK" ELSE "IOERR_DELETE"

DeleteReply(code) == Reply("delete", zPath, code, "none")

demoDelete ==
    /\ pc = "idle"
    /\ pc' = "unlink" /\ zPath' \in Names /\ dirSync' \in {"yes", "no"}
    /\ reply' = NoReply /\ rpc' = "ok"
    /\ UNCHANGED <<entry, onDisk, rc, removed>>

\* utee_vfs_unlink has returned 0, because the RPC went as r says.
Unlinked(r) ==
    IF dirSync = "yes" THEN Goto("opendir") /\ rpc' = r /\ UNCHANGED rc
                       ELSE Return(DeleteReply("OK"), r)

Unlink ==
    /\ pc = "unlink"
    /\ \/ /\ zPath \in entry
          /\ entry' = entry \ {zPath}
          /\ Unlinked("ok")
       \/ \* ENOENT
          /\ zPath \notin entry
          /\ Return(DeleteReply("OK"), "ok")
          /\ UNCHANGED entry
       \/ \* another error, or no payload
          /\ Return(DeleteReply("IOERR_DELETE"), "ok")
          /\ UNCHANGED entry
       \/ /\ Unlinked("failed")
          /\ UNCHANGED entry
    /\ UNCHANGED <<onDisk, removed>>

\* A failed RPC gives descriptor 0, which is not that of the directory.
OpenDir ==
    /\ pc = "opendir"
    /\ \/ Goto("fsync dir") /\ UNCHANGED <<rc, rpc>>
       \/ Return(DeleteReply("IOERR_DELETE"), rpc)
       \/ Goto("fsync 0") /\ rpc' = "failed" /\ UNCHANGED rc
    /\ UNCHANGED <<entry, onDisk, removed>>

\* Mutant of FsyncDir: its result is overwritten by that of close().
FsyncDir_Unseen ==
    /\ pc \in {"fsync dir", "fsync 0"}
    /\ Goto("closedir")
    /\ rc' = "0"
    /\ onDisk' \in {IF pc = "fsync dir" THEN entry ELSE onDisk, onDisk}
    /\ UNCHANGED <<entry, rpc, removed>>

FsyncDir ==
    /\ pc \in {"fsync dir", "fsync 0"}
    /\ Goto("closedir")
    /\ \/ rc' = "0" /\ onDisk' = (IF pc = "fsync dir" THEN entry ELSE onDisk) /\ UNCHANGED rpc
       \/ rc' = "-1" /\ UNCHANGED <<onDisk, rpc>>
       \/ rc' = "0" /\ rpc' = "failed" /\ UNCHANGED onDisk
    /\ UNCHANGED <<entry, removed>>

\* The result of utee_vfs_close is not looked at.
CloseDir ==
    /\ pc = "closedir"
    /\ Return(DeleteReply(DeleteRc(rc)), rpc)
    /\ removed' = IF rc = "0" /\ rpc = "ok" THEN removed \cup {zPath} ELSE removed
    /\ UNCHANGED <<entry, onDisk>>

(***************************************************************************)
(* demoAccess: any result but 0 of utee_vfs_access means there is no file. *)
(***************************************************************************)
AccessReply(f, r) == Reply("access", f, "OK", IF r = "0" THEN "yes" ELSE "no")

\* What is asked of Linux for each of SQLite's flags: F_OK is no permission at all.
eAccess == [EXISTS |-> {}, READ |-> {"R"}, READWRITE |-> {"R", "W"}]

\* access() with this mode on a name with these permissions (external).
Access(f, mode, permissions) ==
    IF f \in entry /\ mode \subseteq permissions THEN "0" ELSE "-1"

demoAccess ==
    /\ pc = "idle"
    /\ \E f \in Names :
          \/ \E flags \in DOMAIN eAccess, permissions \in SUBSET {"R", "W"} :
                Return(AccessReply(f, Access(f, eAccess[flags], permissions)), "ok")
          \/ Return(AccessReply(f, "-1"), "ok")
          \/ Return(AccessReply(f, "0"), "failed")
    /\ UNCHANGED <<entry, onDisk, removed>>

(***************************************************************************)
(* The methods that change nothing.  Each returns SQLITE_OK, or 0 for a    *)
(* library; found says what its result is worth.                           *)
(***************************************************************************)
Answer(op, worth, how) == Return(Reply(op, NoName, "OK", worth), how)

\* utee_vfs_getcwd returns its buffer whether or not it was filled, so the test for 0
\* sees no failure: a relative name is then put behind what is on the stack.
demoFullPathname ==
    /\ pc = "idle"
    /\ \/ Answer("full pathname", "yes", "ok")
       \/ \E how \in {"ok", "failed"} : Answer("full pathname", "no", how)
    /\ UNCHANGED <<entry, onDisk, removed>>

\* demoDlOpen, demoDlError, demoDlSym and demoDlClose: there are no libraries.
demoDl ==
    /\ pc = "idle" /\ Answer("library", "no", "ok")
    /\ UNCHANGED <<entry, onDisk, removed>>

\* The buffer is left as it is.
demoRandomness ==
    /\ pc = "idle" /\ Answer("randomness", "no", "ok")
    /\ UNCHANGED <<entry, onDisk, removed>>

\* It says that it has slept, also if the RPCs have failed.
demoSleep ==
    /\ pc = "idle" /\ \E slept \in {"yes", "no"}, how \in {"ok", "failed"} : Answer("sleep", slept, how)
    /\ UNCHANGED <<entry, onDisk, removed>>

\* A failed RPC is the time 0, of 1970.
demoCurrentTime ==
    /\ pc = "idle" /\ (Answer("time", "yes", "ok") \/ Answer("time", "no", "failed"))
    /\ UNCHANGED <<entry, onDisk, removed>>

\* SQLite's list of VFSes: to register this one makes it the default, also if it is
\* registered already; there is no other to take its place.  found is whether it is there.
sqlite3_vfs_register(op, code) == Return(Reply(op, NoName, code, "yes"), "ok")
sqlite3_vfs_unregister(op, code) == Return(Reply(op, NoName, code, "no"), "ok")

\* sqlite3_os_init registers sqlite3_demovfs() and has no return statement: what
\* SQLite takes for its result is anything.
sqlite3_os_init ==
    /\ pc = "idle"
    /\ \E garbage \in {"OK", "ERROR"} : sqlite3_vfs_register("os_init", garbage)
    /\ UNCHANGED <<entry, onDisk, removed>>

\* The commands register_demovfs and unregister_demovfs of SQLite's test programs: TCL_OK
\* whatever SQLite says.
TclCommand ==
    /\ pc = "idle"
    /\ sqlite3_vfs_register("register", "OK") \/ sqlite3_vfs_unregister("unregister", "OK")
    /\ UNCHANGED <<entry, onDisk, removed>>

NoStateMethod ==
    \/ demoFullPathname \/ demoDl \/ demoRandomness \/ demoSleep \/ demoCurrentTime
    \/ sqlite3_os_init \/ TclCommand

(***************************************************************************)
(* The rest of the world (external): SQLite creates a journal again        *)
(* (utee_vfs_open with O_CREAT); Linux writes the directory back when it   *)
(* likes; the power fails, and each entry not written back is there or     *)
(* not.                                                                    *)
(***************************************************************************)
Create ==
    /\ pc = "idle"
    /\ \E f \in Names \ entry :
          /\ entry' = entry \cup {f}
          /\ removed' = removed \ {f}
    /\ reply' = NoReply /\ rpc' = "ok"
    /\ UNCHANGED <<onDisk, pc, zPath, dirSync, rc>>

Writeback ==
    /\ onDisk # entry
    /\ onDisk' = entry
    /\ UNCHANGED <<entry, frame, removed>>

PowerLoss ==
    /\ \E S \in SUBSET (entry \cup onDisk) :
          /\ entry \cap onDisk \subseteq S
          /\ entry' = S /\ onDisk' = S
    /\ Return(NoReply, "ok")
    /\ UNCHANGED removed

Next ==
    \/ demoDelete \/ Unlink \/ OpenDir \/ FsyncDir \/ CloseDir \/ demoAccess
    \/ NoStateMethod \/ Create \/ Writeback \/ PowerLoss

Spec == Init /\ [][Next]_vars

-----------------------------------------------------------------------------
(***************************************************************************)
(* Properties.                                                             *)
(***************************************************************************)

\* The directories, the method's frame and the promises are well typed.
TypeOK ==
    /\ entry \subseteq Names /\ onDisk \subseteq Names
    /\ pc \in {"idle", "unlink", "opendir", "fsync dir", "fsync 0", "closedir"}
    /\ zPath \in Names \cup {NoName} /\ dirSync \in {"yes", "no"} /\ rc \in {"0", "-1"}
    /\ reply \in [op : {"none", "delete", "access", "full pathname", "library", "randomness",
                        "sleep", "time", "os_init", "register", "unregister"},
                  name : Names \cup {NoName}, rc : {"OK", "ERROR", "IOERR_DELETE"},
                  found : {"none", "yes", "no"}]
    /\ rpc \in {"ok", "failed"} /\ removed \subseteq Names

\* A name that demoDelete with dirSync has itself unlinked, with no RPC of that call
\* failing, does not come back, not after any number of power losses and failed RPCs
\* of other calls, until SQLite creates it again: the transaction whose journal it
\* was stays committed.
RemovedStaysRemoved == removed \cap (entry \cup onDisk) = {}

\* What makes it inductive: unless an RPC of the call has failed, between the unlink
\* and the fsync of the directory the name is in the page cache's directory no more,
\* and the fsync is the directory's.
RemovedInv ==
    /\ RemovedStaysRemoved
    /\ pc = "fsync 0" => rpc = "failed"
    /\ pc \in {"opendir", "fsync dir", "closedir"} /\ rpc = "ok" => zPath \notin entry
    /\ pc = "closedir" /\ rc = "0" /\ rpc = "ok" => zPath \notin onDisk

\* The original of these methods, with the port's steps on the directory as one.
DemoPc == IF pc \in {"opendir", "fsync dir", "fsync 0"} THEN "sync"
          ELSE IF pc = "closedir" THEN "return" ELSE pc
Demo == INSTANCE DemoNames WITH pc <- DemoPc

\* Where the port is not like the original: without a current directory it makes a path
\* of what it finds on the stack.
Drift == reply.op = "full pathname" /\ reply.found = "no"

\* As long as the RPCs of a method work, it does and says what the original on Linux
\* would, whatever Linux fails at: errno gets back to demoDelete, and no error of the
\* directory's open or fsync is lost on the way.
ImplementsDemoNames == Demo!Init /\ [][Demo!Next \/ rpc' = "failed" \/ Drift']_(Demo!vars)
=============================================================================
