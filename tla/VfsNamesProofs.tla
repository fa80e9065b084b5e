--------------------------- MODULE VfsNamesProofs ---------------------------
(***************************************************************************)
(* Proofs that the methods on names keep to their types, that a journal    *)
(* demoDelete has removed stays removed, and that the methods implement    *)
(* those of SQLite's example, for any number of journals.                  *)
(***************************************************************************)
EXTENDS VfsNames, TLAPS

\* What a method may reply.
Replies ==
    [op : {"none", "delete", "access", "full pathname", "library", "randomness",
           "sleep", "time", "os_init", "register", "unregister"},
     name : Names \cup {NoName}, rc : {"OK", "ERROR", "IOERR_DELETE"},
     found : {"none", "yes", "no"}]

\* What makes the types inductive: a delete that is under way has a name.
TypeInv == TypeOK /\ (pc # "idle" => zPath \in Names)

\* The types, with that of the reply under its name.
Typed ==
    /\ entry \subseteq Names /\ onDisk \subseteq Names /\ removed \subseteq Names
    /\ pc \in {"idle", "unlink", "opendir", "fsync dir", "fsync 0", "closedir"}
    /\ zPath \in Names \cup {NoName} /\ dirSync \in {"yes", "no"} /\ rc \in {"0", "-1"}
    /\ reply \in Replies /\ rpc \in {"ok", "failed"} /\ (pc # "idle" => zPath \in Names)

LEMMA TypedIsTypeInv == (TypeInv <=> Typed) /\ (TypeInv' <=> Typed')
  BY DEF TypeInv, TypeOK, Replies, Typed

\* A method that returns leaves its frame in order.
LEMMA ReturnTyped ==
    ASSUME TypeInv, NEW r \in Replies, NEW how \in {"ok", "failed"}, Return(r, how),
           entry' \subseteq Names, onDisk' \subseteq Names, removed' \subseteq Names
    PROVE  TypeInv'
  BY DEF TypeInv, TypeOK, Return, Replies

\* Each step keeps the types: a reply carries a code of SQLite, never a raw result.
LEMMA TypeStep ==
    ASSUME TypeInv, [Next]_vars
    PROVE  TypeInv'
<1>0. /\ entry \subseteq Names /\ onDisk \subseteq Names /\ removed \subseteq Names
      /\ zPath \in Names \cup {NoName} /\ rpc \in {"ok", "failed"} /\ NoReply \in Replies
      /\ \A c \in {"OK", "IOERR_DELETE"} : DeleteReply(c) \in Replies
  BY DEF TypeInv, TypeOK, NoReply, DeleteReply, Reply, Replies
<1>1. CASE UNCHANGED vars
  BY <1>1, TypedIsTypeInv DEF Typed, vars
<1>2. CASE demoDelete
  BY <1>0, <1>2, TypedIsTypeInv DEF Typed, demoDelete
<1>3. CASE Unlink
  <2>1. entry' \subseteq Names /\ UNCHANGED <<onDisk, removed>>
    BY <1>0, <1>3 DEF Unlink
  <2>2. CASE \E c \in {"OK", "IOERR_DELETE"}, how \in {"ok", "failed"} : Return(DeleteReply(c), how)
    BY <1>0, <2>1, <2>2, ReturnTyped
  <2>3. CASE Goto("opendir") /\ UNCHANGED rc /\ rpc' \in {"ok", "failed"}
    BY <1>3, <2>1, <2>3, TypedIsTypeInv DEF Unlink, Goto, Typed
  <2> QED
    BY <1>3, <2>2, <2>3 DEF Unlink, Unlinked
<1>4. CASE OpenDir
  <2>1. UNCHANGED <<entry, onDisk, removed>>
    BY <1>4 DEF OpenDir
  <2>2. CASE Return(DeleteReply("IOERR_DELETE"), rpc)
    BY <1>0, <2>1, <2>2, ReturnTyped
  <2>3. CASE pc' \in {"fsync dir", "fsync 0"} /\ Goto(pc') /\ UNCHANGED rc /\ rpc' \in {"ok", "failed"}
    BY <1>4, <2>1, <2>3, TypedIsTypeInv DEF OpenDir, Goto, Typed
  <2> QED
    BY <1>0, <1>4, <2>2, <2>3 DEF OpenDir, Goto
<1>5. CASE FsyncDir
  BY <1>0, <1>5, TypedIsTypeInv DEF FsyncDir, Goto, Typed
<1>6. CASE CloseDir
  <2>1. DeleteReply(DeleteRc(rc)) \in Replies
    BY <1>0 DEF DeleteRc
  <2>2. UNCHANGED <<entry, onDisk>> /\ removed' \subseteq Names
    BY <1>0, <1>6 DEF CloseDir, TypeInv
  <2> QED
    BY <1>0, <1>6, <2>1, <2>2, ReturnTyped DEF CloseDir
<1>7. CASE demoAccess
  <2>1. \A f \in Names, r \in {"0", "-1"} : AccessReply(f, r) \in Replies
    BY DEF AccessReply, Reply, Replies
  <2>2. \E f \in Names, r \in {"0", "-1"}, how \in {"ok", "failed"} : Return(AccessReply(f, r), how)
    BY <1>7 DEF demoAccess, Access
  <2>3. UNCHANGED <<entry, onDisk, removed>>
    BY <1>7 DEF demoAccess
  <2> QED
    BY <1>0, <2>1, <2>2, <2>3, ReturnTyped
<1>8. CASE NoStateMethod
  <2>1. \E r \in Replies, how \in {"ok", "failed"} : Return(r, how)
    BY <1>8 DEF NoStateMethod, Answer, Reply, Replies, demoFullPathname, demoDl, demoRandomness,
                demoSleep, demoCurrentTime, sqlite3_os_init, TclCommand,
                sqlite3_vfs_register, sqlite3_vfs_unregister
  <2>2. UNCHANGED <<entry, onDisk, removed>>
    BY <1>8 DEF NoStateMethod, demoFullPathname, demoDl, demoRandomness,
                demoSleep, demoCurrentTime, sqlite3_os_init, TclCommand,
                sqlite3_vfs_register, sqlite3_vfs_unregister
  <2> QED
    BY <1>0, <2>1, <2>2, ReturnTyped
<1>9. CASE Create
  BY <1>0, <1>9, TypedIsTypeInv DEF Typed, Create
<1>10. CASE Writeback
  BY <1>10, TypedIsTypeInv DEF Typed, Writeback, frame
<1>11. CASE PowerLoss
  <2>1. entry' \subseteq Names /\ onDisk' \subseteq Names /\ removed' \subseteq Names
    BY <1>0, <1>11 DEF PowerLoss
  <2> QED
    BY <1>0, <1>11, <2>1, ReturnTyped DEF PowerLoss
<1> QED
  BY <1>1, <1>2, <1>3, <1>4, <1>5, <1>6, <1>7, <1>8, <1>9, <1>10, <1>11 DEF Next

\* The methods on names keep to their types, for any set of journals: in particular
\* demoDelete never hands SQLite a result of Linux, and access never a third answer.
THEOREM NamesTypeCorrect == Spec => []TypeOK
<1>1. Init => TypeInv
  BY DEF Init, TypeInv, TypeOK, NoReply, Reply
<1>2. TypeInv /\ [Next]_vars => TypeInv'
  BY TypeStep
<1>3. TypeInv => TypeOK
  BY DEF TypeInv
<1> QED
  BY <1>1, <1>2, <1>3, PTL DEF Spec

-----------------------------------------------------------------------------
\* Every step preserves the invariant.
LEMMA RemovedStep ==
    ASSUME RemovedInv, [Next]_vars
    PROVE  RemovedInv'
<1> USE DEF RemovedInv, RemovedStaysRemoved
<1>1. CASE UNCHANGED vars
  BY <1>1 DEF vars
<1>2. CASE demoDelete
  BY <1>2 DEF demoDelete
<1>3. CASE Unlink
  BY <1>3 DEF Unlink, Unlinked, Goto, Return
<1>4. CASE OpenDir
  BY <1>4 DEF OpenDir, Goto, Return
<1>5. CASE FsyncDir
  <2>1. pc' = "closedir" /\ UNCHANGED <<zPath, entry, removed>>
    BY <1>5 DEF FsyncDir, Goto
  <2>2. CASE rpc' = "failed" /\ UNCHANGED onDisk
    BY <2>1, <2>2
  <2>3. CASE rpc' = rpc /\ rc' = "-1" /\ UNCHANGED onDisk
    BY <1>5, <2>1, <2>3 DEF FsyncDir
  <2>4. CASE rpc' = rpc /\ pc = "fsync dir" /\ onDisk' = entry
    BY <2>1, <2>4
  <2>5. CASE rpc' = rpc /\ pc = "fsync 0" /\ UNCHANGED onDisk
    BY <2>1, <2>5
  <2> QED
    BY <1>5, <2>2, <2>3, <2>4, <2>5 DEF FsyncDir
<1>6. CASE CloseDir
  BY <1>6 DEF CloseDir, Return
<1>7. CASE demoAccess
  BY <1>7 DEF demoAccess, Return
<1>8. CASE Create
  BY <1>8 DEF Create
<1>9. CASE Writeback
  BY <1>9 DEF Writeback, frame
<1>10. CASE PowerLoss
  BY <1>10 DEF PowerLoss, Return
<1>11. CASE NoStateMethod
  <2>1. Return(reply', rpc') /\ pc = "idle" /\ UNCHANGED <<entry, onDisk, removed>>
    BY <1>11 DEF NoStateMethod, Answer, Return, demoFullPathname, demoDl, demoRandomness,
                 demoSleep, demoCurrentTime, sqlite3_os_init, TclCommand,
                 sqlite3_vfs_register, sqlite3_vfs_unregister
  <2> QED
    BY <2>1 DEF Return
<1> QED
  BY <1>1, <1>2, <1>3, <1>4, <1>5, <1>6, <1>7, <1>8, <1>9, <1>10, <1>11 DEF Next

\* A journal that demoDelete with dirSync unlinked and reported deleted, in a call
\* whose RPCs worked, never comes back, whatever fails in Linux or in other calls
\* and however often the power does, until SQLite creates it again.
THEOREM RemovalDurable == Spec => []RemovedStaysRemoved
<1>1. Init => RemovedInv
  BY DEF Init, RemovedInv, RemovedStaysRemoved
<1>2. RemovedInv /\ [Next]_vars => RemovedInv'
  BY RemovedStep
<1>3. RemovedInv => RemovedStaysRemoved
  BY DEF RemovedInv
<1> QED
  BY <1>1, <1>2, <1>3, PTL DEF Spec

-----------------------------------------------------------------------------
(***************************************************************************)
(* The port against the original.                                          *)
(***************************************************************************)

\* What the refinement rests on: the frame of a method that is not under way is empty,
\* and the name is gone from the page cache's directory before the latter is synced.
FrameInv ==
    /\ pc \in {"idle", "unlink"} => rc = "0"
    /\ pc \in {"idle", "unlink", "opendir", "fsync dir", "fsync 0", "closedir"}
    /\ pc = "fsync 0" => rpc = "failed"
    /\ rc \in {"0", "-1"}

\* Every step keeps the frame in order.
LEMMA FrameStep ==
    ASSUME FrameInv, [Next]_vars
    PROVE  FrameInv'
<1> USE DEF FrameInv
<1>1. CASE UNCHANGED vars
  BY <1>1 DEF vars
<1>2. CASE demoDelete
  BY <1>2 DEF demoDelete
<1>3. CASE Unlink
  BY <1>3 DEF Unlink, Unlinked, Goto, Return
<1>4. CASE OpenDir
  BY <1>4 DEF OpenDir, Goto, Return
<1>5. CASE FsyncDir
  BY <1>5 DEF FsyncDir, Goto
<1>6. CASE CloseDir
  BY <1>6 DEF CloseDir, Return
<1>7. CASE demoAccess \/ PowerLoss
  BY <1>7 DEF demoAccess, PowerLoss, Return
<1>8. CASE Create
  BY <1>8 DEF Create
<1>9. CASE Writeback
  BY <1>9 DEF Writeback, frame
<1>10. CASE NoStateMethod
  BY <1>10 DEF NoStateMethod, Answer, Return, demoFullPathname, demoDl, demoRandomness,
               demoSleep, demoCurrentTime, sqlite3_os_init, TclCommand,
               sqlite3_vfs_register, sqlite3_vfs_unregister
<1> QED
  BY <1>1, <1>2, <1>3, <1>4, <1>5, <1>6, <1>7, <1>8, <1>9, <1>10 DEF Next

\* Every step of the port is one of the original, or leaves the original's state as it
\* is, unless an RPC has failed or it is one of the known differences.
LEMMA DemoStep ==
    ASSUME FrameInv, [Next]_vars
    PROVE  [Demo!Next \/ rpc' = "failed" \/ Drift']_(Demo!vars)
<1> SUFFICES ASSUME rpc' # "failed", ~Drift'
             PROVE  Demo!Next \/ UNCHANGED Demo!vars
  OBVIOUS
<1> USE DEF FrameInv, DemoPc, Reply, Demo!Reply
<1>1. CASE UNCHANGED vars
  BY <1>1 DEF vars, Demo!vars
<1>2. CASE demoDelete
  <2>1. Demo!demoDelete
    BY <1>2 DEF demoDelete, Demo!demoDelete, Demo!directory, NoReply, Demo!NoReply
  <2> QED
    BY <2>1 DEF Demo!Next
<1>3. CASE Unlink
  <2>1. Demo!Unlink
    BY <1>3 DEF Unlink, Unlinked, Goto, Return, DeleteReply, NoReply,
                Demo!Unlink, Demo!Deleted, Demo!Return, Demo!NoReply
  <2> QED
    BY <2>1 DEF Demo!Next
<1>4. CASE OpenDir
  <2>1. CASE Return(DeleteReply("IOERR_DELETE"), rpc)
    <3>1. Demo!SyncDirectory
      BY <1>4, <2>1 DEF OpenDir, Return, DeleteReply, NoReply,
                        Demo!SyncDirectory, Demo!Deleted, Demo!Return, Demo!NoReply
    <3> QED
      BY <3>1 DEF Demo!Next
  <2>2. CASE Goto("fsync dir") /\ UNCHANGED <<rc, rpc>>
    BY <1>4, <2>2 DEF OpenDir, Goto, Demo!vars
  <2> QED
    BY <1>4, <2>1, <2>2 DEF OpenDir
<1>5. CASE FsyncDir
  <2>1. pc = "fsync dir"
    BY <1>5 DEF FsyncDir
  <2>2. Demo!SyncDirectory
    BY <1>5, <2>1 DEF FsyncDir, Goto, Demo!SyncDirectory
  <2> QED
    BY <2>2 DEF Demo!Next
<1>6. CASE CloseDir
  <2>1. Demo!ReturnRc
    BY <1>6 DEF CloseDir, Return, DeleteReply, DeleteRc, NoReply,
                Demo!ReturnRc, Demo!Deleted, Demo!Return, Demo!NoReply, Demo!directory
  <2> QED
    BY <2>1 DEF Demo!Next
<1>7. CASE demoAccess
  <2>1. pc = "idle" /\ UNCHANGED <<entry, onDisk>>
    BY <1>7 DEF demoAccess
  <2>2. PICK f \in Names, r \in {"0", "-1"} :
           (r = "0" => f \in entry) /\ Return(AccessReply(f, r), rpc')
    BY <1>7 DEF demoAccess, Access, Return
  <2>3. Demo!eAccess("EXISTS") \subseteq {"R"} /\ {"R"} \in SUBSET {"R", "W"}
    BY DEF Demo!eAccess
  <2>4. Demo!Return(Demo!Reply("access", f, "OK", IF r = "0" THEN "yes" ELSE "no"))
    BY <2>2 DEF AccessReply, Return, Demo!Return
  <2>5. Demo!demoAccess
    BY <2>1, <2>2, <2>3, <2>4 DEF Demo!demoAccess, Demo!directory
  <2> QED
    BY <2>5 DEF Demo!Next
<1>8. CASE Create
  <2>1. Demo!Create
    BY <1>8 DEF Create, NoReply, Demo!Create, Demo!NoReply
  <2> QED
    BY <2>1 DEF Demo!Next
<1>9. CASE Writeback
  <2>1. Demo!Writeback
    BY <1>9 DEF Writeback, frame, Demo!Writeback
  <2> QED
    BY <2>1 DEF Demo!Next
<1>10. CASE PowerLoss
  <2>1. Demo!PowerLoss
    BY <1>10 DEF PowerLoss, Return, NoReply, Demo!PowerLoss, Demo!Return, Demo!NoReply
  <2> QED
    BY <2>1 DEF Demo!Next
<1>11. CASE NoStateMethod
  <2> USE DEF Answer, Return, NoReply, Demo!Answer, Demo!Return, Demo!NoReply, Demo!directory
  <2>1. CASE demoFullPathname
    <3>1. CASE Answer("full pathname", "yes", "ok")
      BY <2>1, <3>1 DEF demoFullPathname, Demo!demoFullPathname, Demo!Next
    <3>2. ASSUME NEW how, Answer("full pathname", "no", how)
          PROVE  Drift'
      BY <3>2 DEF Drift
    <3> QED
      BY <2>1, <3>1, <3>2 DEF demoFullPathname
  <2>2. CASE demoDl
    BY <2>2 DEF demoDl, Demo!demoDl, Demo!Next
  <2>3. CASE demoRandomness
    BY <2>3 DEF demoRandomness, Demo!demoRandomness, Demo!Next
  <2>4. CASE demoSleep
    BY <2>4 DEF demoSleep, Demo!demoSleep, Demo!Next
  <2>5. CASE demoCurrentTime
    BY <2>5 DEF demoCurrentTime, Demo!demoCurrentTime, Demo!Next
  <2>6. CASE sqlite3_os_init
    BY <2>6 DEF sqlite3_os_init, sqlite3_vfs_register,
                Demo!sqlite3_os_init, Demo!sqlite3_demovfs, Demo!Next
  <2>7. CASE TclCommand
    BY <2>7 DEF TclCommand, sqlite3_vfs_register, sqlite3_vfs_unregister,
                Demo!register_demovfs, Demo!unregister_demovfs, Demo!sqlite3_demovfs, Demo!Next
  <2> QED
    BY <1>11, <2>1, <2>2, <2>3, <2>4, <2>5, <2>6, <2>7 DEF NoStateMethod
<1> QED
  BY <1>1, <1>2, <1>3, <1>4, <1>5, <1>6, <1>7, <1>8, <1>9, <1>10, <1>11 DEF Next

\* The port of the methods on names implements the methods of SQLite's example, for any
\* set of journals, as long as the RPCs work: it is a safe replacement up to lost calls.
THEOREM PortImplementsDemo == Spec => ImplementsDemoNames
<1>1. Init => FrameInv /\ Demo!Init
  BY DEF Init, FrameInv, NoReply, Reply, DemoPc, Demo!Init, Demo!NoReply, Demo!Reply
<1>2. FrameInv /\ [Next]_vars => FrameInv'
  BY FrameStep
<1>3. FrameInv /\ [Next]_vars => [Demo!Next \/ rpc' = "failed" \/ Drift']_(Demo!vars)
  BY DemoStep
<1> QED
  BY <1>1, <1>2, <1>3, PTL DEF Spec, ImplementsDemoNames
=============================================================================
