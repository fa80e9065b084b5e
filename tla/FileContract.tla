---------------------------- MODULE FileContract ----------------------------
(***************************************************************************)
(* What SQLite's pager relies on in an open sqlite3_file, with nothing     *)
(* about how the file is stored: the contract the methods of tee_vfs.c     *)
(* implement (TeeVfs refines this module).                                 *)
(*                                                                         *)
(* "file" is the file as SQLite has written it.  "unsynced" are the bytes  *)
(* written since the last successful xSync, "lost" the ones an error       *)
(* return has disowned.  An error may disown unsynced bytes only; a crash  *)
(* may change unsynced and disowned bytes only.                            *)
(***************************************************************************)
EXTENDS FileBytes

VARIABLES
    file,       \* the contents SQLite has asked for
    unsynced,   \* offsets written since the last xSync that returned SQLITE_OK
    lost,       \* offsets whose contents an error return has made unknown
    opened,     \* the sqlite3_file is open
    call,       \* the method under way and its arguments, or NoCall
    failing,    \* the method under way has lost bytes and must return an error
    reply       \* what the last method returned

vars == <<file, unsynced, lost, opened, call, failing, reply>>

NoCall == [op |-> "none", iAmt |-> 0, iOfst |-> 0]
NoData == [k \in Offsets |-> Zero]
NoReply == [rc |-> "OK", out |-> NoData, size |-> 0]

Ops == {"read", "write", "sync", "filesize", "close"}

Call == [op : Ops, iAmt : 0 .. MaxOfst, iOfst : 0 .. MaxOfst]
Reply == [rc : {"OK", "SHORT_READ", "NOTFOUND", "ERROR"}, out : [Offsets -> Byte],
          size : 0 .. MaxOfst]

Init ==
    /\ file = EmptyFile
    /\ unsynced = {} /\ lost = {}
    /\ opened = FALSE
    /\ call = NoCall /\ failing = FALSE
    /\ reply = NoReply

\* xOpen: the file is what it was.
Open ==
    /\ ~opened
    /\ \E rc \in {"OK", "ERROR"} :
          /\ opened' = (rc = "OK")
          /\ reply' = [rc |-> rc, out |-> NoData, size |-> 0]
    /\ UNCHANGED <<file, unsynced, lost, call, failing>>

\* A method that neither reads nor writes the file (xLock and the like); xFileControl
\* may not know the operation.
Other ==
    /\ opened /\ call = NoCall
    /\ \E rc \in {"OK", "NOTFOUND"} : reply' = [NoReply EXCEPT !.rc = rc]
    /\ UNCHANGED <<file, unsynced, lost, opened, call, failing>>

Invoke ==
    /\ opened /\ call = NoCall
    /\ call' \in Call
    /\ call'.iOfst + call'.iAmt <= MaxOfst
    /\ IF call'.op = "write"
       THEN LET written == Extent(call'.iOfst, call'.iAmt)
            IN  /\ \E z \in [Offsets -> Byte] :
                       file' = Put(file, call'.iOfst, z, call'.iAmt)
                /\ unsynced' = unsynced \cup written
                /\ lost' = lost \ written
       ELSE UNCHANGED <<file, unsynced, lost>>
    /\ reply' = NoReply
    /\ UNCHANGED <<opened, failing>>

\* The bytes a read may deliver: those of the file where they are not disowned.
RightBytes(out) ==
    \A k \in 0 .. call.iAmt - 1 :
        call.iOfst + k \notin lost =>
            out[k] = Slice(file, call.iOfst, call.iAmt)[k]

\* The method returns without an error.
ReturnOk ==
    /\ call.op # "none" /\ ~failing
    /\ call' = NoCall
    /\ opened' = (call.op # "close")
    /\ unsynced' = IF call.op = "sync" THEN {} ELSE unsynced
    /\ reply' \in Reply
    /\ reply'.rc \in {"OK", "SHORT_READ"}
    /\ call.op = "read" => RightBytes(reply'.out)
    /\ call.op = "read" /\ lost = {} =>
          (reply'.rc = "OK" <=> call.iAmt = 0 \/ call.iOfst + call.iAmt <= file.size)
    /\ call.op = "filesize" /\ lost = {} => reply'.size = file.size
    /\ UNCHANGED <<file, lost, failing>>

\* Bytes not yet synced are lost before the method returns its error.
Lose ==
    /\ call.op # "none" /\ ~failing
    /\ failing' = TRUE
    /\ \E L \in SUBSET unsynced : lost' = lost \cup L
    /\ UNCHANGED <<file, unsynced, opened, call, reply>>

\* The method returns an error; it may have lost bytes not yet synced.
ReturnError ==
    /\ call.op # "none"
    /\ call' = NoCall /\ failing' = FALSE
    /\ opened' = (call.op # "close")
    /\ reply' = [rc |-> "ERROR", out |-> NoData, size |-> 0]
    /\ \E L \in SUBSET unsynced : lost' = lost \cup L
    /\ UNCHANGED <<file, unsynced>>

\* A crash of the trusted application or of the device.  Of what a device may promise
\* (SQLITE_IOCAP_*), only bytes that were not written are safe: writes are neither
\* atomic nor in order, and the file may have grown before its data is there.
Crash ==
    /\ file' \in File
    /\ \A o \in Offsets \ (unsynced \cup lost) : file'.data[o] = file.data[o]
    /\ unsynced' \subseteq unsynced
    /\ lost' = {}
    /\ opened' = FALSE
    /\ call' = NoCall /\ failing' = FALSE
    /\ reply' = NoReply

Next == Open \/ Other \/ Invoke \/ ReturnOk \/ Lose \/ ReturnError \/ Crash

Spec == Init /\ [][Next]_vars
=============================================================================
