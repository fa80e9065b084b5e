------------------------------- MODULE TeeVfs -------------------------------
(***************************************************************************)
(* The methods of an open file in the trusted application's SQLite VFS     *)
(* (ta/tee_vfs.c): journal files are written through a buffer of           *)
(* SQLITE_TEEVFS_BUFFERSZ bytes, other files directly.  One action is one  *)
(* method entry, one utee_vfs_* system call with the code after it up to   *)
(* the next one, or one turn of demoWrite's copy loop.  SQLite calls one   *)
(* method at a time; a panic of the trusted application or a power loss    *)
(* can come between any two actions.                                       *)
(*                                                                         *)
(* Every utee_vfs_* call crosses into the normal world.  Linux may refuse  *)
(* it (-1, or a short write).  With RpcFaults, the crossing itself may     *)
(* fail: core/tee/tee_sqlite.c then returns the 0 it had put into          *)
(* params[0].u.value.b, whatever the call.  To demoOpen that 0 is a        *)
(* descriptor: tee-supplicant's own standard input, which make_daemon has  *)
(* opened on /dev/null.                                                    *)
(***************************************************************************)
EXTENDS FileBytes

CONSTANTS
    BUFFERSZ,   \* SQLITE_TEEVFS_BUFFERSZ
    Payloads,   \* the byte strings SQLite writes (xWrite takes a prefix of one)
    RpcFaults   \* whether thread_rpc_cmd can fail

ASSUME BufferszAssumption == BUFFERSZ \in Nat \ {0}
ASSUME PayloadsAssumption == Payloads \subseteq [Offsets -> Byte]
ASSUME RpcFaultsAssumption == RpcFaults \in BOOLEAN

VARIABLES
    \* The file in Linux, and the position of its descriptor.
    disk,           \* contents in the page cache
    durable,        \* contents on stable storage
    pos,            \* the file position of p->fd
    \* struct DemoFile
    kind,           \* "closed", or open: "journal" has an aBuffer, "direct" has none
    fd,             \* "file" if it is the file's, "0" if a failed RPC returned it
    aBuffer,
    nBuffer,
    iBufferOfst,
    \* The method under way.
    pc,             \* where it stands
    call,           \* the method and its arguments
    zBuf,           \* the bytes xWrite was given
    n,              \* the bytes demoWrite has still to write
    rc,             \* the flush result demoClose keeps
    reply,          \* what the last method returned
    \* What SQLite has been promised (history variables; see FileContract).
    file, unsynced, lost

linux  == <<disk, durable, pos>>
handle == <<kind, fd, aBuffer, nBuffer, iBufferOfst>>
frame  == <<pc, call, zBuf, n, rc, reply>>
ghost  == <<file, unsynced, lost>>
vars   == <<linux, handle, frame, ghost>>

opened == kind # "closed"
hasBuffer == kind = "journal"      \* aBuffer # NULL

NoCall == [op |-> "none", iAmt |-> 0, iOfst |-> 0]
NoData == [k \in Offsets |-> Zero]
NoReply == [rc |-> "OK", out |-> NoData, size |-> 0]
EmptyBuffer == [k \in 0 .. BUFFERSZ - 1 |-> Zero]

Errors == {"IOERR", "NOMEM", "CANTOPEN", "IOERR_READ", "IOERR_WRITE",
           "IOERR_FSYNC", "IOERR_FSTAT"}
Ops == {"read", "write", "sync", "filesize", "close"}
PCs == {"idle", "dw_lseek", "dw_write", "copy", "rd_lseek", "rd_read",
        "fsync", "fstat", "close"}

Calls == [op : Ops \cup {"none"}, iAmt : 0 .. MaxOfst, iOfst : 0 .. MaxOfst]
Replies == [rc : {"OK", "SHORT_READ", "NOTFOUND"} \cup Errors, out : [Offsets -> Byte],
            size : 0 .. MaxOfst]

\* Where a method goes once demoFlushBuffer has returned SQLITE_OK.
AfterFlush(op) ==
    CASE op = "read"     -> "rd_lseek"
      [] op = "write"    -> "copy"
      [] op = "sync"     -> "fsync"
      [] op = "filesize" -> "fstat"
      [] op = "close"    -> "close"

Init ==
    /\ disk = EmptyFile /\ durable = EmptyFile /\ pos = 0
    /\ kind = "closed" /\ fd = "file"
    /\ aBuffer = EmptyBuffer /\ nBuffer = 0 /\ iBufferOfst = 0
    /\ pc = "idle" /\ call = NoCall /\ zBuf = NoData /\ n = 0 /\ rc = "OK"
    /\ reply = NoReply
    /\ file = EmptyFile /\ unsynced = {} /\ lost = {}

(***************************************************************************)
(* Returning to SQLite.                                                    *)
(***************************************************************************)
Return(r, out, size) ==
    /\ pc' = "idle" /\ call' = NoCall /\ zBuf' = NoData /\ n' = 0 /\ rc' = "OK"
    /\ reply' = [rc |-> r, out |-> out, size |-> size]

ReturnRc(r) == Return(r, NoData, 0)

(***************************************************************************)
(* demoOpen.                                                               *)
(***************************************************************************)
demoOpen ==
    /\ pc = "idle" /\ ~opened
    /\ \/ \* no name, no memory for the buffer, or open() < 0
          /\ \E r \in {"IOERR", "NOMEM", "CANTOPEN"} : ReturnRc(r)
          /\ UNCHANGED <<linux, handle>>
       \/ /\ kind' \in {"journal", "direct"}
          /\ fd' = "file" \/ (RpcFaults /\ fd' = "0")
          /\ aBuffer' = EmptyBuffer /\ nBuffer' = 0 /\ iBufferOfst' = 0
          /\ pos' = 0
          /\ ReturnRc("OK")
          /\ UNCHANGED <<disk, durable>>
    /\ UNCHANGED ghost

(***************************************************************************)
(* The entry of the methods that start with demoFlushBuffer.               *)
(***************************************************************************)

\* Mutant of Enter: the flush is forgotten.
Enter_NoFlush(c) ==
    /\ pc = "idle" /\ opened
    /\ call' = c
    /\ pc' = AfterFlush(c.op)
    /\ reply' = NoReply
    /\ UNCHANGED <<linux, handle, zBuf, n, rc, ghost>>

Enter(c) ==
    /\ pc = "idle" /\ opened
    /\ call' = c
    /\ pc' = IF nBuffer # 0 THEN "dw_lseek" ELSE AfterFlush(c.op)
    /\ reply' = NoReply
    /\ UNCHANGED <<linux, handle, zBuf, n, rc, ghost>>

demoRead ==
    \E iAmt \in 1 .. MaxOfst, iOfst \in Offsets :
        /\ iOfst + iAmt <= MaxOfst
        /\ Enter([op |-> "read", iAmt |-> iAmt, iOfst |-> iOfst])

demoSync == Enter([op |-> "sync", iAmt |-> 0, iOfst |-> 0])

demoFileSize == Enter([op |-> "filesize", iAmt |-> 0, iOfst |-> 0])

demoClose == Enter([op |-> "close", iAmt |-> 0, iOfst |-> 0])

(***************************************************************************)
(* demoWrite.  The test at the head of its loop, for a buffer of nb bytes  *)
(* at offset bo and data that goes to offset i: a flush of an empty buffer *)
(* does nothing.                                                           *)
(***************************************************************************)

\* Mutants of NeedFlush: a write elsewhere goes on in the same buffer; a full
\* buffer is not noticed.
NeedFlush_NoGapTest(nb, bo, i) == nb = BUFFERSZ
NeedFlush_NoFullTest(nb, bo, i) == bo + nb # i /\ nb # 0

NeedFlush(nb, bo, i) == (nb = BUFFERSZ \/ bo + nb # i) /\ nb # 0

demoWrite ==
    /\ pc = "idle" /\ opened
    /\ \E iAmt \in 1 .. MaxOfst, iOfst \in Offsets :
          /\ iOfst + iAmt <= MaxOfst
          /\ \E z \in Payloads : zBuf' = z /\ file' = Put(file, iOfst, z, iAmt)
          /\ call' = [op |-> "write", iAmt |-> iAmt, iOfst |-> iOfst]
          /\ n' = iAmt
          /\ pc' = IF ~hasBuffer \/ NeedFlush(nBuffer, iBufferOfst, iOfst)
                   THEN "dw_lseek" ELSE "copy"
          /\ unsynced' = unsynced \cup Extent(iOfst, iAmt)
          /\ lost' = lost \ Extent(iOfst, iAmt)
    /\ reply' = NoReply
    /\ UNCHANGED <<linux, handle, rc>>

\* The offset "i" of demoWrite, and the index of "z" in zBuf.
iNow == call.iOfst + call.iAmt - n
zNow == call.iAmt - n

\* Mutant of nCopy: the space left in the buffer is not looked at.
nCopy_Unclipped == n

nCopy == IF BUFFERSZ - nBuffer > n THEN n ELSE BUFFERSZ - nBuffer

Copy ==
    /\ pc = "copy"
    /\ iBufferOfst' = iNow - nBuffer
    /\ aBuffer' = [k \in 0 .. BUFFERSZ - 1 |->
                      IF nBuffer <= k /\ k < nBuffer + nCopy
                      THEN zBuf[zNow + k - nBuffer] ELSE aBuffer[k]]
    /\ nBuffer' = nBuffer + nCopy
    /\ IF nCopy = n
       THEN ReturnRc("OK")
       ELSE /\ n' = n - nCopy
            /\ pc' = IF NeedFlush(nBuffer', iBufferOfst', iNow + nCopy)
                     THEN "dw_lseek" ELSE "copy"
            /\ UNCHANGED <<call, zBuf, rc, reply>>
    /\ UNCHANGED <<linux, kind, fd, ghost>>

(***************************************************************************)
(* demoDirectWrite, from demoFlushBuffer when the file has a buffer, from  *)
(* demoWrite when it has none.                                             *)
(***************************************************************************)
dwData == IF hasBuffer THEN aBuffer ELSE zBuf
dwAmt  == IF hasBuffer THEN nBuffer ELSE call.iAmt
dwOfst == IF hasBuffer THEN iBufferOfst ELSE call.iOfst

\* What lseek, read and fstat find behind the descriptor (external): /dev/null has
\* no byte, and every lseek in it returns 0.
Seeks(ofst) == fd = "file" \/ ofst = 0
Behind == IF fd = "file" THEN disk ELSE EmptyFile

\* demoDirectWrite returns SQLITE_OK.
WriteDone ==
    /\ nBuffer' = 0
    /\ IF hasBuffer
       THEN pc' = AfterFlush(call.op) /\ UNCHANGED <<call, zBuf, n, rc, reply>>
       ELSE ReturnRc("OK")
    /\ UNCHANGED ghost

\* demoDirectWrite returns SQLITE_IOERR_WRITE: demoFlushBuffer empties the
\* buffer all the same, and only demoClose goes on.
WriteFailed ==
    /\ nBuffer' = 0
    /\ IF call.op = "close"
       THEN /\ pc' = "close" /\ rc' = "IOERR_WRITE"
            /\ UNCHANGED <<call, zBuf, n, reply>>
       ELSE ReturnRc("IOERR_WRITE")
    /\ lost' = lost \cup Extent(dwOfst, dwAmt) \cup Extent(iNow, n)
    /\ UNCHANGED <<file, unsynced>>

WriteLseek ==
    /\ pc = "dw_lseek"
    /\ \/ /\ Seeks(dwOfst)
          /\ pos' = dwOfst
          /\ pc' = "dw_write"
          /\ UNCHANGED <<call, zBuf, n, rc, reply, nBuffer, ghost>>
       \/ \* -1, or 0 from a failed RPC where another offset was asked for
          /\ WriteFailed
          /\ UNCHANGED pos
       \/ \* a failed RPC returns 0, the offset asked for
          /\ RpcFaults /\ dwOfst = 0
          /\ pc' = "dw_write"
          /\ UNCHANGED <<pos, call, zBuf, n, rc, reply, nBuffer, ghost>>
    /\ UNCHANGED <<disk, durable, kind, fd, aBuffer, iBufferOfst>>

\* write() stores k of the bytes and says so (/dev/null takes them and keeps none);
\* a failed RPC says 0 of any k.
WriteWrite ==
    /\ pc = "dw_write"
    /\ \E k \in 0 .. dwAmt :
          /\ pos + k <= MaxOfst
          /\ disk' = IF fd = "file" THEN Put(disk, pos, dwData, k) ELSE disk
          /\ pos' = pos + k
          /\ \/ k = dwAmt /\ WriteDone
             \/ (k # dwAmt \/ RpcFaults) /\ WriteFailed
    /\ UNCHANGED <<durable, kind, fd, aBuffer, iBufferOfst>>

(***************************************************************************)
(* The rest of demoRead, demoSync, demoFileSize and demoClose.             *)
(***************************************************************************)
ReadLseek ==
    /\ pc = "rd_lseek"
    /\ \/ /\ Seeks(call.iOfst)
          /\ pos' = call.iOfst
          /\ pc' = "rd_read"
          /\ UNCHANGED <<call, zBuf, n, rc, reply>>
       \/ /\ ReturnRc("IOERR_READ")
          /\ UNCHANGED pos
       \/ /\ RpcFaults /\ call.iOfst = 0
          /\ pc' = "rd_read"
          /\ UNCHANGED <<pos, call, zBuf, n, rc, reply>>
    /\ UNCHANGED <<disk, durable, handle, ghost>>

\* The bytes that read() finds at the file position.
Available ==
    IF pos >= Behind.size THEN 0
    ELSE IF Behind.size - pos < call.iAmt THEN Behind.size - pos ELSE call.iAmt

\* Mutant of ReadRc: any read that did not fail is a full one.
ReadRc_NoShortRead(nRead) == "OK"

ReadRc(nRead) == IF nRead = call.iAmt THEN "OK" ELSE "SHORT_READ"

ReadRead ==
    /\ pc = "rd_read"
    /\ \/ /\ pos' = pos + Available
          /\ Return(ReadRc(Available), Slice(Behind, pos, Available), 0)
       \/ /\ ReturnRc("IOERR_READ")
          /\ UNCHANGED pos
       \/ /\ RpcFaults
          /\ Return(ReadRc(0), NoData, 0)
          /\ UNCHANGED pos
    /\ UNCHANGED <<disk, durable, handle, ghost>>

Fsync ==
    /\ pc = "fsync"
    /\ \/ /\ fd = "file"
          /\ durable' = disk
          /\ ReturnRc("OK")
          /\ unsynced' = {}
       \/ /\ ReturnRc("IOERR_FSYNC")
          /\ UNCHANGED <<durable, unsynced>>
       \/ /\ RpcFaults
          /\ ReturnRc("OK")
          /\ unsynced' = {}
          /\ UNCHANGED durable
    /\ UNCHANGED <<disk, pos, handle, file, lost>>

FileSize ==
    /\ pc = "fstat"
    /\ \/ Return("OK", NoData, Behind.size)
       \/ ReturnRc("IOERR_FSTAT")
       \/ RpcFaults /\ Return("OK", NoData, 0)
    /\ UNCHANGED <<linux, handle, ghost>>

\* The result of utee_vfs_close is not looked at.
CloseClose ==
    /\ pc = "close"
    /\ kind' = "closed" /\ fd' = "file"
    /\ aBuffer' = EmptyBuffer /\ nBuffer' = 0 /\ iBufferOfst' = 0
    /\ pos' = 0
    /\ ReturnRc(rc)
    /\ UNCHANGED <<disk, durable, ghost>>

(***************************************************************************)
(* The methods that do nothing: demoTruncate leaves the file as long as it *)
(* is; demoLock, demoUnlock, demoCheckReservedLock, demoSectorSize and     *)
(* demoDeviceCharacteristics return 0; demoFileControl knows no operation. *)
(***************************************************************************)
demoTruncate ==
    /\ pc = "idle" /\ opened /\ ReturnRc("OK")
    /\ UNCHANGED <<linux, handle, ghost>>

NoOpMethod ==
    /\ pc = "idle" /\ opened
    /\ ReturnRc("OK") \/ ReturnRc("NOTFOUND")
    /\ UNCHANGED <<linux, handle, ghost>>

(***************************************************************************)
(* Crashes (external).  A panic of the trusted application loses the       *)
(* buffer.  A power loss also loses the page cache: of every byte not yet  *)
(* on stable storage either version may be found.                          *)
(***************************************************************************)
HandleGone ==
    /\ kind' = "closed" /\ fd' = "file"
    /\ aBuffer' = EmptyBuffer /\ nBuffer' = 0 /\ iBufferOfst' = 0
    /\ pos' = 0
    /\ pc' = "idle" /\ call' = NoCall /\ zBuf' = NoData /\ n' = 0 /\ rc' = "OK"
    /\ lost' = {}
    /\ reply' = NoReply

TaPanic ==
    /\ opened
    /\ HandleGone
    /\ file' = disk
    /\ UNCHANGED <<disk, durable, unsynced>>

PowerLoss ==
    /\ HandleGone
    /\ \E old \in SUBSET Offsets, size \in {durable.size, disk.size} :
          disk' = [data |-> [o \in Offsets |->
                                IF o >= size THEN Zero
                                ELSE IF o \in old THEN durable.data[o]
                                ELSE disk.data[o]],
                   size |-> size]
    /\ durable' = disk' /\ file' = disk'
    /\ unsynced' = {}

Method ==
    \/ demoOpen \/ demoRead \/ demoWrite \/ demoSync \/ demoFileSize
    \/ demoClose \/ demoTruncate \/ NoOpMethod

Step ==
    \/ Copy \/ WriteLseek \/ WriteWrite \/ ReadLseek \/ ReadRead
    \/ Fsync \/ FileSize \/ CloseClose

Next == Method \/ Step \/ TaPanic \/ PowerLoss

\* A method runs on until it returns: it is sequential code, and a request to
\* the normal world is answered or fails.
Spec == Init /\ [][Next]_vars /\ WF_vars(Step)

-----------------------------------------------------------------------------
(***************************************************************************)
(* Properties.                                                             *)
(***************************************************************************)

LinuxType ==
    /\ disk \in File /\ durable \in File
    /\ pos \in 0 .. MaxOfst

HandleType ==
    /\ kind \in {"closed", "journal", "direct"} /\ fd \in {"file", "0"}
    /\ aBuffer \in [0 .. BUFFERSZ - 1 -> Byte]
    /\ nBuffer \in 0 .. BUFFERSZ
    /\ iBufferOfst \in 0 .. MaxOfst

FrameType ==
    /\ pc \in PCs
    /\ call \in Calls
    /\ zBuf \in [Offsets -> Byte]
    /\ n \in 0 .. MaxOfst
    /\ rc \in {"OK", "IOERR_WRITE"}

ReplyType == reply \in Replies

GhostType == file \in File /\ unsynced \subseteq Offsets /\ lost \subseteq Offsets

\* The state of the file, of the handle and of the method under way is well
\* typed; so is every index demoWrite and demoDirectWrite compute from it.
TypeOK == LinuxType /\ HandleType /\ FrameType /\ ReplyType /\ GhostType

\* demoWrite's assert (tee_vfs.c:190) holds whenever it is reached, and the copy
\* that follows it makes progress and stays inside aBuffer.
CopyAsserts ==
    pc = "copy" =>
        /\ nBuffer = 0 \/ iBufferOfst + nBuffer = iNow
        /\ nBuffer < BUFFERSZ
        /\ nCopy \in 1 .. n

\* How the program counter, the arguments and the handle hang together while a
\* method runs: the part of the inductive invariant that TypeOK and CopyAsserts
\* rest on.
FrameInv ==
    /\ (pc = "idle") <=> (call.op = "none")
    /\ pc # "idle" => opened
    /\ n <= call.iAmt
    /\ IF call.op = "write" THEN n > 0 ELSE n = 0
    /\ call.iOfst + call.iAmt <= MaxOfst
    /\ iBufferOfst + nBuffer <= MaxOfst
    /\ nBuffer > 0 => hasBuffer
    /\ pc \in {"dw_lseek", "dw_write"} =>
          IF hasBuffer THEN nBuffer > 0 ELSE call.op = "write" /\ n = call.iAmt
    /\ pc \in {"rd_lseek", "rd_read", "fsync", "fstat", "close"} => nBuffer = 0
    /\ pc \in {"rd_lseek", "rd_read"} => call.op = "read"
    /\ pc = "fsync" => call.op = "sync"
    /\ pc = "fstat" => call.op = "filesize"
    /\ pc = "close" => call.op = "close"
    /\ pc = "copy" => call.op = "write" /\ hasBuffer

\* demoDirectWrite writes at the offset it was given ("iOfst: the file offset to
\* write to", tee_vfs.c:56): past its lseek check, the descriptor stands there.
WriteAtOffset == pc = "dw_write" => pos = dwOfst

\* The file, the buffer and the bytes demoWrite still holds, laid over each other.
Buffered == Put(disk, iBufferOfst, aBuffer, nBuffer)
Pending == Put(Buffered, iNow, [k \in 0 .. n - 1 |-> zBuf[zNow + k]], n)

\* At every moment, inside demoWrite's loop and a flush too, the disk overlaid by
\* the journal buffer and by the rest of the write is what SQLite has written,
\* except where an error return has disowned bytes.  A buffer dropped by a failed
\* flush is never silent, and never costs a byte that was not in it.
Coherent ==
    /\ \A o \in Offsets \ lost : Pending.data[o] = file.data[o]
    /\ Pending.size <= file.size
    /\ Pending.size < file.size => file.size - 1 \in lost

\* A byte that SQLite has not written since its last successful xSync is on stable
\* storage, although demoSync has gone through a buffer that flushes on its own.
SyncedSurvives ==
    \A o \in Offsets \ (unsynced \cup lost) : durable.data[o] = file.data[o]

\* A byte not written since the last xSync is the same in the page cache and on
\* stable storage, and everything in the buffer or still in demoWrite's hands has
\* been written since: what makes SyncedSurvives inductive.
CacheInv ==
    /\ \A o \in Offsets \ unsynced : disk.data[o] = durable.data[o]
    /\ Extent(iBufferOfst, nBuffer) \subseteq unsynced
    /\ Extent(iNow, n) \subseteq unsynced

\* Every method returns: demoWrite's loop ends for every length and offset.
CallReturns == pc # "idle" ~> pc = "idle"

\* The reply as the contract knows it.
ContractReply ==
    [reply EXCEPT !.rc = IF reply.rc \in Errors THEN "ERROR" ELSE reply.rc]

Contract == INSTANCE FileContract WITH failing <- rc # "OK", reply <- ContractReply

\* The methods implement the contract of FileContract: reads return what was
\* written, sizes are right, and errors and crashes cost unsynced bytes only.
ImplementsContract == Contract!Spec

\* Where the method stands for DemoVfs, to which an lseek is no step of its own.
DemoPc == CASE pc \in {"dw_lseek", "dw_write"} -> "write"
            [] pc \in {"rd_lseek", "rd_read"}  -> "read"
            [] OTHER -> pc

Demo == INSTANCE DemoVfs WITH
            aBuffer <- [k \in 1 .. nBuffer |-> aBuffer[k - 1]], pc <- DemoPc

\* While no crossing fails, the methods of tee_vfs.c do to the file, to the buffer
\* and for SQLite what those of demovfs.c do: every step is one of theirs, or none.
ImplementsDemo == Demo!Spec
=============================================================================
