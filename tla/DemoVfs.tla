------------------------------ MODULE DemoVfs -------------------------------
(***************************************************************************)
(* The methods of an open file in the VFS of SQLite's distribution         *)
(* (host/demovfs.c), from which ta/tee_vfs.c was made.  They call Linux    *)
(* themselves: an lseek and the write or read after it are one action,     *)
(* and no call is lost on the way.  TeeVfs, whose calls cross into the     *)
(* normal world one by one, takes only steps of this module if none of its *)
(* crossings fails.                                                        *)
(***************************************************************************)
EXTENDS FileBytes, Sequences

CONSTANTS
    BUFFERSZ,   \* SQLITE_DEMOVFS_BUFFERSZ
    Payloads    \* the byte strings SQLite writes

VARIABLES
    disk, durable,      \* the file in the page cache and on stable storage
    \* struct DemoFile
    kind,               \* "closed", "journal" (aBuffer is there), "direct" (it is not)
    aBuffer,            \* its nBuffer valid bytes
    iBufferOfst,
    \* The method under way.
    pc, call, zBuf, n, rc, reply

file == <<disk, durable>>
handle == <<kind, aBuffer, iBufferOfst>>
vars == <<file, handle, pc, call, zBuf, n, rc, reply>>

nBuffer == Len(aBuffer)
NoCall == [op |-> "none", iAmt |-> 0, iOfst |-> 0]
NoData == [k \in Offsets |-> Zero]
Reply(r, out, size) == [rc |-> r, out |-> out, size |-> size]

Init ==
    /\ disk = EmptyFile /\ durable = EmptyFile
    /\ kind = "closed" /\ aBuffer = <<>> /\ iBufferOfst = 0
    /\ pc = "idle" /\ call = NoCall /\ zBuf = NoData /\ n = 0 /\ rc = "OK"
    /\ reply = Reply("OK", NoData, 0)

Return(r, out, size) ==
    /\ pc' = "idle" /\ call' = NoCall /\ zBuf' = NoData /\ n' = 0 /\ rc' = "OK"
    /\ reply' = Reply(r, out, size)

ReturnRc(r) == Return(r, NoData, 0)

(***************************************************************************)
(* Opening, and the entries of the methods.                                *)
(***************************************************************************)
demoOpen ==
    /\ pc = "idle" /\ kind = "closed"
    /\ \/ /\ \E r \in {"IOERR", "NOMEM", "CANTOPEN"} : ReturnRc(r)
          /\ UNCHANGED handle
       \/ /\ kind' \in {"journal", "direct"} /\ aBuffer' = <<>> /\ iBufferOfst' = 0
          /\ ReturnRc("OK")
    /\ UNCHANGED file

\* demoFlushBuffer comes first, and does nothing if the buffer is empty.
Enter(c, next) ==
    /\ pc = "idle" /\ kind # "closed"
    /\ call' = c /\ pc' = IF nBuffer > 0 THEN "write" ELSE next
    /\ reply' = Reply("OK", NoData, 0)
    /\ UNCHANGED <<file, handle, zBuf, n, rc>>

Then(op) == [read |-> "read", sync |-> "fsync", filesize |-> "fstat", close |-> "close",
             write |-> "copy"][op]

demoRead ==
    \E iAmt \in 1 .. MaxOfst, iOfst \in Offsets :
        /\ iOfst + iAmt <= MaxOfst
        /\ Enter([op |-> "read", iAmt |-> iAmt, iOfst |-> iOfst], "read")

demoSync == Enter([op |-> "sync", iAmt |-> 0, iOfst |-> 0], "fsync")
demoFileSize == Enter([op |-> "filesize", iAmt |-> 0, iOfst |-> 0], "fstat")
demoClose == Enter([op |-> "close", iAmt |-> 0, iOfst |-> 0], "close")

\* Whether demoWrite flushes before data for offset i goes into the buffer.
MustFlush(buf, ofst, i) == buf # <<>> /\ (Len(buf) = BUFFERSZ \/ ofst + Len(buf) # i)

demoWrite ==
    /\ pc = "idle" /\ kind # "closed"
    /\ \E iAmt \in 1 .. MaxOfst, iOfst \in Offsets :
          /\ iOfst + iAmt <= MaxOfst
          /\ zBuf' \in Payloads
          /\ call' = [op |-> "write", iAmt |-> iAmt, iOfst |-> iOfst]
          /\ n' = iAmt
          /\ pc' = IF kind = "direct" \/ MustFlush(aBuffer, iBufferOfst, iOfst)
                   THEN "write" ELSE "copy"
    /\ reply' = Reply("OK", NoData, 0)
    /\ UNCHANGED <<file, handle, rc>>

(***************************************************************************)
(* Their work.                                                             *)
(***************************************************************************)

\* One turn of demoWrite's loop after its flush.
Copy ==
    LET i == call.iOfst + call.iAmt - n
        nCopy == IF BUFFERSZ - nBuffer > n THEN n ELSE BUFFERSZ - nBuffer
    IN  /\ pc = "copy"
        /\ iBufferOfst' = i - nBuffer
        /\ aBuffer' = aBuffer \o [k \in 1 .. nCopy |-> zBuf[call.iAmt - n + k - 1]]
        /\ IF nCopy = n THEN ReturnRc("OK")
           ELSE /\ n' = n - nCopy
                /\ pc' = IF MustFlush(aBuffer', iBufferOfst', i + nCopy) THEN "write" ELSE "copy"
                /\ UNCHANGED <<call, zBuf, rc, reply>>
        /\ UNCHANGED <<file, kind>>

\* demoDirectWrite, for a flush or for demoWrite itself.  lseek may fail, and write()
\* may take k of the bytes only.  The strlen() between them, whose result is not used,
\* reads on behind data without a zero: that the process dies of it is Dies below.
demoDirectWrite ==
    LET flush == kind = "journal"
        data  == IF flush THEN [k \in 0 .. nBuffer - 1 |-> aBuffer[k + 1]] ELSE zBuf
        ofst  == IF flush THEN iBufferOfst ELSE call.iOfst
        iAmt  == IF flush THEN nBuffer ELSE call.iAmt
    IN  /\ pc = "write"
        /\ \E k \in 0 .. iAmt :
              /\ disk' = Put(disk, ofst, data, k)
              /\ IF k = iAmt
                 THEN IF flush THEN pc' = Then(call.op) /\ UNCHANGED <<call, zBuf, n, rc, reply>>
                               ELSE ReturnRc("OK")
                 ELSE IF call.op = "close"
                      THEN pc' = "close" /\ rc' = "IOERR_WRITE" /\ UNCHANGED <<call, zBuf, n, reply>>
                      ELSE ReturnRc("IOERR_WRITE")
        /\ aBuffer' = <<>>
        /\ UNCHANGED <<durable, kind, iBufferOfst>>

Read ==
    LET left  == IF call.iOfst >= disk.size THEN 0 ELSE disk.size - call.iOfst
        nRead == IF left < call.iAmt THEN left ELSE call.iAmt
    IN  /\ pc = "read"
        /\ \/ Return(IF nRead = call.iAmt THEN "OK" ELSE "SHORT_READ",
                     Slice(disk, call.iOfst, nRead), 0)
           \/ ReturnRc("IOERR_READ")
        /\ UNCHANGED <<file, handle>>

Fsync ==
    /\ pc = "fsync"
    /\ \/ durable' = disk /\ ReturnRc("OK")
       \/ UNCHANGED durable /\ ReturnRc("IOERR_FSYNC")
    /\ UNCHANGED <<disk, handle>>

Fstat ==
    /\ pc = "fstat"
    /\ Return("OK", NoData, disk.size) \/ ReturnRc("IOERR_FSTAT")
    /\ UNCHANGED <<file, handle>>

Close ==
    /\ pc = "close" /\ ReturnRc(rc)
    /\ kind' = "closed" /\ aBuffer' = <<>> /\ iBufferOfst' = 0
    /\ UNCHANGED file

\* The file stays as long as it is.
demoTruncate ==
    /\ pc = "idle" /\ kind # "closed" /\ ReturnRc("OK")
    /\ UNCHANGED <<file, handle>>

\* demoLock, demoUnlock, demoCheckReservedLock, demoSectorSize and
\* demoDeviceCharacteristics return 0, demoFileControl knows no operation.
NoOpMethod ==
    /\ pc = "idle" /\ kind # "closed"
    /\ ReturnRc("OK") \/ ReturnRc("NOTFOUND")
    /\ UNCHANGED <<file, handle>>

(***************************************************************************)
(* Crashes (external).                                                     *)
(***************************************************************************)
HandleGone ==
    /\ kind' = "closed" /\ aBuffer' = <<>> /\ iBufferOfst' = 0
    /\ ReturnRc("OK")

Dies == kind # "closed" /\ HandleGone /\ UNCHANGED file

\* Of every byte that is not on stable storage yet either version may be found.
PowerLoss ==
    /\ HandleGone
    /\ disk'.size \in {durable.size, disk.size} /\ durable' = disk'
    /\ \A o \in Offsets : disk'.data[o] \in IF o < disk'.size THEN {durable.data[o], disk.data[o]}
                                            ELSE {Zero}

Next ==
    \/ demoOpen \/ demoRead \/ demoWrite \/ demoSync \/ demoFileSize \/ demoClose
    \/ demoTruncate \/ NoOpMethod
    \/ Copy \/ demoDirectWrite \/ Read \/ Fsync \/ Fstat \/ Close \/ Dies \/ PowerLoss

Spec == Init /\ [][Next]_vars
=============================================================================
