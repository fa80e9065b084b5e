---------------------------- MODULE TeeVfsProofs ----------------------------
(***************************************************************************)
(* TLAPS proofs about TeeVfs, for every file length, buffer size, set of   *)
(* byte values and set of payloads: its invariants, and its refinements.   *)
(***************************************************************************)
EXTENDS TeeVfs, SequenceTheorems, TLAPS

\* The assumptions on the constants, as the proofs cite them.
LEMMA Constants ==
    /\ Zero \in Byte
    /\ MaxOfst \in Nat
    /\ BUFFERSZ \in Nat /\ BUFFERSZ > 0
    /\ Payloads \subseteq [Offsets -> Byte]
    /\ RpcFaults \in BOOLEAN
  BY ByteAssumption, MaxOfstAssumption, BufferszAssumption, PayloadsAssumption,
     RpcFaultsAssumption

\* A write that fits gives a file.
LEMMA PutType ==
    ASSUME NEW f \in File, NEW ofst \in Nat, NEW k \in Nat, ofst + k <= MaxOfst,
           NEW z, \A j \in 0 .. k - 1 : z[j] \in Byte
    PROVE  Put(f, ofst, z, k) \in File
  <1>1. \A o \in Offsets : o \in Extent(ofst, k) => o - ofst \in 0 .. k - 1
    BY Constants DEF Extent, Offsets
  <1>2. Put(f, ofst, z, k).data \in [Offsets -> Byte]
    BY <1>1 DEF Put, File
  <1>3. Put(f, ofst, z, k).size \in 0 .. MaxOfst
    BY Constants DEF Put, File
  <1> QED
    BY <1>2, <1>3 DEF Put, File

\* A read returns bytes, zeros past the end included.
LEMMA SliceType ==
    ASSUME NEW f \in File, NEW ofst \in Nat, NEW k \in Nat
    PROVE  Slice(f, ofst, k) \in [Offsets -> Byte]
  BY Constants DEF Slice, File

\* The initial values, and those a return leaves behind, are well typed.
LEMMA EmptyType ==
    /\ EmptyFile \in File
    /\ NoData \in [Offsets -> Byte]
    /\ EmptyBuffer \in [0 .. BUFFERSZ - 1 -> Byte]
    /\ NoCall \in Calls
    /\ NoReply \in Replies
  BY Constants DEF EmptyFile, NoData, EmptyBuffer, NoCall, NoReply, File, Offsets,
     Calls, Replies, Ops

\* The part of the invariant that holds with failing RPCs too.
BaseInv == TypeOK /\ FrameInv /\ CopyAsserts

LEMMA InitBase == Init => BaseInv
  <1> SUFFICES ASSUME Init PROVE BaseInv
    OBVIOUS
  <1>1. TypeOK
    <2>1. LinuxType /\ GhostType
      BY Constants, EmptyType DEF Init, LinuxType, GhostType
    <2>2. HandleType
      BY Constants, EmptyType DEF Init, HandleType
    <2>3. FrameType
      <3>1. pc \in PCs
        BY DEF Init, PCs
      <3>2. call \in Calls /\ zBuf \in [Offsets -> Byte]
        BY EmptyType DEF Init
      <3>3. n \in 0 .. MaxOfst
        BY Constants DEF Init
      <3>4. rc \in {"OK", "IOERR_WRITE"}
        BY DEF Init
      <3> QED
        BY <3>1, <3>2, <3>3, <3>4 DEF FrameType
    <2>4. ReplyType
      BY Constants, EmptyType DEF Init, ReplyType
    <2> QED
      BY <2>1, <2>2, <2>3, <2>4 DEF TypeOK
  <1>2. FrameInv
    BY Constants DEF Init, FrameInv, NoCall
  <1>3. CopyAsserts
    BY DEF Init, CopyAsserts
  <1> QED
    BY <1>1, <1>2, <1>3 DEF BaseInv

Rcs == {"OK", "SHORT_READ", "NOTFOUND"} \cup Errors

\* A step that returns to SQLite leaves the frame of an idle handle.
LEMMA ReturnBase ==
    ASSUME NEW r \in Rcs, NEW out \in [Offsets -> Byte], NEW size \in 0 .. MaxOfst,
           Return(r, out, size),
           HandleType', iBufferOfst' + nBuffer' <= MaxOfst,
           nBuffer' > 0 => kind' = "journal"
    PROVE  FrameType' /\ ReplyType' /\ FrameInv' /\ CopyAsserts'
  <1>1. pc' = "idle" /\ call' = NoCall /\ zBuf' = NoData /\ n' = 0 /\ rc' = "OK"
    BY DEF Return
  <1>2. reply' = [rc |-> r, out |-> out, size |-> size]
    BY DEF Return
  <1>3. FrameType'
    BY <1>1, Constants, EmptyType DEF FrameType, PCs
  <1>4. ReplyType'
    BY <1>2 DEF ReplyType, Replies, Rcs
  <1>5. FrameInv'
    BY <1>1, Constants DEF FrameInv, NoCall, hasBuffer
  <1>6. CopyAsserts'
    BY <1>1 DEF CopyAsserts
  <1> QED
    BY <1>3, <1>4, <1>5, <1>6

\* The same for a step that returns a code alone.
LEMMA ReturnRcBase ==
    ASSUME NEW r \in Rcs, ReturnRc(r),
           HandleType', iBufferOfst' + nBuffer' <= MaxOfst,
           nBuffer' > 0 => kind' = "journal"
    PROVE  FrameType' /\ ReplyType' /\ FrameInv' /\ CopyAsserts'
  BY ReturnBase, Constants, EmptyType DEF ReturnRc

\* A step that returns and touches neither the buffer nor the file.
LEMMA HandleKept ==
    ASSUME BaseInv, UNCHANGED handle
    PROVE  /\ HandleType' /\ iBufferOfst' + nBuffer' <= MaxOfst
           /\ nBuffer' > 0 => kind' = "journal"
  BY DEF BaseInv, TypeOK, HandleType, FrameInv, handle, hasBuffer

\* demoOpen and the methods without effect.
LEMMA OpenBase == ASSUME BaseInv, demoOpen \/ demoTruncate \/ NoOpMethod PROVE BaseInv'
  <1>1. LinuxType' /\ GhostType'
    BY Constants DEF demoOpen, demoTruncate, NoOpMethod, BaseInv, TypeOK, LinuxType, GhostType, linux, ghost
  <1>2. PICK r \in Rcs : ReturnRc(r)
    BY DEF demoOpen, demoTruncate, NoOpMethod, Rcs, Errors
  <1>3. /\ HandleType' /\ iBufferOfst' + nBuffer' <= MaxOfst
        /\ nBuffer' > 0 => kind' = "journal"
    <2>1. CASE UNCHANGED handle
      BY <2>1, HandleKept
    <2>2. CASE /\ kind' \in {"journal", "direct"} /\ fd' \in {"file", "0"}
               /\ aBuffer' = EmptyBuffer /\ nBuffer' = 0 /\ iBufferOfst' = 0
      BY <2>2, Constants, EmptyType DEF HandleType
    <2> QED
      BY <2>1, <2>2 DEF demoOpen, demoTruncate, NoOpMethod
  <1> QED
    BY <1>1, <1>2, <1>3, ReturnRcBase DEF BaseInv, TypeOK

\* The entry of a method that flushes first.
LEMMA EnterBase ==
    ASSUME BaseInv, NEW c \in Calls, c.op \in Ops \ {"write"},
           c.iOfst + c.iAmt <= MaxOfst, Enter(c)
    PROVE  BaseInv'
  <1>1. LinuxType' /\ HandleType' /\ GhostType'
    BY DEF Enter, BaseInv, TypeOK, LinuxType, HandleType, GhostType, linux, handle, ghost
  <1>2. ReplyType'
    BY EmptyType DEF Enter, ReplyType
  <1>3. AfterFlush(c.op) \in {"rd_lseek", "fsync", "fstat", "close"}
    BY DEF AfterFlush, Ops
  <1>4. FrameType'
    BY <1>3 DEF Enter, BaseInv, TypeOK, FrameType, PCs
  <1>5. FrameInv'
    BY <1>3, Constants
    DEF Enter, BaseInv, TypeOK, HandleType, FrameType, FrameInv, AfterFlush, Ops,
        handle, opened, hasBuffer, Calls
  <1>6. CopyAsserts'
    BY <1>3 DEF Enter, CopyAsserts
  <1> QED
    BY <1>1, <1>2, <1>4, <1>5, <1>6 DEF BaseInv, TypeOK

LEMMA FlushFirstBase ==
    ASSUME BaseInv, demoRead \/ demoSync \/ demoFileSize \/ demoClose
    PROVE  BaseInv'
  <1>1. CASE demoRead
    <2>1. PICK iAmt \in 1 .. MaxOfst, iOfst \in Offsets :
             /\ iOfst + iAmt <= MaxOfst
             /\ Enter([op |-> "read", iAmt |-> iAmt, iOfst |-> iOfst])
      BY <1>1 DEF demoRead
    <2>2. [op |-> "read", iAmt |-> iAmt, iOfst |-> iOfst] \in Calls
      BY Constants DEF Calls, Ops, Offsets
    <2> QED
      BY <2>1, <2>2, EnterBase, Constants DEF Ops
  <1>2. \A op \in Ops : [op |-> op, iAmt |-> 0, iOfst |-> 0] \in Calls
    BY Constants DEF Calls
  <1>3. CASE demoSync
    BY <1>2, <1>3, EnterBase, Constants DEF demoSync, Ops
  <1>4. CASE demoFileSize
    BY <1>2, <1>4, EnterBase, Constants DEF demoFileSize, Ops
  <1>5. CASE demoClose
    BY <1>2, <1>5, EnterBase, Constants DEF demoClose, Ops
  <1> QED
    BY <1>1, <1>3, <1>4, <1>5

\* The entry of demoWrite: the loop is entered with room in the buffer, which is
\* empty or ends where the new bytes start.
LEMMA WriteBase == ASSUME BaseInv, demoWrite PROVE BaseInv'
  <1>1. PICK iAmt \in 1 .. MaxOfst, iOfst \in Offsets, z \in Payloads :
           /\ iOfst + iAmt <= MaxOfst
           /\ zBuf' = z /\ file' = Put(file, iOfst, z, iAmt)
           /\ call' = [op |-> "write", iAmt |-> iAmt, iOfst |-> iOfst]
           /\ n' = iAmt
           /\ pc' = IF ~hasBuffer \/ NeedFlush(nBuffer, iBufferOfst, iOfst)
                    THEN "dw_lseek" ELSE "copy"
           /\ unsynced' = unsynced \cup Extent(iOfst, iAmt)
           /\ lost' = lost \ Extent(iOfst, iAmt)
    BY DEF demoWrite
  <1>2. pc = "idle" /\ opened /\ reply' = NoReply /\ UNCHANGED <<linux, handle, rc>>
    BY DEF demoWrite
  <1>3. iAmt \in Nat /\ iOfst \in Nat /\ iAmt > 0
    BY Constants DEF Offsets
  <1>4. z \in [Offsets -> Byte] /\ \A j \in 0 .. iAmt - 1 : z[j] \in Byte
    BY <1>1, Constants DEF Offsets
  <1>5. LinuxType' /\ HandleType'
    BY <1>2 DEF BaseInv, TypeOK, LinuxType, HandleType, linux, handle
  <1>6. GhostType'
    <2>1. file' \in File
      BY <1>1, <1>3, <1>4, PutType DEF BaseInv, TypeOK, GhostType
    <2> QED
      BY <1>1, <2>1 DEF BaseInv, TypeOK, GhostType, Extent
  <1>7. call' \in Calls
    BY <1>1, <1>3, Constants DEF Calls, Ops
  <1>8. FrameType'
    BY <1>1, <1>2, <1>3, <1>4, <1>7 DEF BaseInv, TypeOK, FrameType, PCs
  <1>9. ReplyType'
    BY <1>2, EmptyType DEF ReplyType
  <1>10. FrameInv'
    BY <1>1, <1>2, <1>3, Constants
    DEF BaseInv, TypeOK, HandleType, FrameInv, NeedFlush, handle, opened, hasBuffer
  <1>11. CopyAsserts'
    BY <1>1, <1>2, <1>3, Constants
    DEF BaseInv, TypeOK, HandleType, CopyAsserts, NeedFlush, handle, hasBuffer,
        iNow, nCopy
  <1> QED
    BY <1>5, <1>6, <1>8, <1>9, <1>10, <1>11 DEF BaseInv, TypeOK

\* A turn of the copy loop.
LEMMA CopyBase == ASSUME BaseInv, Copy PROVE BaseInv'
  <1> USE Constants
  <1>1. /\ pc = "copy" /\ call.op = "write" /\ kind = "journal"
        /\ nBuffer \in Nat /\ nBuffer < BUFFERSZ /\ n \in Nat /\ nCopy \in 1 .. n
        /\ nBuffer + nCopy <= BUFFERSZ
        /\ nBuffer = 0 \/ iBufferOfst + nBuffer = iNow
        /\ iNow \in Nat /\ iNow + n <= MaxOfst /\ iBufferOfst \in Nat
    BY DEF BaseInv, TypeOK, HandleType, FrameType, Calls, FrameInv, CopyAsserts, Copy,
           hasBuffer, iNow, nCopy
  <1>2. LinuxType' /\ GhostType' /\ kind' = kind /\ fd' = fd
    BY DEF Copy, BaseInv, TypeOK, LinuxType, GhostType, linux, ghost
  <1>3. /\ nBuffer' = nBuffer + nCopy /\ iBufferOfst' = iNow - nBuffer
        /\ iBufferOfst' \in Nat /\ nBuffer' \in 1 .. BUFFERSZ
        /\ iBufferOfst' + nBuffer' = iNow + nCopy
        /\ iBufferOfst' + nBuffer' <= MaxOfst
    BY <1>1 DEF Copy
  <1>4. aBuffer' \in [0 .. BUFFERSZ - 1 -> Byte]
    <2>1. ASSUME NEW k \in 0 .. BUFFERSZ - 1, nBuffer <= k, k < nBuffer + nCopy
          PROVE  zBuf[zNow + k - nBuffer] \in Byte
      <3>1. zNow + k - nBuffer \in Offsets
        BY <1>1, <2>1
        DEF zNow, Offsets, BaseInv, TypeOK, FrameType, Calls, FrameInv
      <3> QED
        BY <3>1 DEF BaseInv, TypeOK, FrameType
    <2>2. \A k \in 0 .. BUFFERSZ - 1 : aBuffer[k] \in Byte
      BY DEF BaseInv, TypeOK, HandleType
    <2> QED
      BY <2>1, <2>2 DEF Copy
  <1>5. HandleType'
    BY <1>1, <1>2, <1>3, <1>4 DEF HandleType, BaseInv, TypeOK
  <1>6. CASE nCopy = n
    <2>1. ReturnRc("OK")
      BY <1>6 DEF Copy
    <2>2. FrameType' /\ ReplyType' /\ FrameInv' /\ CopyAsserts'
      BY <2>1, <1>1, <1>2, <1>3, <1>5, ReturnRcBase DEF Rcs
    <2> QED
      BY <2>2, <1>2, <1>5 DEF BaseInv, TypeOK
  <1>7. CASE nCopy # n
    <2>1. /\ n' = n - nCopy /\ UNCHANGED <<call, zBuf, rc, reply>>
          /\ pc' = "dw_lseek"
      BY <1>7, <1>1, <1>3 DEF Copy, NeedFlush, nCopy
    <2>2. FrameType' /\ ReplyType'
      BY <2>1, <1>1, <1>7 DEF BaseInv, TypeOK, FrameType, ReplyType, PCs
    <2>3. FrameInv'
      BY <2>1, <1>1, <1>2, <1>3, <1>7
      DEF BaseInv, TypeOK, FrameType, Calls, FrameInv, opened, hasBuffer
    <2>4. CopyAsserts'
      BY <2>1 DEF CopyAsserts
    <2> QED
      BY <2>2, <2>3, <2>4, <1>2, <1>5 DEF BaseInv, TypeOK
  <1> QED
    BY <1>6, <1>7

\* What demoDirectWrite is given lies inside the file and inside its source.
LEMMA DwType ==
    ASSUME BaseInv, pc \in {"dw_lseek", "dw_write"}
    PROVE  /\ dwOfst \in Nat /\ dwAmt \in Nat /\ dwAmt > 0 /\ dwOfst + dwAmt <= MaxOfst
           /\ \A j \in 0 .. dwAmt - 1 : dwData[j] \in Byte
           /\ iNow \in Nat /\ iNow + n <= MaxOfst
  <1>1. CASE kind = "journal"
    BY <1>1, Constants
    DEF BaseInv, TypeOK, HandleType, FrameType, Calls, FrameInv, dwOfst, dwAmt, dwData,
        hasBuffer, iNow
  <1>2. CASE kind # "journal"
    BY <1>2, Constants
    DEF BaseInv, TypeOK, HandleType, FrameType, Calls, FrameInv, dwOfst, dwAmt, dwData,
        hasBuffer, iNow, Offsets
  <1> QED
    BY <1>1, <1>2

\* demoDirectWrite returns, with success or without.
LEMMA DwReturnBase ==
    ASSUME BaseInv, pc \in {"dw_lseek", "dw_write"}, WriteDone \/ WriteFailed,
           UNCHANGED <<kind, fd, aBuffer, iBufferOfst>>
    PROVE  HandleType' /\ FrameType' /\ ReplyType' /\ GhostType' /\ FrameInv' /\ CopyAsserts'
  <1> USE Constants
  <1>1. nBuffer' = 0 /\ HandleType' /\ iBufferOfst' + nBuffer' <= MaxOfst
    BY DEF WriteDone, WriteFailed, BaseInv, TypeOK, HandleType
  <1>2. GhostType'
    BY DEF WriteDone, WriteFailed, BaseInv, TypeOK, GhostType, ghost, Extent
  <1>3. ASSUME NEW r \in Rcs, ReturnRc(r)
        PROVE  FrameType' /\ ReplyType' /\ FrameInv' /\ CopyAsserts'
    BY <1>1, <1>3, ReturnRcBase
  <1>4. CASE WriteDone
    <2>1. CASE ~hasBuffer
      BY <2>1, <1>1, <1>2, <1>3, <1>4 DEF WriteDone, Rcs
    <2>2. CASE hasBuffer
      <3>1. pc' = AfterFlush(call.op) /\ UNCHANGED <<call, zBuf, n, rc, reply>>
        BY <2>2, <1>4 DEF WriteDone
      <3>2. call.op \in Ops
        BY DEF BaseInv, TypeOK, FrameType, Calls, FrameInv
      <3>3. FrameType' /\ ReplyType'
        BY <3>1, <3>2
        DEF BaseInv, TypeOK, FrameType, ReplyType, AfterFlush, Ops, PCs
      <3>4. FrameInv'
        BY <3>1, <3>2, <1>1, <2>2
        DEF BaseInv, TypeOK, FrameType, FrameInv, AfterFlush, Ops, opened, hasBuffer
      <3>5. CopyAsserts'
        BY <3>1, <3>2, <1>1
        DEF BaseInv, TypeOK, FrameType, FrameInv, CopyAsserts, AfterFlush, Ops, nCopy
      <3> QED
        BY <3>3, <3>4, <3>5, <1>1, <1>2
    <2> QED
      BY <2>1, <2>2
  <1>5. CASE WriteFailed
    <2>1. CASE call.op # "close"
      BY <2>1, <1>1, <1>2, <1>3, <1>5 DEF WriteFailed, Rcs, Errors
    <2>2. CASE call.op = "close"
      <3>1. pc' = "close" /\ rc' = "IOERR_WRITE" /\ UNCHANGED <<call, zBuf, n, reply>>
        BY <2>2, <1>5 DEF WriteFailed
      <3>2. FrameType' /\ ReplyType'
        BY <3>1 DEF BaseInv, TypeOK, FrameType, ReplyType, PCs
      <3>3. FrameInv'
        BY <3>1, <1>1, <2>2 DEF BaseInv, TypeOK, FrameType, FrameInv, opened, hasBuffer
      <3>4. CopyAsserts'
        BY <3>1 DEF CopyAsserts
      <3> QED
        BY <3>2, <3>3, <3>4, <1>1, <1>2
    <2> QED
      BY <2>1, <2>2
  <1> QED
    BY <1>4, <1>5

LEMMA WriteLseekBase == ASSUME BaseInv, WriteLseek PROVE BaseInv'
  <1>1. pc = "dw_lseek" /\ UNCHANGED <<disk, durable, kind, fd, aBuffer, iBufferOfst>>
    BY DEF WriteLseek
  <1>2. LinuxType'
    BY <1>1, DwType, Constants DEF WriteLseek, BaseInv, TypeOK, LinuxType
  <1>3. CASE WriteFailed
    BY <1>1, <1>2, <1>3, DwReturnBase DEF BaseInv, TypeOK
  <1>4. CASE pc' = "dw_write" /\ UNCHANGED <<call, zBuf, n, rc, reply, nBuffer, ghost>>
    <2>1. HandleType' /\ FrameType' /\ ReplyType' /\ GhostType'
      BY <1>1, <1>4
      DEF BaseInv, TypeOK, HandleType, FrameType, ReplyType, GhostType, PCs, ghost
    <2>2. FrameInv'
      BY <1>1, <1>4 DEF BaseInv, FrameInv, opened, hasBuffer
    <2>3. CopyAsserts'
      BY <1>4 DEF CopyAsserts
    <2> QED
      BY <1>2, <2>1, <2>2, <2>3 DEF BaseInv, TypeOK
  <1> QED
    BY <1>3, <1>4 DEF WriteLseek

LEMMA WriteWriteBase == ASSUME BaseInv, WriteWrite PROVE BaseInv'
  <1>1. pc = "dw_write" /\ UNCHANGED <<durable, kind, fd, aBuffer, iBufferOfst>>
    BY DEF WriteWrite
  <1>2. PICK k \in 0 .. dwAmt :
           /\ pos + k <= MaxOfst
           /\ disk' = Put(disk, pos, dwData, k) \/ disk' = disk
           /\ pos' = pos + k
           /\ WriteDone \/ WriteFailed
    BY DEF WriteWrite
  <1>3. /\ k \in Nat /\ pos \in Nat /\ disk \in File
        /\ \A j \in 0 .. k - 1 : dwData[j] \in Byte
    BY <1>1, DwType, Constants DEF BaseInv, TypeOK, LinuxType
  <1>4. disk' \in File
    BY <1>2, <1>3, PutType
  <1>5. LinuxType'
    BY <1>1, <1>2, <1>3, <1>4, Constants DEF BaseInv, TypeOK, LinuxType
  <1> QED
    BY <1>1, <1>2, <1>5, DwReturnBase DEF BaseInv, TypeOK

LEMMA ReadLseekBase == ASSUME BaseInv, ReadLseek PROVE BaseInv'
  <1>1. pc = "rd_lseek" /\ UNCHANGED <<disk, durable, handle, ghost>>
    BY DEF ReadLseek
  <1>2. LinuxType' /\ GhostType'
    BY <1>1, Constants
    DEF ReadLseek, BaseInv, TypeOK, LinuxType, GhostType, FrameType, Calls, ghost
  <1>3. CASE ReturnRc("IOERR_READ")
    BY <1>1, <1>2, <1>3, HandleKept, ReturnRcBase DEF BaseInv, TypeOK, Rcs, Errors
  <1>4. CASE pc' = "rd_read" /\ UNCHANGED <<call, zBuf, n, rc, reply>>
    <2>1. HandleType' /\ FrameType' /\ ReplyType'
      BY <1>1, <1>4 DEF BaseInv, TypeOK, HandleType, FrameType, ReplyType, PCs, handle
    <2>2. FrameInv'
      BY <1>1, <1>4 DEF BaseInv, FrameInv, opened, hasBuffer, handle
    <2>3. CopyAsserts'
      BY <1>4 DEF CopyAsserts
    <2> QED
      BY <1>2, <2>1, <2>2, <2>3 DEF BaseInv, TypeOK
  <1> QED
    BY <1>3, <1>4 DEF ReadLseek

LEMMA AvailableType ==
    ASSUME BaseInv
    PROVE  Behind \in File /\ Available \in Nat /\ pos + Available <= MaxOfst
  <1>1. Behind \in File
    BY EmptyType DEF Behind, BaseInv, TypeOK, LinuxType
  <1> QED
    BY <1>1, Constants DEF Available, BaseInv, TypeOK, LinuxType, FrameType, Calls, File

LEMMA ReadReadBase == ASSUME BaseInv, ReadRead PROVE BaseInv'
  <1>1. pc = "rd_read" /\ UNCHANGED <<disk, durable, handle, ghost>>
    BY DEF ReadRead
  <1>2. LinuxType' /\ GhostType'
    BY <1>1, AvailableType, Constants
    DEF ReadRead, BaseInv, TypeOK, LinuxType, GhostType, ghost
  <1>3. PICK r \in Rcs, out \in [Offsets -> Byte] : Return(r, out, 0)
    <2>1. Slice(Behind, pos, Available) \in [Offsets -> Byte]
      BY AvailableType, SliceType, Constants DEF BaseInv, TypeOK, LinuxType
    <2>2. \A m : ReadRc(m) \in Rcs
      BY DEF ReadRc, Rcs
    <2> QED
      BY <2>1, <2>2, EmptyType DEF ReadRead, ReturnRc, Rcs, Errors
  <1>4. FrameType' /\ ReplyType' /\ FrameInv' /\ CopyAsserts'
    BY <1>1, <1>3, HandleKept, ReturnBase, Constants
  <1> QED
    BY <1>1, <1>2, <1>4, HandleKept DEF BaseInv, TypeOK

LEMMA FsyncBase == ASSUME BaseInv, Fsync PROVE BaseInv'
  <1>1. LinuxType' /\ GhostType' /\ UNCHANGED handle
    BY DEF Fsync, BaseInv, TypeOK, LinuxType, GhostType
  <1>2. PICK r \in Rcs : ReturnRc(r)
    BY DEF Fsync, Rcs, Errors
  <1> QED
    BY <1>1, <1>2, HandleKept, ReturnRcBase DEF BaseInv, TypeOK

LEMMA FileSizeBase == ASSUME BaseInv, FileSize PROVE BaseInv'
  <1>1. LinuxType' /\ GhostType' /\ UNCHANGED handle
    BY DEF FileSize, BaseInv, TypeOK, LinuxType, GhostType, linux, ghost
  <1>2. PICK r \in Rcs, size \in 0 .. MaxOfst : Return(r, NoData, size)
    BY AvailableType, Constants DEF FileSize, ReturnRc, Rcs, Errors, File
  <1> QED
    BY <1>1, <1>2, HandleKept, ReturnBase, EmptyType DEF BaseInv, TypeOK

LEMMA CloseBase == ASSUME BaseInv, CloseClose PROVE BaseInv'
  <1>1. LinuxType' /\ GhostType'
    BY Constants DEF CloseClose, BaseInv, TypeOK, LinuxType, GhostType, ghost
  <1>2. HandleType' /\ nBuffer' = 0 /\ iBufferOfst' = 0
    BY Constants, EmptyType DEF CloseClose, HandleType
  <1>3. rc \in Rcs /\ ReturnRc(rc)
    BY DEF CloseClose, BaseInv, TypeOK, FrameType, Rcs, Errors
  <1> QED
    BY <1>1, <1>2, <1>3, ReturnRcBase, Constants DEF BaseInv, TypeOK

\* A crash of either kind.
LEMMA CrashBase == ASSUME BaseInv, TaPanic \/ PowerLoss PROVE BaseInv'
  <1>1. HandleGone
    BY DEF TaPanic, PowerLoss
  <1>2. disk' \in File /\ durable' \in File /\ file' \in File /\ unsynced' \subseteq Offsets
    <2>1. CASE TaPanic
      BY <2>1 DEF TaPanic, BaseInv, TypeOK, LinuxType, GhostType
    <2>2. CASE PowerLoss
      <3>1. PICK old \in SUBSET Offsets, size \in {durable.size, disk.size} :
               disk' = [data |-> [o \in Offsets |->
                                     IF o >= size THEN Zero
                                     ELSE IF o \in old THEN durable.data[o]
                                     ELSE disk.data[o]],
                        size |-> size]
        BY <2>2 DEF PowerLoss
      <3>2. disk' \in File
        BY <3>1, Constants DEF File, BaseInv, TypeOK, LinuxType
      <3> QED
        BY <3>2, <2>2 DEF PowerLoss
    <2> QED
      BY <2>1, <2>2
  <1>3. LinuxType' /\ GhostType'
    BY <1>1, <1>2, Constants DEF HandleGone, LinuxType, GhostType
  <1>4. HandleType' /\ nBuffer' = 0 /\ iBufferOfst' = 0
    BY <1>1, Constants, EmptyType DEF HandleGone, HandleType
  <1>5. Return("OK", NoData, 0)
    BY <1>1 DEF HandleGone, Return, NoReply
  <1>6. FrameType' /\ ReplyType' /\ FrameInv' /\ CopyAsserts'
    BY <1>4, <1>5, ReturnBase, EmptyType, Constants DEF Rcs
  <1> QED
    BY <1>3, <1>4, <1>6 DEF BaseInv, TypeOK

LEMMA NextBase == BaseInv /\ [Next]_vars => BaseInv'
  <1> SUFFICES ASSUME BaseInv, [Next]_vars PROVE BaseInv'
    OBVIOUS
  <1>1. CASE UNCHANGED vars
    <2>1. TypeOK'
      BY <1>1
      DEF vars, linux, handle, frame, ghost, BaseInv, TypeOK, LinuxType, HandleType,
          FrameType, ReplyType, GhostType
    <2>2. FrameInv' /\ CopyAsserts'
      BY <1>1
      DEF vars, linux, handle, frame, ghost, BaseInv, FrameInv, CopyAsserts, opened,
          hasBuffer, iNow, nCopy
    <2> QED
      BY <2>1, <2>2 DEF BaseInv
  <1>2. CASE Method
    BY <1>2, OpenBase, FlushFirstBase, WriteBase DEF Method
  <1>3. CASE Step
    BY <1>3, CopyBase, WriteLseekBase, WriteWriteBase, ReadLseekBase, ReadReadBase,
       FsyncBase, FileSizeBase, CloseBase DEF Step
  <1>4. CASE TaPanic \/ PowerLoss
    BY <1>4, CrashBase
  <1> QED
    BY <1>1, <1>2, <1>3, <1>4 DEF Next

\* BaseInv is an invariant, whether RPCs fail or not.
LEMMA BaseInvariant == Spec => []BaseInv
  BY InitBase, NextBase, PTL DEF Spec

\* The handle and the method under way stay well typed: every offset, length and
\* index of tee_vfs.c stays in range, whatever the normal world answers.
THEOREM TypeCorrect == Spec => []TypeOK
  <1>1. BaseInv => TypeOK
    BY DEF BaseInv
  <1> QED
    BY <1>1, BaseInvariant, PTL

\* demoWrite's assertion at tee_vfs.c:190 cannot fail, the memcpy after it stays
\* inside aBuffer and every turn of the loop copies at least one byte, whatever
\* the normal world answers.
THEOREM CopyAssertsHold == Spec => []CopyAsserts
  <1>1. BaseInv => CopyAsserts
    BY DEF BaseInv
  <1> QED
    BY <1>1, BaseInvariant, PTL

-----------------------------------------------------------------------------
(***************************************************************************)
(* Coherence and durability, when no RPC fails.                            *)
(***************************************************************************)

\* Pending, byte by byte.
PendByte(o) ==
    IF o \in Extent(iNow, n) THEN zBuf[o - call.iOfst]
    ELSE IF o \in Extent(iBufferOfst, nBuffer) THEN aBuffer[o - iBufferOfst]
    ELSE disk.data[o]

\* Its length.
BufSize ==
    IF nBuffer > 0 /\ iBufferOfst + nBuffer > disk.size THEN iBufferOfst + nBuffer
                                                        ELSE disk.size
PendSize == IF n > 0 /\ iNow + n > BufSize THEN iNow + n ELSE BufSize

CoherentBytes == \A o \in Offsets \ lost : PendByte(o) = file.data[o]
CoherentSize == /\ PendSize <= file.size
                /\ PendSize < file.size => file.size - 1 \in lost

\* Nothing lies in no bytes.
LEMMA ExtentEmpty == ASSUME NEW x \in Int PROVE Extent(x, 0) = {}
  BY Constants DEF Extent, Offsets

LEMMA PendingIs ==
    BaseInv => /\ \A o \in Offsets : Pending.data[o] = PendByte(o)
               /\ Pending.size = PendSize
  <1> SUFFICES ASSUME BaseInv
               PROVE  /\ \A o \in Offsets : Pending.data[o] = PendByte(o)
                      /\ Pending.size = PendSize
    OBVIOUS
  <1>1. iNow \in Int /\ n \in Nat /\ call.iOfst \in Int /\ call.iAmt \in Int
    BY Constants DEF BaseInv, TypeOK, FrameType, Calls, iNow
  <1>2. ASSUME NEW o \in Offsets PROVE Pending.data[o] = PendByte(o)
    <2>1. CASE o \in Extent(iNow, n)
      <3>1. o - iNow \in 0 .. n - 1 /\ zNow + (o - iNow) = o - call.iOfst
        BY <1>1, <2>1, Constants DEF Extent, Offsets, zNow, iNow
      <3>2. Pending.data[o] = zBuf[zNow + (o - iNow)]
        BY <2>1, <3>1 DEF Pending, Put
      <3> QED
        BY <3>1, <3>2, <2>1 DEF PendByte
    <2>2. CASE o \notin Extent(iNow, n)
      BY <2>2 DEF Pending, Buffered, Put, PendByte
    <2> QED
      BY <2>1, <2>2
  <1>3. Pending.size = PendSize
    BY DEF Pending, Buffered, Put, PendSize, BufSize
  <1> QED
    BY <1>2, <1>3

LEMMA CoherentIs == BaseInv => (Coherent <=> CoherentBytes /\ CoherentSize)
  BY PendingIs DEF Coherent, CoherentBytes, CoherentSize

\* The inductive invariant.
SafeInv == BaseInv /\ WriteAtOffset /\ CoherentBytes /\ CoherentSize /\ CacheInv

LEMMA InitSafe == Init => SafeInv
  <1> SUFFICES ASSUME Init PROVE SafeInv
    OBVIOUS
  <1>1. BaseInv
    BY InitBase
  <1>2. WriteAtOffset
    BY DEF Init, WriteAtOffset
  <1>3. iNow = 0 /\ n = 0
    BY DEF Init, iNow, NoCall
  <1>4. CoherentBytes /\ CoherentSize
    BY <1>3, ExtentEmpty, Constants
    DEF Init, CoherentBytes, CoherentSize, PendByte, PendSize, BufSize, EmptyFile, Offsets
  <1>5. CacheInv
    BY <1>3, ExtentEmpty DEF Init, CacheInv
  <1> QED
    BY <1>1, <1>2, <1>4, <1>5 DEF SafeInv

\* Steps that leave the file, the buffer and the promise to SQLite alone.
LEMMA Quiet ==
    ASSUME SafeInv, BaseInv', UNCHANGED <<disk, nBuffer, file, lost>>,
           nBuffer = 0 \/ UNCHANGED <<aBuffer, iBufferOfst>>,
           (n = 0 /\ n' = 0) \/ UNCHANGED <<n, call, zBuf>>
    PROVE  /\ CoherentBytes' /\ CoherentSize'
           /\ Extent(iBufferOfst, nBuffer)' = Extent(iBufferOfst, nBuffer)
           /\ Extent(iNow, n)' = Extent(iNow, n)
  <1>1. iNow \in Int /\ iBufferOfst \in Int /\ iNow' \in Int /\ iBufferOfst' \in Int
    BY Constants DEF SafeInv, BaseInv, TypeOK, HandleType, FrameType, Calls, iNow
  <1>2. n' = n /\ (n = 0 \/ UNCHANGED <<iNow, call, zBuf>>)
    BY DEF iNow
  <1>3. Extent(iNow, n)' = Extent(iNow, n)
    BY <1>1, <1>2, ExtentEmpty
  <1>4. Extent(iBufferOfst, nBuffer)' = Extent(iBufferOfst, nBuffer)
    BY <1>1, ExtentEmpty
  <1>5. \A o \in Offsets : PendByte(o)' = PendByte(o)
    BY <1>1, <1>2, <1>3, <1>4, ExtentEmpty DEF PendByte
  <1>6. PendSize' = PendSize
    BY <1>2 DEF PendSize, BufSize
  <1>7. CoherentBytes' /\ CoherentSize'
    BY <1>5, <1>6 DEF SafeInv, CoherentBytes, CoherentSize
  <1> QED
    BY <1>3, <1>4, <1>7

\* Quiet steps that leave stable storage alone too, or make it equal to the cache.
LEMMA QuietSafe ==
    ASSUME SafeInv, BaseInv', UNCHANGED <<disk, nBuffer, file, lost>>,
           nBuffer = 0 \/ UNCHANGED <<aBuffer, iBufferOfst>>,
           (n = 0 /\ n' = 0) \/ UNCHANGED <<n, call, zBuf>>,
           WriteAtOffset',
           \/ UNCHANGED <<durable, unsynced>>
           \/ durable' = disk /\ nBuffer = 0 /\ n = 0
    PROVE  SafeInv'
  <1>1. /\ CoherentBytes' /\ CoherentSize'
        /\ Extent(iBufferOfst, nBuffer)' = Extent(iBufferOfst, nBuffer)
        /\ Extent(iNow, n)' = Extent(iNow, n)
    BY Quiet
  <1>2. CASE UNCHANGED <<durable, unsynced>>
    <2>1. CacheInv'
      BY <1>1, <1>2 DEF SafeInv, CacheInv
    <2> QED
      BY <1>1, <2>1 DEF SafeInv
  <1>3. CASE durable' = disk /\ nBuffer = 0 /\ n = 0
    <2>1. iNow \in Int /\ iBufferOfst \in Int
      BY Constants DEF SafeInv, BaseInv, TypeOK, HandleType, FrameType, Calls, iNow
    <2>2. CacheInv'
      BY <1>1, <1>3, <2>1, ExtentEmpty DEF CacheInv
    <2> QED
      BY <1>1, <2>2 DEF SafeInv
  <1> QED
    BY <1>2, <1>3

\* When no method is under way, none has bytes left to write.
LEMMA IdleN == ASSUME BaseInv, pc = "idle" PROVE n = 0
  BY DEF BaseInv, FrameInv

\* A return from a method with nothing left to write.
LEMMA ReturnFrame ==
    ASSUME NEW r, NEW out, NEW size, Return(r, out, size)
    PROVE  n' = 0 /\ WriteAtOffset'
  BY DEF Return, WriteAtOffset

LEMMA OpenSafe == ASSUME SafeInv, demoOpen \/ demoTruncate \/ NoOpMethod PROVE SafeInv'
  <1>1. BaseInv'
    BY OpenBase DEF SafeInv
  <1>2. n = 0
    BY IdleN DEF SafeInv, demoOpen, demoTruncate, NoOpMethod
  <1>3. n' = 0 /\ WriteAtOffset'
    BY ReturnFrame DEF demoOpen, demoTruncate, NoOpMethod, ReturnRc
  <1>4. UNCHANGED <<disk, durable, file, unsynced, lost>>
    BY DEF demoOpen, demoTruncate, NoOpMethod, linux, ghost
  <1>5. CASE UNCHANGED handle
    BY <1>1, <1>2, <1>3, <1>4, <1>5, QuietSafe DEF handle
  <1>6. CASE ~opened /\ nBuffer' = 0
    <2>1. nBuffer = 0
      BY <1>6 DEF SafeInv, BaseInv, TypeOK, HandleType, FrameInv, opened, hasBuffer
    <2> QED
      BY <1>1, <1>2, <1>3, <1>4, <1>6, <2>1, QuietSafe
  <1> QED
    BY <1>5, <1>6 DEF demoOpen, demoTruncate, NoOpMethod

LEMMA EnterSafe ==
    ASSUME SafeInv, BaseInv', NEW c, c.op \in Ops, Enter(c)
    PROVE  SafeInv'
  <1>1. n = 0
    BY IdleN DEF SafeInv, Enter
  <1>2. n' = 0 /\ UNCHANGED <<disk, durable, handle, file, unsynced, lost>>
    BY <1>1 DEF Enter, linux, ghost
  <1>3. WriteAtOffset'
    BY DEF Enter, WriteAtOffset, AfterFlush, Ops
  <1> QED
    BY <1>1, <1>2, <1>3, QuietSafe DEF handle

LEMMA FlushFirstSafe ==
    ASSUME SafeInv, demoRead \/ demoSync \/ demoFileSize \/ demoClose
    PROVE  SafeInv'
  <1>1. BaseInv'
    BY FlushFirstBase DEF SafeInv
  <1>2. \E c : c.op \in Ops /\ Enter(c)
    <2>1. CASE demoRead
      <3>1. PICK iAmt \in 1 .. MaxOfst, iOfst \in Offsets :
               Enter([op |-> "read", iAmt |-> iAmt, iOfst |-> iOfst])
        BY <2>1 DEF demoRead
      <3> QED
        BY <3>1 DEF Ops
    <2> QED
      BY <2>1 DEF demoSync, demoFileSize, demoClose, Ops
  <1> QED
    BY <1>1, <1>2, EnterSafe

LEMMA ReadSafe ==
    ASSUME SafeInv, ReadLseek \/ ReadRead \/ FileSize \/ Fsync \/ CloseClose,
           RpcFaults = FALSE
    PROVE  SafeInv'
  <1>1. BaseInv'
    BY ReadLseekBase, ReadReadBase, FileSizeBase, FsyncBase, CloseBase DEF SafeInv
  <1>2. n = 0 /\ nBuffer = 0
    BY DEF SafeInv, BaseInv, FrameInv, ReadLseek, ReadRead, FileSize, Fsync, CloseClose
  <1>3. n' = 0 /\ WriteAtOffset'
    <2>1. CASE pc' = "rd_read" /\ n' = n
      BY <2>1, <1>2 DEF WriteAtOffset
    <2>2. CASE \E r, out, size : Return(r, out, size)
      BY <2>2, ReturnFrame
    <2> QED
      BY <2>1, <2>2 DEF ReadLseek, ReadRead, FileSize, Fsync, CloseClose, ReturnRc
  <1>4. UNCHANGED <<disk, file, lost>> /\ nBuffer' = 0
    BY <1>2 DEF ReadLseek, ReadRead, FileSize, Fsync, CloseClose, linux, ghost, handle
  <1>5. UNCHANGED <<durable, unsynced>> \/ durable' = disk
    BY DEF ReadLseek, ReadRead, FileSize, Fsync, CloseClose, linux, ghost
  <1> QED
    BY <1>1, <1>2, <1>3, <1>4, <1>5, QuietSafe

\* demoWrite takes charge of its bytes.
LEMMA WriteSafe == ASSUME SafeInv, demoWrite PROVE SafeInv'
  <1>1. BaseInv'
    BY WriteBase DEF SafeInv
  <1>2. PICK iAmt \in 1 .. MaxOfst, iOfst \in Offsets, z \in Payloads :
           /\ iOfst + iAmt <= MaxOfst
           /\ zBuf' = z /\ file' = Put(file, iOfst, z, iAmt)
           /\ call' = [op |-> "write", iAmt |-> iAmt, iOfst |-> iOfst]
           /\ n' = iAmt
           /\ pc' = IF ~hasBuffer \/ NeedFlush(nBuffer, iBufferOfst, iOfst)
                    THEN "dw_lseek" ELSE "copy"
           /\ unsynced' = unsynced \cup Extent(iOfst, iAmt)
           /\ lost' = lost \ Extent(iOfst, iAmt)
    BY DEF demoWrite
  <1>3. n = 0 /\ UNCHANGED <<disk, durable, aBuffer, nBuffer, iBufferOfst>>
    BY IdleN DEF SafeInv, demoWrite, linux, handle
  <1>4. iAmt \in Nat /\ iOfst \in Nat /\ iAmt > 0 /\ iNow \in Int
    BY Constants DEF Offsets, SafeInv, BaseInv, TypeOK, FrameType, Calls, iNow
  <1>5. iNow' = iOfst
    BY <1>2, <1>4 DEF iNow
  <1>6. WriteAtOffset'
    BY <1>2 DEF WriteAtOffset
  <1>7. CoherentBytes'
    <2> SUFFICES ASSUME NEW o \in Offsets, o \notin lost' PROVE PendByte(o)' = file'.data[o]
      BY DEF CoherentBytes
    <2>1. CASE o \in Extent(iOfst, iAmt)
      BY <2>1, <1>2, <1>5 DEF PendByte, Put
    <2>2. CASE o \notin Extent(iOfst, iAmt)
      <3>1. PendByte(o)' = PendByte(o)
        BY <2>2, <1>2, <1>3, <1>4, <1>5, ExtentEmpty DEF PendByte
      <3>2. PendByte(o) = file.data[o]
        BY <2>2, <1>2 DEF SafeInv, CoherentBytes
      <3>3. file'.data[o] = file.data[o]
        BY <2>2, <1>2 DEF Put
      <3> QED
        BY <3>1, <3>2, <3>3
    <2> QED
      BY <2>1, <2>2
  <1>8. CoherentSize'
    <2>1. PendSize = BufSize /\ BufSize' = BufSize /\ BufSize \in Nat /\ file.size \in Nat
      BY <1>3, Constants
      DEF PendSize, BufSize, SafeInv, BaseInv, TypeOK, LinuxType, HandleType, GhostType, File
    <2>2. PendSize' = IF iOfst + iAmt > BufSize THEN iOfst + iAmt ELSE BufSize
      BY <2>1, <1>2, <1>4, <1>5 DEF PendSize
    <2>3. file'.size = IF iOfst + iAmt > file.size THEN iOfst + iAmt ELSE file.size
      BY <1>2, <1>4 DEF Put
    <2>4. BufSize <= file.size /\ (BufSize < file.size => file.size - 1 \in lost)
      BY <2>1 DEF SafeInv, CoherentSize
    <2>5. \A o \in Extent(iOfst, iAmt) : o < iOfst + iAmt
      BY DEF Extent
    <2>6. PendSize' <= file'.size
      BY <2>1, <2>2, <2>3, <2>4, <1>4
    <2>7. ASSUME PendSize' < file'.size PROVE file'.size - 1 \in lost'
      <3>1. file'.size = file.size /\ iOfst + iAmt < file.size /\ BufSize < file.size
        BY <2>7, <2>1, <2>2, <2>3, <2>4, <1>4
      <3>2. file.size - 1 \notin Extent(iOfst, iAmt)
        BY <3>1, <2>1, <2>5, <1>4
      <3> QED
        BY <3>1, <3>2, <2>4, <1>2
    <2> QED
      BY <2>6, <2>7 DEF CoherentSize
  <1>9. CacheInv'
    BY <1>2, <1>3, <1>5 DEF SafeInv, CacheInv
  <1> QED
    BY <1>1, <1>6, <1>7, <1>8, <1>9 DEF SafeInv

\* A turn of the copy loop moves bytes from the caller to the buffer, and the file
\* they make up stays the same.
LEMMA CopySafe == ASSUME SafeInv, Copy PROVE SafeInv'
  <1> USE Constants
  <1>1. BaseInv'
    BY CopyBase DEF SafeInv
  <1>2. /\ nBuffer \in Nat /\ n \in Nat /\ nCopy \in 1 .. n /\ nBuffer + nCopy <= BUFFERSZ
        /\ nBuffer = 0 \/ iBufferOfst + nBuffer = iNow
        /\ iNow \in Nat /\ iNow + n <= MaxOfst /\ iBufferOfst \in Nat
        /\ call.iOfst \in Nat /\ call.iAmt \in Nat
    BY DEF SafeInv, BaseInv, TypeOK, HandleType, FrameType, Calls, FrameInv, CopyAsserts,
           Copy, hasBuffer, iNow, nCopy
  <1>3. iNow - nBuffer \in Nat
    BY <1>2
  <1>4. /\ UNCHANGED <<disk, durable, file, unsynced, lost>>
        /\ iBufferOfst' = iNow - nBuffer /\ nBuffer' = nBuffer + nCopy
        /\ aBuffer' = [k \in 0 .. BUFFERSZ - 1 |->
                          IF nBuffer <= k /\ k < nBuffer + nCopy
                          THEN zBuf[zNow + k - nBuffer] ELSE aBuffer[k]]
    BY DEF Copy, linux, ghost
  <1>5. \/ n' = 0 /\ nCopy = n /\ iNow' = 0
        \/ n' = n - nCopy /\ iNow' = iNow + nCopy /\ UNCHANGED <<call, zBuf>>
    <2>1. CASE nCopy = n
      BY <2>1 DEF Copy, ReturnRc, Return, NoCall, iNow
    <2>2. CASE nCopy # n
      <3>1. n' = n - nCopy /\ UNCHANGED <<call, zBuf>>
        BY <2>2 DEF Copy
      <3>2. iNow' = iNow + nCopy
        BY <3>1, <1>2 DEF iNow
      <3> QED
        BY <3>1, <3>2
    <2> QED
      BY <2>1, <2>2
  <1>6. WriteAtOffset'
    BY <1>2 DEF Copy, ReturnRc, Return, WriteAtOffset
  <1> DEFINE Moved == Extent(iNow, nCopy)
             Left == Extent(iNow + nCopy, n - nCopy)
  <1>7. /\ Extent(iNow', n') = Left
        /\ Extent(iNow', n') # {} => UNCHANGED <<call, zBuf>>
    <2>1. CASE n' = 0 /\ nCopy = n /\ iNow' = 0
      BY <2>1, <1>2, ExtentEmpty
    <2>2. CASE n' = n - nCopy /\ iNow' = iNow + nCopy /\ UNCHANGED <<call, zBuf>>
      BY <2>2
    <2> QED
      BY <1>5, <2>1, <2>2
  <1>8. Extent(iNow, n) = Moved \cup Left /\ Moved \cap Left = {}
    BY <1>2 DEF Extent, Offsets
  <1>9. Extent(iBufferOfst', nBuffer') = Extent(iBufferOfst, nBuffer) \cup Moved
    <2>1. Extent(iNow - nBuffer, nBuffer + nCopy) = Extent(iBufferOfst, nBuffer) \cup Moved
      BY <1>2 DEF Extent, Offsets
    <2> QED
      BY <2>1, <1>4
  <1>10. ASSUME NEW o \in Extent(iBufferOfst, nBuffer) PROVE o \notin Extent(iNow, n)
    <2>1. CASE nBuffer = 0
      BY <2>1, <1>2, ExtentEmpty, <1>10
    <2>2. CASE iBufferOfst + nBuffer = iNow
      BY <2>2, <1>2, <1>10 DEF Extent, Offsets
    <2> QED
      BY <2>1, <2>2, <1>2
  <1>11. CoherentBytes'
    <2> SUFFICES ASSUME NEW o \in Offsets PROVE PendByte(o)' = PendByte(o)
      BY <1>4 DEF SafeInv, CoherentBytes
    <2>1. CASE o \in Left
      BY <2>1, <1>7, <1>8 DEF PendByte
    <2>2. CASE o \in Moved
      <3>1. PICK k \in 0 .. BUFFERSZ - 1 :
               k = o - (iNow - nBuffer) /\ nBuffer <= k /\ k < nBuffer + nCopy
        BY <2>2, <1>2 DEF Extent, Offsets
      <3>2. o \in Nat /\ k \in Nat /\ zNow = iNow - call.iOfst
        BY <1>2 DEF zNow, iNow, Offsets
      <3>3. zNow + k - nBuffer = o - call.iOfst
        BY <3>1, <3>2, <1>2
      <3>4. aBuffer'[k] = zBuf[zNow + k - nBuffer]
        BY <3>1, <1>4
      <3>5. aBuffer'[o - iBufferOfst'] = zBuf[o - call.iOfst]
        BY <3>1, <3>3, <3>4, <1>4
      <3> QED
        BY <2>2, <3>5, <1>7, <1>8, <1>9 DEF PendByte
    <2>3. CASE o \in Extent(iBufferOfst, nBuffer)
      <3>1. iBufferOfst' = iBufferOfst
        BY <2>3, <1>2, <1>4, ExtentEmpty
      <3>2. o - iBufferOfst \in 0 .. nBuffer - 1 /\ o - iBufferOfst \in 0 .. BUFFERSZ - 1
        BY <2>3, <1>2 DEF Extent, Offsets
      <3>3. aBuffer'[o - iBufferOfst] = aBuffer[o - iBufferOfst]
        BY <3>2, <1>2, <1>4
      <3>4. o \notin Left /\ o \notin Extent(iNow, n)
        BY <2>3, <1>8, <1>10
      <3> QED
        BY <2>3, <3>1, <3>3, <3>4, <1>7, <1>9 DEF PendByte
    <2>4. CASE o \notin Left \cup Moved \cup Extent(iBufferOfst, nBuffer)
      BY <2>4, <1>4, <1>7, <1>8, <1>9 DEF PendByte
    <2> QED
      BY <2>1, <2>2, <2>3, <2>4
  <1>12. CoherentSize'
    <2>1. disk.size \in Nat
      BY DEF SafeInv, BaseInv, TypeOK, LinuxType, File
    <2>2. BufSize' = IF iNow + nCopy > disk.size THEN iNow + nCopy ELSE disk.size
      <3>1. nBuffer' > 0 /\ iBufferOfst' + nBuffer' = iNow + nCopy
        BY <1>2, <1>4
      <3> QED
        BY <3>1, <1>4 DEF BufSize
    <2>3. PendSize = IF iNow + n > disk.size THEN iNow + n ELSE disk.size
      BY <2>1, <1>2 DEF PendSize, BufSize
    <2>4. PendSize' = PendSize
      <3>1. CASE n' = 0 /\ nCopy = n
        BY <3>1, <2>1, <2>2, <2>3, <1>2 DEF PendSize
      <3>2. CASE n' = n - nCopy /\ iNow' = iNow + nCopy
        <4>1. iNow' + n' = iNow + n /\ iNow + nCopy + (n - nCopy) = iNow + n
          BY <3>2, <1>2
        <4>2. PendSize' = IF n - nCopy > 0 /\ iNow + n > BufSize' THEN iNow + n ELSE BufSize'
          BY <3>2, <4>1 DEF PendSize
        <4> QED
          BY <4>2, <2>1, <2>2, <2>3, <1>2
      <3> QED
        BY <3>1, <3>2, <1>5
    <2> QED
      BY <2>4, <1>4 DEF SafeInv, CoherentSize
  <1>13. CacheInv'
    BY <1>4, <1>7, <1>8, <1>9 DEF SafeInv, CacheInv
  <1> QED
    BY <1>1, <1>6, <1>11, <1>12, <1>13 DEF SafeInv

\* What demoDirectWrite writes: the whole buffer, or all of a direct write.
LEMMA DwIs ==
    ASSUME BaseInv, pc \in {"dw_lseek", "dw_write"}
    PROVE  \/ /\ hasBuffer /\ dwOfst = iBufferOfst /\ dwAmt = nBuffer /\ dwData = aBuffer
              /\ nBuffer > 0
           \/ /\ ~hasBuffer /\ dwOfst = iNow /\ dwAmt = n /\ dwData = zBuf /\ nBuffer = 0
              /\ iNow = call.iOfst /\ n > 0 /\ call.op = "write"
  <1>1. CASE hasBuffer
    BY <1>1 DEF BaseInv, FrameInv, dwOfst, dwAmt, dwData
  <1>2. CASE ~hasBuffer
    <2>1. call.op = "write" /\ n = call.iAmt
      BY <1>2 DEF BaseInv, FrameInv
    <2>2. iNow = call.iOfst
      BY <2>1, Constants DEF iNow, BaseInv, TypeOK, FrameType, Calls
    <2>3. n > 0 /\ nBuffer = 0
      BY <1>2, <2>1 DEF BaseInv, FrameInv, TypeOK, HandleType
    <2> QED
      BY <1>2, <2>1, <2>2, <2>3 DEF dwOfst, dwAmt, dwData
  <1> QED
    BY <1>1, <1>2

\* A failed write, of which Linux has stored k bytes (of which k = 0 is the lseek
\* that failed): what may have changed is disowned.
LEMMA FailedSafe ==
    ASSUME SafeInv, BaseInv', pc \in {"dw_lseek", "dw_write"}, WriteFailed,
           NEW k \in 0 .. dwAmt, disk' = Put(disk, dwOfst, dwData, k),
           UNCHANGED <<durable, iBufferOfst>>
    PROVE  SafeInv'
  <1> USE Constants
  <1> DEFINE D == Extent(dwOfst, dwAmt)
             R == Extent(iNow, n)
  <1>1. /\ dwOfst \in Nat /\ dwAmt \in Nat /\ k \in Nat /\ n \in Nat /\ iNow \in Nat
        /\ dwOfst + dwAmt <= MaxOfst /\ iNow + n <= MaxOfst
        /\ nBuffer \in Nat /\ iBufferOfst \in Nat /\ disk.size \in Nat /\ file.size \in Nat
    BY DwType DEF SafeInv, BaseInv, TypeOK, FrameType, HandleType, LinuxType, GhostType, File
  <1>2. /\ nBuffer' = 0 /\ lost' = lost \cup D \cup R
        /\ UNCHANGED <<file, unsynced>>
    BY DEF WriteFailed
  <1>3. n' = 0 /\ iNow' \in Int /\ iBufferOfst' \in Int
    <2>1. n' = 0
      BY DEF WriteFailed, ReturnRc, Return, SafeInv, BaseInv, FrameInv
    <2>2. iNow' \in Int /\ iBufferOfst' \in Int
      BY DEF BaseInv, TypeOK, FrameType, HandleType, Calls, iNow
    <2> QED
      BY <2>1, <2>2
  <1>4. WriteAtOffset'
    BY DEF WriteFailed, ReturnRc, Return, WriteAtOffset
  <1>5. Extent(dwOfst, k) \subseteq D
    BY <1>1 DEF Extent, Offsets
  <1>6. Extent(iBufferOfst, nBuffer) \subseteq D
    BY <1>1, DwIs, ExtentEmpty DEF SafeInv
  <1>7. D \subseteq unsynced
    BY DwIs DEF SafeInv, CacheInv
  <1>8. Extent(iNow', n') = {} /\ Extent(iBufferOfst', nBuffer') = {}
    BY <1>2, <1>3, ExtentEmpty
  <1>9. \A o \in Offsets : o \notin D => disk'.data[o] = disk.data[o]
    BY <1>5 DEF Put
  <1>10. CoherentBytes'
    <2> SUFFICES ASSUME NEW o \in Offsets, o \notin lost' PROVE PendByte(o)' = file'.data[o]
      BY DEF CoherentBytes
    <2>1. PendByte(o)' = disk'.data[o]
      BY <1>8 DEF PendByte
    <2>2. o \notin lost /\ o \notin D /\ o \notin R
      BY <1>2
    <2>3. PendByte(o) = disk.data[o]
      BY <2>2, <1>6 DEF PendByte
    <2> QED
      BY <2>1, <2>2, <2>3, <1>2, <1>9 DEF SafeInv, CoherentBytes
  <1>11. CoherentSize'
    <2>1. PendSize' = disk'.size
      BY <1>2, <1>3 DEF PendSize, BufSize
    <2>2. disk'.size = IF k > 0 /\ dwOfst + k > disk.size THEN dwOfst + k ELSE disk.size
      BY DEF Put
    <2>3. /\ PendSize \in Nat /\ dwOfst + dwAmt <= PendSize /\ disk.size <= PendSize
          /\ PendSize \in {disk.size, dwOfst + dwAmt, iNow + n}
          /\ PendSize = iNow + n => n > 0 \/ PendSize \in {disk.size, dwOfst + dwAmt}
      <3>1. CASE hasBuffer
        BY <3>1, <1>1, DwIs DEF SafeInv, PendSize, BufSize
      <3>2. CASE ~hasBuffer
        BY <3>2, <1>1, DwIs DEF SafeInv, PendSize, BufSize
      <3> QED
        BY <3>1, <3>2
    <2>4. disk'.size <= PendSize /\ disk.size <= disk'.size /\ disk'.size \in Nat
      BY <2>2, <2>3, <1>1
    <2>5. PendSize <= file.size /\ (PendSize < file.size => file.size - 1 \in lost)
      BY DEF SafeInv, CoherentSize
    <2>6. disk'.size <= file.size
      BY <2>3, <2>4, <2>5, <1>1
    <2>7. ASSUME disk'.size < file.size PROVE file.size - 1 \in lost'
      <3>1. CASE PendSize < file.size
        BY <3>1, <2>5, <1>2
      <3>2. CASE PendSize = file.size
        <4>1. PendSize # disk.size
          BY <3>2, <2>4, <2>7, <1>1
        <4>2. CASE PendSize = dwOfst + dwAmt
          <5>1. dwAmt > 0
            BY DwType DEF SafeInv
          <5>2. file.size - 1 \in D
            BY <3>2, <4>2, <5>1, <1>1 DEF Extent, Offsets
          <5> QED
            BY <5>2, <1>2
        <4>3. CASE PendSize = iNow + n /\ n > 0
          <5>1. file.size - 1 \in R
            BY <3>2, <4>3, <1>1 DEF Extent, Offsets
          <5> QED
            BY <5>1, <1>2
        <4> QED
          BY <4>1, <4>2, <4>3, <2>3
      <3> QED
        BY <3>1, <3>2, <2>3, <2>5, <1>1
    <2> QED
      BY <2>1, <2>6, <2>7, <1>2 DEF CoherentSize
  <1>12. CacheInv'
    <2>1. \A o \in Offsets \ unsynced' : disk'.data[o] = durable'.data[o]
      BY <1>2, <1>7, <1>9 DEF SafeInv, CacheInv
    <2> QED
      BY <2>1, <1>8 DEF CacheInv
  <1> QED
    BY <1>4, <1>10, <1>11, <1>12 DEF SafeInv

\* Writing no bytes changes nothing.
LEMMA PutNone ==
    ASSUME NEW f \in File, NEW ofst \in Nat, NEW z
    PROVE  Put(f, ofst, z, 0) = f
  <1>1. Put(f, ofst, z, 0) = [data |-> [o \in Offsets |-> f.data[o]], size |-> f.size]
    BY ExtentEmpty DEF Put
  <1>2. f = [data |-> f.data, size |-> f.size] /\ f.data = [o \in Offsets |-> f.data[o]]
    BY DEF File
  <1> QED
    BY <1>1, <1>2

LEMMA WriteLseekSafe == ASSUME SafeInv, WriteLseek, RpcFaults = FALSE PROVE SafeInv'
  <1>1. BaseInv'
    BY WriteLseekBase DEF SafeInv
  <1>2. pc = "dw_lseek" /\ UNCHANGED <<disk, durable, kind, fd, aBuffer, iBufferOfst>>
    BY DEF WriteLseek
  <1>3. CASE WriteFailed
    <2>1. disk' = Put(disk, dwOfst, dwData, 0) /\ 0 \in 0 .. dwAmt
      BY <1>2, PutNone, DwType DEF SafeInv, BaseInv, TypeOK, LinuxType
    <2> QED
      BY <1>1, <1>2, <1>3, <2>1, FailedSafe
  <1>4. CASE /\ pos' = dwOfst
             /\ UNCHANGED <<call, zBuf, n, rc, reply, nBuffer, ghost>>
    <2>1. WriteAtOffset'
      BY <1>2, <1>4 DEF WriteAtOffset, dwOfst, hasBuffer
    <2> QED
      BY <1>1, <1>2, <1>4, <2>1, QuietSafe DEF ghost
  <1> QED
    BY <1>3, <1>4 DEF WriteLseek

\* A write that succeeds moves its bytes from the buffer, or from the caller, to
\* the page cache.
LEMMA DoneSafe ==
    ASSUME SafeInv, BaseInv', pc = "dw_write", WriteDone,
           disk' = Put(disk, dwOfst, dwData, dwAmt), UNCHANGED <<durable, iBufferOfst>>
    PROVE  SafeInv'
  <1> USE Constants
  <1> DEFINE D == Extent(dwOfst, dwAmt)
  <1>1. /\ dwOfst \in Nat /\ dwAmt \in Nat /\ dwAmt > 0 /\ n \in Nat /\ iNow \in Nat
        /\ iBufferOfst \in Nat /\ nBuffer \in Nat /\ disk.size \in Nat
    BY DwType DEF SafeInv, BaseInv, TypeOK, FrameType, HandleType, LinuxType, File
  <1>2. nBuffer' = 0 /\ UNCHANGED <<file, unsynced, lost>>
    BY DEF WriteDone, ghost
  <1>3. iNow' \in Int /\ iBufferOfst' \in Int
    BY DEF BaseInv, TypeOK, FrameType, HandleType, Calls, iNow
  <1>4. Extent(iBufferOfst', nBuffer') = {}
    BY <1>2, <1>3, ExtentEmpty
  <1>5. \A o \in Offsets : disk'.data[o] = IF o \in D THEN dwData[o - dwOfst]
                                                      ELSE disk.data[o]
    BY DEF Put
  <1>6. disk'.size = IF dwOfst + dwAmt > disk.size THEN dwOfst + dwAmt ELSE disk.size
    BY <1>1 DEF Put
  <1>7. BufSize' = disk'.size
    BY <1>2 DEF BufSize
  <1>8. CASE hasBuffer
    <2>1. UNCHANGED <<call, zBuf, n, iNow>> /\ pc' = AfterFlush(call.op)
      BY <1>8 DEF WriteDone, iNow
    <2>2. dwOfst = iBufferOfst /\ dwAmt = nBuffer /\ dwData = aBuffer /\ nBuffer > 0
      BY <1>8, DwIs DEF SafeInv
    <2>3. WriteAtOffset'
      <3>1. call.op \in Ops
        BY DEF SafeInv, BaseInv, TypeOK, FrameType, Calls, FrameInv
      <3> QED
        BY <2>1, <3>1 DEF WriteAtOffset, AfterFlush, Ops
    <2>4. \A o \in Offsets : PendByte(o)' = PendByte(o)
      BY <2>1, <2>2, <1>4, <1>5 DEF PendByte
    <2>5. PendSize' = PendSize
      BY <2>1, <2>2, <1>1, <1>6, <1>7 DEF PendSize, BufSize
    <2>6. Extent(iNow', n') = Extent(iNow, n)
      BY <2>1
    <2>7. CacheInv'
      BY <2>2, <2>6, <1>2, <1>4, <1>5 DEF SafeInv, CacheInv
    <2> QED
      BY <2>3, <2>4, <2>5, <2>7, <1>2 DEF SafeInv, CoherentBytes, CoherentSize
  <1>9. CASE ~hasBuffer
    <2>1. n' = 0 /\ WriteAtOffset'
      BY <1>9, ReturnFrame DEF WriteDone, ReturnRc
    <2>2. /\ dwOfst = iNow /\ dwAmt = n /\ dwData = zBuf /\ nBuffer = 0
          /\ iNow = call.iOfst /\ n > 0
      BY <1>9, DwIs DEF SafeInv
    <2>3. Extent(iNow', n') = {} /\ Extent(iBufferOfst, nBuffer) = {}
      BY <2>1, <2>2, <1>1, <1>3, ExtentEmpty
    <2>4. \A o \in Offsets : PendByte(o)' = PendByte(o)
      BY <2>2, <2>3, <1>4, <1>5 DEF PendByte
    <2>5. PendSize' = PendSize
      BY <2>1, <2>2, <1>1, <1>6, <1>7 DEF PendSize, BufSize
    <2>6. CacheInv'
      BY <2>2, <2>3, <1>2, <1>4, <1>5 DEF SafeInv, CacheInv
    <2> QED
      BY <2>1, <2>4, <2>5, <2>6, <1>2 DEF SafeInv, CoherentBytes, CoherentSize
  <1> QED
    BY <1>8, <1>9

LEMMA WriteWriteSafe ==
    ASSUME SafeInv, WriteWrite, RpcFaults = FALSE, fd = "file"
    PROVE  SafeInv'
  <1>1. BaseInv'
    BY WriteWriteBase DEF SafeInv
  <1>2. pc = "dw_write" /\ pos = dwOfst /\ UNCHANGED <<durable, iBufferOfst>>
    BY DEF WriteWrite, SafeInv, WriteAtOffset
  <1>3. PICK k \in 0 .. dwAmt :
           /\ disk' = Put(disk, dwOfst, dwData, k)
           /\ (k = dwAmt /\ WriteDone) \/ WriteFailed
    BY <1>2 DEF WriteWrite
  <1> QED
    BY <1>1, <1>2, <1>3, DoneSafe, FailedSafe

\* After a crash, what is found is what SQLite goes on from.
LEMMA CrashSafe == ASSUME SafeInv, TaPanic \/ PowerLoss PROVE SafeInv'
  <1>1. BaseInv'
    BY CrashBase DEF SafeInv
  <1>2. /\ n' = 0 /\ nBuffer' = 0 /\ iBufferOfst' = 0 /\ pc' = "idle" /\ lost' = {}
        /\ call' = NoCall
    BY DEF TaPanic, PowerLoss, HandleGone
  <1>3. iNow' = 0
    BY <1>2 DEF iNow, NoCall
  <1>4. file' = disk'
    BY DEF TaPanic, PowerLoss
  <1>5. disk'.size \in Nat
    BY <1>1, Constants DEF BaseInv, TypeOK, LinuxType, File
  <1>6. Extent(iNow', n') = {} /\ Extent(iBufferOfst', nBuffer') = {}
    BY <1>2, <1>3, ExtentEmpty
  <1>7. WriteAtOffset'
    BY <1>2 DEF WriteAtOffset
  <1>8. CoherentBytes'
    BY <1>4, <1>6 DEF CoherentBytes, PendByte
  <1>9. CoherentSize'
    <2>1. PendSize' = file'.size
      BY <1>2, <1>4 DEF PendSize, BufSize
    <2> QED
      BY <2>1, <1>4, <1>5 DEF CoherentSize
  <1>10. \A o \in Offsets \ unsynced' : disk'.data[o] = durable'.data[o]
    BY DEF TaPanic, PowerLoss, SafeInv, CacheInv
  <1> QED
    BY <1>1, <1>6, <1>7, <1>8, <1>9, <1>10 DEF SafeInv, CacheInv

LEMMA NextSafe ==
    ASSUME SafeInv, [Next]_vars, RpcFaults = FALSE, fd = "file"
    PROVE  SafeInv'
  <1>1. CASE UNCHANGED vars
    <2>1. BaseInv'
      BY <1>1, NextBase DEF SafeInv
    <2>2. WriteAtOffset'
      BY <1>1 DEF SafeInv, WriteAtOffset, vars, linux, handle, frame, dwOfst, hasBuffer
    <2> QED
      BY <1>1, <2>1, <2>2, QuietSafe DEF vars, linux, handle, frame, ghost
  <1>2. CASE Method
    BY <1>2, OpenSafe, FlushFirstSafe, WriteSafe DEF Method
  <1>3. CASE Step
    BY <1>3, CopySafe, WriteLseekSafe, WriteWriteSafe, ReadSafe DEF Step
  <1>4. CASE TaPanic \/ PowerLoss
    BY <1>4, CrashSafe
  <1> QED
    BY <1>1, <1>2, <1>3, <1>4 DEF Next

\* Unless an RPC fails, the descriptor of an open file is the file's own.
LEMMA OwnDescriptor ==
    ASSUME RpcFaults = FALSE, fd = "file", [Next]_vars
    PROVE  fd' = "file"
  <1>1. CASE UNCHANGED vars
    BY <1>1 DEF vars, handle
  <1>2. CASE demoOpen
    BY <1>2 DEF demoOpen, handle
  <1>3. CASE Method /\ ~demoOpen
    BY <1>3 DEF Method, demoRead, demoWrite, demoSync, demoFileSize, demoClose, Enter,
                demoTruncate, NoOpMethod, handle
  <1>4. CASE Step
    BY <1>4 DEF Step, Copy, WriteLseek, WriteWrite, ReadLseek, ReadRead, Fsync, FileSize,
                CloseClose, handle
  <1>5. CASE TaPanic \/ PowerLoss
    BY <1>5 DEF TaPanic, PowerLoss, HandleGone
  <1> QED
    BY <1>1, <1>2, <1>3, <1>4, <1>5 DEF Next

LEMMA SafeInvariant == ASSUME RpcFaults = FALSE PROVE Spec => []SafeInv
  <1>1. SafeInv /\ fd = "file" /\ [Next]_vars => (SafeInv /\ fd = "file")'
    BY NextSafe, OwnDescriptor
  <1>2. Init => SafeInv /\ fd = "file"
    BY InitSafe DEF Init
  <1> QED
    BY <1>1, <1>2, PTL DEF Spec

\* No write is lost silently: unless an RPC fails, the disk overlaid by the journal
\* buffer and the write under way is what SQLite has written, except for bytes an
\* error return has disowned - for every buffer size and every order of reads,
\* writes, syncs, closes, refusals by Linux and crashes.
THEOREM Coherence == ASSUME RpcFaults = FALSE PROVE Spec => []Coherent
  <1>1. SafeInv => Coherent
    BY CoherentIs DEF SafeInv
  <1> QED
    BY <1>1, SafeInvariant, PTL

\* Unless an RPC fails, every byte SQLite has synced and not rewritten is on stable
\* storage.
THEOREM SyncDurability == ASSUME RpcFaults = FALSE PROVE Spec => []SyncedSurvives
  <1>1. SafeInv => SyncedSurvives
    <2> SUFFICES ASSUME SafeInv, NEW o \in Offsets \ (unsynced \cup lost)
                 PROVE  durable.data[o] = file.data[o]
      BY DEF SyncedSurvives
    <2>1. disk.data[o] = durable.data[o]
      BY DEF SafeInv, CacheInv
    <2>2. PendByte(o) = disk.data[o]
      BY DEF SafeInv, CacheInv, PendByte
    <2> QED
      BY <2>1, <2>2 DEF SafeInv, CoherentBytes
  <1> QED
    BY <1>1, SafeInvariant, PTL

-----------------------------------------------------------------------------
(***************************************************************************)
(* The methods of tee_vfs.c implement the contract of an sqlite3_file      *)
(* (FileContract), and those of SQLite's example (DemoVfs), as long as no  *)
(* RPC fails.                                                              *)
(***************************************************************************)

(***************************************************************************)
(* What the refinements rest on besides SafeInv.                           *)
(***************************************************************************)

\* The bytes behind the end of a file are zeros.
NoBytesBehind(f) == \A o \in Offsets : o >= f.size => f.data[o] = Zero

\* The frame of a method that is not under way is empty; only demoClose goes on after
\* a failed flush; a read is done where it was asked for.
CallInv ==
    /\ pc = "idle" => call = NoCall /\ zBuf = NoData
    /\ rc # "OK" => pc = "close"
    /\ pc = "rd_read" => pos = call.iOfst
    /\ NoBytesBehind(disk) /\ NoBytesBehind(durable)

RefInv == SafeInv /\ fd = "file" /\ CallInv

\* A write leaves no byte behind the end.
LEMMA PutBehind ==
    ASSUME NEW f \in File, NoBytesBehind(f), NEW ofst \in Nat, NEW z, NEW k \in Nat
    PROVE  NoBytesBehind(Put(f, ofst, z, k))
<1>1. f.size \in Nat
  BY Constants DEF File
<1> SUFFICES ASSUME NEW o \in Offsets, o >= Put(f, ofst, z, k).size
             PROVE  Put(f, ofst, z, k).data[o] = Zero
  BY DEF NoBytesBehind
<1>2. o \in Int /\ o >= f.size /\ o \notin Extent(ofst, k)
  BY <1>1, Constants DEF Put, Extent, Offsets
<1> QED
  BY <1>2 DEF Put, NoBytesBehind

LEMMA ReturnCall ==
    ASSUME NEW r, NEW out, NEW size, Return(r, out, size),
           NoBytesBehind(disk'), NoBytesBehind(durable')
    PROVE  CallInv'
  BY DEF Return, CallInv, NoBytesBehind

LEMMA CallStep ==
    ASSUME RefInv, [Next]_vars, RpcFaults = FALSE
    PROVE  CallInv'
<1> USE DEF RefInv
<1>0. /\ disk \in File /\ durable \in File /\ NoBytesBehind(disk) /\ NoBytesBehind(durable)
      /\ pos \in Nat /\ nBuffer \in Nat /\ call.iAmt \in Nat
  BY Constants DEF SafeInv, BaseInv, TypeOK, LinuxType, HandleType, FrameType, Calls, CallInv
<1>1. CASE UNCHANGED vars
  BY <1>1 DEF vars, linux, frame, CallInv, NoBytesBehind
<1>2. CASE demoOpen \/ demoTruncate \/ NoOpMethod
  <2>1. UNCHANGED <<disk, durable>>
    BY <1>2 DEF demoOpen, demoTruncate, NoOpMethod, linux
  <2>2. \E r : ReturnRc(r)
    BY <1>2 DEF demoOpen, demoTruncate, NoOpMethod
  <2> QED
    BY <1>0, <2>1, <2>2, ReturnCall DEF ReturnRc
<1>3. CASE demoRead \/ demoSync \/ demoFileSize \/ demoClose
  <2>1. \E c : c.op \in Ops /\ Enter(c)
    <3>1. CASE demoRead
      <4>1. PICK iAmt \in 1 .. MaxOfst, iOfst \in Offsets :
               Enter([op |-> "read", iAmt |-> iAmt, iOfst |-> iOfst])
        BY <3>1 DEF demoRead
      <4> QED
        BY <4>1 DEF Ops
    <3> QED
      BY <1>3, <3>1 DEF demoSync, demoFileSize, demoClose, Ops
  <2>2. PICK c : c.op \in Ops /\ Enter(c)
    BY <2>1
  <2>3. pc' \notin {"idle", "rd_read"} /\ pc = "idle" /\ UNCHANGED <<disk, durable, rc>>
    BY <2>2 DEF Enter, linux, AfterFlush, Ops
  <2> QED
    BY <1>0, <2>3 DEF CallInv, NoBytesBehind
<1>4. CASE demoWrite
  <2>1. pc' \in {"dw_lseek", "copy"} /\ pc = "idle" /\ UNCHANGED <<disk, durable, rc>>
    BY <1>4 DEF demoWrite, linux
  <2> QED
    BY <1>0, <2>1 DEF CallInv, NoBytesBehind
<1>5. CASE Copy
  <2>1. UNCHANGED <<disk, durable>> /\ pc = "copy"
    BY <1>5 DEF Copy, linux
  <2>2. CASE ReturnRc("OK")
    BY <1>0, <2>1, <2>2, ReturnCall DEF ReturnRc
  <2>3. CASE pc' \in {"dw_lseek", "copy"} /\ rc' = rc
    BY <1>0, <2>1, <2>3 DEF CallInv, NoBytesBehind
  <2> QED
    BY <1>5, <2>2, <2>3 DEF Copy
<1>6. CASE WriteLseek
  <2>1. UNCHANGED <<disk, durable>> /\ pc = "dw_lseek"
    BY <1>6 DEF WriteLseek
  <2>2. CASE \E r : ReturnRc(r)
    BY <1>0, <2>1, <2>2, ReturnCall DEF ReturnRc
  <2>3. CASE (pc' = "dw_write" /\ rc' = rc) \/ pc' = "close"
    BY <1>0, <2>1, <2>3 DEF CallInv, NoBytesBehind
  <2> QED
    BY <1>6, <2>2, <2>3 DEF WriteLseek, WriteFailed
<1>7. CASE WriteWrite
  <2>1. PICK k \in 0 .. dwAmt :
          /\ disk' = Put(disk, pos, dwData, k)
          /\ WriteDone \/ WriteFailed
    BY <1>7 DEF WriteWrite
  <2>2. k \in Nat
    BY <1>0 DEF dwAmt
  <2>3. NoBytesBehind(disk') /\ NoBytesBehind(durable') /\ pc = "dw_write"
    BY <1>0, <1>7, <2>1, <2>2, PutBehind DEF WriteWrite
  <2>4. CASE \E r : ReturnRc(r)
    BY <2>3, <2>4, ReturnCall DEF ReturnRc
  <2>5. CASE pc' = "close"
    BY <2>3, <2>5 DEF CallInv, NoBytesBehind
  <2>6. CASE hasBuffer /\ WriteDone
    <3>1. call.op \in Ops
      BY <2>3 DEF SafeInv, BaseInv, TypeOK, FrameType, FrameInv, Calls
    <3>2. pc' \notin {"idle", "rd_read"} /\ rc' = rc
      BY <2>6, <3>1 DEF WriteDone, AfterFlush, Ops
    <3> QED
      BY <2>3, <3>2 DEF CallInv, NoBytesBehind
  <2> QED
    BY <2>1, <2>4, <2>5, <2>6 DEF WriteDone, WriteFailed
<1>8. CASE ReadLseek
  <2>1. UNCHANGED <<disk, durable>> /\ pc = "rd_lseek"
    BY <1>8 DEF ReadLseek
  <2>2. CASE ReturnRc("IOERR_READ")
    BY <1>0, <2>1, <2>2, ReturnCall DEF ReturnRc
  <2>3. CASE pos' = call.iOfst /\ pc' = "rd_read" /\ UNCHANGED <<call, rc>>
    BY <1>0, <2>1, <2>3 DEF CallInv, NoBytesBehind
  <2> QED
    BY <1>8, <2>2, <2>3 DEF ReadLseek
<1>9. CASE ReadRead \/ Fsync \/ FileSize \/ CloseClose
  <2>1. disk' = disk /\ durable' \in {disk, durable}
    BY <1>9 DEF ReadRead, Fsync, FileSize, CloseClose, linux
  <2>2. \E r, out, size : Return(r, out, size)
    BY <1>9 DEF ReadRead, Fsync, FileSize, CloseClose, ReturnRc
  <2> QED
    BY <1>0, <2>1, <2>2, ReturnCall
<1>10. CASE TaPanic \/ PowerLoss
  <2>1. Return("OK", NoData, 0)
    BY <1>10 DEF TaPanic, PowerLoss, HandleGone, Return, NoReply
  <2>2. CASE TaPanic
    BY <1>0, <2>1, <2>2, ReturnCall DEF TaPanic
  <2>3. CASE PowerLoss
    <3>1. durable' = disk' /\ NoBytesBehind(disk')
      BY <2>3 DEF PowerLoss, NoBytesBehind
    <3> QED
      BY <2>1, <3>1, ReturnCall
  <2> QED
    BY <1>10, <2>2, <2>3
<1> QED
  BY <1>1, <1>2, <1>3, <1>4, <1>5, <1>6, <1>7, <1>8, <1>9, <1>10 DEF Next, Method, Step

LEMMA InitRef == Init => RefInv
  BY InitSafe DEF Init, RefInv, CallInv, NoBytesBehind, EmptyFile, NoCall

LEMMA NextRef == ASSUME RpcFaults = FALSE PROVE RefInv /\ [Next]_vars => RefInv'
  BY NextSafe, OwnDescriptor, CallStep DEF RefInv

-----------------------------------------------------------------------------
(***************************************************************************)
(* The contract.                                                           *)
(***************************************************************************)

\* The vocabulary of the contract is that of TeeVfs.
LEMMA SameWords ==
    /\ Contract!NoCall = NoCall /\ Contract!NoData = NoData /\ Contract!Ops = Ops
    /\ Contract!NoReply = NoReply /\ Contract!Offsets = Offsets /\ Contract!File = File
    /\ Contract!EmptyFile = EmptyFile
    /\ \A x, k : Contract!Extent(x, k) = Extent(x, k)
    /\ \A f, x, z, k : Contract!Put(f, x, z, k) = Put(f, x, z, k)
    /\ \A f, x, k : Contract!Slice(f, x, k) = Slice(f, x, k)
  BY DEF Contract!NoCall, NoCall, Contract!NoData, NoData, Contract!Ops, Ops, Contract!NoReply,
         NoReply, Contract!Offsets, Offsets, Contract!File, File, Contract!EmptyFile, EmptyFile,
         Contract!Extent, Extent, Contract!Put, Put, Contract!Slice, Slice

\* What SQLite sees of a return.
LEMMA ReplySeen ==
    ASSUME NEW r, NEW out, NEW size, Return(r, out, size)
    PROVE  /\ ContractReply' = [rc |-> IF r \in Errors THEN "ERROR" ELSE r, out |-> out, size |-> size]
           /\ call' = NoCall /\ rc' = "OK"
  BY DEF Return, ContractReply

\* A method that returns an error, and disowns bytes that are not synced.
LEMMA ErrorStep ==
    ASSUME NEW r \in Errors, ReturnRc(r), call.op # "none",
           opened' = (call.op # "close"), UNCHANGED <<file, unsynced>>,
           NEW L \in SUBSET unsynced, lost' = lost \cup L
    PROVE  Contract!ReturnError
<1>1. ContractReply' = [rc |-> "ERROR", out |-> NoData, size |-> 0] /\ call' = NoCall /\ rc' = "OK"
  BY ReplySeen DEF ReturnRc
<1> QED
  BY <1>1, SameWords DEF Contract!ReturnError

\* A method other than a read or a size that returns without an error.
LEMMA OkStep ==
    ASSUME ReturnRc("OK"), call.op \in {"write", "sync", "close"}, rc = "OK",
           opened' = (call.op # "close"), UNCHANGED <<file, lost>>,
           unsynced' = IF call.op = "sync" THEN {} ELSE unsynced
    PROVE  Contract!ReturnOk
<1>1. ContractReply' = [rc |-> "OK", out |-> NoData, size |-> 0] /\ call' = NoCall /\ rc' = "OK"
  BY ReplySeen DEF ReturnRc, Errors
<1>2. ContractReply' \in Contract!Reply
  BY <1>1, Constants DEF Contract!Reply, NoData, Offsets, Contract!Offsets
<1> QED
  BY <1>1, <1>2, SameWords DEF Contract!ReturnOk

\* Steps that SQLite does not see.
LEMMA Unseen ==
    ASSUME UNCHANGED <<file, unsynced, lost, kind, call, rc, reply>>
    PROVE  UNCHANGED Contract!vars
  BY DEF Contract!vars, opened, ContractReply

\* Opening a file, and the methods that do nothing.
LEMMA ContractOpen ==
    ASSUME RefInv, demoOpen \/ demoTruncate \/ NoOpMethod
    PROVE  Contract!Next
<1>0. pc = "idle" /\ call = NoCall /\ rc = "OK" /\ UNCHANGED <<file, unsynced, lost>>
  BY DEF RefInv, CallInv, demoOpen, demoTruncate, NoOpMethod, ghost
<1>1. ASSUME NEW r, ReturnRc(r)
      PROVE  /\ ContractReply' = [rc |-> IF r \in Errors THEN "ERROR" ELSE r, out |-> NoData, size |-> 0]
             /\ call' = NoCall /\ rc' = "OK"
  BY <1>1, ReplySeen DEF ReturnRc
<1>2. CASE demoOpen
  <2>1. CASE UNCHANGED handle /\ \E r \in {"IOERR", "NOMEM", "CANTOPEN"} : ReturnRc(r)
    <3>1. ContractReply' = [rc |-> "ERROR", out |-> NoData, size |-> 0]
      BY <1>1, <2>1 DEF Errors
    <3>2. ~opened /\ ~opened'
      BY <1>2, <2>1 DEF demoOpen, handle, opened
    <3>3. call' = call /\ rc' = rc
      BY <1>0, <1>1, <2>1
    <3>4. opened' = ("ERROR" = "OK")
      BY <3>2 DEF opened
    <3> QED
      BY <1>0, <3>1, <3>2, <3>3, <3>4, SameWords DEF Contract!Open, Contract!Next
  <2>2. CASE kind' \in {"journal", "direct"} /\ ReturnRc("OK")
    <3>1. ContractReply' = [rc |-> "OK", out |-> NoData, size |-> 0]
      BY <1>1, <2>2 DEF Errors
    <3>2. ~opened /\ opened'
      BY <1>2, <2>2 DEF demoOpen, opened
    <3>3. call' = call /\ rc' = rc
      BY <1>0, <1>1, <2>2
    <3> QED
      BY <1>0, <3>1, <3>2, <3>3, SameWords DEF Contract!Open, Contract!Next
  <2> QED
    BY <1>2, <2>1, <2>2 DEF demoOpen
<1>3. CASE demoTruncate \/ NoOpMethod
  <2>1. PICK r \in {"OK", "NOTFOUND"} : ReturnRc(r)
    BY <1>3 DEF demoTruncate, NoOpMethod
  <2>2. ContractReply' = [NoReply EXCEPT !.rc = r] /\ call' = call /\ rc' = rc
    BY <1>0, <1>1, <2>1 DEF Errors, NoReply
  <2>3. opened /\ opened'
    BY <1>3 DEF demoTruncate, NoOpMethod, opened, handle
  <2> QED
    BY <1>0, <2>2, <2>3, SameWords DEF Contract!Other, Contract!Next
<1> QED
  BY <1>2, <1>3

\* The entry of a method.
LEMMA ContractInvoke ==
    ASSUME RefInv, demoRead \/ demoSync \/ demoFileSize \/ demoClose \/ demoWrite
    PROVE  Contract!Invoke
<1>0. pc = "idle" /\ call = NoCall /\ rc = "OK" /\ opened
  BY DEF RefInv, CallInv, demoRead, demoSync, demoFileSize, demoClose, demoWrite, Enter
<1>1. ContractReply' = NoReply /\ UNCHANGED <<opened, rc>>
  BY DEF demoRead, demoSync, demoFileSize, demoClose, demoWrite, Enter, ContractReply, NoReply,
         Errors, opened, handle
<1>2. CASE demoRead \/ demoSync \/ demoFileSize \/ demoClose
  <2>1. /\ call' \in Contract!Call /\ call'.iOfst + call'.iAmt <= MaxOfst /\ call'.op # "write"
        /\ UNCHANGED <<file, unsynced, lost>>
    <3>1. CASE demoRead
      <4>1. PICK iAmt \in 1 .. MaxOfst, iOfst \in Offsets :
               /\ iOfst + iAmt <= MaxOfst
               /\ Enter([op |-> "read", iAmt |-> iAmt, iOfst |-> iOfst])
        BY <3>1 DEF demoRead
      <4>2. iAmt \in 0 .. MaxOfst /\ iOfst \in 0 .. MaxOfst
        BY Constants DEF Offsets
      <4> QED
        BY <4>1, <4>2 DEF Enter, ghost, Contract!Call, Contract!Ops
    <3>2. CASE demoSync \/ demoFileSize \/ demoClose
      BY <3>2, Constants DEF demoSync, demoFileSize, demoClose, Enter, ghost, Contract!Call, Contract!Ops
    <3> QED
      BY <1>2, <3>1, <3>2
  <2> QED
    BY <1>0, <1>1, <2>1, SameWords DEF Contract!Invoke
<1>3. CASE demoWrite
  <2>1. PICK iAmt \in 1 .. MaxOfst, iOfst \in Offsets, z \in Payloads :
           /\ iOfst + iAmt <= MaxOfst
           /\ file' = Put(file, iOfst, z, iAmt)
           /\ call' = [op |-> "write", iAmt |-> iAmt, iOfst |-> iOfst]
           /\ unsynced' = unsynced \cup Extent(iOfst, iAmt)
           /\ lost' = lost \ Extent(iOfst, iAmt)
    BY <1>3 DEF demoWrite
  <2>2. iAmt \in 0 .. MaxOfst /\ iOfst \in 0 .. MaxOfst /\ z \in [Offsets -> Byte]
    BY Constants DEF Offsets
  <2>3. call' \in Contract!Call
    BY <2>1, <2>2 DEF Contract!Call, Contract!Ops
  <2> QED
    BY <1>0, <1>1, <2>1, <2>2, <2>3, SameWords DEF Contract!Invoke
<1> QED
  BY <1>2, <1>3

\* A turn of the copy loop, and demoDirectWrite: the bytes of a failed flush were not
\* synced.
LEMMA ContractWrite ==
    ASSUME RefInv, RpcFaults = FALSE, Copy \/ WriteLseek \/ WriteWrite
    PROVE  Contract!Next \/ UNCHANGED Contract!vars
<1>0. /\ rc = "OK" /\ call.op \in Ops /\ opened /\ kind' = kind /\ opened' = opened
      /\ pc \in {"copy", "dw_lseek", "dw_write"} /\ kind \in {"journal", "direct"}
  BY DEF RefInv, SafeInv, BaseInv, FrameInv, TypeOK, HandleType, FrameType, Calls, CallInv, Copy,
         WriteLseek, WriteWrite, opened
<1>1. CASE UNCHANGED <<file, unsynced, lost, call, rc, reply>>
  BY <1>0, <1>1, Unseen
<1>2. CASE WriteFailed /\ pc # "copy"
  <2>1. Extent(dwOfst, dwAmt) \cup Extent(iNow, n) \in SUBSET unsynced
    <3>1. CASE hasBuffer
      BY <3>1 DEF RefInv, SafeInv, CacheInv, dwOfst, dwAmt
    <3>2. CASE ~hasBuffer
      <4>1. n = call.iAmt /\ call.iAmt \in Int /\ call.iOfst \in Int
        BY <1>0, <1>2, <3>2, Constants DEF RefInv, SafeInv, BaseInv, FrameInv, TypeOK, FrameType, Calls
      <4>2. iNow = call.iOfst
        BY <4>1 DEF iNow
      <4> QED
        BY <3>2, <4>1, <4>2 DEF RefInv, SafeInv, CacheInv, dwOfst, dwAmt
    <3> QED
      BY <3>1, <3>2
  <2>2. CASE call.op = "close"
    <3>1. rc' = "IOERR_WRITE" /\ UNCHANGED <<call, reply, file, unsynced>>
      BY <1>2, <2>2 DEF WriteFailed
    <3>2. ContractReply' = ContractReply
      BY <3>1 DEF ContractReply
    <3>3. \E L \in SUBSET unsynced : lost' = lost \cup L
      BY <1>2, <2>1 DEF WriteFailed
    <3>4. Contract!Lose
      BY <1>0, <2>2, <3>1, <3>2, <3>3 DEF Contract!Lose
    <3> QED
      BY <3>4 DEF Contract!Next
  <2>3. CASE call.op # "close"
    <3>1. ReturnRc("IOERR_WRITE") /\ UNCHANGED <<file, unsynced>>
      BY <1>2, <2>3 DEF WriteFailed
    <3>2. \E L \in SUBSET unsynced : lost' = lost \cup L
      BY <1>2, <2>1 DEF WriteFailed
    <3>3. "IOERR_WRITE" \in Errors /\ call.op # "none" /\ opened' = (call.op # "close")
      BY <1>0, <2>3 DEF Errors, Ops, opened
    <3> QED
      BY <3>1, <3>2, <3>3, ErrorStep DEF Contract!Next
  <2> QED
    BY <2>2, <2>3
<1>3. CASE ReturnRc("OK") /\ call.op = "write" /\ UNCHANGED ghost
  <2>1. opened' = (call.op # "close")
    BY <1>0, <1>3 DEF opened
  <2> QED
    BY <1>0, <1>3, <2>1, OkStep DEF ghost, Contract!Next
<1>4. CASE Copy
  <2>1. call.op = "write" /\ UNCHANGED ghost
    BY <1>4 DEF Copy, RefInv, SafeInv, BaseInv, FrameInv
  <2> QED
    BY <1>1, <1>3, <1>4, <2>1 DEF Copy, ghost
<1>5. CASE WriteLseek
  BY <1>1, <1>2, <1>5 DEF WriteLseek, ghost
<1>6. CASE WriteWrite
  <2>1. CASE WriteDone
    <3>1. ~hasBuffer => call.op = "write"
      BY <1>6 DEF WriteWrite, RefInv, SafeInv, BaseInv, FrameInv
    <3> QED
      BY <1>1, <1>3, <2>1, <3>1 DEF WriteDone, ghost
  <2>2. CASE WriteFailed
    BY <1>2, <1>6, <2>2 DEF WriteWrite
  <2> QED
    BY <1>6, <2>1, <2>2 DEF WriteWrite
<1> QED
  BY <1>4, <1>5, <1>6

\* With nothing pending, the file in Linux is what SQLite has written.
LEMMA FileOnDisk ==
    ASSUME RefInv, pc \in {"rd_lseek", "rd_read", "fsync", "fstat", "close"}
    PROVE  /\ \A o \in Offsets \ lost : disk.data[o] = file.data[o]
           /\ lost = {} => disk.size = file.size
           /\ disk \in File /\ file \in File
<1>1. n = 0 /\ nBuffer = 0 /\ iNow \in Int /\ iBufferOfst \in Int /\ disk \in File /\ file \in File
  BY Constants DEF RefInv, SafeInv, BaseInv, FrameInv, TypeOK, LinuxType, HandleType, FrameType,
                   GhostType, Calls, iNow
<1>2. \A o \in Offsets : PendByte(o) = disk.data[o]
  BY <1>1, ExtentEmpty DEF PendByte
<1>3. PendSize = disk.size
  BY <1>1 DEF PendSize, BufSize
<1>4. disk.size \in Int /\ file.size \in Int
  BY <1>1, Constants DEF File
<1> QED
  BY <1>1, <1>2, <1>3, <1>4 DEF RefInv, SafeInv, CoherentBytes, CoherentSize

\* A read that succeeds returns what SQLite has written, and a short one is short
\* because the file is.
LEMMA ContractRead ==
    ASSUME RefInv, pc = "rd_read", UNCHANGED <<kind, file, unsynced, lost>>,
           Return(ReadRc(Available), Slice(Behind, pos, Available), 0)
    PROVE  Contract!ReturnOk
<1>0. /\ call.op = "read" /\ opened /\ rc = "OK" /\ pos = call.iOfst
      /\ call.iOfst + call.iAmt <= MaxOfst /\ call.iOfst \in Nat /\ call.iAmt \in Nat
      /\ Behind = disk /\ NoBytesBehind(disk) /\ MaxOfst \in Nat
  BY Constants DEF RefInv, SafeInv, BaseInv, FrameInv, TypeOK, FrameType, Calls, CallInv, Behind
<1>1. /\ \A o \in Offsets \ lost : disk.data[o] = file.data[o]
      /\ lost = {} => disk.size = file.size
      /\ disk \in File /\ file \in File
  BY FileOnDisk
<1>2. disk.size \in Nat /\ disk.size <= MaxOfst
  BY <1>1, <1>0 DEF File
<1>3. /\ Available \in 0 .. call.iAmt
      /\ Available = call.iAmt <=> (call.iAmt = 0 \/ call.iOfst + call.iAmt <= disk.size)
      /\ \A k \in 0 .. call.iAmt - 1 : k < Available <=> call.iOfst + k < disk.size
  BY <1>0, <1>2 DEF Available
<1>4. /\ ContractReply' = [rc |-> ReadRc(Available), out |-> Slice(disk, call.iOfst, Available), size |-> 0]
      /\ call' = NoCall /\ rc' = "OK" /\ ReadRc(Available) \in {"OK", "SHORT_READ"}
  BY <1>0, ReplySeen DEF ReadRc, Errors
<1>5. ContractReply' \in Contract!Reply
  <2>1. Slice(disk, call.iOfst, Available) \in [Offsets -> Byte]
    BY <1>0, <1>1, <1>3, SliceType
  <2> QED
    BY <1>0, <1>4, <2>1, SameWords DEF Contract!Reply
<1>6. ASSUME NEW k \in 0 .. call.iAmt - 1, call.iOfst + k \notin lost
      PROVE  Slice(disk, call.iOfst, Available)[k] = Slice(file, call.iOfst, call.iAmt)[k]
  <2>1. k \in Offsets /\ call.iOfst + k \in Offsets /\ k \in Nat
    BY <1>0 DEF Offsets
  <2>2. Slice(file, call.iOfst, call.iAmt)[k] = disk.data[call.iOfst + k]
    BY <1>0, <1>1, <1>6, <2>1 DEF Slice
  <2>3. CASE k < Available
    BY <2>1, <2>2, <2>3 DEF Slice
  <2>4. CASE ~(k < Available)
    <3>1. disk.data[call.iOfst + k] = Zero
      BY <1>0, <1>2, <1>3, <2>1, <2>4 DEF NoBytesBehind
    <3> QED
      BY <2>1, <2>2, <2>4, <3>1 DEF Slice
  <2> QED
    BY <2>3, <2>4
<1>7. Contract!RightBytes(ContractReply'.out)
  BY <1>4, <1>6, SameWords DEF Contract!RightBytes
<1>8. lost = {} => (ContractReply'.rc = "OK" <=> call.iAmt = 0 \/ call.iOfst + call.iAmt <= file.size)
  BY <1>1, <1>3, <1>4 DEF ReadRc
<1>9. opened' = (call.op # "close")
  BY <1>0 DEF opened
<1>10. ContractReply'.rc \in {"OK", "SHORT_READ"}
  BY <1>4
<1> QED
  BY <1>0, <1>4, <1>5, <1>7, <1>8, <1>9, <1>10, SameWords DEF Contract!ReturnOk

\* The methods that find the buffer flushed.
LEMMA ContractRest ==
    ASSUME RefInv, RpcFaults = FALSE, ReadLseek \/ ReadRead \/ Fsync \/ FileSize \/ CloseClose
    PROVE  Contract!Next \/ UNCHANGED Contract!vars
<1>0. opened /\ UNCHANGED <<file, lost>> /\ (rc # "OK" => pc = "close")
  BY DEF RefInv, SafeInv, BaseInv, FrameInv, CallInv, ReadLseek, ReadRead, Fsync, FileSize,
         CloseClose, ghost
<1>1. ASSUME NEW r \in Errors, ReturnRc(r), call.op # "none", opened' = (call.op # "close"),
             UNCHANGED unsynced
      PROVE  Contract!Next
  <2>1. lost' = lost \cup {} /\ {} \in SUBSET unsynced
    BY <1>0
  <2> QED
    BY <1>0, <1>1, <2>1, ErrorStep DEF Contract!Next
<1>2. CASE ReadLseek \/ ReadRead
  <2>0. /\ call.op = "read" /\ kind' = kind /\ UNCHANGED unsynced /\ "IOERR_READ" \in Errors
        /\ opened' = (call.op # "close")
    BY <1>0, <1>2 DEF RefInv, SafeInv, BaseInv, FrameInv, ReadLseek, ReadRead, handle, ghost, Errors,
                      opened
  <2>1. CASE ReturnRc("IOERR_READ")
    BY <1>1, <2>0, <2>1
  <2>2. CASE ReadLseek /\ ~ReturnRc("IOERR_READ")
    <3>1. UNCHANGED <<call, rc, reply>>
      BY <2>2 DEF ReadLseek
    <3> QED
      BY <1>0, <2>0, <3>1, Unseen
  <2>3. CASE ReadRead /\ ~ReturnRc("IOERR_READ")
    <3>1. pc = "rd_read" /\ Return(ReadRc(Available), Slice(Behind, pos, Available), 0)
      BY <2>3 DEF ReadRead
    <3> QED
      BY <1>0, <2>0, <3>1, ContractRead DEF Contract!Next
  <2> QED
    BY <1>2, <2>1, <2>2, <2>3
<1>3. CASE Fsync
  <2>0. /\ call.op = "sync" /\ kind' = kind /\ "IOERR_FSYNC" \in Errors /\ rc = "OK"
        /\ opened' = (call.op # "close")
    BY <1>0, <1>3 DEF RefInv, SafeInv, BaseInv, FrameInv, Fsync, handle, Errors, opened
  <2>1. CASE ReturnRc("IOERR_FSYNC") /\ UNCHANGED unsynced
    BY <1>1, <2>0, <2>1
  <2>2. CASE ReturnRc("OK") /\ unsynced' = {}
    BY <1>0, <2>0, <2>2, OkStep DEF Contract!Next
  <2> QED
    BY <1>3, <2>1, <2>2 DEF Fsync
<1>4. CASE FileSize
  <2>0. /\ call.op = "filesize" /\ UNCHANGED unsynced /\ "IOERR_FSTAT" \in Errors /\ rc = "OK"
        /\ opened' = (call.op # "close") /\ Behind = disk
    BY <1>0, <1>4 DEF RefInv, SafeInv, BaseInv, FrameInv, FileSize, handle, ghost, Errors, opened, Behind
  <2>1. CASE ReturnRc("IOERR_FSTAT")
    BY <1>1, <2>0, <2>1
  <2>2. CASE Return("OK", NoData, disk.size)
    <3>1. ContractReply' = [rc |-> "OK", out |-> NoData, size |-> disk.size] /\ call' = NoCall /\ rc' = "OK"
      BY <2>2, ReplySeen DEF Errors
    <3>2. disk.size \in 0 .. MaxOfst /\ (lost = {} => disk.size = file.size)
      BY <1>4, FileOnDisk DEF FileSize, File
    <3>3. ContractReply' \in Contract!Reply
      BY <3>1, <3>2, Constants DEF Contract!Reply, NoData, Offsets, Contract!Offsets
    <3>4. ContractReply'.rc = "OK" /\ ContractReply'.size = disk.size
      BY <3>1
    <3>5. Contract!ReturnOk
      BY <1>0, <2>0, <3>1, <3>2, <3>3, <3>4, SameWords DEF Contract!ReturnOk
    <3> QED
      BY <3>5 DEF Contract!Next
  <2> QED
    BY <1>4, <2>0, <2>1, <2>2 DEF FileSize
<1>5. CASE CloseClose
  <2>0. /\ call.op = "close" /\ UNCHANGED unsynced /\ ReturnRc(rc) /\ rc \in {"OK", "IOERR_WRITE"}
        /\ "IOERR_WRITE" \in Errors /\ opened' = (call.op # "close")
    BY <1>5 DEF RefInv, SafeInv, BaseInv, FrameInv, TypeOK, FrameType, CloseClose, ghost, Errors, opened
  <2>1. CASE rc = "OK"
    BY <1>0, <2>0, <2>1, OkStep DEF Contract!Next
  <2>2. CASE rc = "IOERR_WRITE"
    BY <1>1, <2>0, <2>2
  <2> QED
    BY <2>0, <2>1, <2>2
<1> QED
  BY <1>2, <1>3, <1>4, <1>5

\* A crash costs bytes that were not synced, or disowned, and no other.
LEMMA ContractCrash ==
    ASSUME RefInv, TaPanic \/ PowerLoss
    PROVE  Contract!Crash
<1>0. /\ disk \in File /\ durable \in File /\ NoBytesBehind(disk) /\ NoBytesBehind(durable)
  BY DEF RefInv, SafeInv, BaseInv, TypeOK, LinuxType, CallInv
<1>1. \A o \in Offsets \ (unsynced \cup lost) : disk.data[o] = file.data[o] /\ durable.data[o] = file.data[o]
  <2> SUFFICES ASSUME NEW o \in Offsets \ (unsynced \cup lost)
               PROVE  disk.data[o] = file.data[o] /\ durable.data[o] = file.data[o]
    OBVIOUS
  <2>1. disk.data[o] = durable.data[o]
    BY DEF RefInv, SafeInv, CacheInv
  <2>2. PendByte(o) = disk.data[o]
    BY DEF RefInv, SafeInv, CacheInv, PendByte
  <2> QED
    BY <2>1, <2>2 DEF RefInv, SafeInv, CoherentBytes
<1>2. /\ lost' = {} /\ opened' = FALSE /\ call' = NoCall /\ (rc # "OK")' = FALSE /\ ContractReply' = NoReply
  BY DEF TaPanic, PowerLoss, HandleGone, opened, ContractReply, NoReply, Errors
<1>3. CASE TaPanic
  <2>1. file' = disk /\ unsynced' = unsynced
    BY <1>3 DEF TaPanic
  <2> QED
    BY <1>0, <1>1, <1>2, <2>1, SameWords DEF Contract!Crash
<1>4. CASE PowerLoss
  <2>1. PICK old \in SUBSET Offsets, size \in {durable.size, disk.size} :
          disk' = [data |-> [o \in Offsets |->
                                IF o >= size THEN Zero
                                ELSE IF o \in old THEN durable.data[o]
                                ELSE disk.data[o]],
                   size |-> size]
    BY <1>4 DEF PowerLoss
  <2>2. file' = disk' /\ unsynced' = {}
    BY <1>4 DEF PowerLoss
  <2>3. disk' \in File
    BY <1>0, <2>1, Constants DEF File
  <2>4. ASSUME NEW o \in Offsets \ (unsynced \cup lost)
        PROVE  disk'.data[o] = file.data[o]
    <3>1. CASE o >= size
      BY <1>0, <1>1, <2>1, <3>1 DEF NoBytesBehind
    <3>2. CASE ~(o >= size)
      BY <1>1, <2>1, <3>2
    <3> QED
      BY <3>1, <3>2
  <2> QED
    BY <1>2, <2>2, <2>3, <2>4, SameWords DEF Contract!Crash
<1> QED
  BY <1>3, <1>4

\* Every step of a method, or of the world, is one that the contract allows.
LEMMA ContractStep ==
    ASSUME RpcFaults = FALSE
    PROVE  RefInv /\ [Next]_vars => [Contract!Next]_(Contract!vars)
<1> SUFFICES ASSUME RefInv, [Next]_vars
             PROVE  Contract!Next \/ UNCHANGED Contract!vars
  OBVIOUS
<1>1. CASE UNCHANGED vars
  BY <1>1, Unseen DEF vars, handle, frame, ghost
<1>2. CASE Method
  BY <1>2, ContractOpen, ContractInvoke DEF Method, Contract!Next
<1>3. CASE Step
  BY <1>3, ContractWrite, ContractRest DEF Step
<1>4. CASE TaPanic \/ PowerLoss
  BY <1>4, ContractCrash DEF Contract!Next
<1> QED
  BY <1>1, <1>2, <1>3, <1>4 DEF Next

\* The file starts as the contract says.
LEMMA ContractInit == Init => Contract!Init
  BY SameWords DEF Init, Contract!Init, ContractReply, NoReply, Errors, opened

\* Unless an RPC fails, the methods implement the contract of an sqlite3_file, for every
\* file length, buffer size and payload: a read returns what was written, a size is
\* right, no error return and no crash costs a byte that was synced, and no byte is
\* lost without an error return.
THEOREM FilesImplementContract == ASSUME RpcFaults = FALSE PROVE Spec => ImplementsContract
<1>1. Init => RefInv /\ Contract!Init
  BY InitRef, ContractInit
<1>2. RefInv /\ [Next]_vars => RefInv'
  BY NextRef
<1>3. RefInv /\ [Next]_vars => [Contract!Next]_(Contract!vars)
  BY ContractStep
<1> QED
  BY <1>1, <1>2, <1>3, PTL DEF Spec, ImplementsContract, Contract!Spec

-----------------------------------------------------------------------------
(***************************************************************************)
(* The original.                                                           *)
(***************************************************************************)

\* The first m bytes of a buffer, as the original has them.
AsSeq(a, m) == [k \in 1 .. m |-> a[k - 1]]

LEMMA SeqOfLen ==
    ASSUME NEW m \in Nat, NEW s \in [1 .. m -> Byte]
    PROVE  s \in Seq(Byte) /\ Len(s) = m
<1>1. s \in Seq(Byte)
  BY SeqDef
<1>2. Len(s) \in Nat /\ 1 .. Len(s) = 1 .. m
  BY <1>1, LenProperties
<1> QED
  BY <1>1, <1>2

LEMMA AsSeqIs ==
    ASSUME NEW m \in Nat, NEW a, \A k \in 0 .. m - 1 : a[k] \in Byte
    PROVE  /\ AsSeq(a, m) \in Seq(Byte) /\ Len(AsSeq(a, m)) = m
           /\ AsSeq(a, m) = <<>> <=> m = 0
<1>1. AsSeq(a, m) \in [1 .. m -> Byte]
  BY DEF AsSeq
<1>2. AsSeq(a, m) \in Seq(Byte) /\ Len(AsSeq(a, m)) = m
  BY <1>1, SeqOfLen
<1>3. <<>> \in Seq(Byte) /\ Len(<<>>) = 0
  BY EmptySeq
<1>4. m = 0 => AsSeq(a, m) = <<>>
  BY <1>2, <1>3, SeqEqual
<1> QED
  BY <1>2, <1>3, <1>4

\* The buffer that the original would have.
Bar == AsSeq(aBuffer, nBuffer)

LEMMA BarIs ==
    ASSUME RefInv
    PROVE  /\ Bar \in Seq(Byte) /\ Len(Bar) = nBuffer /\ (Bar = <<>> <=> nBuffer = 0)
           /\ \A k \in 1 .. nBuffer : Bar[k] = aBuffer[k - 1]
<1>1. nBuffer \in Nat /\ \A k \in 0 .. nBuffer - 1 : aBuffer[k] \in Byte
  BY Constants DEF RefInv, SafeInv, BaseInv, TypeOK, HandleType
<1> QED
  BY <1>1, AsSeqIs DEF Bar, AsSeq

\* Its vocabulary.
LEMMA DemoWords ==
    /\ Demo!NoCall = NoCall /\ Demo!NoData = NoData /\ Demo!Offsets = Offsets
    /\ Demo!EmptyFile = EmptyFile /\ Demo!nBuffer = Len(Bar)
    /\ \A r, out, size : Demo!Reply(r, out, size) = [rc |-> r, out |-> out, size |-> size]
    /\ \A f, x, z, k : Demo!Put(f, x, z, k) = Put(f, x, z, k)
    /\ \A f, x, k : Demo!Slice(f, x, k) = Slice(f, x, k)
  BY DEF Demo!NoCall, NoCall, Demo!NoData, NoData, Demo!Offsets, Offsets, Demo!EmptyFile, EmptyFile,
         Demo!Reply, Demo!Extent, Extent, Demo!Put, Put, Demo!Slice, Slice, Demo!nBuffer, Bar, AsSeq

\* A method that returns does so in the original.
LEMMA DemoReturn ==
    ASSUME NEW r, NEW out, NEW size, Return(r, out, size)
    PROVE  Demo!Return(r, out, size)
  BY DEF Return, Demo!Return, DemoPc, NoCall, Demo!NoCall, NoData, Demo!NoData, Offsets,
         Demo!Offsets, Demo!Reply

LEMMA DemoReturnRc == ASSUME NEW r, ReturnRc(r) PROVE Demo!ReturnRc(r)
  BY DemoReturn, DemoWords DEF ReturnRc, Demo!ReturnRc

\* Opening a file, and the methods that do nothing.
LEMMA DemoOpen ==
    ASSUME RefInv, RpcFaults = FALSE, demoOpen \/ demoTruncate \/ NoOpMethod
    PROVE  Demo!Next
<1>0. DemoPc = "idle" /\ UNCHANGED <<disk, durable>>
  BY DEF demoOpen, demoTruncate, NoOpMethod, DemoPc, linux
<1>1. CASE demoOpen
  <2>1. CASE UNCHANGED handle /\ \E r \in {"IOERR", "NOMEM", "CANTOPEN"} : ReturnRc(r)
    <3>1. Demo!demoOpen
      BY <1>0, <1>1, <2>1, DemoReturnRc DEF demoOpen, opened, handle, Demo!demoOpen, Demo!handle, Demo!file
    <3> QED
      BY <3>1 DEF Demo!Next
  <2>2. CASE kind' \in {"journal", "direct"} /\ nBuffer' = 0 /\ iBufferOfst' = 0 /\ ReturnRc("OK")
    <3>1. Bar' = <<>>
      BY <2>2, AsSeqIs DEF Bar
    <3>2. Demo!demoOpen
      BY <1>0, <1>1, <2>2, <3>1, DemoReturnRc DEF demoOpen, opened, Demo!demoOpen, Demo!file, Bar, AsSeq
    <3> QED
      BY <3>2 DEF Demo!Next
  <2> QED
    BY <1>1, <2>1, <2>2 DEF demoOpen
<1>2. CASE demoTruncate
  BY <1>0, <1>2, DemoReturnRc DEF demoTruncate, Demo!demoTruncate, opened, handle, Demo!handle,
                                  Demo!file, Demo!Next
<1>3. CASE NoOpMethod
  BY <1>0, <1>3, DemoReturnRc DEF NoOpMethod, Demo!NoOpMethod, opened, handle, Demo!handle,
                                  Demo!file, Demo!Next
<1> QED
  BY <1>1, <1>2, <1>3

\* The entries of the methods that flush first.
LEMMA DemoFlushFirst ==
    ASSUME RefInv, demoRead \/ demoSync \/ demoFileSize \/ demoClose
    PROVE  Demo!Next
<1>0. Len(Bar) = nBuffer /\ nBuffer \in Nat
  BY BarIs, Constants DEF RefInv, SafeInv, BaseInv, TypeOK, HandleType
<1>1. ASSUME NEW c, c.op \in Ops, NEW next, Enter(c),
             next = CASE AfterFlush(c.op) = "rd_lseek" -> "read" [] OTHER -> AfterFlush(c.op)
      PROVE  Demo!Enter(c, next)
  <2>1. DemoPc' = IF nBuffer > 0 THEN "write" ELSE next
    BY <1>0, <1>1 DEF Enter, DemoPc, AfterFlush, Ops
  <2>2. UNCHANGED <<disk, durable, kind, Bar, iBufferOfst, zBuf, n, rc>> /\ call' = c /\ reply' = NoReply
    BY <1>1 DEF Enter, linux, handle, Bar
  <2>3. DemoPc = "idle" /\ kind # "closed"
    BY <1>1 DEF Enter, DemoPc, opened
  <2> QED
    BY <1>0, <2>1, <2>2, <2>3, DemoWords DEF Demo!Enter, Demo!file, Demo!handle, NoReply, Bar, AsSeq
<1>2. CASE demoRead
  <2>1. PICK iAmt \in 1 .. MaxOfst, iOfst \in Offsets :
           /\ iOfst + iAmt <= MaxOfst
           /\ Enter([op |-> "read", iAmt |-> iAmt, iOfst |-> iOfst])
    BY <1>2 DEF demoRead
  <2>2. Demo!Enter([op |-> "read", iAmt |-> iAmt, iOfst |-> iOfst], "read")
    BY <1>1, <2>1 DEF AfterFlush, Ops
  <2>3. Demo!demoRead
    BY <2>1, <2>2, DemoWords DEF Demo!demoRead
  <2> QED
    BY <2>3 DEF Demo!Next
<1>3. CASE demoSync
  <2>1. Demo!Enter([op |-> "sync", iAmt |-> 0, iOfst |-> 0], "fsync")
    BY <1>1, <1>3 DEF demoSync, AfterFlush, Ops
  <2> QED
    BY <2>1 DEF Demo!demoSync, Demo!Next
<1>4. CASE demoFileSize
  <2>1. Demo!Enter([op |-> "filesize", iAmt |-> 0, iOfst |-> 0], "fstat")
    BY <1>1, <1>4 DEF demoFileSize, AfterFlush, Ops
  <2> QED
    BY <2>1 DEF Demo!demoFileSize, Demo!Next
<1>5. CASE demoClose
  <2>1. Demo!Enter([op |-> "close", iAmt |-> 0, iOfst |-> 0], "close")
    BY <1>1, <1>5 DEF demoClose, AfterFlush, Ops
  <2> QED
    BY <2>1 DEF Demo!demoClose, Demo!Next
<1> QED
  BY <1>2, <1>3, <1>4, <1>5

\* Both flush at the same moments.
LEMMA SameFlush ==
    ASSUME NEW buf \in Seq(Byte), NEW ofst, NEW i, buf = <<>> <=> Len(buf) = 0
    PROVE  Demo!MustFlush(buf, ofst, i) <=> NeedFlush(Len(buf), ofst, i)
  BY DEF Demo!MustFlush, NeedFlush

LEMMA DemoWrite ==
    ASSUME RefInv, demoWrite
    PROVE  Demo!demoWrite
<1>0. Bar \in Seq(Byte) /\ Len(Bar) = nBuffer /\ (Bar = <<>> <=> nBuffer = 0)
  BY BarIs
<1>1. PICK iAmt \in 1 .. MaxOfst, iOfst \in Offsets :
         /\ iOfst + iAmt <= MaxOfst
         /\ zBuf' \in Payloads
         /\ call' = [op |-> "write", iAmt |-> iAmt, iOfst |-> iOfst]
         /\ n' = iAmt
         /\ pc' = IF ~hasBuffer \/ NeedFlush(nBuffer, iBufferOfst, iOfst)
                  THEN "dw_lseek" ELSE "copy"
  BY DEF demoWrite
<1>2. /\ UNCHANGED <<disk, durable, kind, Bar, iBufferOfst, rc>> /\ reply' = NoReply
      /\ pc = "idle" /\ kind \in {"journal", "direct"}
  BY DEF demoWrite, linux, handle, Bar, opened, RefInv, SafeInv, BaseInv, TypeOK, HandleType
<1>3. Demo!MustFlush(Bar, iBufferOfst, iOfst) <=> NeedFlush(nBuffer, iBufferOfst, iOfst)
  BY <1>0, SameFlush
<1>4. DemoPc = "idle" /\ DemoPc' = IF kind = "direct" \/ Demo!MustFlush(Bar, iBufferOfst, iOfst)
                                   THEN "write" ELSE "copy"
  BY <1>1, <1>2, <1>3 DEF DemoPc, hasBuffer
<1> QED
  BY <1>1, <1>2, <1>4, DemoWords DEF Demo!demoWrite, Demo!file, Demo!handle, NoReply, Bar, AsSeq

\* A turn of the copy loop: the bytes go behind those in the buffer.
LEMMA DemoCopy ==
    ASSUME RefInv, Copy
    PROVE  Demo!Copy
<1>0. /\ Bar \in Seq(Byte) /\ Len(Bar) = nBuffer /\ (Bar = <<>> <=> nBuffer = 0)
      /\ \A k \in 1 .. nBuffer : Bar[k] = aBuffer[k - 1]
  BY BarIs
<1>1. /\ nBuffer \in Nat /\ nBuffer < BUFFERSZ /\ BUFFERSZ \in Nat /\ n \in Nat /\ nCopy \in 1 .. n
      /\ aBuffer \in [0 .. BUFFERSZ - 1 -> Byte] /\ zBuf \in [Offsets -> Byte]
      /\ call.iAmt \in Nat /\ n <= call.iAmt /\ call.iAmt <= MaxOfst /\ MaxOfst \in Nat
      /\ nBuffer + nCopy <= BUFFERSZ /\ call.iOfst \in Nat
  BY Constants DEF Copy, RefInv, SafeInv, BaseInv, CopyAsserts, TypeOK, HandleType, FrameType,
                   FrameInv, Calls, nCopy
<1> DEFINE new == [k \in 1 .. nCopy |-> zBuf[call.iAmt - n + k - 1]]
<1>2. new \in [1 .. nCopy -> Byte]
  BY <1>1 DEF Offsets
<1>3. new \in Seq(Byte) /\ Len(new) = nCopy
  BY <1>1, <1>2, SeqOfLen
<1> HIDE DEF new
<1>4. nBuffer' = nBuffer + nCopy /\ iBufferOfst' = iNow - nBuffer
  BY DEF Copy
<1>5. \A k \in 0 .. BUFFERSZ - 1 : aBuffer'[k] = IF nBuffer <= k /\ k < nBuffer + nCopy
                                               THEN zBuf[zNow + k - nBuffer] ELSE aBuffer[k]
  BY DEF Copy
<1>6. \A k \in 0 .. BUFFERSZ - 1 : aBuffer'[k] \in Byte
  <2>1. aBuffer' \in [0 .. BUFFERSZ - 1 -> Byte]
    BY CopyBase DEF RefInv, SafeInv, BaseInv, TypeOK, HandleType
  <2> QED
    BY <2>1
<1>7. Bar' \in Seq(Byte) /\ Len(Bar') = nBuffer + nCopy /\ (Bar' = <<>> <=> nBuffer' = 0)
  <2>1. nBuffer' \in Nat /\ \A k \in 0 .. nBuffer' - 1 : aBuffer'[k] \in Byte
    BY <1>1, <1>4, <1>6
  <2> QED
    BY <1>4, <2>1, AsSeqIs DEF Bar
<1>8. Bar' = Bar \o new
  <2>1. /\ Bar \o new \in Seq(Byte) /\ Len(Bar \o new) = nBuffer + nCopy
        /\ \A k \in 1 .. nBuffer + nCopy :
              (Bar \o new)[k] = IF k <= nBuffer THEN Bar[k] ELSE new[k - nBuffer]
    <3>1. Bar \o new \in Seq(Byte) /\ Len(Bar \o new) = Len(Bar) + Len(new)
      BY <1>0, <1>3
    <3>2. \A k \in 1 .. Len(Bar) + Len(new) :
             (Bar \o new)[k] = IF k <= Len(Bar) THEN Bar[k] ELSE new[k - Len(Bar)]
      BY <1>0, <1>3
    <3> QED
      BY <1>0, <1>3, <3>1, <3>2, Zenon
  <2>2. ASSUME NEW k \in 1 .. nBuffer + nCopy
        PROVE  Bar'[k] = (Bar \o new)[k]
    <3>1. Bar'[k] = aBuffer'[k - 1] /\ k - 1 \in 0 .. BUFFERSZ - 1
      BY <1>1, <1>4 DEF Bar, AsSeq
    <3>2. CASE k <= nBuffer
      BY <1>0, <1>1, <1>5, <2>1, <3>1, <3>2
    <3>3. CASE k > nBuffer
      <4>1. aBuffer'[k - 1] = zBuf[zNow + (k - 1) - nBuffer]
        BY <1>1, <1>5, <3>1, <3>3
      <4>2. k - nBuffer \in 1 .. nCopy /\ new[k - nBuffer] = zBuf[call.iAmt - n + (k - nBuffer) - 1]
        BY <1>1, <3>3 DEF new
      <4>3. zNow + (k - 1) - nBuffer = call.iAmt - n + (k - nBuffer) - 1
        BY <1>1 DEF zNow
      <4> QED
        BY <1>1, <2>1, <3>1, <3>3, <4>1, <4>2, <4>3
    <3>4. k <= nBuffer \/ k > nBuffer
      BY <1>1
    <3> QED
      BY <3>2, <3>3, <3>4, Zenon
  <2> QED
    BY <1>7, <2>1, <2>2, SeqEqual
<1>9. /\ DemoPc = "copy" /\ UNCHANGED <<disk, durable, kind>>
      /\ IF nCopy = n THEN ReturnRc("OK")
         ELSE /\ n' = n - nCopy
              /\ pc' = IF NeedFlush(nBuffer', iBufferOfst', iNow + nCopy) THEN "dw_lseek" ELSE "copy"
              /\ UNCHANGED <<call, zBuf, rc, reply>>
  BY DEF Copy, DemoPc, linux
<1>10. Demo!MustFlush(Bar', iBufferOfst', iNow + nCopy)
         <=> NeedFlush(nBuffer', iBufferOfst', iNow + nCopy)
  BY <1>4, <1>7, SameFlush, <1>1
<1>11. nCopy # n => DemoPc' = IF Demo!MustFlush(Bar', iBufferOfst', iNow + nCopy) THEN "write" ELSE "copy"
  BY <1>9, <1>10 DEF DemoPc
<1>12. nCopy = IF BUFFERSZ - Len(Bar) > n THEN n ELSE BUFFERSZ - Len(Bar)
  BY <1>0 DEF nCopy
<1>13. nCopy = n => Demo!ReturnRc("OK")
  BY <1>9, DemoReturnRc
<1>14. iBufferOfst' = (call.iOfst + call.iAmt - n) - Len(Bar)
  BY <1>0, <1>4 DEF iNow
<1> DEFINE nc == IF BUFFERSZ - Demo!nBuffer > n THEN n ELSE BUFFERSZ - Demo!nBuffer
<1>15. nc = nCopy /\ Demo!nBuffer = Len(Bar)
  BY <1>12, DemoWords
<1>16. Bar' = Bar \o [k \in 1 .. nc |-> zBuf[call.iAmt - n + k - 1]]
  BY <1>8, <1>15 DEF new
<1>17. IF nc = n THEN Demo!ReturnRc("OK")
       ELSE /\ n' = n - nc
            /\ DemoPc' = IF Demo!MustFlush(Bar', iBufferOfst', (call.iOfst + call.iAmt - n) + nc)
                         THEN "write" ELSE "copy"
            /\ UNCHANGED <<call, zBuf, rc, reply>>
  BY <1>9, <1>11, <1>13, <1>15 DEF iNow
<1> QED
  BY <1>9, <1>14, <1>15, <1>16, <1>17 DEF Demo!Copy, Demo!file, Bar, AsSeq

\* demoDirectWrite: its lseek is a step that the original does not see, unless it fails.
LEMMA DemoDirectWrite ==
    ASSUME RefInv, RpcFaults = FALSE, WriteLseek \/ WriteWrite
    PROVE  Demo!demoDirectWrite \/ UNCHANGED Demo!vars
<1>0. /\ nBuffer \in Nat /\ Len(Bar) = nBuffer /\ \A k \in 1 .. nBuffer : Bar[k] = aBuffer[k - 1]
  BY BarIs, Constants DEF RefInv, SafeInv, BaseInv, TypeOK, HandleType
<1>1. /\ pc \in {"dw_lseek", "dw_write"} /\ call.op \in Ops /\ kind \in {"journal", "direct"}
      /\ call.iOfst \in Nat /\ call.iAmt \in Nat /\ iBufferOfst \in Nat /\ disk \in File
      /\ dwAmt \in Nat /\ dwAmt > 0 /\ dwOfst \in Nat /\ UNCHANGED <<durable, kind, iBufferOfst, aBuffer>>
      /\ ~hasBuffer => call.op = "write"
  BY <1>0, Constants DEF WriteLseek, WriteWrite, RefInv, SafeInv, BaseInv, TypeOK, LinuxType,
       HandleType, FrameType, FrameInv, Calls, dwAmt, dwOfst, hasBuffer, opened
<1> DEFINE flush == kind = "journal"
           data == IF flush THEN [k \in 0 .. Demo!nBuffer - 1 |-> Bar[k + 1]] ELSE zBuf
           ofst == IF flush THEN iBufferOfst ELSE call.iOfst
           iAmt == IF flush THEN Demo!nBuffer ELSE call.iAmt
<1>2. flush = hasBuffer /\ ofst = dwOfst /\ iAmt = dwAmt
  BY <1>0, DemoWords DEF hasBuffer, dwOfst, dwAmt
<1>3. ASSUME NEW k \in 0 .. dwAmt
      PROVE  Put(disk, dwOfst, data, k) = Put(disk, dwOfst, dwData, k)
  <2>1. \A o \in Extent(dwOfst, k) : o - dwOfst \in 0 .. dwAmt - 1
    BY <1>1 DEF Extent, Offsets
  <2>2. \A j \in 0 .. dwAmt - 1 : data[j] = dwData[j]
    <3>1. CASE flush
      <4>1. dwAmt = nBuffer /\ dwData = aBuffer /\ Demo!nBuffer = nBuffer
        BY <1>0, <3>1, DemoWords DEF hasBuffer, dwAmt, dwData
      <4>2. \A j \in 0 .. nBuffer - 1 : Bar[j + 1] = aBuffer[j]
        BY <1>0
      <4> QED
        BY <3>1, <4>1, <4>2
    <3>2. CASE ~flush
      BY <3>2 DEF hasBuffer, dwData
    <3> QED
      BY <3>1, <3>2
  <2> HIDE DEF data
  <2>3. [o \in Offsets |-> IF o \in Extent(dwOfst, k) THEN data[o - dwOfst] ELSE disk.data[o]]
        = [o \in Offsets |-> IF o \in Extent(dwOfst, k) THEN dwData[o - dwOfst] ELSE disk.data[o]]
    BY <2>1, <2>2
  <2> QED
    BY <2>3 DEF Put
<1> HIDE DEF data
<1>4. CASE WriteLseek /\ pc' = "dw_write" /\ UNCHANGED <<call, zBuf, n, rc, reply, nBuffer>>
  <2>1. DemoPc' = DemoPc /\ disk' = disk /\ Bar' = Bar
    BY <1>1, <1>4 DEF DemoPc, WriteLseek, Bar
  <2> QED
    BY <1>1, <1>4, <2>1 DEF Demo!vars, Demo!file, Demo!handle, Bar, AsSeq
<1>5. ASSUME nBuffer' = 0 PROVE Bar' = <<>>
  BY <1>5, AsSeqIs DEF Bar
<1>6. DemoPc = "write"
  BY <1>1 DEF DemoPc
<1>7. ASSUME NEW k \in 0 .. dwAmt, disk' = Put(disk, dwOfst, dwData, k),
             (k = dwAmt /\ WriteDone) \/ (k # dwAmt /\ WriteFailed)
      PROVE  Demo!demoDirectWrite
  <2>1. Bar' = <<>>
    BY <1>5, <1>7 DEF WriteDone, WriteFailed
  <2>2. k \in 0 .. iAmt /\ disk' = Demo!Put(disk, ofst, data, k)
    BY <1>2, <1>3, <1>7, DemoWords
  <2>3. ASSUME k = iAmt
        PROVE  IF flush THEN DemoPc' = Demo!Then(call.op) /\ UNCHANGED <<call, zBuf, n, rc, reply>>
                        ELSE Demo!ReturnRc("OK")
    <3>1. WriteDone
      BY <1>2, <1>7, <2>3
    <3>2. CASE ~flush
      BY <1>2, <3>1, <3>2, DemoReturnRc DEF WriteDone
    <3>3. CASE flush
      <4>1. pc' = AfterFlush(call.op) /\ UNCHANGED <<call, zBuf, n, rc, reply>>
        BY <1>2, <3>1, <3>3 DEF WriteDone
      <4>2. call.op = "read" => pc' = "rd_lseek" /\ Demo!Then(call.op) = "read"
        BY <4>1 DEF AfterFlush, Demo!Then
      <4>3. call.op = "write" => pc' = "copy" /\ Demo!Then(call.op) = "copy"
        BY <4>1 DEF AfterFlush, Demo!Then
      <4>4. call.op = "sync" => pc' = "fsync" /\ Demo!Then(call.op) = "fsync"
        BY <4>1 DEF AfterFlush, Demo!Then
      <4>5. call.op = "filesize" => pc' = "fstat" /\ Demo!Then(call.op) = "fstat"
        BY <4>1 DEF AfterFlush, Demo!Then
      <4>6. call.op = "close" => pc' = "close" /\ Demo!Then(call.op) = "close"
        BY <4>1 DEF AfterFlush, Demo!Then
      <4> QED
        BY <1>1, <3>3, <4>1, <4>2, <4>3, <4>4, <4>5, <4>6 DEF DemoPc, Ops
    <3> QED
      BY <3>2, <3>3
  <2>4. ASSUME k # iAmt
        PROVE  IF call.op = "close"
               THEN DemoPc' = "close" /\ rc' = "IOERR_WRITE" /\ UNCHANGED <<call, zBuf, n, reply>>
               ELSE Demo!ReturnRc("IOERR_WRITE")
    <3>1. WriteFailed
      BY <1>2, <1>7, <2>4
    <3> QED
      BY <3>1, DemoReturnRc DEF WriteFailed, DemoPc
  <2> QED
    BY <1>1, <1>6, <2>1, <2>2, <2>3, <2>4 DEF Demo!demoDirectWrite, data, Bar, AsSeq
<1>8. CASE WriteLseek /\ WriteFailed
  <2>1. disk' = Put(disk, dwOfst, dwData, 0) /\ 0 \in 0 .. dwAmt /\ 0 # dwAmt
    BY <1>1, <1>8, PutNone DEF WriteLseek
  <2> QED
    BY <1>7, <1>8, <2>1
<1>9. CASE WriteWrite
  <2>1. pos = dwOfst /\ fd = "file"
    BY <1>9 DEF WriteWrite, RefInv, SafeInv, WriteAtOffset
  <2> QED
    BY <1>7, <1>9, <2>1 DEF WriteWrite
<1> QED
  BY <1>4, <1>8, <1>9 DEF WriteLseek

\* The methods that find the buffer flushed.
LEMMA DemoRest ==
    ASSUME RefInv, RpcFaults = FALSE, ReadLseek \/ ReadRead \/ Fsync \/ FileSize \/ CloseClose
    PROVE  Demo!Next \/ UNCHANGED Demo!vars
<1>0. disk' = disk /\ Behind = disk
  BY DEF ReadLseek, ReadRead, Fsync, FileSize, CloseClose, linux, Behind, RefInv
<1>1. CASE ReadLseek \/ ReadRead
  <2>0. DemoPc = "read" /\ UNCHANGED <<durable, kind, aBuffer, nBuffer, iBufferOfst>>
    BY <1>1 DEF DemoPc, ReadLseek, ReadRead, handle
  <2>1. CASE ReturnRc("IOERR_READ")
    BY <1>0, <2>0, <2>1, DemoReturnRc DEF Demo!Read, Demo!file, Demo!handle, Demo!Next
  <2>2. CASE ReadLseek /\ ~ReturnRc("IOERR_READ")
    BY <1>0, <2>0, <2>2 DEF ReadLseek, DemoPc, Demo!vars, Demo!file, Demo!handle
  <2>3. CASE ReadRead /\ ~ReturnRc("IOERR_READ")
    <3>1. pc = "rd_read" /\ Return(ReadRc(Available), Slice(disk, pos, Available), 0)
      BY <1>0, <2>3 DEF ReadRead
    <3>2. pos = call.iOfst /\ pos \in Nat /\ call.iAmt \in Nat /\ disk.size \in Nat
      BY <3>1, Constants DEF RefInv, CallInv, SafeInv, BaseInv, TypeOK, LinuxType, FrameType, Calls, File
    <3> DEFINE left == IF call.iOfst >= disk.size THEN 0 ELSE disk.size - call.iOfst
               nRead == IF left < call.iAmt THEN left ELSE call.iAmt
    <3>3. nRead = Available
      BY <1>0, <3>2 DEF Available
    <3>4. Demo!Return(IF nRead = call.iAmt THEN "OK" ELSE "SHORT_READ",
                      Demo!Slice(disk, call.iOfst, nRead), 0)
      BY <3>1, <3>2, <3>3, DemoReturn, DemoWords DEF ReadRc
    <3>5. Demo!Read
      BY <1>0, <2>0, <3>4 DEF Demo!Read, Demo!file, Demo!handle
    <3> QED
      BY <3>5 DEF Demo!Next
  <2> QED
    BY <1>1, <2>1, <2>2, <2>3
<1>2. CASE Fsync
  BY <1>0, <1>2, DemoReturnRc DEF Fsync, handle, DemoPc, Demo!Fsync, Demo!handle, Demo!Next
<1>3. CASE FileSize
  <2>1. Demo!Return("OK", Demo!NoData, disk.size) \/ Demo!ReturnRc("IOERR_FSTAT")
    BY <1>0, <1>3, DemoReturn, DemoReturnRc, DemoWords DEF FileSize
  <2> QED
    BY <1>0, <1>3, <2>1 DEF FileSize, linux, handle, DemoPc, Demo!Fstat, Demo!file, Demo!handle, Demo!Next
<1>4. CASE CloseClose
  <2>1. Bar' = <<>>
    BY <1>4, AsSeqIs DEF Bar, CloseClose
  <2>2. Demo!ReturnRc(rc)
    BY <1>4, DemoReturnRc DEF CloseClose
  <2> QED
    BY <1>4, <2>1, <2>2 DEF CloseClose, DemoPc, Demo!Close, Demo!file, Demo!Next, Bar, AsSeq
<1> QED
  BY <1>1, <1>2, <1>3, <1>4

\* Crashes.
LEMMA DemoCrash ==
    ASSUME RefInv, TaPanic \/ PowerLoss
    PROVE  Demo!Next
<1>0. disk \in File /\ durable \in File
  BY DEF RefInv, SafeInv, BaseInv, TypeOK, LinuxType
<1>1. Demo!HandleGone
  <2>1. Bar' = <<>>
    BY AsSeqIs DEF Bar, TaPanic, PowerLoss, HandleGone
  <2>2. ReturnRc("OK")
    BY DEF TaPanic, PowerLoss, HandleGone, ReturnRc, Return, NoReply
  <2> QED
    BY <2>1, <2>2, DemoReturnRc DEF TaPanic, PowerLoss, HandleGone, Demo!HandleGone, Bar, AsSeq
<1>2. CASE TaPanic
  BY <1>1, <1>2 DEF TaPanic, opened, Demo!Dies, Demo!file, Demo!Next
<1>3. CASE PowerLoss
  <2>1. PICK old \in SUBSET Offsets, size \in {durable.size, disk.size} :
          disk' = [data |-> [o \in Offsets |->
                                IF o >= size THEN Zero
                                ELSE IF o \in old THEN durable.data[o]
                                ELSE disk.data[o]],
                   size |-> size]
    BY <1>3 DEF PowerLoss
  <2>2. size \in Int
    BY <1>0, Constants DEF File
  <2>3. ASSUME NEW o \in Offsets
        PROVE  disk'.data[o] \in IF o < disk'.size THEN {durable.data[o], disk.data[o]} ELSE {Zero}
    BY <2>1, <2>2, Constants DEF Offsets
  <2>4. disk'.size \in {durable.size, disk.size} /\ durable' = disk'
    BY <1>3, <2>1 DEF PowerLoss
  <2> QED
    BY <1>1, <2>3, <2>4, DemoWords DEF Demo!PowerLoss, Demo!Next
<1> QED
  BY <1>2, <1>3

\* Every step of the port is a step of the original, or none.
LEMMA DemoStep ==
    ASSUME RpcFaults = FALSE
    PROVE  RefInv /\ [Next]_vars => [Demo!Next]_(Demo!vars)
<1> SUFFICES ASSUME RefInv, [Next]_vars
             PROVE  Demo!Next \/ UNCHANGED Demo!vars
  OBVIOUS
<1>1. CASE UNCHANGED vars
  BY <1>1 DEF vars, linux, handle, frame, Demo!vars, Demo!file, Demo!handle, DemoPc
<1>2. CASE Method
  BY <1>2, DemoOpen, DemoFlushFirst, DemoWrite DEF Method, Demo!Next
<1>3. CASE Step
  BY <1>3, DemoCopy, DemoDirectWrite, DemoRest DEF Step, Demo!Next
<1>4. CASE TaPanic \/ PowerLoss
  BY <1>4, DemoCrash
<1> QED
  BY <1>1, <1>2, <1>3, <1>4 DEF Next

\* The original starts in the same state.
LEMMA DemoInit == Init => Demo!Init
<1> SUFFICES ASSUME Init PROVE Demo!Init
  OBVIOUS
<1>1. Bar = <<>>
  BY AsSeqIs DEF Init, Bar
<1> QED
  BY <1>1, DemoWords DEF Init, Demo!Init, DemoPc, NoReply, Bar, AsSeq

\* Unless an RPC fails, the methods of tee_vfs.c do what those of demovfs.c do: every
\* behaviour of the port is one of the original, for every buffer size and every file.
THEOREM FilesImplementDemo == ASSUME RpcFaults = FALSE PROVE Spec => ImplementsDemo
<1>1. Init => RefInv /\ Demo!Init
  BY InitRef, DemoInit
<1>2. RefInv /\ [Next]_vars => RefInv'
  BY NextRef
<1>3. RefInv /\ [Next]_vars => [Demo!Next]_(Demo!vars)
  BY DemoStep
<1> QED
  BY <1>1, <1>2, <1>3, PTL DEF Spec, ImplementsDemo, Demo!Spec
=============================================================================
