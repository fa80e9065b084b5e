----------------------------- MODULE FileBytes -----------------------------
(***************************************************************************)
(* Files as the Linux side of tee_sqlite keeps them: a byte at every       *)
(* offset, and a length.  A byte at or past the end reads as Zero, so a    *)
(* write past the end leaves a hole of zeros, as write(2) does.            *)
(***************************************************************************)
EXTENDS Integers

CONSTANTS
    Byte,       \* the values a byte can have
    Zero,       \* the byte a hole reads as, and memset(.., 0, ..) stores
    MaxOfst     \* BOUND: the largest length of a file (the device is full there)

ASSUME ByteAssumption == Zero \in Byte
ASSUME MaxOfstAssumption == MaxOfst \in Nat

Offsets == 0 .. MaxOfst - 1

\* The offsets of n bytes that start at ofst.
Extent(ofst, n) == {o \in Offsets : ofst <= o /\ o < ofst + n}

File == [data : [Offsets -> Byte], size : 0 .. MaxOfst]

EmptyFile == [data |-> [o \in Offsets |-> Zero], size |-> 0]

\* pwrite: file f after the first n bytes of z have been written at ofst.
Put(f, ofst, z, n) ==
    [data |-> [o \in Offsets |-> IF o \in Extent(ofst, n) THEN z[o - ofst]
                                                          ELSE f.data[o]],
     size |-> IF n > 0 /\ ofst + n > f.size THEN ofst + n ELSE f.size]

\* The n bytes of f at ofst, with zeros for those past the end.
Slice(f, ofst, n) ==
    [k \in Offsets |-> IF k < n /\ ofst + k \in Offsets THEN f.data[ofst + k]
                                                        ELSE Zero]
=============================================================================
