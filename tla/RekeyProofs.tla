---------------------------- MODULE RekeyProofs -----------------------------
(***************************************************************************)
(* Proofs that a change of the key is all or nothing, and that a           *)
(* connection with the right key keeps it, for any number of passwords     *)
(* and pages.                                                              *)
(***************************************************************************)
EXTENDS Rekey, TLAPS

(***************************************************************************)
(* The inductive invariant.                                                *)
(***************************************************************************)
ReadKey(d) == sqlite3Codec(codec[d], 3)
WriteKey(d) == sqlite3Codec(codec[d], 6)
Rekeying(d) == tx.op = "rekey" /\ tx.db = d

\* Outside a rekey a codec reads with its read key and, if it has a write key, writes
\* with the same one.  In a rekey it encrypts.
AtRest(c) == c.isEncrypted => c.hasReadKey /\ (c.hasWriteKey => c.writeKey = c.readKey)
CodecInv == \A d \in Dbs : IF Rekeying(d) THEN codec[d].isEncrypted ELSE AtRest(codec[d])

\* What is in the cache was decoded with the key that the database is under.
CacheInv ==
    /\ \A d \in Dbs \ spoiled : \A p \in Pgs :
          cache[d][p] = "none" \/ (cache[d][p] = "good" /\ ReadKey(d) = fileKey[d])
    /\ \A d \in Dbs \ opened : cache[d] = NoPages

\* The transaction under way reads with the key that the database is under.  A page
\* that it changed is in the journal and in the cache, and goes to the file under the
\* key that the database will be under once the journal is deleted; a rekey has changed
\* those before its next page.
TxInv ==
    LET d == tx.db
        key == IF tx.op = "rekey" THEN WriteKey(d) ELSE fileKey[d]
    IN  /\ tx.op = "idle" => dirty = {}
        /\ tx.op # "idle" => d \in opened /\ \A p \in dirty : cache[d][p] # "none"
        /\ tx.op = "rekey" =>
              tx.n >= 1 /\ \A p \in Pgs : journal[d][p] = NoImage <=> p >= tx.n
        /\ tx.op # "idle" /\ d \notin spoiled =>
              /\ ReadKey(d) = fileKey[d]
              /\ \A p \in dirty : journal[d][p] # NoImage
              /\ \A p \in Pgs : journal[d][p] # NoImage =>
                    cache[d][p] = "good" /\ (p \in dirty \/ disk[d][p] = Image(key, "good"))

\* The key of a connection with the right key, during a rekey too.
RightInv == \A d \in right : ReadKey(d) = fileKey[d]

Inv == TypeOK /\ AllOrNothing /\ CodecInv /\ CacheInv /\ TxInv /\ RightInv

-----------------------------------------------------------------------------
(***************************************************************************)
(* The codec.                                                              *)
(***************************************************************************)
Kept == Codecs \cup {NoCodec}

\* The codecs with all flags, and none.
LEMMA CodecTypes == CodecInit \in Codecs /\ ~NoCodec.isEncrypted /\ AtRest(NoCodec)
  BY DEF CodecInit, NoCodec, Codecs, AtRest

\* The journal is written with the key that pages are read with.
LEMMA KeysOfCodec ==
    ASSUME NEW c \in Kept
    PROVE  /\ sqlite3Codec(c, 3) \in Keys \cup {Plain} /\ sqlite3Codec(c, 6) \in Keys \cup {Plain}
           /\ sqlite3Codec(c, 7) = sqlite3Codec(c, 3)
<1>1. c.isEncrypted => c \in Codecs
  BY CodecTypes DEF Kept
<1> QED
  BY <1>1 DEF sqlite3Codec, IsEncrypted, CodecHasReadKey, CodecHasWriteKey, Codecs

\* A codec of sqlite3CodecAttach writes with the key that it reads with.
LEMMA Attached ==
    ASSUME NEW d \in Dbs, NEW w \in Passwords \cup {NoPassword}, NEW n,
           codec \in [Dbs -> Kept], AtRest(codec[Main]), AtRest(codec[d])
    PROVE  CodecAttached(d, w, n) \in Kept /\ AtRest(CodecAttached(d, w, n))
<1>1. CASE w = NoPassword /\ d # Main /\ n > 0 /\ IsEncrypted(codec[Main])
  <2>1. codec[Main] \in Codecs
    BY <1>1, CodecTypes DEF Kept, IsEncrypted, Dbs
  <2>2. CodecCopy(codec[Main]) = codec[Main]
    BY <2>1 DEF CodecCopy, CodecInit, Codecs
  <2> QED
    BY <1>1, <2>1, <2>2 DEF CodecAttached, Kept
<1>2. CASE w = NoPassword /\ ~(d # Main /\ n > 0 /\ IsEncrypted(codec[Main]))
  BY <1>2 DEF CodecAttached
<1>3. CASE w # NoPassword
  <2>1. w.key \in Keys
    BY <1>3 DEF Keys
  <2> QED
    BY <1>3, <2>1 DEF CodecAttached, CodecCopyKey, CodecGenerateReadKey, CodecSet, CodecInit,
                      CodecGenerateEncryptionKey, Codecs, Kept, AtRest
<1> QED
  BY <1>1, <1>2, <1>3

\* The codec of a rekey reads, and so journals, with the key that it read with before.
LEMMA Rekeying_ReadKey ==
    ASSUME NEW c \in Kept, AtRest(c), NEW w \in Passwords \cup {NoPassword},
           w # NoPassword \/ IsEncrypted(c)
    PROVE  /\ RekeyCodec(c, w) \in Codecs /\ RekeyCodec(c, w).isEncrypted
           /\ sqlite3Codec(RekeyCodec(c, w), 3) = sqlite3Codec(c, 3)
<1>1. w # NoPassword => w.key \in Keys
  BY DEF Keys
<1>2. c.isEncrypted => c \in Codecs
  BY CodecTypes DEF Kept
<1>3. CASE ~IsEncrypted(c)
  <2>1. RekeyCodec(c, w) = [isEncrypted |-> TRUE, hasReadKey |-> FALSE, readKey |-> Plain,
                            hasWriteKey |-> TRUE, writeKey |-> w.key]
    BY <1>3 DEF RekeyCodec, CodecGenerateWriteKey, CodecSet, CodecInit, CodecGenerateEncryptionKey
  <2> QED
    BY <1>1, <1>3, <2>1 DEF Codecs, sqlite3Codec, IsEncrypted, CodecHasReadKey
<1>4. CASE IsEncrypted(c)
  <2>1. \E write \in BOOLEAN, k \in Keys \cup {Plain} :
            RekeyCodec(c, w) = [isEncrypted |-> TRUE, hasReadKey |-> c.hasReadKey,
                                readKey |-> c.readKey, hasWriteKey |-> write, writeKey |-> k]
    <3>1. c.isEncrypted /\ c \in Codecs
      BY <1>2, <1>4 DEF IsEncrypted
    <3>2. CASE w = NoPassword
      <4>1. RekeyCodec(c, w) = [isEncrypted |-> TRUE, hasReadKey |-> c.hasReadKey,
                                readKey |-> c.readKey, hasWriteKey |-> FALSE, writeKey |-> c.writeKey]
        BY <3>1, <3>2 DEF RekeyCodec, CodecSet, CodecHasReadKey, IsEncrypted, Codecs
      <4> QED
        BY <3>1, <4>1 DEF Codecs
    <3>3. CASE w # NoPassword
      <4>1. RekeyCodec(c, w) = [isEncrypted |-> TRUE, hasReadKey |-> c.hasReadKey,
                                readKey |-> c.readKey, hasWriteKey |-> TRUE, writeKey |-> w.key]
        BY <3>1, <3>3 DEF RekeyCodec, CodecSet, CodecHasReadKey, IsEncrypted, Codecs,
                          CodecGenerateWriteKey, CodecGenerateEncryptionKey
      <4> QED
        BY <1>1, <3>3, <4>1
    <3> QED
      BY <3>2, <3>3
  <2> QED
    BY <1>2, <1>4, <2>1 DEF Codecs, sqlite3Codec, IsEncrypted, CodecHasReadKey
<1> QED
  BY <1>3, <1>4

\* After a failed rekey a codec reads with the key that it read with.
LEMMA Rekeyed_Failed ==
    ASSUME NEW c \in Codecs, c.isEncrypted
    PROVE  /\ RekeyedCodec(c, "ERROR") \in Kept /\ AtRest(RekeyedCodec(c, "ERROR"))
           /\ sqlite3Codec(RekeyedCodec(c, "ERROR"), 3) = sqlite3Codec(c, 3)
  BY CodecTypes DEF RekeyedCodec, CodecCopyKey, Codecs, Kept, AtRest, sqlite3Codec, IsEncrypted,
         CodecHasReadKey

\* After a rekey it reads and writes with the key that the pages were written with.
LEMMA Rekeyed_OK ==
    ASSUME NEW c \in Codecs, c.isEncrypted
    PROVE  /\ RekeyedCodec(c, "OK") \in Kept /\ AtRest(RekeyedCodec(c, "OK"))
           /\ sqlite3Codec(RekeyedCodec(c, "OK"), 3) = sqlite3Codec(c, 6)
<1>1. CASE ~CodecHasWriteKey(c)
  BY <1>1, CodecTypes DEF RekeyedCodec, Kept, sqlite3Codec, IsEncrypted
<1>2. CASE CodecHasWriteKey(c)
  <2>1. RekeyedCodec(c, "OK") = [isEncrypted |-> TRUE, hasReadKey |-> TRUE, readKey |-> c.writeKey,
                                 hasWriteKey |-> TRUE, writeKey |-> c.writeKey]
    BY <1>2 DEF RekeyedCodec, CodecCopyKey, CodecSet, Codecs
  <2>2. RekeyedCodec(c, "OK") \in Codecs
    <3>1. ASSUME NEW k \in Keys \cup {Plain}
          PROVE  [isEncrypted |-> TRUE, hasReadKey |-> TRUE, readKey |-> k,
                  hasWriteKey |-> TRUE, writeKey |-> k] \in Codecs
      BY DEF Codecs
    <3>2. c.writeKey \in Keys \cup {Plain}
      BY DEF Codecs
    <3> QED
      BY <2>1, <3>1, <3>2
  <2>3. sqlite3Codec(c, 6) = c.writeKey
    BY <1>2 DEF sqlite3Codec, IsEncrypted, CodecHasWriteKey
  <2>4. sqlite3Codec(RekeyedCodec(c, "OK"), 3) = c.writeKey
    BY <2>1 DEF sqlite3Codec, IsEncrypted, CodecHasReadKey
  <2> QED
    BY <2>1, <2>2, <2>3, <2>4 DEF Kept, AtRest
<1> QED
  BY <1>1, <1>2

-----------------------------------------------------------------------------
(***************************************************************************)
(* The steps.                                                              *)
(***************************************************************************)

\* The types, unfolded to what the steps need.
LEMMA Types ==
    ASSUME TypeOK
    PROVE  /\ codec \in [Dbs -> Kept] /\ disk \in [Dbs -> [Pgs -> Images]]
           /\ journal \in [Dbs -> [Pgs -> Images \cup {NoImage}]]
           /\ cache \in [Dbs -> [Pgs -> {"good", "bad", "none"}]]
           /\ fileKey \in [Dbs -> Keys \cup {Plain}]
           /\ tx.op \in {"idle", "write", "rekey"} /\ tx.db \in Dbs /\ tx.n \in 0..N + 1
           /\ opened \subseteq Dbs /\ dirty \subseteq Pgs /\ right \subseteq Dbs /\ spoiled \subseteq Dbs
  BY DEF TypeOK, Kept

\* An image of a page is not the mark of a page that is not in the journal.
LEMMA ImageIsNoMark ==
    ASSUME NEW k \in Keys \cup {Plain}, NEW c \in {"good", "bad"}
    PROVE  Image(k, c) \in Images /\ Image(k, c) # NoImage
  BY DEF Image, Images, NoImage

\* What the next open would find is what is in the journal, and else in the file.
LEMMA RestoredPage ==
    ASSUME NEW d, NEW p \in Pgs
    PROVE  /\ Restored(d)[p] = (IF journal[d][p] # NoImage THEN journal[d][p] ELSE disk[d][p])
           /\ Restored(d)'[p] = (IF journal'[d][p] # NoImage THEN journal'[d][p] ELSE disk'[d][p])
  BY DEF Restored

\* Opening, attaching and sqlite3_key: the database has no pages in the cache.
LEMMA SetCodecStep ==
    ASSUME Inv, NEW d \in Dbs, NEW c \in Kept, AtRest(c), SetCodec(d, c), tx.op = "idle",
           cache[d] = NoPages, opened \subseteq opened', opened' \subseteq Dbs
    PROVE  Inv'
<1> USE DEF SetCodec
<1>0. codec \in [Dbs -> Kept] /\ right \subseteq Dbs
  BY Types DEF Inv
<1>1. TypeOK'
  BY <1>0 DEF Inv, TypeOK, Kept
<1>2. AllOrNothing'
  BY DEF Inv, AllOrNothing, Restored
<1>3. CodecInv'
  BY <1>0 DEF Inv, CodecInv, Rekeying
<1>4. CacheInv'
  BY <1>0 DEF Inv, CacheInv, ReadKey, NoPages
<1>5. TxInv'
  BY DEF Inv, TxInv
<1>6. RightInv'
  BY <1>0 DEF Inv, RightInv, ReadKey
<1> QED
  BY <1>1, <1>2, <1>3, <1>4, <1>5, <1>6 DEF Inv

\* Closing, or a panic: only the file and a hot journal are left.
LEMMA GoneStep ==
    ASSUME Inv, Gone
    PROVE  Inv'
<1>1. TypeOK'
  <2>1. Idle \in [op : {"idle", "write", "rekey"}, db : Dbs, n : 0..N + 1]
    BY PagesAssumption DEF Idle, Dbs
  <2>2. NoPages \in [Pgs -> {"good", "bad", "none"}]
    BY DEF NoPages
  <2> QED
    BY <2>1, <2>2 DEF Inv, TypeOK, Gone
<1>2. AllOrNothing'
  BY DEF Inv, AllOrNothing, Restored, Gone
<1>3. CodecInv' /\ CacheInv' /\ TxInv' /\ RightInv'
  BY CodecTypes DEF Gone, CodecInv, CacheInv, TxInv, RightInv, Rekeying, Idle, NoPages, Dbs
<1> QED
  BY <1>1, <1>2, <1>3 DEF Inv

\* A transaction starts with the file as the next open would find it, and only if the
\* codec reads with the key that the database is under.
LEMMA BeginFacts ==
    ASSUME Inv, NEW d \in Dbs, NEW c \in Kept, sqlite3Codec(c, 3) = ReadKey(d),
           BtreeBeginTrans(d, c)
    PROVE  /\ disk' \in [Dbs -> [Pgs -> Images]]
           /\ journal' \in [Dbs -> [Pgs -> Images \cup {NoImage}]]
           /\ cache' \in [Dbs -> [Pgs -> {"good", "bad", "none"}]]
           /\ dirty' = dirty
           /\ \A e \in Dbs, p \in Pgs : Restored(e)'[p] = Restored(e)[p]
           /\ \A p \in Pgs : journal'[d][p] = NoImage
           /\ d \notin spoiled => ReadKey(d) = fileKey[d]
           /\ \A e \in Dbs, p \in Pgs : cache'[e][p] = cache[e][p] \/ (e = d /\ cache'[e][p] = "good")
           /\ \A e \in Dbs \ {d} : cache'[e] = cache[e]
<1> USE DEF BtreeBeginTrans
<1>0. /\ disk \in [Dbs -> [Pgs -> Images]] /\ journal \in [Dbs -> [Pgs -> Images \cup {NoImage}]]
      /\ cache \in [Dbs -> [Pgs -> {"good", "bad", "none"}]] /\ 1 \in Pgs
  BY Types, PagesAssumption DEF Inv
<1>1. Restored(d) \in [Pgs -> Images]
  BY <1>0 DEF Restored
<1>2. NoJournal \in [Pgs -> Images \cup {NoImage}]
  BY DEF NoJournal
<1>3. /\ disk' \in [Dbs -> [Pgs -> Images]] /\ journal' \in [Dbs -> [Pgs -> Images \cup {NoImage}]]
      /\ cache' \in [Dbs -> [Pgs -> {"good", "bad", "none"}]]
  BY <1>0, <1>1, <1>2
<1>4. ASSUME NEW e \in Dbs, NEW p \in Pgs
      PROVE  Restored(e)'[p] = Restored(e)[p]
  <2>1. CASE e = d
    <3>1. disk'[e] = Restored(d) /\ journal'[e][p] = NoImage
      BY <1>0, <2>1 DEF NoJournal
    <3> QED
      BY <2>1, <3>1, RestoredPage
  <2>2. CASE e # d
    BY <1>0, <2>2, RestoredPage
  <2> QED
    BY <2>1, <2>2
<1>5. \A p \in Pgs : journal'[d][p] = NoImage
  BY <1>0 DEF NoJournal
<1>6. ASSUME d \notin spoiled PROVE ReadKey(d) = fileKey[d]
  <2>1. CASE cache[d][1] # "none"
    BY <1>0, <1>6, <2>1 DEF Inv, CacheInv
  <2>2. CASE cache[d][1] = "none"
    <3>1. CodecDecrypt(Restored(d)[1], ReadKey(d)) = "good"
      BY <2>2 DEF Got
    <3>2. Restored(d)[1] = Image(fileKey[d], "good")
      BY <1>0, <1>6 DEF Inv, AllOrNothing
    <3> QED
      BY <3>1, <3>2 DEF CodecDecrypt, Image
  <2> QED
    BY <2>1, <2>2
<1>7. /\ \A e \in Dbs, p \in Pgs : cache'[e][p] = cache[e][p] \/ (e = d /\ cache'[e][p] = "good")
      /\ \A e \in Dbs \ {d} : cache'[e] = cache[e]
  BY <1>0
<1> QED
  BY <1>3, <1>4, <1>5, <1>6, <1>7

\* A statement, or a rekey, starts a transaction.
LEMMA BeginStep ==
    ASSUME Inv, tx.op = "idle", NEW d \in opened, NEW c \in Kept, sqlite3Codec(c, 3) = ReadKey(d),
           BtreeBeginTrans(d, c), codec' = [codec EXCEPT ![d] = c],
           UNCHANGED <<opened, fileKey, right, spoiled>>,
           \/ tx' = [op |-> "write", db |-> d, n |-> 0] /\ AtRest(c)
           \/ tx' = [op |-> "rekey", db |-> d, n |-> 1] /\ c.isEncrypted
    PROVE  Inv'
<1>0. /\ codec \in [Dbs -> Kept] /\ d \in Dbs /\ opened \subseteq Dbs /\ dirty = {} /\ dirty' = {}
      /\ tx' \in [op : {"idle", "write", "rekey"}, db : Dbs, n : 0..N + 1]
  BY Types, BeginFacts, PagesAssumption DEF Inv, TxInv
<1>a. /\ disk' \in [Dbs -> [Pgs -> Images]]
      /\ journal' \in [Dbs -> [Pgs -> Images \cup {NoImage}]]
      /\ cache' \in [Dbs -> [Pgs -> {"good", "bad", "none"}]]
      /\ \A e \in Dbs, p \in Pgs : Restored(e)'[p] = Restored(e)[p]
      /\ \A p \in Pgs : journal'[d][p] = NoImage
      /\ d \notin spoiled => ReadKey(d) = fileKey[d]
      /\ \A e \in Dbs, p \in Pgs : cache'[e][p] = cache[e][p] \/ (e = d /\ cache'[e][p] = "good")
      /\ \A e \in Dbs \ {d} : cache'[e] = cache[e]
  BY <1>0, BeginFacts
<1>b. \A e \in Dbs : ReadKey(e)' = ReadKey(e)
  BY <1>0 DEF ReadKey
<1>1. TypeOK'
  <2>1. codec' \in [Dbs -> Kept] /\ dirty' \subseteq Pgs
    BY <1>0
  <2> QED
    BY <1>0, <1>a, <2>1 DEF Inv, TypeOK, Kept
<1>2. AllOrNothing'
  BY <1>a DEF Inv, AllOrNothing
<1>3. CodecInv'
  BY <1>0 DEF Inv, CodecInv, Rekeying
<1>4. CacheInv'
  <2>1. ASSUME NEW e \in Dbs \ spoiled, NEW p \in Pgs
        PROVE  cache'[e][p] = "none" \/ (cache'[e][p] = "good" /\ ReadKey(e)' = fileKey[e])
    BY <1>a, <1>b DEF Inv, CacheInv
  <2>2. ASSUME NEW e \in Dbs \ opened PROVE cache'[e] = NoPages
    BY <1>a DEF Inv, CacheInv
  <2> QED
    BY <2>1, <2>2 DEF CacheInv
<1>5. TxInv'
  <2>1. tx'.db = d /\ tx'.op # "idle" /\ (tx'.op = "rekey" => tx'.n = 1)
    OBVIOUS
  <2>2. \A p \in Pgs : p >= 1
    BY DEF Pgs
  <2> QED
    BY <1>0, <1>a, <1>b, <2>1, <2>2 DEF TxInv
<1>6. RightInv'
  BY <1>b, Types DEF Inv, RightInv
<1> QED
  BY <1>1, <1>2, <1>3, <1>4, <1>5, <1>6 DEF Inv

\* A page is changed in the cache, its image journalled under the read key.
LEMMA PagerWriteStep ==
    ASSUME Inv, tx.op # "idle", NEW p \in Pgs, journal[tx.db][p] = NoImage, PagerWrite(tx.db, p),
           tx.db \notin spoiled => Got(tx.db, codec[tx.db], disk[tx.db], p) = "good",
           UNCHANGED <<opened, codec, fileKey, right, spoiled>>,
           tx' \in [op : {"idle", "write", "rekey"}, db : Dbs, n : 0..N + 1],
           tx'.op = tx.op, tx'.db = tx.db, tx.op = "rekey" => tx.n = p /\ tx'.n = p + 1
    PROVE  Inv'
<1> DEFINE d == tx.db
           content == Got(d, codec[d], disk[d], p)
<1>0. /\ codec \in [Dbs -> Kept] /\ disk \in [Dbs -> [Pgs -> Images]]
      /\ journal \in [Dbs -> [Pgs -> Images \cup {NoImage}]]
      /\ cache \in [Dbs -> [Pgs -> {"good", "bad", "none"}]]
      /\ d \in Dbs /\ opened \subseteq Dbs /\ dirty \subseteq Pgs /\ d \in opened
  BY Types DEF Inv, TxInv
<1>1. content \in {"good", "bad"}
  BY <1>0 DEF Got, CodecDecrypt, Images
<1>2. /\ journal' = [journal EXCEPT ![d][p] = Image(ReadKey(d), content)]
      /\ cache' = [cache EXCEPT ![d][p] = content]
      /\ dirty' = dirty \cup {p} /\ disk' = disk
  BY <1>0, KeysOfCodec DEF PagerWrite, CodecEncrypt, ReadKey
<1>3. Image(ReadKey(d), content) \in Images /\ Image(ReadKey(d), content) # NoImage
  BY <1>0, <1>1, KeysOfCodec, ImageIsNoMark DEF ReadKey
<1>4. d \notin spoiled => content = "good" /\ ReadKey(d) = fileKey[d]
  BY DEF Inv, TxInv
<1> HIDE DEF content
<1>5. TypeOK'
  BY <1>0, <1>1, <1>2, <1>3 DEF Inv, TypeOK
<1>6. AllOrNothing'
  <2> SUFFICES ASSUME NEW e \in Dbs \ spoiled, NEW q \in Pgs
               PROVE  Restored(e)'[q] = Image(fileKey[e], "good")
    BY DEF AllOrNothing
  <2>1. Restored(e)[q] = Image(fileKey[e], "good")
    BY DEF Inv, AllOrNothing
  <2>2. CASE e = d /\ q = p
    <3>1. journal'[e][q] = Image(ReadKey(d), content)
      BY <1>0, <1>2, <2>2
    <3> QED
      BY <1>3, <1>4, <2>2, <3>1, RestoredPage
  <2>3. CASE ~(e = d /\ q = p)
    <3>1. journal'[e][q] = journal[e][q] /\ disk'[e][q] = disk[e][q]
      BY <1>0, <1>2, <2>3
    <3> QED
      BY <2>1, <3>1, RestoredPage
  <2> QED
    BY <2>2, <2>3
<1>7. CodecInv'
  BY DEF Inv, CodecInv, Rekeying
<1>8. CacheInv'
  BY <1>0, <1>2, <1>4 DEF Inv, CacheInv, ReadKey
<1>9. TxInv'
  <2>1. \A q \in Pgs : q # p => journal'[d][q] = journal[d][q] /\ cache'[d][q] = cache[d][q]
    BY <1>0, <1>2
  <2>2. journal'[d][p] # NoImage /\ cache'[d][p] = content
    BY <1>0, <1>2, <1>3
  <2>3. tx.op = "rekey" => tx'.n >= 1 /\ \A q \in Pgs : journal'[d][q] = NoImage <=> q >= tx'.n
    BY <2>1, <2>2 DEF Inv, TxInv, Pgs
  <2>4. WriteKey(d)' = WriteKey(d) /\ ReadKey(d)' = ReadKey(d)
    BY DEF WriteKey, ReadKey
  <2>5. \A q \in dirty' : cache'[d][q] # "none"
    BY <1>0, <1>1, <1>2, <2>1, <2>2 DEF Inv, TxInv
  <2>6. ASSUME d \notin spoiled
        PROVE  LET key == IF tx.op = "rekey" THEN WriteKey(d) ELSE fileKey[d]
               IN  /\ \A q \in dirty' : journal'[d][q] # NoImage
                   /\ \A q \in Pgs : journal'[d][q] # NoImage =>
                         cache'[d][q] = "good" /\ (q \in dirty' \/ disk'[d][q] = Image(key, "good"))
    BY <1>0, <1>2, <1>4, <2>1, <2>2, <2>6 DEF Inv, TxInv
  <2> QED
    BY <1>0, <1>4, <2>3, <2>4, <2>5, <2>6 DEF TxInv
<1>10. RightInv'
  BY DEF Inv, RightInv, ReadKey
<1> QED
  BY <1>5, <1>6, <1>7, <1>8, <1>9, <1>10 DEF Inv

\* A changed page goes to the file: its image is in the journal.
LEMMA SpillStep ==
    ASSUME Inv, Spill
    PROVE  Inv'
<1> DEFINE d == tx.db
<1>0. /\ codec \in [Dbs -> Kept] /\ disk \in [Dbs -> [Pgs -> Images]]
      /\ cache \in [Dbs -> [Pgs -> {"good", "bad", "none"}]]
      /\ d \in Dbs /\ dirty \subseteq Pgs /\ spoiled \subseteq Dbs /\ tx.op \in {"write", "rekey"}
  BY Types DEF Inv, Spill
<1>1. PICK p \in dirty :
        /\ disk' = [disk EXCEPT ![d][p] = Image(WriteKey(d), cache[d][p])]
        /\ dirty' = dirty \ {p}
        /\ spoiled' = IF tx.op = "write" /\ IsEncrypted(codec[d]) /\ ~CodecHasWriteKey(codec[d])
                      THEN spoiled \cup {d} ELSE spoiled
  BY DEF Spill, CodecEncrypt, WriteKey
<1>2. UNCHANGED <<opened, codec, journal, cache, tx, fileKey, right>>
  BY DEF Spill
<1>3. p \in Pgs /\ cache[d][p] \in {"good", "bad"}
  BY <1>0 DEF Inv, TxInv
<1>4. Image(WriteKey(d), cache[d][p]) \in Images
  BY <1>0, <1>3, KeysOfCodec, ImageIsNoMark DEF WriteKey
<1>5. TypeOK'
  BY <1>0, <1>1, <1>2, <1>4 DEF Inv, TypeOK
<1>6. AllOrNothing'
  <2> SUFFICES ASSUME NEW e \in Dbs \ spoiled', NEW q \in Pgs
               PROVE  Restored(e)'[q] = Image(fileKey[e], "good")
    BY <1>2 DEF AllOrNothing
  <2>1. e \in Dbs \ spoiled /\ Restored(e)[q] = Image(fileKey[e], "good")
    BY <1>1 DEF Inv, AllOrNothing
  <2>2. CASE e = d /\ q = p
    <3>1. journal[e][q] # NoImage
      BY <1>0, <2>1, <2>2 DEF Inv, TxInv
    <3> QED
      BY <1>2, <2>1, <3>1, RestoredPage
  <2>3. CASE ~(e = d /\ q = p)
    BY <1>0, <1>1, <1>2, <2>1, <2>3, RestoredPage
  <2> QED
    BY <2>2, <2>3
<1>7. CodecInv'
  BY <1>2 DEF Inv, CodecInv, Rekeying
<1>8. CacheInv'
  BY <1>1, <1>2 DEF Inv, CacheInv, ReadKey
<1>9. TxInv'
  <2>1. \A q \in Pgs : q # p => disk'[d][q] = disk[d][q]
    BY <1>0, <1>1
  <2>2. disk'[d][p] = Image(WriteKey(d), cache[d][p])
    BY <1>0, <1>1
  <2>3. WriteKey(d)' = WriteKey(d) /\ ReadKey(d)' = ReadKey(d)
    BY <1>2 DEF WriteKey, ReadKey
  <2>4. ASSUME tx.op = "write", d \notin spoiled'
        PROVE  WriteKey(d) = ReadKey(d)
    <3>1. AtRest(codec[d]) /\ (codec[d].isEncrypted => codec[d].hasWriteKey)
      BY <1>0, <1>1, <2>4 DEF Inv, CodecInv, Rekeying, IsEncrypted, CodecHasWriteKey
    <3> QED
      BY <3>1 DEF AtRest, WriteKey, ReadKey, sqlite3Codec, IsEncrypted, CodecHasReadKey,
                  CodecHasWriteKey
  <2>5. d \notin spoiled' => d \notin spoiled
    BY <1>1
  <2> QED
    BY <1>0, <1>1, <1>2, <1>3, <2>1, <2>2, <2>3, <2>4, <2>5 DEF Inv, TxInv
<1>10. RightInv'
  BY <1>2 DEF Inv, RightInv, ReadKey
<1> QED
  BY <1>5, <1>6, <1>7, <1>8, <1>9, <1>10 DEF Inv

\* A transaction is rolled back, or leaves a hot journal.
LEMMA RollbackStep ==
    ASSUME Inv, tx.op # "idle", tx' = Idle, NEW c \in Kept, AtRest(c),
           sqlite3Codec(c, 3) = ReadKey(tx.db), codec' = [codec EXCEPT ![tx.db] = c],
           BtreeRollback(tx.db), UNCHANGED <<opened, fileKey, right, spoiled>>
    PROVE  Inv'
<1> DEFINE d == tx.db
<1>0. /\ codec \in [Dbs -> Kept] /\ disk \in [Dbs -> [Pgs -> Images]]
      /\ journal \in [Dbs -> [Pgs -> Images \cup {NoImage}]]
      /\ cache \in [Dbs -> [Pgs -> {"good", "bad", "none"}]] /\ d \in Dbs
  BY Types DEF Inv
<1>1. /\ Idle \in [op : {"idle", "write", "rekey"}, db : Dbs, n : 0..N + 1]
      /\ NoPages \in [Pgs -> {"good", "bad", "none"}]
      /\ NoJournal \in [Pgs -> Images \cup {NoImage}] /\ Restored(d) \in [Pgs -> Images]
  BY <1>0, PagesAssumption DEF Idle, Dbs, NoPages, NoJournal, Restored
<1>2. dirty' = {} /\ cache' = [cache EXCEPT ![d] = NoPages]
  BY DEF BtreeRollback
<1>3. /\ disk' \in [Dbs -> [Pgs -> Images]] /\ journal' \in [Dbs -> [Pgs -> Images \cup {NoImage}]]
      /\ \A e \in Dbs, p \in Pgs : Restored(e)'[p] = Restored(e)[p]
  <2>1. CASE UNCHANGED <<disk, journal>>
    BY <1>0, <2>1, RestoredPage
  <2>2. CASE disk' = [disk EXCEPT ![d] = Restored(d)] /\ journal' = [journal EXCEPT ![d] = NoJournal]
    <3>1. \A p \in Pgs : disk'[d][p] = Restored(d)[p] /\ journal'[d][p] = NoImage
      BY <1>0, <2>2 DEF NoJournal
    <3>2. \A e \in Dbs \ {d} : disk'[e] = disk[e] /\ journal'[e] = journal[e]
      BY <1>0, <2>2
    <3>3. ASSUME NEW e \in Dbs, NEW p \in Pgs PROVE Restored(e)'[p] = Restored(e)[p]
      BY <3>1, <3>2, RestoredPage
    <3> QED
      BY <1>0, <1>1, <2>2, <3>3
  <2> QED
    BY <2>1, <2>2 DEF BtreeRollback
<1>4. \A e \in Dbs : ReadKey(e)' = ReadKey(e)
  BY <1>0 DEF ReadKey
<1>5. TypeOK'
  BY <1>0, <1>1, <1>2, <1>3 DEF Inv, TypeOK, Kept
<1>6. AllOrNothing'
  BY <1>3 DEF Inv, AllOrNothing
<1>7. CodecInv'
  BY <1>0 DEF Inv, CodecInv, Rekeying, Idle
<1>8. CacheInv'
  BY <1>0, <1>2, <1>4 DEF Inv, CacheInv, NoPages
<1>9. TxInv'
  BY <1>2 DEF TxInv, Idle
<1>10. RightInv'
  BY <1>4, Types DEF Inv, RightInv
<1> QED
  BY <1>5, <1>6, <1>7, <1>8, <1>9, <1>10 DEF Inv

\* A transaction commits: every page is in the file, under the key that the database
\* is under from now on.
LEMMA CommitStep ==
    ASSUME Inv, tx.op # "idle", tx' = Idle, NEW c \in Kept, AtRest(c), NEW k \in Keys \cup {Plain},
           right' \subseteq right,
           tx.db \in right' => sqlite3Codec(c, 3) = k \/ (k = fileKey[tx.db] /\ c = codec[tx.db]),
           codec' = [codec EXCEPT ![tx.db] = c], BtreeCommit(tx.db, k),
           tx.db \notin spoiled =>
              /\ sqlite3Codec(c, 3) = k \/ cache'[tx.db] = NoPages
              /\ \A p \in Pgs : disk[tx.db][p] = Image(k, "good"),
           UNCHANGED <<opened, spoiled>>
    PROVE  Inv'
<1> DEFINE d == tx.db
<1>0. /\ codec \in [Dbs -> Kept] /\ journal \in [Dbs -> [Pgs -> Images \cup {NoImage}]]
      /\ cache \in [Dbs -> [Pgs -> {"good", "bad", "none"}]] /\ d \in Dbs
      /\ fileKey \in [Dbs -> Keys \cup {Plain}] /\ right \subseteq Dbs
  BY Types DEF Inv
<1>1. /\ Idle \in [op : {"idle", "write", "rekey"}, db : Dbs, n : 0..N + 1]
      /\ NoPages \in [Pgs -> {"good", "bad", "none"}]
      /\ NoJournal \in [Pgs -> Images \cup {NoImage}]
  BY PagesAssumption DEF Idle, Dbs, NoPages, NoJournal
<1>2. /\ dirty' = {} /\ disk' = disk /\ journal' = [journal EXCEPT ![d] = NoJournal]
      /\ fileKey' = [fileKey EXCEPT ![d] = k]
      /\ cache' \in {cache, [cache EXCEPT ![d] = NoPages]}
  BY DEF BtreeCommit
<1>3. \A e \in Dbs : /\ ReadKey(e)' = IF e = d THEN sqlite3Codec(c, 3) ELSE ReadKey(e)
                     /\ fileKey'[e] = IF e = d THEN k ELSE fileKey[e]
  BY <1>0, <1>2 DEF ReadKey
<1>4. cache' \in [Dbs -> [Pgs -> {"good", "bad", "none"}]]
  BY <1>0, <1>1, <1>2
<1>5. TypeOK'
  BY <1>0, <1>1, <1>2, <1>4 DEF Inv, TypeOK, Kept
<1>6. AllOrNothing'
  <2> SUFFICES ASSUME NEW e \in Dbs \ spoiled, NEW p \in Pgs
               PROVE  Restored(e)'[p] = Image(fileKey'[e], "good")
    BY DEF AllOrNothing
  <2>1. CASE e = d
    <3>1. journal'[e][p] = NoImage
      BY <1>0, <1>2, <2>1 DEF NoJournal
    <3> QED
      BY <1>2, <1>3, <2>1, <3>1, RestoredPage
  <2>2. CASE e # d
    <3>1. journal'[e] = journal[e] /\ Restored(e)[p] = Image(fileKey[e], "good")
      BY <1>0, <1>2, <2>2 DEF Inv, AllOrNothing
    <3> QED
      BY <1>2, <1>3, <2>2, <3>1, RestoredPage
  <2> QED
    BY <2>1, <2>2
<1>7. CodecInv'
  BY <1>0 DEF Inv, CodecInv, Rekeying, Idle
<1>8. CacheInv'
  <2>1. ASSUME NEW e \in Dbs \ spoiled, NEW p \in Pgs
        PROVE  cache'[e][p] = "none" \/ (cache'[e][p] = "good" /\ ReadKey(e)' = fileKey'[e])
    <3>1. cache'[e][p] = cache[e][p] \/ cache'[e][p] = "none"
      BY <1>0, <1>2 DEF NoPages
    <3>2. cache[e][p] = "none" \/ (cache[e][p] = "good" /\ ReadKey(e) = fileKey[e])
      BY DEF Inv, CacheInv
    <3>3. e = d => sqlite3Codec(c, 3) = k \/ cache'[e][p] = "none"
      BY DEF NoPages
    <3> QED
      BY <1>3, <3>1, <3>2, <3>3
  <2>2. ASSUME NEW e \in Dbs \ opened PROVE cache'[e] = NoPages
    BY <1>0, <1>2 DEF Inv, CacheInv
  <2> QED
    BY <2>1, <2>2 DEF CacheInv
<1>9. TxInv'
  BY <1>2 DEF TxInv, Idle
<1>10. RightInv'
  <2>1. d \in right' /\ ReadKey(d) = fileKey[d] => sqlite3Codec(c, 3) = k
    BY DEF ReadKey
  <2> QED
    BY <1>0, <1>3, <2>1 DEF Inv, RightInv
<1> QED
  BY <1>5, <1>6, <1>7, <1>8, <1>9, <1>10 DEF Inv

\* Both databases are there, and a codec at rest stays so outside a rekey.
LEMMA Chosen ==
    ASSUME Inv, tx.op = "idle", NEW zDb \in Dbs, Main \in opened
    PROVE  /\ dbFindIndex(zDb) \in opened /\ dbFindIndex(zDb) \in Dbs
           /\ \A d \in Dbs : codec[d] \in Kept /\ AtRest(codec[d])
  BY Types DEF dbFindIndex, Inv, CodecInv, Rekeying

\* Opening and attaching a database, and giving it a key.
LEMMA KeyStep ==
    ASSUME Inv,
           \/ Open \/ Attach
           \/ \E z \in Dbs, w \in Passwords \cup {NoPassword} : sqlite3_key_v2(z, w)
    PROVE  Inv'
<1>0. codec \in [Dbs -> Kept] /\ opened \subseteq Dbs /\ Main \in Dbs /\ Aux \in Dbs /\ Main # Aux
  BY Types, PagesAssumption DEF Inv, Dbs
<1>1. CASE Open
  <2>1. tx.op = "idle" /\ cache[Main] = NoPages
    BY <1>0, <1>1 DEF Open, Inv, TxInv, CacheInv
  <2> QED
    BY <1>0, <1>1, <2>1, CodecTypes, SetCodecStep DEF Open, Kept
<1>2. CASE Attach
  <2>1. tx.op = "idle" /\ cache[Aux] = NoPages /\ Main \in opened
    BY <1>0, <1>2 DEF Attach, Inv, CacheInv, Idle
  <2>2. PICK w \in Passwords \cup {NoPassword} :
            SetCodec(Aux, CodecAttached(Aux, w, sqlite3CodecGetKey))
    BY <1>2 DEF Attach
  <2>3. /\ CodecAttached(Aux, w, sqlite3CodecGetKey) \in Kept
        /\ AtRest(CodecAttached(Aux, w, sqlite3CodecGetKey))
    BY <1>0, <2>1, Chosen, Attached
  <2>4. opened \subseteq opened' /\ opened' \subseteq Dbs
    BY <1>0, <1>2 DEF Attach
  <2> QED
    BY <1>0, <2>1, <2>2, <2>3, <2>4, SetCodecStep
<1>3. CASE \E z \in Dbs, w \in Passwords \cup {NoPassword} : sqlite3_key_v2(z, w)
  <2>1. PICK z \in Dbs, w \in Passwords \cup {NoPassword} : sqlite3_key_v2(z, w)
    BY <1>3
  <2> DEFINE d == dbFindIndex(z)
  <2>2. /\ tx.op = "idle" /\ Main \in opened /\ cache[d] = NoPages /\ opened' = opened
        /\ SetCodec(d, CodecAttached(d, w, 1))
    BY <2>1 DEF sqlite3_key_v2, RightAfterOpen, Idle
  <2>3. d \in Dbs /\ CodecAttached(d, w, 1) \in Kept /\ AtRest(CodecAttached(d, w, 1))
    BY <1>0, <2>2, Chosen, Attached
  <2> HIDE DEF d
  <2> QED
    BY <1>0, <2>2, <2>3, SetCodecStep
<1> QED
  BY <1>1, <1>2, <1>3

\* The transaction of a statement.
LEMMA WriteStep ==
    ASSUME Inv, (\E d \in Dbs : BeginWrite(d)) \/ WritePage \/ EndWrite
    PROVE  Inv'
<1>0. codec \in [Dbs -> Kept] /\ tx.db \in Dbs
  BY Types DEF Inv
<1>1. CASE \E d \in Dbs : BeginWrite(d)
  <2>1. PICK d \in Dbs : BeginWrite(d)
    BY <1>1
  <2>2. /\ tx.op = "idle" /\ d \in opened /\ BtreeBeginTrans(d, codec[d])
        /\ tx' = [op |-> "write", db |-> d, n |-> 0]
        /\ UNCHANGED <<opened, codec, fileKey, right, spoiled>>
    BY <2>1 DEF BeginWrite, Idle
  <2>3. codec[d] \in Kept /\ AtRest(codec[d]) /\ codec' = [codec EXCEPT ![d] = codec[d]]
    BY <1>0, <2>2 DEF Inv, CodecInv, Rekeying
  <2> QED
    BY <2>2, <2>3, BeginStep DEF ReadKey
<1>2. CASE WritePage
  <2>1. PICK p \in Pgs : Got(tx.db, codec[tx.db], disk[tx.db], p) = "good" /\ PagerWrite(tx.db, p)
    BY <1>2 DEF WritePage
  <2>2. journal[tx.db][p] = NoImage /\ tx.op = "write"
    BY <1>2 DEF WritePage, NoJournal
  <2>3. tx' = tx /\ UNCHANGED <<opened, codec, fileKey, right, spoiled>>
    BY <1>2 DEF WritePage
  <2>4. tx' \in [op : {"idle", "write", "rekey"}, db : Dbs, n : 0..N + 1]
    BY <2>3 DEF Inv, TypeOK
  <2> QED
    BY <2>1, <2>2, <2>3, <2>4, PagerWriteStep
<1>3. CASE EndWrite
  <2>1. tx.op = "write" /\ tx' = Idle /\ UNCHANGED <<opened, codec, right, spoiled>>
    BY <1>3 DEF EndWrite
  <2>2. /\ codec[tx.db] \in Kept /\ AtRest(codec[tx.db])
        /\ codec' = [codec EXCEPT ![tx.db] = codec[tx.db]]
    BY <1>0, <2>1 DEF Inv, CodecInv, Rekeying
  <2>3. CASE BtreeRollback(tx.db) /\ UNCHANGED fileKey
    BY <2>1, <2>2, <2>3, RollbackStep DEF ReadKey
  <2>4. CASE BtreeCommit(tx.db, fileKey[tx.db])
    <3>1. ASSUME tx.db \notin spoiled, NEW p \in Pgs
          PROVE  disk[tx.db][p] = Image(fileKey[tx.db], "good")
      <4>1. CASE journal[tx.db][p] # NoImage
        BY <2>1, <2>4, <3>1, <4>1 DEF Inv, TxInv, BtreeCommit
      <4>2. CASE journal[tx.db][p] = NoImage
        BY <1>0, <3>1, <4>2, RestoredPage DEF Inv, AllOrNothing
      <4> QED
        BY <4>1, <4>2
    <3>2. tx.db \notin spoiled => sqlite3Codec(codec[tx.db], 3) = fileKey[tx.db]
      BY <2>1 DEF Inv, TxInv, ReadKey
    <3>3. fileKey[tx.db] \in Keys \cup {Plain}
      BY <1>0, Types DEF Inv
    <3> QED
      BY <2>1, <2>2, <2>4, <3>1, <3>2, <3>3, CommitStep
  <2> QED
    BY <1>3, <2>3, <2>4 DEF EndWrite
<1> QED
  BY <1>1, <1>2, <1>3

\* The rekey.
LEMMA RekeyStep ==
    ASSUME Inv,
           \/ \E z \in Dbs, w \in Passwords \cup {NoPassword} : sqlite3_rekey_v2(z, w)
           \/ RekeyPage \/ RekeyEnd
    PROVE  Inv'
<1>0. codec \in [Dbs -> Kept] /\ tx.db \in Dbs /\ tx.n \in 0..N + 1 /\ N \in Nat
  BY Types, PagesAssumption DEF Inv
<1>1. CASE \E z \in Dbs, w \in Passwords \cup {NoPassword} : sqlite3_rekey_v2(z, w)
  <2>1. PICK z \in Dbs, w \in Passwords \cup {NoPassword} : sqlite3_rekey_v2(z, w)
    BY <1>1
  <2> DEFINE d == dbFindIndex(z)
             c == RekeyCodec(codec[d], w)
  <2>2. /\ tx.op = "idle" /\ Main \in opened /\ (w # NoPassword \/ IsEncrypted(codec[d]))
        /\ UNCHANGED <<opened, fileKey, right, spoiled>>
    BY <2>1 DEF sqlite3_rekey_v2, Idle
  <2>3. d \in opened /\ d \in Dbs /\ codec[d] \in Kept /\ AtRest(codec[d])
    BY <2>2, Chosen
  <2>4. c \in Codecs /\ c.isEncrypted /\ sqlite3Codec(c, 3) = ReadKey(d)
    BY <2>2, <2>3, Rekeying_ReadKey DEF ReadKey
  <2>5. \/ /\ BtreeBeginTrans(d, c) /\ tx' = [op |-> "rekey", db |-> d, n |-> 1]
           /\ codec' = [codec EXCEPT ![d] = c]
        \/ /\ codec' = [codec EXCEPT ![d] = RekeyedCodec(c, "ERROR")]
           /\ UNCHANGED <<disk, journal, cache, dirty, tx>>
    BY <2>1 DEF sqlite3_rekey_v2
  <2> HIDE DEF d, c
  <2>6. CASE BtreeBeginTrans(d, c) /\ tx' = [op |-> "rekey", db |-> d, n |-> 1]
             /\ codec' = [codec EXCEPT ![d] = c]
    BY <2>2, <2>3, <2>4, <2>6, BeginStep DEF Kept
  <2>7. CASE codec' = [codec EXCEPT ![d] = RekeyedCodec(c, "ERROR")]
             /\ UNCHANGED <<disk, journal, cache, dirty, tx>>
    <3>1. /\ RekeyedCodec(c, "ERROR") \in Kept /\ AtRest(RekeyedCodec(c, "ERROR"))
          /\ sqlite3Codec(RekeyedCodec(c, "ERROR"), 3) = ReadKey(d)
      BY <2>4, Rekeyed_Failed
    <3>2. \A e \in Dbs : ReadKey(e)' = ReadKey(e)
      BY <1>0, <2>3, <2>7, <3>1 DEF ReadKey
    <3>3. TypeOK'
      BY <1>0, <2>2, <2>7, <3>1 DEF Inv, TypeOK, Kept
    <3>4. AllOrNothing'
      BY <2>2, <2>7 DEF Inv, AllOrNothing, Restored
    <3>5. CodecInv'
      BY <1>0, <2>2, <2>7, <3>1 DEF Inv, CodecInv, Rekeying
    <3>6. CacheInv' /\ RightInv'
      BY <2>2, <2>7, <3>2, Types DEF Inv, CacheInv, RightInv
    <3>7. TxInv'
      BY <2>2, <2>7 DEF Inv, TxInv
    <3> QED
      BY <3>3, <3>4, <3>5, <3>6, <3>7 DEF Inv
  <2> QED
    BY <2>5, <2>6, <2>7
<1>2. CASE RekeyPage
  <2>1. /\ tx.op = "rekey" /\ tx.n <= N /\ tx' = [tx EXCEPT !.n = @ + 1]
        /\ UNCHANGED <<opened, codec, fileKey, right, spoiled>>
    BY <1>2 DEF RekeyPage
  <2>2. /\ tx' \in [op : {"idle", "write", "rekey"}, db : Dbs, n : 0..N + 1]
        /\ tx'.op = "rekey" /\ tx'.db = tx.db /\ tx'.n = tx.n + 1
    <3>1. tx \in [op : {"idle", "write", "rekey"}, db : Dbs, n : 0..N + 1]
      BY DEF Inv, TypeOK
    <3>2. tx.n + 1 \in 0..N + 1
      BY <1>0, <2>1
    <3> QED
      BY <2>1, <3>1, <3>2
  <2>3. tx.n >= 1 /\ \A p \in Pgs : journal[tx.db][p] = NoImage <=> p >= tx.n
    BY <2>1 DEF Inv, TxInv
  <2>4. CASE tx.n = nSkip
    <3>1. UNCHANGED <<disk, journal, cache, dirty>>
      BY <1>2, <2>4 DEF RekeyPage
    <3>2. TypeOK'
      BY <2>1, <2>2, <3>1 DEF Inv, TypeOK
    <3>3. AllOrNothing'
      BY <2>1, <3>1 DEF Inv, AllOrNothing, Restored
    <3>4. CodecInv' /\ CacheInv' /\ RightInv'
      BY <2>1, <2>2, <3>1 DEF Inv, CodecInv, CacheInv, RightInv, Rekeying, ReadKey
    <3>5. \A p \in Pgs : p >= tx.n <=> p >= tx.n + 1
      BY <1>0, <2>4 DEF Pgs
    <3>6. TxInv'
      <4>1. ReadKey(tx.db)' = ReadKey(tx.db) /\ WriteKey(tx.db)' = WriteKey(tx.db)
        BY <2>1, <2>2 DEF ReadKey, WriteKey
      <4>2. tx'.n >= 1 /\ \A p \in Pgs : journal'[tx.db][p] = NoImage <=> p >= tx'.n
        BY <1>0, <2>2, <2>3, <3>1, <3>5
      <4> QED
        BY <2>1, <2>2, <3>1, <4>1, <4>2 DEF Inv, TxInv
    <3> QED
      BY <3>2, <3>3, <3>4, <3>6 DEF Inv
  <2>5. CASE tx.n # nSkip
    <3>1. tx.n \in Pgs /\ PagerWrite(tx.db, tx.n)
      BY <1>0, <1>2, <2>1, <2>3, <2>5 DEF RekeyPage, Pgs
    <3>2. journal[tx.db][tx.n] = NoImage
      BY <1>0, <2>3, <3>1
    <3>3. ASSUME tx.db \notin spoiled
          PROVE  Got(tx.db, codec[tx.db], disk[tx.db], tx.n) = "good"
      <4>1. disk[tx.db][tx.n] = Image(fileKey[tx.db], "good")
        BY <1>0, <3>1, <3>2, <3>3, RestoredPage DEF Inv, AllOrNothing
      <4>2. ReadKey(tx.db) = fileKey[tx.db]
        BY <2>1, <3>3 DEF Inv, TxInv
      <4>3. cache[tx.db][tx.n] \in {"good", "none"}
        BY <1>0, <3>1, <3>3 DEF Inv, CacheInv
      <4> QED
        BY <4>1, <4>2, <4>3 DEF Got, CodecDecrypt, Image, ReadKey
    <3> QED
      BY <2>1, <2>2, <3>1, <3>2, <3>3, PagerWriteStep
  <2> QED
    BY <2>4, <2>5
<1>3. CASE RekeyEnd
  <2>1. tx.op = "rekey" /\ tx' = Idle /\ UNCHANGED <<opened, spoiled>>
    BY <1>3 DEF RekeyEnd
  <2>2. codec[tx.db] \in Codecs /\ codec[tx.db].isEncrypted
    BY <1>0, <2>1, CodecTypes DEF Inv, CodecInv, Rekeying, Kept
  <2>3. CASE /\ BtreeRollback(tx.db) /\ UNCHANGED <<fileKey, right>>
             /\ codec' = [codec EXCEPT ![tx.db] = RekeyedCodec(@, "ERROR")]
    BY <1>0, <2>1, <2>2, <2>3, Rekeyed_Failed, RollbackStep DEF ReadKey
  <2>4. CASE /\ tx.n > N /\ BtreeCommit(tx.db, sqlite3Codec(codec[tx.db], 6))
             /\ \/ codec' = [codec EXCEPT ![tx.db] = RekeyedCodec(@, "OK")] /\ UNCHANGED right
                \/ /\ cache'[tx.db] = NoPages /\ right' = right \ {tx.db}
                   /\ codec' = [codec EXCEPT ![tx.db] = RekeyedCodec(@, "ERROR")]
    <3>1. \A p \in Pgs : journal[tx.db][p] # NoImage
      BY <1>0, <2>1, <2>4 DEF Inv, TxInv, Pgs
    <3>2. tx.db \notin spoiled =>
             \A p \in Pgs : disk[tx.db][p] = Image(sqlite3Codec(codec[tx.db], 6), "good")
      BY <2>1, <2>4, <3>1 DEF Inv, TxInv, BtreeCommit, WriteKey
    <3>3. sqlite3Codec(codec[tx.db], 6) \in Keys \cup {Plain}
      BY <1>0, KeysOfCodec
    <3>4. CASE codec' = [codec EXCEPT ![tx.db] = RekeyedCodec(@, "OK")] /\ UNCHANGED right
      <4>1. codec' = [codec EXCEPT ![tx.db] = RekeyedCodec(codec[tx.db], "OK")]
        BY <1>0, <3>4
      <4> QED
        BY <2>1, <2>2, <2>4, <3>2, <3>3, <3>4, <4>1, Rekeyed_OK, CommitStep
    <3>5. CASE /\ cache'[tx.db] = NoPages /\ right' = right \ {tx.db}
               /\ codec' = [codec EXCEPT ![tx.db] = RekeyedCodec(@, "ERROR")]
      <4>1. codec' = [codec EXCEPT ![tx.db] = RekeyedCodec(codec[tx.db], "ERROR")]
        BY <1>0, <3>5
      <4>2. right' \subseteq right /\ tx.db \notin right'
        BY <3>5
      <4> QED
        BY <2>1, <2>2, <2>4, <3>2, <3>3, <3>5, <4>1, <4>2, Rekeyed_Failed, CommitStep
    <3> QED
      BY <2>4, <3>4, <3>5
  <2> QED
    BY <1>3, <2>3, <2>4 DEF RekeyEnd
<1> QED
  BY <1>1, <1>2, <1>3

-----------------------------------------------------------------------------
(***************************************************************************)
(* The theorems.                                                           *)
(***************************************************************************)

\* The files start intact, each under one key.
LEMMA InitInv == Init => Inv
<1> SUFFICES ASSUME Init PROVE Inv
  OBVIOUS
<1>1. /\ Idle \in [op : {"idle", "write", "rekey"}, db : Dbs, n : 0..N + 1]
      /\ NoPages \in [Pgs -> {"good", "bad", "none"}]
      /\ NoJournal \in [Pgs -> Images \cup {NoImage}]
      /\ \A d \in Dbs : [p \in Pgs |-> Image(fileKey[d], "good")] \in [Pgs -> Images]
  BY PagesAssumption, ImageIsNoMark DEF Init, Idle, Dbs, NoPages, NoJournal
<1>2. TypeOK
  BY <1>1 DEF Init, TypeOK
<1>3. AllOrNothing
  BY <1>1 DEF Init, AllOrNothing, Restored, NoJournal
<1>4. CodecInv /\ CacheInv /\ TxInv /\ RightInv
  BY CodecTypes DEF Init, CodecInv, CacheInv, TxInv, RightInv, Rekeying, Idle, NoPages
<1> QED
  BY <1>2, <1>3, <1>4 DEF Inv

\* Every step of the codec, the pager or the world preserves the invariant.
LEMMA NextInv == Inv /\ [Next]_vars => Inv'
<1> SUFFICES ASSUME Inv, [Next]_vars PROVE Inv'
  OBVIOUS
<1>1. CASE UNCHANGED vars
  BY <1>1 DEF vars, Inv, TypeOK, AllOrNothing, Restored, CodecInv, CacheInv, TxInv, RightInv,
              Rekeying, ReadKey, WriteKey
<1> QED
  BY <1>1, KeyStep, SpillStep, WriteStep, GoneStep, RekeyStep DEF Next

\* The codecs, the images and the operation under way keep to their types.
THEOREM RekeyTypeCorrect == Spec => []TypeOK
  BY InitInv, NextInv, PTL DEF Spec, Inv

\* For any number of pages and passwords, and a panic at any moment of any sequence of
\* statements and rekeys that succeed or fail: what the next open finds is the whole
\* database under one key, the old one until the journal of sqlite3_rekey_v2 is
\* deleted and the new one from then on.
THEOREM RekeyAllOrNothing == Spec => []AllOrNothing
  BY InitInv, NextInv, PTL DEF Spec, Inv

\* A connection with the right key never loses it: a rekey that succeeds changes the
\* read key with the file, one that fails anywhere leaves both.
THEOREM ConnectionStaysReadable == Spec => []StaysReadable
<1>1. Inv => StaysReadable
  BY DEF Inv, RightInv, StaysReadable, ReadKey
<1> QED
  BY <1>1, InitInv, NextInv, PTL DEF Spec
=============================================================================
