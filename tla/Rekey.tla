------------------------------- MODULE Rekey --------------------------------
(***************************************************************************)
(* The keys of the page codec and the change of a database's key           *)
(* (ta/codecext.c and the codec structure of ta/codec.c), over SQLite's    *)
(* pager (external: sqlite3.c is not in the repository).                   *)
(*                                                                         *)
(* sqlite3_rekey_v2 makes every page dirty in one transaction: the pager   *)
(* journals each with the read key, writes it with the write key, and      *)
(* commits by deleting the journal.  Until then any failure rolls back,    *)
(* and a panic leaves a hot journal, both by copying the journal's page    *)
(* images into the file as they are.  The tags of the pages are left out:  *)
(* CodecAES only logs a tag that does not match.                           *)
(***************************************************************************)
EXTENDS Integers

CONSTANTS
    Passwords,  \* records: the first KEYLENGTH bytes (key), and what follows (rest)
    Main, Aux,  \* the databases of the connection: aDb[0], and an attached one
    N,          \* pages of a database
    nSkip       \* the page that the lock bytes are in

Plain == "plain"
Keys == {w.key : w \in Passwords}
NoPassword == [key |-> Plain, rest |-> "none"]
Dbs == {Main, Aux}
Pgs == (1..N) \ {nSkip}

ASSUME KeysAssumption == Plain \notin Keys
ASSUME PagesAssumption == N \in Nat /\ 1 \in Pgs /\ Main # Aux

VARIABLES
    opened,     \* the databases of the connection
    codec,      \* the codec of each one's pager
    disk,       \* the image of each page in the file
    journal,    \* the images in the rollback journal, by page
    cache,      \* pages in the pager's cache: "good" if decoded right, "bad", or "none"
    dirty,      \* pages in the cache that are not in the file yet
    tx,         \* the operation under way
    \* History variables.
    fileKey,    \* the key that a database is under, by the transactions committed
    right,      \* databases opened with the right key, until the commit of a rekey fails
                \* when its journal is already deleted
    spoiled     \* databases written by a codec that a failed decryption has left
                \* without a write key

vars == <<opened, codec, disk, journal, cache, dirty, tx, fileKey, right, spoiled>>

Image(k, c) == [key |-> k, content |-> c]
Idle == [op |-> "idle", db |-> Main, n |-> 0]
NoImage == [key |-> Plain, content |-> "none"]
NoJournal == [p \in Pgs |-> NoImage]
NoPages == [p \in Pgs |-> "none"]

-----------------------------------------------------------------------------
(***************************************************************************)
(* The codec.                                                              *)
(***************************************************************************)

\* Mutant of CodecGenerateEncryptionKey: the bytes after the first KEYLENGTH.
CodecGenerateEncryptionKey_Rest(w) == w.rest

\* CodecGenerateEncryptionKey copies KEYLENGTH bytes, however long the password is.
CodecGenerateEncryptionKey(w) == w.key

CodecGenerateReadKey(c, w) == [c EXCEPT !.readKey = CodecGenerateEncryptionKey(w)]
CodecGenerateWriteKey(c, w) == [c EXCEPT !.writeKey = CodecGenerateEncryptionKey(w)]

CodecInit == [isEncrypted |-> FALSE, hasReadKey |-> FALSE, readKey |-> Plain,
              hasWriteKey |-> FALSE, writeKey |-> Plain]

NoCodec == [CodecInit EXCEPT !.readKey = "no codec"]

CodecCopyKey(c, read2write) ==
    IF read2write THEN [c EXCEPT !.writeKey = c.readKey] ELSE [c EXCEPT !.readKey = c.writeKey]

CodecCopy(other) == [f \in DOMAIN CodecInit |-> other[f]]

IsEncrypted(c) == c.isEncrypted     \* of a codec, or of none
CodecHasReadKey(c) == c.hasReadKey
CodecHasWriteKey(c) == c.hasWriteKey

\* CodecSetIsEncrypted(1), CodecSetHasReadKey and CodecSetHasWriteKey.
CodecSet(c, read, write) ==
    [c EXCEPT !.isEncrypted = TRUE, !.hasReadKey = read, !.hasWriteKey = write]

\* Mutant of sqlite3Codec: the journal is written with the write key.
sqlite3Codec_JournalWriteKey(c, mode) ==
    IF ~IsEncrypted(c) THEN Plain
    ELSE CASE mode \in {0, 2, 3} -> (IF CodecHasReadKey(c) THEN c.readKey ELSE Plain)
           [] mode \in {6, 7}    -> (IF CodecHasWriteKey(c) THEN c.writeKey ELSE Plain)

\* The key that sqlite3Codec decodes or encodes a page with: modes 0, 2 and 3 load a
\* page, 6 writes one to the file, 7 to the journal.
sqlite3Codec(c, mode) ==
    IF ~IsEncrypted(c) THEN Plain
    ELSE CASE mode \in {0, 2, 3, 7} -> (IF CodecHasReadKey(c) THEN c.readKey ELSE Plain)
           [] mode = 6              -> (IF CodecHasWriteKey(c) THEN c.writeKey ELSE Plain)

\* A page encoded with k; the bytes 16 to 23 of the first one, which tell the page size,
\* are left as they are.
CodecEncrypt(content, k) == Image(k, content)

\* Decoding with another key gives something else, and no error (CodecDecrypt, CodecAES).
CodecDecrypt(image, k) == IF image.key = k THEN image.content ELSE "bad"

-----------------------------------------------------------------------------
(***************************************************************************)
(* Opening, and sqlite3_key.                                               *)
(***************************************************************************)
Init ==
    /\ opened = {} /\ codec = [d \in Dbs |-> NoCodec]
    /\ fileKey \in [Dbs -> Keys \cup {Plain}]
    /\ disk = [d \in Dbs |-> [p \in Pgs |-> Image(fileKey[d], "good")]]
    /\ journal = [d \in Dbs |-> NoJournal] /\ cache = [d \in Dbs |-> NoPages]
    /\ dirty = {} /\ tx = Idle /\ right = {} /\ spoiled = {}

\* A name that is not found stands for the main database.
dbFindIndex(zDb) == IF zDb \in opened THEN zDb ELSE Main

\* The codec that sqlite3CodecAttach gives to a database, or the one it leaves.
CodecAttached(d, w, nKey) ==
    IF w = NoPassword
    THEN IF d # Main /\ nKey > 0 /\ IsEncrypted(codec[Main]) THEN CodecCopy(codec[Main])
                                                             ELSE codec[d]
    ELSE CodecCopyKey(CodecGenerateReadKey(CodecSet(CodecInit, TRUE, TRUE), w), TRUE)

SetCodec(d, c) ==
    /\ codec' = [codec EXCEPT ![d] = c]
    /\ right' = IF sqlite3Codec(c, 3) = fileKey[d] THEN right \cup {d} ELSE right \ {d}
    /\ UNCHANGED <<disk, journal, cache, dirty, tx, fileKey, spoiled>>

\* sqlite3_open of the main database, which has no key yet (external).
Open ==
    /\ opened = {} /\ opened' = {Main}
    /\ SetCodec(Main, NoCodec)

\* ATTACH (external): with no KEY clause, sqlite3CodecGetKey asks for the main key.
sqlite3CodecGetKey == IF IsEncrypted(codec[Main]) THEN 1 ELSE 0

Attach ==
    /\ opened = {Main} /\ tx = Idle /\ opened' = Dbs
    /\ \E w \in Passwords \cup {NoPassword} :
          SetCodec(Aux, CodecAttached(Aux, w, sqlite3CodecGetKey))

\* "This routine should be called right after sqlite3_open()": before the first statement
\* that reads the database.
RightAfterOpen(d) == tx = Idle /\ Main \in opened /\ cache[d] = NoPages

sqlite3_key_v2(zDb, w) ==
    LET d == dbFindIndex(zDb)
    IN  /\ RightAfterOpen(d)
        /\ SetCodec(d, CodecAttached(d, w, 1))
        /\ UNCHANGED opened

-----------------------------------------------------------------------------
(***************************************************************************)
(* Transactions of the pager (external).                                   *)
(***************************************************************************)
Restored(d) ==
    [p \in Pgs |-> IF journal[d][p] # NoImage THEN journal[d][p] ELSE disk[d][p]]

\* Page p of d as the pager gets it, from its cache or from the file f.
Got(d, c, f, p) ==
    IF cache[d][p] # "none" THEN cache[d][p] ELSE CodecDecrypt(f[p], sqlite3Codec(c, 3))

\* The pager plays a hot journal back, reads page 1, and starts a transaction if it
\* is the first page of a database.
BtreeBeginTrans(d, c) ==
    /\ Got(d, c, Restored(d), 1) = "good"
    /\ disk' = [disk EXCEPT ![d] = Restored(d)]
    /\ journal' = [journal EXCEPT ![d] = NoJournal]
    /\ cache' = [cache EXCEPT ![d][1] = "good"]
    /\ UNCHANGED dirty

\* The original image of a page goes to the journal, once; then it may be changed.
\* A page that was read wrongly is not one that a statement writes to.
PagerWrite(d, p) ==
    LET content == Got(d, codec[d], disk[d], p)
    IN  /\ journal' = IF journal[d][p] = NoImage
                      THEN [journal EXCEPT ![d][p] =
                              CodecEncrypt(content, sqlite3Codec(codec[d], 7))]
                      ELSE journal
        /\ cache' = [cache EXCEPT ![d][p] = content]
        /\ dirty' = dirty \cup {p}
        /\ UNCHANGED disk

\* A dirty page is written to the file, when the cache is short of room or at commit.
Spill ==
    /\ tx.op # "idle"
    /\ \E p \in dirty :
          /\ disk' = [disk EXCEPT ![tx.db][p] =
                        CodecEncrypt(cache[tx.db][p], sqlite3Codec(codec[tx.db], 6))]
          /\ dirty' = dirty \ {p}
          /\ spoiled' = IF /\ tx.op = "write"
                           /\ IsEncrypted(codec[tx.db]) /\ ~CodecHasWriteKey(codec[tx.db])
                        THEN spoiled \cup {tx.db} ELSE spoiled
    /\ UNCHANGED <<opened, codec, journal, cache, tx, fileKey, right>>

\* BtreeRollback: the cache is emptied and the journal played back, or the journal
\* stays hot.
BtreeRollback(d) ==
    /\ dirty' = {} /\ cache' = [cache EXCEPT ![d] = NoPages]
    /\ \/ disk' = [disk EXCEPT ![d] = Restored(d)] /\ journal' = [journal EXCEPT ![d] = NoJournal]
       \/ UNCHANGED <<disk, journal>>

\* The journal is deleted.  The pages may stay in the cache; they do not if the commit
\* says that it failed.
BtreeCommit(d, k) ==
    /\ dirty = {}
    /\ journal' = [journal EXCEPT ![d] = NoJournal]
    /\ fileKey' = [fileKey EXCEPT ![d] = k]
    /\ cache' \in {cache, [cache EXCEPT ![d] = NoPages]}
    /\ UNCHANGED <<disk, dirty>>

\* A transaction of some SQL statement, which writes one page.
BeginWrite(d) ==
    /\ tx = Idle /\ d \in opened
    /\ BtreeBeginTrans(d, codec[d])
    /\ tx' = [op |-> "write", db |-> d, n |-> 0]
    /\ UNCHANGED <<opened, codec, fileKey, right, spoiled>>

WritePage ==
    /\ tx.op = "write" /\ journal[tx.db] = NoJournal
    /\ \E p \in Pgs : Got(tx.db, codec[tx.db], disk[tx.db], p) = "good" /\ PagerWrite(tx.db, p)
    /\ UNCHANGED <<opened, codec, tx, fileKey, right, spoiled>>

EndWrite ==
    /\ tx.op = "write" /\ tx' = Idle
    /\ \/ BtreeCommit(tx.db, fileKey[tx.db])
       \/ BtreeRollback(tx.db) /\ UNCHANGED fileKey
    /\ UNCHANGED <<opened, codec, right, spoiled>>

\* The connection is closed, or the trusted application panics at any moment.
Gone ==
    /\ opened # {} /\ opened' = {} /\ codec' = [d \in Dbs |-> NoCodec]
    /\ cache' = [d \in Dbs |-> NoPages] /\ dirty' = {} /\ tx' = Idle /\ right' = {}
    /\ UNCHANGED <<disk, journal, fileKey, spoiled>>

-----------------------------------------------------------------------------
(***************************************************************************)
(* sqlite3_rekey_v2                                                        *)
(***************************************************************************)

\* The codec while the pages are rewritten.
RekeyCodec(c, w) ==
    IF ~IsEncrypted(c)
    THEN CodecGenerateWriteKey(CodecSet(CodecInit, FALSE, TRUE), w)
    ELSE IF w = NoPassword THEN CodecSet(c, CodecHasReadKey(c), FALSE)
    ELSE CodecGenerateWriteKey(CodecSet(c, CodecHasReadKey(c), TRUE), w)

\* Mutant of RekeyedCodec: the read key is not changed after a success.
RekeyedCodec_ReadKeyKept(c, rc) ==
    IF rc = "OK"
    THEN IF c.hasWriteKey THEN [c EXCEPT !.hasReadKey = TRUE] ELSE NoCodec
    ELSE IF c.hasReadKey THEN CodecCopyKey(c, TRUE) ELSE NoCodec

\* The codec afterwards: one that does not encrypt is removed, and freed.
RekeyedCodec(c, rc) ==
    IF rc = "OK"
    THEN IF CodecHasWriteKey(c) THEN CodecSet(CodecCopyKey(c, FALSE), TRUE, TRUE) ELSE NoCodec
    ELSE IF CodecHasReadKey(c) THEN CodecCopyKey(c, TRUE) ELSE NoCodec

\* The function up to sqlite3BtreeBeginTrans, which may fail.  With no key for a
\* database that has none it returns at once.
sqlite3_rekey_v2(zDb, w) ==
    LET d == dbFindIndex(zDb)
        c == RekeyCodec(codec[d], w)
    IN  /\ tx = Idle /\ Main \in opened
        /\ w # NoPassword \/ IsEncrypted(codec[d])
        /\ \/ /\ BtreeBeginTrans(d, c)
              /\ tx' = [op |-> "rekey", db |-> d, n |-> 1]
              /\ codec' = [codec EXCEPT ![d] = c]
           \/ /\ codec' = [codec EXCEPT ![d] = RekeyedCodec(c, "ERROR")]
              /\ UNCHANGED <<disk, journal, cache, dirty, tx>>
        /\ UNCHANGED <<opened, fileKey, right, spoiled>>

\* One turn of the loop over the pages that does not fail.
RekeyPage ==
    /\ tx.op = "rekey" /\ tx.n <= N
    /\ tx' = [tx EXCEPT !.n = @ + 1]
    /\ IF tx.n = nSkip THEN UNCHANGED <<disk, journal, cache, dirty>> ELSE PagerWrite(tx.db, tx.n)
    /\ UNCHANGED <<opened, codec, fileKey, right, spoiled>>

\* The function after the loop: all pages were rewritten and the commit succeeds; or it
\* fails when the journal is already deleted (demoDelete could not sync the directory),
\* so that there is nothing to roll back, and the codec keeps the old key; or something
\* failed before.
RekeyEnd ==
    LET d == tx.db
    IN  /\ tx.op = "rekey" /\ tx' = Idle
        /\ \/ /\ tx.n > N
              /\ BtreeCommit(d, sqlite3Codec(codec[d], 6))
              /\ \/ /\ codec' = [codec EXCEPT ![d] = RekeyedCodec(@, "OK")]
                    /\ UNCHANGED right
                 \/ /\ cache'[d] = NoPages /\ right' = right \ {d}
                    /\ codec' = [codec EXCEPT ![d] = RekeyedCodec(@, "ERROR")]
           \/ /\ BtreeRollback(d) /\ UNCHANGED <<fileKey, right>>
              /\ codec' = [codec EXCEPT ![d] = RekeyedCodec(@, "ERROR")]
        /\ UNCHANGED <<opened, spoiled>>

Next ==
    \/ Open \/ Attach \/ Spill \/ WritePage \/ EndWrite \/ Gone \/ RekeyPage \/ RekeyEnd
    \/ \E d \in Dbs : BeginWrite(d)
    \/ \E d \in Dbs : \E w \in Passwords \cup {NoPassword} :
          sqlite3_key_v2(d, w) \/ sqlite3_rekey_v2(d, w)

Spec == Init /\ [][Next]_vars

-----------------------------------------------------------------------------
(***************************************************************************)
(* Properties.                                                             *)
(***************************************************************************)
Codecs == [isEncrypted : BOOLEAN, hasReadKey : BOOLEAN, readKey : Keys \cup {Plain},
           hasWriteKey : BOOLEAN, writeKey : Keys \cup {Plain}]
Images == [key : Keys \cup {Plain}, content : {"good", "bad"}]

\* Codecs, images and the operation under way are well typed.
TypeOK ==
    /\ opened \subseteq Dbs /\ codec \in [Dbs -> Codecs \cup {NoCodec}]
    /\ disk \in [Dbs -> [Pgs -> Images]]
    /\ journal \in [Dbs -> [Pgs -> Images \cup {NoImage}]]
    /\ cache \in [Dbs -> [Pgs -> {"good", "bad", "none"}]]
    /\ dirty \subseteq Pgs /\ tx \in [op : {"idle", "write", "rekey"}, db : Dbs, n : 0..N + 1]
    /\ fileKey \in [Dbs -> Keys \cup {Plain}] /\ right \subseteq Dbs /\ spoiled \subseteq Dbs

\* At every moment, if the application stopped there, the next open would find all
\* pages of a database intact and under one key: the one it had, or once the journal
\* is deleted the one that sqlite3_rekey_v2 was given.  "The rollback journal must be
\* written using the original key for the database file" (codecext.c:112).
AllOrNothing ==
    \A d \in Dbs \ spoiled : \A p \in Pgs : Restored(d)[p] = Image(fileKey[d], "good")

\* A connection that was opened with the right key reads with the key that the
\* database is under, whatever rekeys succeeded and failed since; only a commit that
\* fails once the journal is deleted leaves it with the old key of a database that is
\* under the new one.
StaysReadable ==
    \A d \in right \cap opened :
        tx.db # d \/ tx.op # "rekey" => sqlite3Codec(codec[d], 3) = fileKey[d]

\* "Restore write key if necessary" (codecext.c:428): between two operations a codec
\* writes with the key that it reads with.
WriteKeyRestored ==
    \A d \in Dbs : ~(tx.op = "rekey" /\ tx.db = d) =>
        sqlite3Codec(codec[d], 6) = sqlite3Codec(codec[d], 3)
=============================================================================
