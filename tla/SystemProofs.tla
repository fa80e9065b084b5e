---------------------------- MODULE SystemProofs ----------------------------
(***************************************************************************)
(* Proofs about the example as a whole, for any databases, pages, numbers  *)
(* of transactions and of faults, command lines, devices and requests.     *)
(***************************************************************************)
EXTENDS System, TLAPS

-----------------------------------------------------------------------------
(***************************************************************************)
(* The inductive invariant of the commits.                                 *)
(***************************************************************************)

\* All pages have version v.
All(v) == [p \in Pgs |-> v]

\* What is left of the calls of a transaction and of a playback.
T1 == <<"records", "sync", "header", "sync", "pages", "sync pages", "delete">>
T2 == <<"sync", "header", "sync", "pages", "sync pages", "delete">>
T3 == <<"header", "sync", "pages", "sync pages", "delete">>
T4 == <<"sync", "pages", "sync pages", "delete">>
T5 == <<"pages", "sync pages", "delete">>
T6 == <<"sync pages", "delete">>
T7 == <<"delete">>

Recoveries == {"rollback", "recovery for write", "recovery for read"}

\* Where a statement stands, also one that a lost call has misled.
Shape(m, t) ==
    \/ m = "idle"
    \/ m = "txn" /\ t \in {Txn, T1, T2, T3, T4, T5, T6, T7}
    \/ m \in Recoveries /\ t \in {Playback, T6, T7}

(***************************************************************************)
(* The parts of one database: its pages d, on the disk ds; its journal j,  *)
(* on the disk js; the number n of its last transaction; the versions V    *)
(* that it may have; the mode m and the calls t to make.                   *)
(***************************************************************************)

\* The two kinds of journals tell their transaction; there is no transaction 0.
Journal(j, n) ==
    /\ j = [tx |-> j.tx, recs |-> j.recs, counted |-> j.counted]
    /\ j.counted \in BOOLEAN /\ j.recs \in [Pgs -> Int]
    /\ j.tx \in 0 .. n /\ (j.tx = 0 => j = NoJournal)

\* The pages are those of one transaction, on the disk as in the view.  The journal is
\* of no use, but playing it back does no harm.
Settled(d, ds, j, js, V) ==
    \E v \in V :
        /\ d = All(v) /\ ds = All(v)
        /\ j.counted => j.recs = All(v) /\ js.tx = j.tx /\ js.recs = All(v)
        /\ js.tx = j.tx /\ js.counted => j.counted

\* The pages are anything, and the whole journal is on the disk.
Pending(j, js, V) == j = js /\ j.counted /\ \E v \in V : j.recs = All(v)

InTxn(d, ds, j, js, t, n, V) ==
    /\ n > 0 /\ n \in V
    /\ \/ t = Txn /\ Settled(d, ds, j, js, V) /\ j = NoJournal /\ js.tx # n
       \/ t = T1 /\ Settled(d, ds, j, js, V) /\ j = NewJournal(n) /\ js.tx # n
       \/ t = T2 /\ Settled(d, ds, j, js, V) /\ j.tx = n /\ ~j.counted /\ j.recs = d /\ js.tx # n
       \/ t = T3 /\ Settled(d, ds, j, js, V) /\ j.tx = n /\ ~j.counted /\ j.recs = d /\ js = j
       \/ t = T4 /\ Settled(d, ds, j, js, V) /\ j.tx = n /\ j.counted
       \/ t = T5 /\ Pending(j, js, V) /\ j.tx = n
       \/ t = T6 /\ Pending(j, js, V) /\ j.tx = n /\ d = All(n)
       \/ t = T7 /\ Pending(j, js, V) /\ j.tx = n /\ d = All(n) /\ ds = d

InPlayback(d, ds, j, js, t, V) ==
    \/ t = Playback /\ (Settled(d, ds, j, js, V) \/ Pending(j, js, V))
    \/ t = T6 /\ (Settled(d, ds, j, js, V) \/ (Pending(j, js, V) /\ d = j.recs))
    \/ t = T7 /\ Settled(d, ds, j, js, V)

\* A database without a lost call.
Good(d, ds, j, js, m, t, n, V) ==
    /\ Journal(j, n) /\ Journal(js, n)
    /\ m = "idle" => Settled(d, ds, j, js, V) \/ Pending(j, js, V)
    /\ m = "txn" => InTxn(d, ds, j, js, t, n, V)
    /\ m \in Recoveries => InPlayback(d, ds, j, js, t, V)

\* A journal on the disk that comes back after a power failure undoes transactions as a
\* whole, down to one of the versions W.
OnDisk(js, W) == js.counted => \E u \in W : js.recs = All(u)

FileInv(f) ==
    /\ Good(db[f], dbStable[f], jr[f], jrStable[f], mode[f], todo[f], txs[f], allowed[f])
    /\ OnDisk(jrStable[f], allowed[f] \cup unsettled[f])

\* The state of the commits is made of functions on the databases.
Over(var) == var = [f \in Files |-> var[f]]
CommitTypes ==
    /\ Over(db) /\ Over(dbStable) /\ Over(jr) /\ Over(jrStable) /\ Over(mode) /\ Over(todo)
    /\ txs \in [Files -> Nat] /\ allowed \in [Files -> SUBSET Nat]
    /\ unsettled \in [Files -> SUBSET Nat]

CommitInv ==
    /\ CommitTypes
    /\ \A f \in Files : Shape(mode[f], todo[f])
    /\ \A f \in Files \ lied : FileInv(f)

-----------------------------------------------------------------------------
(***************************************************************************)
(* Lemmas about the operators.                                             *)
(***************************************************************************)

\* What follows the first of a few elements.
LEMMA Tail2 ==
    ASSUME NEW a, NEW b
    PROVE  Tail(<<a, b>>) = <<b>>
OBVIOUS

LEMMA Tail3 ==
    ASSUME NEW a, NEW b, NEW c
    PROVE  Tail(<<a, b, c>>) = <<b, c>>
OBVIOUS

LEMMA Tail4 ==
    ASSUME NEW a, NEW b, NEW c, NEW d
    PROVE  Tail(<<a, b, c, d>>) = <<b, c, d>>
OBVIOUS

LEMMA Tail5 ==
    ASSUME NEW a, NEW b, NEW c, NEW d, NEW e
    PROVE  Tail(<<a, b, c, d, e>>) = <<b, c, d, e>>
OBVIOUS

LEMMA Tail6 ==
    ASSUME NEW a, NEW b, NEW c, NEW d, NEW e, NEW f
    PROVE  Tail(<<a, b, c, d, e, f>>) = <<b, c, d, e, f>>
OBVIOUS

LEMMA Tail7 ==
    ASSUME NEW a, NEW b, NEW c, NEW d, NEW e, NEW f, NEW g
    PROVE  Tail(<<a, b, c, d, e, f, g>>) = <<b, c, d, e, f, g>>
OBVIOUS

LEMMA Tail8 ==
    ASSUME NEW a, NEW b, NEW c, NEW d, NEW e, NEW f, NEW g, NEW h
    PROVE  Tail(<<a, b, c, d, e, f, g, h>>) = <<b, c, d, e, f, g, h>>
OBVIOUS

\* The calls of a transaction and of a playback, one by one.
LEMMA Sequence ==
    /\ Head(Txn) = "open" /\ Tail(Txn) = T1 /\ Txn # <<>>
    /\ Head(T1) = "records" /\ Tail(T1) = T2 /\ T1 # <<>>
    /\ Head(T2) = "sync" /\ Tail(T2) = T3 /\ T2 # <<>>
    /\ Head(T3) = "header" /\ Tail(T3) = T4 /\ T3 # <<>>
    /\ Head(T4) = "sync" /\ Tail(T4) = T5 /\ T4 # <<>>
    /\ Head(T5) = "pages" /\ Tail(T5) = T6 /\ T5 # <<>>
    /\ Head(T6) = "sync pages" /\ Tail(T6) = T7 /\ T6 # <<>>
    /\ Head(T7) = "delete" /\ Tail(T7) = <<>> /\ T7 # <<>>
    /\ Head(Playback) = "play back" /\ Tail(Playback) = T6 /\ Playback # <<>>
<1>1. /\ Head(Txn) = "open" /\ Txn # <<>>
      /\ Head(T1) = "records" /\ T1 # <<>>
      /\ Head(T2) = "sync" /\ T2 # <<>>
      /\ Head(T3) = "header" /\ T3 # <<>>
      /\ Head(T4) = "sync" /\ T4 # <<>>
      /\ Head(T5) = "pages" /\ T5 # <<>>
      /\ Head(T6) = "sync pages" /\ T6 # <<>>
      /\ Head(T7) = "delete" /\ T7 # <<>>
      /\ Head(Playback) = "play back" /\ Playback # <<>>
  BY DEF Txn, T1, T2, T3, T4, T5, T6, T7, Playback
<1> PICK o, r, s, h, p, t, d : /\ o = "open" /\ r = "records" /\ s = "sync" /\ h = "header"
                               /\ p = "pages" /\ t = "sync pages" /\ d = "delete"
  OBVIOUS
<1>2. Tail(Txn) = T1
  <2>1. Tail(<<o, r, s, h, s, p, t, d>>) = <<r, s, h, s, p, t, d>>
    BY ONLY Tail8
  <2>2. Txn = <<o, r, s, h, s, p, t, d>> /\ T1 = <<r, s, h, s, p, t, d>>
    BY DEF Txn, T1
  <2> QED
    BY ONLY <2>1, <2>2
<1>3. Tail(T1) = T2
  <2>1. Tail(<<r, s, h, s, p, t, d>>) = <<s, h, s, p, t, d>>
    BY ONLY Tail7
  <2>2. T1 = <<r, s, h, s, p, t, d>> /\ T2 = <<s, h, s, p, t, d>>
    BY DEF T1, T2
  <2> QED
    BY ONLY <2>1, <2>2
<1>4. Tail(T2) = T3
  <2>1. Tail(<<s, h, s, p, t, d>>) = <<h, s, p, t, d>>
    BY ONLY Tail6
  <2>2. T2 = <<s, h, s, p, t, d>> /\ T3 = <<h, s, p, t, d>>
    BY DEF T2, T3
  <2> QED
    BY ONLY <2>1, <2>2
<1>5. Tail(T3) = T4
  <2>1. Tail(<<h, s, p, t, d>>) = <<s, p, t, d>>
    BY ONLY Tail5
  <2>2. T3 = <<h, s, p, t, d>> /\ T4 = <<s, p, t, d>>
    BY DEF T3, T4
  <2> QED
    BY ONLY <2>1, <2>2
<1>6. Tail(T4) = T5
  BY Tail4 DEF T4, T5
<1>7. Tail(T5) = T6
  BY Tail3 DEF T5, T6
<1>8. Tail(T6) = T7
  BY Tail2 DEF T6, T7
<1>9. Tail(T7) = <<>>
  BY ONLY DEF T7
<1>10. Tail(Playback) = T6
  BY Tail3 DEF Playback, T6
<1> QED
  BY <1>1, <1>2, <1>3, <1>4, <1>5, <1>6, <1>7, <1>8, <1>9, <1>10

\* No two of them are the same.
LEMMA Distinct ==
    /\ Txn \notin {T1, T2, T3, T4, T5, T6, T7} /\ T1 \notin {T2, T3, T4, T5, T6, T7}
    /\ T2 \notin {T3, T4, T5, T6, T7} /\ T3 \notin {T4, T5, T6, T7}
    /\ T4 \notin {T5, T6, T7} /\ T5 \notin {T6, T7} /\ T6 # T7
    /\ Playback \notin {Txn, T1, T2, T3, T4, T5, T6, T7}
<1>1. /\ Len(Txn) = 8 /\ Len(T1) = 7 /\ Len(T2) = 6 /\ Len(T3) = 5 /\ Len(T4) = 4
      /\ Len(T5) = 3 /\ Len(T6) = 2 /\ Len(T7) = 1 /\ Len(Playback) = 3
  BY DEF Txn, T1, T2, T3, T4, T5, T6, T7, Playback
<1>2. Playback # T5
  BY Sequence
<1> QED
  BY <1>1, <1>2

\* What Set does.
LEMMA SetAt ==
    ASSUME NEW var, Over(var), NEW f \in Files, NEW v
    PROVE  /\ Over(Set(var, f, v)) /\ Set(var, f, v)[f] = v
           /\ \A g \in Files : g # f => Set(var, f, v)[g] = var[g]
           /\ Set(var, f, var[f]) = var
BY DEF Set, Over

\* The pages that playing a journal back leaves.
LEMMA PlayedBackIs ==
    ASSUME NEW d, NEW j, NEW v \in Nat
    PROVE  /\ j.counted /\ j.recs = All(v) => PlayedBack(d, j) = All(v)
           /\ ~j.counted /\ d = All(v) => PlayedBack(d, j) = All(v)
<1>1. \A p \in Pgs : All(v)[p] = v /\ v # None
  BY DEF All, None
<1>2. ASSUME j.counted, j.recs = All(v) PROVE PlayedBack(d, j) = All(v)
  BY <1>1, <1>2 DEF PlayedBack, All
<1>3. ASSUME ~j.counted, d = All(v) PROVE PlayedBack(d, j) = All(v)
  BY <1>1, <1>3 DEF PlayedBack, All
<1> QED
  BY <1>2, <1>3

\* A journal, changed.
LEMMA JournalWith ==
    ASSUME NEW n, NEW r, NEW c, NEW x, NEW j, j = [tx |-> n, recs |-> r, counted |-> c]
    PROVE  /\ [j EXCEPT !.tx = x] = [tx |-> x, recs |-> r, counted |-> c]
           /\ [j EXCEPT !.recs = x] = [tx |-> n, recs |-> x, counted |-> c]
           /\ [j EXCEPT !.counted = x] = [tx |-> n, recs |-> r, counted |-> x]
OBVIOUS

\* NoJournal and NewJournal.
LEMMA NoJournalIs ==
    ASSUME NEW n \in Nat
    PROVE  /\ Journal(NoJournal, n) /\ ~NoJournal.counted /\ NoJournal.tx = 0
           /\ n > 0 => Journal(NewJournal(n), n)
           /\ ~NewJournal(n).counted /\ NewJournal(n).tx = n
           /\ NewJournal(n).recs = NoJournal.recs
           /\ NewJournal(0) = NoJournal
<1>1. ~NoJournal.counted /\ NoJournal.tx = 0 /\ NoJournal.recs \in [Pgs -> Int]
  BY DEF NoJournal, None
<1>2. Journal(NoJournal, n)
  BY <1>1 DEF Journal, NoJournal
<1> PICK r : r = [p \in Pgs |-> None]
  OBVIOUS
<1>5. NoJournal = [tx |-> 0, recs |-> r, counted |-> FALSE]
  BY DEF NoJournal
<1>6. PICK j, c : /\ j = NoJournal /\ j = [tx |-> 0, recs |-> r, counted |-> c]
                  /\ c = FALSE
  BY <1>5, Zenon
<1>7. ASSUME NEW x PROVE [j EXCEPT !.tx = x] = [tx |-> x, recs |-> r, counted |-> c]
  <2>1. j = [tx |-> 0, recs |-> r, counted |-> c]
    BY <1>6
  <2> QED
    BY ONLY <2>1
<1>3. NewJournal(n) = [tx |-> n, recs |-> r, counted |-> FALSE]
  BY <1>6, <1>7, Zenon DEF NewJournal
<1>4. NewJournal(0) = NoJournal
  BY <1>6, <1>7, Zenon DEF NewJournal
<1>8. r \in [Pgs -> Int] /\ NoJournal.recs = r
  BY <1>5 DEF None
<1>9. n > 0 => Journal(NewJournal(n), n)
  BY <1>3, <1>8 DEF Journal
<1> QED
  BY <1>1, <1>2, <1>3, <1>4, <1>8, <1>9

\* Both kinds of states are good ones.
LEMMA GoodStates ==
    ASSUME NEW d, NEW ds, NEW j, NEW js, NEW V \in SUBSET Nat,
           Settled(d, ds, j, js, V) \/ Pending(j, js, V)
    PROVE  \E v \in V : PlayedBack(d, j) = All(v) /\ (Pending(j, js, V) => j.recs = All(v))
<1>2. CASE Pending(j, js, V)
  BY <1>2, PlayedBackIs DEF Pending
<1>3. CASE Settled(d, ds, j, js, V) /\ ~Pending(j, js, V)
  <2>1. PICK v \in V : d = All(v) /\ (j.counted => j.recs = All(v))
    BY <1>3 DEF Settled
  <2> QED
    BY <1>3, <2>1, PlayedBackIs
<1> QED
  BY <1>2, <1>3

\* A database in any mode is settled or pending.
LEMMA GoodIs ==
    ASSUME NEW d, NEW ds, NEW j, NEW js, NEW m, NEW t, NEW n, NEW V,
           Shape(m, t), Good(d, ds, j, js, m, t, n, V)
    PROVE  Settled(d, ds, j, js, V) \/ Pending(j, js, V)
BY DEF Shape, Good, InTxn, InPlayback

\* The invariant implies the property.
LEMMA AtomicCommitHolds == CommitInv => AtomicCommit
<1> SUFFICES ASSUME CommitInv, NEW f \in Files \ lied
             PROVE  \E v \in allowed[f] : PlayedBack(db[f], jr[f]) = [p \in Pgs |-> v]
  BY DEF AtomicCommit
<1>1. Shape(mode[f], todo[f]) /\ FileInv(f) /\ allowed[f] \in SUBSET Nat
  BY DEF CommitInv, CommitTypes
<1>2. \/ Settled(db[f], dbStable[f], jr[f], jrStable[f], allowed[f])
      \/ Pending(jr[f], jrStable[f], allowed[f])
  BY <1>1, GoodIs DEF FileInv
<1> QED
  <2>1. \E v \in allowed[f] : PlayedBack(db[f], jr[f]) = All(v)
    BY <1>1, <1>2, GoodStates
  <2> QED
    BY <2>1 DEF All

LEMMA CommitInitInv == CommitInit => CommitInv
<1> SUFFICES ASSUME CommitInit PROVE CommitInv
  OBVIOUS
<1>1. CommitTypes
  BY DEF CommitInit, CommitTypes, Over
<1>2. ASSUME NEW f \in Files PROVE Shape(mode[f], todo[f]) /\ FileInv(f)
  <2>1. /\ db[f] = All(0) /\ dbStable[f] = All(0) /\ jr[f] = NoJournal /\ jrStable[f] = NoJournal
        /\ mode[f] = "idle" /\ txs[f] = 0 /\ allowed[f] = {0}
    BY <1>2 DEF CommitInit, All
  <2>2. Journal(NoJournal, 0) /\ ~NoJournal.counted
    BY NoJournalIs
  <2>3. Settled(db[f], dbStable[f], jr[f], jrStable[f], allowed[f])
    BY <2>1, <2>2 DEF Settled
  <2>4. Good(db[f], dbStable[f], jr[f], jrStable[f], mode[f], todo[f], txs[f], allowed[f])
    BY <2>1, <2>2, <2>3 DEF Good, Recoveries
  <2> QED
    BY <2>1, <2>2, <2>4 DEF Shape, FileInv, OnDisk
<1> QED
  BY <1>1, <1>2 DEF CommitInv

-----------------------------------------------------------------------------
(***************************************************************************)
(* What each call makes of a database without a lost call.                 *)
(***************************************************************************)

\* A journal that was written to.
LEMMA JournalWritten ==
    ASSUME NEW j, NEW n, Journal(j, n), NEW r
    PROVE  /\ [j EXCEPT !.recs = r] = [tx |-> j.tx, recs |-> r, counted |-> j.counted]
           /\ [j EXCEPT !.counted = TRUE] = [tx |-> j.tx, recs |-> j.recs, counted |-> TRUE]
<1>1. PICK a, b, c : a = j.tx /\ b = j.recs /\ c = j.counted
  OBVIOUS
<1>2. j = [tx |-> a, recs |-> b, counted |-> c]
  BY <1>1, Zenon DEF Journal
<1>3. PICK x : x = TRUE
  OBVIOUS
<1>4. [j EXCEPT !.recs = r] = [tx |-> a, recs |-> r, counted |-> c]
  BY ONLY <1>2
<1>5. [j EXCEPT !.counted = x] = [tx |-> a, recs |-> b, counted |-> x]
  BY ONLY <1>2
<1> QED
  BY ONLY <1>1, <1>3, <1>4, <1>5, Zenon

\* More versions are allowed.
LEMMA SettledMore ==
    ASSUME NEW d, NEW ds, NEW j, NEW js, NEW V, NEW W, V \subseteq W,
           Settled(d, ds, j, js, V)
    PROVE  Settled(d, ds, j, js, W)
BY DEF Settled

LEMMA OnDiskMore ==
    ASSUME NEW js, NEW W, NEW X, W \subseteq X, OnDisk(js, W)
    PROVE  OnDisk(js, X)
BY DEF OnDisk

\* The journal goes away, from the disk too or not.
LEMMA SettledDelete ==
    ASSUME NEW d, NEW ds, NEW j, NEW js, NEW n \in Nat, NEW V,
           Journal(j, n), Journal(js, n), Settled(d, ds, j, js, V)
    PROVE  /\ Settled(d, ds, NoJournal, js, V)
           /\ Settled(d, ds, NoJournal, NoJournal, V)
<1>1. ~NoJournal.counted /\ NoJournal.tx = 0
  BY NoJournalIs
<1>2. js.tx = 0 => ~js.counted
  BY <1>1 DEF Journal
<1> QED
  BY <1>1, <1>2 DEF Settled

\* A transaction: its calls up to the deletion of the journal.
LEMMA TxnCalls ==
    ASSUME NEW d, NEW ds, NEW j, NEW js, NEW n \in Nat, NEW V \in SUBSET Nat, NEW t,
           Good(d, ds, j, js, "txn", t, n, V)
    PROVE  /\ t = Txn => Good(d, ds, NewJournal(n), js, "txn", T1, n, V)
           /\ t = T1 => /\ j.tx # 0
                        /\ Good(d, ds, [j EXCEPT !.recs = d], js, "txn", T2, n, V)
           /\ t = T2 => Good(d, ds, j, j, "txn", T3, n, V)
           /\ t = T3 => /\ j.tx # 0
                        /\ Good(d, ds, [j EXCEPT !.counted = TRUE], js, "txn", T4, n, V)
           /\ t = T4 => Good(d, ds, j, j, "txn", T5, n, V)
           /\ t = T5 => Good(All(n), ds, j, js, "txn", T6, n, V)
           /\ t = T6 => Good(d, d, j, js, "txn", T7, n, V)
           /\ t = T7 => /\ j.tx # 0
                        /\ Good(d, ds, NoJournal, js, "idle", <<>>, n, {n})
                        /\ Good(d, ds, NoJournal, NoJournal, "idle", <<>>, n, {n})
<1>0. Journal(j, n) /\ Journal(js, n) /\ InTxn(d, ds, j, js, t, n, V) /\ n > 0 /\ n \in V
  BY DEF Good, InTxn
<1>m. "txn" \notin Recoveries /\ "idle" \notin Recoveries
  BY DEF Recoveries
<1>n. /\ Journal(NoJournal, n) /\ ~NoJournal.counted /\ Journal(NewJournal(n), n)
      /\ ~NewJournal(n).counted /\ NewJournal(n).tx = n
  BY <1>0, NoJournalIs
<1>1. CASE t = Txn
  <2>1. Settled(d, ds, j, js, V) /\ js.tx # n
    BY <1>0, <1>1, Distinct DEF InTxn
  <2>2. Settled(d, ds, NewJournal(n), js, V)
    BY <1>n, <2>1 DEF Settled
  <2>3. InTxn(d, ds, NewJournal(n), js, T1, n, V)
    BY <1>0, <2>1, <2>2 DEF InTxn
  <2> QED
    BY <1>0, <1>1, <1>m, <1>n, <2>3, Distinct DEF Good
<1>2. CASE t = T1
  <2>1. Settled(d, ds, j, js, V) /\ js.tx # n /\ j.tx = n /\ ~j.counted
    BY <1>0, <1>n, <1>2, Distinct DEF InTxn
  <2>2. PICK k : k = [j EXCEPT !.recs = d] /\ k = [tx |-> n, recs |-> d, counted |-> FALSE]
    BY <1>0, <2>1, JournalWritten DEF Journal
  <2>3. d \in [Pgs -> Int]
    <3>1. PICK v \in V : d = All(v)
      BY <2>1 DEF Settled
    <3> QED
      BY <3>1 DEF All
  <2>4. Journal(k, n) /\ ~k.counted /\ k.tx = n /\ k.recs = d
    BY <1>0, <2>2, <2>3 DEF Journal
  <2>5. Settled(d, ds, k, js, V)
    BY <2>1, <2>4 DEF Settled
  <2>6. InTxn(d, ds, k, js, T2, n, V)
    BY <1>0, <2>1, <2>4, <2>5 DEF InTxn
  <2> QED
    BY <1>0, <1>2, <1>m, <2>1, <2>2, <2>4, <2>6, Distinct DEF Good
<1>3. CASE t = T2
  <2>1. Settled(d, ds, j, js, V) /\ j.tx = n /\ ~j.counted /\ j.recs = d
    BY <1>0, <1>3, Distinct DEF InTxn
  <2>2. Settled(d, ds, j, j, V)
    BY <2>1 DEF Settled
  <2>3. InTxn(d, ds, j, j, T3, n, V)
    BY <1>0, <2>1, <2>2 DEF InTxn
  <2> QED
    BY <1>0, <1>3, <1>m, <2>3, Distinct DEF Good
<1>4. CASE t = T3
  <2>1. Settled(d, ds, j, js, V) /\ j.tx = n /\ ~j.counted /\ j.recs = d /\ js = j
    BY <1>0, <1>4, Distinct DEF InTxn
  <2>2. PICK k : /\ k = [j EXCEPT !.counted = TRUE]
                 /\ k = [tx |-> n, recs |-> d, counted |-> TRUE]
    BY <1>0, <2>1, JournalWritten DEF Journal
  <2>3. d \in [Pgs -> Int]
    <3>1. PICK v \in V : d = All(v)
      BY <2>1 DEF Settled
    <3> QED
      BY <3>1 DEF All
  <2>4. Journal(k, n) /\ k.counted /\ k.tx = n /\ k.recs = d
    <3>1. k.counted = TRUE /\ k.tx = n /\ k.recs = d
      BY <2>2
    <3>2. k = [tx |-> k.tx, recs |-> k.recs, counted |-> k.counted]
      BY <2>2, <3>1, Zenon
    <3>3. k.counted /\ k.counted \in BOOLEAN /\ k.recs \in [Pgs -> Int]
      BY <2>3, <3>1, Zenon
    <3>4. k.tx \in 0 .. n /\ k.tx # 0
      BY <1>0, <3>1
    <3> QED
      BY <3>1, <3>2, <3>3, <3>4, Zenon DEF Journal
  <2>5. Settled(d, ds, k, js, V)
    BY <2>1, <2>4 DEF Settled
  <2>6. InTxn(d, ds, k, js, T4, n, V)
    BY <1>0, <2>1, <2>4, <2>5 DEF InTxn
  <2> QED
    BY <1>0, <1>4, <1>m, <2>1, <2>2, <2>4, <2>6, Distinct DEF Good
<1>5. CASE t = T4
  <2>1. Settled(d, ds, j, js, V) /\ j.tx = n /\ j.counted
    BY <1>0, <1>5, Distinct DEF InTxn
  <2>2. Pending(j, j, V)
    BY <2>1 DEF Settled, Pending
  <2>3. InTxn(d, ds, j, j, T5, n, V)
    BY <1>0, <2>1, <2>2 DEF InTxn
  <2> QED
    BY <1>0, <1>5, <1>m, <2>3, Distinct DEF Good
<1>6. CASE t = T5
  <2>1. Pending(j, js, V) /\ j.tx = n
    BY <1>0, <1>6, Distinct DEF InTxn
  <2>2. InTxn(All(n), ds, j, js, T6, n, V)
    BY <1>0, <2>1 DEF InTxn
  <2> QED
    BY <1>0, <1>6, <1>m, <2>2, Distinct DEF Good
<1>7. CASE t = T6
  <2>1. Pending(j, js, V) /\ j.tx = n /\ d = All(n)
    BY <1>0, <1>7, Distinct DEF InTxn
  <2>2. InTxn(d, d, j, js, T7, n, V)
    BY <1>0, <2>1 DEF InTxn
  <2> QED
    BY <1>0, <1>7, <1>m, <2>2, Distinct DEF Good
<1>8. CASE t = T7
  <2>1. j.tx = n /\ d = All(n) /\ ds = All(n) /\ js = j
    BY <1>0, <1>8, Distinct DEF InTxn, Pending
  <2>3. NoJournal.tx = 0
    BY NoJournalIs
  <2>2. Settled(d, ds, NoJournal, NoJournal, {n}) /\ Settled(d, ds, NoJournal, js, {n})
    BY <1>0, <1>n, <2>1, <2>3 DEF Settled
  <2> QED
    BY <1>0, <1>8, <1>m, <1>n, <2>1, <2>2, Distinct DEF Good
<1> QED
  BY <1>1, <1>2, <1>3, <1>4, <1>5, <1>6, <1>7, <1>8

\* A playback.
LEMMA PlaybackCalls ==
    ASSUME NEW d, NEW ds, NEW j, NEW js, NEW n \in Nat, NEW V \in SUBSET Nat, NEW t,
           NEW m \in Recoveries, Good(d, ds, j, js, m, t, n, V)
    PROVE  /\ t = Playback => Good(PlayedBack(d, j), ds, j, js, m, T6, n, V)
           /\ t = T6 => Good(d, d, j, js, m, T7, n, V)
           /\ t = T7 => /\ Settled(d, ds, j, js, V)
                        /\ Good(d, ds, NoJournal, js, "idle", <<>>, n, V)
                        /\ Good(d, ds, NoJournal, NoJournal, "idle", <<>>, n, V)
<1>0. Journal(j, n) /\ Journal(js, n) /\ InPlayback(d, ds, j, js, t, V)
  BY DEF Good
<1>m. m # "txn" /\ m # "idle" /\ "idle" \notin Recoveries
  BY DEF Recoveries
<1>1. CASE t = Playback
  <2>1. Settled(d, ds, j, js, V) \/ Pending(j, js, V)
    BY <1>0, <1>1, Distinct DEF InPlayback
  <2>2. CASE Pending(j, js, V)
    <3>1. PlayedBack(d, j) = j.recs
      BY <2>1, <2>2, GoodStates
    <3>2. InPlayback(PlayedBack(d, j), ds, j, js, T6, V)
      BY <2>2, <3>1 DEF InPlayback
    <3> QED
      BY <1>0, <1>1, <1>m, <3>2, Distinct DEF Good
  <2>3. CASE Settled(d, ds, j, js, V)
    <3>1. PICK v \in V : d = All(v) /\ (j.counted => j.recs = All(v))
      BY <2>3 DEF Settled
    <3>2. PlayedBack(d, j) = d
      BY <3>1, PlayedBackIs
    <3>3. InPlayback(PlayedBack(d, j), ds, j, js, T6, V)
      BY <2>3, <3>2 DEF InPlayback
    <3> QED
      BY <1>0, <1>1, <1>m, <3>3, Distinct DEF Good
  <2> QED
    BY <2>1, <2>2, <2>3
<1>2. CASE t = T6
  <2>1. Settled(d, ds, j, js, V) \/ (Pending(j, js, V) /\ d = j.recs)
    BY <1>0, <1>2, Distinct DEF InPlayback
  <2>2. Settled(d, d, j, js, V)
    BY <2>1 DEF Settled, Pending
  <2>3. InPlayback(d, d, j, js, T7, V)
    BY <2>2 DEF InPlayback
  <2> QED
    BY <1>0, <1>2, <1>m, <2>3, Distinct DEF Good
<1>3. CASE t = T7
  <2>1. Settled(d, ds, j, js, V)
    BY <1>0, <1>3, Distinct DEF InPlayback
  <2>2. Settled(d, ds, NoJournal, js, V) /\ Settled(d, ds, NoJournal, NoJournal, V)
    BY <1>0, <2>1, SettledDelete
  <2>3. Journal(NoJournal, n)
    BY NoJournalIs
  <2> QED
    BY <1>0, <1>3, <1>m, <2>1, <2>2, <2>3, Distinct DEF Good
<1> QED
  BY <1>1, <1>2, <1>3

\* A transaction starts on a database without a journal.
LEMMA TxnStarts ==
    ASSUME NEW d, NEW ds, NEW j, NEW js, NEW n \in Nat, NEW V \in SUBSET Nat,
           Good(d, ds, j, js, "idle", <<>>, n, V), j = NoJournal
    PROVE  Good(d, ds, j, js, "txn", Txn, n + 1, V \cup {n + 1})
<1>1. Journal(j, n) /\ Journal(js, n) /\ ~j.counted
  BY NoJournalIs DEF Good
<1>2. Settled(d, ds, j, js, V)
  BY <1>1 DEF Good, Pending
<1>3. Settled(d, ds, j, js, V \cup {n + 1})
  BY <1>2, SettledMore
<1>4. js.tx # n + 1 /\ Journal(j, n + 1) /\ Journal(js, n + 1)
  BY <1>1 DEF Journal
<1>5. InTxn(d, ds, j, js, Txn, n + 1, V \cup {n + 1})
  BY <1>3, <1>4 DEF InTxn
<1> QED
  BY <1>4, <1>5 DEF Good, Recoveries

\* A database at rest, or with its journal to be played back.
LEMMA AtRest ==
    ASSUME NEW d, NEW ds, NEW j, NEW js, NEW m, NEW t, NEW n, NEW V,
           Shape(m, t), Good(d, ds, j, js, m, t, n, V)
    PROVE  /\ Good(d, ds, j, js, "idle", <<>>, n, V)
           /\ \A k \in Recoveries : Good(d, ds, j, js, k, Playback, n, V)
<1>1. Settled(d, ds, j, js, V) \/ Pending(j, js, V)
  BY GoodIs
<1>2. Journal(j, n) /\ Journal(js, n)
  BY DEF Good
<1>3. InPlayback(d, ds, j, js, Playback, V)
  BY <1>1 DEF InPlayback
<1>4. "idle" \notin Recoveries /\ "txn" \notin Recoveries
  BY DEF Recoveries
<1> QED
  BY <1>1, <1>2, <1>3, <1>4 DEF Good

\* Pages that are written in part while the journal is on the disk.
LEMMA HalfWritten ==
    ASSUME NEW d, NEW ds, NEW j, NEW js, NEW n, NEW V, NEW t,
           Good(d, ds, j, js, "txn", t, n, V), t = T5, NEW e
    PROVE  Good(e, ds, j, js, "rollback", Playback, n, V)
<1>1. Journal(j, n) /\ Journal(js, n) /\ Pending(j, js, V)
  BY Distinct DEF Good, InTxn
<1>2. InPlayback(e, ds, j, js, Playback, V)
  BY <1>1 DEF InPlayback
<1> QED
  BY <1>1, <1>2 DEF Good, Recoveries

\* Pages that are played back in part.
LEMMA HalfPlayedBack ==
    ASSUME NEW d, NEW ds, NEW j, NEW js, NEW n, NEW V \in SUBSET Nat, NEW t,
           NEW m \in Recoveries, Good(d, ds, j, js, m, t, n, V), t = Playback,
           NEW P \in SUBSET Pgs, NEW e,
           e = [p \in Pgs |-> IF p \in P THEN PlayedBack(d, j)[p] ELSE d[p]]
    PROVE  Good(e, ds, j, js, "idle", <<>>, n, V)
<1>1. Journal(j, n) /\ Journal(js, n) /\ (Settled(d, ds, j, js, V) \/ Pending(j, js, V))
  BY Distinct DEF Good, InPlayback
<1>2. Settled(d, ds, j, js, V) => Settled(e, ds, j, js, V)
  <2> SUFFICES ASSUME Settled(d, ds, j, js, V) PROVE e = d
    BY Zenon
  <2>1. PICK v \in V : d = All(v) /\ (j.counted => j.recs = All(v))
    BY DEF Settled
  <2>2. PlayedBack(d, j) = d
    BY <2>1, PlayedBackIs
  <2> QED
    BY <2>1, <2>2 DEF All
<1> QED
  BY <1>1, <1>2 DEF Good, Recoveries

\* The journal is deleted by a call that says it has failed.
LEMMA HalfDeleted ==
    ASSUME NEW d, NEW ds, NEW j, NEW js, NEW n \in Nat, NEW V,
           Good(d, ds, j, js, "txn", T7, n, V)
    PROVE  Good(d, ds, NoJournal, js, "idle", <<>>, n, V)
<1>1. /\ Journal(j, n) /\ Journal(js, n) /\ Pending(j, js, V) /\ n > 0 /\ n \in V /\ j.tx = n
      /\ d = All(n) /\ ds = All(n)
  BY Distinct DEF Good, InTxn
<1>2. Journal(NoJournal, n) /\ ~NoJournal.counted /\ NoJournal.tx = 0
  BY NoJournalIs
<1>3. Settled(d, ds, NoJournal, js, V)
  BY <1>1, <1>2 DEF Settled, Pending
<1> QED
  BY <1>1, <1>2, <1>3 DEF Good, Recoveries

-----------------------------------------------------------------------------
(***************************************************************************)
(* What a crash makes of one.                                              *)
(***************************************************************************)

\* A mixture of pages with themselves.
LEMMA MixIs ==
    ASSUME NEW a, NEW r \in Mix(a, a), a = [p \in Pgs |-> a[p]]
    PROVE  r = a
BY DEF Mix

\* A journal of which the same is sure.
LEMMA BetweenSame ==
    ASSUME NEW j, NEW n, Journal(j, n), NEW k \in Between(Sure(j, j), j)
    PROVE  k = j
<1>1. Sure(j, j) = j
  BY DEF Sure
<1>2. PICK r \in Mix(j.recs, j.recs) : k = [tx |-> j.tx, recs |-> r, counted |-> j.counted]
  BY <1>1 DEF Between
<1>3. r = j.recs
  BY <1>2, MixIs DEF Journal
<1> QED
  BY <1>2, <1>3, Zenon DEF Journal

\* What may be left of a journal of a settled database: one that counts its pages is whole.
LEMMA BetweenSettled ==
    ASSUME NEW d, NEW ds, NEW j, NEW js, NEW n \in Nat, NEW V \in SUBSET Nat,
           Journal(j, n), Journal(js, n), Settled(d, ds, j, js, V),
           NEW k \in Between(Sure(js, j), j)
    PROVE  /\ Journal(k, n) /\ k.tx = j.tx /\ Settled(d, ds, k, js, V)
           /\ OnDisk(k, V)
<1>1. PICK s : s = Sure(js, j)
  OBVIOUS
<1>2. /\ s.recs \in [Pgs -> Int] /\ s.counted \in BOOLEAN
      /\ js.tx = j.tx => s = js
      /\ js.tx # j.tx => ~s.counted
      /\ j.tx = 0 => s = j
  <2>1. CASE js.tx = j.tx
    BY <1>1, <2>1 DEF Sure, Journal
  <2>2. CASE js.tx # j.tx
    <3>1. j.tx \in Nat /\ s = NewJournal(j.tx)
      BY <1>1, <2>2 DEF Sure, Journal
    <3>2. ~s.counted /\ s.recs = NoJournal.recs /\ NoJournal.recs \in [Pgs -> Int]
      BY <3>1, NoJournalIs DEF Journal
    <3>3. j.tx = 0 => s = j
      BY <3>1, NoJournalIs DEF Journal
    <3>4. s.counted = FALSE
      BY <3>1, Zenon DEF NewJournal, NoJournal
    <3> QED
      BY <2>2, <3>2, <3>3, <3>4
  <2> QED
    BY <2>1, <2>2
<1>3. PICK r \in Mix(s.recs, j.recs), c \in {s.counted, j.counted} :
          k = [tx |-> j.tx, recs |-> r, counted |-> c]
  BY <1>1 DEF Between
<1>4. k.tx = j.tx /\ k.recs = r /\ k.counted = c /\ c \in BOOLEAN
  BY <1>2, <1>3 DEF Journal
<1>5. r \in [Pgs -> Int]
  <2>1. PICK P \in SUBSET Pgs : r = [p \in Pgs |-> IF p \in P THEN s.recs[p] ELSE j.recs[p]]
    BY <1>3 DEF Mix
  <2>2. \A p \in Pgs : s.recs[p] \in Int /\ j.recs[p] \in Int
    BY <1>2 DEF Journal
  <2> QED
    BY <2>1, <2>2
<1>6. j.tx = 0 => k = NoJournal
  <2> SUFFICES ASSUME j.tx = 0 PROVE k = NoJournal
    OBVIOUS
  <2>1. s = j /\ j = NoJournal
    BY <1>2 DEF Journal
  <2>2. r = j.recs
    BY <1>3, <2>1, MixIs DEF Journal
  <2>3. c = j.counted
    BY <1>3, <2>1
  <2> QED
    BY <1>3, <2>1, <2>2, <2>3, Zenon DEF Journal
<1>7. k = [tx |-> k.tx, recs |-> k.recs, counted |-> k.counted]
  BY <1>3, <1>4, Zenon
<1>8. Journal(k, n)
  BY <1>4, <1>5, <1>6, <1>7 DEF Journal
<1>9. PICK v \in V :
        /\ d = All(v) /\ ds = All(v)
        /\ j.counted => j.recs = All(v) /\ js.tx = j.tx /\ js.recs = All(v)
        /\ js.tx = j.tx /\ js.counted => j.counted
  BY DEF Settled
<1>10. ASSUME k.counted PROVE j.counted /\ k.recs = All(v)
  <2>1. j.counted
    BY <1>2, <1>3, <1>4, <1>9, <1>10
  <2>2. s = js /\ js.recs = j.recs /\ j.recs = All(v)
    BY <1>2, <1>9, <2>1
  <2> QED
    BY <1>3, <1>4, <2>1, <2>2, MixIs DEF Journal
<1>11. js.tx = k.tx /\ js.counted => k.counted
  <2> SUFFICES ASSUME js.tx = k.tx, js.counted PROVE k.counted
    OBVIOUS
  <2>1. s.counted /\ j.counted
    BY <1>2, <1>4, <1>9
  <2> QED
    BY <1>3, <1>4, <2>1
<1> QED
  BY <1>4, <1>8, <1>9, <1>10, <1>11 DEF Settled, OnDisk

\* The application panics.
LEMMA Panicked ==
    ASSUME NEW d, NEW ds, NEW j, NEW js, NEW m, NEW t, NEW n \in Nat, NEW V \in SUBSET Nat,
           Shape(m, t), Good(d, ds, j, js, m, t, n, V), NEW k \in Between(Sure(js, j), j)
    PROVE  Good(d, ds, k, js, "idle", <<>>, n, V)
<1>1. Journal(j, n) /\ Journal(js, n) /\ (Settled(d, ds, j, js, V) \/ Pending(j, js, V))
  BY GoodIs DEF Good
<1>2. Journal(k, n) /\ (Settled(d, ds, k, js, V) \/ Pending(k, js, V))
  <2>1. CASE Pending(j, js, V)
    <3>1. js = j
      BY <2>1 DEF Pending
    <3>2. k = j
      BY <1>1, <3>1, BetweenSame
    <3> QED
      BY <1>1, <2>1, <3>2
  <2>2. CASE Settled(d, ds, j, js, V)
    BY <1>1, <2>2, BetweenSettled
  <2> QED
    BY <1>1, <2>1, <2>2
<1> QED
  BY <1>1, <1>2 DEF Good, Recoveries

\* The power fails.
LEMMA PoweredOff ==
    ASSUME NEW d, NEW ds, NEW j, NEW js, NEW m, NEW t, NEW n \in Nat, NEW V \in SUBSET Nat,
           NEW W, V \subseteq W, OnDisk(js, W),
           Shape(m, t), Good(d, ds, j, js, m, t, n, V), NEW e \in Mix(ds, d), NEW k,
           (k = js /\ js.tx # j.tx) \/ k \in Between(Sure(js, j), j)
    PROVE  Good(e, e, k, k, "idle", <<>>, n, W) /\ OnDisk(k, W)
<1>1. Journal(j, n) /\ Journal(js, n) /\ (Settled(d, ds, j, js, V) \/ Pending(j, js, V))
  BY GoodIs DEF Good
<1>2. Journal(k, n) /\ (Settled(e, e, k, k, W) \/ Pending(k, k, W)) /\ OnDisk(k, W)
  <2>1. CASE Pending(j, js, V)
    <3>1. js = j
      BY <2>1 DEF Pending
    <3>2. k = j
      BY <1>1, <3>1, BetweenSame
    <3> QED
      BY <1>1, <2>1, <3>1, <3>2 DEF Pending
  <2>2. CASE Settled(d, ds, j, js, V)
    <3>1. PICK v \in V : d = All(v) /\ ds = All(v)
      BY <2>2 DEF Settled
    <3>2. e = All(v)
      <4>1. e \in Mix(All(v), All(v)) /\ All(v) = [p \in Pgs |-> All(v)[p]]
        BY <3>1 DEF All
      <4> QED
        BY <4>1, MixIs
    <3>3. Journal(k, n) /\ (k.counted => \E u \in W : k.recs = All(u))
      <4>1. CASE k = js
        BY <1>1, <4>1 DEF OnDisk
      <4>2. CASE k \in Between(Sure(js, j), j)
        <5>0. Journal(j, n) /\ Journal(js, n) /\ n \in Nat /\ V \in SUBSET Nat
          BY <1>1
        <5>3. /\ k \in Between(Sure(js, j), j)
              /\ Settled(d, ds, j, js, V)
          BY <2>2, <4>2
        <5>1. Journal(k, n) /\ OnDisk(k, V)
          BY <5>0, <5>3, BetweenSettled
        <5> QED
          BY <5>1 DEF OnDisk
      <4> QED
        BY <4>1, <4>2
    <3>4. v \in W
      BY <3>1
    <3> QED
      BY <3>2, <3>3, <3>4 DEF Settled, Pending, OnDisk
  <2> QED
    BY <1>1, <2>1, <2>2
<1> QED
  BY <1>2 DEF Good, Recoveries

-----------------------------------------------------------------------------
(***************************************************************************)
(* The steps.                                                              *)
(***************************************************************************)

\* A step changes one database, to this.
Becomes(f, d, ds, j, js, m, t, n, V, U) ==
    /\ db' = Set(db, f, d) /\ dbStable' = Set(dbStable, f, ds)
    /\ jr' = Set(jr, f, j) /\ jrStable' = Set(jrStable, f, js)
    /\ mode' = Set(mode, f, m) /\ todo' = Set(todo, f, t)
    /\ txs' = Set(txs, f, n) /\ allowed' = Set(allowed, f, V)
    /\ unsettled' = Set(unsettled, f, U)

\* What is left unchanged becomes what it is.
LEMMA Kept ==
    ASSUME CommitTypes, NEW f \in Files
    PROVE  /\ db = Set(db, f, db[f]) /\ dbStable = Set(dbStable, f, dbStable[f])
           /\ jr = Set(jr, f, jr[f]) /\ jrStable = Set(jrStable, f, jrStable[f])
           /\ mode = Set(mode, f, mode[f]) /\ todo = Set(todo, f, todo[f])
           /\ txs = Set(txs, f, txs[f]) /\ allowed = Set(allowed, f, allowed[f])
           /\ unsettled = Set(unsettled, f, unsettled[f])
<1>1. Over(txs) /\ Over(allowed) /\ Over(unsettled)
  BY DEF CommitTypes, Over
<1> QED
  BY <1>1, SetAt DEF CommitTypes

\* Such a step keeps the invariant if it does so for that database.
LEMMA BecomesInv ==
    ASSUME CommitInv, NEW f \in Files, NEW d, NEW ds, NEW j, NEW js, NEW m, NEW t,
           NEW n \in Nat, NEW V \in SUBSET Nat, NEW U \in SUBSET Nat,
           Becomes(f, d, ds, j, js, m, t, n, V, U),
           lied' = lied \/ lied' = lied \cup {f}, Shape(m, t),
           f \notin lied' => Good(d, ds, j, js, m, t, n, V) /\ OnDisk(js, V \cup U)
    PROVE  CommitInv'
<1>1. /\ Over(db) /\ Over(dbStable) /\ Over(jr) /\ Over(jrStable) /\ Over(mode) /\ Over(todo)
      /\ Over(txs) /\ Over(allowed) /\ Over(unsettled)
  BY DEF CommitInv, CommitTypes, Over
<1>2. /\ Over(db') /\ Over(dbStable') /\ Over(jr') /\ Over(jrStable') /\ Over(mode')
      /\ Over(todo')
      /\ db'[f] = d /\ dbStable'[f] = ds /\ jr'[f] = j /\ jrStable'[f] = js /\ mode'[f] = m
      /\ todo'[f] = t /\ txs'[f] = n /\ allowed'[f] = V /\ unsettled'[f] = U
  BY <1>1, SetAt DEF Becomes
<1>3. /\ txs' \in [Files -> Nat] /\ allowed' \in [Files -> SUBSET Nat]
      /\ unsettled' \in [Files -> SUBSET Nat]
  BY DEF Becomes, Set, CommitInv, CommitTypes
<1>4. ASSUME NEW g \in Files, g # f
      PROVE  /\ db'[g] = db[g] /\ dbStable'[g] = dbStable[g] /\ jr'[g] = jr[g]
             /\ jrStable'[g] = jrStable[g] /\ mode'[g] = mode[g] /\ todo'[g] = todo[g]
             /\ txs'[g] = txs[g] /\ allowed'[g] = allowed[g] /\ unsettled'[g] = unsettled[g]
  BY <1>1, <1>4, SetAt DEF Becomes
<1>5. CommitTypes'
  BY <1>2, <1>3 DEF CommitTypes, Over
<1>6. ASSUME NEW g \in Files
      PROVE  Shape(mode[g], todo[g])' /\ (g \notin lied' => FileInv(g)')
  <2>1. CASE g = f
    BY <1>2, <2>1 DEF FileInv
  <2>2. CASE g # f
    <3>1. Shape(mode[g], todo[g]) /\ (g \notin lied => FileInv(g)) /\ (g \notin lied' => g \notin lied)
      BY <2>2 DEF CommitInv
    <3>2. Shape(mode[g], todo[g])'
      BY <1>4, <2>2, <3>1
    <3>3. FileInv(g) => FileInv(g)'
      BY <1>4, <2>2 DEF FileInv
    <3> QED
      BY <3>1, <3>2, <3>3
  <2> QED
    BY <2>1, <2>2
<1> QED
  BY <1>5, <1>6 DEF CommitInv

\* Nothing about the commits changes.
LEMMA CommitStutters == CommitInv /\ UNCHANGED notFaults => CommitInv'
BY DEF CommitInv, CommitTypes, Over, FileInv, notFaults, files, history

\* What a statement that goes on becomes.
LEMMA Entered ==
    ASSUME NEW f, NEW m, NEW t, Enter(f, m, t)
    PROVE  mode' = Set(mode, f, m) /\ todo' = Set(todo, f, t)
BY DEF Enter

LEMMA StatementInv ==
    ASSUME CommitInv, NEW f \in Files, NEW kind \in {"write", "read"}, Statement(f, kind)
    PROVE  CommitInv'
<1>0. /\ CommitTypes /\ Shape(mode[f], todo[f]) /\ (f \notin lied => FileInv(f))
      /\ txs[f] \in Nat /\ allowed[f] \in SUBSET Nat /\ mode[f] = "idle"
      /\ unsettled[f] \in SUBSET Nat
  BY DEF CommitInv, CommitTypes, Statement
<1>1. /\ db' = Set(db, f, db[f]) /\ dbStable' = Set(dbStable, f, dbStable[f])
      /\ jr' = Set(jr, f, jr[f]) /\ jrStable' = Set(jrStable, f, jrStable[f])
      /\ unsettled' = Set(unsettled, f, unsettled[f])
  BY <1>0, Kept DEF Statement, files
<1>g. ASSUME f \notin lied
      PROVE  /\ Good(db[f], dbStable[f], jr[f], jrStable[f], "idle", <<>>, txs[f], allowed[f])
             /\ \A k \in Recoveries :
                   Good(db[f], dbStable[f], jr[f], jrStable[f], k, Playback, txs[f], allowed[f])
             /\ OnDisk(jrStable[f], allowed[f] \cup unsettled[f])
  BY <1>0, <1>g, AtRest DEF FileInv
<1>2. CASE /\ jr[f] # NoJournal /\ Enter(f, Recovery(kind), Playback)
           /\ UNCHANGED <<result, txs, faults, allowed, lied>>
  <2>1. Recovery(kind) \in Recoveries
    BY DEF Recovery, Recoveries
  <2>2. Becomes(f, db[f], dbStable[f], jr[f], jrStable[f], Recovery(kind), Playback, txs[f],
                allowed[f], unsettled[f])
    BY <1>0, <1>1, <1>2, Kept, Entered DEF Becomes
  <2>3. Shape(Recovery(kind), Playback)
    BY <2>1 DEF Shape
  <2> QED
    BY <1>0, <1>2, <1>g, <2>1, <2>2, <2>3, BecomesInv
<1>3. CASE /\ \/ jr[f] = NoJournal /\ UNCHANGED <<faults, lied>>
              \/ f \in RpcFaults /\ Fault /\ lied' = lied \cup {f}
           /\ kind = "write" /\ StartTxn(f)
  <2>1. Becomes(f, db[f], dbStable[f], jr[f], jrStable[f], "txn", Txn, txs[f] + 1,
                allowed[f] \cup {txs[f] + 1}, unsettled[f])
    BY <1>1, <1>3, Entered DEF Becomes, StartTxn
  <2>2. Shape("txn", Txn) /\ txs[f] + 1 \in Nat /\ allowed[f] \cup {txs[f] + 1} \in SUBSET Nat
    BY <1>0 DEF Shape
  <2>3. f \notin lied' => Good(db[f], dbStable[f], jr[f], jrStable[f], "txn", Txn, txs[f] + 1,
                               allowed[f] \cup {txs[f] + 1})
    BY <1>0, <1>3, <1>g, TxnStarts
  <2>4. lied' = lied \/ lied' = lied \cup {f}
    BY <1>3
  <2>5. f \notin lied' => OnDisk(jrStable[f], (allowed[f] \cup {txs[f] + 1}) \cup unsettled[f])
    BY <1>g, <2>4, OnDiskMore
  <2> QED
    BY <1>0, <2>1, <2>2, <2>3, <2>4, <2>5, BecomesInv
<1>4. CASE \E r : Finish(f, r) /\ UNCHANGED allowed /\ (lied' = lied \/ lied' = lied \cup {f})
  <2>1. Becomes(f, db[f], dbStable[f], jr[f], jrStable[f], "idle", <<>>, txs[f], allowed[f],
                unsettled[f])
    BY <1>0, <1>1, <1>4, Kept, Entered DEF Becomes, Finish
  <2>2. Shape("idle", <<>>)
    BY DEF Shape
  <2> QED
    BY <1>0, <1>4, <1>g, <2>1, <2>2, BecomesInv
<1> QED
  <2>1. Finish(f, "ERROR") /\ UNCHANGED <<allowed, lied>> => CommitInv'
    BY <1>4
  <2>2. ASSUME /\ \/ jr[f] = NoJournal /\ UNCHANGED <<faults, lied>>
                  \/ f \in RpcFaults /\ Fault /\ lied' = lied \cup {f}
               /\ IF kind = "write" THEN StartTxn(f) ELSE Finish(f, "OK") /\ UNCHANGED allowed
        PROVE  CommitInv'
    <3>1. CASE kind = "write"
      BY <1>3, <2>2, <3>1
    <3>2. CASE kind # "write"
      BY <1>4, <2>2, <3>2
    <3> QED
      BY <3>1, <3>2
  <2> QED
    BY <1>2, <2>1, <2>2 DEF Statement

\* Where a statement is after a call: at the next one, or at its end, or at the start of
\* the transaction that it was to be.
Moved(f, m, t, n, V) ==
    \/ todo[f] # T7 /\ m = mode[f] /\ t = Tail(todo[f]) /\ n = txs[f] /\ V = allowed[f]
    \/ todo[f] = T7 /\ mode[f] = "txn" /\ m = "idle" /\ t = <<>> /\ n = txs[f] /\ V = {txs[f]}
    \/ /\ todo[f] = T7 /\ mode[f] \in Recoveries /\ m = "idle" /\ t = <<>> /\ n = txs[f]
       /\ V = allowed[f]
    \/ /\ todo[f] = T7 /\ mode[f] \in Recoveries /\ m = "txn" /\ t = Txn /\ n = txs[f] + 1
       /\ V = allowed[f] \cup {txs[f] + 1}

LEMMA GoesOnIs ==
    ASSUME CommitTypes, NEW f \in Files, Shape(mode[f], todo[f]), mode[f] # "idle", GoesOn(f)
    PROVE  \E m, t, n, V :
               /\ n \in Nat /\ V \in SUBSET Nat
               /\ Moved(f, m, t, n, V) /\ Shape(m, t)
               /\ mode' = Set(mode, f, m) /\ todo' = Set(todo, f, t)
               /\ txs' = Set(txs, f, n) /\ allowed' = Set(allowed, f, V)
<1>0. txs[f] \in Nat /\ allowed[f] \in SUBSET Nat
  BY DEF CommitTypes
<1>k. txs = Set(txs, f, txs[f]) /\ allowed = Set(allowed, f, allowed[f])
  BY Kept
<1>1. CASE todo[f] # T7
  <2>1. Tail(todo[f]) # <<>> /\ Shape(mode[f], Tail(todo[f]))
    <3>1. CASE mode[f] = "txn"
      <4>1. todo[f] \in {Txn, T1, T2, T3, T4, T5, T6}
        BY <1>1, <3>1 DEF Shape, Recoveries
      <4>2. Tail(todo[f]) \in {T1, T2, T3, T4, T5, T6, T7} /\ Tail(todo[f]) # <<>>
        BY <4>1, Sequence, Zenon
      <4> QED
        BY <3>1, <4>2 DEF Shape
    <3>2. CASE mode[f] \in Recoveries
      <4>1. todo[f] \in {Playback, T6}
        BY <1>1, <3>2 DEF Shape, Recoveries
      <4>2. Tail(todo[f]) \in {T6, T7} /\ Tail(todo[f]) # <<>>
        BY <4>1, Sequence, Zenon
      <4> QED
        BY <3>2, <4>2 DEF Shape
    <3> QED
      BY <3>1, <3>2 DEF Shape
  <2>2. Enter(f, mode[f], Tail(todo[f])) /\ UNCHANGED <<result, txs, allowed>>
    BY <2>1 DEF GoesOn
  <2>3. Moved(f, mode[f], Tail(todo[f]), txs[f], allowed[f])
    BY <1>1 DEF Moved
  <2> QED
    BY <1>0, <1>k, <2>1, <2>2, <2>3, Entered
<1>2. CASE todo[f] = T7
  <2>1. Through(f)
    BY <1>2, Sequence DEF GoesOn
  <2>2. CASE mode[f] = "txn"
    <3>1. Finish(f, "OK") /\ allowed' = Set(allowed, f, {txs[f]})
      BY <2>1, <2>2 DEF Through
    <3>2. Moved(f, "idle", <<>>, txs[f], {txs[f]}) /\ Shape("idle", <<>>)
      BY <1>2, <2>2 DEF Moved, Shape
    <3>3. mode' = Set(mode, f, "idle") /\ todo' = Set(todo, f, <<>>) /\ txs' = txs
      BY <3>1 DEF Finish, Enter
    <3>4. {txs[f]} \in SUBSET Nat
      BY <1>0
    <3> QED
      BY <1>0, <1>k, <3>1, <3>2, <3>3, <3>4
  <2>3. CASE mode[f] \in {"rollback", "recovery for read"}
    <3>1. mode' = Set(mode, f, "idle") /\ todo' = Set(todo, f, <<>>) /\ txs' = txs /\ allowed' = allowed
      BY <2>1, <2>3 DEF Through, Finish, Enter
    <3>2. Moved(f, "idle", <<>>, txs[f], allowed[f]) /\ Shape("idle", <<>>)
      BY <1>2, <2>3 DEF Moved, Shape, Recoveries
    <3> QED
      BY <1>0, <1>k, <3>1, <3>2
  <2>4. CASE mode[f] = "recovery for write"
    <3>1. /\ mode' = Set(mode, f, "txn") /\ todo' = Set(todo, f, Txn)
          /\ txs' = Set(txs, f, txs[f] + 1) /\ allowed' = Set(allowed, f, allowed[f] \cup {txs[f] + 1})
      BY <2>1, <2>4 DEF Through, StartTxn, Enter
    <3>2. Moved(f, "txn", Txn, txs[f] + 1, allowed[f] \cup {txs[f] + 1}) /\ Shape("txn", Txn)
      BY <1>2, <2>4 DEF Moved, Shape, Recoveries
    <3>3. txs[f] + 1 \in Nat /\ allowed[f] \cup {txs[f] + 1} \in SUBSET Nat
      BY <1>0
    <3> QED
      BY <3>1, <3>2, <3>3
  <2> QED
    BY <2>2, <2>3, <2>4 DEF Shape, Recoveries
<1> QED
  BY <1>1, <1>2

\* What a call that succeeds makes of the files.
Made(f, d, ds, j, js, dirSync) ==
    \/ /\ todo[f] = Txn /\ d = db[f] /\ ds = dbStable[f] /\ j = NewJournal(txs[f])
       /\ js = jrStable[f]
    \/ /\ todo[f] = T1 /\ d = db[f] /\ ds = dbStable[f] /\ js = jrStable[f]
       /\ j = IF jr[f].tx = 0 THEN jr[f] ELSE [jr[f] EXCEPT !.recs = db[f]]
    \/ todo[f] \in {T2, T4} /\ d = db[f] /\ ds = dbStable[f] /\ j = jr[f] /\ js = jr[f]
    \/ /\ todo[f] = T3 /\ d = db[f] /\ ds = dbStable[f] /\ js = jrStable[f]
       /\ j = IF jr[f].tx = 0 THEN jr[f] ELSE [jr[f] EXCEPT !.counted = TRUE]
    \/ todo[f] = T5 /\ d = All(txs[f]) /\ ds = dbStable[f] /\ j = jr[f] /\ js = jrStable[f]
    \/ todo[f] = T6 /\ d = db[f] /\ ds = db[f] /\ j = jr[f] /\ js = jrStable[f]
    \/ /\ todo[f] = T7 /\ d = db[f] /\ ds = dbStable[f] /\ j = NoJournal
       /\ js = IF dirSync /\ jr[f].tx # 0 THEN NoJournal ELSE jrStable[f]
    \/ /\ todo[f] = Playback /\ d = PlayedBack(db[f], jr[f]) /\ ds = dbStable[f] /\ j = jr[f]
       /\ js = jrStable[f]

LEMMA DoneIs ==
    ASSUME CommitTypes, NEW f \in Files, Shape(mode[f], todo[f]), mode[f] # "idle",
           NEW dirSync \in BOOLEAN, Done(f, Head(todo[f]), dirSync)
    PROVE  \E d, ds, j, js : /\ Made(f, d, ds, j, js, dirSync)
                             /\ db' = Set(db, f, d) /\ dbStable' = Set(dbStable, f, ds)
                             /\ jr' = Set(jr, f, j) /\ jrStable' = Set(jrStable, f, js)
<1>k. /\ db = Set(db, f, db[f]) /\ dbStable = Set(dbStable, f, dbStable[f])
      /\ jr = Set(jr, f, jr[f]) /\ jrStable = Set(jrStable, f, jrStable[f])
  BY Kept
<1>1. CASE todo[f] = Txn
  <2>1. xOpen(f)
    BY <1>1, Sequence DEF Done
  <2>2. Made(f, db[f], dbStable[f], NewJournal(txs[f]), jrStable[f], dirSync)
    BY <1>1 DEF Made
  <2> QED
    BY <1>k, <2>1, <2>2 DEF xOpen
<1>2. CASE todo[f] = T1
  <2>1. xWriteJournal(f, [jr[f] EXCEPT !.recs = db[f]])
    BY <1>2, Sequence DEF Done
  <2>2. PICK j : j = IF jr[f].tx = 0 THEN jr[f] ELSE [jr[f] EXCEPT !.recs = db[f]]
    OBVIOUS
  <2>3. Made(f, db[f], dbStable[f], j, jrStable[f], dirSync)
    BY <1>2, <2>2 DEF Made
  <2>4. jr' = Set(jr, f, j) /\ UNCHANGED <<db, dbStable, jrStable>>
    BY <1>k, <2>1, <2>2 DEF xWriteJournal
  <2> QED
    BY <1>k, <2>3, <2>4
<1>3. CASE todo[f] \in {T2, T4}
  <2>1. xSyncJournal(f)
    BY <1>3, Sequence DEF Done
  <2>2. Made(f, db[f], dbStable[f], jr[f], jr[f], dirSync)
    BY <1>3 DEF Made
  <2> QED
    BY <1>k, <2>1, <2>2 DEF xSyncJournal
<1>4. CASE todo[f] = T3
  <2>1. xWriteJournal(f, [jr[f] EXCEPT !.counted = TRUE])
    BY <1>4, Sequence DEF Done
  <2>2. PICK j : j = IF jr[f].tx = 0 THEN jr[f] ELSE [jr[f] EXCEPT !.counted = TRUE]
    OBVIOUS
  <2>3. Made(f, db[f], dbStable[f], j, jrStable[f], dirSync)
    BY <1>4, <2>2 DEF Made
  <2>4. jr' = Set(jr, f, j) /\ UNCHANGED <<db, dbStable, jrStable>>
    BY <1>k, <2>1, <2>2 DEF xWriteJournal
  <2> QED
    BY <1>k, <2>3, <2>4
<1>5. CASE todo[f] = T5
  <2>1. xWritePages(f, New(f), Pgs)
    BY <1>5, Sequence DEF Done
  <2>2. [p \in Pgs |-> IF p \in Pgs THEN New(f)[p] ELSE db[f][p]] = All(txs[f])
    BY DEF New, All
  <2>3. Made(f, All(txs[f]), dbStable[f], jr[f], jrStable[f], dirSync)
    BY <1>5 DEF Made
  <2> QED
    BY <1>k, <2>1, <2>2, <2>3 DEF xWritePages
<1>6. CASE todo[f] = T6
  <2>1. xSyncPages(f)
    BY <1>6, Sequence DEF Done
  <2>2. Made(f, db[f], db[f], jr[f], jrStable[f], dirSync)
    BY <1>6 DEF Made
  <2> QED
    BY <1>k, <2>1, <2>2 DEF xSyncPages
<1>7. CASE todo[f] = T7
  <2>1. xDelete(f, dirSync)
    BY <1>7, Sequence DEF Done
  <2>2. PICK js : js = IF dirSync /\ jr[f].tx # 0 THEN NoJournal ELSE jrStable[f]
    OBVIOUS
  <2>3. Made(f, db[f], dbStable[f], NoJournal, js, dirSync)
    BY <1>7, <2>2 DEF Made
  <2>4. jrStable' = Set(jrStable, f, js) /\ jr' = Set(jr, f, NoJournal) /\ UNCHANGED <<db, dbStable>>
    BY <1>k, <2>1, <2>2 DEF xDelete
  <2> QED
    BY <1>k, <2>3, <2>4
<1>8. CASE todo[f] = Playback
  <2>1. xWritePages(f, PlayedBack(db[f], jr[f]), Pgs)
    BY <1>8, Sequence DEF Done
  <2>2. [p \in Pgs |-> IF p \in Pgs THEN PlayedBack(db[f], jr[f])[p] ELSE db[f][p]]
            = PlayedBack(db[f], jr[f])
    BY DEF PlayedBack
  <2>3. Made(f, PlayedBack(db[f], jr[f]), dbStable[f], jr[f], jrStable[f], dirSync)
    BY <1>8 DEF Made
  <2> QED
    BY <1>k, <2>1, <2>2, <2>3 DEF xWritePages
<1> QED
  BY <1>1, <1>2, <1>3, <1>4, <1>5, <1>6, <1>7, <1>8 DEF Shape

LEMMA CallInv ==
    ASSUME CommitInv, NEW f \in Files, Call(f)
    PROVE  CommitInv'
<1>0. /\ CommitTypes /\ Shape(mode[f], todo[f]) /\ (f \notin lied => FileInv(f))
      /\ txs[f] \in Nat /\ allowed[f] \in SUBSET Nat /\ mode[f] # "idle" /\ lied' = lied
      /\ GoesOn(f) /\ unsettled[f] \in SUBSET Nat
  BY DEF CommitInv, CommitTypes, Call
<1>s. PICK dirSync \in BOOLEAN :
          Done(f, Head(todo[f]), dirSync) /\ Settles(f, Head(todo[f]), dirSync)
  BY DEF Call
<1>1. PICK m, t, n, V :
          /\ n \in Nat /\ V \in SUBSET Nat
          /\ Moved(f, m, t, n, V) /\ Shape(m, t)
          /\ mode' = Set(mode, f, m) /\ todo' = Set(todo, f, t)
          /\ txs' = Set(txs, f, n) /\ allowed' = Set(allowed, f, V)
  BY <1>0, GoesOnIs
<1>2. PICK d, ds, j, js : /\ Made(f, d, ds, j, js, dirSync)
                          /\ db' = Set(db, f, d) /\ dbStable' = Set(dbStable, f, ds)
                          /\ jr' = Set(jr, f, j) /\ jrStable' = Set(jrStable, f, js)
  BY <1>0, <1>s, DoneIs
<1>u. PICK U \in SUBSET Nat :
          /\ unsettled' = Set(unsettled, f, U)
          /\ todo[f] \in {T2, T4} => U = {}
          /\ todo[f] \in {Txn, T1, T3, T5, T6, Playback} => U = unsettled[f]
          /\ todo[f] = T7 /\ mode[f] = "txn" /\ ~(dirSync /\ jr[f].tx # 0) =>
                 U = allowed[f] \ {txs[f]}
          /\ todo[f] = T7 /\ mode[f] # "txn" /\ ~(dirSync /\ jr[f].tx # 0) => U = unsettled[f]
  <2> DEFINE call == Head(todo[f])
             settled == call = "sync" \/ (call = "delete" /\ dirSync /\ jr[f].tx # 0)
             W == IF settled THEN {}
                  ELSE IF call = "delete" /\ mode[f] = "txn" THEN allowed[f] \ {txs[f]}
                  ELSE unsettled[f]
  <2>1. unsettled' = Set(unsettled, f, W) /\ W \in SUBSET Nat
    BY <1>0, <1>s DEF Settles
  <2>2. /\ todo[f] \in {T2, T4} => call = "sync"
        /\ todo[f] \in {Txn, T1, T3, T5, T6, Playback} => call \notin {"sync", "delete"}
        /\ todo[f] = T7 => call = "delete"
    BY Sequence, Zenon
  <2> HIDE DEF call
  <2>3. /\ todo[f] \in {T2, T4} => W = {}
        /\ todo[f] \in {Txn, T1, T3, T5, T6, Playback} => W = unsettled[f]
        /\ todo[f] = T7 /\ mode[f] = "txn" /\ ~(dirSync /\ jr[f].tx # 0) =>
               W = allowed[f] \ {txs[f]}
        /\ todo[f] = T7 /\ mode[f] # "txn" /\ ~(dirSync /\ jr[f].tx # 0) => W = unsettled[f]
    BY <2>2
  <2> QED
    BY <2>1, <2>3
<1>3. Becomes(f, d, ds, j, js, m, t, n, V, U)
  BY <1>1, <1>2, <1>u DEF Becomes
<1>4. ASSUME f \notin lied PROVE Good(d, ds, j, js, m, t, n, V)
  <2>0. Good(db[f], dbStable[f], jr[f], jrStable[f], mode[f], todo[f], txs[f], allowed[f])
    BY <1>0, <1>4 DEF FileInv
  <2>t. mode[f] = "txn" =>
            Good(db[f], dbStable[f], jr[f], jrStable[f], "txn", todo[f], txs[f], allowed[f])
    BY <2>0
  <2>1. CASE mode[f] = "txn" /\ todo[f] # T7
    <3>1. /\ todo[f] \in {Txn, T1, T2, T3, T4, T5, T6}
          /\ m = "txn" /\ t = Tail(todo[f]) /\ n = txs[f] /\ V = allowed[f]
      BY <1>0, <1>1, <2>1 DEF Shape, Recoveries, Moved
    <3>2. CASE todo[f] = Txn
      <4>1. d = db[f] /\ ds = dbStable[f] /\ j = NewJournal(txs[f]) /\ js = jrStable[f]
        BY <1>2, <3>2, Distinct DEF Made
      <4>2. t = T1
        BY <3>1, <3>2, Sequence
      <4>3. Good(db[f], dbStable[f], NewJournal(txs[f]), jrStable[f],
                  "txn", T1, txs[f], allowed[f])
        BY <1>0, <2>t, <2>1, <3>2, TxnCalls
      <4> QED
        BY <3>1, <4>1, <4>2, <4>3
    <3>3. CASE todo[f] = T1
      <4>1. /\ d = db[f] /\ ds = dbStable[f] /\ js = jrStable[f]
            /\ jr[f].tx # 0 => j = [jr[f] EXCEPT !.recs = db[f]]
        BY <1>2, <3>3, Distinct DEF Made
      <4>2. t = T2
        BY <3>1, <3>3, Sequence
      <4>3. /\ jr[f].tx # 0
            /\ Good(db[f], dbStable[f], [jr[f] EXCEPT !.recs = db[f]], jrStable[f],
                  "txn", T2, txs[f], allowed[f])
        BY <1>0, <2>t, <2>1, <3>3, TxnCalls
      <4> QED
        BY <3>1, <4>1, <4>2, <4>3
    <3>4. CASE todo[f] = T2
      <4>1. d = db[f] /\ ds = dbStable[f] /\ j = jr[f] /\ js = jr[f]
        BY <1>2, <3>4, Distinct DEF Made
      <4>2. t = T3
        BY <3>1, <3>4, Sequence
      <4>3. Good(db[f], dbStable[f], jr[f], jr[f],
                  "txn", T3, txs[f], allowed[f])
        BY <1>0, <2>t, <2>1, <3>4, TxnCalls
      <4> QED
        BY <3>1, <4>1, <4>2, <4>3
    <3>5. CASE todo[f] = T3
      <4>1. /\ d = db[f] /\ ds = dbStable[f] /\ js = jrStable[f]
            /\ jr[f].tx # 0 => j = [jr[f] EXCEPT !.counted = TRUE]
        BY <1>2, <3>5, Distinct DEF Made
      <4>2. t = T4
        BY <3>1, <3>5, Sequence
      <4>3. /\ jr[f].tx # 0
            /\ Good(db[f], dbStable[f], [jr[f] EXCEPT !.counted = TRUE], jrStable[f],
                  "txn", T4, txs[f], allowed[f])
        BY <1>0, <2>t, <2>1, <3>5, TxnCalls
      <4> QED
        BY <3>1, <4>1, <4>2, <4>3
    <3>6. CASE todo[f] = T4
      <4>1. d = db[f] /\ ds = dbStable[f] /\ j = jr[f] /\ js = jr[f]
        BY <1>2, <3>6, Distinct DEF Made
      <4>2. t = T5
        BY <3>1, <3>6, Sequence
      <4>3. Good(db[f], dbStable[f], jr[f], jr[f],
                  "txn", T5, txs[f], allowed[f])
        BY <1>0, <2>t, <2>1, <3>6, TxnCalls
      <4> QED
        BY <3>1, <4>1, <4>2, <4>3
    <3>7. CASE todo[f] = T5
      <4>1. d = All(txs[f]) /\ ds = dbStable[f] /\ j = jr[f] /\ js = jrStable[f]
        BY <1>2, <3>7, Distinct DEF Made
      <4>2. t = T6
        BY <3>1, <3>7, Sequence
      <4>3. Good(All(txs[f]), dbStable[f], jr[f], jrStable[f],
                  "txn", T6, txs[f], allowed[f])
        BY <1>0, <2>t, <2>1, <3>7, TxnCalls
      <4> QED
        BY <3>1, <4>1, <4>2, <4>3
    <3>8. CASE todo[f] = T6
      <4>1. d = db[f] /\ ds = db[f] /\ j = jr[f] /\ js = jrStable[f]
        BY <1>2, <3>8, Distinct DEF Made
      <4>2. t = T7
        BY <3>1, <3>8, Sequence
      <4>3. Good(db[f], db[f], jr[f], jrStable[f],
                  "txn", T7, txs[f], allowed[f])
        BY <1>0, <2>t, <2>1, <3>8, TxnCalls
      <4> QED
        BY <3>1, <4>1, <4>2, <4>3
    <3> QED
      BY <3>1, <3>2, <3>3, <3>4, <3>5, <3>6, <3>7, <3>8
  <2>2. CASE mode[f] = "txn" /\ todo[f] = T7
    <3>1. m = "idle" /\ t = <<>> /\ n = txs[f] /\ V = {txs[f]}
      BY <1>1, <2>2 DEF Moved, Recoveries
    <3>2. /\ Good(db[f], dbStable[f], NoJournal, jrStable[f], "idle", <<>>, txs[f], {txs[f]})
          /\ Good(db[f], dbStable[f], NoJournal, NoJournal, "idle", <<>>, txs[f], {txs[f]})
      BY <1>0, <2>t, <2>2, TxnCalls
    <3>3. d = db[f] /\ ds = dbStable[f] /\ j = NoJournal /\ js \in {jrStable[f], NoJournal}
      BY <1>2, <2>2, Distinct DEF Made
    <3> QED
      BY <3>1, <3>2, <3>3
  <2>3. CASE mode[f] \in Recoveries /\ todo[f] # T7
    <3>1. /\ todo[f] \in {Playback, T6}
          /\ m = mode[f] /\ t = Tail(todo[f]) /\ n = txs[f] /\ V = allowed[f]
      BY <1>0, <1>1, <2>3 DEF Shape, Recoveries, Moved
    <3>2. CASE todo[f] = Playback
      <4>1. d = PlayedBack(db[f], jr[f]) /\ ds = dbStable[f] /\ j = jr[f] /\ js = jrStable[f]
        BY <1>2, <3>2, Distinct DEF Made
      <4>2. t = T6
        BY <3>1, <3>2, Sequence
      <4> QED
        BY <1>0, <2>0, <2>3, <3>1, <3>2, <4>1, <4>2, PlaybackCalls
    <3>3. CASE todo[f] = T6
      <4>1. d = db[f] /\ ds = db[f] /\ j = jr[f] /\ js = jrStable[f]
        BY <1>2, <3>3, Distinct DEF Made
      <4>2. t = T7
        BY <3>1, <3>3, Sequence
      <4> QED
        BY <1>0, <2>0, <2>3, <3>1, <3>3, <4>1, <4>2, PlaybackCalls
    <3> QED
      BY <3>1, <3>2, <3>3
  <2>4. CASE mode[f] \in Recoveries /\ todo[f] = T7
    <3>1. /\ Good(db[f], dbStable[f], NoJournal, jrStable[f], "idle", <<>>, txs[f], allowed[f])
          /\ Good(db[f], dbStable[f], NoJournal, NoJournal, "idle", <<>>, txs[f], allowed[f])
      BY <1>0, <2>0, <2>4, PlaybackCalls
    <3>2. d = db[f] /\ ds = dbStable[f] /\ j = NoJournal /\ js \in {jrStable[f], NoJournal}
      BY <1>2, <2>4, Distinct DEF Made
    <3>3. Good(d, ds, j, js, "idle", <<>>, txs[f], allowed[f])
      BY <3>1, <3>2
    <3>4. Good(d, ds, j, js, "txn", Txn, txs[f] + 1, allowed[f] \cup {txs[f] + 1})
      BY <1>0, <3>2, <3>3, TxnStarts
    <3> QED
      BY <1>1, <2>4, <3>3, <3>4 DEF Moved, Recoveries
  <2> QED
    BY <1>0, <2>1, <2>2, <2>3, <2>4 DEF Shape
<1>5. ASSUME f \notin lied PROVE OnDisk(js, V \cup U)
  <2>0. /\ Good(db[f], dbStable[f], jr[f], jrStable[f], mode[f], todo[f], txs[f], allowed[f])
        /\ OnDisk(jrStable[f], allowed[f] \cup unsettled[f])
    BY <1>0, <1>5 DEF FileInv
  <2>n. OnDisk(NoJournal, V \cup U)
    <3>1. ~NoJournal.counted
      BY NoJournalIs
    <3> QED
      BY <3>1 DEF OnDisk
  <2>1. CASE todo[f] \in {T2, T4}
    <3>1. js = jr[f]
      BY <1>2, <2>1, Distinct DEF Made
    <3>2. mode[f] = "txn" /\ V = allowed[f]
      <4>1. mode[f] = "txn"
        BY <1>0, <2>1, Distinct DEF Shape
      <4>2. todo[f] # T7
        BY <2>1, Distinct
      <4> QED
        BY <1>1, <4>1, <4>2 DEF Moved
    <3>3. OnDisk(jr[f], allowed[f])
      <4>1. InTxn(db[f], dbStable[f], jr[f], jrStable[f], todo[f], txs[f], allowed[f])
        BY <2>0, <3>2 DEF Good
      <4>2. CASE todo[f] = T2
        BY <4>1, <4>2, Distinct DEF InTxn, OnDisk
      <4>3. CASE todo[f] = T4
        <5>1. Settled(db[f], dbStable[f], jr[f], jrStable[f], allowed[f])
          BY <4>1, <4>3, Distinct DEF InTxn
        <5> QED
          BY <5>1 DEF Settled, OnDisk
      <4> QED
        BY <2>1, <4>2, <4>3
    <3> QED
      BY <3>1, <3>2, <3>3, OnDiskMore
  <2>2. CASE todo[f] \in {Txn, T1, T3, T5, T6, Playback}
    <3>1. js = jrStable[f] /\ U = unsettled[f]
      BY <1>2, <1>u, <2>2, Distinct DEF Made
    <3>2. V = allowed[f]
      <4>1. todo[f] # T7
        BY <2>2, Distinct
      <4> QED
        BY <1>1, <4>1 DEF Moved
    <3> QED
      BY <2>0, <3>1, <3>2
  <2>3. CASE todo[f] = T7
    <3>1. js = IF dirSync /\ jr[f].tx # 0 THEN NoJournal ELSE jrStable[f]
      BY <1>2, <2>3, Distinct DEF Made
    <3>2. CASE dirSync /\ jr[f].tx # 0
      BY <2>n, <3>1, <3>2
    <3>3. CASE ~(dirSync /\ jr[f].tx # 0) /\ mode[f] = "txn"
      <4>1. js = jrStable[f] /\ U = allowed[f] \ {txs[f]} /\ V = {txs[f]}
        BY <1>1, <1>u, <2>3, <3>1, <3>3 DEF Moved, Recoveries
      <4>2. Pending(jr[f], jrStable[f], allowed[f])
        BY <2>0, <2>3, <3>3, Distinct DEF Good, InTxn
      <4>3. OnDisk(jrStable[f], allowed[f])
        BY <4>2 DEF Pending, OnDisk
      <4>4. allowed[f] \subseteq V \cup U
        BY <4>1
      <4> QED
        BY <4>1, <4>3, <4>4, OnDiskMore
    <3>4. CASE ~(dirSync /\ jr[f].tx # 0) /\ mode[f] # "txn"
      <4>1. js = jrStable[f] /\ U = unsettled[f] /\ allowed[f] \subseteq V
        BY <1>1, <1>u, <2>3, <3>1, <3>4 DEF Moved
      <4>2. allowed[f] \cup unsettled[f] \subseteq V \cup U
        BY <4>1
      <4> QED
        BY <2>0, <4>1, <4>2, OnDiskMore
    <3> QED
      BY <3>2, <3>3, <3>4
  <2> QED
    BY <1>0, <2>1, <2>2, <2>3 DEF Shape
<1> QED
  BY <1>0, <1>1, <1>3, <1>4, <1>5, <1>u, BecomesInv

\* What a call that fails makes of the files.
Broken(f, d, j) ==
    \/ /\ todo[f] \in {Txn, T1, T2, T3, T4, T6} /\ d = db[f] /\ j = jr[f]
    \/ todo[f] = T5 /\ j = jr[f]
    \/ todo[f] = T7 /\ d = db[f] /\ j \in {jr[f], NoJournal}
    \/ /\ todo[f] = Playback /\ j = jr[f]
       /\ \E P \in SUBSET Pgs :
             d = [p \in Pgs |-> IF p \in P THEN PlayedBack(db[f], jr[f])[p] ELSE db[f][p]]

LEMMA HalfIs ==
    ASSUME CommitTypes, NEW f \in Files, Shape(mode[f], todo[f]), mode[f] # "idle",
           Half(f, Head(todo[f]))
    PROVE  \E d, j : /\ Broken(f, d, j)
                     /\ db' = Set(db, f, d) /\ dbStable' = Set(dbStable, f, dbStable[f])
                     /\ jr' = Set(jr, f, j) /\ jrStable' = Set(jrStable, f, jrStable[f])
<1>k. /\ db = Set(db, f, db[f]) /\ dbStable = Set(dbStable, f, dbStable[f])
      /\ jr = Set(jr, f, jr[f]) /\ jrStable = Set(jrStable, f, jrStable[f])
  BY Kept
<1>1. CASE todo[f] \in {Txn, T1, T2, T3, T4, T6}
  <2>1. Head(todo[f]) \in {"open", "records", "sync", "header", "sync pages"}
    BY <1>1, Sequence, Zenon
  <2>2. UNCHANGED <<db, dbStable, jr, jrStable>>
    BY <2>1 DEF Half, files
  <2>3. Broken(f, db[f], jr[f])
    BY <1>1 DEF Broken
  <2> QED
    BY <1>k, <2>2, <2>3
<1>2. CASE todo[f] = T5
  <2>1. PICK P \in SUBSET Pgs : xWritePages(f, New(f), P)
    BY <1>2, Sequence DEF Half
  <2>2. PICK d : d = [p \in Pgs |-> IF p \in P THEN New(f)[p] ELSE db[f][p]]
    OBVIOUS
  <2>3. db' = Set(db, f, d) /\ UNCHANGED <<dbStable, jr, jrStable>>
    BY <2>1, <2>2 DEF xWritePages
  <2>4. Broken(f, d, jr[f])
    BY <1>2 DEF Broken
  <2> QED
    BY <1>k, <2>3, <2>4
<1>3. CASE todo[f] = T7
  <2>1. \/ UNCHANGED <<db, dbStable, jr, jrStable>>
        \/ jr' = Set(jr, f, NoJournal) /\ UNCHANGED <<db, dbStable, jrStable>>
    BY <1>3, Sequence DEF Half, files
  <2>2. Broken(f, db[f], jr[f]) /\ Broken(f, db[f], NoJournal)
    BY <1>3 DEF Broken
  <2> QED
    BY <1>k, <2>1, <2>2
<1>4. CASE todo[f] = Playback
  <2>1. PICK P \in SUBSET Pgs : xWritePages(f, PlayedBack(db[f], jr[f]), P)
    BY <1>4, Sequence DEF Half
  <2>2. PICK d : d = [p \in Pgs |-> IF p \in P THEN PlayedBack(db[f], jr[f])[p] ELSE db[f][p]]
    OBVIOUS
  <2>3. db' = Set(db, f, d) /\ UNCHANGED <<dbStable, jr, jrStable>>
    BY <2>1, <2>2 DEF xWritePages
  <2>4. Broken(f, d, jr[f])
    BY <1>4, <2>2 DEF Broken
  <2> QED
    BY <1>k, <2>3, <2>4
<1> QED
  BY <1>1, <1>2, <1>3, <1>4 DEF Shape

\* What a lost call makes of them.
LEMMA LostIs ==
    ASSUME CommitTypes, NEW f \in Files, Shape(mode[f], todo[f]), mode[f] # "idle",
           Lost(f, Head(todo[f]))
    PROVE  \E d, j : /\ db' = Set(db, f, d) /\ dbStable' = Set(dbStable, f, dbStable[f])
                     /\ jr' = Set(jr, f, j) /\ jrStable' = Set(jrStable, f, jrStable[f])
<1>k. /\ dbStable = Set(dbStable, f, dbStable[f])
      /\ jr = Set(jr, f, jr[f]) /\ jrStable = Set(jrStable, f, jrStable[f])
  BY Kept
<1>1. ASSUME NEW new, NEW P, xWritePages(f, new, P)
      PROVE  \E d : db' = Set(db, f, d) /\ UNCHANGED <<dbStable, jr, jrStable>>
  BY <1>1 DEF xWritePages
<1>2. CASE Head(todo[f]) \in {"pages", "play back"}
  <2>1. \E new, P : xWritePages(f, new, P)
    BY <1>2 DEF Lost
  <2> QED
    BY <1>1, <1>k, <2>1
<1>3. CASE Head(todo[f]) \notin {"pages", "play back"}
  <2>1. Half(f, Head(todo[f]))
    BY <1>3 DEF Lost
  <2> QED
    BY <2>1, HalfIs
<1> QED
  BY <1>2, <1>3

\* A lost call misleads the statement, which keeps its shape.
LEMMA LostCallInv ==
    ASSUME CommitInv, NEW f \in Files, LostCall(f)
    PROVE  CommitInv'
<1>0. /\ CommitTypes /\ Shape(mode[f], todo[f]) /\ mode[f] # "idle" /\ lied' = lied \cup {f}
      /\ GoesOn(f) /\ Lost(f, Head(todo[f])) /\ UNCHANGED unsettled
      /\ unsettled[f] \in SUBSET Nat
  BY DEF CommitInv, CommitTypes, LostCall
<1>1. PICK m, t, n, V :
          /\ n \in Nat /\ V \in SUBSET Nat
          /\ Moved(f, m, t, n, V) /\ Shape(m, t)
          /\ mode' = Set(mode, f, m) /\ todo' = Set(todo, f, t)
          /\ txs' = Set(txs, f, n) /\ allowed' = Set(allowed, f, V)
  BY <1>0, GoesOnIs
<1>2. PICK d, j : /\ db' = Set(db, f, d) /\ dbStable' = Set(dbStable, f, dbStable[f])
                  /\ jr' = Set(jr, f, j) /\ jrStable' = Set(jrStable, f, jrStable[f])
  BY <1>0, LostIs
<1>3. Becomes(f, d, dbStable[f], j, jrStable[f], m, t, n, V, unsettled[f])
  BY <1>0, <1>1, <1>2, Kept DEF Becomes
<1> QED
  BY <1>0, <1>1, <1>3, BecomesInv

LEMMA CallFailsInv ==
    ASSUME CommitInv, NEW f \in Files, CallFails(f)
    PROVE  CommitInv'
<1>0. /\ CommitTypes /\ Shape(mode[f], todo[f]) /\ (f \notin lied => FileInv(f))
      /\ txs[f] \in Nat /\ allowed[f] \in SUBSET Nat /\ mode[f] # "idle" /\ lied' = lied
      /\ allowed' = allowed /\ unsettled' = unsettled /\ unsettled[f] \in SUBSET Nat
      /\ Half(f, Head(todo[f]))
  BY DEF CommitInv, CommitTypes, CallFails, history
<1>d. f \notin lied => OnDisk(jrStable[f], allowed[f] \cup unsettled[f])
  BY <1>0 DEF FileInv
<1>1. PICK d, j : /\ Broken(f, d, j)
                  /\ db' = Set(db, f, d) /\ dbStable' = Set(dbStable, f, dbStable[f])
                  /\ jr' = Set(jr, f, j) /\ jrStable' = Set(jrStable, f, jrStable[f])
  BY <1>0, HalfIs
<1>2. CASE mode[f] = "txn" /\ todo[f] # T7
  <2>1. todo[f] \in {Txn, T1, T2, T3, T4, T5, T6}
    BY <1>0, <1>2 DEF Shape, Recoveries
  <2>2. Head(todo[f]) # "delete"
    BY <2>1, Sequence, Zenon
  <2>3. mode' = Set(mode, f, "rollback") /\ todo' = Set(todo, f, Playback) /\ txs' = txs
    BY <1>2, <2>2 DEF CallFails, Enter
  <2>4. Becomes(f, d, dbStable[f], j, jrStable[f], "rollback", Playback, txs[f], allowed[f],
                unsettled[f])
    BY <1>0, <1>1, <2>3, Kept DEF Becomes
  <2>5. Shape("rollback", Playback) /\ "rollback" \in Recoveries
    BY DEF Shape, Recoveries
  <2>6. ASSUME f \notin lied
        PROVE  Good(d, dbStable[f], j, jrStable[f], "rollback", Playback, txs[f], allowed[f])
    <3>1. Good(db[f], dbStable[f], jr[f], jrStable[f], "txn", todo[f], txs[f], allowed[f])
      BY <1>0, <1>2, <2>6 DEF FileInv
    <3>2. CASE todo[f] = T5
      <4>1. j = jr[f]
        BY <1>1, <3>2, Distinct DEF Broken
      <4> QED
        BY <3>1, <3>2, <4>1, HalfWritten
    <3>3. CASE todo[f] # T5
      <4>1. d = db[f] /\ j = jr[f]
        BY <1>1, <2>1, <3>3, Distinct DEF Broken
      <4>2. Shape("txn", todo[f])
        BY <2>1 DEF Shape
      <4>3. Good(db[f], dbStable[f], jr[f], jrStable[f], "rollback", Playback, txs[f], allowed[f])
        BY <2>5, <3>1, <4>2, AtRest
      <4> QED
        BY <4>1, <4>3
    <3> QED
      BY <3>2, <3>3
  <2> QED
    BY <1>0, <1>d, <2>4, <2>5, <2>6, BecomesInv
<1>3. CASE ~(mode[f] = "txn" /\ todo[f] # T7)
  <2>1. Finish(f, "ERROR")
    BY <1>3, Sequence DEF CallFails
  <2>2. mode' = Set(mode, f, "idle") /\ todo' = Set(todo, f, <<>>) /\ txs' = txs
    BY <2>1 DEF Finish, Enter
  <2>3. Becomes(f, d, dbStable[f], j, jrStable[f], "idle", <<>>, txs[f], allowed[f],
                unsettled[f])
    BY <1>0, <1>1, <2>2, Kept DEF Becomes
  <2>4. Shape("idle", <<>>)
    BY DEF Shape
  <2>5. ASSUME f \notin lied
        PROVE  Good(d, dbStable[f], j, jrStable[f], "idle", <<>>, txs[f], allowed[f])
    <3>0. Good(db[f], dbStable[f], jr[f], jrStable[f], mode[f], todo[f], txs[f], allowed[f])
      BY <1>0, <2>5 DEF FileInv
    <3>1. Good(db[f], dbStable[f], jr[f], jrStable[f], "idle", <<>>, txs[f], allowed[f])
      BY <1>0, <3>0, AtRest
    <3>2. CASE mode[f] = "txn"
      <4>1. Good(db[f], dbStable[f], jr[f], jrStable[f], "txn", T7, txs[f], allowed[f])
        BY <1>3, <3>0, <3>2
      <4>2. Good(db[f], dbStable[f], NoJournal, jrStable[f], "idle", <<>>, txs[f], allowed[f])
        BY <1>0, <4>1, HalfDeleted
      <4>3. d = db[f] /\ j \in {jr[f], NoJournal}
        BY <1>1, <1>3, <3>2, Distinct DEF Broken
      <4> QED
        BY <3>1, <4>2, <4>3
    <3>3. CASE mode[f] \in Recoveries /\ todo[f] = Playback
      <4>1. /\ j = jr[f]
            /\ \E P \in SUBSET Pgs :
                 d = [p \in Pgs |-> IF p \in P THEN PlayedBack(db[f], jr[f])[p] ELSE db[f][p]]
        BY <1>1, <3>3, Distinct DEF Broken
      <4>2. PICK P \in SUBSET Pgs :
                d = [p \in Pgs |-> IF p \in P THEN PlayedBack(db[f], jr[f])[p] ELSE db[f][p]]
        BY <4>1
      <4> QED
        BY <1>0, <3>0, <3>3, <4>1, <4>2, HalfPlayedBack
    <3>4. CASE mode[f] \in Recoveries /\ todo[f] = T6
      <4>1. d = db[f] /\ j = jr[f]
        BY <1>1, <3>4, Distinct DEF Broken
      <4> QED
        BY <3>1, <4>1
    <3>5. CASE mode[f] \in Recoveries /\ todo[f] = T7
      <4>1. d = db[f] /\ j \in {jr[f], NoJournal}
        BY <1>1, <3>5, Distinct DEF Broken
      <4>2. Good(db[f], dbStable[f], NoJournal, jrStable[f], "idle", <<>>, txs[f], allowed[f])
        BY <1>0, <3>0, <3>5, PlaybackCalls
      <4> QED
        BY <3>1, <4>1, <4>2
    <3> QED
      BY <1>0, <3>2, <3>3, <3>4, <3>5 DEF Shape
  <2> QED
    BY <1>0, <1>d, <2>3, <2>4, <2>5, BecomesInv
<1> QED
  BY <1>2, <1>3

\* A crash ends every statement.
LEMMA CrashInv ==
    ASSUME CommitInv, Crash, Over(db'), Over(dbStable'), Over(jr'), Over(jrStable'),
           allowed' \in [Files -> SUBSET Nat], unsettled' \in [Files -> SUBSET Nat],
           \A f \in Files \ lied :
               /\ Good(db'[f], dbStable'[f], jr'[f], jrStable'[f], "idle", <<>>, txs[f], allowed'[f])
               /\ OnDisk(jrStable'[f], allowed'[f] \cup unsettled'[f])
    PROVE  CommitInv'
<1>1. /\ mode' = [f \in Files |-> "idle"] /\ todo' = [f \in Files |-> <<>>]
      /\ UNCHANGED <<txs, lied>>
  BY DEF Crash
<1>2. CommitTypes'
  BY <1>1 DEF CommitInv, CommitTypes, Over
<1>3. ASSUME NEW f \in Files
      PROVE  Shape(mode[f], todo[f])' /\ (f \notin lied' => FileInv(f)')
  <2>1. mode'[f] = "idle" /\ todo'[f] = <<>> /\ txs' = txs /\ lied' = lied
    BY <1>1
  <2> QED
    BY <2>1 DEF Shape, FileInv
<1> QED
  BY <1>2, <1>3 DEF CommitInv

LEMMA PanicInv == CommitInv /\ Panic => CommitInv'
<1> SUFFICES ASSUME CommitInv, Panic PROVE CommitInv'
  OBVIOUS
<1>1. /\ Over(jr') /\ UNCHANGED <<db, dbStable, jrStable, allowed, unsettled>> /\ Crash
      /\ \A f \in Files : jr'[f] \in Between(Sure(jrStable[f], jr[f]), jr[f])
  BY DEF Panic, Choices, Over
<1>2. ASSUME NEW f \in Files \ lied
      PROVE  /\ Good(db'[f], dbStable'[f], jr'[f], jrStable'[f], "idle", <<>>, txs[f], allowed'[f])
             /\ OnDisk(jrStable'[f], allowed'[f] \cup unsettled'[f])
  <2>1. /\ Shape(mode[f], todo[f]) /\ txs[f] \in Nat /\ allowed[f] \in SUBSET Nat
        /\ Good(db[f], dbStable[f], jr[f], jrStable[f], mode[f], todo[f], txs[f], allowed[f])
        /\ OnDisk(jrStable[f], allowed[f] \cup unsettled[f])
    BY DEF CommitInv, CommitTypes, FileInv
  <2>2. Good(db[f], dbStable[f], jr'[f], jrStable[f], "idle", <<>>, txs[f], allowed[f])
    BY <1>1, <2>1, Panicked
  <2> QED
    BY <1>1, <2>1, <2>2
<1>3. /\ Over(db') /\ Over(dbStable') /\ Over(jrStable')
      /\ allowed' \in [Files -> SUBSET Nat] /\ unsettled' \in [Files -> SUBSET Nat]
  BY <1>1 DEF CommitInv, CommitTypes
<1> QED
  BY <1>1, <1>2, <1>3, CrashInv

LEMMA PowerFailsInv == CommitInv /\ PowerFails => CommitInv'
<1> SUFFICES ASSUME CommitInv, PowerFails PROVE CommitInv'
  OBVIOUS
<1>1. /\ Over(db') /\ Over(jr') /\ dbStable' = db' /\ jrStable' = jr' /\ Crash
      /\ allowed' = [f \in Files |-> allowed[f] \cup unsettled[f]]
      /\ unsettled' = [f \in Files |-> {}]
      /\ \A f \in Files : db'[f] \in Mix(dbStable[f], db[f])
      /\ \A f \in Files : jr'[f] \in {x \in {jrStable[f]} : x.tx # jr[f].tx}
                                        \cup Between(Sure(jrStable[f], jr[f]), jr[f])
  BY DEF PowerFails, Choices, Over
<1>2. ASSUME NEW f \in Files \ lied
      PROVE  /\ Good(db'[f], dbStable'[f], jr'[f], jrStable'[f], "idle", <<>>, txs[f], allowed'[f])
             /\ OnDisk(jrStable'[f], allowed'[f] \cup unsettled'[f])
  <2>1. /\ Shape(mode[f], todo[f]) /\ txs[f] \in Nat /\ allowed[f] \in SUBSET Nat
        /\ Good(db[f], dbStable[f], jr[f], jrStable[f], mode[f], todo[f], txs[f], allowed[f])
        /\ OnDisk(jrStable[f], allowed[f] \cup unsettled[f])
    BY DEF CommitInv, CommitTypes, FileInv
  <2>2. \/ jr'[f] = jrStable[f] /\ jrStable[f].tx # jr[f].tx
        \/ jr'[f] \in Between(Sure(jrStable[f], jr[f]), jr[f])
    BY <1>1
  <2>3. db'[f] \in Mix(dbStable[f], db[f])
    BY <1>1
  <2>4. PICK W : W = allowed[f] \cup unsettled[f]
    OBVIOUS
  <2>5. allowed[f] \subseteq W /\ OnDisk(jrStable[f], W)
    BY <2>1, <2>4
  <2>6. Good(db'[f], db'[f], jr'[f], jr'[f], "idle", <<>>, txs[f], W) /\ OnDisk(jr'[f], W)
    BY <2>1, <2>2, <2>3, <2>5, PoweredOff
  <2>7. allowed'[f] = W /\ allowed'[f] \cup unsettled'[f] = W
    BY <1>1, <2>4
  <2> QED
    BY <1>1, <2>6, <2>7
<1>3. /\ Over(dbStable') /\ Over(jrStable')
      /\ allowed' \in [Files -> SUBSET Nat] /\ unsettled' \in [Files -> SUBSET Nat]
  BY <1>1 DEF Over, CommitInv, CommitTypes
<1> QED
  BY <1>1, <1>2, <1>3, CrashInv

-----------------------------------------------------------------------------
(***************************************************************************)
(* The programs: what the tables say of their labels.                      *)
(***************************************************************************)

\* The parts of a step.
Is(step, op, file, ok, err) ==
    step.op = op /\ step.file = file /\ step.ok = ok /\ step.err = err

\* The labels of the application, as At and Running have them.
LEMMA TaLabels ==
    ASSUME Running("ta")
    PROVE  \/ pc["ta"] = "start" /\ Is(At("ta"), "open", "test.db", "key", "key")
           \/ pc["ta"] = "key" /\ Is(At("ta"), "key", "test.db", "opened", "opened")
           \/ pc["ta"] = "opened" /\ Is(At("ta"), "if rc", "test.db", "sql", "undo")
           \/ pc["ta"] = "sql" /\ Is(At("ta"), "write", "test.db", "select", "fail")
           \/ pc["ta"] = "select" /\ Is(At("ta"), "read", "test.db", "shut", "fail")
           \/ pc["ta"] = "shut" /\ Is(At("ta"), "close", "test.db", "test", "test")
           \/ pc["ta"] = "fail" /\ Is(At("ta"), "free", "", "undo", "undo")
           \/ pc["ta"] = "undo" /\ Is(At("ta"), "close", "test.db", "return1", "return1")
           \/ pc["ta"] = "test" /\ Is(At("ta"), "open", "test1.db", "tsql", "tundo")
           \/ pc["ta"] = "tsql" /\ Is(At("ta"), "write", "test1.db", "tshut", "tfail")
           \/ pc["ta"] = "tshut" /\ Is(At("ta"), "close", "test1.db", "treopen", "treopen")
           \/ pc["ta"] = "treopen" /\ Is(At("ta"), "open", "test1.db", "tselect", "tselect")
           \/ pc["ta"] = "tselect" /\ Is(At("ta"), "read", "test1.db", "tundo", "tfail")
           \/ pc["ta"] = "tfail" /\ Is(At("ta"), "free", "", "tundo", "tundo")
           \/ pc["ta"] = "tundo" /\ Is(At("ta"), "close", "test1.db", "types", "types")
           \/ pc["ta"] = "types" /\ Is(At("ta"), "types", "", "return0", "returnBad")
<1>1. DOMAIN exec = {"start", "key", "opened", "sql", "select", "shut", "fail", "undo"}
  BY DEF exec
<1>2. DOMAIN testWithotKey =
          {"test", "tsql", "tshut", "treopen", "tselect", "tfail", "tundo", "types"}
  BY DEF testWithotKey
<1>3. /\ Is(exec["start"], "open", "test.db", "key", "key")
      /\ Is(exec["key"], "key", "test.db", "opened", "opened")
      /\ Is(exec["opened"], "if rc", "test.db", "sql", "undo")
      /\ Is(exec["sql"], "write", "test.db", "select", "fail")
      /\ Is(exec["select"], "read", "test.db", "shut", "fail")
      /\ Is(exec["shut"], "close", "test.db", "test", "test")
      /\ Is(exec["fail"], "free", "", "undo", "undo")
      /\ Is(exec["undo"], "close", "test.db", "return1", "return1")
  BY DEF exec, Step, Is
<1>4. /\ Is(testWithotKey["test"], "open", "test1.db", "tsql", "tundo")
      /\ Is(testWithotKey["tsql"], "write", "test1.db", "tshut", "tfail")
      /\ Is(testWithotKey["tshut"], "close", "test1.db", "treopen", "treopen")
      /\ Is(testWithotKey["treopen"], "open", "test1.db", "tselect", "tselect")
      /\ Is(testWithotKey["tselect"], "read", "test1.db", "tundo", "tfail")
      /\ Is(testWithotKey["tfail"], "free", "", "tundo", "tundo")
      /\ Is(testWithotKey["tundo"], "close", "test1.db", "types", "types")
      /\ Is(testWithotKey["types"], "types", "", "return0", "returnBad")
  BY DEF testWithotKey, Step, Is
<1>5. CASE pc["ta"] \in DOMAIN exec
  <2>0. At("ta") = exec[pc["ta"]]
    BY <1>5 DEF At
  <2>1. CASE pc["ta"] = "start"
    BY <1>3, <2>0, <2>1, Zenon
  <2>2. CASE pc["ta"] = "key"
    BY <1>3, <2>0, <2>2, Zenon
  <2>3. CASE pc["ta"] = "opened"
    BY <1>3, <2>0, <2>3, Zenon
  <2>4. CASE pc["ta"] = "sql"
    BY <1>3, <2>0, <2>4, Zenon
  <2>5. CASE pc["ta"] = "select"
    BY <1>3, <2>0, <2>5, Zenon
  <2>6. CASE pc["ta"] = "shut"
    BY <1>3, <2>0, <2>6, Zenon
  <2>7. CASE pc["ta"] = "fail"
    BY <1>3, <2>0, <2>7, Zenon
  <2>8. CASE pc["ta"] = "undo"
    BY <1>3, <2>0, <2>8, Zenon
  <2> QED
    BY <1>1, <1>5, <2>1, <2>2, <2>3, <2>4, <2>5, <2>6, <2>7, <2>8, Zenon
<1>6. CASE pc["ta"] \notin DOMAIN exec
  <2>0. At("ta") = testWithotKey[pc["ta"]] /\ pc["ta"] \in DOMAIN testWithotKey
    BY <1>6 DEF At, Running
  <2>1. CASE pc["ta"] = "test"
    BY <1>4, <2>0, <2>1, Zenon
  <2>2. CASE pc["ta"] = "tsql"
    BY <1>4, <2>0, <2>2, Zenon
  <2>3. CASE pc["ta"] = "tshut"
    BY <1>4, <2>0, <2>3, Zenon
  <2>4. CASE pc["ta"] = "treopen"
    BY <1>4, <2>0, <2>4, Zenon
  <2>5. CASE pc["ta"] = "tselect"
    BY <1>4, <2>0, <2>5, Zenon
  <2>6. CASE pc["ta"] = "tfail"
    BY <1>4, <2>0, <2>6, Zenon
  <2>7. CASE pc["ta"] = "tundo"
    BY <1>4, <2>0, <2>7, Zenon
  <2>8. CASE pc["ta"] = "types"
    BY <1>4, <2>0, <2>8, Zenon
  <2> QED
    BY <1>2, <2>0, <2>1, <2>2, <2>3, <2>4, <2>5, <2>6, <2>7, <2>8, Zenon
<1> QED
  BY <1>5, <1>6

\* The databases it executes SQL on.
LEMMA TaFile ==
    ASSUME Doing("ta", "write") \/ Doing("ta", "read")
    PROVE  At("ta").file \in Files /\ At("ta").op \in {"write", "read"}
<1>1. Running("ta") /\ At("ta").op \in {"write", "read"}
  BY DEF Doing
<1>2. At("ta").file \in {"test.db", "test1.db"}
  BY <1>1, TaLabels DEF Is
<1> QED
  BY <1>1, <1>2, FilesAssumption

-----------------------------------------------------------------------------
(***************************************************************************)
(* The commits.                                                            *)
(***************************************************************************)

LEMMA CommitStep == CommitInv /\ [Next]_vars => CommitInv'
<1> SUFFICES ASSUME CommitInv, [Next]_vars PROVE CommitInv'
  OBVIOUS
<1>1. CASE TaStatement
  BY <1>1, TaFile, StatementInv DEF TaStatement, TaExecuting
<1>2. CASE TaCall
  BY <1>2, TaFile, CallInv, LostCallInv, CallFailsInv DEF TaCall, TaExecuting
<1>3. CASE TaPanics
  BY <1>3, PanicInv DEF TaPanics
<1>4. CASE MachineStops
  BY <1>4, PowerFailsInv DEF MachineStops
<1>5. CASE UNCHANGED notFaults
  BY <1>5, CommitStutters
<1>6. CASE HostStep
  <2>1. UNCHANGED notFaults
    <3>1. HostOpen => UNCHANGED notFaults
      BY DEF HostOpen, sqlite3_open
    <3>2. sqlite3_close("host") => UNCHANGED notFaults
      BY DEF sqlite3_close, commitVars, notFaults
    <3>3. sqlite3_free("host") => UNCHANGED notFaults
      BY DEF sqlite3_free, commitVars, notFaults
    <3>4. ExecRefused("host") => UNCHANGED notFaults
      BY DEF ExecRefused, commitVars, notFaults
    <3>5. HostExec => UNCHANGED notFaults
      BY DEF HostExec, commitVars, notFaults
    <3>6. TEEC_InitializeContext => UNCHANGED notFaults
      BY DEF TEEC_InitializeContext, commitVars, notFaults
    <3>7. TEEC_OpenSession => UNCHANGED notFaults
      BY DEF TEEC_OpenSession, commitVars, notFaults
    <3>8. TEEC_InvokeCommand => UNCHANGED notFaults
      BY DEF TEEC_InvokeCommand, commitVars, notFaults
    <3>9. InvokeReturns => UNCHANGED notFaults
      BY DEF InvokeReturns, commitVars, notFaults
    <3>10. TEEC_CloseSession => UNCHANGED notFaults
      BY DEF TEEC_CloseSession, commitVars, notFaults
    <3> QED
      BY <1>6, <3>1, <3>2, <3>3, <3>4, <3>5, <3>6, <3>7, <3>8, <3>9, <3>10 DEF HostStep
  <2> QED
    BY <1>5, <2>1
<1>7. CASE TaStep /\ ~TaStatement /\ ~TaCall
  <2>1. UNCHANGED notFaults
    <3>1. TaOpen => UNCHANGED notFaults
      BY DEF TaOpen, sqlite3_open
    <3>2. sqlite3_close("ta") => UNCHANGED notFaults
      BY DEF sqlite3_close, commitVars, notFaults
    <3>3. sqlite3_free("ta") => UNCHANGED notFaults
      BY DEF sqlite3_free, commitVars, notFaults
    <3>4. ExecRefused("ta") => UNCHANGED notFaults
      BY DEF ExecRefused, commitVars, notFaults
    <3>5. sqlite3_key => UNCHANGED notFaults
      BY DEF sqlite3_key, commitVars, notFaults
    <3>6. CheckRc => UNCHANGED notFaults
      BY DEF CheckRc, commitVars, notFaults
    <3>7. TaStatementEnds => UNCHANGED notFaults
      BY DEF TaStatementEnds, commitVars, notFaults
    <3>8. CheckTypes => UNCHANGED notFaults
      BY DEF CheckTypes, commitVars, notFaults
    <3> QED
      BY <1>7, <3>1, <3>2, <3>3, <3>4, <3>5, <3>6, <3>7, <3>8 DEF TaStep
  <2> QED
    BY <1>5, <2>1
<1>8. CASE Supplicant
  BY <1>5, <1>8 DEF Supplicant
<1>9. CASE RunAgain
  BY <1>5, <1>9 DEF RunAgain, commitVars, notFaults
<1>10. CASE UNCHANGED vars
  BY <1>5, <1>10 DEF vars, commitVars, notFaults
<1> QED
  BY <1>1, <1>2, <1>3, <1>4, <1>6, <1>7, <1>8, <1>9, <1>10 DEF Next

\* Unless a lost call was taken for a success, a database is for the next statement as
\* one transaction left it, whatever fails, panics or loses power in between, for any
\* number of databases, pages, transactions and faults (what demoWrite's buffer,
\* demoSync's flush and demoDelete's sync of the directory are for), and whether SQLite
\* passes dirSync or not: without it the last commit may be undone, as a whole, by a
\* power failure, until a later journal or the directory is synced.
THEOREM CommitsAreAtomic == Spec => []AtomicCommit
<1>1. Init => CommitInv
  BY CommitInitInv DEF Init
<1>2. CommitInv /\ [Next]_vars => CommitInv'
  BY CommitStep
<1>3. CommitInv => AtomicCommit
  BY AtomicCommitHolds
<1> QED
  BY <1>1, <1>2, <1>3, PTL DEF Spec

-----------------------------------------------------------------------------
(***************************************************************************)
(* The handles and the messages of the two programs.                       *)
(***************************************************************************)

\* A program at label l with handle h and message m: at some labels it has such ones.
Holding(l, h, m, labels, handles, messages) ==
    l \in labels => h \in handles /\ m \in messages

\* What an open leaves: all but a handle that is closed.
Opens == {"live", "sick", "null"}

\* Labels at which a program must have nothing open.
TaResting == {"types", "return0", "return1", "returnBad", "idle", "none", "dead"}
HostResting == {"context", "session", "invoke", "leave", "exit0", "exit1", "off"}

TaFits(l, h, r, m) ==
    /\ l \in TaResting \cup {"start", "key", "opened", "sql", "select", "shut", "fail", "undo",
                             "test", "tsql", "tshut", "treopen", "tselect", "tfail", "tundo"}
    /\ Holding(l, h, m, {"start"}, {"null"}, {"null"})
    /\ Holding(l, h, m, {"key", "opened"}, Opens, {"null"})
    /\ l \in {"key", "opened"} /\ r = "OK" => h = "live"
    /\ Holding(l, h, m, {"sql", "select", "shut", "tsql", "tshut"}, {"live"}, {"null"})
    /\ Holding(l, h, m, {"tselect"}, Opens, {"null"})
    /\ Holding(l, h, m, {"test", "treopen"}, {"closed"}, {"null"})
    /\ Holding(l, h, m, {"fail", "tfail"}, Opens, {"set", "null"})
    /\ Holding(l, h, m, {"undo", "tundo"}, Opens, {"freed", "null"})
    /\ Holding(l, h, m, TaResting, {"closed", "null"}, {"freed", "null"})

HostFits(l, h, m) ==
    /\ l \in HostResting \cup {"start", "sql", "shut", "reopen", "select", "shut2", "fail", "undo"}
    /\ Holding(l, h, m, {"start"}, {"null"}, {"null"})
    /\ Holding(l, h, m, {"sql", "shut"}, {"live"}, {"null"})
    /\ Holding(l, h, m, {"select", "shut2"}, Opens, {"null"})
    /\ Holding(l, h, m, {"reopen"}, {"closed"}, {"null"})
    /\ Holding(l, h, m, {"fail"}, Opens, {"set", "null"})
    /\ Holding(l, h, m, {"undo"}, Opens, {"freed", "null"})
    /\ Holding(l, h, m, HostResting, {"closed", "null"}, {"freed", "null"})

TaInv == TaFits(pc["ta"], handle["ta"], rc["ta"], msg["ta"])
HostInv == HostFits(pc["host"], handle["host"], msg["host"])

AppTypes ==
    /\ pc = [a \in Actors |-> pc[a]] /\ handle = [a \in Actors |-> handle[a]]
    /\ rc = [a \in Actors |-> rc[a]] /\ msg = [a \in Actors |-> msg[a]]

\* The application works while its command is invoked.
AppInv ==
    /\ AppTypes /\ TaInv /\ HostInv /\ misuse \subseteq {"key of NULL"}
    /\ pc["host"] # "invoke" => pc["ta"] \in {"idle", "none"}

-----------------------------------------------------------------------------
(***************************************************************************)
(* The start of tee-supplicant.                                            *)
(***************************************************************************)

StartInv ==
    /\ at = [q \in Procs |-> at[q]] /\ bytes \in Nat
    /\ bytes > 0 \/ at["child"] = "release" => opened = "yes"
    /\ at["parent"] = "exit 0" => argv.help \/ opened = "yes" \/ readError = "yes"

LEMMA StartStepInv ==
    ASSUME StartInv, StartSteps \/ StartFaults \/ Restart \/ UNCHANGED startVars
    PROVE  StartInv'
<1> USE DEF Procs
<1>1. CASE Prepare
  <2>0. UNCHANGED <<argv, bytes, opened, readError>>
    BY <1>1 DEF Prepare
  <2>1. CASE argv.help /\ Leave("parent", "exit 0")
    BY <2>0, <2>1 DEF StartInv, Leave
  <2>2. CASE Leave("parent", "exit 1")
    BY <2>0, <2>2 DEF StartInv, Leave
  <2>3. CASE To("parent", "fork") \/ To("parent", "open device")
    BY <2>0, <2>3 DEF StartInv, To
  <2> QED
    BY <1>1, <2>1, <2>2, <2>3 DEF Prepare, usage, set_ta_path
<1>2. CASE Fork
  BY <1>2 DEF Fork, Leave, StartInv
<1>3. CASE Wait
  BY <1>3 DEF Wait, Leave, StartInv
<1>10. CASE ReadFails
  BY <1>10 DEF ReadFails, Leave, StartInv
<1>4. CASE Detach
  BY <1>4 DEF Detach, To, Leave, StartInv
<1>5. CASE Release
  <2>0. UNCHANGED <<argv, opened, readError>> /\ opened = "yes"
    BY <1>5 DEF Release, StartInv
  <2>1. CASE bytes' = bytes + 1 /\ To("child", "serve")
    <3>1. at' = [q \in Procs |-> at'[q]] /\ at'["parent"] = at["parent"]
      BY <2>1 DEF StartInv, To
    <3>0. bytes \in Nat
      BY DEF StartInv
    <3>2. bytes' \in Nat
      BY <2>1, <3>0
    <3> QED
      BY <2>0, <3>1, <3>2 DEF StartInv
  <2>2. CASE Leave("child", IF readers = {} THEN "killed" ELSE "exit 1") /\ UNCHANGED bytes
    BY <2>0, <2>2 DEF StartInv, Leave
  <2> QED
    BY <1>5, <2>1, <2>2 DEF Release
<1>6. ASSUME NEW q \in Procs, OpenDevice(q) PROVE StartInv'
  <2>1. CASE opened' = "yes" /\ To(q, IF argv.daemonize THEN "release" ELSE "serve")
    BY <1>6, <2>1 DEF OpenDevice, To, StartInv
  <2>2. CASE Leave(q, "exit 1") /\ UNCHANGED opened
    BY <1>6, <2>2 DEF OpenDevice, Leave, StartInv
  <2> QED
    BY <1>6, <2>1, <2>2 DEF OpenDevice
<1>7. ASSUME NEW q \in Procs, StopServing(q) \/ Kill(q) PROVE StartInv'
  BY <1>7 DEF StopServing, Kill, Leave, StartInv
<1>8. CASE Restart
  <2>1. at' = [q \in Procs |-> at'[q]] /\ at'["parent"] = "main" /\ at'["child"] = "unborn"
    BY <1>8 DEF Restart
  <2>2. bytes' \in Nat /\ ~(bytes' > 0)
    BY <1>8 DEF Restart
  <2> QED
    BY <2>1, <2>2 DEF StartInv
<1>9. CASE UNCHANGED startVars
  BY <1>9 DEF startVars, StartInv
<1> QED
  BY <1>1, <1>2, <1>3, <1>4, <1>5, <1>6, <1>7, <1>8, <1>9, <1>10
  DEF StartSteps, StartFaults

LEMMA StartStep == StartInv /\ [Next]_vars => StartInv'
<1> SUFFICES ASSUME StartInv, [Next]_vars PROVE StartInv'
  OBVIOUS
<1>1. CASE Supplicant
  BY <1>1, StartStepInv DEF Supplicant
<1>2. CASE MachineStops
  BY <1>2, StartStepInv DEF MachineStops
<1>3. CASE HostStep
  <2>1. UNCHANGED startVars
    BY <1>3 DEF HostStep, HostOpen, sqlite3_open, sqlite3_close, sqlite3_free, ExecRefused,
                HostExec, TEEC_InitializeContext, TEEC_OpenSession, TEEC_InvokeCommand,
                InvokeReturns, TEEC_CloseSession
  <2> QED
    BY <2>1, StartStepInv
<1>4. CASE TaStep
  <2>1. UNCHANGED startVars
    BY <1>4 DEF TaStep, TaOpen, sqlite3_open, sqlite3_close, sqlite3_free, ExecRefused,
                sqlite3_key, CheckRc, TaStatement, TaCall, TaStatementEnds, CheckTypes
  <2> QED
    BY <2>1, StartStepInv
<1>5. CASE RunAgain \/ TaPanics \/ UNCHANGED vars
  BY <1>5, StartStepInv DEF RunAgain, TaPanics, vars
<1> QED
  BY <1>1, <1>2, <1>3, <1>4, <1>5 DEF Next

\* "run as a daemon (fork and return after child has opened the TEE device or on error)"
\* (tee_supplicant.c: usage): whatever the devices and the command line, a parent that
\* reports success has a child that opened the device, unless its own read() has failed.
THEOREM ParentReleasedAfterOpen == Spec => []ReleasedAfterOpen
<1>1. Init => StartInv
  BY DEF Init, StartInit, StartInv, Procs
<1>2. StartInv /\ [Next]_vars => StartInv'
  BY StartStep
<1>3. StartInv => ReleasedAfterOpen
  BY DEF StartInv, ReleasedAfterOpen
<1> QED
  BY <1>1, <1>2, <1>3, PTL DEF Spec

\* The labels of the host.
LEMMA HostLabels ==
    ASSUME Running("host")
    PROVE  \/ pc["host"] = "start" /\ Is(At("host"), "open", "test2.db", "sql", "undo")
           \/ pc["host"] = "sql" /\ Is(At("host"), "exec", "test2.db", "shut", "fail")
           \/ pc["host"] = "shut" /\ Is(At("host"), "close", "test2.db", "reopen", "reopen")
           \/ pc["host"] = "reopen" /\ Is(At("host"), "open", "test2.db", "select", "select")
           \/ pc["host"] = "select" /\ Is(At("host"), "exec", "test2.db", "shut2", "fail")
           \/ pc["host"] = "shut2" /\ Is(At("host"), "close", "test2.db", "context", "context")
           \/ pc["host"] = "context" /\ Is(At("host"), "TEEC_InitializeContext", "", "session", "exit1")
           \/ pc["host"] = "session" /\ Is(At("host"), "TEEC_OpenSession", "", "invoke", "exit1")
           \/ pc["host"] = "invoke" /\ Is(At("host"), "TEEC_InvokeCommand", "", "leave", "exit1")
           \/ pc["host"] = "leave" /\ Is(At("host"), "TEEC_CloseSession", "", "exit0", "exit0")
           \/ pc["host"] = "fail" /\ Is(At("host"), "free", "", "undo", "undo")
           \/ pc["host"] = "undo" /\ Is(At("host"), "close", "test2.db", "exit1", "exit1")
<1>1. DOMAIN main = {"start", "sql", "shut", "reopen", "select", "shut2", "context", "session",
                     "invoke", "leave", "fail", "undo"}
  BY DEF main
<1>2. /\ Is(main["start"], "open", "test2.db", "sql", "undo")
      /\ Is(main["sql"], "exec", "test2.db", "shut", "fail")
      /\ Is(main["shut"], "close", "test2.db", "reopen", "reopen")
      /\ Is(main["reopen"], "open", "test2.db", "select", "select")
      /\ Is(main["select"], "exec", "test2.db", "shut2", "fail")
      /\ Is(main["shut2"], "close", "test2.db", "context", "context")
      /\ Is(main["context"], "TEEC_InitializeContext", "", "session", "exit1")
      /\ Is(main["session"], "TEEC_OpenSession", "", "invoke", "exit1")
      /\ Is(main["invoke"], "TEEC_InvokeCommand", "", "leave", "exit1")
      /\ Is(main["leave"], "TEEC_CloseSession", "", "exit0", "exit0")
      /\ Is(main["fail"], "free", "", "undo", "undo")
      /\ Is(main["undo"], "close", "test2.db", "exit1", "exit1")
  BY DEF main, Step, Is
<1>0. At("host") = main[pc["host"]] /\ pc["host"] \in DOMAIN main
  BY DEF At, Running
<1>3. CASE pc["host"] = "start"
  BY <1>0, <1>2, <1>3, Zenon
<1>4. CASE pc["host"] = "sql"
  BY <1>0, <1>2, <1>4, Zenon
<1>5. CASE pc["host"] = "shut"
  BY <1>0, <1>2, <1>5, Zenon
<1>6. CASE pc["host"] = "reopen"
  BY <1>0, <1>2, <1>6, Zenon
<1>7. CASE pc["host"] = "select"
  BY <1>0, <1>2, <1>7, Zenon
<1>8. CASE pc["host"] = "shut2"
  BY <1>0, <1>2, <1>8, Zenon
<1>9. CASE pc["host"] = "context"
  BY <1>0, <1>2, <1>9, Zenon
<1>10. CASE pc["host"] = "session"
  BY <1>0, <1>2, <1>10, Zenon
<1>11. CASE pc["host"] = "invoke"
  BY <1>0, <1>2, <1>11, Zenon
<1>12. CASE pc["host"] = "leave"
  BY <1>0, <1>2, <1>12, Zenon
<1>13. CASE pc["host"] = "fail"
  BY <1>0, <1>2, <1>13, Zenon
<1>14. CASE pc["host"] = "undo"
  BY <1>0, <1>2, <1>14, Zenon
<1> QED
  BY <1>0, <1>1, <1>3, <1>4, <1>5, <1>6, <1>7, <1>8, <1>9, <1>10, <1>11, <1>12, <1>13, <1>14, Zenon

\* What each operation of the application makes of its label, handle, rc and message.
LEMMA TaMoves ==
    ASSUME TaInv, Running("ta")
    PROVE  /\ Doing("ta", "open") =>
                 /\ handle["ta"] \notin {"live", "sick"}
                 /\ TaFits(At("ta").ok, "live", "OK", msg["ta"])
                 /\ \A h \in {"sick", "null"} : TaFits(At("ta").err, h, "ERROR", msg["ta"])
           /\ Doing("ta", "close") =>
                 /\ handle["ta"] # "closed"
                 /\ TaFits(At("ta").ok, IF handle["ta"] = "null" THEN "null" ELSE "closed",
                           rc["ta"], msg["ta"])
           /\ Doing("ta", "key") => TaFits(At("ta").ok, handle["ta"], rc["ta"], msg["ta"])
           /\ Doing("ta", "if rc") =>
                 TaFits(IF rc["ta"] = "OK" THEN At("ta").ok ELSE At("ta").err, handle["ta"],
                        rc["ta"], msg["ta"])
           /\ Doing("ta", "free") =>
                 /\ msg["ta"] # "freed"
                 /\ TaFits(At("ta").ok, handle["ta"], rc["ta"],
                           IF msg["ta"] = "null" THEN "null" ELSE "freed")
           /\ Doing("ta", "write") \/ Doing("ta", "read") =>
                 /\ handle["ta"] # "closed" /\ msg["ta"] = "null"
                 /\ handle["ta"] # "live" => TaFits(At("ta").err, handle["ta"], "ERROR", msg["ta"])
                 /\ handle["ta"] = "live" => TaFits(At("ta").ok, "live", "OK", "null")
                 /\ \A r : handle["ta"] = "live" /\ r # "OK" => TaFits(At("ta").err, "live", r, "set")
                 /\ \A r : TaFits(pc["ta"], handle["ta"], r, msg["ta"])
           /\ Doing("ta", "types") =>
                 \A r : /\ TaFits(At("ta").ok, handle["ta"], r, msg["ta"])
                        /\ TaFits(At("ta").err, handle["ta"], r, msg["ta"])
<1> USE DEF TaInv, TaFits, Holding, Opens, TaResting, Doing
<1>1. Doing("ta", "open") =>
         /\ handle["ta"] \notin {"live", "sick"}
         /\ TaFits(At("ta").ok, "live", "OK", msg["ta"])
         /\ \A h \in {"sick", "null"} : TaFits(At("ta").err, h, "ERROR", msg["ta"])
  BY TaLabels DEF Is
<1>2. Doing("ta", "close") =>
         /\ handle["ta"] # "closed"
         /\ TaFits(At("ta").ok, IF handle["ta"] = "null" THEN "null" ELSE "closed", rc["ta"], msg["ta"])
  BY TaLabels DEF Is
<1>3. Doing("ta", "key") => TaFits(At("ta").ok, handle["ta"], rc["ta"], msg["ta"])
  BY TaLabels DEF Is
<1>4. Doing("ta", "if rc") =>
         TaFits(IF rc["ta"] = "OK" THEN At("ta").ok ELSE At("ta").err, handle["ta"], rc["ta"], msg["ta"])
  BY TaLabels DEF Is
<1>5. Doing("ta", "free") =>
         /\ msg["ta"] # "freed"
         /\ TaFits(At("ta").ok, handle["ta"], rc["ta"], IF msg["ta"] = "null" THEN "null" ELSE "freed")
  BY TaLabels DEF Is
<1>6. Doing("ta", "write") \/ Doing("ta", "read") =>
         /\ handle["ta"] # "closed" /\ msg["ta"] = "null"
         /\ handle["ta"] # "live" => TaFits(At("ta").err, handle["ta"], "ERROR", msg["ta"])
         /\ handle["ta"] = "live" => TaFits(At("ta").ok, "live", "OK", "null")
         /\ \A r : handle["ta"] = "live" /\ r # "OK" => TaFits(At("ta").err, "live", r, "set")
         /\ \A r : TaFits(pc["ta"], handle["ta"], r, msg["ta"])
  BY TaLabels DEF Is
<1>7. Doing("ta", "types") =>
         \A r : /\ TaFits(At("ta").ok, handle["ta"], r, msg["ta"])
                /\ TaFits(At("ta").err, handle["ta"], r, msg["ta"])
  BY TaLabels DEF Is
<1> QED
  BY <1>1, <1>2, <1>3, <1>4, <1>5, <1>6, <1>7, Zenon

LEMMA HostMoves ==
    ASSUME HostInv, Running("host")
    PROVE  /\ Doing("host", "open") =>
                 /\ handle["host"] \notin {"live", "sick"}
                 /\ HostFits(At("host").ok, "live", msg["host"])
                 /\ \A h \in {"sick", "null"} : HostFits(At("host").err, h, msg["host"])
           /\ Doing("host", "close") =>
                 /\ handle["host"] # "closed"
                 /\ HostFits(At("host").ok, IF handle["host"] = "null" THEN "null" ELSE "closed",
                             msg["host"])
           /\ Doing("host", "free") =>
                 /\ msg["host"] # "freed"
                 /\ HostFits(At("host").ok, handle["host"],
                             IF msg["host"] = "null" THEN "null" ELSE "freed")
           /\ Doing("host", "exec") =>
                 /\ handle["host"] # "closed" /\ msg["host"] = "null"
                 /\ handle["host"] # "live" => HostFits(At("host").err, handle["host"], msg["host"])
                 /\ handle["host"] = "live" => HostFits(At("host").ok, "live", "null")
                 /\ handle["host"] = "live" => HostFits(At("host").err, "live", "set")
           /\ ~Doing("host", "write") /\ ~Doing("host", "read")
           /\ pc["host"] \in {"context", "session", "invoke", "leave"} =>
                 /\ HostFits(At("host").ok, handle["host"], msg["host"])
                 /\ HostFits(At("host").err, handle["host"], msg["host"])
           /\ Doing("host", "TEEC_InitializeContext") <=> pc["host"] = "context"
           /\ Doing("host", "TEEC_OpenSession") <=> pc["host"] = "session"
           /\ Doing("host", "TEEC_InvokeCommand") <=> pc["host"] = "invoke"
           /\ Doing("host", "TEEC_CloseSession") <=> pc["host"] = "leave"
<1> USE DEF HostInv, HostFits, Holding, Opens, HostResting, Doing
<1>1. Doing("host", "open") =>
         /\ handle["host"] \notin {"live", "sick"}
         /\ HostFits(At("host").ok, "live", msg["host"])
         /\ \A h \in {"sick", "null"} : HostFits(At("host").err, h, msg["host"])
  BY HostLabels DEF Is
<1>2. Doing("host", "close") =>
         /\ handle["host"] # "closed"
         /\ HostFits(At("host").ok, IF handle["host"] = "null" THEN "null" ELSE "closed", msg["host"])
  BY HostLabels DEF Is
<1>3. Doing("host", "free") =>
         /\ msg["host"] # "freed"
         /\ HostFits(At("host").ok, handle["host"], IF msg["host"] = "null" THEN "null" ELSE "freed")
  BY HostLabels DEF Is
<1>4. Doing("host", "exec") =>
         /\ handle["host"] # "closed" /\ msg["host"] = "null"
         /\ handle["host"] # "live" => HostFits(At("host").err, handle["host"], msg["host"])
         /\ handle["host"] = "live" => HostFits(At("host").ok, "live", "null")
         /\ handle["host"] = "live" => HostFits(At("host").err, "live", "set")
  BY HostLabels DEF Is
<1>5. ~Doing("host", "write") /\ ~Doing("host", "read")
  BY HostLabels DEF Is
<1>6. pc["host"] \in {"context", "session", "invoke", "leave"} =>
         /\ HostFits(At("host").ok, handle["host"], msg["host"])
         /\ HostFits(At("host").err, handle["host"], msg["host"])
  BY HostLabels DEF Is
<1>7. /\ Doing("host", "TEEC_InitializeContext") <=> pc["host"] = "context"
      /\ Doing("host", "TEEC_OpenSession") <=> pc["host"] = "session"
      /\ Doing("host", "TEEC_InvokeCommand") <=> pc["host"] = "invoke"
      /\ Doing("host", "TEEC_CloseSession") <=> pc["host"] = "leave"
  BY HostLabels DEF Is
<1> QED
  BY <1>1, <1>2, <1>3, <1>4, <1>5, <1>6, <1>7, Zenon

\* A step of the application, and one of the host, leaves the other alone.
LEMMA TaAlone ==
    ASSUME AppInv, Running("ta"), NEW l, NEW h, NEW r, NEW m,
           pc' = [pc EXCEPT !["ta"] = l], handle' = [handle EXCEPT !["ta"] = h],
           rc' = [rc EXCEPT !["ta"] = r], msg' = [msg EXCEPT !["ta"] = m],
           TaFits(l, h, r, m), misuse' \subseteq {"key of NULL"}
    PROVE  AppInv'
<1>1. pc["host"] = "invoke"
  BY TaLabels DEF AppInv, Is
<1>2. /\ AppTypes' /\ pc'["ta"] = l /\ handle'["ta"] = h /\ rc'["ta"] = r /\ msg'["ta"] = m
      /\ pc'["host"] = pc["host"] /\ handle'["host"] = handle["host"]
      /\ msg'["host"] = msg["host"]
  BY DEF AppInv, AppTypes, Actors
<1>3. TaInv' /\ HostInv'
  BY <1>2 DEF AppInv, TaInv, HostInv
<1> QED
  BY <1>1, <1>2, <1>3 DEF AppInv

LEMMA HostAlone ==
    ASSUME AppInv, pc["host"] # "invoke", NEW l, NEW h, NEW r, NEW m,
           pc' = [pc EXCEPT !["host"] = l], handle' = [handle EXCEPT !["host"] = h],
           rc' = [rc EXCEPT !["host"] = r], msg' = [msg EXCEPT !["host"] = m],
           HostFits(l, h, m), misuse' \subseteq {"key of NULL"}
    PROVE  AppInv'
<1>2. /\ AppTypes' /\ pc'["host"] = l /\ handle'["host"] = h /\ msg'["host"] = m
      /\ pc'["ta"] = pc["ta"] /\ handle'["ta"] = handle["ta"] /\ rc'["ta"] = rc["ta"]
      /\ msg'["ta"] = msg["ta"]
  BY DEF AppInv, AppTypes, Actors
<1>3. TaInv' /\ HostInv'
  BY <1>2 DEF AppInv, TaInv, HostInv
<1> QED
  BY <1>2, <1>3 DEF AppInv

\* What is left unchanged becomes what it is.
LEMMA AppKept ==
    ASSUME AppInv, NEW a \in Actors
    PROVE  /\ pc = [pc EXCEPT ![a] = pc[a]] /\ handle = [handle EXCEPT ![a] = handle[a]]
           /\ rc = [rc EXCEPT ![a] = rc[a]] /\ msg = [msg EXCEPT ![a] = msg[a]]
BY DEF AppInv, AppTypes

LEMMA TaStepInv ==
    ASSUME AppInv, TaStep
    PROVE  AppInv'
<1>k. /\ pc = [pc EXCEPT !["ta"] = pc["ta"]] /\ handle = [handle EXCEPT !["ta"] = handle["ta"]]
      /\ rc = [rc EXCEPT !["ta"] = rc["ta"]] /\ msg = [msg EXCEPT !["ta"] = msg["ta"]]
  BY AppKept DEF Actors
<1>0. TaInv /\ misuse \subseteq {"key of NULL"}
  BY DEF AppInv
<1>1. ASSUME NEW h \in {"live", "sick", "null"}, sqlite3_open("ta", h) PROVE AppInv'
  <2>0. Doing("ta", "open") /\ Running("ta")
    BY <1>1 DEF sqlite3_open, Doing
  <2>1. /\ handle["ta"] \notin {"live", "sick"}
        /\ TaFits(At("ta").ok, "live", "OK", msg["ta"])
        /\ h # "live" => TaFits(At("ta").err, h, "ERROR", msg["ta"])
    BY <1>0, <2>0, TaMoves
  <2>2. /\ handle' = [handle EXCEPT !["ta"] = h] /\ msg' = msg /\ misuse' = misuse
        /\ Go("ta", IF h = "live" THEN "OK" ELSE "ERROR")
    BY <1>1, <2>1 DEF sqlite3_open
  <2>3. CASE h = "live"
    <3>1. pc' = [pc EXCEPT !["ta"] = At("ta").ok] /\ rc' = [rc EXCEPT !["ta"] = "OK"]
      BY <2>2, <2>3 DEF Go
    <3> QED
      BY <1>0, <1>k, <2>0, <2>1, <2>2, <2>3, <3>1, TaAlone
  <2>4. CASE h # "live"
    <3>1. pc' = [pc EXCEPT !["ta"] = At("ta").err] /\ rc' = [rc EXCEPT !["ta"] = "ERROR"]
      BY <2>2, <2>4 DEF Go
    <3> QED
      BY <1>0, <1>k, <2>0, <2>1, <2>2, <2>4, <3>1, TaAlone
  <2> QED
    BY <2>3, <2>4
<1>2. CASE sqlite3_close("ta")
  <2>0. Doing("ta", "close") /\ Running("ta")
    BY <1>2 DEF sqlite3_close, Doing
  <2>1. PICK h : h = IF handle["ta"] = "null" THEN "null" ELSE "closed"
    OBVIOUS
  <2>2. handle["ta"] # "closed" /\ TaFits(At("ta").ok, h, rc["ta"], msg["ta"])
    BY <1>0, <2>0, <2>1, TaMoves
  <2>3. /\ handle' = [handle EXCEPT !["ta"] = h] /\ msg' = msg /\ rc' = rc /\ misuse' = misuse
        /\ pc' = [pc EXCEPT !["ta"] = At("ta").ok]
    BY <1>2, <2>1, <2>2 DEF sqlite3_close
  <2> QED
    BY <1>0, <1>k, <2>0, <2>2, <2>3, TaAlone
<1>3. CASE sqlite3_free("ta")
  <2>0. Doing("ta", "free") /\ Running("ta")
    BY <1>3 DEF sqlite3_free, Doing
  <2>1. PICK m : m = IF msg["ta"] = "null" THEN "null" ELSE "freed"
    OBVIOUS
  <2>2. msg["ta"] # "freed" /\ TaFits(At("ta").ok, handle["ta"], rc["ta"], m)
    BY <1>0, <2>0, <2>1, TaMoves
  <2>3. /\ msg' = [msg EXCEPT !["ta"] = m] /\ handle' = handle /\ rc' = rc /\ misuse' = misuse
        /\ pc' = [pc EXCEPT !["ta"] = At("ta").ok]
    BY <1>3, <2>1, <2>2 DEF sqlite3_free
  <2> QED
    BY <1>0, <1>k, <2>0, <2>2, <2>3, TaAlone
<1>4. CASE ExecRefused("ta")
  <2>0. (Doing("ta", "write") \/ Doing("ta", "read")) /\ Running("ta") /\ handle["ta"] # "live"
    <3>1. ~Doing("ta", "exec")
      BY TaLabels DEF Is, Doing
    <3> QED
      BY <1>4, <3>1 DEF ExecRefused, Doing
  <2>1. handle["ta"] # "closed" /\ TaFits(At("ta").err, handle["ta"], "ERROR", msg["ta"])
    BY <1>0, <2>0, TaMoves
  <2>2. /\ handle' = handle /\ msg' = msg /\ misuse' = misuse
        /\ pc' = [pc EXCEPT !["ta"] = At("ta").err] /\ rc' = [rc EXCEPT !["ta"] = "ERROR"]
    BY <1>4, <2>1 DEF ExecRefused, Go
  <2> QED
    BY <1>0, <1>k, <2>0, <2>1, <2>2, TaAlone
<1>5. CASE sqlite3_key
  <2>0. Doing("ta", "key") /\ Running("ta")
    BY <1>5 DEF sqlite3_key, Doing
  <2>1. TaFits(At("ta").ok, handle["ta"], rc["ta"], msg["ta"])
    BY <1>0, <2>0, TaMoves
  <2>2. /\ handle' = handle /\ msg' = msg /\ rc' = rc /\ misuse' \subseteq {"key of NULL"}
        /\ pc' = [pc EXCEPT !["ta"] = At("ta").ok]
    BY <1>0, <1>5 DEF sqlite3_key
  <2>3. /\ handle' = [handle EXCEPT !["ta"] = handle["ta"]]
        /\ rc' = [rc EXCEPT !["ta"] = rc["ta"]] /\ msg' = [msg EXCEPT !["ta"] = msg["ta"]]
    BY <1>k, <2>2, Zenon
  <2> QED
    BY <2>0, <2>1, <2>2, <2>3, TaAlone
<1>6. CASE CheckRc
  <2>0. Doing("ta", "if rc") /\ Running("ta")
    BY <1>6 DEF CheckRc, Doing
  <2>1. PICK l : l = IF rc["ta"] = "OK" THEN At("ta").ok ELSE At("ta").err
    OBVIOUS
  <2>2. TaFits(l, handle["ta"], rc["ta"], msg["ta"])
    BY <1>0, <2>0, <2>1, TaMoves
  <2>3. /\ handle' = handle /\ msg' = msg /\ misuse' = misuse
        /\ pc' = [pc EXCEPT !["ta"] = l] /\ rc' = [rc EXCEPT !["ta"] = rc["ta"]]
    BY <1>6, <2>1 DEF CheckRc, Go
  <2> QED
    BY <1>0, <1>k, <2>0, <2>2, <2>3, TaAlone
<1>7. CASE TaStatement
  <2>0. (Doing("ta", "write") \/ Doing("ta", "read")) /\ Running("ta")
    BY <1>7 DEF TaStatement, TaExecuting, Doing
  <2>1. TaFits(pc["ta"], handle["ta"], "busy", msg["ta"])
    BY <1>0, <2>0, TaMoves
  <2>2. /\ handle' = handle /\ msg' = msg /\ misuse' = misuse /\ pc' = pc
        /\ rc' = [rc EXCEPT !["ta"] = "busy"]
    BY <1>7 DEF TaStatement
  <2> QED
    BY <1>0, <1>k, <2>0, <2>1, <2>2, TaAlone
<1>8. CASE TaCall
  BY <1>8 DEF TaCall, appVars, AppInv, AppTypes, TaInv, HostInv
<1>9. CASE TaStatementEnds
  <2>0. /\ (Doing("ta", "write") \/ Doing("ta", "read")) /\ Running("ta") /\ handle["ta"] = "live"
        /\ handle' = handle
    BY <1>9 DEF TaStatementEnds, TaExecuting, Doing
  <2>1. /\ TaFits(At("ta").ok, handle["ta"], "OK", "null") /\ msg["ta"] = "null"
        /\ TaFits(pc["ta"], handle["ta"], "OK", msg["ta"])
    BY <1>0, <2>0, TaMoves
  <2>2. ASSUME NEW r, ExecReturns("ta", r) PROVE AppInv'
    <3>1. misuse' = misuse
      BY <2>1, <2>2 DEF ExecReturns
    <3>2. CASE r = "OK"
      <4>1. /\ pc' = [pc EXCEPT !["ta"] = At("ta").ok] /\ rc' = [rc EXCEPT !["ta"] = "OK"]
            /\ msg' = [msg EXCEPT !["ta"] = "null"]
        BY <2>2, <3>2 DEF ExecReturns, Go
      <4> QED
        BY <1>0, <1>k, <2>0, <2>1, <3>1, <4>1, TaAlone
    <3>3. CASE r # "OK"
      <4>1. /\ pc' = [pc EXCEPT !["ta"] = At("ta").err] /\ rc' = [rc EXCEPT !["ta"] = r]
            /\ msg' = [msg EXCEPT !["ta"] = "set"]
        BY <2>2, <3>3 DEF ExecReturns, Go
      <4>2. TaFits(At("ta").err, handle["ta"], r, "set")
        BY <1>0, <2>0, <3>3, TaMoves
      <4> QED
        BY <1>0, <1>k, <2>0, <3>1, <4>1, <4>2, TaAlone
    <3> QED
      BY <3>2, <3>3
  <2>3. CASE rc' = [rc EXCEPT !["ta"] = "OK"] /\ UNCHANGED <<pc, msg, misuse>>
    BY <1>0, <1>k, <2>0, <2>1, <2>3, TaAlone
  <2> QED
    BY <1>9, <2>2, <2>3 DEF TaStatementEnds
<1>10. CASE CheckTypes
  <2>0. Doing("ta", "types") /\ Running("ta")
    BY <1>10 DEF CheckTypes, Doing
  <2>1. PICK r : Go("ta", r)
    BY <1>10 DEF CheckTypes
  <2>2. PICK l : l = IF r = "OK" THEN At("ta").ok ELSE At("ta").err
    OBVIOUS
  <2>3. TaFits(l, handle["ta"], r, msg["ta"])
    BY <1>0, <2>0, <2>2, TaMoves
  <2>4. /\ handle' = handle /\ msg' = msg /\ misuse' = misuse
        /\ pc' = [pc EXCEPT !["ta"] = l] /\ rc' = [rc EXCEPT !["ta"] = r]
    BY <1>10, <2>1, <2>2 DEF CheckTypes, Go
  <2> QED
    BY <1>0, <1>k, <2>0, <2>3, <2>4, TaAlone
<1>11. CASE TaOpen
  BY <1>1, <1>11 DEF TaOpen
<1> QED
  BY <1>2, <1>3, <1>4, <1>5, <1>6, <1>7, <1>8, <1>9, <1>10, <1>11 DEF TaStep

LEMMA HostStepInv ==
    ASSUME AppInv, HostStep
    PROVE  AppInv'
<1>k. /\ pc = [pc EXCEPT !["host"] = pc["host"]]
      /\ handle = [handle EXCEPT !["host"] = handle["host"]]
      /\ rc = [rc EXCEPT !["host"] = rc["host"]] /\ msg = [msg EXCEPT !["host"] = msg["host"]]
  BY AppKept DEF Actors
<1>0. HostInv /\ misuse \subseteq {"key of NULL"}
  BY DEF AppInv
<1>1. ASSUME NEW h \in {"live", "sick", "null"}, sqlite3_open("host", h) PROVE AppInv'
  <2>0. Doing("host", "open") /\ Running("host") /\ pc["host"] # "invoke"
    BY <1>1, HostLabels DEF sqlite3_open, Doing, Is
  <2>1. /\ handle["host"] \notin {"live", "sick"}
        /\ HostFits(At("host").ok, "live", msg["host"])
        /\ h # "live" => HostFits(At("host").err, h, msg["host"])
    BY <1>0, <2>0, HostMoves
  <2>2. /\ handle' = [handle EXCEPT !["host"] = h] /\ msg' = msg /\ misuse' = misuse
        /\ Go("host", IF h = "live" THEN "OK" ELSE "ERROR")
    BY <1>1, <2>1 DEF sqlite3_open
  <2>3. CASE h = "live"
    <3>1. pc' = [pc EXCEPT !["host"] = At("host").ok] /\ rc' = [rc EXCEPT !["host"] = "OK"]
      BY <2>2, <2>3 DEF Go
    <3> QED
      BY <1>0, <1>k, <2>0, <2>1, <2>2, <2>3, <3>1, HostAlone
  <2>4. CASE h # "live"
    <3>1. pc' = [pc EXCEPT !["host"] = At("host").err] /\ rc' = [rc EXCEPT !["host"] = "ERROR"]
      BY <2>2, <2>4 DEF Go
    <3> QED
      BY <1>0, <1>k, <2>0, <2>1, <2>2, <2>4, <3>1, HostAlone
  <2> QED
    BY <2>3, <2>4
<1>2. CASE sqlite3_close("host")
  <2>0. Doing("host", "close") /\ Running("host") /\ pc["host"] # "invoke"
    BY <1>2, HostLabels DEF sqlite3_close, Doing, Is
  <2>1. PICK h : h = IF handle["host"] = "null" THEN "null" ELSE "closed"
    OBVIOUS
  <2>2. handle["host"] # "closed" /\ HostFits(At("host").ok, h, msg["host"])
    BY <1>0, <2>0, <2>1, HostMoves
  <2>3. /\ handle' = [handle EXCEPT !["host"] = h] /\ msg' = msg /\ rc' = rc /\ misuse' = misuse
        /\ pc' = [pc EXCEPT !["host"] = At("host").ok]
    BY <1>2, <2>1, <2>2 DEF sqlite3_close
  <2> QED
    BY <1>0, <1>k, <2>0, <2>2, <2>3, HostAlone
<1>3. CASE sqlite3_free("host")
  <2>0. Doing("host", "free") /\ Running("host") /\ pc["host"] # "invoke"
    BY <1>3, HostLabels DEF sqlite3_free, Doing, Is
  <2>1. PICK m : m = IF msg["host"] = "null" THEN "null" ELSE "freed"
    OBVIOUS
  <2>2. msg["host"] # "freed" /\ HostFits(At("host").ok, handle["host"], m)
    BY <1>0, <2>0, <2>1, HostMoves
  <2>3. /\ msg' = [msg EXCEPT !["host"] = m] /\ handle' = handle /\ rc' = rc /\ misuse' = misuse
        /\ pc' = [pc EXCEPT !["host"] = At("host").ok]
    BY <1>3, <2>1, <2>2 DEF sqlite3_free
  <2> QED
    BY <1>0, <1>k, <2>0, <2>2, <2>3, HostAlone
<1>4. CASE ExecRefused("host")
  <2>r. Running("host")
    BY <1>4 DEF ExecRefused, Doing
  <2>0. Doing("host", "exec") /\ pc["host"] # "invoke" /\ handle["host"] # "live"
    <3>1. Doing("host", "exec") /\ handle["host"] # "live"
      BY <1>0, <1>4, <2>r, HostMoves DEF ExecRefused
    <3> QED
      BY <2>r, <3>1, HostLabels DEF Doing, Is
  <2>1. handle["host"] # "closed" /\ HostFits(At("host").err, handle["host"], msg["host"])
    BY <1>0, <2>0, <2>r, HostMoves
  <2>2. /\ handle' = handle /\ msg' = msg /\ misuse' = misuse
        /\ pc' = [pc EXCEPT !["host"] = At("host").err] /\ rc' = [rc EXCEPT !["host"] = "ERROR"]
    BY <1>4, <2>1 DEF ExecRefused, Go
  <2> QED
    BY <1>0, <1>k, <2>0, <2>1, <2>2, HostAlone
<1>5. CASE HostExec
  <2>r. Running("host") /\ Doing("host", "exec") /\ handle["host"] = "live" /\ handle' = handle
    BY <1>5 DEF HostExec, Doing
  <2>0. pc["host"] # "invoke"
    BY <2>r, HostLabels DEF Doing, Is
  <2>1. /\ msg["host"] = "null" /\ HostFits(At("host").ok, handle["host"], "null")
        /\ HostFits(At("host").err, handle["host"], "set")
    BY <1>0, <2>r, HostMoves
  <2>2. PICK r \in {"OK", "ERROR"} : ExecReturns("host", r)
    BY <1>5 DEF HostExec
  <2>3. misuse' = misuse
    BY <2>1, <2>2 DEF ExecReturns
  <2>4. CASE r = "OK"
    <3>1. /\ pc' = [pc EXCEPT !["host"] = At("host").ok] /\ rc' = [rc EXCEPT !["host"] = "OK"]
          /\ msg' = [msg EXCEPT !["host"] = "null"]
      BY <2>2, <2>4 DEF ExecReturns, Go
    <3> QED
      BY <1>0, <1>k, <2>r, <2>0, <2>1, <2>3, <3>1, HostAlone
  <2>5. CASE r # "OK"
    <3>1. /\ pc' = [pc EXCEPT !["host"] = At("host").err] /\ rc' = [rc EXCEPT !["host"] = r]
          /\ msg' = [msg EXCEPT !["host"] = "set"]
      BY <2>2, <2>5 DEF ExecReturns, Go
    <3> QED
      BY <1>0, <1>k, <2>r, <2>0, <2>1, <2>3, <3>1, HostAlone
  <2> QED
    BY <2>4, <2>5
<1>6. CASE TEEC_InitializeContext
  <2>0. Running("host") /\ pc["host"] = "context"
    BY <1>0, <1>6, HostMoves DEF TEEC_InitializeContext, Doing
  <2>1. PICK r : Go("host", r)
    BY <1>6 DEF TEEC_InitializeContext
  <2>2. PICK l : l = IF r = "OK" THEN At("host").ok ELSE At("host").err
    OBVIOUS
  <2>3. HostFits(l, handle["host"], msg["host"])
    BY <1>0, <2>0, <2>2, HostMoves
  <2>4. /\ handle' = handle /\ msg' = msg /\ misuse' = misuse
        /\ pc' = [pc EXCEPT !["host"] = l] /\ rc' = [rc EXCEPT !["host"] = r]
    BY <1>6, <2>1, <2>2 DEF TEEC_InitializeContext, Go
  <2> QED
    BY <1>0, <1>k, <2>0, <2>3, <2>4, HostAlone
\* The host goes on while the application has nothing open, and the two meet.
<1>7. ASSUME NEW l, NEW t \in {"idle", "none"}, Running("host"),
             pc["ta"] \in TaResting, pc["host"] \in {"session", "invoke", "leave"},
             l \in {At("host").ok, At("host").err},
             pc' = [host |-> l, ta |-> t], UNCHANGED <<handle, msg, misuse>>,
             rc' = rc \/ \E r : rc' = [rc EXCEPT !["host"] = r]
      PROVE  AppInv'
  <2>1. HostFits(l, handle["host"], msg["host"])
    BY <1>0, <1>7, HostMoves
  <2>2. TaFits(t, handle["ta"], rc["ta"], msg["ta"])
    BY <1>7 DEF AppInv, TaInv, TaFits, Holding, TaResting
  <2>3. /\ AppTypes' /\ pc'["host"] = l /\ pc'["ta"] = t /\ rc'["ta"] = rc["ta"]
    BY <1>7 DEF AppInv, AppTypes, Actors
  <2>4. TaInv' /\ HostInv'
    BY <1>7, <2>1, <2>2, <2>3 DEF TaInv, HostInv
  <2> QED
    BY <1>0, <1>7, <2>3, <2>4 DEF AppInv
<1>8. CASE TEEC_OpenSession
  <2>0. Running("host") /\ pc["host"] = "session"
    BY <1>0, <1>8, HostMoves DEF TEEC_OpenSession, Doing
  <2>1. pc["ta"] \in TaResting
    BY <2>0 DEF AppInv, TaResting
  <2>2. PICK r : /\ pc' = [host |-> IF r = "OK" THEN At("host").ok ELSE At("host").err,
                           ta |-> IF r = "OK" THEN "idle" ELSE "none"]
                 /\ rc' = [rc EXCEPT !["host"] = r]
    BY <1>8 DEF TEEC_OpenSession
  <2>3. UNCHANGED <<handle, msg, misuse>>
    BY <1>8 DEF TEEC_OpenSession
  <2>4. PICK l, t : /\ l = IF r = "OK" THEN At("host").ok ELSE At("host").err
                    /\ t = IF r = "OK" THEN "idle" ELSE "none"
    OBVIOUS
  <2>5. l \in {At("host").ok, At("host").err} /\ t \in {"idle", "none"}
    BY <2>4
  <2> QED
    BY <1>7, <2>0, <2>1, <2>2, <2>3, <2>4, <2>5
<1>9. CASE InvokeReturns
  <2>0. Running("host") /\ pc["host"] = "invoke"
    BY <1>0, <1>9, HostMoves DEF InvokeReturns, Doing
  <2>1. pc["ta"] \in TaResting
    BY <1>9 DEF InvokeReturns, Returned, TaResting
  <2>2. PICK r : /\ pc' = [host |-> IF r = "OK" THEN At("host").ok ELSE At("host").err,
                           ta |-> IF r = "OK" THEN "idle" ELSE "none"]
                 /\ rc' = [rc EXCEPT !["host"] = r]
    BY <1>9 DEF InvokeReturns
  <2>3. UNCHANGED <<handle, msg, misuse>>
    BY <1>9 DEF InvokeReturns
  <2>4. PICK l, t : /\ l = IF r = "OK" THEN At("host").ok ELSE At("host").err
                    /\ t = IF r = "OK" THEN "idle" ELSE "none"
    OBVIOUS
  <2>5. l \in {At("host").ok, At("host").err} /\ t \in {"idle", "none"}
    BY <2>4
  <2> QED
    BY <1>7, <2>0, <2>1, <2>2, <2>3, <2>4, <2>5
<1>10. CASE TEEC_CloseSession
  <2>0. Running("host") /\ pc["host"] = "leave"
    BY <1>0, <1>10, HostMoves DEF TEEC_CloseSession, Doing
  <2>1. pc["ta"] \in TaResting
    BY <2>0 DEF AppInv, TaResting
  <2>2. pc' = [host |-> At("host").ok, ta |-> "none"] /\ UNCHANGED <<handle, rc, msg, misuse>>
    BY <1>10 DEF TEEC_CloseSession, TA_FLAGS, TA_DestroyEntryPoint
  <2> QED
    BY <1>7, <2>0, <2>1, <2>2
<1>11. CASE TEEC_InvokeCommand
  <2>0. pc["host"] = "invoke"
    BY <1>0, <1>11, HostMoves DEF TEEC_InvokeCommand, Doing
  <2>1. PICK l : l = TA_InvokeCommandEntryPoint(request.cmd) /\ l \in {"start", "returnBad"}
    BY DEF TA_InvokeCommandEntryPoint
  <2>2. /\ pc' = [pc EXCEPT !["ta"] = l] /\ handle' = [handle EXCEPT !["ta"] = "null"]
        /\ rc' = [rc EXCEPT !["ta"] = "OK"] /\ msg' = [msg EXCEPT !["ta"] = "null"]
        /\ misuse' = misuse
    BY <1>11, <2>1 DEF TEEC_InvokeCommand
  <2>3. /\ AppTypes' /\ pc'["ta"] = l /\ handle'["ta"] = "null" /\ rc'["ta"] = "OK"
        /\ msg'["ta"] = "null"
        /\ pc'["host"] = pc["host"] /\ handle'["host"] = handle["host"]
        /\ msg'["host"] = msg["host"]
    BY <2>2 DEF AppInv, AppTypes, Actors
  <2>4. TaFits(l, "null", "OK", "null")
    BY <2>1 DEF TaFits, Holding, TaResting
  <2>5. TaInv' /\ HostInv'
    BY <1>0, <2>3, <2>4 DEF TaInv, HostInv
  <2> QED
    BY <1>0, <2>0, <2>2, <2>3, <2>5 DEF AppInv
<1>12. CASE HostOpen
  BY <1>1, <1>12 DEF HostOpen
<1> QED
  BY <1>2, <1>3, <1>4, <1>5, <1>6, <1>8, <1>9, <1>10, <1>11, <1>12 DEF HostStep

LEMMA AppStep == AppInv /\ [Next]_vars => AppInv'
<1> SUFFICES ASSUME AppInv, [Next]_vars PROVE AppInv'
  OBVIOUS
<1>1. CASE UNCHANGED appVars
  BY <1>1 DEF appVars, AppInv, AppTypes, TaInv, HostInv
<1>2. CASE HostStep
  BY <1>2, HostStepInv
<1>3. CASE TaStep
  BY <1>3, TaStepInv
<1>4. CASE Supplicant
  BY <1>1, <1>4 DEF Supplicant
<1>5. CASE TaPanics
  <2>0. Running("ta")
    BY <1>5 DEF TaPanics, TaExecuting, Doing
  <2>1. TaFits("dead", "null", rc["ta"], "null")
    BY DEF TaFits, Holding, TaResting
  <2>2. rc = [rc EXCEPT !["ta"] = rc["ta"]]
    BY AppKept DEF Actors
  <2>3. misuse' \subseteq {"key of NULL"}
    BY <1>5 DEF TaPanics, AppInv
  <2> QED
    BY <1>5, <2>0, <2>1, <2>2, <2>3, TaAlone DEF TaPanics
\* Everything starts anew.
<1>6. CASE RunAgain \/ MachineStops
  <2>1. PICK l \in {"start", "off"} : pc' = [host |-> l, ta |-> "none"]
    BY <1>6 DEF RunAgain, MachineStops
  <2>2. /\ handle' = [a \in Actors |-> "null"] /\ rc' = [a \in Actors |-> "OK"]
        /\ msg' = [a \in Actors |-> "null"] /\ misuse' = misuse
    BY <1>6 DEF RunAgain, MachineStops
  <2>3. /\ AppTypes' /\ pc'["host"] = l /\ pc'["ta"] = "none"
        /\ handle'["ta"] = "null" /\ rc'["ta"] = "OK" /\ msg'["ta"] = "null"
        /\ handle'["host"] = "null" /\ msg'["host"] = "null"
    BY <2>1, <2>2 DEF AppTypes, Actors
  <2>4. TaFits("none", "null", "OK", "null") /\ HostFits(l, "null", "null")
    BY DEF TaFits, HostFits, Holding, TaResting, HostResting
  <2> QED
    BY <2>2, <2>3, <2>4 DEF AppInv, TaInv, HostInv
<1>7. CASE UNCHANGED vars
  BY <1>1, <1>7 DEF vars
<1> QED
  BY <1>2, <1>3, <1>4, <1>5, <1>6, <1>7 DEF Next

\* Every handle is closed and every message freed, once, when the command returns or the
\* host ends, and none is used after, whatever fails in between; only sqlite3_key is
\* given the NULL of an open that failed.
THEOREM HandlesAreClosed == Spec => []ConnectionsClosed
<1>1. Init => AppInv
  <2> SUFFICES ASSUME Init PROVE AppInv
    OBVIOUS
  <2>1. /\ pc["host"] = "start" /\ pc["ta"] = "none" /\ handle["host"] = "null"
        /\ handle["ta"] = "null" /\ rc["ta"] = "OK" /\ msg["host"] = "null" /\ msg["ta"] = "null"
        /\ AppTypes /\ misuse = {}
    BY DEF Init, AppTypes, Actors
  <2>2. TaFits("none", "null", "OK", "null") /\ HostFits("start", "null", "null")
    BY DEF TaFits, HostFits, Holding, TaResting, HostResting
  <2> QED
    BY <2>1, <2>2 DEF AppInv, TaInv, HostInv
<1>2. AppInv /\ [Next]_vars => AppInv'
  BY AppStep
<1>3. AppInv => ConnectionsClosed
  BY DEF AppInv, TaInv, HostInv, TaFits, HostFits, Holding, TaResting, HostResting,
         ConnectionsClosed, HostEnded, Returned
<1> QED
  BY <1>1, <1>2, <1>3, PTL DEF Spec
=============================================================================
