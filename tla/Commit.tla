------------------------------- MODULE Commit -------------------------------
(***************************************************************************)
(* How SQLite commits a transaction through this VFS (the overview of      *)
(* demovfs.c, "JOURNAL WRITE-BUFFERING", and the interface of sqlite3.h;   *)
(* sqlite3.c itself is external).  The old pages are written to a journal, *)
(* which is synced, marked as complete, and synced again; then the pages   *)
(* are written and synced, and the journal is deleted.  A statement that   *)
(* finds a journal when it starts plays it back first.                     *)
(*                                                                         *)
(* A file has a view, which the process reads and writes, and a stable     *)
(* part.  Each call of a VFS method may succeed, or fail, or be "lost": an *)
(* RPC fails and the method says SQLITE_OK without having done its work    *)
(* (TeeVfs and VfsNames show which methods do that).                       *)
(***************************************************************************)
EXTENDS Integers, Sequences

CONSTANTS
    Files,              \* the databases
    Pgs,                \* the pages of one
    MaxTx,              \* BOUND: the transactions on each database
    MaxFaults,          \* BOUND: the calls that fail or are lost, and the crashes
    RpcFaults           \* the databases of which calls may be lost

ASSUME CommitAssumption == RpcFaults \subseteq Files /\ MaxTx \in [Files -> Nat]

VARIABLES
    db, dbStable,       \* the version of each page
    jr, jrStable,       \* the journal
    mode,               \* "idle", or what the statement under way is at
    todo,               \* the VFS calls it has still to make for that
    result,             \* what the last statement has returned
    txs,                \* transactions begun on each database
    faults,             \* calls that failed or were lost, and crashes
    \* History variables.
    allowed,            \* the versions that a database may have
    unsettled,          \* those that only a power failure may bring back: the last journal
                        \* was deleted without dirSync
    lied                \* databases with a call that was lost, or a journal that was denied

files == <<db, dbStable, jr, jrStable>>
history == <<allowed, unsettled, lied>>
commitVars == <<files, mode, todo, result, txs, faults, history>>

\* A journal: the transaction it is of, the old pages, whether its header counts them.
None == -1
NoJournal == [tx |-> 0, recs |-> [p \in Pgs |-> None], counted |-> FALSE]
NewJournal(n) == [NoJournal EXCEPT !.tx = n]

CommitInit ==
    /\ db = [f \in Files |-> [p \in Pgs |-> 0]] /\ dbStable = db
    /\ jr = [f \in Files |-> NoJournal] /\ jrStable = jr
    /\ mode = [f \in Files |-> "idle"] /\ todo = [f \in Files |-> <<>>]
    /\ result = [f \in Files |-> "none"] /\ txs = [f \in Files |-> 0]
    /\ allowed = [f \in Files |-> {0}] /\ unsettled = [f \in Files |-> {}]
    /\ lied = {} /\ faults = 0

Fault == faults < MaxFaults /\ faults' = faults + 1

Set(var, f, v) == [var EXCEPT ![f] = v]

\* The pages of d once journal j is played back.
PlayedBack(d, j) ==
    [p \in Pgs |-> IF j.counted /\ j.recs[p] # None THEN j.recs[p] ELSE d[p]]

(***************************************************************************)
(* What each call leaves when it succeeds.                                 *)
(***************************************************************************)

\* xOpen creates the journal: in the page cache's directory only.
xOpen(f) == jr' = Set(jr, f, NewJournal(txs[f])) /\ UNCHANGED <<db, dbStable, jrStable>>

\* xWrite to a journal that was really opened.
xWriteJournal(f, j) ==
    /\ jr' = IF jr[f].tx = 0 THEN jr ELSE Set(jr, f, j)
    /\ UNCHANGED <<db, dbStable, jrStable>>

xWritePages(f, new, P) ==
    /\ db' = Set(db, f, [p \in Pgs |-> IF p \in P THEN new[p] ELSE db[f][p]])
    /\ UNCHANGED <<dbStable, jr, jrStable>>

\* demoOpen does not sync the directory: it is assumed of the file system that the
\* fsync of a new file keeps its name too.
xSyncJournal(f) == jrStable' = Set(jrStable, f, jr[f]) /\ UNCHANGED <<db, dbStable, jr>>

xSyncPages(f) == dbStable' = Set(dbStable, f, db[f]) /\ UNCHANGED <<db, jr, jrStable>>

\* Mutant of xDelete: the directory is never synced.
xDelete_Unsynced(f, dirSync) ==
    jr' = Set(jr, f, NoJournal) /\ UNCHANGED <<db, dbStable, jrStable>>

\* xDelete syncs the directory if it is told to and the name was there.
xDelete(f, dirSync) ==
    /\ jr' = Set(jr, f, NoJournal)
    /\ jrStable' = IF dirSync /\ jr[f].tx # 0 THEN Set(jrStable, f, NoJournal) ELSE jrStable
    /\ UNCHANGED <<db, dbStable>>

New(f) == [p \in Pgs |-> txs[f]]

Done(f, call, dirSync) ==
    CASE call = "open"       -> xOpen(f)
      [] call = "records"    -> xWriteJournal(f, [jr[f] EXCEPT !.recs = db[f]])
      [] call = "sync"       -> xSyncJournal(f)
      [] call = "header"     -> xWriteJournal(f, [jr[f] EXCEPT !.counted = TRUE])
      [] call = "pages"      -> xWritePages(f, New(f), Pgs)
      [] call = "sync pages" -> xSyncPages(f)
      [] call = "play back"  -> xWritePages(f, PlayedBack(db[f], jr[f]), Pgs)
      [] call = "delete"     -> xDelete(f, dirSync)

\* What a call may leave when it fails.
Half(f, call) ==
    CASE call = "pages"     -> \E P \in SUBSET Pgs : xWritePages(f, New(f), P)
      [] call = "play back" -> \E P \in SUBSET Pgs : xWritePages(f, PlayedBack(db[f], jr[f]), P)
      [] call = "delete"    -> \/ UNCHANGED files
                               \/ jr' = Set(jr, f, NoJournal) /\ UNCHANGED <<db, dbStable, jrStable>>
      [] OTHER              -> UNCHANGED files

\* The one at offset 0.
FirstPage == CHOOSE p \in Pgs : TRUE

\* What a call leaves when it is lost.  lseek says 0 when its RPC fails, so that what is
\* written or read at offset 0 goes elsewhere: the header after the records, the first
\* page to where another one is written next, and of the journal nothing is played back.
Lost(f, call) ==
    CASE call = "pages"     -> xWritePages(f, New(f), Pgs \ {FirstPage})
      [] call = "play back" -> \E P \in {{}, Pgs \ {FirstPage}} :
                                  xWritePages(f, PlayedBack(db[f], jr[f]), P)
      [] OTHER              -> Half(f, call)

\* The calls whose loss the VFS does not notice: all but the writing of the records to a
\* new journal, of which the first is made where the file begins.
Losable == {"open", "sync", "header", "pages", "sync pages", "play back", "delete"}

-----------------------------------------------------------------------------
(***************************************************************************)
(* A statement.                                                            *)
(***************************************************************************)

Txn == <<"open", "records", "sync", "header", "sync", "pages", "sync pages", "delete">>
Playback == <<"play back", "sync pages", "delete">>

\* The statement of this kind first plays back the journal it has found.
Recovery(kind) == IF kind = "write" THEN "recovery for write" ELSE "recovery for read"

\* The statement is at m from here on, with calls to make.
Enter(f, m, calls) == mode' = Set(mode, f, m) /\ todo' = Set(todo, f, calls)

StartTxn(f) ==
    /\ txs[f] < MaxTx[f]
    /\ Enter(f, "txn", Txn)
    /\ txs' = Set(txs, f, txs[f] + 1) /\ allowed' = Set(allowed, f, allowed[f] \cup {txs[f] + 1})
    /\ UNCHANGED result

Finish(f, r) == Enter(f, "idle", <<>>) /\ result' = Set(result, f, r) /\ UNCHANGED txs

\* A statement starts, to write or only to read: xAccess tells whether there is a
\* journal, and xFileSize whether the database has pages.  They can say no, and 0,
\* because the call failed.
Statement(f, kind) ==
    /\ mode[f] = "idle"
    /\ \/ /\ jr[f] # NoJournal /\ (kind = "write" => txs[f] < MaxTx[f])
          /\ Enter(f, Recovery(kind), Playback)
          /\ UNCHANGED <<result, txs, faults, allowed, lied>>
       \/ /\ \/ jr[f] = NoJournal /\ UNCHANGED <<faults, lied>>
             \/ f \in RpcFaults /\ Fault /\ lied' = lied \cup {f}
          /\ IF kind = "write" THEN StartTxn(f) ELSE Finish(f, "OK") /\ UNCHANGED allowed
       \/ /\ Finish(f, "ERROR") /\ UNCHANGED <<allowed, lied>>
          /\ IF kind = "write" /\ txs[f] = MaxTx[f] THEN UNCHANGED faults ELSE Fault
    /\ UNCHANGED <<files, unsettled>>

\* What follows once all calls are made.
Through(f) ==
    CASE mode[f] = "txn" -> Finish(f, "OK") /\ allowed' = Set(allowed, f, {txs[f]})
      [] mode[f] = "rollback" -> Finish(f, "ERROR") /\ UNCHANGED allowed
      [] mode[f] = "recovery for write" -> StartTxn(f)
      [] mode[f] = "recovery for read" -> Finish(f, "OK") /\ UNCHANGED allowed

\* The next call is made, and the statement goes on.
GoesOn(f) ==
    IF Tail(todo[f]) = <<>> THEN Through(f)
    ELSE Enter(f, mode[f], Tail(todo[f])) /\ UNCHANGED <<result, txs, allowed>>

\* History: which versions are unsettled when the call is made.  A commit unsettles those
\* before it; the sync of a journal or of the directory settles them.
Settles(f, call, dirSync) ==
    unsettled' = Set(unsettled, f,
        IF call = "sync" \/ (call = "delete" /\ dirSync /\ jr[f].tx # 0) THEN {}
        ELSE IF call = "delete" /\ mode[f] = "txn" THEN allowed[f] \ {txs[f]}
        ELSE unsettled[f])

\* SQLite may ask for the directory to be synced, or not.
Call(f) ==
    /\ mode[f] # "idle"
    /\ \E dirSync \in BOOLEAN :
          Done(f, Head(todo[f]), dirSync) /\ Settles(f, Head(todo[f]), dirSync)
    /\ GoesOn(f)
    /\ UNCHANGED <<faults, lied>>

\* It is lost, and seems to have succeeded.
LostCall(f) ==
    /\ mode[f] # "idle" /\ f \in RpcFaults /\ Fault
    /\ Head(todo[f]) \in Losable /\ Lost(f, Head(todo[f])) /\ GoesOn(f)
    /\ lied' = lied \cup {f}
    /\ UNCHANGED unsettled

\* It fails.  A transaction whose journal is still there is rolled back; after a
\* failure of xDelete, or of a rollback, the next statement looks for a journal.
CallFails(f) ==
    /\ mode[f] # "idle" /\ Fault
    /\ Half(f, Head(todo[f]))
    /\ IF mode[f] = "txn" /\ Head(todo[f]) # "delete"
       THEN Enter(f, "rollback", Playback) /\ UNCHANGED <<result, txs>>
       ELSE Finish(f, "ERROR")
    /\ UNCHANGED history

\* Page by page one or the other.
Mix(old, new) == {[p \in Pgs |-> IF p \in P THEN old[p] ELSE new[p]] : P \in SUBSET Pgs}

\* What may be left of a journal of which only old is sure.
Between(old, new) ==
    {[tx |-> new.tx, recs |-> r, counted |-> c] :
        r \in Mix(old.recs, new.recs), c \in {old.counted, new.counted}}

Sure(stable, view) == IF stable.tx = view.tx THEN stable ELSE NewJournal(view.tx)

\* One of S(f) for each file.
Choices(S(_)) ==
    {g \in [Files -> UNION {S(f) : f \in Files}] : \A f \in Files : g[f] \in S(f)}

Crash ==
    /\ Fault
    /\ mode' = [f \in Files |-> "idle"] /\ todo' = [f \in Files |-> <<>>]
    /\ result' = [f \in Files |-> "none"]
    /\ UNCHANGED <<txs, lied>>

\* The application panics: the buffer of an open journal is lost (demoClose and
\* demoSync flush it), but not what Linux has already.
Panic ==
    /\ jr' \in Choices(LAMBDA f : Between(Sure(jrStable[f], jr[f]), jr[f]))
    /\ Crash /\ UNCHANGED <<db, dbStable, jrStable, allowed, unsettled>>

\* The power fails: what is not stable is there or not.
PowerFails ==
    /\ db' \in Choices(LAMBDA f : Mix(dbStable[f], db[f])) /\ dbStable' = db'
    /\ jr' \in Choices(LAMBDA f : {x \in {jrStable[f]} : x.tx # jr[f].tx}
                                    \cup Between(Sure(jrStable[f], jr[f]), jr[f]))
    /\ jrStable' = jr' /\ Crash
    /\ allowed' = [f \in Files |-> allowed[f] \cup unsettled[f]]
    /\ unsettled' = [f \in Files |-> {}]

-----------------------------------------------------------------------------
\* Unless a lost call was taken for a success, a database is, for the next statement
\* that opens it, as one transaction left it: the last one that was committed, or one
\* begun since and not finished.  A committed transaction is undone, as a whole, only by
\* a power failure, only if its journal was deleted without dirSync, and only until a
\* later journal or the directory is synced.  This is what the buffer of demoWrite,
\* demoSync's flush, demoDelete's sync of the directory and the no-op locks must not break.
AtomicCommit ==
    \A f \in Files \ lied : \E v \in allowed[f] :
        PlayedBack(db[f], jr[f]) = [p \in Pgs |-> v]
=============================================================================
