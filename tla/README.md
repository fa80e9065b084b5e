# tee_sqlite: specifications and proofs

tee_sqlite runs SQLite inside an OP-TEE trusted application (TA). The secure
world has no file system, so every file operation of SQLite travels

    SQLite (TA)                       ta/sqlite3.c, not in the repository
      | sqlite3_vfs, sqlite3_io_methods
    VFS of the TA                     ta/tee_vfs.c
      | utee_vfs_* (system call)
    secure kernel                     core/kernel/scall.c, core/tee/tee_sqlite.c
      | thread_rpc_cmd (remote procedure call)
    tee-supplicant (normal world)     tee-supplicant/tee_supplicant.c
      | open, lseek, write, fsync ...
    Linux

These modules model that path, and what stands at its two ends: the host program
and the command of the trusted application that use SQLite, and the start of the
daemon that serves them. They are checked with TLC on small instances, and the main
safety properties are proved with TLAPS for every value of the constants. File
names below are relative to `optee_examples/tee_sqilte/` (`ta/`, `host/`),
`optee_os/` (`core/`, `lib/`) and `optee_client/` (`tee-supplicant/`).

## Inventory

| component | state | operations | hard parts | what makes it correct |
|---|---|---|---|---|
| open files of the VFS, `ta/tee_vfs.c` 38-379 | `DemoFile`: descriptor, journal buffer `aBuffer`, `nBuffer`, `iBufferOfst` | xOpen, xRead, xWrite, xSync, xFileSize, xClose, xTruncate, no-op locks | write buffering, short writes, errors in the middle of a flush, panics, power loss, failed RPCs | reads see writes; only an error return may lose bytes, and only unsynced ones; synced bytes survive; every method returns |
| names in the VFS, `ta/tee_vfs.c` 381-588 | none (the directory is Linux's) | xDelete, xAccess, xFullPathname, xDl*, xRandomness, xSleep, xCurrentTime, `sqlite3_os_init`; in the original also the Tcl commands that register it | unlink and directory sync are two steps, failures taken for "no file" | a deleted journal stays deleted; the port does what the original does |
| demovfs original, `host/demovfs.c` (not in the host's Makefile) | as the two above | the same methods, on Linux | the reference that the port was made from | the port takes only its steps |
| vfs system calls, `core/tee/tee_sqlite.c`, `core/kernel/scall.c` | payloads in shared memory, the two tables of system calls | 31 `syscall_vfs_*`, `scall_handle_user_ta`, `scall_handle_ldelf` | error paths with one or two payloads, results of failed RPCs, numbers outside a table | each reaches its own handler, returns its result, frees its payloads |
| stubs and message headers, `lib/libutee`, `optee_rpc_cmd.h`, `optee_msg_supplicant.h` | none | system-call numbers, argument counts, operation codes | four lists kept in step by hand | a number means the same on both sides |
| vfs handlers, `tee_supplicant.c` 637-1287 | none | 31 `vfs_*` | parameter lists matched by hand with the other side | no handler ends the daemon |
| thread pool of tee-supplicant, `tee_supplicant.c` 119-143, 539-633, 1289-1378, 1598-1607 | `thread_arg`: `num_waiters`, `abort` | receive, spawn, handle, respond, abort | interleaving, blocking handlers, thread limit, failing ioctls | a thread is always left to receive; no request lost, duplicated or stuck |
| shared-memory registry, `tee_supplicant.c` 173-458, 1635-1655 | list `shm_head` of `struct tee_shm` | alloc, find, free | pointers used without the mutex, ids reused by the kernel, wrap-around, partial failures | the list is sound, pointers in use are live, ranges fit, nothing leaks |
| start-up of tee-supplicant, `tee_supplicant.c` 460-522, 1379-1596 | two processes and the pipe between them, the device | options, `make_daemon`, `get_dev_fd`, release of the parent | a child that ends before it releases its parent, inherited ends of the pipe | the parent reports success only after the device was opened, and never waits for ever |
| page codec, `ta/codec.c`, `ta/codecext.c` (commented out in `ta/sub.mk`) | read and write key of each database | `sqlite3Codec`, key, attach, rekey | a rekey that fails half way, a panic in it, a journal under another key than the file | every page the next open finds is under one key; a connection goes on reading |
| tag map, `ta/hashmap.c`, `createMap` and `closeMap` of `ta/codec.c` (without callers) | hash table of pointers, `mac.log` | set, get, unset, rehash, dump, load | pointers to a frame that is gone, an index that is not reduced, assignments for comparisons | a map from page numbers to tags, across runs |
| trusted application and host program, `ta/tee_sqlite.c`, `host/main.c` | a handle `db` and a message each, a session | open, key, exec, close; context, session, command | error paths, a panic or a power loss in a statement, a second run over what the first left | the database is as one transaction left it; handles and messages are released once; the host ends |
| SQLite, `sqlite3.h` (`sqlite3.c` is not in the repository) | journal and database file | a commit, a rollback, recovery | - | assumed (`Commit`) |

Interaction: SQLite calls one VFS method at a time; a method makes several system
calls one after the other; each is a request of one secure thread that waits for
its answer. tee-supplicant handles the requests of several secure threads at once.
The kernel queues requests; the shared-memory list and `num_waiters` are shared by
the supplicant's threads under two mutexes, and `abort` without one. The host program
opens a session, which needs a tee-supplicant that serves (it loads the application),
and waits for its command; the command's SQL is what the files are written for.

`PROJECT.json` lists the hazards at their lines and the properties aimed at them.

## Modules

| module | models | state and actions |
|---|---|---|
| `FileBytes` | a Linux file | data at every offset and a length; `Put`, `Slice` |
| `FileContract` | what SQLite's pager may rely on | the abstract file, the bytes not yet synced, the bytes an error disowned; `Invoke`, `ReturnOk`, `ReturnError`, `Crash` ... |
| `DemoVfs` | open files of `host/demovfs.c` | as `TeeVfs`, with an lseek and the read or write after it in one step, and nothing between the methods and Linux |
| `TeeVfs` | open files of the VFS | `DemoFile` plus page cache and stable storage; one action per method entry, per `utee_vfs_*` call with the code after it, per turn of `demoWrite`'s copy loop; refines `FileContract` and `DemoVfs` |
| `DemoNames` | methods on names of `host/demovfs.c` | the directory in the page cache and on stable storage |
| `VfsNames` | methods on names of the VFS | the same, one action per system call; refines `DemoNames` |
| `ScallTables` | stubs, tables and headers | numbers, argument counts and operation codes, as each file has them |
| `VfsSyscalls` | the system calls and their handlers end to end | one record per `syscall_vfs_*` (code, parameters, allocations, exit labels) and per `vfs_*` handler (parameters fetched, Linux call); `Enter`, `Alloc`, `ThreadRpcCmd`, `RpcFails`, `Return` run them; `OtherCall`, `CoreCall` are the other numbers; `traced` is whether a session's call is being traced (ftrace) |
| `SuppPool` | the thread pool | a program counter per thread, `num_waiters`, `abort`, the kernel's queue; one action between two operations other threads can see |
| `ShmRegistry` | the shared-memory list | the structs and their `next` pointers, the kernel's ids, a pointer per handling thread; one action per critical section or system call |
| `TagMap` | `hashmap.c`, `CodecEncrypt`, `createMap`, `closeMap` | chains of pointers, the records of `mac.log`; one action per call of the map or turn of a loop that reads or writes the file |
| `Rekey` | `codecext.c`, the codec structure | a codec per database, the image of each page in the file, the journal and the cache; one action per call, per page of a rekey, per spill |
| `Commit` | SQLite's transactions over the VFS | page versions of a database and its journal, each with a stable part; a statement is a list of VFS calls, each of which succeeds, fails or is lost; a journal is deleted with or without `dirSync` |
| `SuppStart` | start-up of tee-supplicant | the processes, the ends of the pipe each holds, the device |
| `System` | host program and trusted application | composes `Commit` and `SuppStart`; `main`, `exec` and `testWithotKey` as tables from labels to steps, an action per kind of step |
| `TeeVfsProofs`, `VfsNamesProofs`, `VfsSyscallsProofs`, `SuppPoolProofs`, `ShmRegistryProofs`, `TagMapProofs`, `RekeyProofs`, `SystemProofs` | - | theorems |
| `MCTeeVfs`, `MCSuppPool`, `MCShmRegistry`, `MCVfsSyscalls`, `MCTagMap`, `MCRekey`, `MCSystem` | - | bounds and symmetry for TLC |

What is abstracted. Bytes, names, ids, clients and threads are elements of small
sets. `VfsSyscalls` leaves out the contents of payloads and keeps, of a result,
whether it is an error, a success or the 0 that was sent. `TeeVfs` does not run on
top of `VfsSyscalls`; it takes over what that module shows of the calls it makes:
the result of Linux or -1, and 0 when the RPC fails. A failed RPC gives `demoOpen`
descriptor 0, the standard input of tee-supplicant, taken to be `/dev/null` as
`make_daemon` leaves it. Likewise `Commit` does not run on `TeeVfs` and `VfsNames`:
it takes over which calls can be lost and yet say `SQLITE_OK` (`Losable`, `Lost`: an
open, a sync, a delete; an lseek, so that a header or a page is written elsewhere, or
a journal read from elsewhere; an access or a file size that denies the journal), that
a panic loses the journal's buffer, and what a failure in the middle leaves behind. In `VfsNames`, of the methods that change
nothing only the worth of their answer is kept. In `Rekey` AES is abstract: a page
decoded with another key than it was encoded with is "bad", and a page image is a key
and whether its contents are good. The tags are in `TagMap` only, since `CodecAES`
merely logs a tag that does not match. In `System` the turns of the host's loops are
one statement, and the host's own database, which does not use this VFS, is only its
handle.

History variables record what SQLite, a client or a reader has been promised; no
guard reads them: `file`, `unsynced`, `lost` in `TeeVfs`; `rpc`, `removed` in
`VfsNames`; `own` in `ShmRegistry`; `want`, `vague`, `faults` in `TagMap` (`faults`
also bounds the failures); `fileKey`, `right`, `spoiled` in `Rekey`; `allowed`,
`unsettled`, `lied` in `Commit`; `opened`, `readError` in `SuppStart`; `misuse` in
`System`.

What is assumed of code outside the repository. Linux: a write past the end leaves
zeros, write() may be partial, fsync makes the page cache durable or fails and
changes nothing, and after a power loss each byte (each directory entry) is the old
or the new one; in `Commit`, the fsync of a new journal makes its name durable too
(as ext4 does: the VFS itself never syncs the directory for it). The kernel's TEE
driver: a request is received once, its answer goes to the thread that asked, closing
the device fails what is unanswered, an id is not given out again while a descriptor
or a mapping holds it. OP-TEE: a secure thread has one request at a time and frees
only its own buffers. SQLite: the commit protocol that the overview of
`host/demovfs.c` describes. Nothing is assumed of the `dirSync` that it gives to
xDelete (3.8.4.2, the version of `sqlite3.h`, gives 0 for a rollback journal): each
delete may have it or not. For `Rekey` a pager that journals a page before it
changes it, may write dirty pages early, and copies the journal back as it is.

## Runs

| run | what it shows | bounds |
|---|---|---|
| `vfs_contract` | `Coherent`, `SyncedSurvives`, the refinements `ImplementsContract` and `ImplementsDemo`, and `CallReturns`, without RPC failures | file of 3 bytes, buffer of 2, 2 writes |
| `vfs_faults` | `TypeOK`, `CopyAsserts` with RPCs failing at any call | as above |
| `vfs_fsync_lost` | violated: a failed RPC reads as a successful fsync | as above |
| `names_delete` | `TypeOK`, `RemovedStaysRemoved`, the refinement `ImplementsDemoNames`, with RPCs failing at any call | 2 names |
| `pool` | `NeverAllBusy`, `RequestTaken` (handlers may block for ever), `RequestAnswered` (if they return) | 2 clients, 3 requests each, 7 threads |
| `pool_faults` | `TypeOK`, `WaiterCount`, `Accounted`, `TakenOrFailed` with failing ioctls, pthread_create and mutexes | 2 clients, 2 requests each, 3 threads |
| `shm` | the six properties of the registry | 3 clients, structs and ids; `size_t` of 2 bits |
| `syscalls` | `TypeOK`, `Relayed`, `NoPayloadLeft`, `OnlyKnownWild`, `OnlyKnownCrashes`, with RPCs and allocations failing | 2 sessions |
| `tagmap` | `TypeOK`, `CountIsItems`, `TagsSurvive`, `HeapUseIsSafe` | pages 0, 1, 4, 5 in a table of 5, arrays of 7, 6 items, 5 logs, 2 runs of the program, 2 failures |
| `rekey` | `TypeOK`, `AllOrNothing`, `StaysReadable`, with a failure or a panic at any page, and a commit that fails before or after its journal is unlinked | 2 databases of 3 pages, one of them skipped; 3 passwords, 2 with the same key |
| `rekey_restore` | violated: a decryption that fails leaves the codec without a write key | as above |
| `system` | `AtomicCommit`, `ConnectionsClosed`, `ReleasedAfterOpen`, `ParentReturns`, `HostEnds` | 2 databases of 2 pages, 2 and 1 transactions, 2 failures, 2 runs of the host, 2 devices, 4 command lines, 3 requests; calls are lost for one of the databases |

Why the bounds are enough. A buffer of 2 in a file of 3 lets one write fill the
buffer, run over it (flush inside the loop), extend it, and miss it before and
behind; two writes put a buffered and a partly copied write in one state, and every
flush in between can fail. Seven threads for six requests never run out, three do.
Three structs give a list with a head, a middle and an end while each thread is at
any step. With `size_t` of 2 bits every pair of size and offset is tried, wrapped
sums too. In the tag map, page 4 is the last index of the first table and page 5 the
first beyond it; the logs hold duplicates, enough of them that the table grows, and
as many records as the arrays take. Three pages give a rekey a page before the
skipped one and one after; two databases, one attached, that only one of them is
being rekeyed. Two pages let a power loss tear a database; two failures, that
recovery from the first one fails too; two runs of the host, that the second finds
what the first left. Calls are lost (`RpcFaults`) for `test1.db` only: a statement
works on one database, so what a lost call leaves does not depend on the other one,
and the other one shows that a lie about one file excuses no other. Without `dirSync`
the first commit on `test.db` is unsettled while the second one is at any of its
calls. `rekey` does not go on after a database is `spoiled` (its
constraint): it is exempt from the property from then on.

The violated runs are disagreements between the code and its own comments;
`PROJECT.json` quotes both ("findings").

Known exceptions that the properties name; any other is a violation:

* `Relayed`: `truncate` (sent with the code of `ftruncate` and refused), `getcwd` and
  `usleep` (no result relayed). `OnlyKnownCrashes`: `pwrite` and `getenv`.
  `OnlyKnownWild`: `fcntl_flock` and `getenv`.
* `ImplementsDemoNames`: `Drift`, a path made without a current directory; and calls
  with a failed RPC.
* `ConnectionsClosed`: `sqlite3_key` is given the NULL handle of a failed open.
* `AtomicCommit` exempts databases in `lied`: a lost call was taken for a success
  (`vfs_fsync_lost` shows how), or a failed access denied a journal. And a commit whose
  journal was deleted without `dirSync` is not durable: demoDelete then leaves the
  unlink in the page cache, a power failure may bring the journal back, and the next
  open plays it back. The versions before the commit are `unsettled` until a journal or
  the directory is synced; a power failure, and nothing else, makes them possible
  again. Even then the database is as one transaction left it, never a mixture.
* `ReleasedAfterOpen`: a `read()` of the parent that fails (`readError`). make_daemon
  tests only for 0, so -1 is taken for the byte of the child, and the parent reports
  success although the device may never be opened.
* `StaysReadable`: a rekey whose commit fails after the journal was unlinked. The pages
  are under the new key for good, while `sqlite3_rekey_v2` gives the codec the old
  one back: the connection no longer has the right password (`right`).
  `AllOrNothing` exempts databases in `spoiled` (see `rekey_restore`).
* `TagsSurvive` exempts pages whose tag is behind a pointer to `CodecEncrypt`'s frame
  (`vague`), the header's entry, and page numbers beyond the table; `HeapUseIsSafe`
  says under which uses the map makes no undefined access.

## Fairness

`TeeVfs`: weak fairness of the steps inside a method. The methods are sequential
code, and every RPC returns, with an answer or an error. Method calls and crashes
are not fair.

`SuppPool`: weak fairness of each thread's own steps (the scheduler). Receiving is
fair once there is a request. Handlers are not: `RequestTaken` holds even if no
handler ever returns; `RequestAnswered` and `TakenOrFailed` assume that they do
(`HandlersReturn`). Failures are never forced, except that pthread_create must
return when no thread is left. Requests are not fair.

`System`: weak fairness of the host's steps and of the start of tee-supplicant, which
Linux schedules, and of the application's steps while tee-supplicant serves: without
it no call of the VFS is assumed to end, and `HostEnds` promises nothing. Failures,
kills, panics, power losses and a second run are not fair.

`MCTeeVfs` and `MCSuppPool` state the same fairness for the bounded next-state
relation. `pool` and `pool_faults` do not check deadlock: when the clients have made
their requests every thread waits in TEE_IOC_SUPPL_RECV, and the daemon may end.
`system` and `tagmap` do not either, because the programs end after their last run.

## Proofs

Every theorem is for any constants that satisfy the named assumptions of the modules,
which TLC evaluates in the runs: a zero byte and a non-empty buffer; finitely many
threads, Main among them, and a natural number of requests; finitely many structs,
words that contain 0 and the sizes asked for; page numbers that are naturals, 0 and 1
among them, logs and garbage made of records, and room in `createMap`'s arrays; a
plain-text key that is no password's; the two databases of `exec` and `testWithotKey`
among the files; no model value that is also a name, a client, an id or a tag. The
bounds of a run (writes, faults, transactions) are constants too, so they are no bounds
of a theorem.

Open files and names.

* `TeeVfsProofs!TypeCorrect`, `CopyAssertsHold`: `Spec => []TypeOK`,
  `Spec => []CopyAsserts`, with or without RPC failures. Inductive invariant
  `BaseInv`: both together with `FrameInv`, which ties the program counter to the
  method, its remaining bytes and the buffer; without it neither the index into
  `zBuf` nor the space left in `aBuffer` can be bounded.
* `TeeVfsProofs!Coherence`, `SyncDurability`, from `RpcFaults = FALSE`:
  `Spec => []Coherent`, `Spec => []SyncedSurvives`. Inductive invariant `SafeInv`:
  `BaseInv`, `Coherent` byte by byte and for the length, `WriteAtOffset`, and
  `CacheInv` (unsynced bytes cover the buffer, the rest of the write and every
  difference between page cache and stable storage), next to the fact that the
  descriptor is the file's own. `WriteAtOffset` is what a failed lseek breaks, and
  the assumption is needed: `vfs_fsync_lost` refutes the conclusion without it.
* `TeeVfsProofs!FilesImplementContract`, `FilesImplementDemo`, from
  `RpcFaults = FALSE`: the refinements `ImplementsContract` and `ImplementsDemo`. One
  lemma per action and abstract specification says which abstract step it is, or that
  it is none. Besides `SafeInv` they need `CallInv` (what the frame of a method holds
  between its calls) and that the bytes behind the end of a file are zeros, as a read
  past it returns them.
* `VfsNamesProofs!NamesTypeCorrect`, `RemovalDurable`: `Spec => []TypeOK` and
  `Spec => []RemovedStaysRemoved`, with RPCs failing at any call. Inductive invariant
  `RemovedInv`: unless an RPC of the call has failed, between unlink and the
  directory's fsync the name is gone from the page cache.
* `VfsNamesProofs!PortImplementsDemo`: `Spec => ImplementsDemoNames`. The steps of
  `VfsNames` map to steps of `DemoNames` with its program counter replaced by
  `DemoPc` (opening, syncing and closing the directory are one call of the original,
  until its return). Inductive invariant `FrameInv`: `rc` is still 0 before the
  unlink, and only a failed RPC leads to an fsync of descriptor 0. One case per action;
  the difference of `Drift` is excused by name.

System calls.

* `VfsSyscallsProofs!SyscallsTypeCorrect`, `ResultsAreRelayed`, `PayloadsAreFreed`,
  `WildOnlyWhereKnown`, `CrashOnlyWhereKnown`: the five properties of the run, for any
  number of sessions. First the tables: `Parts` says where the four parts of a table of
  102 entries are, so that the number of a vfs call leads to the function of its name
  (`OwnFunction`) and the code it sends to the operation of its name (`OwnOperation`);
  `FunctionsAreGood` and `HandlersAreGood` then go through the 31 calls and their
  handlers (plan, parameters, Linux call, result), `PlansAre` through the steps of the
  four plans. With these the calls need not be told apart any more. Inductive invariant
  `SyscallInv`: next to the properties, `TraceInv` says that a trace is on only
  for a session in a call, and `SessionInv` says that a session between two
  calls holds nothing, that one in a call holds payloads whose allocation was tried, and
  that once the plan is done b is what Linux did, unless the RPC failed.

tee-supplicant.

* `SuppPoolProofs!WaitersCounted`, `PoolNeverAllBusy`: `Spec => []WaiterCount`,
  `Spec => []NeverAllBusy`, with failures. A mutex that fails ends the
  daemon, as `tee_supp_mutex_lock` has it. Inductive invariant `PoolInv`: the count,
  and that while nobody has failed either it is positive or some thread is at the
  head of the loop or about to spawn. The central lemma, `MoveCount`, says how the
  cardinality of the counted threads changes when one thread moves.
* `SuppPoolProofs!PoolTypeCorrect`, `EveryRequestAccounted`: `Spec => []TypeOK`,
  `Spec => []Accounted`. Inductive invariant `RequestInv`: no request is in two places,
  and none is in the queue, or with a thread while the daemon runs, unless its client
  waits for it.
* `ShmRegistryProofs!RegistryTypeCorrect`, `ListIsSound`, `FindsOwnBuffer`,
  `PointersAreLive`, `UseInBounds`, `NothingLeaks`: the six properties of the run.
  Inductive invariant `RegistryInv`: every struct in use is somebody's, who has its
  buffer or is making or releasing it (`ClientInv`, `Apart`, `Owned`), and the list
  visits exactly the buffers of the clients (`ListInv`). The list is a function from
  positions to structs; that it ends within the number of structs is the pigeonhole
  principle, and that `find_tshm` finds the struct the least position with its id.
* `SystemProofs!ParentReleasedAfterOpen`: `Spec => []ReleasedAfterOpen` of `SuppStart`.
  Inductive invariant `StartInv`: the child writes to the pipe, and a byte is in it,
  only after the device was opened; a parent that reports success has got that byte or
  a failed read().

Codec, commits and programs.

* `TagMapProofs!TypeCorrect`, `CountCorrect`, `TagsCorrect`, `HeapUseCorrect`:
  `TypeOK`, `CountIsItems`, `TagsSurvive` and `HeapUseIsSafe`, for every log, table and
  set of pages, with failures, panics and stack pointers. Inductive invariant `IInv`:
  next to `TypeOK`, `SoundInv` says that the items of a chain have its number as key,
  that a chain whose keys can be read has at most one item (but for that of page 0,
  which a walk never finds), that the count is the cardinality of the set of places
  and at most the size of the table, and that stack pointers are only in the chains
  of `vague`. This is why a rehash, which only a new item brings about, loses
  nothing: the hash does not depend on the size and no chain has an item behind one
  that matches. `PlaceInv` is what the program counter says of the table and of the
  position in the log. `TagInv` says where the wanted tags are at each program
  counter: in the log; in the log and, as far as it has been read, in the map; in
  the map; in the map and, as far as it has been dumped, in the log. `WildInv` names
  the logs that lead to an undefined access. `faults` is also the bound of the
  failures, so a theorem needs that it is not 0: a panic that loses an update has to
  be recorded.

* `RekeyProofs!RekeyTypeCorrect`, `RekeyAllOrNothing`, `ConnectionStaysReadable`:
  `TypeOK`, `AllOrNothing`, `StaysReadable`, with a failure or a panic at any page.
  Inductive invariant `Inv`: next to them, what the two keys of a codec are inside and
  outside a rekey (`CodecInv`); that a page in the cache is good and was read with the
  file's key (`CacheInv`); that in a transaction a page in the journal is also in the
  cache, and dirty or already written under the key of the transaction (`TxInv`); and
  that a connection with the right password has the key of the file (`RightInv`). A
  commit is one lemma for both its outcomes (`CommitStep`): it makes the new key the
  file's even when it then fails, and `right` loses the database.
* `SystemProofs!CommitsAreAtomic`: `Spec => []AtomicCommit`. Inductive invariant
  `CommitInv`: for each database and each rest of a transaction or of a playback
  (`Shape`), what journal and file hold, in the page cache and after a power loss
  (`FileInv`): the journal is settled before the first page is written, and undoes all
  of it until it is deleted. With or without `dirSync`, the journal on stable storage is
  of a version in `allowed` or `unsettled` (`OnDisk`), and while it may come back no
  page of a later transaction is written: the sync of the new journal, which comes
  first, replaces it.
* `SystemProofs!HandlesAreClosed`: `Spec => []ConnectionsClosed`. Inductive invariant
  `AppInv`: what `db` and the message are at each label of `main`, `exec` and
  `testWithotKey` (`TaFits`, `HostFits`), and that the application works only while the
  host waits for its command.

Only model-checked: the liveness properties (`CallReturns`, `RequestTaken`,
`RequestAnswered`, `TakenOrFailed`, `ParentReturns`, `HostEnds`), which are out of the
prover's reach.

## Not modelled

* The other services of tee-supplicant (secure storage, RPMB, sockets, profiling,
  plugins): `process_one_request` calls into files that are not in the repository. They
  are the action `Handle` of `SuppPool`.
* SQLite itself, and of `sqlite3.h` what the repository does not use: functions,
  collations, virtual tables, blobs, backup, hooks, most of the error codes.
* The contents and lengths of RPC payloads, and what AES computes.
* File locking, which the VFS does not have, and so two sessions on one database:
  `host/demovfs.c` leaves that to the user.
* `hm_print` and `trace_syscall`, which only print; the times that the host prints.

## Plan

Done: every component whose code is in the repository, the compositions `Commit` with
`SuppStart` in `System`, the refinements to the contract of a file and to the original
VFS; a theorem for every safety property that a passing run checks.
Next, in order:

1. What happens with failing RPCs, as theorems too: which of the conclusions of
   `Coherence` and of the refinements remain when only reads fail.
2. `Supplicant`: pool and registry composed, with a request's allocation, use and
   free handled by the pool's threads; the end of the daemon while buffers are live.
