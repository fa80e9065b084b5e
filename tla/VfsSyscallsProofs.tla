-------------------------- MODULE VfsSyscallsProofs --------------------------
(***************************************************************************)
(* Proofs about the vfs system calls, for any set of sessions.             *)
(***************************************************************************)
EXTENDS VfsSyscalls, FiniteSetTheorems, SequenceTheorems, TLAPS

-----------------------------------------------------------------------------
(***************************************************************************)
(* The tables of system calls: 55 entries, 15 that are not in use, one for *)
(* the cache and the 31 of the vfs.                                        *)
(***************************************************************************)

\* r is p followed by q: p has m elements, the two have k.
Reads(r, p, q, m, k) == \A i \in 1 .. k : r[i] = IF i <= m THEN p[i] ELSE q[i - m]
IsJoin(S, r, p, q, m, k) == r \in Seq(S) /\ Len(r) = k /\ Reads(r, p, q, m, k)

\* The two parts in the middle: a string that is repeated, and a single one.
Filled(M, e, O, o) == (\A i \in 1 .. 15 : M[i] = e) /\ O[1] = o

\* Where the four parts of a table are.
Laid(T, A, e, o, B) ==
    /\ DOMAIN T = 1 .. 102
    /\ \A i \in 1 .. 55 : T[i] = A[i]
    /\ \A i \in 56 .. 70 : T[i] = e
    /\ T[71] = o
    /\ \A i \in 72 .. 102 : T[i] = B[i - 71]

\* Concatenation.
LEMMA Joined ==
    ASSUME NEW S, NEW p, NEW q, p \in Seq(S), q \in Seq(S), NEW r, r = p \o q
    PROVE  IsJoin(S, r, p, q, Len(p), Len(p) + Len(q))
BY ConcatProperties DEF IsJoin, Reads

\* An index of the table leads to its part.
LEMMA Looked ==
    ASSUME NEW A, NEW M, NEW O, NEW B, NEW D, NEW F, NEW T, NEW e, NEW o,
           Filled(M, e, O, o),
           DOMAIN T = 1 .. 102, Reads(D, A, M, 55, 70), Reads(F, D, O, 70, 71), Reads(T, F, B, 71, 102)
    PROVE  Laid(T, A, e, o, B)
BY DEF Filled, Reads, Laid

\* A table built from its parts.
LEMMA Parts ==
    ASSUME NEW S, NEW A \in Seq(S), NEW M \in Seq(S), NEW O \in Seq(S), NEW B \in Seq(S), NEW e, NEW o,
           Len(A) = 55, Len(M) = 15, Len(O) = 1, Len(B) = 31,
           Filled(M, e, O, o),
           NEW D, D = A \o M, NEW F, F = D \o O, NEW T, T = F \o B
    PROVE  Laid(T, A, e, o, B)
<1>0. 55 + 15 = 70 /\ 70 + 1 = 71 /\ 71 + 31 = 102
  OBVIOUS
<1>1. IsJoin(S, D, A, M, 55, 70)
  <2>1. IsJoin(S, D, A, M, Len(A), Len(A) + Len(M))
    BY Joined
  <2> QED BY <2>1, <1>0
<1>2. IsJoin(S, F, D, O, 70, 71)
  <2>1. D \in Seq(S) /\ Len(D) = 70
    BY <1>1 DEF IsJoin
  <2>2. IsJoin(S, F, D, O, Len(D), Len(D) + Len(O))
    BY <2>1, Joined
  <2> QED BY <2>1, <2>2, <1>0
<1>3. IsJoin(S, T, F, B, 71, 102)
  <2>1. F \in Seq(S) /\ Len(F) = 71
    BY <1>2 DEF IsJoin
  <2>2. IsJoin(S, T, F, B, Len(F), Len(F) + Len(B))
    BY <2>1, Joined
  <2> QED BY <2>1, <2>2, <1>0
<1>4. DOMAIN T = 1 .. 102
  <2>1. T \in Seq(S) /\ Len(T) = 102
    BY <1>3 DEF IsJoin
  <2>2. DOMAIN T = 1 .. Len(T)
    BY <2>1, LenProperties, Zenon
  <2> QED BY <2>1, <2>2
<1>5. Reads(D, A, M, 55, 70) /\ Reads(F, D, O, 70, 71) /\ Reads(T, F, B, 71, 102)
  BY <1>1, <1>2, <1>3 DEF IsJoin
<1> QED BY <1>4, <1>5, Looked

\* The names of the calls.
LEMMA CallNames ==
    Calls = {"open", "close", "access", "getcwd", "stat", "write", "mkdir", "rmdir", "unlink",
             "ftruncate", "read", "fchmod", "fchown", "geteuid", "getpid", "getenv", "lseek",
             "fsync", "sleep", "pread", "pwrite", "truncate", "gettimeofday", "fstat",
             "fcntl_void", "fcntl_int", "fcntl_flock", "utimes", "time", "usleep", "filesize"}
BY DEF Calls, VfsStubs

\* The lists that two files keep are the same.
LEMMA SameEntries == VfsEntries = VfsNumbers /\ KernelCodes = SupplicantCodes
BY DEF VfsNumbers, VfsEntries, KernelCodes, SupplicantCodes

\* The parts themselves, as sequences.
LEMMA PartsAre ==
    /\ Len(CoreNumbers) = 55 /\ Len(CoreEntries) = 55 /\ Len(VfsNumbers) = 31
    /\ \A S : (\A i \in 1 .. 55 : CoreNumbers[i] \in S) => CoreNumbers \in Seq(S)
    /\ \A S : (\A i \in 1 .. 55 : CoreEntries[i] \in S) => CoreEntries \in Seq(S)
    /\ \A S : (\A i \in 1 .. 31 : VfsNumbers[i] \in S) => VfsNumbers \in Seq(S)
<1>1. Len(CoreNumbers) = 55 /\ CoreNumbers = [i \in 1 .. 55 |-> CoreNumbers[i]]
  BY DEF CoreNumbers
<1>2. Len(CoreEntries) = 55 /\ CoreEntries = [i \in 1 .. 55 |-> CoreEntries[i]]
  BY DEF CoreEntries
<1>3. Len(VfsNumbers) = 31 /\ VfsNumbers = [i \in 1 .. 31 |-> VfsNumbers[i]]
  BY DEF VfsNumbers
<1>4. ASSUME NEW S, NEW f, NEW n \in Nat, f = [i \in 1 .. n |-> f[i]], \A i \in 1 .. n : f[i] \in S
      PROVE  f \in Seq(S)
  BY <1>4
<1>5. 55 \in Nat /\ 31 \in Nat
  OBVIOUS
<1> QED BY <1>1, <1>2, <1>3, <1>4, <1>5, Zenon

\* A table of strings in four parts.
LEMMA TableOf ==
    ASSUME NEW A, NEW B, NEW e, NEW o, Len(A) = 55, Len(B) = 31,
           \A S : (\A i \in 1 .. 55 : A[i] \in S) => A \in Seq(S),
           \A S : (\A i \in 1 .. 31 : B[i] \in S) => B \in Seq(S)
    PROVE  Laid(A \o [i \in 1 .. 15 |-> e] \o <<o>> \o B, A, e, o, B)
<1> DEFINE S == {A[i] : i \in 1 .. 55} \cup {B[i] : i \in 1 .. 31} \cup {e, o}
           M == [i \in 1 .. 15 |-> e]
           O == <<o>>
<1>1. (\A i \in 1 .. 55 : A[i] \in S) /\ (\A i \in 1 .. 31 : B[i] \in S) /\ e \in S /\ o \in S
  OBVIOUS
<1> HIDE DEF S
<1>2. A \in Seq(S) /\ B \in Seq(S)
  BY <1>1
<1>3. M \in Seq(S) /\ Len(M) = 15
  BY <1>1
<1>4. O \in Seq(S) /\ Len(O) = 1
  BY <1>1
<1>5. Filled(M, e, O, o)
  BY DEF Filled
<1> HIDE DEF M, O
<1>6. Laid(A \o M \o O \o B, A, e, o, B)
  BY <1>2, <1>3, <1>4, <1>5, Parts
<1> QED BY <1>6 DEF M, O

\* tee_syscall_numbers.h and tee_syscall_table: the 31 numbers of the vfs lead to the
\* functions of the same names.
LEMMA NumbersLaid == Laid(tee_syscall_numbers, CoreNumbers, "deprecated", "cache_operation", VfsNumbers)
<1>1. tee_syscall_numbers = CoreNumbers \o [i \in 1 .. 15 |-> "deprecated"] \o <<"cache_operation">> \o VfsNumbers
  BY Zenon DEF tee_syscall_numbers
<1> QED BY <1>1, PartsAre, TableOf

\* The table of functions.
LEMMA EntriesLaid == Laid(tee_syscall_table, CoreEntries, "not_supported", "cache_operation", VfsNumbers)
<1>1. tee_syscall_table = CoreEntries \o [i \in 1 .. 15 |-> "not_supported"] \o <<"cache_operation">> \o VfsNumbers
  BY SameEntries, Zenon DEF tee_syscall_table
<1> QED BY <1>1, PartsAre, TableOf

\* No other number has the name of a vfs call.
LEMMA CoreIsNotVfs == \A i \in 1 .. 55 : CoreNumbers[i] \notin Calls
BY CallNames DEF CoreNumbers

\* Every vfs call has a number.
LEMMA VfsIsVfs == \A c \in Calls : \E i \in 1 .. 31 : VfsNumbers[i] = c
BY CallNames DEF VfsNumbers

\* The stub of a vfs call reaches the function of its own name.
LEMMA OwnFunction == \A c \in Calls : FunctionOf[c] = c
<1> TAKE c \in Calls
<1>1. PICK k \in 1 .. 31 : VfsNumbers[k] = c
  BY VfsIsVfs
<1>2. k + 71 \in DOMAIN tee_syscall_numbers /\ tee_syscall_numbers[k + 71] = c
  BY <1>1, NumbersLaid DEF Laid
<1>3. PICK n : n = CHOOSE i \in DOMAIN tee_syscall_numbers : tee_syscall_numbers[i] = c
  OBVIOUS
<1>4. n \in DOMAIN tee_syscall_numbers /\ tee_syscall_numbers[n] = c
  BY <1>2, <1>3, Zenon
<1>5. "deprecated" \notin Calls /\ "cache_operation" \notin Calls
  BY CallNames
<1>6. n \in 72 .. 102
  BY <1>4, <1>5, NumbersLaid, CoreIsNotVfs DEF Laid
<1>7. tee_syscall_table[n] = c
  BY <1>4, <1>6, NumbersLaid, EntriesLaid DEF Laid
<1>8. get_tee_syscall_func(n - 1) = c
  BY <1>6, <1>7 DEF get_tee_syscall_func, TEE_SCN_MAX
<1>9. TEE_SCN(c) = n - 1
  BY <1>3 DEF TEE_SCN
<1> QED BY <1>8, <1>9 DEF FunctionOf

\* The code of an operation means the same to either side.
LEMMA OwnOperation == \A i \in 1 .. 31 : Operation(OPTEE_VFS(KernelCodes[i])) = KernelCodes[i]
<1> TAKE i \in 1 .. 31
<1>1. DOMAIN KernelCodes = 1 .. 31
  BY DEF KernelCodes
<1>2. PICK n : n = CHOOSE j \in DOMAIN KernelCodes : KernelCodes[j] = KernelCodes[i]
  OBVIOUS
<1>3. n \in DOMAIN KernelCodes /\ KernelCodes[n] = KernelCodes[i]
  BY <1>1, <1>2, Zenon
<1>4. (n - 1) + 1 = n
  BY <1>1, <1>3
<1>5. OPTEE_VFS(KernelCodes[i]) = n - 1
  BY <1>2 DEF OPTEE_VFS
<1> QED BY <1>3, <1>4, <1>5, SameEntries DEF Operation
-----------------------------------------------------------------------------
(***************************************************************************)
(* What each system call sends and what its handler takes.                 *)
(***************************************************************************)

Plans == {NoPayload, OnePayload, TwoPayloads, AskTwice}

\* What holds of system call sc, under the name c.
GoodFunction(c, sc) ==
    /\ sc.plan \in Plans
    /\ sc.atExit => c = "fcntl_flock"
    /\ \E i \in 1 .. 31 : KernelCodes[i] = sc.code

\* What holds of handler h that call c is led to with the parameters params.
GoodHandler(c, h, params) ==
    /\ c # "truncate" => h.linux = c /\ Accepts(h, params)
    /\ h.linux = "getenv" => c = "getenv"
    /\ c \notin {"getcwd", "usleep"} => h.setsB
    /\ c # "pwrite" => h.derefs \subseteq h.values

\* The functions of the table, by name.
LEMMA FunctionsAre ==
    /\ Functions["open"] = syscall_vfs_open
    /\ Functions["close"] = syscall_vfs_close
    /\ Functions["access"] = syscall_vfs_access
    /\ Functions["getcwd"] = syscall_vfs_getcwd
    /\ Functions["stat"] = syscall_vfs_stat
    /\ Functions["write"] = syscall_vfs_write
    /\ Functions["mkdir"] = syscall_vfs_mkdir
    /\ Functions["rmdir"] = syscall_vfs_rmdir
    /\ Functions["unlink"] = syscall_vfs_unlink
    /\ Functions["ftruncate"] = syscall_vfs_ftruncate
    /\ Functions["read"] = syscall_vfs_read
    /\ Functions["fchmod"] = syscall_vfs_fchmod
    /\ Functions["fchown"] = syscall_vfs_fchown
    /\ Functions["geteuid"] = syscall_vfs_geteuid
    /\ Functions["getpid"] = syscall_vfs_getpid
    /\ Functions["getenv"] = syscall_vfs_getenv
    /\ Functions["lseek"] = syscall_vfs_lseek
    /\ Functions["fsync"] = syscall_vfs_fsync
    /\ Functions["sleep"] = syscall_vfs_sleep
    /\ Functions["pread"] = syscall_vfs_pread
    /\ Functions["pwrite"] = syscall_vfs_pwrite
    /\ Functions["truncate"] = syscall_vfs_truncate
    /\ Functions["gettimeofday"] = syscall_vfs_gettimeofday
    /\ Functions["fstat"] = syscall_vfs_fstat
    /\ Functions["fcntl_void"] = syscall_vfs_fcntl_void
    /\ Functions["fcntl_int"] = syscall_vfs_fcntl_int
    /\ Functions["fcntl_flock"] = syscall_vfs_fcntl_flock
    /\ Functions["utimes"] = syscall_vfs_utimes
    /\ Functions["time"] = syscall_vfs_time
    /\ Functions["usleep"] = syscall_vfs_usleep
    /\ Functions["filesize"] = syscall_vfs_filesize
    /\ DOMAIN Functions = Calls
BY CallNames DEF Functions

\* The handlers, by the codes of their operations.
LEMMA HandlersAre ==
    /\ tee_supp_vfs_process["OPEN"] = vfs_open
    /\ tee_supp_vfs_process["CLOSE"] = vfs_close
    /\ tee_supp_vfs_process["ACCESS"] = vfs_access
    /\ tee_supp_vfs_process["GETCWD"] = vfs_getcwd
    /\ tee_supp_vfs_process["STAT"] = vfs_stat
    /\ tee_supp_vfs_process["WRITE"] = vfs_write
    /\ tee_supp_vfs_process["MKDIR"] = vfs_mkdir
    /\ tee_supp_vfs_process["RMDIR"] = vfs_rmdir
    /\ tee_supp_vfs_process["UNLINK"] = vfs_unlink
    /\ tee_supp_vfs_process["FTRUNCATE"] = vfs_ftruncate
    /\ tee_supp_vfs_process["READ"] = vfs_read
    /\ tee_supp_vfs_process["FCHMOD"] = vfs_fchmod
    /\ tee_supp_vfs_process["FCHOWN"] = vfs_fchown
    /\ tee_supp_vfs_process["GETEUID"] = vfs_geteuid
    /\ tee_supp_vfs_process["GETPID"] = vfs_getpid
    /\ tee_supp_vfs_process["GETENV"] = vfs_getenv
    /\ tee_supp_vfs_process["LSEEK"] = vfs_lseek
    /\ tee_supp_vfs_process["FSYNC"] = vfs_fsync
    /\ tee_supp_vfs_process["SLEEP"] = vfs_sleep
    /\ tee_supp_vfs_process["GETTIMEOFDAY"] = vfs_getdayoftime
    /\ tee_supp_vfs_process["PWRITE"] = vfs_pwrite
    /\ tee_supp_vfs_process["PREAD"] = vfs_pread
    /\ tee_supp_vfs_process["TRUNCATE"] = vfs_truncate
    /\ tee_supp_vfs_process["FSTAT"] = vfs_fstat
    /\ tee_supp_vfs_process["FCNTL_VOID"] = vfs_fcntl_void
    /\ tee_supp_vfs_process["FCNTL_INT"] = vfs_fcntl_int
    /\ tee_supp_vfs_process["FCNTL_FLOCK"] = vfs_fcntl_flock
    /\ tee_supp_vfs_process["UTIMES"] = vfs_utimes
    /\ tee_supp_vfs_process["TIME"] = vfs_time
    /\ tee_supp_vfs_process["USLEEP"] = vfs_usleep
    /\ tee_supp_vfs_process["FILESIZE"] = vfs_filesize
BY DEF tee_supp_vfs_process

\* Every system call has one of the four plans; only fcntl_flock copies behind its label.
LEMMA FunctionsAreGood ==
    /\ GoodFunction("open", syscall_vfs_open) /\ syscall_vfs_open.code = "OPEN"
    /\ GoodFunction("close", syscall_vfs_close) /\ syscall_vfs_close.code = "CLOSE"
    /\ GoodFunction("access", syscall_vfs_access) /\ syscall_vfs_access.code = "ACCESS"
    /\ GoodFunction("getcwd", syscall_vfs_getcwd) /\ syscall_vfs_getcwd.code = "GETCWD"
    /\ GoodFunction("stat", syscall_vfs_stat) /\ syscall_vfs_stat.code = "STAT"
    /\ GoodFunction("write", syscall_vfs_write) /\ syscall_vfs_write.code = "WRITE"
    /\ GoodFunction("mkdir", syscall_vfs_mkdir) /\ syscall_vfs_mkdir.code = "MKDIR"
    /\ GoodFunction("rmdir", syscall_vfs_rmdir) /\ syscall_vfs_rmdir.code = "RMDIR"
    /\ GoodFunction("unlink", syscall_vfs_unlink) /\ syscall_vfs_unlink.code = "UNLINK"
    /\ GoodFunction("ftruncate", syscall_vfs_ftruncate) /\ syscall_vfs_ftruncate.code = "FTRUNCATE"
    /\ GoodFunction("read", syscall_vfs_read) /\ syscall_vfs_read.code = "READ"
    /\ GoodFunction("fchmod", syscall_vfs_fchmod) /\ syscall_vfs_fchmod.code = "FCHMOD"
    /\ GoodFunction("fchown", syscall_vfs_fchown) /\ syscall_vfs_fchown.code = "FCHOWN"
    /\ GoodFunction("geteuid", syscall_vfs_geteuid) /\ syscall_vfs_geteuid.code = "GETEUID"
    /\ GoodFunction("getpid", syscall_vfs_getpid) /\ syscall_vfs_getpid.code = "GETPID"
    /\ GoodFunction("getenv", syscall_vfs_getenv) /\ syscall_vfs_getenv.code = "GETENV"
    /\ GoodFunction("lseek", syscall_vfs_lseek) /\ syscall_vfs_lseek.code = "LSEEK"
    /\ GoodFunction("fsync", syscall_vfs_fsync) /\ syscall_vfs_fsync.code = "FSYNC"
    /\ GoodFunction("sleep", syscall_vfs_sleep) /\ syscall_vfs_sleep.code = "SLEEP"
    /\ GoodFunction("pread", syscall_vfs_pread) /\ syscall_vfs_pread.code = "PREAD"
    /\ GoodFunction("pwrite", syscall_vfs_pwrite) /\ syscall_vfs_pwrite.code = "PWRITE"
    /\ GoodFunction("truncate", syscall_vfs_truncate) /\ syscall_vfs_truncate.code = "FTRUNCATE"
    /\ GoodFunction("gettimeofday", syscall_vfs_gettimeofday) /\ syscall_vfs_gettimeofday.code = "GETTIMEOFDAY"
    /\ GoodFunction("fstat", syscall_vfs_fstat) /\ syscall_vfs_fstat.code = "FSTAT"
    /\ GoodFunction("fcntl_void", syscall_vfs_fcntl_void) /\ syscall_vfs_fcntl_void.code = "FCNTL_VOID"
    /\ GoodFunction("fcntl_int", syscall_vfs_fcntl_int) /\ syscall_vfs_fcntl_int.code = "FCNTL_INT"
    /\ GoodFunction("fcntl_flock", syscall_vfs_fcntl_flock) /\ syscall_vfs_fcntl_flock.code = "FCNTL_FLOCK"
    /\ GoodFunction("utimes", syscall_vfs_utimes) /\ syscall_vfs_utimes.code = "UTIMES"
    /\ GoodFunction("time", syscall_vfs_time) /\ syscall_vfs_time.code = "TIME"
    /\ GoodFunction("usleep", syscall_vfs_usleep) /\ syscall_vfs_usleep.code = "USLEEP"
    /\ GoodFunction("filesize", syscall_vfs_filesize) /\ syscall_vfs_filesize.code = "FILESIZE"
<1>1. GoodFunction("open", syscall_vfs_open) /\ syscall_vfs_open.code = "OPEN"
  BY DEF GoodFunction, syscall_vfs_open, Rpc, Plans, KernelCodes
<1>2. GoodFunction("close", syscall_vfs_close) /\ syscall_vfs_close.code = "CLOSE"
  BY DEF GoodFunction, syscall_vfs_close, Rpc, Plans, KernelCodes
<1>3. GoodFunction("access", syscall_vfs_access) /\ syscall_vfs_access.code = "ACCESS"
  BY DEF GoodFunction, syscall_vfs_access, Rpc, Plans, KernelCodes
<1>4. GoodFunction("getcwd", syscall_vfs_getcwd) /\ syscall_vfs_getcwd.code = "GETCWD"
  BY DEF GoodFunction, syscall_vfs_getcwd, Rpc, Plans, KernelCodes
<1>5. GoodFunction("stat", syscall_vfs_stat) /\ syscall_vfs_stat.code = "STAT"
  BY DEF GoodFunction, syscall_vfs_stat, Rpc, Plans, KernelCodes
<1>6. GoodFunction("write", syscall_vfs_write) /\ syscall_vfs_write.code = "WRITE"
  BY DEF GoodFunction, syscall_vfs_write, Rpc, Plans, KernelCodes
<1>7. GoodFunction("mkdir", syscall_vfs_mkdir) /\ syscall_vfs_mkdir.code = "MKDIR"
  BY DEF GoodFunction, syscall_vfs_mkdir, Rpc, Plans, KernelCodes
<1>8. GoodFunction("rmdir", syscall_vfs_rmdir) /\ syscall_vfs_rmdir.code = "RMDIR"
  BY DEF GoodFunction, syscall_vfs_rmdir, Rpc, Plans, KernelCodes
<1>9. GoodFunction("unlink", syscall_vfs_unlink) /\ syscall_vfs_unlink.code = "UNLINK"
  BY DEF GoodFunction, syscall_vfs_unlink, Rpc, Plans, KernelCodes
<1>10. GoodFunction("ftruncate", syscall_vfs_ftruncate) /\ syscall_vfs_ftruncate.code = "FTRUNCATE"
  BY DEF GoodFunction, syscall_vfs_ftruncate, Rpc, Plans, KernelCodes
<1>11. GoodFunction("read", syscall_vfs_read) /\ syscall_vfs_read.code = "READ"
  BY DEF GoodFunction, syscall_vfs_read, Rpc, Plans, KernelCodes
<1>12. GoodFunction("fchmod", syscall_vfs_fchmod) /\ syscall_vfs_fchmod.code = "FCHMOD"
  BY DEF GoodFunction, syscall_vfs_fchmod, Rpc, Plans, KernelCodes
<1>13. GoodFunction("fchown", syscall_vfs_fchown) /\ syscall_vfs_fchown.code = "FCHOWN"
  BY DEF GoodFunction, syscall_vfs_fchown, Rpc, Plans, KernelCodes
<1>14. GoodFunction("geteuid", syscall_vfs_geteuid) /\ syscall_vfs_geteuid.code = "GETEUID"
  BY DEF GoodFunction, syscall_vfs_geteuid, Rpc, Plans, KernelCodes
<1>15. GoodFunction("getpid", syscall_vfs_getpid) /\ syscall_vfs_getpid.code = "GETPID"
  BY DEF GoodFunction, syscall_vfs_getpid, Rpc, Plans, KernelCodes
<1>16. GoodFunction("getenv", syscall_vfs_getenv) /\ syscall_vfs_getenv.code = "GETENV"
  BY DEF GoodFunction, syscall_vfs_getenv, Rpc, Plans, KernelCodes
<1>17. GoodFunction("lseek", syscall_vfs_lseek) /\ syscall_vfs_lseek.code = "LSEEK"
  BY DEF GoodFunction, syscall_vfs_lseek, Rpc, Plans, KernelCodes
<1>18. GoodFunction("fsync", syscall_vfs_fsync) /\ syscall_vfs_fsync.code = "FSYNC"
  BY DEF GoodFunction, syscall_vfs_fsync, Rpc, Plans, KernelCodes
<1>19. GoodFunction("sleep", syscall_vfs_sleep) /\ syscall_vfs_sleep.code = "SLEEP"
  BY DEF GoodFunction, syscall_vfs_sleep, Rpc, Plans, KernelCodes
<1>20. GoodFunction("pread", syscall_vfs_pread) /\ syscall_vfs_pread.code = "PREAD"
  BY DEF GoodFunction, syscall_vfs_pread, Rpc, Plans, KernelCodes
<1>21. GoodFunction("pwrite", syscall_vfs_pwrite) /\ syscall_vfs_pwrite.code = "PWRITE"
  BY DEF GoodFunction, syscall_vfs_pwrite, Rpc, Plans, KernelCodes
<1>22. GoodFunction("truncate", syscall_vfs_truncate) /\ syscall_vfs_truncate.code = "FTRUNCATE"
  BY DEF GoodFunction, syscall_vfs_truncate, Rpc, Plans, KernelCodes
<1>23. GoodFunction("gettimeofday", syscall_vfs_gettimeofday) /\ syscall_vfs_gettimeofday.code = "GETTIMEOFDAY"
  BY DEF GoodFunction, syscall_vfs_gettimeofday, Rpc, Plans, KernelCodes
<1>24. GoodFunction("fstat", syscall_vfs_fstat) /\ syscall_vfs_fstat.code = "FSTAT"
  BY DEF GoodFunction, syscall_vfs_fstat, Rpc, Plans, KernelCodes
<1>25. GoodFunction("fcntl_void", syscall_vfs_fcntl_void) /\ syscall_vfs_fcntl_void.code = "FCNTL_VOID"
  BY DEF GoodFunction, syscall_vfs_fcntl_void, Rpc, Plans, KernelCodes
<1>26. GoodFunction("fcntl_int", syscall_vfs_fcntl_int) /\ syscall_vfs_fcntl_int.code = "FCNTL_INT"
  BY DEF GoodFunction, syscall_vfs_fcntl_int, Rpc, Plans, KernelCodes
<1>27. GoodFunction("fcntl_flock", syscall_vfs_fcntl_flock) /\ syscall_vfs_fcntl_flock.code = "FCNTL_FLOCK"
  BY DEF GoodFunction, syscall_vfs_fcntl_flock, Rpc, Plans, KernelCodes
<1>28. GoodFunction("utimes", syscall_vfs_utimes) /\ syscall_vfs_utimes.code = "UTIMES"
  BY DEF GoodFunction, syscall_vfs_utimes, Rpc, Plans, KernelCodes
<1>29. GoodFunction("time", syscall_vfs_time) /\ syscall_vfs_time.code = "TIME"
  BY DEF GoodFunction, syscall_vfs_time, Rpc, Plans, KernelCodes
<1>30. GoodFunction("usleep", syscall_vfs_usleep) /\ syscall_vfs_usleep.code = "USLEEP"
  BY DEF GoodFunction, syscall_vfs_usleep, Rpc, Plans, KernelCodes
<1>31. GoodFunction("filesize", syscall_vfs_filesize) /\ syscall_vfs_filesize.code = "FILESIZE"
  BY DEF GoodFunction, syscall_vfs_filesize, Rpc, Plans, KernelCodes
<1> QED BY <1>1, <1>2, <1>3, <1>4, <1>5, <1>6, <1>7, <1>8, <1>9, <1>10, <1>11, <1>12, <1>13,
           <1>14, <1>15, <1>16, <1>17, <1>18, <1>19, <1>20, <1>21, <1>22, <1>23, <1>24, <1>25,
           <1>26, <1>27, <1>28, <1>29, <1>30, <1>31

\* Every handler accepts what its system call sends (but for the one that truncate reaches),
\* makes the Linux call of the same name and stores its result.
LEMMA HandlersAreGood ==
    /\ GoodHandler("open", vfs_open, syscall_vfs_open.params)
    /\ GoodHandler("close", vfs_close, syscall_vfs_close.params)
    /\ GoodHandler("access", vfs_access, syscall_vfs_access.params)
    /\ GoodHandler("getcwd", vfs_getcwd, syscall_vfs_getcwd.params)
    /\ GoodHandler("stat", vfs_stat, syscall_vfs_stat.params)
    /\ GoodHandler("write", vfs_write, syscall_vfs_write.params)
    /\ GoodHandler("mkdir", vfs_mkdir, syscall_vfs_mkdir.params)
    /\ GoodHandler("rmdir", vfs_rmdir, syscall_vfs_rmdir.params)
    /\ GoodHandler("unlink", vfs_unlink, syscall_vfs_unlink.params)
    /\ GoodHandler("ftruncate", vfs_ftruncate, syscall_vfs_ftruncate.params)
    /\ GoodHandler("read", vfs_read, syscall_vfs_read.params)
    /\ GoodHandler("fchmod", vfs_fchmod, syscall_vfs_fchmod.params)
    /\ GoodHandler("fchown", vfs_fchown, syscall_vfs_fchown.params)
    /\ GoodHandler("geteuid", vfs_geteuid, syscall_vfs_geteuid.params)
    /\ GoodHandler("getpid", vfs_getpid, syscall_vfs_getpid.params)
    /\ GoodHandler("getenv", vfs_getenv, syscall_vfs_getenv.params)
    /\ GoodHandler("lseek", vfs_lseek, syscall_vfs_lseek.params)
    /\ GoodHandler("fsync", vfs_fsync, syscall_vfs_fsync.params)
    /\ GoodHandler("sleep", vfs_sleep, syscall_vfs_sleep.params)
    /\ GoodHandler("pread", vfs_pread, syscall_vfs_pread.params)
    /\ GoodHandler("pwrite", vfs_pwrite, syscall_vfs_pwrite.params)
    /\ GoodHandler("truncate", vfs_ftruncate, syscall_vfs_truncate.params)
    /\ GoodHandler("gettimeofday", vfs_getdayoftime, syscall_vfs_gettimeofday.params)
    /\ GoodHandler("fstat", vfs_fstat, syscall_vfs_fstat.params)
    /\ GoodHandler("fcntl_void", vfs_fcntl_void, syscall_vfs_fcntl_void.params)
    /\ GoodHandler("fcntl_int", vfs_fcntl_int, syscall_vfs_fcntl_int.params)
    /\ GoodHandler("fcntl_flock", vfs_fcntl_flock, syscall_vfs_fcntl_flock.params)
    /\ GoodHandler("utimes", vfs_utimes, syscall_vfs_utimes.params)
    /\ GoodHandler("time", vfs_time, syscall_vfs_time.params)
    /\ GoodHandler("usleep", vfs_usleep, syscall_vfs_usleep.params)
    /\ GoodHandler("filesize", vfs_filesize, syscall_vfs_filesize.params)
<1>1. GoodHandler("open", vfs_open, syscall_vfs_open.params)
  BY DEF GoodHandler, vfs_open, Handler, syscall_vfs_open, Rpc, Accepts, get_value, get_param,
         tee_supp_param_is_value, tee_supp_param_is_memref, V, In, Out
<1>2. GoodHandler("close", vfs_close, syscall_vfs_close.params)
  BY DEF GoodHandler, vfs_close, Handler, syscall_vfs_close, Rpc, Accepts, get_value, get_param,
         tee_supp_param_is_value, tee_supp_param_is_memref, V, In, Out
<1>3. GoodHandler("access", vfs_access, syscall_vfs_access.params)
  BY DEF GoodHandler, vfs_access, Handler, syscall_vfs_access, Rpc, Accepts, get_value, get_param,
         tee_supp_param_is_value, tee_supp_param_is_memref, V, In, Out
<1>4. GoodHandler("getcwd", vfs_getcwd, syscall_vfs_getcwd.params)
  BY DEF GoodHandler, vfs_getcwd, Handler, syscall_vfs_getcwd, Rpc, Accepts, get_value, get_param,
         tee_supp_param_is_value, tee_supp_param_is_memref, V, In, Out
<1>5. GoodHandler("stat", vfs_stat, syscall_vfs_stat.params)
  BY DEF GoodHandler, vfs_stat, Handler, syscall_vfs_stat, Rpc, Accepts, get_value, get_param,
         tee_supp_param_is_value, tee_supp_param_is_memref, V, In, Out
<1>6. GoodHandler("write", vfs_write, syscall_vfs_write.params)
  BY DEF GoodHandler, vfs_write, Handler, syscall_vfs_write, Rpc, Accepts, get_value, get_param,
         tee_supp_param_is_value, tee_supp_param_is_memref, V, In, Out
<1>7. GoodHandler("mkdir", vfs_mkdir, syscall_vfs_mkdir.params)
  BY DEF GoodHandler, vfs_mkdir, Handler, syscall_vfs_mkdir, Rpc, Accepts, get_value, get_param,
         tee_supp_param_is_value, tee_supp_param_is_memref, V, In, Out
<1>8. GoodHandler("rmdir", vfs_rmdir, syscall_vfs_rmdir.params)
  BY DEF GoodHandler, vfs_rmdir, Handler, syscall_vfs_rmdir, Rpc, Accepts, get_value, get_param,
         tee_supp_param_is_value, tee_supp_param_is_memref, V, In, Out
<1>9. GoodHandler("unlink", vfs_unlink, syscall_vfs_unlink.params)
  BY DEF GoodHandler, vfs_unlink, Handler, syscall_vfs_unlink, Rpc, Accepts, get_value, get_param,
         tee_supp_param_is_value, tee_supp_param_is_memref, V, In, Out
<1>10. GoodHandler("ftruncate", vfs_ftruncate, syscall_vfs_ftruncate.params)
  BY DEF GoodHandler, vfs_ftruncate, Handler, syscall_vfs_ftruncate, Rpc, Accepts, get_value, get_param,
         tee_supp_param_is_value, tee_supp_param_is_memref, V, In, Out
<1>11. GoodHandler("read", vfs_read, syscall_vfs_read.params)
  BY DEF GoodHandler, vfs_read, Handler, syscall_vfs_read, Rpc, Accepts, get_value, get_param,
         tee_supp_param_is_value, tee_supp_param_is_memref, V, In, Out
<1>12. GoodHandler("fchmod", vfs_fchmod, syscall_vfs_fchmod.params)
  BY DEF GoodHandler, vfs_fchmod, Handler, syscall_vfs_fchmod, Rpc, Accepts, get_value, get_param,
         tee_supp_param_is_value, tee_supp_param_is_memref, V, In, Out
<1>13. GoodHandler("fchown", vfs_fchown, syscall_vfs_fchown.params)
  BY DEF GoodHandler, vfs_fchown, Handler, syscall_vfs_fchown, Rpc, Accepts, get_value, get_param,
         tee_supp_param_is_value, tee_supp_param_is_memref, V, In, Out
<1>14. GoodHandler("geteuid", vfs_geteuid, syscall_vfs_geteuid.params)
  BY DEF GoodHandler, vfs_geteuid, Handler, syscall_vfs_geteuid, Rpc, Accepts, get_value, get_param,
         tee_supp_param_is_value, tee_supp_param_is_memref, V, In, Out
<1>15. GoodHandler("getpid", vfs_getpid, syscall_vfs_getpid.params)
  BY DEF GoodHandler, vfs_getpid, Handler, syscall_vfs_getpid, Rpc, Accepts, get_value, get_param,
         tee_supp_param_is_value, tee_supp_param_is_memref, V, In, Out
<1>16. GoodHandler("getenv", vfs_getenv, syscall_vfs_getenv.params)
  BY DEF GoodHandler, vfs_getenv, Handler, syscall_vfs_getenv, Rpc, Accepts, get_value, get_param,
         tee_supp_param_is_value, tee_supp_param_is_memref, V, In, Out
<1>17. GoodHandler("lseek", vfs_lseek, syscall_vfs_lseek.params)
  BY DEF GoodHandler, vfs_lseek, Handler, syscall_vfs_lseek, Rpc, Accepts, get_value, get_param,
         tee_supp_param_is_value, tee_supp_param_is_memref, V, In, Out
<1>18. GoodHandler("fsync", vfs_fsync, syscall_vfs_fsync.params)
  BY DEF GoodHandler, vfs_fsync, Handler, syscall_vfs_fsync, Rpc, Accepts, get_value, get_param,
         tee_supp_param_is_value, tee_supp_param_is_memref, V, In, Out
<1>19. GoodHandler("sleep", vfs_sleep, syscall_vfs_sleep.params)
  BY DEF GoodHandler, vfs_sleep, Handler, syscall_vfs_sleep, Rpc, Accepts, get_value, get_param,
         tee_supp_param_is_value, tee_supp_param_is_memref, V, In, Out
<1>20. GoodHandler("pread", vfs_pread, syscall_vfs_pread.params)
  BY DEF GoodHandler, vfs_pread, Handler, syscall_vfs_pread, Rpc, Accepts, get_value, get_param,
         tee_supp_param_is_value, tee_supp_param_is_memref, V, In, Out
<1>21. GoodHandler("pwrite", vfs_pwrite, syscall_vfs_pwrite.params)
  BY DEF GoodHandler, vfs_pwrite, Handler, syscall_vfs_pwrite, Rpc, Accepts, get_value, get_param,
         tee_supp_param_is_value, tee_supp_param_is_memref, V, In, Out
<1>22. GoodHandler("truncate", vfs_ftruncate, syscall_vfs_truncate.params)
  BY DEF GoodHandler, vfs_ftruncate, Handler, syscall_vfs_truncate, Rpc, Accepts, get_value, get_param,
         tee_supp_param_is_value, tee_supp_param_is_memref, V, In, Out
<1>23. GoodHandler("gettimeofday", vfs_getdayoftime, syscall_vfs_gettimeofday.params)
  BY DEF GoodHandler, vfs_getdayoftime, Handler, syscall_vfs_gettimeofday, Rpc, Accepts, get_value, get_param,
         tee_supp_param_is_value, tee_supp_param_is_memref, V, In, Out
<1>24. GoodHandler("fstat", vfs_fstat, syscall_vfs_fstat.params)
  BY DEF GoodHandler, vfs_fstat, Handler, syscall_vfs_fstat, Rpc, Accepts, get_value, get_param,
         tee_supp_param_is_value, tee_supp_param_is_memref, V, In, Out
<1>25. GoodHandler("fcntl_void", vfs_fcntl_void, syscall_vfs_fcntl_void.params)
  BY DEF GoodHandler, vfs_fcntl_void, Handler, syscall_vfs_fcntl_void, Rpc, Accepts, get_value, get_param,
         tee_supp_param_is_value, tee_supp_param_is_memref, V, In, Out
<1>26. GoodHandler("fcntl_int", vfs_fcntl_int, syscall_vfs_fcntl_int.params)
  BY DEF GoodHandler, vfs_fcntl_int, Handler, syscall_vfs_fcntl_int, Rpc, Accepts, get_value, get_param,
         tee_supp_param_is_value, tee_supp_param_is_memref, V, In, Out
<1>27. GoodHandler("fcntl_flock", vfs_fcntl_flock, syscall_vfs_fcntl_flock.params)
  BY DEF GoodHandler, vfs_fcntl_flock, Handler, syscall_vfs_fcntl_flock, Rpc, Accepts, get_value, get_param,
         tee_supp_param_is_value, tee_supp_param_is_memref, V, In, Out
<1>28. GoodHandler("utimes", vfs_utimes, syscall_vfs_utimes.params)
  BY DEF GoodHandler, vfs_utimes, Handler, syscall_vfs_utimes, Rpc, Accepts, get_value, get_param,
         tee_supp_param_is_value, tee_supp_param_is_memref, V, In, Out
<1>29. GoodHandler("time", vfs_time, syscall_vfs_time.params)
  BY DEF GoodHandler, vfs_time, Handler, syscall_vfs_time, Rpc, Accepts, get_value, get_param,
         tee_supp_param_is_value, tee_supp_param_is_memref, V, In, Out
<1>30. GoodHandler("usleep", vfs_usleep, syscall_vfs_usleep.params)
  BY DEF GoodHandler, vfs_usleep, Handler, syscall_vfs_usleep, Rpc, Accepts, get_value, get_param,
         tee_supp_param_is_value, tee_supp_param_is_memref, V, In, Out
<1>31. GoodHandler("filesize", vfs_filesize, syscall_vfs_filesize.params)
  BY DEF GoodHandler, vfs_filesize, Handler, syscall_vfs_filesize, Rpc, Accepts, get_value, get_param,
         tee_supp_param_is_value, tee_supp_param_is_memref, V, In, Out
<1> QED BY <1>1, <1>2, <1>3, <1>4, <1>5, <1>6, <1>7, <1>8, <1>9, <1>10, <1>11, <1>12, <1>13,
           <1>14, <1>15, <1>16, <1>17, <1>18, <1>19, <1>20, <1>21, <1>22, <1>23, <1>24, <1>25,
           <1>26, <1>27, <1>28, <1>29, <1>30, <1>31

\* The same for a call whose name is not known.
LEMMA EveryFunction == \A c \in Calls : c \in DOMAIN Functions /\ GoodFunction(c, Functions[c])
<1> TAKE c \in Calls
<1>1. c \in DOMAIN Functions
  BY FunctionsAre
<1>2. CASE c = "open"
  BY <1>2, FunctionsAre, FunctionsAreGood, Zenon
<1>3. CASE c = "close"
  BY <1>3, FunctionsAre, FunctionsAreGood, Zenon
<1>4. CASE c = "access"
  BY <1>4, FunctionsAre, FunctionsAreGood, Zenon
<1>5. CASE c = "getcwd"
  BY <1>5, FunctionsAre, FunctionsAreGood, Zenon
<1>6. CASE c = "stat"
  BY <1>6, FunctionsAre, FunctionsAreGood, Zenon
<1>7. CASE c = "write"
  BY <1>7, FunctionsAre, FunctionsAreGood, Zenon
<1>8. CASE c = "mkdir"
  BY <1>8, FunctionsAre, FunctionsAreGood, Zenon
<1>9. CASE c = "rmdir"
  BY <1>9, FunctionsAre, FunctionsAreGood, Zenon
<1>10. CASE c = "unlink"
  BY <1>10, FunctionsAre, FunctionsAreGood, Zenon
<1>11. CASE c = "ftruncate"
  BY <1>11, FunctionsAre, FunctionsAreGood, Zenon
<1>12. CASE c = "read"
  BY <1>12, FunctionsAre, FunctionsAreGood, Zenon
<1>13. CASE c = "fchmod"
  BY <1>13, FunctionsAre, FunctionsAreGood, Zenon
<1>14. CASE c = "fchown"
  BY <1>14, FunctionsAre, FunctionsAreGood, Zenon
<1>15. CASE c = "geteuid"
  BY <1>15, FunctionsAre, FunctionsAreGood, Zenon
<1>16. CASE c = "getpid"
  BY <1>16, FunctionsAre, FunctionsAreGood, Zenon
<1>17. CASE c = "getenv"
  BY <1>17, FunctionsAre, FunctionsAreGood, Zenon
<1>18. CASE c = "lseek"
  BY <1>18, FunctionsAre, FunctionsAreGood, Zenon
<1>19. CASE c = "fsync"
  BY <1>19, FunctionsAre, FunctionsAreGood, Zenon
<1>20. CASE c = "sleep"
  BY <1>20, FunctionsAre, FunctionsAreGood, Zenon
<1>21. CASE c = "pread"
  BY <1>21, FunctionsAre, FunctionsAreGood, Zenon
<1>22. CASE c = "pwrite"
  BY <1>22, FunctionsAre, FunctionsAreGood, Zenon
<1>23. CASE c = "truncate"
  BY <1>23, FunctionsAre, FunctionsAreGood, Zenon
<1>24. CASE c = "gettimeofday"
  BY <1>24, FunctionsAre, FunctionsAreGood, Zenon
<1>25. CASE c = "fstat"
  BY <1>25, FunctionsAre, FunctionsAreGood, Zenon
<1>26. CASE c = "fcntl_void"
  BY <1>26, FunctionsAre, FunctionsAreGood, Zenon
<1>27. CASE c = "fcntl_int"
  BY <1>27, FunctionsAre, FunctionsAreGood, Zenon
<1>28. CASE c = "fcntl_flock"
  BY <1>28, FunctionsAre, FunctionsAreGood, Zenon
<1>29. CASE c = "utimes"
  BY <1>29, FunctionsAre, FunctionsAreGood, Zenon
<1>30. CASE c = "time"
  BY <1>30, FunctionsAre, FunctionsAreGood, Zenon
<1>31. CASE c = "usleep"
  BY <1>31, FunctionsAre, FunctionsAreGood, Zenon
<1>32. CASE c = "filesize"
  BY <1>32, FunctionsAre, FunctionsAreGood, Zenon
<1> QED BY <1>1, <1>2, <1>3, <1>4, <1>5, <1>6, <1>7, <1>8, <1>9, <1>10, <1>11, <1>12, <1>13,
           <1>14, <1>15, <1>16, <1>17, <1>18, <1>19, <1>20, <1>21, <1>22, <1>23, <1>24, <1>25,
           <1>26, <1>27, <1>28, <1>29, <1>30, <1>31, <1>32, CallNames

\* A system call reaches the handler of the code it sends.
LEMMA OwnHandler == \A c \in Calls : HandlerOf[c] = tee_supp_vfs_process[Functions[c].code]
<1> TAKE c \in Calls
<1>1. PICK i \in 1 .. 31 : KernelCodes[i] = Functions[c].code
  BY EveryFunction DEF GoodFunction
<1>2. Operation(OPTEE_VFS(Functions[c].code)) = Functions[c].code
  BY <1>1, OwnOperation
<1>3. FunctionOf[c] = c
  BY OwnFunction
<1>4. HandlerOf[c] = tee_supp_vfs_process[Operation(OPTEE_VFS(Functions[FunctionOf[c]].code))]
  BY DEF HandlerOf
<1> QED BY <1>2, <1>3, <1>4, Zenon

\* What every call finds on the other side.
LEMMA EveryHandler == \A c \in Calls : GoodHandler(c, HandlerOf[c], Functions[c].params)
<1> TAKE c \in Calls
<1>1. HandlerOf[c] = tee_supp_vfs_process[Functions[c].code]
  BY OwnHandler
<1>2. CASE c = "open"
  BY <1>1, <1>2, FunctionsAre, FunctionsAreGood, HandlersAre, HandlersAreGood, Zenon
<1>3. CASE c = "close"
  BY <1>1, <1>3, FunctionsAre, FunctionsAreGood, HandlersAre, HandlersAreGood, Zenon
<1>4. CASE c = "access"
  BY <1>1, <1>4, FunctionsAre, FunctionsAreGood, HandlersAre, HandlersAreGood, Zenon
<1>5. CASE c = "getcwd"
  BY <1>1, <1>5, FunctionsAre, FunctionsAreGood, HandlersAre, HandlersAreGood, Zenon
<1>6. CASE c = "stat"
  BY <1>1, <1>6, FunctionsAre, FunctionsAreGood, HandlersAre, HandlersAreGood, Zenon
<1>7. CASE c = "write"
  BY <1>1, <1>7, FunctionsAre, FunctionsAreGood, HandlersAre, HandlersAreGood, Zenon
<1>8. CASE c = "mkdir"
  BY <1>1, <1>8, FunctionsAre, FunctionsAreGood, HandlersAre, HandlersAreGood, Zenon
<1>9. CASE c = "rmdir"
  BY <1>1, <1>9, FunctionsAre, FunctionsAreGood, HandlersAre, HandlersAreGood, Zenon
<1>10. CASE c = "unlink"
  BY <1>1, <1>10, FunctionsAre, FunctionsAreGood, HandlersAre, HandlersAreGood, Zenon
<1>11. CASE c = "ftruncate"
  BY <1>1, <1>11, FunctionsAre, FunctionsAreGood, HandlersAre, HandlersAreGood, Zenon
<1>12. CASE c = "read"
  BY <1>1, <1>12, FunctionsAre, FunctionsAreGood, HandlersAre, HandlersAreGood, Zenon
<1>13. CASE c = "fchmod"
  BY <1>1, <1>13, FunctionsAre, FunctionsAreGood, HandlersAre, HandlersAreGood, Zenon
<1>14. CASE c = "fchown"
  BY <1>1, <1>14, FunctionsAre, FunctionsAreGood, HandlersAre, HandlersAreGood, Zenon
<1>15. CASE c = "geteuid"
  BY <1>1, <1>15, FunctionsAre, FunctionsAreGood, HandlersAre, HandlersAreGood, Zenon
<1>16. CASE c = "getpid"
  BY <1>1, <1>16, FunctionsAre, FunctionsAreGood, HandlersAre, HandlersAreGood, Zenon
<1>17. CASE c = "getenv"
  BY <1>1, <1>17, FunctionsAre, FunctionsAreGood, HandlersAre, HandlersAreGood, Zenon
<1>18. CASE c = "lseek"
  BY <1>1, <1>18, FunctionsAre, FunctionsAreGood, HandlersAre, HandlersAreGood, Zenon
<1>19. CASE c = "fsync"
  BY <1>1, <1>19, FunctionsAre, FunctionsAreGood, HandlersAre, HandlersAreGood, Zenon
<1>20. CASE c = "sleep"
  BY <1>1, <1>20, FunctionsAre, FunctionsAreGood, HandlersAre, HandlersAreGood, Zenon
<1>21. CASE c = "pread"
  BY <1>1, <1>21, FunctionsAre, FunctionsAreGood, HandlersAre, HandlersAreGood, Zenon
<1>22. CASE c = "pwrite"
  BY <1>1, <1>22, FunctionsAre, FunctionsAreGood, HandlersAre, HandlersAreGood, Zenon
<1>23. CASE c = "truncate"
  BY <1>1, <1>23, FunctionsAre, FunctionsAreGood, HandlersAre, HandlersAreGood, Zenon
<1>24. CASE c = "gettimeofday"
  BY <1>1, <1>24, FunctionsAre, FunctionsAreGood, HandlersAre, HandlersAreGood, Zenon
<1>25. CASE c = "fstat"
  BY <1>1, <1>25, FunctionsAre, FunctionsAreGood, HandlersAre, HandlersAreGood, Zenon
<1>26. CASE c = "fcntl_void"
  BY <1>1, <1>26, FunctionsAre, FunctionsAreGood, HandlersAre, HandlersAreGood, Zenon
<1>27. CASE c = "fcntl_int"
  BY <1>1, <1>27, FunctionsAre, FunctionsAreGood, HandlersAre, HandlersAreGood, Zenon
<1>28. CASE c = "fcntl_flock"
  BY <1>1, <1>28, FunctionsAre, FunctionsAreGood, HandlersAre, HandlersAreGood, Zenon
<1>29. CASE c = "utimes"
  BY <1>1, <1>29, FunctionsAre, FunctionsAreGood, HandlersAre, HandlersAreGood, Zenon
<1>30. CASE c = "time"
  BY <1>1, <1>30, FunctionsAre, FunctionsAreGood, HandlersAre, HandlersAreGood, Zenon
<1>31. CASE c = "usleep"
  BY <1>1, <1>31, FunctionsAre, FunctionsAreGood, HandlersAre, HandlersAreGood, Zenon
<1>32. CASE c = "filesize"
  BY <1>1, <1>32, FunctionsAre, FunctionsAreGood, HandlersAre, HandlersAreGood, Zenon
<1> QED BY <1>2, <1>3, <1>4, <1>5, <1>6, <1>7, <1>8, <1>9, <1>10, <1>11, <1>12, <1>13, <1>14,
           <1>15, <1>16, <1>17, <1>18, <1>19, <1>20, <1>21, <1>22, <1>23, <1>24, <1>25, <1>26,
           <1>27, <1>28, <1>29, <1>30, <1>31, <1>32, CallNames
-----------------------------------------------------------------------------
(***************************************************************************)
(* The inductive invariant.                                                *)
(***************************************************************************)

\* The allocations among the first n steps of a plan.
Allocs(steps, n) == Cardinality({i \in 1 .. n : steps[i] = "alloc"})

\* Between two calls a session holds nothing.  During a call it holds payloads whose
\* allocation was tried; Linux has done nothing it knows of before the last remote
\* procedure call; and once the plan is done, b holds what Linux did.
SessionInv(p, c, n, h, v, d) ==
    \/ p = "idle" /\ c = NoCall /\ n = 0 /\ h = {} /\ v = "0" /\ d = "nothing"
    \/ /\ p \in {"run", "exit"} /\ c \in Calls
       /\ n \in 0 .. Len(Functions[c].plan.steps)
       /\ h \subseteq 1 .. Allocs(Functions[c].plan.steps, n)
       /\ n < Len(Functions[c].plan.steps) \/ p = "exit" => d \in {"nothing", "unknown"}
       /\ p = "run" /\ n = Len(Functions[c].plan.steps) /\ c \notin {"truncate", "getcwd", "usleep"}
          => d = "unknown" \/ d = Result(c, v)

\* The cardinalities of the sets of allocations.
LEMMA FewElements ==
    /\ Cardinality({}) = 0 /\ Cardinality({1}) = 1
    /\ Cardinality({1, 2}) = 2 /\ Cardinality({1, 3}) = 2
    /\ \A k \in 0 .. 2 : Cardinality(1 .. k) = k
<1>1. Cardinality({}) = 0
  BY FS_EmptySet
<1>2. IsFiniteSet({1}) /\ Cardinality({1}) = 1
  BY FS_Singleton
<1>3. \A x : x # 1 => Cardinality({1} \cup {x}) = 2
  <2> TAKE x
  <2>1. Cardinality({1} \cup {x}) = IF x \in {1} THEN Cardinality({1}) ELSE Cardinality({1}) + 1
    BY <1>2, FS_AddElement, Zenon
  <2> QED BY <1>2, <2>1
<1>4. {1, 2} = {1} \cup {2} /\ {1, 3} = {1} \cup {3} /\ 2 # 1 /\ 3 # 1
  OBVIOUS
<1>5. \A k \in 0 .. 2 : Cardinality(1 .. k) = k
  <2> TAKE k \in 0 .. 2
  <2>1. 1 \in Int /\ k \in Int
    OBVIOUS
  <2>2. Cardinality(1 .. k) = IF 1 > k THEN 0 ELSE k - 1 + 1
    BY <2>1, FS_Interval, Zenon
  <2> QED BY <2>2
<1> QED BY <1>1, <1>2, <1>3, <1>4, <1>5

\* After n steps of plan p, k allocations were tried.
At(p, n, k) == Allocs(p.steps, n) = k

\* How many allocations each plan has tried after each of its steps.
LEMMA AllocsAre ==
    /\ At(NoPayload, 0, 0) /\ At(NoPayload, 1, 0)
    /\ At(OnePayload, 0, 0) /\ At(OnePayload, 1, 1) /\ At(OnePayload, 2, 1)
    /\ At(TwoPayloads, 0, 0) /\ At(TwoPayloads, 1, 1) /\ At(TwoPayloads, 2, 2) /\ At(TwoPayloads, 3, 2)
    /\ At(AskTwice, 0, 0) /\ At(AskTwice, 1, 1) /\ At(AskTwice, 2, 1) /\ At(AskTwice, 3, 2) /\ At(AskTwice, 4, 2)
<1> DEFINE S(p, n) == {i \in 1 .. n : p.steps[i] = "alloc"}
<1>1. S(NoPayload, 0) = {} /\ S(NoPayload, 1) = {}
  BY DEF NoPayload
<1>2. S(OnePayload, 0) = {} /\ S(OnePayload, 1) = {1} /\ S(OnePayload, 2) = {1}
  BY DEF OnePayload
<1>3. S(TwoPayloads, 0) = {} /\ S(TwoPayloads, 1) = {1}
  BY DEF TwoPayloads
<1>4. S(TwoPayloads, 2) = {1, 2} /\ S(TwoPayloads, 3) = {1, 2}
  BY DEF TwoPayloads
<1>5. S(AskTwice, 0) = {} /\ S(AskTwice, 1) = {1} /\ S(AskTwice, 2) = {1}
  BY DEF AskTwice
<1>6. S(AskTwice, 3) = {1, 3} /\ S(AskTwice, 4) = {1, 3}
  BY DEF AskTwice
<1>7. ASSUME NEW p, NEW n, NEW k, Cardinality(S(p, n)) = k
      PROVE  At(p, n, k)
  BY <1>7 DEF At, Allocs
<1> HIDE DEF S
<1> QED BY <1>1, <1>2, <1>3, <1>4, <1>5, <1>6, <1>7, FewElements, Zenon

\* What holds after n steps of plan p, when k allocations were tried: how the next step
\* changes k, and that the exit label of the last allocation frees what was tried.
PlanAt(p, n, k) ==
    /\ k \in 0 .. 2 /\ Allocs(p.steps, n) = k
    /\ Len(p.steps) \in 1 .. 4
    /\ n < Len(p.steps) =>
          /\ p.steps[n + 1] = "alloc" => Allocs(p.steps, n + 1) = k + 1 /\ k + 1 \in 0 .. 2 /\ n + 1 < Len(p.steps)
          /\ p.steps[n + 1] = "rpc" => Allocs(p.steps, n + 1) = k
    /\ k # 0 => p.frees[k] = 1 .. k

\* Each plan, after each of its steps.
LEMMA PlansAre == \A p \in Plans : \A n \in 0 .. Len(p.steps) : \E k : PlanAt(p, n, k)
<1>1. \A n \in 0 .. Len(NoPayload.steps) : \E k : PlanAt(NoPayload, n, k)
  <2>1. PlanAt(NoPayload, 0, 0)
    BY AllocsAre DEF PlanAt, At, NoPayload
  <2>2. PlanAt(NoPayload, 1, 0)
    BY AllocsAre DEF PlanAt, At, NoPayload
  <2>3. 0 .. Len(NoPayload.steps) = {0, 1}
    BY DEF NoPayload
  <2> QED BY <2>1, <2>2, <2>3
<1>2. \A n \in 0 .. Len(OnePayload.steps) : \E k : PlanAt(OnePayload, n, k)
  <2>1. PlanAt(OnePayload, 0, 0)
    BY AllocsAre DEF PlanAt, At, OnePayload
  <2>2. PlanAt(OnePayload, 1, 1)
    BY AllocsAre DEF PlanAt, At, OnePayload
  <2>3. PlanAt(OnePayload, 2, 1)
    BY AllocsAre DEF PlanAt, At, OnePayload
  <2>4. 0 .. Len(OnePayload.steps) = {0, 1, 2}
    BY DEF OnePayload
  <2> QED BY <2>1, <2>2, <2>3, <2>4
<1>3. \A n \in 0 .. Len(TwoPayloads.steps) : \E k : PlanAt(TwoPayloads, n, k)
  <2>1. PlanAt(TwoPayloads, 0, 0)
    BY AllocsAre DEF PlanAt, At, TwoPayloads
  <2>2. PlanAt(TwoPayloads, 1, 1)
    BY AllocsAre DEF PlanAt, At, TwoPayloads
  <2>3. PlanAt(TwoPayloads, 2, 2)
    BY AllocsAre DEF PlanAt, At, TwoPayloads
  <2>4. PlanAt(TwoPayloads, 3, 2)
    BY AllocsAre DEF PlanAt, At, TwoPayloads
  <2>5. 0 .. Len(TwoPayloads.steps) = {0, 1, 2, 3}
    BY DEF TwoPayloads
  <2> QED BY <2>1, <2>2, <2>3, <2>4, <2>5
<1>4. \A n \in 0 .. Len(AskTwice.steps) : \E k : PlanAt(AskTwice, n, k)
  <2>1. PlanAt(AskTwice, 0, 0)
    BY AllocsAre DEF PlanAt, At, AskTwice
  <2>2. PlanAt(AskTwice, 1, 1)
    BY AllocsAre DEF PlanAt, At, AskTwice
  <2>3. PlanAt(AskTwice, 2, 1)
    BY AllocsAre DEF PlanAt, At, AskTwice
  <2>4. PlanAt(AskTwice, 3, 2)
    BY AllocsAre DEF PlanAt, At, AskTwice
  <2>5. PlanAt(AskTwice, 4, 2)
    BY AllocsAre DEF PlanAt, At, AskTwice
  <2>6. 0 .. Len(AskTwice.steps) = {0, 1, 2, 3, 4}
    BY DEF AskTwice
  <2> QED BY <2>1, <2>2, <2>3, <2>4, <2>5, <2>6
<1> QED BY <1>1, <1>2, <1>3, <1>4 DEF Plans

-----------------------------------------------------------------------------
(***************************************************************************)
(* The arguments of the stubs.                                             *)
(***************************************************************************)

\* Every argument of a vfs call arrives.
LEMMA VfsArguments == \A c \in Calls : Arrives(c, c)
<1> TAKE c \in Calls
<1>1. VfsStubs[c] \in 0 .. 4
  BY DEF VfsStubs, Calls
<1>2. VfsPrototypes = KernelPrototypes
  BY DEF VfsPrototypes, KernelPrototypes
<1>3. KernelPrototypes[c] \in 0 .. 4
  <2>1. PICK f : f = VfsStubs
    OBVIOUS
  <2>2. [f EXCEPT !["pread"] = 4, !["pwrite"] = 4][c] \in {f[c], 4}
    BY <2>1 DEF Calls
  <2>3. KernelPrototypes = [f EXCEPT !["pread"] = 4, !["pwrite"] = 4]
    BY <2>1, Zenon DEF KernelPrototypes
  <2>4. KernelPrototypes[c] \in {f[c], 4}
    BY <2>2, <2>3, Zenon
  <2>5. f[c] \in 0 .. 4
    BY <1>1, <2>1, Zenon
  <2> QED BY <2>4, <2>5
<1>4. ASSUME NEW x \in 0 .. 4, NEW y PROVE x <= x /\ Carried(x, y)
  BY DEF Carried
<1> QED BY <1>2, <1>3, <1>4 DEF Arrives

\* A stub of another call announces as many arguments as its callers give, or more.
LEMMA CoreArguments == \A c \in DOMAIN CoreStubs : Carried(CorePrototypes[c], CoreStubs[c])
<1> TAKE c \in DOMAIN CoreStubs
<1>1. CoreStubs[c] \in Int
  BY DEF CoreStubs
<1>2. c = "panic" => 1 <= CoreStubs[c]
  BY DEF CoreStubs
<1>3. c \in DOMAIN StoragePrototypes => StoragePrototypes[c] <= CoreStubs[c]
  BY DEF CoreStubs, StoragePrototypes
<1> QED BY <1>1, <1>2, <1>3 DEF Carried, CorePrototypes

-----------------------------------------------------------------------------
(***************************************************************************)
(* What a session's state says.                                            *)
(***************************************************************************)

\* What came of a system call, and that it is Linux's result (the parts of CallTypes and of
\* Relayed about one session).
Outcomes == [call : Calls \cup {NoCall}, ret : {"void", "0", "ok", "error"},
             did : {"nothing", "ok", "error", "unknown"}]
Tells(r) ==
    /\ r.call \notin {NoCall, "truncate", "getcwd", "usleep"}
    /\ r.did # "unknown"
    => r.ret = r.did \/ (r.ret = "error" /\ r.did = "nothing")

\* No call is called none.
LEMMA NoCallIsNone == NoCall \notin Calls
BY CallNames DEF NoCall

\* A result without a call.
LEMMA PlainOutcome ==
    ASSUME NEW r \in {"void", "error"}
    PROVE  LET o == [NoResult EXCEPT !.ret = r] IN o \in Outcomes /\ Tells(o)
<1>1. NoResult = [call |-> NoCall, ret |-> "void", did |-> "nothing"]
  BY DEF NoResult
<1>2. [NoResult EXCEPT !.ret = r] = [call |-> NoCall, ret |-> r, did |-> "nothing"]
  BY <1>1
<1> QED BY <1>2 DEF Outcomes, Tells

\* The result that a call starts with.
LEMMA NoOutcome == NoResult \in Outcomes /\ Tells(NoResult)
BY DEF NoResult, Outcomes, Tells

\* A change of last in one session.
LEMMA LastKept ==
    ASSUME CallTypes, Relayed, NEW s \in Sessions, NEW r \in Outcomes, Tells(r),
           last' = [last EXCEPT ![s] = r]
    PROVE  last' \in [Sessions -> Outcomes] /\ Relayed'
<1>1. last \in [Sessions -> Outcomes]
  BY DEF CallTypes, Outcomes
<1>2. last' \in [Sessions -> Outcomes]
  BY <1>1
<1>3. \A t \in Sessions : Tells(last[t])
  BY Zenon DEF Relayed, Tells
<1>4. \A t \in Sessions : Tells(last'[t])
  BY <1>1, <1>3
<1>5. Relayed'
  BY <1>4 DEF Relayed, Tells
<1> QED BY <1>2, <1>5

\* The plan of the call under way, and how far it is: k allocations were tried, and they
\* are what the way out frees.
LEMMA InCall ==
    ASSUME NEW s \in Sessions, call[s] \in Calls,
           step[s] \in 0 .. Len(Functions[call[s]].plan.steps)
    PROVE  /\ Sc(s) = Functions[call[s]] /\ Sc(s).plan \in Plans
           /\ \E k : /\ PlanAt(Sc(s).plan, step[s], k)
                     /\ Tried(s) = 1 .. k /\ Cardinality(Tried(s)) = k /\ Freed(s) = 1 .. k
<1>1. Sc(s) = Functions[call[s]]
  BY OwnFunction DEF Sc
<1>2. Sc(s).plan \in Plans
  BY <1>1, EveryFunction DEF GoodFunction
<1>3. PICK k : PlanAt(Sc(s).plan, step[s], k)
  BY <1>1, <1>2, PlansAre
<1>4. k \in 0 .. 2 /\ Allocs(Sc(s).plan.steps, step[s]) = k
  BY <1>3 DEF PlanAt
<1>5. Tried(s) = 1 .. k
  BY <1>4, Zenon DEF Tried, Steps, Allocs
<1>6. Cardinality(Tried(s)) = k
  BY <1>4, <1>5, FewElements
<1>7. Freed(s) = 1 .. k
  <2>1. CASE k = 0
    BY <1>5, <2>1 DEF Freed
  <2>2. CASE k # 0
    <3>1. Tried(s) # {}
      <4>1. 1 \in 1 .. k
        BY <1>4, <2>2
      <4> QED BY <4>1, <1>5, Zenon
    <3>2. Sc(s).plan.frees[k] = 1 .. k
      BY <1>3, <2>2 DEF PlanAt
    <3> QED BY <1>6, <3>1, <3>2, Zenon DEF Freed
  <2> QED BY <2>1, <2>2
<1> QED BY <1>1, <1>2, <1>3, <1>5, <1>6, <1>7

\* The states of a session, one by one.
SessionsInv == \A s \in Sessions : SessionInv(pc[s], call[s], step[s], held[s], b[s], did[s])

\* A step that changes nothing else than session s.
LEMMA OthersKept ==
    ASSUME SessionsInv, NEW s \in Sessions,
           \A t \in Sessions \ {s} : /\ pc'[t] = pc[t] /\ call'[t] = call[t] /\ step'[t] = step[t]
                                     /\ held'[t] = held[t] /\ b'[t] = b[t] /\ did'[t] = did[t],
           SessionInv(pc'[s], call'[s], step'[s], held'[s], b'[s], did'[s])
    PROVE  SessionsInv'
<1> SUFFICES ASSUME NEW t \in Sessions
             PROVE  SessionInv(pc'[t], call'[t], step'[t], held'[t], b'[t], did'[t])
  BY DEF SessionsInv
<1>1. CASE t = s
  BY <1>1
<1>2. CASE t # s
  BY <1>2 DEF SessionsInv
<1> QED BY <1>1, <1>2

-----------------------------------------------------------------------------
(***************************************************************************)
(* The steps, one by one.                                                  *)
(***************************************************************************)

\* What each step is shown to keep.
SyscallInv ==
    /\ CallTypes
    /\ OnlyKnownWild
    /\ SessionsInv
    /\ Relayed

\* The same, put together from the variables.
LEMMA Assembled ==
    ASSUME daemon' \in {"up", "gone"}, wild' \subseteq {"fcntl_flock", "getenv"},
           mode' \in [Sessions -> {"ldelf", "ta", "left"}],
           pc' \in [Sessions -> {"idle", "run", "exit"}],
           call' \in [Sessions -> Calls \cup {NoCall}],
           step' \in [Sessions -> 0 .. 4],
           held' \in [Sessions -> SUBSET {1, 2}],
           b' \in [Sessions -> {"0", "ok", "error"}],
           did' \in [Sessions -> {"nothing", "ok", "error", "unknown"}],
           last' \in [Sessions -> Outcomes], SessionsInv', Relayed'
    PROVE  SyscallInv'
<1>1. {"fcntl_flock", "getenv"} \subseteq Calls
  BY CallNames
<1> QED BY <1>1 DEF SyscallInv, CallTypes, OnlyKnownWild, Outcomes

\* It holds when the sessions start.
LEMMA InitInv == Init => SyscallInv
<1> SUFFICES ASSUME Init PROVE SyscallInv
  OBVIOUS
<1>1. \A s \in Sessions : last[s] \in Outcomes /\ Tells(last[s])
  BY NoOutcome DEF Init
<1>2. last \in [Sessions -> Outcomes]
  BY <1>1 DEF Init
<1>3. CallTypes
  BY <1>2 DEF Init, CallTypes, Outcomes
<1>4. OnlyKnownWild
  BY DEF Init, OnlyKnownWild
<1>5. SessionsInv
  BY DEF Init, SessionsInv, SessionInv
<1>6. Relayed
  BY <1>1, Zenon DEF Relayed, Tells
<1> QED BY <1>3, <1>4, <1>5, <1>6 DEF SyscallInv

\* A new session.
LEMMA OpenSessionKeeps ==
    ASSUME SyscallInv, NEW s \in Sessions, OpenSession(s)
    PROVE  SyscallInv'
<1>1. SessionsInv' /\ Relayed' /\ OnlyKnownWild'
  BY DEF OpenSession, SyscallInv, SessionsInv, Relayed, OnlyKnownWild
<1>2. CallTypes'
  BY DEF OpenSession, SyscallInv, CallTypes
<1> QED BY <1>1, <1>2 DEF SyscallInv

\* Where a session is after a call that is not of the vfs.
LEMMA OutcomeIs ==
    ASSUME NEW m \in {"ldelf", "ta"}, NEW f, NEW n
    PROVE  Outcome(m, f, n).mode \in {"ldelf", "ta", "left"} /\ Outcome(m, f, n).ret \in {"void", "error"}
BY DEF Outcome, Returned

\* A call that is not of the vfs: mode and last of the session change.
LEMMA OtherKeeps ==
    ASSUME SyscallInv, NEW s \in Sessions, NEW m \in {"ldelf", "ta", "left"}, NEW r \in {"void", "error"},
           mode' = [mode EXCEPT ![s] = m], last' = [last EXCEPT ![s] = [NoResult EXCEPT !.ret = r]],
           UNCHANGED <<daemon, wild, pc, call, step, held, b, did>>
    PROVE  SyscallInv'
<1>1. PICK o : o = [NoResult EXCEPT !.ret = r]
  OBVIOUS
<1>2. o \in Outcomes /\ Tells(o) /\ last' = [last EXCEPT ![s] = o]
  BY <1>1, PlainOutcome
<1>3. last' \in [Sessions -> Outcomes] /\ Relayed'
  BY <1>2, LastKept DEF SyscallInv
<1>4. SessionsInv' /\ wild' \subseteq {"fcntl_flock", "getenv"}
  BY DEF SyscallInv, SessionsInv, OnlyKnownWild
<1>5. CallTypes
  BY DEF SyscallInv
<1>6. mode' \in [Sessions -> {"ldelf", "ta", "left"}]
  BY <1>5 DEF CallTypes
<1> QED BY <1>3, <1>4, <1>5, <1>6, Assembled DEF CallTypes

\* Any other number.
LEMMA OtherCallKeeps ==
    ASSUME SyscallInv, NEW s \in Sessions, OtherCall(s)
    PROVE  SyscallInv'
<1>1. PICK o \in IF mode[s] = "ta" THEN scall_handle_user_ta ELSE scall_handle_ldelf :
          /\ mode' = [mode EXCEPT ![s] = o.mode]
          /\ last' = [last EXCEPT ![s] = [NoResult EXCEPT !.ret = o.ret]]
  BY Zenon DEF OtherCall
<1>2. o \in scall_handle_user_ta \/ o \in scall_handle_ldelf
  BY <1>1, Zenon
<1>3. \E m \in {"ldelf", "ta"} : \E f, n : o = Outcome(m, f, n)
  BY <1>2 DEF scall_handle_user_ta, scall_handle_ldelf
<1>4. o.mode \in {"ldelf", "ta", "left"} /\ o.ret \in {"void", "error"}
  BY <1>3, OutcomeIs
<1>5. UNCHANGED <<daemon, wild, pc, call, step, held, b, did>>
  BY DEF OtherCall
<1> QED BY <1>1, <1>4, <1>5, OtherKeeps

\* The stubs of libutee.
LEMMA CoreCallKeeps ==
    ASSUME SyscallInv, NEW s \in Sessions, CoreCall(s)
    PROVE  SyscallInv'
<1>1. PICK c \in CoreCalls :
          /\ mode' = [mode EXCEPT ![s] = c.o.mode]
          /\ last' = [last EXCEPT ![s] = [NoResult EXCEPT !.ret = c.o.ret]]
          /\ wild' = wild \cup c.wild
  BY Zenon DEF CoreCall
<1>2. PICK x \in DOMAIN CoreStubs :
          c = [o |-> Outcome("ta", get_tee_syscall_func(TEE_SCN(x)), CoreStubs[x]),
               wild |-> IF Carried(CorePrototypes[x], CoreStubs[x]) THEN {} ELSE {x}]
  BY Zenon DEF CoreCalls
<1>3. c.wild = {} /\ c.o = Outcome("ta", get_tee_syscall_func(TEE_SCN(x)), CoreStubs[x])
  BY <1>2, CoreArguments
<1>4. c.o.mode \in {"ldelf", "ta", "left"} /\ c.o.ret \in {"void", "error"}
  BY <1>3, OutcomeIs
<1>5. UNCHANGED <<daemon, wild, pc, call, step, held, b, did>>
  BY <1>1, <1>3 DEF CoreCall
<1> QED BY <1>1, <1>4, <1>5, OtherKeeps

\* A vfs call starts.
LEMMA EnterKeeps ==
    ASSUME SyscallInv, NEW s \in Sessions, Enter(s)
    PROVE  SyscallInv'
<1>1. PICK c \in Calls :
          /\ call' = [call EXCEPT ![s] = c]
          /\ wild' = IF Arrives(c, FunctionOf[c]) THEN wild ELSE wild \cup {c}
  BY Zenon DEF Enter
<1>2. CallTypes
  BY DEF SyscallInv
<1>3. wild' = wild
  BY <1>1, OwnFunction, VfsArguments
<1>4. last' \in [Sessions -> Outcomes] /\ Relayed'
  BY NoOutcome, LastKept DEF SyscallInv, Enter
<1>5. /\ pc[s] = "idle" /\ pc' = [pc EXCEPT ![s] = "run"]
      /\ UNCHANGED <<daemon, mode, step, held, b, did>>
  BY DEF Enter
<1>6. SessionInv(pc[s], call[s], step[s], held[s], b[s], did[s])
  BY DEF SyscallInv, SessionsInv
<1>7. step[s] = 0 /\ held[s] = {} /\ did[s] = "nothing"
  BY <1>5, <1>6 DEF SessionInv
<1>8. pc'[s] = "run" /\ call'[s] = c
  BY <1>1, <1>2, <1>5 DEF CallTypes
<1>9. Len(Functions[c].plan.steps) \in 1 .. 4
  <2>1. Functions[c].plan \in Plans
    BY EveryFunction DEF GoodFunction
  <2> QED BY <2>1 DEF Plans, NoPayload, OnePayload, TwoPayloads, AskTwice
<1>10. SessionInv("run", c, 0, {}, b[s], "nothing")
  BY <1>9 DEF SessionInv
<1>11. SessionsInv'
  <2>1. SessionInv(pc'[s], call'[s], step'[s], held'[s], b'[s], did'[s])
    BY <1>5, <1>7, <1>8, <1>10
  <2>2. \A t \in Sessions \ {s} : /\ pc'[t] = pc[t] /\ call'[t] = call[t] /\ step'[t] = step[t]
                                  /\ held'[t] = held[t] /\ b'[t] = b[t] /\ did'[t] = did[t]
    BY <1>1, <1>2, <1>5 DEF CallTypes
  <2> QED BY <2>1, <2>2, OthersKept DEF SyscallInv
<1>12. wild' \subseteq {"fcntl_flock", "getenv"}
  BY <1>3 DEF SyscallInv, OnlyKnownWild
<1>13. pc' \in [Sessions -> {"idle", "run", "exit"}] /\ call' \in [Sessions -> Calls \cup {NoCall}]
  BY <1>1, <1>2, <1>5 DEF CallTypes
<1> QED BY <1>2, <1>4, <1>5, <1>11, <1>12, <1>13, Assembled DEF CallTypes

\* What is known when a step of a plan is made.
LEMMA DoingIs ==
    ASSUME SyscallInv, NEW s \in Sessions, NEW what, Doing(s, what)
    PROVE  LET c == call[s]
               p == Functions[call[s]].plan
               n == step[s]
           IN  /\ pc[s] = "run" /\ c \in Calls /\ Sc(s) = Functions[c] /\ n \in 0 .. Len(p.steps)
               /\ n < Len(p.steps) /\ p.steps[n + 1] = what
               /\ held[s] \subseteq 1 .. Allocs(p.steps, n)
               /\ did[s] \in {"nothing", "unknown"}
               /\ \E k : PlanAt(p, n, k) /\ Cardinality(Tried(s)) = k
               /\ step' = [step EXCEPT ![s] = n + 1] /\ step' \in [Sessions -> 0 .. 4]
               /\ \A t \in Sessions \ {s} : step'[t] = step[t]
<1>1. pc[s] = "run" /\ step' = [step EXCEPT ![s] = step[s] + 1]
  BY DEF Doing
<1>2. SessionInv(pc[s], call[s], step[s], held[s], b[s], did[s])
  BY DEF SyscallInv, SessionsInv
<1>3. /\ call[s] \in Calls /\ step[s] \in 0 .. Len(Functions[call[s]].plan.steps)
      /\ held[s] \subseteq 1 .. Allocs(Functions[call[s]].plan.steps, step[s])
      /\ step[s] < Len(Functions[call[s]].plan.steps) => did[s] \in {"nothing", "unknown"}
  BY <1>1, <1>2 DEF SessionInv
<1>4. Sc(s) = Functions[call[s]]
  BY <1>3, InCall
<1>5. PICK k : PlanAt(Sc(s).plan, step[s], k) /\ Cardinality(Tried(s)) = k
  BY <1>3, InCall
<1>6. step[s] < Len(Functions[call[s]].plan.steps) /\ Functions[call[s]].plan.steps[step[s] + 1] = what
  BY <1>4 DEF Doing, Steps
<1>7. step \in [Sessions -> 0 .. 4]
  BY DEF SyscallInv, CallTypes
<1>8. Len(Functions[call[s]].plan.steps) \in 1 .. 4
  BY <1>4, <1>5 DEF PlanAt
<1>9. step[s] + 1 \in 0 .. 4
  <2>1. ASSUME NEW m, NEW l, l \in 1 .. 4, m \in 0 .. l, m < l
        PROVE  m + 1 \in 0 .. 4
    BY <2>1
  <2> QED BY <1>3, <1>6, <1>8, <2>1, Zenon
<1>10. step' \in [Sessions -> 0 .. 4] /\ \A t \in Sessions \ {s} : step'[t] = step[t]
  BY <1>1, <1>7, <1>9
<1> QED BY <1>1, <1>3, <1>4, <1>5, <1>6, <1>10

\* A payload, or none.
LEMMA AllocKeeps ==
    ASSUME SyscallInv, NEW s \in Sessions, Alloc(s)
    PROVE  SyscallInv'
<1>1. /\ pc[s] = "run" /\ call[s] \in Calls /\ step[s] \in 0 .. Len(Functions[call[s]].plan.steps)
      /\ step[s] < Len(Functions[call[s]].plan.steps)
      /\ Functions[call[s]].plan.steps[step[s] + 1] = "alloc"
      /\ held[s] \subseteq 1 .. Allocs(Functions[call[s]].plan.steps, step[s])
      /\ did[s] \in {"nothing", "unknown"}
      /\ step' = [step EXCEPT ![s] = step[s] + 1] /\ step' \in [Sessions -> 0 .. 4]
      /\ \A t \in Sessions \ {s} : step'[t] = step[t]
  BY DoingIs DEF Alloc
<1>2. PICK k : PlanAt(Functions[call[s]].plan, step[s], k) /\ Cardinality(Tried(s)) = k
  BY DoingIs DEF Alloc
<1>3. CallTypes
  BY DEF SyscallInv
<1>4. /\ k \in 0 .. 2 /\ k + 1 \in 0 .. 2 /\ Allocs(Functions[call[s]].plan.steps, step[s]) = k
      /\ Allocs(Functions[call[s]].plan.steps, step[s] + 1) = k + 1
      /\ step[s] + 1 < Len(Functions[call[s]].plan.steps)
      /\ Len(Functions[call[s]].plan.steps) \in 1 .. 4
  BY <1>1, <1>2 DEF PlanAt
<1>5. /\ pc' = pc \/ pc' = [pc EXCEPT ![s] = "exit"]
      /\ held' = held \/ held' = [held EXCEPT ![s] = held[s] \cup {k + 1}]
      /\ UNCHANGED <<daemon, wild, mode, call, b, did, last>>
  BY <1>2 DEF Alloc
<1>6. step'[s] = step[s] + 1 /\ step[s] + 1 \in 0 .. Len(Functions[call[s]].plan.steps)
  BY <1>1, <1>3, <1>4 DEF CallTypes
<1>7. /\ pc' \in [Sessions -> {"idle", "run", "exit"}] /\ pc'[s] \in {"run", "exit"}
      /\ \A t \in Sessions \ {s} : pc'[t] = pc[t]
  BY <1>1, <1>3, <1>5 DEF CallTypes
<1>8. held'[s] \subseteq 1 .. k + 1 /\ \A t \in Sessions \ {s} : held'[t] = held[t]
  BY <1>1, <1>3, <1>4, <1>5 DEF CallTypes
<1>9. held' \in [Sessions -> SUBSET {1, 2}]
  <2>1. k + 1 \in {1, 2}
    BY <1>4
  <2> QED BY <1>3, <1>5, <2>1 DEF CallTypes
<1>10. SessionInv(pc'[s], call[s], step[s] + 1, held'[s], b[s], did[s])
  BY <1>1, <1>4, <1>6, <1>7, <1>8 DEF SessionInv
<1>11. SessionsInv'
  <2>1. SessionInv(pc'[s], call'[s], step'[s], held'[s], b'[s], did'[s])
    BY <1>5, <1>6, <1>10
  <2> QED BY <1>1, <1>5, <1>7, <1>8, <2>1, OthersKept DEF SyscallInv
<1>12. wild' \subseteq {"fcntl_flock", "getenv"} /\ Relayed' /\ last' \in [Sessions -> Outcomes]
  BY <1>5 DEF SyscallInv, OnlyKnownWild, Relayed, CallTypes, Outcomes
<1> QED BY <1>1, <1>3, <1>5, <1>7, <1>9, <1>11, <1>12, Assembled DEF CallTypes

\* A remote procedure call, whatever came of it: daemon, b and did change, and did tells
\* what b does when it was the last one.
LEMMA RpcKeeps ==
    ASSUME SyscallInv, NEW s \in Sessions, Doing(s, "rpc"),
           NEW v \in {"0", "ok", "error"}, NEW d \in {"nothing", "ok", "error", "unknown"},
           daemon' \in {"up", "gone"}, b' = [b EXCEPT ![s] = v], did' = [did EXCEPT ![s] = d],
           UNCHANGED <<wild, mode, pc, call, held, last>>,
           step[s] + 1 # Len(Functions[call[s]].plan.steps) => d \in {"nothing", "unknown"},
           /\ step[s] + 1 = Len(Functions[call[s]].plan.steps)
           /\ call[s] \notin {"truncate", "getcwd", "usleep"}
           => d = "unknown" \/ d = Result(call[s], v)
    PROVE  SyscallInv'
<1>1. /\ pc[s] = "run" /\ call[s] \in Calls /\ step[s] \in 0 .. Len(Functions[call[s]].plan.steps)
      /\ step[s] < Len(Functions[call[s]].plan.steps)
      /\ Functions[call[s]].plan.steps[step[s] + 1] = "rpc"
      /\ held[s] \subseteq 1 .. Allocs(Functions[call[s]].plan.steps, step[s])
      /\ step' = [step EXCEPT ![s] = step[s] + 1] /\ step' \in [Sessions -> 0 .. 4]
      /\ \A t \in Sessions \ {s} : step'[t] = step[t]
  BY DoingIs
<1>2. PICK k : PlanAt(Functions[call[s]].plan, step[s], k)
  BY DoingIs
<1>3. CallTypes
  BY DEF SyscallInv
<1>4. /\ Allocs(Functions[call[s]].plan.steps, step[s]) = k
      /\ Allocs(Functions[call[s]].plan.steps, step[s] + 1) = k
      /\ Len(Functions[call[s]].plan.steps) \in 1 .. 4
  BY <1>1, <1>2 DEF PlanAt
<1>5. step'[s] = step[s] + 1 /\ step[s] + 1 \in 0 .. Len(Functions[call[s]].plan.steps)
  BY <1>1, <1>3, <1>4 DEF CallTypes
<1>6. /\ b'[s] = v /\ did'[s] = d
      /\ \A t \in Sessions \ {s} : b'[t] = b[t] /\ did'[t] = did[t]
  BY <1>3 DEF CallTypes
<1>7. b' \in [Sessions -> {"0", "ok", "error"}] /\ did' \in [Sessions -> {"nothing", "ok", "error", "unknown"}]
  BY <1>3 DEF CallTypes
<1>8. SessionInv("run", call[s], step[s] + 1, held[s], v, d)
  BY <1>1, <1>4, <1>5 DEF SessionInv
<1>9. SessionsInv'
  <2>1. SessionInv(pc'[s], call'[s], step'[s], held'[s], b'[s], did'[s])
    BY <1>1, <1>5, <1>6, <1>8
  <2> QED BY <1>1, <1>6, <2>1, OthersKept DEF SyscallInv
<1>10. wild' \subseteq {"fcntl_flock", "getenv"} /\ Relayed' /\ last' \in [Sessions -> Outcomes]
  BY DEF SyscallInv, OnlyKnownWild, Relayed, CallTypes, Outcomes
<1> QED BY <1>1, <1>3, <1>7, <1>9, <1>10, Assembled DEF CallTypes

\* A remote procedure call that fails.
LEMMA RpcFailsKeeps ==
    ASSUME SyscallInv, NEW s \in Sessions, RpcFails(s)
    PROVE  SyscallInv'
<1>1. CallTypes
  BY DEF SyscallInv
<1>2. /\ Doing(s, "rpc") /\ did' = [did EXCEPT ![s] = "unknown"]
      /\ UNCHANGED <<daemon, wild, mode, pc, call, held, b, last>>
  BY DEF RpcFails
<1>3. b' = [b EXCEPT ![s] = b[s]] /\ b[s] \in {"0", "ok", "error"} /\ daemon' \in {"up", "gone"}
  BY <1>1, <1>2 DEF CallTypes
<1>4. PICK v \in {"0", "ok", "error"} : v = b[s]
  BY <1>3
<1>5. PICK d \in {"nothing", "ok", "error", "unknown"} : d = "unknown"
  OBVIOUS
<1> QED BY <1>2, <1>3, <1>4, <1>5, RpcKeeps

\* What a remote procedure call that is answered does.
LEMMA Answered ==
    ASSUME SyscallInv, NEW s \in Sessions, ThreadRpcCmd(s)
    PROVE  /\ Doing(s, "rpc") /\ daemon = "up" /\ UNCHANGED <<wild, mode, pc, call, held, last>>
           /\ GoodHandler(call[s], HandlerOf[call[s]], Functions[call[s]].params)
           /\ Sc(s) = Functions[call[s]]
           /\ \/ ~Accepts(HandlerOf[call[s]], Functions[call[s]].params) /\ UNCHANGED <<daemon, b, did>>
              \/ /\ ~(HandlerOf[call[s]].derefs \subseteq HandlerOf[call[s]].values) \/ HandlerOf[call[s]].linux = "getenv"
                 /\ daemon' = "gone" /\ did' = [did EXCEPT ![s] = "unknown"] /\ UNCHANGED b
              \/ /\ \E r \in {"ok", "error"} :
                       /\ HandlerOf[call[s]].linux = "getenv" => r = "ok"
                       /\ b' = IF HandlerOf[call[s]].setsB THEN [b EXCEPT ![s] = r] ELSE b
                       /\ did' = [did EXCEPT ![s] =
                                     IF Final(s) /\ HandlerOf[call[s]].linux = call[s] THEN r ELSE "nothing"]
                 /\ UNCHANGED daemon
<1>1. Doing(s, "rpc") /\ daemon = "up" /\ UNCHANGED <<wild, mode, pc, call, held, last>>
  BY DEF ThreadRpcCmd
<1>2. call[s] \in Calls /\ Sc(s) = Functions[call[s]]
  BY <1>1, DoingIs
<1>3. GoodHandler(call[s], HandlerOf[call[s]], Functions[call[s]].params)
  BY <1>2, EveryHandler
<1> QED BY <1>1, <1>2, <1>3, Zenon DEF ThreadRpcCmd

\* One that is answered.
LEMMA ThreadRpcCmdKeeps ==
    ASSUME SyscallInv, NEW s \in Sessions, ThreadRpcCmd(s)
    PROVE  SyscallInv'
<1> DEFINE h == HandlerOf[call[s]]
<1>1. CallTypes
  BY DEF SyscallInv
<1>2. /\ Doing(s, "rpc") /\ UNCHANGED <<wild, mode, pc, call, held, last>>
      /\ Sc(s) = Functions[call[s]] /\ GoodHandler(call[s], h, Functions[call[s]].params)
  BY Answered
<1>3. /\ call[s] # "truncate" => h.linux = call[s] /\ Accepts(h, Functions[call[s]].params)
      /\ call[s] \notin {"getcwd", "usleep"} => h.setsB
  BY <1>2 DEF GoodHandler
<1>4. b[s] \in {"0", "ok", "error"} /\ b = [b EXCEPT ![s] = b[s]] /\ did = [did EXCEPT ![s] = did[s]]
  BY <1>1 DEF CallTypes
<1>5. did[s] \in {"nothing", "unknown"} /\ call[s] \in Calls
  BY <1>2, DoingIs
<1>6. CASE ~Accepts(h, Functions[call[s]].params) /\ UNCHANGED <<daemon, b, did>>
  <2>1. call[s] = "truncate"
    BY <1>3, <1>6
  <2>2. PICK v \in {"0", "ok", "error"} : v = b[s]
    BY <1>4
  <2>3. PICK d \in {"nothing", "ok", "error", "unknown"} : d = did[s]
    BY <1>5
  <2>4. daemon' \in {"up", "gone"} /\ b' = [b EXCEPT ![s] = v] /\ did' = [did EXCEPT ![s] = d]
    BY <1>1, <1>4, <1>6, <2>2, <2>3 DEF CallTypes
  <2>5. call[s] \in {"truncate", "getcwd", "usleep"} /\ d \in {"nothing", "unknown"}
    BY <1>5, <2>1, <2>3
  <2> QED BY <1>2, <2>4, <2>5, RpcKeeps
<1>7. CASE daemon' = "gone" /\ did' = [did EXCEPT ![s] = "unknown"] /\ UNCHANGED b
  <2>1. PICK v \in {"0", "ok", "error"} : v = b[s]
    BY <1>4
  <2>2. PICK d \in {"nothing", "ok", "error", "unknown"} : d = "unknown"
    OBVIOUS
  <2>3. daemon' \in {"up", "gone"} /\ b' = [b EXCEPT ![s] = v] /\ did' = [did EXCEPT ![s] = d]
    BY <1>4, <1>7, <2>1, <2>2
  <2> QED BY <1>2, <2>2, <2>3, RpcKeeps
<1>8. ASSUME NEW r \in {"ok", "error"}, h.linux = "getenv" => r = "ok",
             b' = IF h.setsB THEN [b EXCEPT ![s] = r] ELSE b,
             did' = [did EXCEPT ![s] = IF Final(s) /\ h.linux = call[s] THEN r ELSE "nothing"],
             UNCHANGED daemon
      PROVE  SyscallInv'
  <2>1. PICK v : v = IF h.setsB THEN r ELSE b[s]
    OBVIOUS
  <2>2. PICK d : d = IF Final(s) /\ h.linux = call[s] THEN r ELSE "nothing"
    OBVIOUS
  <2>3. v \in {"0", "ok", "error"} /\ d \in {"nothing", "ok", "error", "unknown"}
    BY <1>4, <2>1, <2>2
  <2>4. b' = [b EXCEPT ![s] = v]
    <3>1. CASE h.setsB
      BY <1>8, <2>1, <3>1, Zenon
    <3>2. CASE ~h.setsB
      BY <1>4, <1>8, <2>1, <3>2, Zenon
    <3> QED BY <3>1, <3>2, Zenon
  <2>5. did' = [did EXCEPT ![s] = d]
    BY <1>8, <2>2, Zenon
  <2>6. daemon' \in {"up", "gone"}
    BY <1>1, <1>8 DEF CallTypes
  <2>7. Final(s) <=> step[s] + 1 = Len(Functions[call[s]].plan.steps)
    BY <1>2 DEF Final, Steps
  <2>8. step[s] + 1 # Len(Functions[call[s]].plan.steps) => d \in {"nothing", "unknown"}
    BY <2>2, <2>7
  <2>9. ASSUME step[s] + 1 = Len(Functions[call[s]].plan.steps), call[s] \notin {"truncate", "getcwd", "usleep"}
        PROVE  d = Result(call[s], v)
    <3>1. h.linux = call[s] /\ h.setsB
      BY <1>3, <2>9
    <3>2. v = r
      BY <2>1, <3>1, Zenon
    <3>3. d = r
      BY <2>2, <2>7, <2>9, <3>1, Zenon
    <3>4. call[s] = "getenv" => r = "ok"
      BY <1>8, <3>1, Zenon
    <3> QED BY <2>9, <3>2, <3>3, <3>4 DEF Result
  <2> QED BY <1>2, <2>3, <2>4, <2>5, <2>6, <2>8, <2>9, RpcKeeps
<1> QED BY <1>6, <1>7, <1>8, Answered

\* What the way out does to what came of the call.
LEMMA ResultIs ==
    ASSUME NEW c \in Calls, NEW v \in {"0", "ok", "error"}
    PROVE  Result(c, v) \in {"void", "0", "ok", "error"} /\ OutOfMemory(c) \in {"ok", "error"}
BY DEF Result, OutOfMemory

\* The way out.
LEMMA ReturnKeeps ==
    ASSUME SyscallInv, NEW s \in Sessions, Return(s)
    PROVE  SyscallInv'
<1>1. CallTypes
  BY DEF SyscallInv
<1>2. /\ held' = [held EXCEPT ![s] = held[s] \ Freed(s)]
      /\ pc' = [pc EXCEPT ![s] = "idle"] /\ call' = [call EXCEPT ![s] = NoCall]
      /\ step' = [step EXCEPT ![s] = 0] /\ b' = [b EXCEPT ![s] = "0"]
      /\ did' = [did EXCEPT ![s] = "nothing"] /\ UNCHANGED <<daemon, mode>>
  BY DEF Return
<1>3. /\ pc[s] = "exit" \/ (pc[s] = "run" /\ step[s] = Len(Steps(s)))
      /\ last' = [last EXCEPT ![s] =
                  [call |-> call[s], did |-> did[s],
                   ret |-> IF pc[s] = "run" THEN Result(call[s], b[s]) ELSE OutOfMemory(call[s])]]
      /\ wild' \in {wild, wild \cup {call[s]}}
      /\ wild' # wild => UsesUnset(s) \/ call[s] = "getenv"
  BY DEF Return, MallocFails
<1>4. SessionInv(pc[s], call[s], step[s], held[s], b[s], did[s])
  BY DEF SyscallInv, SessionsInv
<1>5. /\ call[s] \in Calls /\ step[s] \in 0 .. Len(Functions[call[s]].plan.steps)
      /\ held[s] \subseteq 1 .. Allocs(Functions[call[s]].plan.steps, step[s])
      /\ pc[s] = "exit" => did[s] \in {"nothing", "unknown"}
      /\ /\ pc[s] = "run" /\ step[s] = Len(Functions[call[s]].plan.steps)
         /\ call[s] \notin {"truncate", "getcwd", "usleep"}
         => did[s] = "unknown" \/ did[s] = Result(call[s], b[s])
  BY <1>3, <1>4 DEF SessionInv
<1>6. Sc(s) = Functions[call[s]]
  BY <1>5, InCall
<1>7. PICK k : PlanAt(Sc(s).plan, step[s], k) /\ Tried(s) = 1 .. k /\ Freed(s) = 1 .. k
  BY <1>5, InCall
<1>8. held[s] \subseteq Freed(s)
  BY <1>5, <1>6, <1>7 DEF PlanAt
<1>9. wild' \subseteq {"fcntl_flock", "getenv"}
  <2>1. UsesUnset(s) => call[s] = "fcntl_flock"
    <3>1. Freed(s) \subseteq Tried(s)
      BY <1>7, Zenon
    <3>2. Functions[call[s]].atExit => call[s] = "fcntl_flock"
      BY <1>5, EveryFunction DEF GoodFunction
    <3> QED BY <1>6, <3>1, <3>2, Zenon DEF UsesUnset
  <2>2. wild \subseteq {"fcntl_flock", "getenv"}
    BY DEF SyscallInv, OnlyKnownWild
  <2> QED BY <1>3, <2>1, <2>2
<1>10. PICK x : x = IF pc[s] = "run" THEN Result(call[s], b[s]) ELSE OutOfMemory(call[s])
  OBVIOUS
<1>11. b[s] \in {"0", "ok", "error"} /\ did[s] \in {"nothing", "ok", "error", "unknown"}
  BY <1>1 DEF CallTypes
<1>12. x \in {"void", "0", "ok", "error"}
  BY <1>5, <1>10, <1>11, ResultIs
<1>13. PICK r : r = [call |-> call[s], did |-> did[s], ret |-> x]
  OBVIOUS
<1>14. r \in Outcomes
  BY <1>5, <1>11, <1>12, <1>13 DEF Outcomes
<1>15. Tells(r)
  <2>1. r.call = call[s] /\ r.did = did[s] /\ r.ret = x
    BY <1>13
  <2>2. CASE pc[s] = "exit"
    <3>1. x = OutOfMemory(call[s])
      BY <1>10, <2>2
    <3> QED BY <1>5, <2>1, <2>2, <3>1 DEF Tells, OutOfMemory
  <2>3. CASE pc[s] = "run" /\ step[s] = Len(Steps(s))
    <3>1. x = Result(call[s], b[s]) /\ step[s] = Len(Functions[call[s]].plan.steps)
      BY <1>6, <1>10, <2>3 DEF Steps
    <3> QED BY <1>5, <2>1, <2>3, <3>1 DEF Tells
  <2> QED BY <1>3, <2>2, <2>3
<1>16. last' = [last EXCEPT ![s] = r]
  BY <1>3, <1>10, <1>13, Zenon
<1>17. last' \in [Sessions -> Outcomes] /\ Relayed'
  BY <1>14, <1>15, <1>16, LastKept DEF SyscallInv
<1>18. held' \in [Sessions -> SUBSET {1, 2}]
  BY <1>1, <1>2 DEF CallTypes
<1>19. /\ pc' \in [Sessions -> {"idle", "run", "exit"}] /\ call' \in [Sessions -> Calls \cup {NoCall}]
       /\ step' \in [Sessions -> 0 .. 4] /\ b' \in [Sessions -> {"0", "ok", "error"}]
       /\ did' \in [Sessions -> {"nothing", "ok", "error", "unknown"}]
  BY <1>1, <1>2 DEF CallTypes
<1>20. SessionsInv'
  <2>1. pc'[s] = "idle" /\ call'[s] = NoCall /\ step'[s] = 0 /\ b'[s] = "0" /\ did'[s] = "nothing"
    BY <1>1, <1>2 DEF CallTypes
  <2>2. held'[s] = {}
    BY <1>1, <1>2, <1>8 DEF CallTypes
  <2>3. SessionInv(pc'[s], call'[s], step'[s], held'[s], b'[s], did'[s])
    BY <2>1, <2>2 DEF SessionInv
  <2>4. \A t \in Sessions \ {s} : /\ pc'[t] = pc[t] /\ call'[t] = call[t] /\ step'[t] = step[t]
                                  /\ held'[t] = held[t] /\ b'[t] = b[t] /\ did'[t] = did[t]
    BY <1>1, <1>2 DEF CallTypes
  <2> QED BY <2>3, <2>4, OthersKept DEF SyscallInv
<1> QED BY <1>1, <1>2, <1>9, <1>17, <1>18, <1>19, <1>20, Assembled DEF CallTypes

-----------------------------------------------------------------------------
(***************************************************************************)
(* The theorems.                                                           *)
(***************************************************************************)

\* The invariant is inductive.
LEMMA NextKeeps == SyscallInv /\ [Next]_vars => SyscallInv'
<1> SUFFICES ASSUME SyscallInv, [Next]_vars PROVE SyscallInv'
  OBVIOUS
<1>1. CASE UNCHANGED vars
  BY <1>1 DEF vars, SyscallInv, CallTypes, OnlyKnownWild, SessionsInv, Relayed
<1>2. ASSUME NEW s \in Sessions, OpenSession(s) PROVE SyscallInv'
  BY <1>2, OpenSessionKeeps
<1>3. ASSUME NEW s \in Sessions, OtherCall(s) PROVE SyscallInv'
  BY <1>3, OtherCallKeeps
<1>4. ASSUME NEW s \in Sessions, CoreCall(s) PROVE SyscallInv'
  BY <1>4, CoreCallKeeps
<1>5. ASSUME NEW s \in Sessions, Enter(s) PROVE SyscallInv'
  BY <1>5, EnterKeeps
<1>6. ASSUME NEW s \in Sessions, Alloc(s) PROVE SyscallInv'
  BY <1>6, AllocKeeps
<1>7. ASSUME NEW s \in Sessions, ThreadRpcCmd(s) PROVE SyscallInv'
  BY <1>7, ThreadRpcCmdKeeps
<1>8. ASSUME NEW s \in Sessions, RpcFails(s) PROVE SyscallInv'
  BY <1>8, RpcFailsKeeps
<1>9. ASSUME NEW s \in Sessions, Return(s) PROVE SyscallInv'
  BY <1>9, ReturnKeeps
<1> QED BY <1>1, <1>2, <1>3, <1>4, <1>5, <1>6, <1>7, <1>8, <1>9 DEF Next

\* It holds in every state.
LEMMA Invariance == Spec => []SyscallInv
BY InitInv, NextKeeps, PTL DEF Spec

\* The trace of a session is off between two calls: ftrace_syscall_enter and
\* ftrace_syscall_leave come in pairs.
TraceInv ==
    /\ traced \in [Sessions -> {"off", "on"}]
    /\ \A s \in Sessions : pc[s] = "idle" => traced[s] = "off"

\* Every step keeps that.
LEMMA TraceKeeps == CallTypes /\ TraceInv /\ [Next]_vars => TraceInv'
<1> SUFFICES ASSUME CallTypes, TraceInv, [Next]_vars PROVE TraceInv'
  OBVIOUS
<1>0. pc \in [Sessions -> {"idle", "run", "exit"}]
  BY DEF CallTypes
<1>1. CASE UNCHANGED vars
  BY <1>1 DEF vars, TraceInv
<1>2. ASSUME NEW s \in Sessions, OpenSession(s) \/ ThreadRpcCmd(s) \/ RpcFails(s) PROVE TraceInv'
  <2>1. UNCHANGED <<pc, traced>>
    BY <1>2 DEF OpenSession, ThreadRpcCmd, RpcFails
  <2> QED BY <2>1 DEF TraceInv
<1>3. ASSUME NEW s \in Sessions, OtherCall(s) \/ CoreCall(s) PROVE TraceInv'
  <2>1. pc' = pc /\ traced' = ftrace_syscall_leave(s)
    BY <1>3 DEF OtherCall, CoreCall
  <2> QED BY <2>1 DEF TraceInv, ftrace_syscall_leave
<1>4. ASSUME NEW s \in Sessions, Enter(s) PROVE TraceInv'
  <2>1. pc' = [pc EXCEPT ![s] = "run"] /\ \E c \in Calls : traced' = ftrace_syscall_enter(s, TEE_SCN(c))
    BY <1>4, Zenon DEF Enter
  <2>2. traced' = traced \/ traced' = [traced EXCEPT ![s] = "on"]
    BY <2>1 DEF ftrace_syscall_enter
  <2> QED BY <1>0, <2>1, <2>2 DEF TraceInv
<1>5. ASSUME NEW s \in Sessions, Alloc(s) PROVE TraceInv'
  <2>1. traced' = traced /\ (pc' = pc \/ pc' = [pc EXCEPT ![s] = "exit"])
    BY <1>5 DEF Alloc
  <2> QED BY <1>0, <2>1 DEF TraceInv
<1>6. ASSUME NEW s \in Sessions, Return(s) PROVE TraceInv'
  <2>1. pc' = [pc EXCEPT ![s] = "idle"] /\ traced' = ftrace_syscall_leave(s)
    BY <1>6 DEF Return
  <2> QED BY <1>0, <2>1 DEF TraceInv, ftrace_syscall_leave
<1> QED BY <1>1, <1>2, <1>3, <1>4, <1>5, <1>6 DEF Next

\* The state of the sessions is well typed: scall_handle_user_ta and scall_handle_ldelf
\* leave a session where it may be, a system call of tee_sqlite.c is never past its plan,
\* and the trace of a session is on only while a call of it runs.
THEOREM SyscallsTypeCorrect == Spec => []TypeOK
<1>1. Init => TraceInv
  BY DEF Init, TraceInv
<1>2. SyscallInv => CallTypes
  BY DEF SyscallInv
<1>3. CallTypes /\ TraceInv => TypeOK
  BY DEF TraceInv, TypeOK
<1> QED BY <1>1, <1>2, <1>3, TraceKeeps, Invariance, PTL DEF Spec

\* Every vfs system call whose remote procedure call comes back gives what Linux did of
\* the call of its own name, through the number, the two tables, the code of the operation
\* and the parameters that the handler looks for; truncate, getcwd and usleep excepted.
THEOREM ResultsAreRelayed == Spec => []Relayed
<1>1. SyscallInv => Relayed
  BY DEF SyscallInv
<1> QED BY <1>1, Invariance, PTL

\* The exit labels of every syscall_vfs_* free what was allocated, wherever it fails.
THEOREM PayloadsAreFreed == Spec => []NoPayloadLeft
<1>1. SyscallInv => NoPayloadLeft
  BY DEF SyscallInv, NoPayloadLeft, SessionsInv, SessionInv
<1> QED BY <1>1, Invariance, PTL

\* No system call uses a pointer it has not set, nor an argument its stub does not pass,
\* but fcntl_flock behind its exit label and getenv after a malloc that failed.
THEOREM WildOnlyWhereKnown == Spec => []OnlyKnownWild
<1>1. SyscallInv => OnlyKnownWild
  BY DEF SyscallInv
<1> QED BY <1>1, Invariance, PTL

\* Only a request of pwrite or of getenv can bring tee-supplicant down.
THEOREM CrashOnlyWhereKnown == Spec => OnlyKnownCrashes
<1> DEFINE Known == daemon' # daemon => \E s \in Sessions : step'[s] # step[s] /\ call[s] \in {"pwrite", "getenv"}
<1>1. ASSUME SyscallInv, [Next]_vars PROVE [Known]_vars
  <2>1. CASE UNCHANGED vars
    BY <2>1
  <2>2. ASSUME NEW s \in Sessions,
               OpenSession(s) \/ OtherCall(s) \/ CoreCall(s) \/ Enter(s) \/ Alloc(s) \/ RpcFails(s) \/ Return(s)
        PROVE  Known
    BY <2>2 DEF OpenSession, OtherCall, CoreCall, Enter, Alloc, RpcFails, Return
  <2>3. ASSUME NEW s \in Sessions, ThreadRpcCmd(s)
        PROVE  Known
    <3> SUFFICES ASSUME daemon' # daemon
                 PROVE  step'[s] # step[s] /\ call[s] \in {"pwrite", "getenv"}
      OBVIOUS
    <3>1. /\ Doing(s, "rpc") /\ GoodHandler(call[s], HandlerOf[call[s]], Functions[call[s]].params)
          /\ ~(HandlerOf[call[s]].derefs \subseteq HandlerOf[call[s]].values) \/ HandlerOf[call[s]].linux = "getenv"
      BY <1>1, <2>3, Answered
    <3>2. call[s] \in {"pwrite", "getenv"}
      BY <3>1 DEF GoodHandler
    <3>3. step' = [step EXCEPT ![s] = step[s] + 1] /\ step \in [Sessions -> 0 .. 4]
      BY <1>1, <3>1 DEF Doing, SyscallInv, CallTypes
    <3>4. step'[s] # step[s]
      BY <3>3
    <3> QED BY <3>2, <3>4
  <2> QED BY <1>1, <2>1, <2>2, <2>3 DEF Next
<1> QED BY <1>1, Invariance, PTL DEF Spec, OnlyKnownCrashes
=============================================================================
