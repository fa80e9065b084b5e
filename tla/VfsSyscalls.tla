---------------------------- MODULE VfsSyscalls ----------------------------
(***************************************************************************)
(* The vfs system calls from end to end: syscall_vfs_* in the secure       *)
(* kernel (core/tee/tee_sqlite.c), which a trusted application enters      *)
(* through the table of core/kernel/scall.c, and the handlers vfs_* of     *)
(* tee-supplicant (tee_supplicant.c) that make the Linux calls.            *)
(*                                                                         *)
(* Every system call allocates payloads in shared memory, fills an array   *)
(* of parameters whose first value carries the code of the operation in a  *)
(* and 0 in b and c, makes a remote procedure call, takes its result from  *)
(* b and frees the payloads.  What differs from call to call is in the two *)
(* tables below.  The contents of the payloads are left out.               *)
(***************************************************************************)
EXTENDS ScallTables, FiniteSets

CONSTANT Sessions   \* secure threads that make system calls

(***************************************************************************)
(* What each system call sends.  V is a value; In and Out are memory       *)
(* references.  A plan lists the allocations and remote procedure calls of *)
(* a system call, and the payloads freed from the exit label that a failed *)
(* first, second allocation goes to; the normal way out passes the last    *)
(* label.  A call with atExit copies its payload back behind the label.    *)
(***************************************************************************)
V == "value"
In == "in"
Out == "out"
Meta == "meta"

Rpc(code, params, plan) ==
    [code |-> code, params |-> params, plan |-> plan, atExit |-> FALSE]

\* Mutants of TwoPayloads: a label that frees only the second payload; one that frees
\* the second before it was tried.
TwoPayloads_Leaks == [steps |-> <<"alloc", "alloc", "rpc">>, frees |-> <<{1}, {2}>>]
TwoPayloads_Unset == [steps |-> <<"alloc", "alloc", "rpc">>, frees |-> <<{1, 2}, {1, 2}>>]

NoPayload == [steps |-> <<"rpc">>, frees |-> <<>>]
OnePayload == [steps |-> <<"alloc", "rpc">>, frees |-> <<{1}>>]
TwoPayloads == [steps |-> <<"alloc", "alloc", "rpc">>, frees |-> <<{1}, {1, 2}>>]
AskTwice == [steps |-> <<"alloc", "rpc", "alloc", "rpc">>, frees |-> <<{1}, {1, 2}>>]

\* Mutant of syscall_vfs_ftruncate: the code of another operation.
syscall_vfs_ftruncate_OtherCode == Rpc("TRUNCATE", <<V, V>>, NoPayload)

syscall_vfs_open         == Rpc("OPEN", <<V, In, V>>, OnePayload)
syscall_vfs_close        == Rpc("CLOSE", <<V, V>>, NoPayload)
syscall_vfs_access       == Rpc("ACCESS", <<V, V, In>>, OnePayload)
syscall_vfs_getcwd       == Rpc("GETCWD", <<V, Out, V>>, OnePayload)
syscall_vfs_stat         == Rpc("STAT", <<V, In, Out>>, TwoPayloads)
syscall_vfs_fstat        == Rpc("FSTAT", <<V, V, Out>>, OnePayload)
syscall_vfs_write        == Rpc("WRITE", <<V, V, In>>, OnePayload)
syscall_vfs_mkdir        == Rpc("MKDIR", <<V, In, V>>, OnePayload)
syscall_vfs_rmdir        == Rpc("RMDIR", <<V, In>>, OnePayload)
syscall_vfs_unlink       == Rpc("UNLINK", <<V, In>>, OnePayload)
syscall_vfs_ftruncate    == Rpc("FTRUNCATE", <<V, V>>, NoPayload)
syscall_vfs_read         == Rpc("READ", <<V, Out, V>>, OnePayload)
syscall_vfs_fchmod       == Rpc("FCHMOD", <<V, V>>, NoPayload)
syscall_vfs_fchown       == Rpc("FCHOWN", <<V, V>>, NoPayload)
syscall_vfs_geteuid      == Rpc("GETEUID", <<V>>, NoPayload)
syscall_vfs_getpid       == Rpc("GETPID", <<V>>, NoPayload)
syscall_vfs_getenv       == Rpc("GETENV", <<V, In, Out>>, AskTwice)
syscall_vfs_lseek        == Rpc("LSEEK", <<V, V>>, NoPayload)
syscall_vfs_fsync        == Rpc("FSYNC", <<V, V>>, NoPayload)
syscall_vfs_sleep        == Rpc("SLEEP", <<V, V>>, NoPayload)
syscall_vfs_pread        == Rpc("PREAD", <<V, In, V>>, OnePayload)
syscall_vfs_pwrite       == Rpc("PWRITE", <<V, V, In>>, OnePayload)
syscall_vfs_truncate     == Rpc("FTRUNCATE", <<V, In, V>>, OnePayload)
syscall_vfs_gettimeofday == Rpc("GETTIMEOFDAY", <<V, In, In>>, TwoPayloads)
syscall_vfs_fcntl_void   == Rpc("FCNTL_VOID", <<V, V>>, NoPayload)
syscall_vfs_fcntl_int    == Rpc("FCNTL_INT", <<V, V>>, NoPayload)
syscall_vfs_fcntl_flock  == [Rpc("FCNTL_FLOCK", <<V, V, In>>, OnePayload) EXCEPT !.atExit = TRUE]
syscall_vfs_utimes       == Rpc("UTIMES", <<V, In, In>>, TwoPayloads)
syscall_vfs_time         == Rpc("TIME", <<V>>, NoPayload)
syscall_vfs_usleep       == Rpc("USLEEP", <<V, V>>, NoPayload)
syscall_vfs_filesize     == Rpc("FILESIZE", <<V, V>>, NoPayload)

\* The functions behind the entries of tee_syscall_table.
Functions ==
    [open |-> syscall_vfs_open, close |-> syscall_vfs_close,
     access |-> syscall_vfs_access, getcwd |-> syscall_vfs_getcwd,
     stat |-> syscall_vfs_stat, write |-> syscall_vfs_write,
     mkdir |-> syscall_vfs_mkdir, rmdir |-> syscall_vfs_rmdir,
     unlink |-> syscall_vfs_unlink, ftruncate |-> syscall_vfs_ftruncate,
     read |-> syscall_vfs_read, fchmod |-> syscall_vfs_fchmod,
     fchown |-> syscall_vfs_fchown, geteuid |-> syscall_vfs_geteuid,
     getpid |-> syscall_vfs_getpid, getenv |-> syscall_vfs_getenv,
     lseek |-> syscall_vfs_lseek, fsync |-> syscall_vfs_fsync,
     sleep |-> syscall_vfs_sleep, pread |-> syscall_vfs_pread,
     pwrite |-> syscall_vfs_pwrite, truncate |-> syscall_vfs_truncate,
     gettimeofday |-> syscall_vfs_gettimeofday, fstat |-> syscall_vfs_fstat,
     fcntl_void |-> syscall_vfs_fcntl_void, fcntl_int |-> syscall_vfs_fcntl_int,
     fcntl_flock |-> syscall_vfs_fcntl_flock, utimes |-> syscall_vfs_utimes,
     time |-> syscall_vfs_time, usleep |-> syscall_vfs_usleep,
     filesize |-> syscall_vfs_filesize]

Calls == DOMAIN VfsStubs

(***************************************************************************)
(* What each handler takes: the number of parameters; those it fetches as  *)
(* values and as memory references before it goes on, and the values it    *)
(* then dereferences (indices from 0, as in the code); the Linux call it   *)
(* makes; whether it stores the result in b.                               *)
(***************************************************************************)
Handler(num, values, memrefs, linux) ==
    [num |-> num, values |-> values, memrefs |-> memrefs, derefs |-> values,
     linux |-> linux, setsB |-> TRUE]

\* Mutant of vfs_write: the second value is used and not fetched.
vfs_write_Unfetched == [Handler(3, {0}, {}, "write") EXCEPT !.derefs = {0, 1}]

vfs_open         == Handler(3, {0, 2}, {}, "open")
vfs_close        == Handler(2, {0, 1}, {}, "close")
vfs_access       == Handler(3, {0, 1}, {}, "access")
vfs_write        == Handler(3, {0, 1}, {}, "write")
vfs_getcwd       == [Handler(3, {0, 2}, {1}, "getcwd") EXCEPT !.setsB = FALSE]
vfs_stat         == Handler(3, {0}, {2}, "stat")
vfs_fstat        == Handler(3, {0, 1}, {2}, "fstat")
vfs_mkdir        == Handler(3, {0, 2}, {}, "mkdir")
vfs_rmdir        == Handler(2, {0}, {}, "rmdir")
vfs_unlink       == Handler(2, {0}, {}, "unlink")
vfs_ftruncate    == Handler(2, {0, 1}, {}, "ftruncate")
vfs_read         == Handler(3, {0, 2}, {1}, "read")
vfs_fchmod       == Handler(2, {0, 1}, {}, "fchmod")
vfs_fchown       == Handler(2, {0, 1}, {}, "fchown")
vfs_geteuid      == Handler(1, {0}, {}, "geteuid")
vfs_getpid       == Handler(1, {0}, {}, "getpid")
vfs_getenv       == Handler(3, {0}, {2}, "getenv")
vfs_lseek        == Handler(2, {0, 1}, {}, "lseek")
vfs_fsync        == Handler(2, {0, 1}, {}, "fsync")
vfs_sleep        == Handler(2, {0, 1}, {}, "sleep")
vfs_pread        == Handler(3, {0, 2}, {1}, "pread")
vfs_pwrite       == [Handler(3, {1}, {}, "pwrite") EXCEPT !.derefs = {0, 1}]
vfs_truncate     == Handler(3, {0, 2}, {}, "truncate")
vfs_getdayoftime == Handler(3, {0}, {1, 2}, "gettimeofday")
vfs_fcntl_void   == Handler(2, {0, 1}, {}, "fcntl_void")
vfs_fcntl_int    == Handler(2, {0, 1}, {}, "fcntl_int")
vfs_fcntl_flock  == Handler(3, {0, 1}, {2}, "fcntl_flock")
vfs_utimes       == Handler(3, {0}, {}, "utimes")
vfs_time         == Handler(1, {0}, {}, "time")
vfs_usleep       == [Handler(2, {0, 1}, {}, "usleep") EXCEPT !.setsB = FALSE]
vfs_filesize     == Handler(2, {0, 1}, {}, "filesize")

tee_supp_vfs_process ==
    [OPEN |-> vfs_open, CLOSE |-> vfs_close, ACCESS |-> vfs_access,
     GETCWD |-> vfs_getcwd, STAT |-> vfs_stat, WRITE |-> vfs_write,
     MKDIR |-> vfs_mkdir, RMDIR |-> vfs_rmdir, UNLINK |-> vfs_unlink,
     FTRUNCATE |-> vfs_ftruncate, READ |-> vfs_read, FCHMOD |-> vfs_fchmod,
     FCHOWN |-> vfs_fchown, GETEUID |-> vfs_geteuid, GETPID |-> vfs_getpid,
     GETENV |-> vfs_getenv, LSEEK |-> vfs_lseek, FSYNC |-> vfs_fsync,
     SLEEP |-> vfs_sleep, GETTIMEOFDAY |-> vfs_getdayoftime,
     PWRITE |-> vfs_pwrite, PREAD |-> vfs_pread, TRUNCATE |-> vfs_truncate,
     FSTAT |-> vfs_fstat, FCNTL_VOID |-> vfs_fcntl_void,
     FCNTL_INT |-> vfs_fcntl_int, FCNTL_FLOCK |-> vfs_fcntl_flock,
     UTIMES |-> vfs_utimes, TIME |-> vfs_time, USLEEP |-> vfs_usleep,
     FILESIZE |-> vfs_filesize]

tee_supp_param_is_value(p) == p = V
tee_supp_param_is_memref(p) == p \in {In, Out}

\* get_value and get_param find parameters of the type they look for.
get_value(params, i) == i < Len(params) /\ tee_supp_param_is_value(params[i + 1])
get_param(params, i) == i < Len(params) /\ tee_supp_param_is_memref(params[i + 1])

\* The tests at the head of a handler; it returns an error and touches nothing
\* when they fail.
Accepts(h, params) ==
    /\ Len(params) = h.num
    /\ \A i \in h.values : get_value(params, i)
    /\ \A i \in h.memrefs : get_param(params, i)

VARIABLES
    daemon,     \* "up", or "gone" once tee-supplicant has crashed
    wild,       \* system calls that have used a pointer they never set: what
                \* happens next is undefined, and no longer modelled
    mode,       \* what runs in each session: "ldelf", which loads the application,
                \* the application, "ta", or nothing any more, "left"
    pc,         \* "idle", "run", "exit", of each session
    call,       \* the system call under way
    step,       \* how much of its plan it has done
    held,       \* the payloads it holds
    b,          \* params[0].u.value.b
    did,        \* what Linux did of it: "nothing", "ok" or "error"; "unknown" when
                \* the last remote procedure call failed
    last,       \* what came of the session's last system call, until the next
    traced      \* syscall_trace_enabled of the session's ftrace buffer: "off", "on"

vars == <<daemon, wild, mode, pc, call, step, held, b, did, last, traced>>

NoCall == "none"
NoResult == [call |-> NoCall, ret |-> "void", did |-> "nothing"]

Init ==
    /\ daemon = "up" /\ wild = {}
    /\ mode = [s \in Sessions |-> "ldelf"]
    /\ pc = [s \in Sessions |-> "idle"]
    /\ call = [s \in Sessions |-> NoCall]
    /\ step = [s \in Sessions |-> 0]
    /\ held = [s \in Sessions |-> {}]
    /\ b = [s \in Sessions |-> "0"]
    /\ did = [s \in Sessions |-> "nothing"]
    /\ last = [s \in Sessions |-> NoResult]
    /\ traced = [s \in Sessions |-> "off"]

\* The function and the handler behind each stub.
FunctionOf == [c \in Calls |-> get_tee_syscall_func(TEE_SCN(c))]
HandlerOf == [c \in Calls |->
                 tee_supp_vfs_process[Operation(OPTEE_VFS(Functions[FunctionOf[c]].code))]]

Sc(s) == Functions[FunctionOf[call[s]]]
Steps(s) == Sc(s).plan.steps

\* The payloads whose allocation has been tried.
Tried(s) == 1 .. Cardinality({i \in 1 .. step[s] : Steps(s)[i] = "alloc"})

\* Arguments from the fifth on are on the stack where the ABI has four registers for
\* them: as many are taken from there as the stub announces.
Carried(arguments, announced) == arguments <= 4 \/ arguments <= announced

\* Function f of the kernel gets what it takes from the callers of stub c.
Arrives(c, f) ==
    KernelPrototypes[f] <= VfsPrototypes[c] /\ Carried(KernelPrototypes[f], VfsStubs[c])

\* A call is traced while it runs, unless it is one that another application serves.
Elsewhere ==
    {TEE_SCN(c) : c \in {"open_ta_session", "close_ta_session", "invoke_ta_command"}}

ftrace_syscall_enter(s, num) ==
    IF num \in Elsewhere THEN traced ELSE [traced EXCEPT ![s] = "on"]

ftrace_syscall_leave(s) == [traced EXCEPT ![s] = "off"]

\* scall_handle_user_ta on a stub of a vfs call: the function of the number it sends.
Enter(s) ==
    /\ mode[s] = "ta" /\ pc[s] = "idle"
    /\ pc' = [pc EXCEPT ![s] = "run"]
    /\ \E c \in Calls :
          LET f == FunctionOf[c] IN
          /\ VfsStubs[c] <= TEE_SVC_MAX_ARGS /\ f \in DOMAIN Functions
          /\ call' = [call EXCEPT ![s] = c]
          /\ wild' = IF Arrives(c, f) THEN wild ELSE wild \cup {c}
          /\ traced' = ftrace_syscall_enter(s, TEE_SCN(c))
    /\ last' = [last EXCEPT ![s] = NoResult]
    /\ UNCHANGED <<daemon, mode, step, held, b, did>>

\* Any other number of a system call, with any number of arguments, from the code that
\* runs in the session; what the function does is not modelled.
Numbers == (0 .. TEE_SCN_MAX + 1) \ {TEE_SCN(c) : c \in Calls}

\* scall_sys_return_helper: where a session goes that does not return to user mode.
Returned(m, f) ==
    CASE f = "panic" -> "left"
      [] f = "sys_return" /\ m = "ldelf" -> "ta"
      [] f = "sys_return" /\ m = "ta" -> "left"
      [] OTHER -> m

Outcome(m, f, max_args) ==
    IF max_args > TEE_SVC_MAX_ARGS THEN [mode |-> m, ret |-> "error"]
    ELSE [mode |-> Returned(m, f), ret |-> IF f = "not_supported" THEN "error" ELSE "void"]

scall_handle_user_ta ==
    {Outcome("ta", get_tee_syscall_func(num), max_args) :
        num \in Numbers, max_args \in 0 .. TEE_SVC_MAX_ARGS + 1}

scall_handle_ldelf ==
    {Outcome("ldelf", get_ldelf_syscall_func(num), max_args) :
        num \in 0 .. TEE_SCN_MAX + 1, max_args \in 0 .. TEE_SVC_MAX_ARGS + 1}

OtherCall(s) ==
    /\ mode[s] # "left" /\ pc[s] = "idle"
    /\ \E o \in IF mode[s] = "ta" THEN scall_handle_user_ta ELSE scall_handle_ldelf :
          /\ mode' = [mode EXCEPT ![s] = o.mode]
          /\ last' = [last EXCEPT ![s] = [NoResult EXCEPT !.ret = o.ret]]
    /\ traced' = ftrace_syscall_leave(s)
    /\ UNCHANGED <<daemon, wild, pc, call, step, held, b, did>>

\* The same from the stubs that libutee has for those calls.
CoreCalls ==
    {[o |-> Outcome("ta", get_tee_syscall_func(TEE_SCN(c)), CoreStubs[c]),
      wild |-> IF Carried(CorePrototypes[c], CoreStubs[c]) THEN {} ELSE {c}] : c \in DOMAIN CoreStubs}

CoreCall(s) ==
    /\ mode[s] = "ta" /\ pc[s] = "idle"
    /\ \E c \in CoreCalls :
          /\ mode' = [mode EXCEPT ![s] = c.o.mode]
          /\ last' = [last EXCEPT ![s] = [NoResult EXCEPT !.ret = c.o.ret]]
          /\ wild' = wild \cup c.wild
    /\ traced' = ftrace_syscall_leave(s)
    /\ UNCHANGED <<daemon, pc, call, step, held, b, did>>

\* The next session of the application (external).
OpenSession(s) ==
    /\ mode[s] = "left" /\ mode' = [mode EXCEPT ![s] = "ldelf"]
    /\ UNCHANGED <<daemon, wild, pc, call, step, held, b, did, last, traced>>

Doing(s, what) ==
    /\ pc[s] = "run"
    /\ step[s] < Len(Steps(s))
    /\ Steps(s)[step[s] + 1] = what
    /\ step' = [step EXCEPT ![s] = @ + 1]

\* thread_rpc_alloc_payload (external): a payload, one that is too short, or none.
\* After the last two the call goes to its exit label.
Alloc(s) ==
    /\ Doing(s, "alloc")
    /\ \/ /\ daemon = "up"
          /\ held' = [held EXCEPT ![s] = @ \cup {Cardinality(Tried(s)) + 1}]
          /\ pc' \in {pc, [pc EXCEPT ![s] = "exit"]}
       \/ /\ pc' = [pc EXCEPT ![s] = "exit"]
          /\ UNCHANGED held
    /\ UNCHANGED <<daemon, wild, mode, call, b, did, last, traced>>

\* The last remote procedure call of the plan is the one that asks Linux.
Final(s) == step[s] + 1 = Len(Steps(s))

\* process_one_request: the service that a command number leads to.
process_one_request(func) ==
    IF \E c \in DOMAIN Commands : Commands[c][1] = func
    THEN Commands[CHOOSE c \in DOMAIN Commands : Commands[c][1] = func][2]
    ELSE "not supported"

\* A request with a meta parameter behind one that is none is malformed.
find_params(params) ==
    \A i, j \in DOMAIN params : i < j /\ params[j] = Meta => params[i] = Meta

\* thread_rpc_cmd reaches the handler of the code that was sent.
ThreadRpcCmd(s) ==
    LET h == HandlerOf[call[s]] IN
    /\ Doing(s, "rpc") /\ daemon = "up"
    /\ find_params(Sc(s).params) /\ process_one_request(OPTEE_RPC_CMD_VFS) = "vfs"
    /\ \/ \* TEEC_ERROR_BAD_PARAMETERS
          /\ ~Accepts(h, Sc(s).params)
          /\ UNCHANGED <<daemon, b, did>>
       \/ \* a value that was never fetched is dereferenced, or strlen(NULL) when
          \* the variable is not in the environment
          /\ Accepts(h, Sc(s).params)
          /\ ~(h.derefs \subseteq h.values) \/ h.linux = "getenv"
          /\ daemon' = "gone"
          /\ did' = [did EXCEPT ![s] = "unknown"]
          /\ UNCHANGED b
       \/ /\ Accepts(h, Sc(s).params)
          /\ h.derefs \subseteq h.values
          /\ \E r \in {"ok", "error"} :
                /\ h.linux = "getenv" => r = "ok"
                /\ b' = IF h.setsB THEN [b EXCEPT ![s] = r] ELSE b
                /\ did' = [did EXCEPT ![s] =
                              IF Final(s) /\ h.linux = call[s] THEN r ELSE "nothing"]
          /\ UNCHANGED daemon
    /\ UNCHANGED <<wild, mode, pc, call, held, last, traced>>

\* The remote procedure call fails, before or after Linux did its part: b keeps the 0
\* it was sent with, or, on the second call of getenv, the length the first returned.
RpcFails(s) ==
    /\ Doing(s, "rpc")
    /\ did' = [did EXCEPT ![s] = "unknown"]
    /\ UNCHANGED <<daemon, wild, mode, pc, call, held, b, last, traced>>

\* The plan is done: the result is taken from b, whatever thread_rpc_cmd returned.
Result(c, v) ==
    CASE c = "getcwd" -> "ok"       \* __buf
      [] c = "getenv" -> "ok"       \* a copy of the payload
      [] c = "usleep" -> "void"
      [] OTHER -> v

\* Mutant of OutOfMemory: result is returned in the place of ret.
OutOfMemory_Code(c) == "TEE_ERROR_OUT_OF_MEMORY"

\* The value a call returns when it cannot allocate a payload.
OutOfMemory(c) == IF c = "getcwd" THEN "ok" ELSE "error"

\* The payloads freed on the way out.
Freed(s) == IF Tried(s) = {} THEN {} ELSE Sc(s).plan.frees[Cardinality(Tried(s))]

\* Whether the way out uses a pointer that was never set: the copy behind the exit
\* label, a payload that was never tried, or what malloc returned when it fails
\* (syscall_vfs_getenv copies into it unseen).
UsesUnset(s) ==
    \/ pc[s] = "exit" /\ Sc(s).atExit
    \/ ~(Freed(s) \subseteq Tried(s))

MallocFails(s) == pc[s] = "run" /\ call[s] = "getenv"

\* From the end of the plan, or from an exit label, to the return.
Return(s) ==
    /\ pc[s] = "exit" \/ (pc[s] = "run" /\ step[s] = Len(Steps(s)))
    /\ \/ wild' = IF UsesUnset(s) THEN wild \cup {call[s]} ELSE wild
       \/ MallocFails(s) /\ wild' = wild \cup {call[s]}
    /\ held' = [held EXCEPT ![s] = @ \ Freed(s)]
    /\ last' = [last EXCEPT ![s] =
                  [call |-> call[s], did |-> did[s],
                   ret |-> IF pc[s] = "run" THEN Result(call[s], b[s])
                                            ELSE OutOfMemory(call[s])]]
    /\ pc' = [pc EXCEPT ![s] = "idle"]
    /\ call' = [call EXCEPT ![s] = NoCall]
    /\ step' = [step EXCEPT ![s] = 0]
    /\ b' = [b EXCEPT ![s] = "0"]
    /\ did' = [did EXCEPT ![s] = "nothing"]
    /\ traced' = ftrace_syscall_leave(s)
    /\ UNCHANGED <<daemon, mode>>

Next ==
    \E s \in Sessions :
        OpenSession(s) \/ OtherCall(s) \/ CoreCall(s) \/ Enter(s) \/ Alloc(s) \/ ThreadRpcCmd(s) \/ RpcFails(s) \/ Return(s)

Spec == Init /\ [][Next]_vars

-----------------------------------------------------------------------------
(***************************************************************************)
(* Properties.                                                             *)
(***************************************************************************)

\* The types of the system calls' state.
CallTypes ==
    /\ daemon \in {"up", "gone"} /\ wild \subseteq Calls \cup DOMAIN CoreStubs
    /\ mode \in [Sessions -> {"ldelf", "ta", "left"}]
    /\ pc \in [Sessions -> {"idle", "run", "exit"}]
    /\ call \in [Sessions -> Calls \cup {NoCall}]
    /\ step \in [Sessions -> 0 .. 4]
    /\ held \in [Sessions -> SUBSET {1, 2}]
    /\ b \in [Sessions -> {"0", "ok", "error"}]
    /\ did \in [Sessions -> {"nothing", "ok", "error", "unknown"}]
    /\ last \in [Sessions -> [call : Calls \cup {NoCall},
                               ret : {"void", "0", "ok", "error"},
                               did : {"nothing", "ok", "error", "unknown"}]]

\* The sessions' state is well typed, and no session is traced between two calls.
TypeOK ==
    /\ CallTypes
    /\ traced \in [Sessions -> {"off", "on"}]
    /\ \A s \in Sessions : pc[s] = "idle" => traced[s] = "off"

\* Unless its remote procedure call fails, a system call reaches the handler and the
\* Linux call of its own name and returns what Linux returned; it has done nothing
\* only if it says "error".  The exceptions are the calls whose code or result is
\* not relayed: truncate (sent as FTRUNCATE, tee_sqlite.c:682, and refused) and
\* getcwd (no result), and usleep, which has none.
Relayed ==
    \A s \in Sessions :
        /\ last[s].call \notin {NoCall, "truncate", "getcwd", "usleep"}
        /\ last[s].did # "unknown"
        => \/ last[s].ret = last[s].did
           \/ last[s].ret = "error" /\ last[s].did = "nothing"

\* No payload outlives its system call, whichever allocation failed and however:
\* the exit labels free what was allocated.
NoPayloadLeft == \A s \in Sessions : pc[s] = "idle" => held[s] = {}

\* No system call uses a pointer it has not set, but for the copy behind the exit
\* label of fcntl_flock (tee_sqlite.c:824) and the unchecked malloc of getenv
\* (tee_sqlite.c:540).
OnlyKnownWild == wild \subseteq {"fcntl_flock", "getenv"}

\* tee-supplicant survives every request but pwrite, whose handler uses a value it
\* has not fetched (tee_supplicant.c:1038), and getenv of a name that is not in the
\* environment (tee_supplicant.c:943).
OnlyKnownCrashes ==
    [][daemon' # daemon => \E s \in Sessions : step'[s] # step[s] /\ call[s] \in {"pwrite", "getenv"}]_vars
=============================================================================
