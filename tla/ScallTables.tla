---------------------------- MODULE ScallTables -----------------------------
(***************************************************************************)
(* The tables that lead from a call in a trusted application to a function *)
(* of the secure kernel, and from there to a handler of tee-supplicant:    *)
(* system-call numbers and stubs (libutee), the tables of kernel/scall.c,  *)
(* and the codes of vfs operations in the headers of either side.  Calls   *)
(* and functions are named without their prefixes (TEE_SCN_, syscall_,     *)
(* vfs_); the number of an entry is its position, counted from 0.          *)
(***************************************************************************)
EXTENDS Integers, Sequences

TEE_SVC_MAX_ARGS == 8

\* tee_syscall_numbers.h.
CoreNumbers ==
    <<"return", "log", "panic", "get_property", "get_property_name_to_index",
      "open_ta_session", "close_ta_session", "invoke_ta_command", "check_access_rights",
      "get_cancellation_flag", "unmask_cancellation", "mask_cancellation", "wait",
      "get_time", "set_ta_time", "cryp_state_alloc", "cryp_state_copy",
      "cryp_state_free", "hash_init", "hash_update", "hash_final", "cipher_init",
      "cipher_update", "cipher_final", "cryp_obj_get_info", "cryp_obj_restrict_usage",
      "cryp_obj_get_attr", "cryp_obj_alloc", "cryp_obj_close", "cryp_obj_reset",
      "cryp_obj_populate", "cryp_obj_copy", "cryp_derive_key",
      "cryp_random_number_generate", "authenc_init", "authenc_update_aad",
      "authenc_update_payload", "authenc_enc_final", "authenc_dec_final",
      "asymm_operate", "asymm_verify", "storage_obj_open", "storage_obj_create",
      "storage_obj_del", "storage_obj_rename", "storage_enum_alloc",
      "storage_enum_free", "storage_enum_reset", "storage_enum_start",
      "storage_enum_next", "storage_obj_read", "storage_obj_write", "storage_obj_trunc",
      "storage_obj_seek", "cryp_obj_generate_key">>

VfsNumbers ==
    <<"open", "close", "access", "getcwd", "stat", "write", "mkdir", "rmdir", "unlink",
      "ftruncate", "read", "fchmod", "fchown", "geteuid", "getpid", "getenv", "lseek",
      "fsync", "sleep", "pread", "pwrite", "truncate", "gettimeofday", "fstat",
      "fcntl_void", "fcntl_int", "fcntl_flock", "utimes", "time", "usleep", "filesize">>

\* Fifteen numbers of the Secure Element API are not in use any more.
tee_syscall_numbers ==
    CoreNumbers \o [i \in 1..15 |-> "deprecated"] \o <<"cache_operation">> \o VfsNumbers

TEE_SCN_MAX == 101
TEE_SCN(name) == (CHOOSE i \in DOMAIN tee_syscall_numbers : tee_syscall_numbers[i] = name) - 1

\* utee_syscalls_asm.S: the arguments that each stub announces.
CoreStubs ==
    [return |-> 1, log |-> 2, panic |-> 2, get_property |-> 7, get_property_name_to_index |-> 4,
     open_ta_session |-> 5, close_ta_session |-> 1, invoke_ta_command |-> 5,
     get_cancellation_flag |-> 1, check_access_rights |-> 3, unmask_cancellation |-> 1,
     mask_cancellation |-> 1, wait |-> 1, get_time |-> 2, set_ta_time |-> 1, cryp_state_alloc |-> 5,
     cryp_state_copy |-> 2, cryp_state_free |-> 1, hash_init |-> 3, hash_update |-> 3,
     hash_final |-> 5, cipher_init |-> 3, cipher_update |-> 5, cipher_final |-> 5,
     cryp_obj_get_info |-> 2, cryp_obj_restrict_usage |-> 2, cryp_obj_get_attr |-> 4,
     cryp_obj_alloc |-> 3, cryp_obj_close |-> 1, cryp_obj_reset |-> 1, cryp_obj_populate |-> 3,
     cryp_obj_copy |-> 2, cryp_derive_key |-> 4, cryp_random_number_generate |-> 2,
     authenc_init |-> 6, authenc_update_aad |-> 3, authenc_update_payload |-> 5,
     authenc_enc_final |-> 7, authenc_dec_final |-> 7, asymm_operate |-> 7, asymm_verify |-> 7,
     storage_obj_open |-> 5, storage_obj_create |-> 8, storage_obj_del |-> 1,
     storage_obj_rename |-> 3, storage_enum_alloc |-> 1, storage_enum_free |-> 1,
     storage_enum_reset |-> 1, storage_enum_start |-> 2, storage_enum_next |-> 4,
     storage_obj_read |-> 4, storage_obj_write |-> 3, storage_obj_trunc |-> 2,
     storage_obj_seek |-> 3, cryp_obj_generate_key |-> 4, cache_operation |-> 3]

VfsStubs ==
    [open |-> 3, close |-> 1, access |-> 2, getcwd |-> 2, stat |-> 2, write |-> 3, mkdir |-> 2, rmdir |-> 1,
     unlink |-> 2, ftruncate |-> 2, read |-> 3, fchmod |-> 2, fchown |-> 3, geteuid |-> 0, getpid |-> 0,
     getenv |-> 1, lseek |-> 3, fsync |-> 1, sleep |-> 1, pread |-> 1, pwrite |-> 1, truncate |-> 2,
     gettimeofday |-> 2, fstat |-> 2, fcntl_void |-> 2, fcntl_int |-> 3, fcntl_flock |-> 3,
     utimes |-> 2, time |-> 1, usleep |-> 1, filesize |-> 1]

\* utee_syscalls.h: the arguments that callers of those stubs give.  _utee_panic is not
\* the stub itself (__utee_panic), which takes one more.
StoragePrototypes ==
    [storage_obj_open |-> 5, storage_obj_create |-> 8, storage_obj_del |-> 1,
     storage_obj_rename |-> 3, storage_enum_alloc |-> 1, storage_enum_free |-> 1,
     storage_enum_reset |-> 1, storage_enum_start |-> 2, storage_enum_next |-> 4,
     storage_obj_read |-> 4, storage_obj_write |-> 3, storage_obj_trunc |-> 2,
     storage_obj_seek |-> 3, cache_operation |-> 3]

CorePrototypes ==
    [c \in DOMAIN CoreStubs |->
        IF c \in DOMAIN StoragePrototypes THEN StoragePrototypes[c]
        ELSE IF c = "panic" THEN 1 ELSE CoreStubs[c]]

VfsPrototypes == [VfsStubs EXCEPT !.pread = 4, !.pwrite = 4]

\* tee/tee_sqlite.h: the arguments that the functions of the kernel take.
KernelPrototypes == [VfsStubs EXCEPT !.pread = 4, !.pwrite = 4]

\* scall.c: "This array is ordered according to the SYSCALL ids TEE_SCN_xxx".
CoreEntries ==
    <<"sys_return", "log", "panic", "get_property", "get_property_name_to_index",
      "open_ta_session", "close_ta_session", "invoke_ta_command", "check_access_rights",
      "get_cancellation_flag", "unmask_cancellation", "mask_cancellation", "wait",
      "get_time", "set_ta_time", "cryp_state_alloc", "cryp_state_copy",
      "cryp_state_free", "hash_init", "hash_update", "hash_final", "cipher_init",
      "cipher_update", "cipher_final", "cryp_obj_get_info", "cryp_obj_restrict_usage",
      "cryp_obj_get_attr", "cryp_obj_alloc", "cryp_obj_close", "cryp_obj_reset",
      "cryp_obj_populate", "cryp_obj_copy", "cryp_derive_key",
      "cryp_random_number_generate", "authenc_init", "authenc_update_aad",
      "authenc_update_payload", "authenc_enc_final", "authenc_dec_final",
      "asymm_operate", "asymm_verify", "storage_obj_open", "storage_obj_create",
      "storage_obj_del", "storage_obj_rename", "storage_alloc_enum",
      "storage_free_enum", "storage_reset_enum", "storage_start_enum",
      "storage_next_enum", "storage_obj_read", "storage_obj_write", "storage_obj_trunc",
      "storage_obj_seek", "obj_generate_key">>

VfsEntries ==
    <<"open", "close", "access", "getcwd", "stat", "write", "mkdir", "rmdir", "unlink",
      "ftruncate", "read", "fchmod", "fchown", "geteuid", "getpid", "getenv", "lseek",
      "fsync", "sleep", "pread", "pwrite", "truncate", "gettimeofday", "fstat",
      "fcntl_void", "fcntl_int", "fcntl_flock", "utimes", "time", "usleep", "filesize">>

tee_syscall_table ==
    CoreEntries \o [i \in 1..15 |-> "not_supported"] \o <<"cache_operation">> \o VfsEntries

ldelf_syscall_table ==
    <<"sys_return", "log", "panic", "map_zi", "unmap", "open_bin", "close_bin",
      "map_bin", "copy_from_bin", "set_prot", "remap", "gen_rnd_num">>

LDELF_SCN_MAX == 11

\* The assertions that the build makes: one entry for each number, and no stub with more
\* arguments than a system call may have.
ASSUME TablesAssumption ==
    /\ Len(tee_syscall_table) = TEE_SCN_MAX + 1
    /\ Len(ldelf_syscall_table) = LDELF_SCN_MAX + 1
    /\ \A c \in DOMAIN CoreStubs : CoreStubs[c] <= TEE_SVC_MAX_ARGS
    /\ \A c \in DOMAIN VfsStubs : VfsStubs[c] <= TEE_SVC_MAX_ARGS

get_tee_syscall_func(num) ==
    IF num > TEE_SCN_MAX THEN "not_supported" ELSE tee_syscall_table[num + 1]

get_ldelf_syscall_func(num) ==
    IF num > LDELF_SCN_MAX THEN "not_supported" ELSE ldelf_syscall_table[num + 1]

\* vfs.h of the kernel, and optee_msg_supplicant.h.
KernelCodes ==
    <<"OPEN", "CLOSE", "ACCESS", "GETCWD", "STAT", "WRITE", "READ", "FCHMOD", "FCHOWN",
      "MKDIR", "RMDIR", "UNLINK", "FTRUNCATE", "GETEUID", "GETPID", "GETENV", "LSEEK",
      "FSYNC", "SLEEP", "PREAD", "GETTIMEOFDAY", "PWRITE", "TRUNCATE", "FSTAT",
      "FCNTL_VOID", "FCNTL_INT", "FCNTL_FLOCK", "UTIMES", "TIME", "USLEEP", "FILESIZE">>

SupplicantCodes ==
    <<"OPEN", "CLOSE", "ACCESS", "GETCWD", "STAT", "WRITE", "READ", "FCHMOD", "FCHOWN",
      "MKDIR", "RMDIR", "UNLINK", "FTRUNCATE", "GETEUID", "GETPID", "GETENV", "LSEEK",
      "FSYNC", "SLEEP", "PREAD", "GETTIMEOFDAY", "PWRITE", "TRUNCATE", "FSTAT",
      "FCNTL_VOID", "FCNTL_INT", "FCNTL_FLOCK", "UTIMES", "TIME", "USLEEP", "FILESIZE">>

\* The code of operation op, and the operation of a code.
OPTEE_VFS(op) == (CHOOSE i \in DOMAIN KernelCodes : KernelCodes[i] = op) - 1
Operation(code) == SupplicantCodes[code + 1]

\* OPTEE_MSG_RPC_CMD_*: the services of tee-supplicant by number.
FirstCommands == <<<<0, "load_ta">>, <<1, "rpmb">>, <<2, "fs">>, <<30, "vfs">>>>
LaterCommands == <<<<6, "shm_alloc">>, <<7, "shm_free">>, <<9, "gprof">>, <<10, "socket">>,
                   <<11, "ftrace">>, <<12, "plugin">>>>
Commands == FirstCommands \o LaterCommands

\* What the kernel sends vfs requests as (external: its header is not in the repository).
OPTEE_RPC_CMD_VFS == 30
=============================================================================
