# nuk4sd: a TLA+ model of the vault core

nuk4sd keeps *vaults*: directories whose files can be encrypted with a password,
protected by write-once (WORM) flags, watched for changes, and entered through FUSE or a
sandbox. The core is C (`c_src/vault`), driven by a Rust `main` that is either a
one-shot command line or a REPL. This directory holds TLA+ specifications of the core,
the TLC configurations that check them on small instances, and theorems about them
checked by TLAPS.

## 1. Inventory

| Component | State | Operations | Hard about it | What makes it correct |
|---|---|---|---|---|
| Vault catalog (`vault_catalog.c`, `vault_core.h`) | `g_catalog`: array of `Vault`, `count`, `next_id` | `vault_create/delete/rename/unlock/change_password`, find by id or name | `next_id` is taken before steps that fail; a failed save leaves memory ahead of the file | names and ids unique; an acknowledged vault is never lost; ids (and `cipher_<id>`) never reused |
| Catalog persistence (same file) | `catalog.dat`, `catalog.dat.tmp` | `catalog_save`, `catalog_load` | crash between system calls, several processes, unchecked writes | the file is always one complete catalog; a save is all or nothing and says which |
| Authentication (`vault_crypto.c`) | `salt`, `pass_hash`, `failed_attempts`, `status` | `auth_set_password`, `auth_verify_password` | lockout spread over five calls and the alerts | counter and status agree; nothing acts on a LOCKED vault |
| File encryption, re-keying (`vault_crypto.c`, `vault_ffi.c`) | `f` and `f.enc` in the vault's directory, temporaries | `vault_encrypt_ffi`, `vault_decrypt_ffi`, `rekey_vault_files` | file-by-file work that may die or fail in the middle | no file lost; one key for all files; no plaintext left behind |
| WORM flags (`vault_fuse.c` 880-922) | `worm_flags` | set, clear, set SCAN | SCAN must survive clears, crashes, failed saves | SCAN is irrevocable once acknowledged |
| Process life cycle and FFI (`vault_ffi.c`, `main.rs`) | `g_catalog` between init and shutdown, `g_monitor.lock` | `vault_ffi_init`, `vault_ffi_shutdown`, Ctrl-C | failed load followed by a save; a shutdown beside a call in progress | a process saves only what it loaded |
| Alerts (`vault_monitor.c` 371-464) | `status`, `alert` | `alert_trigger`, `alert_check_escalation`, `alert_resolve` | ALERT overwrites LOCKED; the escalation closes the directory and saves nothing | an unresolved change is never forgotten; a closed directory has its alert on record |
| Integrity monitor (`vault_monitor.c`) | hash table of files, `last_seen`, monitor thread | scan, periodic escalation | alert saved in the middle of a scan, times of one second, restarts | a scan misses nothing; an alert nobody answers escalates |
| FUSE mount, sealing (`vault_fuse.c`) | `is_mounted`, FUSE thread, mode of `cipher_<id>` | mount, unmount, `atexit` seal | the thread keeps a `Vault *` without a lock; unmount returns before the seal; Ctrl-C | the cipher directory is sealed whenever no session serves it; a session serves its own vault |
| FUSE handlers (`vault_fuse.c`) | files of `cipher_<id>` | open, create, read, write, truncate, unlink, rename, mkdir, rmdir | flags and salt change under a request | WORM keeps what it promises; a read returns what was written |
| Policy engine (`vault_engine.c`) | `engine_level`, tree `.engine_decoy` | apply, validate, clean-up | builds and clean-ups that fail half way; size estimate | an apply or validation that says OK has a complete tree |
| Sandbox (`c_src/sandbox`, `run_isolated` of `vault_cli.c`) | three processes, four pipes, whitelist, cgroup, veth | `vault_sandbox_open`, `run_isolated` | any process killed, any step failing, order of set-up | no program runs half isolated; a session ends, is reported and tidied up |
| Jail file system (`vault_cli.c` 2100-2760) | the mounts PID 1 makes | `--ro --rw --blacklist --ro-home --rw-home --wayland --x11 --no-dbus --no-proc ...` | order of mounts; failures let pass | the last word on a path holds |
| Snapshots and repair (`vault_ops.rs`) | `.vault_snapshots`, `.vault_restore_stage` | create, delete, restore, repair | killed in place; stages left behind | a returned tag stays what it was; a restore is exact |
| Lock, baseline, backup, key rotation (`vault_ops.rs`) | lock file, baseline | | test-then-write lock | see "Not modelled" |
| CLI, REPL (`vault_cli.c`, `repl.rs`) | parsed flags | dispatch to the calls above | order of flags | each flag has its documented effect |
| Daemon (`daemon.rs`), overlay and containers | | not compiled in, or never called | | |
| Logging, manual, system information, presets, OCI, packaging | none that matters here | | | |

How they interact: the CLI and the REPL call the FFI; each FFI call takes
`g_monitor.lock`, changes a record of `g_catalog` and usually saves the whole catalog.
The monitor thread (only with `CAP_SYS_ADMIN`) takes the same lock. The FUSE threads and
the Ctrl-C handler use records without it. Between *processes* there is no lock: they meet only in
`catalog.dat`, `catalog.dat.tmp` and the vault directories. `PROJECT.json` lists the
hazards this gives rise to, each at its line and with the properties that cover it.

## 2. Modules

| Module | Models |
|---|---|
| `VaultCatalog` | The catalog of several processes and the file they share. One action per call of the core; each call is atomic because it holds `g_monitor.lock`. |
| `MCVaultCatalog` | Symmetry sets and a view for TLC. |
| `VaultCatalog_proofs`, `CatalogStore_proofs`, `VaultFiles_proofs`, `VaultMount_proofs`, `VaultFuse_proofs`, `VaultIntegrity_proofs`, `VaultSnapshots_proofs` | The theorems about these modules (section 5). |
| `Isolation_proofs` | The theorems about `VaultEngine`, `Sandbox` and `JailTree`. |
| `CatalogStore` | `catalog_save` and `catalog_load` one system call at a time: inodes, the shared temporary, short writes, crashes. |
| `AtomicStore` | The abstract specification of it that `VaultCatalog` assumes: the file changes in one step or not at all. |
| `MCCatalogStore` | Sizes of the catalogs for TLC. |
| `VaultFiles` | The files of one vault under encryption, decryption and password change, system call by system call. |
| `VaultMount` | FUSE sessions, the physical seal and `catalog.dat` under the main thread, the FUSE threads and Ctrl-C. |
| `VaultFuse` | The FUSE handlers of one mounted vault: WORM checks and transparent encryption. |
| `VaultIntegrity` | Scans, alerts, escalation and resolution of one vault across restarts. |
| `VaultEngine` | The decoy tree of one vault and `engine_level`. |
| `Sandbox` | The parent, child and PID 1 of a sandbox session and their pipes. |
| `JailTree` | The mounts PID 1 makes for `--run`, and what the program can see through them. |
| `VaultSnapshots` | Snapshots, restore and repair of one vault, file by file. |
| `MCVaultMount`, `MCVaultFuse`, `MCVaultIntegrity`, `MCVaultEngine`, `MCVaultSnapshots` | Constants and symmetry sets of these for TLC. `Sandbox`, `JailTree` and `VaultFiles` are run as they are. |

How they fit together: `CatalogStore` justifies the atomic `catalog_save` of all the
others. `VaultCatalog`, `VaultMount`, `VaultIntegrity` and `VaultEngine` look at the same
record from four sides, each with the fields of it that its calls touch. `VaultMount` says
when a session may serve a directory, `VaultFuse` what it does there; `Sandbox` has the
processes and `JailTree` the file system that the last of them builds.

### VaultCatalog

`disk` is `catalog.dat` (or `NoCatalog`), `mem[p]` is `g_catalog` of process `p`, `up[p]`
says that `p` is between `vault_ffi_init` and `vault_ffi_shutdown`. The array, which
`vault_create` and `vault_delete` keep in ascending id order, is a function from ids; an
empty slot is `NoVault`. `issued`, `removed` and `sealed` record what calls acknowledged.
They are read by the properties only.

Each action is a whole call: its early returns that change something are disjuncts
(`AuthRefused` is the refused authentication every call shares), the trailing
`catalog_save` is part of it, and its result `err` is chosen by the environment. Returns
that change nothing are stuttering steps and not written down. A password is compared by
equality; `Broken` is the record left when the salt was replaced and the hash was not.
`vault_ffi_init_failed` is the load that fails while `main` goes on (switched by
`LoadMayFail`). `Crash` may happen between any two calls.

Left out of the record: time stamps, paths, the file hash table, `engine_level`,
`mac_mode`. Left out of the calls: directories and their modes, logging, auto-naming
(the name is chosen by the environment), empty passwords and invalid names (refused
without effect). `vault_delete` leaves `cipher_<id>` and the vault's directory on the
disk although `FLAGS_CHEATSHEET.md:73` says it erases the vault "do disco"; directories
are not in the model, so no run shows it.

### CatalogStore and AtomicStore

An inode holds blocks: a header and one block per record, each tagged with the version
it comes from. `fopen` truncates the temporary whoever writes to it, `fwrite` writes at
the process's own offset (a gap reads as zeros), `rename` moves whatever the temporary
name stands for. `DiskMayFill` switches the writes that fail unnoticed; `lost` records
that one did. `SaveIsAtomic` says that this implements `AtomicStore`, with the file's
contents as `file` and the three stages of a save as the one phase "saving". On a full
disk what is put in place atomically is the beginning of an image (`Kept`).

### VaultFiles

`plain`, `enc[f]` and `scratch` are the plaintext files, the key each `f.enc` is under
(`Torn` when it does not decrypt) and the temporaries; a key is a password with the salt
it was set with, so a key whose salt is held neither by `catalog.dat` nor by the running
process is lost. Every system call that changes a file is a step. `mishaps` records what
went wrong (crash, crash inside a password change, an error returned by one, a directory
that could not be opened, data lost at an unchecked `fclose`), so that each property
says under which mishaps it holds. POSIX leaves open whether `readdir` returns an entry
that was renamed over; `rekey_swap` allows both.

### VaultMount

`vaults` is the array with the slots past `count`, which keep what they held, because a
FUSE thread's `Vault *` is a slot and goes on pointing there when `vault_delete` moves the
records. `fresh` stands for `next_id`. Every save may fail and leave the file behind the
memory (`Save`), every chmod may fail unnoticed (`TryChmod`), and the list of deleted vaults
is kept so that `VaultsKept` can say what a later save may drop. `vault_create`,
`vault_delete` and `vault_fuse_mount` are cut where a FUSE thread
or the Ctrl-C handler, which take no lock, can come between; the handler is the wipe of
`vault_ffi_shutdown` with its save before it. `loose` names the directories for which the
code gives no guarantee (left open by a process that ended with sessions, by an abandoned
create, by a chmod that failed, or by a record moved under its thread), so that each property says exactly where
it holds. `Sound` is "the process runs and Ctrl-C has not wiped the catalog". AppArmor profiles are left out: mounts and
unmounts handle them, but so do `--mac-enable`, `--app-armor` and `--disable-apparmor`
without any session, and nothing of the lock depends on them.

### VaultFuse

A file is the stamp of its last write and the key stream it was stored under, derived
from the vault's salt and the path. A request checks `worm_flags`, then works on the file;
the main thread may change flags or password in between. libfuse serialises requests on
the same path, so one request in flight is enough. An open with `O_TRUNC` is a request of
its own: it empties the file after its check, like a truncate. A read whose decryption fails
answers with the stored bytes, because nobody looks at the result (`Garbled` unless they
were stored in the clear). `held` is what was there when the flags
last changed, without the name a request was already past its check for.

### VaultIntegrity

`mem` and `saved` are the record in memory and in `catalog.dat`: status, alert and, per
file, hash, flag and whether it was seen in the current second. `base` (history) is the
hash the owner registered or accepted. A scan that raises an alert saves in the middle
of its first loop (`SavedMidScan`), which is what a crash there leaves. Saves may fail
(`Save`), and so may the chmods of escalation and resolution: `lapse` (history) says that
the last save of the alert, or the resolution's chmod, failed and `denied` that the escalation's did. `Type`
is the vault's type, `FirstDisks` what its directory may hold at first.

### VaultEngine

A node of the decoy tree is the sequence of child indices to it; of its 26 decoys only
whether each letter has a text or a binary file is kept. Builds and clean-ups may fail at
any node. `Rounds` is the loop of `engine_estimate_nodes`, round by round. `intact` (history) is the level of the last apply that returned `ERR_OK`, until
somebody touches the tree.

### Sandbox

One action per step of each process; `pipe` says whether a byte is waiting and who holds
the write end, and a read returns on a byte or when no writer is left. Steps that may
fail have a failing twin with the exit the code takes. Any of the three may be killed
(`struck`). `vsb_pivot_root` has both its failing exits: the one with a code of its own
and `pivot_fatal`'s `EXIT_FAILURE`. Removals and the final chmod may fail; `left` records
what a call could not take away, and `held` also has the host's NAT rule and forwarding, which
nothing takes back. `layers` collects what has been done to isolate the program; the contents of a
layer (the seccomp rules, the capability list) are not modelled.

### JailTree

The jail is the list of mounts made so far, in which one that was taken away again is
marked "gone"; a path shows what the newest mount at or above it shows. `asked` is any command line of up to `MaxBinds` binds and `MaxOptions` further
options. `apart` are the paths that are file systems of their own, which the read-only
remount does not reach. The failures the code lets pass are collected in `lapses`, the ones that abort end
in "aborted".

### VaultSnapshots

A directory tree is a sequence of levels: its files, the files of its
`.vault_restore_stage`, those of the stage's own stage, and so on. With that a restore is
"put the snapshot below the vault's files, remove those, move every level one up". Copies
go file by file in any order (a subdirectory is copied as a whole, but as each file's
copies at two levels may come in either order, the order of the levels adds nothing);
each may be cut short, leaving a torn file. `acked[t]` (history) is the vault when tag `t`
was returned. The vault's own `.vault_history.log`, to which the calls append, is not among
the files.

## 3. Runs

| Run | Checks | Instance and why it is enough |
|---|---|---|
| `catalog_history` | `UniqueKeys`, `AckedVaultSurvives`, `ScanIrrevocable`, `IdsAreFresh` | One process at a time, two vaults, two names, ids 1 and 2: creation, deletion and renaming of one vault can disturb the other, an id is used up by a failed creation, every save may fail, and a crash may come anywhere. |
| `catalog_shared` | `TypeOK`, `LockoutConsistent`, `LockedIsFrozen` | Two processes, one name, a good and a too short password, a lockout after one attempt (the proofs cover every limit), loads that fail (id 0 is then handed out). The history variables are dropped from the states by `CatalogView`. |
| `store` | `TypeOK`, `FileIsComplete`, `SaveIsAtomic` | One process, three versions of two, one and two records, so that a leftover temporary may be longer or shorter than the next image; crashes and failing writes anywhere. That the file is complete holds until a write was lost, that it mixes no two catalogs and is replaced atomically also afterwards. |
| `files` | `TypeOK`, `DataKept`, `OneKey`, `ScratchCleaned` | Two files and two password changes: the first file can be done when the second fails. |
| `mount` | `TypeOK`, `ServesOwnVault`, `PhysicalLock` (`OpenHasOwner`, `NotSealedUnderSession`, `FlagHasSession`), `VaultsKept`, `SessionsWindUp` (`UnmountSeals`, `MountReturns`) | Two vaults in two slots, one of them there at first, so that a delete moves a record and a create reuses a slot; every save and chmod may fail; two sessions, so that one can outlive an unmount while the next starts; one vault with SCAN. |
| `fuse` | `TypeOK`, `Retention` (with `NamesKept`), `ScanFreezes`, `ReadsBack` | Two names (a rename onto an existing file), two writes, one password change; opens that truncate, reads that fail to decipher. |
| `integrity` | `TypeOK`, `AlertStands`, `ScanMissesNothing`, `ClosedIsOnRecord`, `AlertEscalates` | Two files (the second is scanned after the alert for the first was saved), alike at first, two contents, two changes, the shortest schedule of one interval, a PROTECTED vault (with attempts and a lockout); every save and chmod may fail. |
| `engine` | `AppliedIsComplete`, `ValidatedIsComplete` | Three levels: two branches, a deeper single one, and one beyond the cap of three nodes; text and binary decoys; two acts of damage. |
| `sandbox` | `TypeOK`, `ProgramIsolated`, `NothingLeftBehind` (`NothingLeftRunning`, `SessionScoped`), `FailureReported`, `SessionEnds` | Complete for its options: both modes, veth, filters on and off, one failing step per session, every process killed anywhere, every clean-up failing. |
| `jail` | `LastWordHolds`, `OptionsHonoured` (`BusHidden`, `VaultsHidden`, `ProcAsAsked`) | Up to two binds of a path, one below it and an unrelated one, so that each may cover the other; the home in its three modes; two further options; one failure let pass; which paths are file systems of their own. |
| `snapshots` | `CopiesComplete` (`SnapshotKept`, `ClearedIsStaged`), `RestoreReport` (`RestoreExact`, `StagingHarmless`), `RepairHeals` | Two files, two tags, two changes, two calls that fail or are killed: a stage left by the restore of one snapshot meets the restore of the other, a snapshot contains a stage, and what a second failure leaves is still recovered from. |

One run expects a violation:

| Run | Property | What TLC shows |
|---|---|---|
| `jail_blacklist` | `BlacklistBlinds` | `--blacklist` of a path under the home, with `--ro-home`: the path is not in the jail when the mask would be made, is skipped, and comes in with the home. `FLAGS_CHEATSHEET.md:208` says it blinds the process "completamente". |

Names in parentheses are the conjuncts of a property, each defined and explained on its own.
Each property of a passing run has a mutant: a faulty variant of a definition, kept next
to it and marked "Faulty variant", under which TLC finds the property violated.

**Deadlock** is checked in `mount`, `fuse`, `jail`, `integrity` and `engine`, where only a
finished program or an explicit rest stops. The others say `CHECK_DEADLOCK FALSE`: a process
or session may stay off for ever, and the bounds on ids, versions, keys, edits and lapses
end a behaviour that the program could continue.

**Bounds.** `MaxId`, `MaxFails` (VaultCatalog), `MaxVersion` (CatalogStore), `MaxKey`
(VaultFiles), `MaxSessions` (VaultMount), `MaxData`, `MaxSalt` (VaultFuse), `MaxChanges`
(VaultIntegrity), `MaxDamage` (VaultEngine), `MaxBinds`, `MaxOptions`, `MaxLapses`
(JailTree), `MaxDepth`, `MaxEdits`, `MaxLapses` (VaultSnapshots) cap counters in the
guards. `MAX_VAULTS`, `MAX_PASS_ATTEMPTS`, `ALERT_INTERVALS` and the engine's tables are
the program's own constants with small values. In `catalog_history`, `MaxFails` = 0 leaves
wrong passwords to `catalog_shared`.

**Fairness.** Always weak, and always of a call that is under way; nothing obliges anybody
to start one. `CatalogStore`: the steps of `catalog_save`, which only makes system calls in
sequence and waits for nobody. `VaultMount`: each session's thread
once its loop has ended, and the steps of a mount, create or delete in progress; not the
end of the loop itself, which is the kernel's or the user's. `Sandbox`: the steps of each
of the three processes, because the kernel schedules them; not the end of the program and
no kill. `VaultIntegrity`: the clock, and the periodic `alert_check_escalation`, because the
monitor's `select` returns at least every five seconds. `VaultCatalog`, `VaultFiles`,
`VaultFuse`, `VaultEngine`, `JailTree` and `VaultSnapshots` have no fairness and no liveness property.

## 4. Known disagreements

Found while modelling; the code is modelled as it is, and the properties above say under
which conditions they hold. Apart from the first they have no run of their own.

* `--blacklist` and the home (run `jail_blacklist`).
* Two processes: each saves the catalog it loaded, so an acknowledged SCAN
  (`vault_core.h:447`, "cannot be cleared programmatically") is lost to a process that
  started earlier; and they share `catalog.dat.tmp`, so that a rename can put an incomplete
  image in place (`vault_catalog.c:256`, "Atomic rename").
* `vault_unlock` authenticates, and authentication refuses every LOCKED vault:
  `--unlock` (`FLAGS_CHEATSHEET.md:75`, `vault_catalog.c:690`, the advice of the message at
  `vault_crypto.c:428`) never succeeds. `LockedIsFrozen` allows the re-opening these intend;
  the code never reaches it. On the other hand an integrity
  alert turns LOCKED into ALERT, and passwords are compared again past the limit
  (`vault_crypto.c:421`).
* `main.rs:90` says "continuing without persistence" after a failed load; the shutdown saves
  the empty catalog over the file.
* `vault_catalog.c:739` says "aborting to preserve data"; the files already re-keyed when a
  password change aborts are lost with the new salt. `rekey_vault_files` returns `ERR_OK`
  for a directory it cannot open, and the new salt is committed.
* `vfuse_read` does not look at the result of the decryption (`vault_fuse.c:335`): when it
  fails, the stored bytes are returned as if they were the file's.
* A file renamed through FUSE, or kept across a password change, no longer decrypts:
  its key stream depends on both. `mount-export`, the egress path of SCAN vaults
  (`vault_fuse.c:20`), copies FUSE-written files still encrypted.
* An AppArmor profile loaded for a vault whose `mac_mode` is off at the unmount outlives the
  session, and `vault_delete` removes none, although `apparmor.c` says of the removal "Called
  on vault unmount or delete so the kernel profile table stays clean".
* `pivot_fatal` ends the process with `EXIT_FAILURE` (`userns.c:12`), a code
  `vault_sandbox_open` does not know: an old root that
  cannot be detached is reported as `ERR_OK`.
  So are failures of capabilities, seccomp and exec.
* `run_isolated` leaves a cgroup behind when building or joining it fails half way
  (`oci.rs:213`, `vault_cli.c:1955`) or when it still has a process in it at the end, the result of the
  removal being ignored (`vault_cli.c:1994`); the NAT rule and `ip_forward` (`net.c:153`) are
  never taken back.
* `--ro` is not recursive: `cli_bind_recursive_ro` announces a "recursive read-only remount"
  (`vault_cli.c:2173`) and `FLAGS_CHEATSHEET.md:206` a read-only path, but the remount
  leaves file systems mounted below the path writable.
* `--no-dbus` hides the sockets (`FLAGS_CHEATSHEET.md:247`) in what is bound after it; with
  `--wayland`, which presets turn on by themselves (`preset.rs:631`), the run-time directory is
  bound before and the bus is visible (`vault_cli.c:2427`).
* One failed mount of /proc leaves the program with none, because one of two is always taken
  away again (`vault_cli.c:2717`).
* The X11 socket bound under `/tmp` is hidden by the tmpfs mounted there later.
* A restore that was killed leaves `.vault_restore_stage` in the vault; the next snapshot
  contains it, and restoring that snapshot moves the nested stage over the one being read:
  the result is not "the exact snapshot state" (`vault_ops.rs:814`). Without the condition
  `Clean`, TLC finds `RestoreExact` violated in 17 steps. A snapshot whose creation failed is
  accepted by restore and repair, and "newest snapshot" (`vault_ops.rs:1429`) is the last one
  `read_dir` returns.
* `vault_ffi.c:918` logs an engine level as saved; `catalog_save` does not write it.

## 5. Proofs

Each `<Module>_proofs` extends the module it is about (`Isolation_proofs` extends the
three it is about, whose names are distinct for that reason: `EngineInit`, `SandboxInit`, `JailInit` and
so on) and proves its theorems for all
constants that satisfy the module's named assumption: bounds are naturals, null values
(`None`, `Absent`, `Torn`, ...) are not values, tables have positive entries. Sets of files,
vaults, names and tags may be any size; where a theorem needs a set to be finite (`Names`
in `VaultFuse`, `Procs` and `Inodes` in `CatalogStore`, which must also have more inodes
than can be in use at a time) the assumption says so, and a real file system provides it.
TLC evaluates every assumption in the runs, and every inductive invariant below was
model-checked on the run's instance before it was proved.

| Module | Theorems (property) |
|---|---|
| `VaultCatalog` | `TypeCorrect` (`TypeOK`), `KeysStayUnique` (`UniqueKeys`), `LockoutStaysConsistent` (`LockoutConsistent`), `LockedStaysFrozen` (`LockedIsFrozen`); one process: `AcknowledgedVaultsSurvive` (`AckedVaultSurvives`), `ScanStaysSet` (`ScanIrrevocable`), `IdsStayFresh` (`IdsAreFresh`) |
| `CatalogStore` | `TypeCorrect` (`TypeOK`); one process: `FileStaysComplete` (`FileIsComplete`), `ReplacesAtomically` (safety of `SaveIsAtomic`) |
| `VaultFiles` | `TypeCorrect` (`TypeOK`), `NoFileLost` (`DataKept`), `AllUnderOneKey` (`OneKey`), `NoPlaintextLeft` (`ScratchCleaned`) |
| `VaultMount` | `TypeCorrect` (`TypeOK`), `CatalogKept` (`VaultsKept`), `ServesOwn` (`ServesOwnVault`), `LockHolds` (`PhysicalLock`) |
| `VaultFuse` | `TypeCorrect` (`TypeOK`), `ProtectedIsRetained` (`Retention`), `ScanIsFinal` (`ScanFreezes`), `ReadsReturnWrites` (`ReadsBack`) |
| `VaultIntegrity` | `TypeCorrect` (`TypeOK`), `MonitorNeverForgets` (`AlertStands`), `ScanIsComplete` (`ScanMissesNothing`), `ClosedHasAlert` (`ClosedIsOnRecord`) |
| `VaultEngine` | `ValidateIsSound` (`ValidatedIsComplete`), `ApplyIsComplete` (`AppliedIsComplete`) |
| `Sandbox` | `BoxTypesHold` (`TypeOK`), `ProgramRunsIsolated` (`ProgramIsolated`), `CallsLeaveNothing` (`NothingLeftBehind`), `FailuresAreReported` (`FailureReported`) |
| `JailTree` | `LastWordIsKept` (`LastWordHolds`), `OptionsAreKept` (`OptionsHonoured`) |
| `VaultSnapshots` | `SnapshotsStayComplete` (`CopiesComplete`), `RestoreReportsTruth` (`RestoreReport`), `RepairIsComplete` (`RepairHeals`) |

In every module but `VaultCatalog`'s single-process part, `InvariantHolds` is the theorem
`Spec => []IInv` the others follow from (`EngineInvariantHolds` with `EngineInv`,
`BoxInvariantHolds` with `BoxInv` and `JailInvariantHolds` with `JailInv` in `Isolation_proofs`). What `IInv` adds to the properties, and why:

* **VaultCatalog.** `IInv` is `TypeOK` and, for every catalog in memory and for the file,
  `GoodCatalog`: well typed, names unique and ids below `next_id`, status and counter in
  agreement. It is not inductive for one process alone: a process that loads inherits
  what another one saved. `StepGood` is the core: a step that gives one process a good
  catalog and leaves in the file its old contents or a good catalog keeps `IInv`.
  `LockedStaysFrozen` is an action property: a refused call changes nothing of a LOCKED
  record, and an accepted one needs a verdict a LOCKED vault never gets (`OpenNotLocked`);
  the property itself would also allow an unlock that opens the vault.
  For a single process and a readable file (`Procs = {p}`, `~LoadMayFail`),
  `HistoryHonoured` adds `SInv`: the file and, while it is up, the process know of every
  acknowledged call. It must speak of the *process*, because a later save stores what is in
  memory, and bound `next_id`, because a deleted vault's id must not come back. Neither
  condition can be dropped (section 4).
* **CatalogStore.** With one process the file and the temporary are different inodes, the
  temporary holds the image up to the process's offset (`Written`), and what is in memory
  is the whole of one catalog (`Whole`), or after a lost write the beginning of one. The
  refinement then goes step by step (`AtomicStep`): each step is an `AtomicStore` step or
  leaves its variables alone; only `rename` changes the file. With two processes
  `FileIsComplete` is false (section 4), and `TypeCorrect` is what remains.
* **VaultFiles.** `ControlInv` ties the temporary to the file in hand, `KeyInv` says under
  which keys files may be in the middle of a password change, and `DataInv` that before
  one form of a file is removed the other is complete.
* **VaultMount.** `MainInv` and `ThreadInv` tie each call to its slot and each session to
  its thread; with them `CatalogInv` (what the file lists and the array does not was deleted
  since it was loaded, as saves may fail; neither lists a vault twice) gives `VaultsKept`. For the lock, `PointerInv` says that a thread
  reaches its own vault or both vaults are known as loose, and `TightInv` that all other
  threads have a record in use to themselves with the flag up. The second is the crux: it
  is why no seal, failed mount or end of one session hits the vault of another (`Apart`).
* **VaultFuse.** A request checks the flags and acts later, when they may have changed, so
  `Retention` is not inductive: `Exempt` is the name a request may still change although
  the flags now forbid it, and the invariant counts without it. A truncating open past its check is such a request. `RequestInv` says that
  what a handler checked of the tree is still so when it acts.
* **VaultIntegrity.** Both records, in memory and saved, are `GoodRecord`: a crash goes back
  to the saved one, which may come from the middle of a scan. `SeenIsCurrent` says that
  an entry the scan skips because it was seen in this second is up to date. `OnRecord`
  (a closed directory's alert is in memory and, unless a save failed, in the file) and
  `Threads` carry `ClosedIsOnRecord`. That the schedule has a longest interval, which
  bounds the clock, is a least-counterexample argument (`LargestOf` from `LeastNat`): this
  form of induction needs no theorem with an operator parameter.
* **VaultEngine.** `EngineInv` is the properties with the range of the levels. The work is in two
  lemmas. `WalkIsComplete`: if a node is missing, one of least depth is, its parents are
  there, and the walk of `engine_validate` comes by it. `EstimateIsCount`: after i rounds of
  the loop in `engine_estimate_nodes`, `total` is the number of nodes down to layer i and
  `level_nodes` the size of the next layer (`Counted`). That the recursive function exists
  (`LoopExists`) and that `Counted` holds in every round are least-counterexample arguments;
  a bijection between a layer times the children and the next layer (`NextLayer`) replaces
  exponentiation.
* **Sandbox.** None of the properties says where the processes can be at the same time, so
  none is inductive. `PipeInv` does: as long as the parent holds the write end of the sync
  pipe the child has not come past its read and PID 1 does not exist, and as the pipe never
  carries a byte, its end of file *is* the release. `ProcessInv` ties the parent's position
  to the child being there, `LayerInv` says which layers each position implies (with the
  uid map missing only after the parent was killed), `ResourceInv` what the parent still has
  to take away or could not (`left`), and `NewsInv` where the news of a failure is: in PID 1's exit code, in the
  child's, in the parent's hands or in the result. The steps are checked one conjunct of
  the invariant at a time, each over all actions and the kills. `Sandbox` has no
  parameters, so the run is complete for it too; what the proof adds is the reason.
* **JailTree.** For command lines of any length, any options together and any failures let
  pass (the run has two, two and one). `BindInv` says after every step what `LastWordHolds`
  says at the end, for the binds done so far and counting only the covers done so far
  (`CoveredYet`): the step of a bind must keep the promises of all earlier binds
  (`BindingHonours`), and each later step mounts only where it covers (`LaterHonours`).
  `BusInv` and `VaultsInv` follow the two masks through the steps after them; `ProcInv`
  counts the /proc mounts, exactly and with the failed ones, up to the step that takes one
  away. For `--ro` the promise (`Honoured`) speaks of all paths below, with file systems of
  their own as the exception. What the proof needs about the kernel is in `MountShows`, `MountLeaves` and
  `UnmountLeaves`: a mount or unmount changes nothing that does not lie below it.
  The theorems are for `BindPaths` within `PlainPaths`, the home and /usr, as in the run. For
  paths of the run-time directory they are false: a `--ro` of the bus's socket is a mount made
  before the mask of `--no-dbus`, which does not reach it, and `--dbus-session` mounts over it
  again. Binds of /tmp, which can leave no place for the X sockets, are not modelled.
* **VaultSnapshots.** One conjunct per phase of a call: what has been copied, cleared and
  moved so far (`CreateInv`, `StageInv`, `ClearInv`, `StagedInv`, `MoveInv`, `RepairInv`).
  `StagedInv` is what makes a restore exact: from the first removal to the last move the
  stage holds all of the snapshot.

Only model-checked, and why:

* liveness (`SessionsWindUp`, `SessionEnds`, `AlertEscalates`) and the fairness half of
  `SaveIsAtomic`: the prover has no rules for `WF_` and `ENABLED`.

Every invariant and every action property that a run checks is stated by a theorem.

## 6. Not modelled

* Vault health: a report computed from the record, without state.
* The exclusive lock (consulted by no operation), the baseline (a comparison), backup and
  import (tar archives), key rotation (`walk_rekey` reaches no regular file).
* fanotify events (only logged), rules and access buckets (evaluated by no caller).
* The contents of the isolation layers: seccomp rules, capability lists, limits (of
  Landlock, `JailTree` has the rules for paths); the `--init` supervisor, `--gpu`, `--dev`, `--dbus-system`, `autority.c`.
* AppArmor profiles: loaded and removed by sessions and by commands; no other state of the
  program depends on them.
* The vault's own `.vault_history.log`, a file that the snapshot calls append to.
* Overlay and containers (no caller), the daemon (not compiled in), the experimental
  Nukfile runner, OCI, presets, logging, the manual, packaging.
* Argument parsing and the cryptography itself.

## 7. Plan

1. Paths in `VaultCatalog`'s records (two vaults may share a directory after a rename).
2. Two processes on one vault in `VaultSnapshots`.
