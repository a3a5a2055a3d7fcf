------------------------------ MODULE VaultMount ------------------------------
(***************************************************************************)
(* The life cycle of FUSE sessions and of the physical lock.  The files of *)
(* a vault lie in a directory of their own, cipher_<id>, of mode 0000; a   *)
(* FUSE session opens it to 0700 and its thread seals it again when the    *)
(* session ends.                                                           *)
(*                                                                         *)
(* Three parties act on g_catalog: the main thread, whose calls hold       *)
(* g_monitor.lock; the FUSE threads, which take no lock and reach their    *)
(* vault through a pointer into g_catalog.vaults; and the Ctrl-C handler,  *)
(* which runs vault_ffi_shutdown on a thread of its own, also without the  *)
(* lock.  One process runs at a time; it may be killed and restarted.      *)
(* (Sessions and commands also load and remove AppArmor profiles; nothing  *)
(* of the lock depends on them and they are left out.)                     *)
(***************************************************************************)
EXTENDS Naturals, Sequences, FiniteSets, SequencesExt

CONSTANTS
    Vaults,         \* vault ids, each with the directory cipher_<id>
    First,          \* the vaults in catalog.dat at first, in order
    MaxSlots,       \* MAX_VAULTS
    MaxSessions,    \* bound of the model: the mounts that get as far as a thread
    Scan,           \* the vaults with WORM_PROTECT_SCAN
    None            \* no vault (a zeroed record), no session

VARIABLES
    vaults,         \* g_catalog.vaults: the slots, also those past count
    count,          \* g_catalog.count
    fresh,          \* the ids from g_catalog.next_id on
    dat,            \* the vaults in catalog.dat
    dat_fresh,      \* and the ids from its next_id on
    mode,           \* mode of cipher_<id>: "none", "sealed" (0000) or "open" (0700)
    bound,          \* sessions mounted in the kernel
    thread,         \* thread[s]: where the FUSE thread of session s is
    main,           \* where the main thread is, and on which slot and session
    process,        \* "off", "on", or "exiting" after Ctrl-C wiped g_catalog
    loose,          \* history: vaults whose directory or flag nobody looks after
    torn,           \* history: a Ctrl-C saved a catalog in the middle of a delete
    deleted         \* history: vaults deleted since the catalog was loaded

catalog == <<vaults, count, fresh>>
disk == <<dat, dat_fresh>>
history == <<loose, torn, deleted>>
vars == <<catalog, disk, mode, bound, thread, main, process, history>>

Slots == 1 .. MaxSlots
Sessions == 1 .. MaxSessions
Zeroed == [id |-> None, mounted |-> FALSE]
Idle == [at |-> "idle", slot |-> 0, session |-> None]
NoThread == [at |-> "none", slot |-> 0, of |-> None]
Done == [NoThread EXCEPT !.at = "done"]

ASSUME MountAssumption ==
    /\ MaxSlots \in Nat
    /\ First \in Seq(Vaults) /\ Len(First) <= MaxSlots /\ IsInjective(First)
    /\ MaxSessions \in Nat
    /\ Scan \subseteq Vaults
    /\ None \notin Vaults \cup Sessions

Live(s) == thread[s].at \notin {"none", "done"}
\* The vault the thread's pointer leads to now.
Target(s) == vaults[thread[s].slot].id
Saved == [i \in 1 .. count |-> vaults[i].id]
In(seq) == {seq[i] : i \in DOMAIN seq}
Chmod(d, m) == IF d \in Vaults THEN [mode EXCEPT ![d] = m] ELSE mode
\* A chmod whose failure is logged at most.
TryChmod(d, m) ==
    \/ mode' = Chmod(d, m) /\ loose' = loose
    \/ mode' = mode /\ loose' = loose \cup ({d} \cap Vaults)
\* catalog_save: the new list and next_id, or on ERR_IO the file as it was.
Save(list) ==
    \/ dat' = list /\ dat_fresh' = fresh
    \/ UNCHANGED disk
\* A wiped record has no id and no path to call anything by.
Has(i) == i \in 1 .. count /\ vaults[i].id # None
Unused(s) == thread[s] = NoThread /\ \A t \in 1 .. s - 1 : thread[t] # NoThread
\* The records of these slots are about to be replaced: with a FUSE thread
\* pointing at one of them, the vaults of all of them get mixed up.
Displaced(slots) ==
    LET under == {s \in Sessions : Live(s) /\ thread[s].slot \in slots}
    IN  IF under = {} THEN {}
        ELSE {thread[s].of : s \in under} \cup ({vaults[i].id : i \in slots} \cap Vaults)

-----------------------------------------------------------------------------
Init ==
    /\ vaults = [i \in Slots |-> Zeroed]
    /\ count = 0
    /\ dat = First
    /\ fresh = {} /\ dat_fresh = Vaults \ In(First)
    /\ mode = [d \in Vaults |-> IF d \in In(First) THEN "sealed" ELSE "none"]
    /\ bound = {}
    /\ thread = [s \in Sessions |-> NoThread]
    /\ main = Idle
    /\ process = "off"
    /\ loose = {} /\ torn = FALSE /\ deleted = {}

Read(n) ==
    /\ process = "off"
    /\ process' = "on"
    /\ count' = n
    /\ vaults' = [i \in Slots |-> IF i <= n THEN [id |-> dat[i], mounted |-> FALSE] ELSE Zeroed]
    /\ fresh' = dat_fresh
    /\ main' = Idle
    /\ UNCHANGED <<disk, mode, bound, thread, history>>

\* Faulty variant: the last record is not read.
catalog_load_short == Read(IF dat = <<>> THEN 0 ELSE Len(dat) - 1)

catalog_load == Read(Len(dat))

\* The process is gone: its threads, and with auto_unmount its mounts.
Ended ==
    /\ process' = "off"
    /\ thread' = [s \in Sessions |-> IF Live(s) THEN Done ELSE thread[s]]
    /\ main' = Idle
    /\ vaults' = [i \in Slots |-> Zeroed] /\ count' = 0 /\ fresh' = {}
    /\ loose' = {d \in Vaults : mode'[d] = "open"}
    /\ deleted' = {}
    /\ UNCHANGED torn

\* Faulty variant: mounted without auto_unmount.
Gone_stays_mounted == Ended /\ bound' = bound

Gone == Ended /\ bound' = {}

(* SIGKILL or power loss.                                                  *)
Crash == process # "off" /\ UNCHANGED <<disk, mode>> /\ Gone

\* The atexit handler walks g_catalog, which vault_ffi_shutdown has wiped; it
\* finds at most the record of a create that was still running.
vault_fuse_seal_all_on_exit(records, n) ==
    \E failed \in SUBSET Vaults :
        mode' = [d \in Vaults |->
                    IF mode[d] = "open" /\ d \notin failed /\ \E i \in 1 .. n : records[i].id = d
                    THEN "sealed" ELSE mode[d]]

(* vault_ffi_shutdown saves the catalog and wipes it: at the end of main,  *)
(* or from the Ctrl-C handler, whatever the main thread is doing.          *)
vault_ffi_shutdown ==
    /\ process # "off"
    /\ main = Idle
    /\ Save(Saved)
    /\ vault_fuse_seal_all_on_exit([i \in Slots |-> Zeroed], 0)
    /\ Gone

ctrlc_handler ==
    /\ process = "on"
    /\ process' = "exiting"
    /\ Save(Saved)
    /\ vaults' = [i \in Slots |-> Zeroed] /\ count' = 0 /\ fresh' = Vaults
    /\ torn' = (torn \/ main.at = "moved")
    /\ UNCHANGED <<mode, bound, thread, main, loose, deleted>>

ctrlc_exit ==
    /\ process = "exiting"
    /\ vault_fuse_seal_all_on_exit(vaults, count)
    /\ UNCHANGED disk
    /\ Gone

-----------------------------------------------------------------------------
(* vault_create and vault_delete, with the lock held throughout.           *)

Call(at, i, s) == [at |-> at, slot |-> i, session |-> s]

\* The id is given out and the record written, past those that count.
Enter(d) ==
    /\ process = "on" /\ main = Idle
    /\ count < MaxSlots
    /\ d \in fresh
    /\ fresh' = fresh \ {d}
    /\ vaults' = [vaults EXCEPT ![count + 1] = [id |-> d, mounted |-> FALSE]]
    /\ loose' = loose \cup (IF Displaced({count + 1}) = {} THEN {} ELSE Displaced({count + 1}) \cup {d})
    /\ UNCHANGED <<count, disk, bound, thread, process, torn, deleted>>

\* mkdir makes cipher_<id> at 0700, or finds the one that a create left whose
\* id no save recorded, with the mode it has.
vault_create(d) ==
    /\ Enter(d)
    /\ mode' = IF mode[d] = "none" THEN Chmod(d, "open") ELSE mode
    /\ main' = Call("recorded", count + 1, None)

\* mkdir fails.
create_refused(d) == Enter(d) /\ UNCHANGED <<mode, main>>

\* auth_set_password failed: the directory stays, the record is not counted.
create_abandoned ==
    /\ main.at = "recorded"
    /\ main' = Idle
    /\ loose' = loose \cup ({vaults[main.slot].id} \cap Vaults)
    /\ UNCHANGED <<catalog, disk, mode, bound, thread, process, torn, deleted>>

create_count ==
    /\ main.at = "recorded"
    /\ count' = count + 1
    /\ main' = [main EXCEPT !.at = "enrolled"]
    /\ Save([i \in 1 .. count + 1 |-> vaults[i].id])
    /\ UNCHANGED <<vaults, fresh, mode, bound, thread, process, history>>

create_seal ==
    /\ main.at = "enrolled"
    /\ TryChmod(vaults[main.slot].id, "sealed")
    /\ main' = Idle
    /\ UNCHANGED <<catalog, disk, bound, thread, process, torn, deleted>>

\* The record goes by moving the later ones down: a FUSE thread of one of
\* them, or of the vault itself, then follows its pointer to another record.
vault_delete(i) ==
    /\ process = "on" /\ main = Idle
    /\ Has(i)
    /\ vaults' = [j \in Slots |-> IF j >= i /\ j < count THEN vaults[j + 1] ELSE vaults[j]]
    /\ main' = Call("moved", i, None)
    /\ loose' = loose \cup Displaced(i .. count)
    /\ deleted' = deleted \cup {vaults[i].id}
    /\ UNCHANGED <<count, fresh, disk, mode, bound, thread, process, torn>>

\* (On a wiped catalog the count wraps around and catalog_save runs off the
\* array before it renames anything: the Crash above.)
delete_count ==
    /\ main.at = "moved"
    /\ process = "on"
    /\ count' = count - 1
    /\ main' = [main EXCEPT !.at = "counted"]
    /\ UNCHANGED <<vaults, fresh, disk, mode, bound, thread, process, history>>

\* catalog_save at the end of a delete.
delete_save ==
    /\ main.at = "counted"
    /\ Save(Saved)
    /\ main' = Idle
    /\ UNCHANGED <<catalog, mode, bound, thread, process, history>>

-----------------------------------------------------------------------------
(* vault_fuse_mount and vault_fuse_unmount on the vault of slot i.  A      *)
(* mount that fails before its thread exists leaves everything as it was,  *)
(* and so does one of a vault whose flag says it is mounted.               *)

Mount(i, s, pointer) ==
    /\ process = "on" /\ main = Idle
    /\ Has(i)
    /\ Unused(s)
    /\ vaults' = [vaults EXCEPT ![i].mounted = TRUE]
    /\ bound' = bound \cup {s}
    /\ thread' = [thread EXCEPT ![s] = [at |-> "born", slot |-> pointer, of |-> vaults[i].id]]
    /\ main' = Call("confirm", i, s)
    /\ UNCHANGED <<count, fresh, disk, mode, process, history>>

\* Faulty variant: the session is given the last record.
fuse_mount_last(i, s) == ~vaults[i].mounted /\ Mount(i, s, count)
vault_fuse_mount(i, s) == ~vaults[i].mounted /\ Mount(i, s, i)

\* The mount point is found in /proc/mounts.
mount_confirmed ==
    /\ process = "on" /\ main.at = "confirm"
    /\ main.session \in bound
    /\ main' = Idle
    /\ UNCHANGED <<catalog, disk, mode, bound, thread, process, history>>

\* It is not, for two seconds: fusermount -u, which may fail, then a join.
mount_unconfirmed ==
    /\ process = "on" /\ main.at = "confirm"
    /\ main' = [main EXCEPT !.at = "join"]
    /\ bound' \in {bound, bound \ {main.session}}
    /\ UNCHANGED <<catalog, disk, mode, thread, process, history>>

mount_fails ==
    /\ process = "on" /\ main.at = "join"
    /\ thread[main.session].at = "done"
    /\ TryChmod(vaults[main.slot].id, "sealed")
    /\ vaults' = [vaults EXCEPT ![main.slot].mounted = FALSE]
    /\ main' = Idle
    /\ UNCHANGED <<count, fresh, disk, bound, thread, process, torn, deleted>>

\* fusermount -u takes the kernel's mount away; the thread seals later.  A
\* vault with PROTECTED-SCAN is refused.
vault_fuse_unmount(i) ==
    /\ process = "on" /\ main = Idle
    /\ Has(i)
    /\ vaults[i].mounted
    /\ vaults[i].id \notin Scan
    /\ \E s \in bound : thread[s].of = vaults[i].id /\ bound' = bound \ {s}
    /\ UNCHANGED <<catalog, disk, mode, thread, main, process, history>>

(* fusermount -u run by hand, which asks neither g_catalog nor WORM.       *)
Fusermount(s) ==
    /\ s \in bound
    /\ bound' = bound \ {s}
    /\ UNCHANGED <<catalog, disk, mode, thread, main, process, history>>

-----------------------------------------------------------------------------
(* vault_fuse_loop, the thread of session s.                               *)

At(s, at) == thread' = [thread EXCEPT ![s].at = at]

loop_open(s) ==
    /\ thread[s].at = "born"
    /\ TryChmod(Target(s), "open")
    /\ At(s, "serving")
    /\ UNCHANGED <<catalog, disk, bound, main, process, torn, deleted>>

\* fuse_loop_mt returned.
Unserved(s) ==
    /\ thread[s].at = "serving"
    /\ s \notin bound
    /\ UNCHANGED <<catalog, disk, bound, main, process, torn, deleted>>

\* Faulty variant: the directory stays open.
loop_seal_forgets(s) == Unserved(s) /\ UNCHANGED <<mode, thread, loose>>
loop_seal(s) ==
    /\ Unserved(s)
    /\ TryChmod(Target(s), "sealed")
    /\ At(s, "sealed")

Finish(s, flag) ==
    /\ thread[s].at = "sealed"
    /\ vaults' = [vaults EXCEPT ![thread[s].slot].mounted = flag]
    /\ thread' = [thread EXCEPT ![s] = Done]
    /\ UNCHANGED <<count, fresh, disk, mode, bound, main, process, history>>

\* Faulty variant: the flag stays up.
loop_end_keeps_flag(s) == Finish(s, vaults[thread[s].slot].mounted)
loop_end(s) == Finish(s, FALSE)

vault_fuse_loop(s) == loop_open(s) \/ loop_seal(s) \/ loop_end(s)

-----------------------------------------------------------------------------
create_step == create_abandoned \/ create_count \/ create_seal
delete_step == delete_count \/ delete_save
mount_step == mount_confirmed \/ mount_unconfirmed \/ mount_fails

Next ==
    \/ catalog_load \/ Crash \/ vault_ffi_shutdown \/ ctrlc_handler \/ ctrlc_exit
    \/ \E d \in Vaults : vault_create(d) \/ create_refused(d)
    \/ create_step
    \/ \E i \in Slots : vault_delete(i)
    \/ delete_step
    \/ \E i \in Slots : vault_fuse_unmount(i)
    \/ \E i \in Slots, s \in Sessions : vault_fuse_mount(i, s)
    \/ mount_step
    \/ \E s \in Sessions : Fusermount(s) \/ vault_fuse_loop(s)

(* The scheduler runs every thread, and a call of the main thread goes on. *)
Fairness ==
    /\ \A s \in Sessions : WF_vars(vault_fuse_loop(s))
    /\ WF_vars(mount_step)
    /\ WF_vars(create_step)
    /\ WF_vars(delete_step)

Spec == Init /\ [][Next]_vars /\ Fairness

-----------------------------------------------------------------------------
TypeOK ==
    /\ vaults \in [Slots -> [id : Vaults \cup {None}, mounted : BOOLEAN]]
    /\ count \in 0 .. MaxSlots
    /\ dat \in Seq(Vaults \cup {None}) /\ Len(dat) <= MaxSlots
    /\ fresh \subseteq Vaults /\ dat_fresh \subseteq Vaults
    /\ mode \in [Vaults -> {"none", "sealed", "open"}]
    /\ bound \subseteq {s \in Sessions : Live(s)}
    /\ thread \in [Sessions -> [at : {"none", "born", "serving", "sealed", "done"},
                                slot : 0 .. MaxSlots, of : Vaults \cup {None}]]
    /\ main \in [at : {"idle", "recorded", "enrolled", "moved", "counted", "confirm", "join"},
                 slot : 0 .. MaxSlots, session : Sessions \cup {None}]
    /\ process \in {"off", "on", "exiting"}
    /\ loose \subseteq Vaults
    /\ torn \in BOOLEAN
    /\ deleted \subseteq Vaults

Sound == process = "on" /\ ~torn

(* A session answers from the directory of the vault it was mounted for,   *)
(* and only until the thread is done may its pointer be followed: true as  *)
(* long as no delete or create replaces the record it points to.           *)
ServesOwnVault ==
    Sound => \A s \in Sessions :
        Live(s) /\ thread[s].of \notin loose => Target(s) = thread[s].of

(* While the process runs, a directory at 0700 has a FUSE thread that will *)
(* seal it or a vault_create about to; the exceptions are the directories  *)
(* named in loose: left open by a process that ended with sessions, by an  *)
(* abandoned create, by a chmod that failed, or by a record moved under    *)
(* its thread.                                                             *)
OpenHasOwner ==
    Sound => \A d \in Vaults \ loose : mode[d] = "open" =>
        \/ \E s \in Sessions : thread[s].at = "serving" /\ Target(s) = d
        \/ main.at \in {"recorded", "enrolled"} /\ vaults[main.slot].id = d

(* No call seals the directory of a vault that a session is serving: a     *)
(* second session cannot start before the first has sealed.  (It does find *)
(* it closed if the chmod that opens it failed.)                           *)
NotSealedUnderSession ==
    Sound => \A s \in bound :
        thread[s].at = "serving" /\ thread[s].of \notin loose => mode[thread[s].of] = "open"

(* is_mounted stays up no longer than the session's thread, so a vault     *)
(* never becomes impossible to mount.                                      *)
FlagHasSession ==
    Sound => \A i \in 1 .. count : vaults[i].mounted /\ vaults[i].id \notin loose =>
        \/ \E s \in Sessions : Live(s) /\ thread[s].slot = i
        \/ main.at = "join" /\ main.slot = i

(* The physical lock is as strong as the sessions: nothing stays open and  *)
(* no flag stays up without one, none is locked out of its own directory.  *)
PhysicalLock == OpenHasOwner /\ NotSealedUnderSession /\ FlagHasSession

(* What becomes of the vaults in catalog.dat in one step.                  *)
KeepsVaults ==
    /\ In(dat) \ In(dat') \subseteq deleted \/ process = "exiting"
    /\ ~torn' => IsInjective(dat')

(* catalog.dat loses only vaults that vault_delete was called for, be it   *)
(* in a later save after the one of the delete failed, or everything to a  *)
(* save that follows the wipe of a Ctrl-C; and it lists no vault twice,    *)
(* whichever saves fail and whenever Ctrl-C or a crash comes, but for a    *)
(* Ctrl-C in the middle of a delete.                                       *)
VaultsKept == [][KeepsVaults]_vars

(* Once the kernel's mount is gone the directory gets sealed, although     *)
(* vault_fuse_unmount does not wait for it, unless the process ends first  *)
(* or the chmod fails.                                                     *)
UnmountSeals ==
    \A d \in Vaults :
        (Sound /\ mode[d] = "open" /\ d \notin loose /\ \A s \in bound : thread[s].of # d)
            ~> (~Sound \/ mode[d] = "sealed" \/ d \in loose)

(* A mount that is not confirmed returns, and releases g_monitor.lock, if  *)
(* fusermount took the mount away.                                         *)
MountReturns ==
    (process = "on" /\ main.at = "join" /\ main.session \notin bound)
        ~> (process # "on" \/ main.at # "join")

(* Every session winds up: its directory is sealed and the call that waits *)
(* for its thread gives the lock back.                                     *)
SessionsWindUp == UnmountSeals /\ MountReturns
=============================================================================
