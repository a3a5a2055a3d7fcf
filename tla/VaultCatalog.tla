---------------------------- MODULE VaultCatalog ----------------------------
(***************************************************************************)
(* The vault catalog of nuk4sd: the array of vault records every process   *)
(* keeps in g_catalog, the file catalog.dat it is loaded from and saved    *)
(* to, and every call of the C core that changes a record.                 *)
(*                                                                         *)
(* A process (one CLI invocation or one REPL session) loads the file once, *)
(* works on its copy, saves the whole copy after each change and once more *)
(* when it shuts down.  Within a process g_monitor.lock makes each call    *)
(* atomic; between processes nothing is locked, so calls of different      *)
(* processes interleave freely on the one file.  A process may crash       *)
(* between two calls, and any save may fail and leave the file as it was.  *)
(*                                                                         *)
(* The array is kept in ascending id order by vault_create and             *)
(* vault_delete, so it is modelled as a function of the id.                *)
(***************************************************************************)
EXTENDS Naturals, FiniteSets

CONSTANTS
    Procs,              \* processes of one user that share one catalog.dat
    Names,              \* vault names that pass validate_name
    Passwords,          \* non-empty passwords a caller may supply
    ShortPasswords,     \* those auth_set_password rejects (fewer than 8 characters)
    NoPass,             \* has_pass = false
    Broken,             \* salt of one password, pass_hash of another: nothing matches
    NoVault,            \* a catalog slot that holds no vault
    NoCatalog,          \* catalog.dat does not exist
    WORM_BITS,          \* the bits of WORM_PROTECT_ALL
    MAX_VAULTS,         \* capacity of g_catalog.vaults
    MAX_PASS_ATTEMPTS,  \* wrong passwords that lock a vault
    LoadMayFail,        \* whether catalog.dat may exist and yet not be readable
    MaxId,              \* bound of the model: ids handed out
    MaxFails            \* bound of the model: value of failed_attempts

VARIABLES
    disk,               \* contents of catalog.dat
    mem,                \* mem[p]: g_catalog of process p
    up,                 \* up[p]: vault_ffi_init done, vault_ffi_shutdown not yet
    (* history, read by the properties only *)
    issued,             \* ids of vault_create calls that returned ERR_OK
    removed,            \* ids vault_delete took out of some process's catalog
    sealed              \* ids for which vault_worm_set_scan returned ERR_OK

vars == <<disk, mem, up, issued, removed, sealed>>
history == <<issued, removed, sealed>>

-----------------------------------------------------------------------------
(* Data.                                                                   *)

Ids == 0 .. MaxId   \* 0 is handed out only after a failed catalog_load
SCAN == "SCAN"
WormFlags == WORM_BITS \cup {SCAN}

Vault == [name : Names,
          type : {"NORMAL", "PROTECTED"},
          status : {"OK", "LOCKED", "ALERT"},
          pass : Passwords \cup {NoPass, Broken},
          failed_attempts : Nat,
          worm : SUBSET WormFlags]

Catalog == [vaults : [Ids -> Vault \cup {NoVault}], next_id : Nat]

(* What a process holds outside init .. shutdown (bss, explicit_bzero).    *)
ZeroCatalog == [vaults |-> [id \in Ids |-> NoVault], next_id |-> 0]

(* What catalog_load starts with when there is no file.                    *)
FreshCatalog == [ZeroCatalog EXCEPT !.next_id = 1]

Live(c) == {id \in Ids : c.vaults[id] # NoVault}

(* Faulty variant: the search stops one entry early.                       *)
find_by_name_short(c, n) ==
    \E id \in Live(c) : c.vaults[id].name = n /\ \E j \in Live(c) : id < j

vault_find_by_name(c, n) == \E id \in Live(c) : c.vaults[id].name = n

ASSUME BoundsAssumption ==
    /\ MAX_VAULTS \in Nat
    /\ MAX_PASS_ATTEMPTS \in Nat \ {0}
    /\ MaxId \in Nat
    /\ MaxFails \in Nat
    /\ LoadMayFail \in BOOLEAN
ASSUME NullsAssumption ==
    /\ NoVault \notin Vault
    /\ NoCatalog \notin Catalog
    /\ NoPass \notin Passwords \cup {Broken}
    /\ Broken \notin Passwords
ASSUME WormAssumption == SCAN \notin WORM_BITS
ASSUME PasswordsAssumption == ShortPasswords \subseteq Passwords

-----------------------------------------------------------------------------
(* Saving.  catalog_save writes catalog.dat.tmp and renames it over        *)
(* catalog.dat; when the temporary cannot be opened or renamed the file    *)
(* keeps its old contents and the call returns ERR_IO.                     *)

catalog_save(p, err) ==
    \/ err = "OK" /\ disk' = mem'[p]
    \/ err = "IO" /\ disk' = disk

(* A call of p that makes c its catalog, saves it and returns err, what    *)
(* the save returned.                                                      *)
Commit(p, c, err) ==
    /\ mem' = [mem EXCEPT ![p] = c]
    /\ catalog_save(p, err)

SetVault(c, id, v) == [c EXCEPT !.vaults[id] = v]

-----------------------------------------------------------------------------
(* Authentication.                                                         *)

(* Faulty variant: the password is compared before the lockout is enforced. *)
Verdict_late_lockout(v, pw) ==
    IF v.pass = NoPass THEN "PASS_REQUIRED"
    ELSE IF v.pass = pw THEN "OK"
    ELSE IF v.status = "LOCKED" THEN "LOCKED" ELSE "AUTH_FAIL"

Verdict(v, pw) ==
    IF v.pass = NoPass THEN "PASS_REQUIRED"
    ELSE IF v.status = "LOCKED" THEN "LOCKED"
    ELSE IF v.pass = pw THEN "OK" ELSE "AUTH_FAIL"

(* Faulty variant: one attempt too many before the lock.                   *)
Miss_off_by_one(v) ==
    [v EXCEPT !.failed_attempts = @ + 1,
              !.status = IF v.failed_attempts + 1 > MAX_PASS_ATTEMPTS
                         THEN "LOCKED" ELSE @]

(* The record after auth_verify_password: a match clears the counter, a    *)
(* mismatch counts and locks the vault at the limit, the other returns     *)
(* leave it alone.                                                         *)
Match(v) == [v EXCEPT !.failed_attempts = 0]
Miss(v) ==
    [v EXCEPT !.failed_attempts = @ + 1,
              !.status = IF v.failed_attempts + 1 >= MAX_PASS_ATTEMPTS
                         THEN "LOCKED" ELSE @]
Refused(v, pw) == IF Verdict(v, pw) = "AUTH_FAIL" THEN Miss(v) ELSE v

(* A call that returns auth_verify_password's error.  Only the mismatch    *)
(* that locks the vault is saved, and whether that save succeeds is not    *)
(* looked at.                                                              *)
AuthRefused(p, id, pw, err) ==
    LET v == mem[p].vaults[id] IN
    /\ Verdict(v, pw) # "OK"
    /\ v.failed_attempts < MaxFails \/ Refused(v, pw) = v
    /\ mem' = [mem EXCEPT ![p] = SetVault(@, id, Refused(v, pw))]
    /\ IF Refused(v, pw).status # v.status THEN catalog_save(p, err) ELSE disk' = disk
    /\ UNCHANGED <<up, history>>

(* Calls that ask for the password of PROTECTED vaults only.               *)
MayEnter(v, pw) == v.type = "PROTECTED" => Verdict(v, pw) = "OK"
Entered(v) == IF v.type = "PROTECTED" THEN Match(v) ELSE v

Has(p, id) == up[p] /\ id \in Live(mem[p])

-----------------------------------------------------------------------------
(* Process life cycle.                                                     *)

Init ==
    /\ disk = NoCatalog
    /\ mem = [p \in Procs |-> ZeroCatalog]
    /\ up = [p \in Procs |-> FALSE]
    /\ issued = {} /\ removed = {} /\ sealed = {}

(* Faulty variants: a missing file is taken for a catalog; next_id is       *)
(* guessed from the number of vaults.                                      *)
catalog_load_unchecked == disk
catalog_load_count_ids ==
    IF disk = NoCatalog THEN FreshCatalog
    ELSE [disk EXCEPT !.next_id = Cardinality(Live(disk)) + 1]

catalog_load == IF disk = NoCatalog THEN FreshCatalog ELSE disk

vault_ffi_init(p) ==
    /\ ~up[p]
    /\ up' = [up EXCEPT ![p] = TRUE]
    /\ mem' = [mem EXCEPT ![p] = catalog_load]
    /\ UNCHANGED <<disk, history>>

(* catalog_load fails before its first record, at a file it cannot open or *)
(* a header it cannot read or use: main prints a warning and goes on with  *)
(* the zeroed g_catalog.  A file cut short further on also fails the load, *)
(* and leaves the records read so far; module CatalogStore has that case.  *)
vault_ffi_init_failed(p) ==
    /\ LoadMayFail
    /\ disk # NoCatalog
    /\ ~up[p]
    /\ up' = [up EXCEPT ![p] = TRUE]
    /\ UNCHANGED <<disk, mem, history>>

vault_ffi_shutdown(p) ==
    /\ up[p]
    /\ disk' \in {disk, mem[p]}
    /\ mem' = [mem EXCEPT ![p] = ZeroCatalog]
    /\ up' = [up EXCEPT ![p] = FALSE]
    /\ UNCHANGED history

(* The process is killed: nothing is saved.                                *)
Crash(p) ==
    /\ up[p]
    /\ mem' = [mem EXCEPT ![p] = ZeroCatalog]
    /\ up' = [up EXCEPT ![p] = FALSE]
    /\ UNCHANGED <<disk, history>>

-----------------------------------------------------------------------------
(* Vault management.                                                       *)

NewVault(n, t, pw) ==
    [name |-> n, type |-> t, status |-> "OK",
     pass |-> IF t = "PROTECTED" THEN pw ELSE NoPass,
     failed_attempts |-> 0, worm |-> {}]

CanCreate(p, n) ==
    /\ up[p]
    /\ mem[p].next_id <= MaxId
    /\ Cardinality(Live(mem[p])) < MAX_VAULTS
    /\ ~vault_find_by_name(mem[p], n)

vault_create(p, n, t, pw, err) ==
    LET id == mem[p].next_id IN
    /\ CanCreate(p, n)
    /\ t = "PROTECTED" => pw \notin ShortPasswords
    /\ Commit(p, [vaults |-> [mem[p].vaults EXCEPT ![id] = NewVault(n, t, pw)],
                  next_id |-> id + 1], err)
    /\ issued' = IF err = "OK" THEN issued \cup {id} ELSE issued
    /\ UNCHANGED <<up, removed, sealed>>

(* The returns after next_id was taken: the cipher directory cannot be     *)
(* made, or auth_set_password fails.  The id is used up in memory, the     *)
(* slot is not counted and nothing is saved.                               *)
vault_create_abandoned(p, n) ==
    /\ CanCreate(p, n)
    /\ mem' = [mem EXCEPT ![p].next_id = @ + 1]
    /\ UNCHANGED <<disk, up, history>>

(* Faulty variant: the array is cut off at the vault, not compacted.       *)
delete_cuts_tail(p, id, pw, err) ==
    LET v == mem[p].vaults[id] IN
    /\ Has(p, id)
    /\ \/ v.type = "PROTECTED" /\ AuthRefused(p, id, pw, err)
       \/ /\ MayEnter(v, pw)
          /\ Commit(p, [mem[p] EXCEPT !.vaults =
                            [i \in Ids |-> IF i < id THEN @[i] ELSE NoVault]], err)
          /\ removed' = removed \cup {id}
          /\ UNCHANGED <<up, issued, sealed>>

vault_delete(p, id, pw, err) ==
    LET v == mem[p].vaults[id] IN
    /\ Has(p, id)
    /\ \/ v.type = "PROTECTED" /\ AuthRefused(p, id, pw, err)
       \/ /\ MayEnter(v, pw)
          /\ Commit(p, SetVault(mem[p], id, NoVault), err)
          /\ removed' = removed \cup {id}
          /\ UNCHANGED <<up, issued, sealed>>

vault_rename(p, id, n, pw, err) ==
    LET v == mem[p].vaults[id] IN
    /\ Has(p, id)
    /\ ~vault_find_by_name(mem[p], n)
    /\ \/ v.type = "PROTECTED" /\ AuthRefused(p, id, pw, err)
       \/ /\ MayEnter(v, pw)
          /\ Commit(p, SetVault(mem[p], id, [Entered(v) EXCEPT !.name = n]), err)
          /\ UNCHANGED <<up, history>>

(* vault_unlock authenticates like every other call before it opens the    *)
(* vault and saves.  auth_verify_password refuses every LOCKED vault, so   *)
(* the opening is never reached.                                           *)
vault_unlock(p, id, pw, err) ==
    LET v == mem[p].vaults[id]
        opened == [Match(v) EXCEPT !.status = "OK"]
        w == IF Verdict(v, pw) = "OK" THEN opened ELSE Refused(v, pw) IN
    /\ Has(p, id)
    /\ v.status = "LOCKED"
    /\ mem' = [mem EXCEPT ![p] = SetVault(@, id, w)]
    /\ disk' = IF w # v /\ err = "OK" THEN mem'[p] ELSE disk
    /\ UNCHANGED <<up, history>>

(* The catalog's part of a password change; what happens to the files is   *)
(* in module VaultFiles.                                                   *)
vault_change_password(p, id, old, new, err) ==
    LET v == mem[p].vaults[id] IN
    /\ Has(p, id)
    /\ v.pass # NoPass
    /\ \/ AuthRefused(p, id, old, err)
       \/ /\ Verdict(v, old) = "OK"
          /\ Commit(p, SetVault(mem[p], id, [Match(v) EXCEPT !.pass = new]), err)
          /\ UNCHANGED <<up, history>>
       \/ /\ Verdict(v, old) = "OK"
          /\ \E pass \in {v.pass,     \* a key or a file could not be re-derived
                          Broken} :  \* derive_key_for failed after the salt was replaced
                mem' = [mem EXCEPT ![p] = SetVault(@, id, [Match(v) EXCEPT !.pass = pass])]
          /\ UNCHANGED <<disk, up, history>>

(* What mount, mount-export, encrypt, decrypt and export do to the record: *)
(* they authenticate and save nothing of their own.                        *)
authenticate(p, id, pw, err) ==
    LET v == mem[p].vaults[id] IN
    /\ Has(p, id)
    /\ \/ AuthRefused(p, id, pw, err)
       \/ /\ Verdict(v, pw) = "OK"
          /\ mem' = [mem EXCEPT ![p] = SetVault(@, id, Match(v))]
          /\ UNCHANGED <<disk, up, history>>

-----------------------------------------------------------------------------
(* Alerts.  Whether a scan finds a change is up to the files.  The outcome *)
(* of its save is not looked at.                                           *)

alert_trigger(v) == [v EXCEPT !.status = "ALERT"]

vault_scan(p, id, changed, err) ==
    LET v == mem[p].vaults[id] IN
    /\ Has(p, id)
    /\ mem' = [mem EXCEPT ![p] = SetVault(@, id, IF changed THEN alert_trigger(v) ELSE v)]
    /\ catalog_save(p, err)
    /\ UNCHANGED <<up, history>>

alert_resolve(p, id, pw, err) ==
    LET v == mem[p].vaults[id] IN
    /\ Has(p, id)
    /\ \/ v.type = "PROTECTED" /\ AuthRefused(p, id, pw, err)
       \/ /\ MayEnter(v, pw)
          /\ Commit(p, SetVault(mem[p], id, [Entered(v) EXCEPT !.status = "OK"]), err)
          /\ UNCHANGED <<up, history>>

-----------------------------------------------------------------------------
(* WORM flags.  None of these calls authenticates.                         *)

vault_worm_set_flags(p, id, flags, err) ==
    LET v == mem[p].vaults[id] IN
    /\ Has(p, id)
    /\ SCAN \notin flags
    /\ Commit(p, SetVault(mem[p], id, [v EXCEPT !.worm = @ \cup flags]), err)
    /\ UNCHANGED <<up, history>>

(* Faulty variant: SCAN does not stop the other bits from being cleared.   *)
clear_flags_unguarded(p, id, flags, err) ==
    LET v == mem[p].vaults[id] IN
    /\ Has(p, id)
    /\ Commit(p, SetVault(mem[p], id, [v EXCEPT !.worm = @ \ flags]), err)
    /\ UNCHANGED <<up, history>>

vault_worm_clear_flags(p, id, flags, err) ==
    LET v == mem[p].vaults[id] IN
    /\ Has(p, id)
    /\ SCAN \notin v.worm
    /\ Commit(p, SetVault(mem[p], id, [v EXCEPT !.worm = @ \ (flags \ {SCAN})]), err)
    /\ UNCHANGED <<up, history>>

vault_worm_set_scan(p, id, err) ==
    LET v == mem[p].vaults[id] IN
    /\ Has(p, id)
    /\ Commit(p, SetVault(mem[p], id, [v EXCEPT !.worm = WormFlags]), err)
    /\ sealed' = IF err = "OK" THEN sealed \cup {id} ELSE sealed
    /\ UNCHANGED <<up, issued, removed>>

-----------------------------------------------------------------------------
LifeCycle(p) ==
    \/ vault_ffi_init(p)
    \/ vault_ffi_init_failed(p)
    \/ vault_ffi_shutdown(p)
    \/ Crash(p)

Manage(p, err) ==
    \/ \E n \in Names, t \in {"NORMAL", "PROTECTED"}, pw \in Passwords :
            vault_create(p, n, t, pw, err)
    \/ \E n \in Names : vault_create_abandoned(p, n)
    \/ \E id \in Ids, pw \in Passwords :
            \/ vault_delete(p, id, pw, err)
            \/ \E n \in Names : vault_rename(p, id, n, pw, err)
            \/ vault_unlock(p, id, pw, err)
            \/ \E new \in Passwords : vault_change_password(p, id, pw, new, err)
            \/ authenticate(p, id, pw, err)

Guard(p, err) ==
    \E id \in Ids :
        \/ \E changed \in BOOLEAN : vault_scan(p, id, changed, err)
        \/ \E pw \in Passwords : alert_resolve(p, id, pw, err)
        \/ \E flags \in SUBSET WormFlags \ {{}} :
                vault_worm_set_flags(p, id, flags, err) \/ vault_worm_clear_flags(p, id, flags, err)
        \/ vault_worm_set_scan(p, id, err)

Next ==
    \E p \in Procs :
        \/ LifeCycle(p)
        \/ \E err \in {"OK", "IO"} : Manage(p, err) \/ Guard(p, err)

Spec == Init /\ [][Next]_vars

-----------------------------------------------------------------------------
(* Properties that hold for any number of processes.                       *)

(* Type invariant: what catalog_load reads and catalog_save writes are     *)
(* catalogs, and ids stay within the bound.                                *)
TypeOK ==
    /\ disk \in Catalog \cup {NoCatalog}
    /\ mem \in [Procs -> Catalog]
    /\ up \in [Procs -> BOOLEAN]
    /\ issued \subseteq Ids /\ removed \subseteq Ids /\ sealed \subseteq Ids

(* The catalogs a process works on now or may load later.                  *)
Catalogs == {mem[p] : p \in Procs} \cup ({disk} \ {NoCatalog})

(* Names are unique, and ids below next_id.                                *)
Keyed(c) ==
    /\ \A i, j \in Live(c) : c.vaults[i].name = c.vaults[j].name => i = j
    /\ \A id \in Live(c) : id < c.next_id

(* No two vaults of a catalog share a name, and no vault has an id that    *)
(* vault_create would hand out again.                                      *)
UniqueKeys == \A c \in Catalogs : Keyed(c)

(* Status, counter and type of one record agree.                           *)
LockAgrees(v) ==
    /\ v.status = "OK" => v.failed_attempts < MAX_PASS_ATTEMPTS
    /\ v.status = "LOCKED" => v.failed_attempts >= MAX_PASS_ATTEMPTS
    /\ v.type = "PROTECTED" <=> v.pass # NoPass
    /\ v.type = "NORMAL" => v.failed_attempts = 0

(* The status of a vault and its counter agree, whatever calls came before *)
(* and even right after a restart: a vault that is OK still has attempts   *)
(* left, a LOCKED one has used them up, and only a vault with a password   *)
(* counts attempts at all (auth_verify_password, alert_resolve).           *)
LockoutConsistent ==
    \A c \in Catalogs : \A id \in Live(c) : LockAgrees(c.vaults[id])

(* A step leaves a vault that is LOCKED alone, raises an alert on it or    *)
(* re-opens it as vault_unlock means to.                                   *)
FrozenWhileLocked ==
    \A p \in Procs : \A id \in Live(mem[p]) :
        LET v == mem[p].vaults[id]
            w == mem'[p].vaults[id] IN
        (up[p] /\ up'[p] /\ v.status = "LOCKED") =>
            /\ w # NoVault
            /\ w.name = v.name /\ w.pass = v.pass
            /\ \/ /\ w.failed_attempts = v.failed_attempts
                  /\ w.status \in {"LOCKED", "ALERT"}
               \/ w.failed_attempts = 0 /\ w.status = "OK"

(* While a vault is LOCKED no call of the process that sees it so deletes  *)
(* or renames it, changes its password, or gives it fresh attempts without *)
(* opening it as an unlock would: the lock holds against the right         *)
(* password too (auth_verify_password).  Whether an unlock ever succeeds   *)
(* is not claimed; in this code none does.                                 *)
LockedIsFrozen == [][FrozenWhileLocked]_vars

-----------------------------------------------------------------------------
(* Properties of a user who runs one process at a time (Procs has one      *)
(* element) and whose catalog.dat stays readable (~LoadMayFail), across    *)
(* crashes, restarts and failed saves.                                     *)

(* A vault whose creation was acknowledged is in catalog.dat until someone *)
(* who may do so deletes it.                                               *)
AckedVaultSurvives ==
    \A id \in issued \ removed : disk # NoCatalog /\ id \in Live(disk)

(* Once vault_worm_set_scan has returned ERR_OK the vault carries          *)
(* WORM_PROTECT_SCAN and every other bit in the file and in every process, *)
(* for as long as it exists.                                               *)
ScanIrrevocable ==
    \A id \in sealed : \A c \in Catalogs :
        id \in Live(c) => c.vaults[id].worm = WormFlags

(* A step that hands out an id hands out one that was not acknowledged.    *)
FreshId ==
    \A p \in Procs :
        (up[p] /\ up'[p] /\ mem'[p].next_id # mem[p].next_id)
            => mem[p].next_id \notin issued

(* vault_create never hands out an id, and with it a directory             *)
(* cipher_<id>, that an acknowledged vault had before.                     *)
IdsAreFresh == [][FreshId]_vars
=============================================================================
