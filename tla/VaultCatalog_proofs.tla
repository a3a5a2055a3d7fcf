------------------------ MODULE VaultCatalog_proofs ------------------------
(***************************************************************************)
(* Proofs about VaultCatalog, for every set of processes, names and        *)
(* passwords, every capacity and every attempt limit.                      *)
(***************************************************************************)
EXTENDS VaultCatalog, TLAPS

(* A catalog a process may hold or find in the file.                       *)
LocksAgree(c) == \A id \in Live(c) : LockAgrees(c.vaults[id])
GoodCatalog(c) == c \in Catalog /\ Keyed(c) /\ LocksAgree(c)

(* The inductive invariant.                                                *)
IInv ==
    /\ TypeOK
    /\ \A p \in Procs : GoodCatalog(mem[p])
    /\ disk # NoCatalog => GoodCatalog(disk)

-----------------------------------------------------------------------------
(* Records.                                                                *)

(* A right password leaves a record whose counter is clear: the lockout    *)
(* conditions hold of it unless the vault is LOCKED.                       *)
LEMMA MatchGood ==
    ASSUME NEW v \in Vault, LockAgrees(v), v.status # "LOCKED"
    PROVE  Match(v) \in Vault /\ LockAgrees(Match(v)) /\ Match(v).name = v.name
BY BoundsAssumption DEF Match, LockAgrees, Vault

(* A refused password leaves a record on which counter and status agree.   *)
LEMMA RefusedGood ==
    ASSUME NEW v \in Vault, LockAgrees(v), NEW pw \in Passwords
    PROVE  /\ Refused(v, pw) \in Vault
           /\ LockAgrees(Refused(v, pw))
           /\ Refused(v, pw).name = v.name
           /\ Refused(v, pw).worm = v.worm
<1>1. CASE Verdict(v, pw) # "AUTH_FAIL"
  BY <1>1 DEF Refused
<1>2. CASE Verdict(v, pw) = "AUTH_FAIL"
  <2>1. v.type = "PROTECTED" /\ Refused(v, pw) = Miss(v)
    BY <1>2 DEF Refused, Verdict, LockAgrees
  <2>2. Miss(v) \in Vault /\ LockAgrees(Miss(v)) /\ Miss(v).name = v.name /\ Miss(v).worm = v.worm
    <3> DEFINE w == Miss(v)
    <3>1. /\ w \in Vault /\ w.name = v.name /\ w.worm = v.worm
          /\ w.type = v.type /\ w.pass = v.pass
          /\ w.failed_attempts = v.failed_attempts + 1
          /\ w.status = IF v.failed_attempts + 1 >= MAX_PASS_ATTEMPTS
                        THEN "LOCKED" ELSE v.status
      <4> DEFINE n == v.failed_attempts + 1
                 s == IF n >= MAX_PASS_ATTEMPTS THEN "LOCKED" ELSE v.status
      <4>1. n \in Nat /\ s \in {"OK", "LOCKED", "ALERT"}
        BY DEF Vault
      <4>2. w = [v EXCEPT !.failed_attempts = n, !.status = s]
        BY DEF Miss
      <4> HIDE DEF w, n, s
      <4>3. /\ w \in Vault /\ w.name = v.name /\ w.worm = v.worm
            /\ w.type = v.type /\ w.pass = v.pass
            /\ w.failed_attempts = n /\ w.status = s
        BY <4>1, <4>2 DEF Vault
      <4> QED BY <4>3 DEF n, s, w
    <3>2. LockAgrees(w)
      <4>1. v.failed_attempts \in Nat /\ MAX_PASS_ATTEMPTS \in Nat
        BY BoundsAssumption DEF Vault
      <4> QED BY <2>1, <3>1, <4>1 DEF LockAgrees
    <3> QED BY <3>1, <3>2
  <2> QED BY <2>1, <2>2
<1> QED BY <1>1, <1>2

(* A caller who passed the password check of a PROTECTED vault did so on a *)
(* vault that is not LOCKED.                                               *)
LEMMA OpenNotLocked ==
    ASSUME NEW v \in Vault, LockAgrees(v), NEW pw, MayEnter(v, pw)
    PROVE  v.status # "LOCKED"
BY BoundsAssumption DEF MayEnter, Verdict, LockAgrees, Vault

(* What a caller who passed MayEnter leaves of the record: the same name   *)
(* and flags, and a clear counter or the record as it was.                 *)
LEMMA EnteredGood ==
    ASSUME NEW v \in Vault, LockAgrees(v), NEW pw, MayEnter(v, pw)
    PROVE  /\ Entered(v) \in Vault /\ LockAgrees(Entered(v))
           /\ Entered(v).failed_attempts = 0 \/ Entered(v) = v
           /\ Entered(v).name = v.name /\ Entered(v).worm = v.worm
BY MatchGood, OpenNotLocked DEF Entered, Match, Vault

-----------------------------------------------------------------------------
(* Catalogs.                                                               *)

(* The catalogs a process starts from (no file, or wiped) are well formed. *)
LEMMA EmptyGood == GoodCatalog(ZeroCatalog) /\ GoodCatalog(FreshCatalog)
BY DEF GoodCatalog, ZeroCatalog, FreshCatalog, Catalog, Keyed, LocksAgree, Live

(* Replacing a live vault by a record with the same or a free name keeps a *)
(* catalog well formed.                                                    *)
LEMMA SetVaultGood ==
    ASSUME NEW c, GoodCatalog(c), NEW id \in Live(c), NEW v \in Vault, LockAgrees(v),
           v.name = c.vaults[id].name \/ ~vault_find_by_name(c, v.name)
    PROVE  /\ GoodCatalog(SetVault(c, id, v))
           /\ Live(SetVault(c, id, v)) = Live(c)
           /\ SetVault(c, id, v).next_id = c.next_id
<1>1. /\ c \in Catalog /\ id \in Ids /\ Keyed(c) /\ LocksAgree(c)
  BY DEF GoodCatalog, Live
<1> DEFINE d == SetVault(c, id, v)
<1>2. /\ d.next_id = c.next_id /\ d.vaults = [c.vaults EXCEPT ![id] = v]
      /\ d \in Catalog
  BY <1>1 DEF SetVault, Catalog
<1>3. \A i \in Ids : d.vaults[i] = IF i = id THEN v ELSE c.vaults[i]
  BY <1>1, <1>2 DEF Catalog
<1>4. Live(d) = Live(c)
  BY <1>3, NullsAssumption DEF Live
<1>5. Keyed(d)
  BY <1>1, <1>2, <1>3, <1>4 DEF Keyed, Live, vault_find_by_name
<1>6. LocksAgree(d)
  BY <1>1, <1>3, <1>4 DEF LocksAgree, Live
<1> QED BY <1>2, <1>4, <1>5, <1>6 DEF GoodCatalog

(* Taking a vault out keeps a catalog well formed.                         *)
LEMMA DropVaultGood ==
    ASSUME NEW c, GoodCatalog(c), NEW id \in Live(c)
    PROVE  /\ GoodCatalog(SetVault(c, id, NoVault))
           /\ Live(SetVault(c, id, NoVault)) = Live(c) \ {id}
           /\ SetVault(c, id, NoVault).next_id = c.next_id
           /\ \A i \in Live(c) \ {id} : SetVault(c, id, NoVault).vaults[i] = c.vaults[i]
<1>1. /\ c \in Catalog /\ id \in Ids /\ Keyed(c) /\ LocksAgree(c)
  BY DEF GoodCatalog, Live
<1> DEFINE d == SetVault(c, id, NoVault)
<1>2. /\ d.next_id = c.next_id /\ d.vaults = [c.vaults EXCEPT ![id] = NoVault]
      /\ d \in Catalog
  BY <1>1 DEF SetVault, Catalog
<1>3. \A i \in Ids : d.vaults[i] = IF i = id THEN NoVault ELSE c.vaults[i]
  BY <1>1, <1>2 DEF Catalog
<1>4. Live(d) = Live(c) \ {id}
  BY <1>3 DEF Live
<1>5. Keyed(d) /\ LocksAgree(d)
  BY <1>1, <1>2, <1>3, <1>4 DEF Keyed, LocksAgree, Live
<1> QED BY <1>2, <1>3, <1>4, <1>5 DEF GoodCatalog, Live

(* The catalog vault_create commits: next_id is used up and its slot, empty *)
(* before, holds v.                                                        *)
Added(c, v) == [vaults |-> [c.vaults EXCEPT ![c.next_id] = v], next_id |-> c.next_id + 1]

(* Adding a vault under a free name at next_id, as vault_create does,      *)
(* keeps a catalog well formed and touches no other vault.                 *)
LEMMA AddVaultGood ==
    ASSUME NEW c, GoodCatalog(c), c.next_id <= MaxId, NEW v \in Vault, LockAgrees(v),
           ~vault_find_by_name(c, v.name)
    PROVE  /\ GoodCatalog(Added(c, v))
           /\ Live(Added(c, v)) = Live(c) \cup {c.next_id}
           /\ c.next_id \in Ids \ Live(c)
           /\ \A i \in Live(c) : Added(c, v).vaults[i] = c.vaults[i]
<1>1. /\ c \in Catalog /\ Keyed(c) /\ LocksAgree(c)
  BY DEF GoodCatalog
<1>2. c.next_id \in Ids \ Live(c)
  BY <1>1, BoundsAssumption DEF Catalog, Ids, Keyed
<1> DEFINE d == Added(c, v)
<1>3. /\ d.next_id = c.next_id + 1 /\ d.vaults = [c.vaults EXCEPT ![c.next_id] = v]
      /\ d \in Catalog
  BY <1>1, <1>2 DEF Added, Catalog
<1>4. \A i \in Ids : d.vaults[i] = IF i = c.next_id THEN v ELSE c.vaults[i]
  BY <1>1, <1>3 DEF Catalog
<1>5. Live(d) = Live(c) \cup {c.next_id}
  BY <1>2, <1>4, NullsAssumption DEF Live
<1>6. c.next_id \in Nat /\ \A i \in Live(c) : i < c.next_id /\ i \in Nat
  BY <1>1, <1>2, BoundsAssumption DEF Catalog, Keyed, Live, Ids
<1>7. Keyed(d)
  BY <1>1, <1>2, <1>3, <1>4, <1>5, <1>6 DEF Keyed, Live, vault_find_by_name
<1>8. LocksAgree(d)
  BY <1>1, <1>2, <1>4, <1>5 DEF LocksAgree, Live
<1> QED BY <1>2, <1>3, <1>4, <1>5, <1>7, <1>8 DEF GoodCatalog, Live

(* Using up an id keeps a catalog well formed.                             *)
LEMMA SkipIdGood ==
    ASSUME NEW c, GoodCatalog(c)
    PROVE  /\ GoodCatalog([c EXCEPT !.next_id = @ + 1])
           /\ Live([c EXCEPT !.next_id = @ + 1]) = Live(c)
<1>1. c \in Catalog /\ Keyed(c) /\ LocksAgree(c)
  BY DEF GoodCatalog
<1> DEFINE d == [c EXCEPT !.next_id = @ + 1]
<1>2. d \in Catalog /\ d.vaults = c.vaults /\ d.next_id = c.next_id + 1
  BY <1>1 DEF Catalog
<1>3. Live(d) = Live(c)
  BY <1>2 DEF Live
<1>4. c.next_id \in Nat /\ \A i \in Live(c) : i \in Nat
  BY <1>1, BoundsAssumption DEF Catalog, Live, Ids
<1>5. Keyed(d) /\ LocksAgree(d)
  BY <1>1, <1>2, <1>3, <1>4 DEF Keyed, LocksAgree
<1> QED BY <1>2, <1>3, <1>5 DEF GoodCatalog

-----------------------------------------------------------------------------
(* Steps.                                                                  *)

(* A step that gives p a well-formed catalog and leaves in the file what   *)
(* was there, what p had or what p has now, keeps the invariant.           *)
LEMMA StepGood ==
    ASSUME IInv, NEW p \in Procs, NEW c, GoodCatalog(c),
           mem' = [mem EXCEPT ![p] = c],
           disk' = disk \/ disk' = mem[p] \/ disk' = c,
           up' \in [Procs -> BOOLEAN],
           issued' \subseteq Ids, removed' \subseteq Ids, sealed' \subseteq Ids
    PROVE  IInv'
<1>1. c \in Catalog /\ mem \in [Procs -> Catalog]
  BY DEF IInv, TypeOK, GoodCatalog
<1>2. \A q \in Procs : mem'[q] = IF q = p THEN c ELSE mem[q]
  BY <1>1
<1>3. mem' \in [Procs -> Catalog]
  BY <1>1
<1>4. \A q \in Procs : GoodCatalog(mem'[q])
  BY <1>2 DEF IInv
<1>5. disk' # NoCatalog => GoodCatalog(disk')
  BY DEF IInv
<1>6. disk' \in Catalog \cup {NoCatalog}
  BY <1>1 DEF IInv, TypeOK
<1>7. TypeOK'
  BY <1>3, <1>6 DEF TypeOK
<1>8. /\ (\A q \in Procs : GoodCatalog(mem[q]))'
      /\ (disk # NoCatalog => GoodCatalog(disk))'
  BY <1>4, <1>5 DEF GoodCatalog, Keyed, LocksAgree, Live, LockAgrees
<1> QED BY <1>7, <1>8 DEF IInv

(* What a save leaves in the file.                                         *)
LEMMA SaveEffect ==
    ASSUME mem \in [Procs -> Catalog], NEW p \in Procs, NEW c,
           mem' = [mem EXCEPT ![p] = c], NEW err, catalog_save(p, err)
    PROVE  (err = "OK" /\ disk' = c) \/ (err = "IO" /\ disk' = disk)
BY DEF catalog_save

(* The shape of every refused authentication.                              *)
LEMMA RefusedStep ==
    ASSUME IInv, NEW p \in Procs, NEW id, Has(p, id), NEW pw \in Passwords,
           NEW err, AuthRefused(p, id, pw, err)
    PROVE  LET v == mem[p].vaults[id]
               c == SetVault(mem[p], id, Refused(v, pw)) IN
           /\ v \in Vault /\ LockAgrees(v)
           /\ mem' = [mem EXCEPT ![p] = c]
           /\ GoodCatalog(c)
           /\ disk' = disk \/ disk' = c
           /\ UNCHANGED <<up, issued, removed, sealed>>
<1> DEFINE v == mem[p].vaults[id]
           c == SetVault(mem[p], id, Refused(v, pw))
<1>1. id \in Live(mem[p]) /\ GoodCatalog(mem[p]) /\ mem \in [Procs -> Catalog]
  BY DEF Has, IInv, TypeOK
<1>2. v \in Vault /\ LockAgrees(v)
  BY <1>1 DEF Live, GoodCatalog, Catalog, LocksAgree
<1>3. GoodCatalog(c)
  BY <1>1, <1>2, RefusedGood, SetVaultGood
<1>4. mem' = [mem EXCEPT ![p] = c] /\ UNCHANGED <<up, issued, removed, sealed>>
  BY <1>1 DEF AuthRefused, history
<1>5. disk' = disk \/ disk' = c
  BY <1>1, <1>4, SaveEffect DEF AuthRefused
<1> QED BY <1>2, <1>3, <1>4, <1>5

(* A call refused by auth_verify_password keeps the invariant.             *)
LEMMA RefusedKeeps ==
    ASSUME IInv, NEW p \in Procs, NEW id, Has(p, id), NEW pw \in Passwords,
           NEW err, AuthRefused(p, id, pw, err)
    PROVE  IInv'
<1>1. /\ up' \in [Procs -> BOOLEAN]
      /\ issued' \subseteq Ids /\ removed' \subseteq Ids /\ sealed' \subseteq Ids
  BY RefusedStep DEF IInv, TypeOK
<1> QED BY <1>1, RefusedStep, StepGood

(* A call that replaces the record of a live vault, and may save.          *)
LEMMA SetStepKeeps ==
    ASSUME IInv, NEW p \in Procs, NEW id, Has(p, id), NEW w \in Vault, LockAgrees(w),
           w.name = mem[p].vaults[id].name \/ ~vault_find_by_name(mem[p], w.name),
           mem' = [mem EXCEPT ![p] = SetVault(mem[p], id, w)],
           disk' = disk \/ disk' = SetVault(mem[p], id, w),
           UNCHANGED <<up, issued, removed>>, sealed' \subseteq Ids
    PROVE  IInv'
<1>1. id \in Live(mem[p]) /\ GoodCatalog(mem[p])
  BY DEF Has, IInv
<1>2. GoodCatalog(SetVault(mem[p], id, w))
  BY <1>1, SetVaultGood
<1>3. /\ up' \in [Procs -> BOOLEAN]
      /\ issued' \subseteq Ids /\ removed' \subseteq Ids
  BY DEF IInv, TypeOK
<1> QED BY <1>2, <1>3, StepGood
(* The same for a call that always saves (Commit).                         *)
LEMMA CommitKeeps ==
    ASSUME IInv, NEW p \in Procs, NEW id, Has(p, id), NEW w \in Vault, LockAgrees(w),
           w.name = mem[p].vaults[id].name \/ ~vault_find_by_name(mem[p], w.name),
           NEW err, Commit(p, SetVault(mem[p], id, w), err),
           UNCHANGED <<up, issued, removed>>, sealed' \subseteq Ids
    PROVE  IInv'
<1>1. mem \in [Procs -> Catalog]
  BY DEF IInv, TypeOK
<1>2. /\ mem' = [mem EXCEPT ![p] = SetVault(mem[p], id, w)]
      /\ disk' = disk \/ disk' = SetVault(mem[p], id, w)
  BY <1>1, SaveEffect DEF Commit
<1> QED BY <1>2, SetStepKeeps

(* The record a call of p finds.                                           *)
LEMMA FoundGood ==
    ASSUME IInv, NEW p \in Procs, NEW id, Has(p, id)
    PROVE  /\ id \in Ids /\ id \in Live(mem[p]) /\ GoodCatalog(mem[p])
           /\ mem[p].vaults[id] \in Vault /\ LockAgrees(mem[p].vaults[id])
           /\ mem \in [Procs -> Catalog]
BY DEF Has, IInv, TypeOK, Live, GoodCatalog, Catalog, LocksAgree

-----------------------------------------------------------------------------
(* Each operation keeps the invariant.                                     *)

(* Starting, shutting down and crashing keep the invariant.                *)
LEMMA LifeCycleKeeps ==
    ASSUME IInv, NEW p \in Procs, LifeCycle(p)
    PROVE  IInv'
<1>0. /\ mem \in [Procs -> Catalog] /\ up \in [Procs -> BOOLEAN]
      /\ issued \subseteq Ids /\ removed \subseteq Ids /\ sealed \subseteq Ids
  BY DEF IInv, TypeOK
<1>1. CASE vault_ffi_init(p)
  <2>1. GoodCatalog(catalog_load)
    BY EmptyGood DEF catalog_load, IInv
  <2> QED BY <1>0, <1>1, <2>1, StepGood DEF vault_ffi_init, history
<1>2. CASE vault_ffi_init_failed(p)
  <2>1. mem' = [mem EXCEPT ![p] = mem[p]] /\ GoodCatalog(mem[p])
    BY <1>0, <1>2 DEF vault_ffi_init_failed, IInv
  <2> QED BY <1>0, <1>2, <2>1, StepGood DEF vault_ffi_init_failed, history
<1>3. CASE vault_ffi_shutdown(p)
  BY <1>0, <1>3, EmptyGood, StepGood DEF vault_ffi_shutdown, history
<1>4. CASE Crash(p)
  BY <1>0, <1>4, EmptyGood, StepGood DEF Crash, history
<1> QED BY <1>1, <1>2, <1>3, <1>4 DEF LifeCycle

(* The record vault_create fills in is well formed.                        *)
LEMMA NewVaultGood ==
    ASSUME NEW n \in Names, NEW t \in {"NORMAL", "PROTECTED"}, NEW pw \in Passwords
    PROVE  /\ NewVault(n, t, pw) \in Vault /\ LockAgrees(NewVault(n, t, pw))
           /\ NewVault(n, t, pw).name = n
BY BoundsAssumption, NullsAssumption DEF NewVault, Vault, LockAgrees

(* vault_create keeps the invariant: the name was free and the id new.     *)
LEMMA CreateKeeps ==
    ASSUME IInv, NEW p \in Procs, NEW n \in Names, NEW t \in {"NORMAL", "PROTECTED"},
           NEW pw \in Passwords, NEW err, vault_create(p, n, t, pw, err)
    PROVE  IInv'
<1> DEFINE c == Added(mem[p], NewVault(n, t, pw))
<1>1. /\ GoodCatalog(mem[p]) /\ mem \in [Procs -> Catalog] /\ mem[p].next_id <= MaxId
      /\ ~vault_find_by_name(mem[p], n)
  BY DEF IInv, TypeOK, vault_create, CanCreate
<1>2. GoodCatalog(c) /\ mem[p].next_id \in Ids
  BY <1>1, NewVaultGood, AddVaultGood
<1>3. mem' = [mem EXCEPT ![p] = c] /\ catalog_save(p, err)
  BY DEF vault_create, Commit, Added
<1>4. disk' = disk \/ disk' = c
  BY <1>1, <1>3, SaveEffect
<1>5. /\ up' \in [Procs -> BOOLEAN]
      /\ issued' \subseteq Ids /\ removed' \subseteq Ids /\ sealed' \subseteq Ids
  BY <1>2 DEF vault_create, IInv, TypeOK
<1> QED BY <1>2, <1>3, <1>4, <1>5, StepGood

(* A vault_create that gives up after it took an id keeps the invariant.   *)
LEMMA AbandonedKeeps ==
    ASSUME IInv, NEW p \in Procs, NEW n \in Names,
           vault_create_abandoned(p, n)
    PROVE  IInv'
<1> DEFINE c == [mem[p] EXCEPT !.next_id = @ + 1]
<1>1. /\ GoodCatalog(mem[p]) /\ mem \in [Procs -> Catalog] /\ mem[p].next_id <= MaxId
  BY DEF IInv, TypeOK, vault_create_abandoned, CanCreate
<1>2. GoodCatalog(c) /\ mem[p].next_id \in Ids
  BY <1>1, SkipIdGood, BoundsAssumption DEF GoodCatalog, Catalog, Ids
<1>3. mem' = [mem EXCEPT ![p] = c] /\ disk' = disk
  BY DEF vault_create_abandoned
<1>4. /\ up' \in [Procs -> BOOLEAN]
      /\ issued' \subseteq Ids /\ removed' \subseteq Ids /\ sealed' \subseteq Ids
  BY <1>2 DEF vault_create_abandoned, IInv, TypeOK, history
<1> QED BY <1>2, <1>3, <1>4, StepGood

(* vault_delete keeps the invariant, refused or not.                       *)
LEMMA DeleteKeeps ==
    ASSUME IInv, NEW p \in Procs, NEW id, NEW pw \in Passwords, NEW err,
           vault_delete(p, id, pw, err)
    PROVE  IInv'
<1> DEFINE v == mem[p].vaults[id]
           c == SetVault(mem[p], id, NoVault)
<1>0. Has(p, id)
  BY DEF vault_delete
<1>1. CASE AuthRefused(p, id, pw, err)
  BY <1>0, <1>1, RefusedKeeps
<1>2. CASE /\ Commit(p, c, err)
           /\ removed' = removed \cup {id}
           /\ UNCHANGED <<up, issued, sealed>>
  <2>1. id \in Ids /\ GoodCatalog(c) /\ mem \in [Procs -> Catalog]
    BY <1>0, FoundGood, DropVaultGood
  <2>2. mem' = [mem EXCEPT ![p] = c] /\ (disk' = disk \/ disk' = c)
    BY <1>2, <2>1, SaveEffect DEF Commit
  <2>3. /\ up' \in [Procs -> BOOLEAN]
        /\ issued' \subseteq Ids /\ removed' \subseteq Ids /\ sealed' \subseteq Ids
    BY <1>2, <2>1 DEF IInv, TypeOK
  <2> QED BY <2>1, <2>2, <2>3, StepGood
<1> QED BY <1>1, <1>2 DEF vault_delete

(* vault_rename keeps the invariant: the new name was free.                *)
LEMMA RenameKeeps ==
    ASSUME IInv, NEW p \in Procs, NEW id, NEW n \in Names, NEW pw \in Passwords, NEW err,
           vault_rename(p, id, n, pw, err)
    PROVE  IInv'
<1> DEFINE v == mem[p].vaults[id]
           w == [Entered(v) EXCEPT !.name = n]
<1>0. Has(p, id) /\ ~vault_find_by_name(mem[p], n)
  BY DEF vault_rename
<1>1. CASE AuthRefused(p, id, pw, err)
  BY <1>0, <1>1, RefusedKeeps
<1>2. CASE /\ MayEnter(v, pw)
           /\ Commit(p, SetVault(mem[p], id, w), err)
           /\ UNCHANGED <<up, history>>
  <2>1. v \in Vault /\ LockAgrees(v) /\ mem \in [Procs -> Catalog]
    BY <1>0, FoundGood
  <2>2. w \in Vault /\ LockAgrees(w) /\ w.name = n
    BY <1>2, <2>1, EnteredGood DEF Vault, LockAgrees
  <2>3. UNCHANGED <<up, issued, removed>> /\ sealed' \subseteq Ids
    BY <1>2 DEF IInv, TypeOK, history
  <2> HIDE DEF w
  <2> QED BY <1>0, <1>2, <2>2, <2>3, CommitKeeps
<1> QED BY <1>1, <1>2 DEF vault_rename

(* On a LOCKED vault vault_unlock is a refused authentication, whatever    *)
(* the password.                                                           *)
LEMMA UnlockRefused ==
    ASSUME NEW p, NEW id, NEW pw, NEW err, vault_unlock(p, id, pw, err)
    PROVE  Has(p, id) /\ AuthRefused(p, id, pw, err)
<1> DEFINE v == mem[p].vaults[id]
<1>1. Has(p, id) /\ v.status = "LOCKED"
  BY DEF vault_unlock
<1>2. Verdict(v, pw) \notin {"OK", "AUTH_FAIL"}
  BY <1>1 DEF Verdict
<1>3. Refused(v, pw) = v
  BY <1>2 DEF Refused
<1> QED BY <1>1, <1>2, <1>3 DEF vault_unlock, AuthRefused

(* vault_unlock keeps the invariant.                                       *)
LEMMA UnlockKeeps ==
    ASSUME IInv, NEW p \in Procs, NEW id, NEW pw \in Passwords, NEW err,
           vault_unlock(p, id, pw, err)
    PROVE  IInv'
BY UnlockRefused, RefusedKeeps

(* vault_change_password keeps the invariant on each of its returns.       *)
LEMMA ChangePasswordKeeps ==
    ASSUME IInv, NEW p \in Procs, NEW id, NEW old \in Passwords, NEW new \in Passwords,
           NEW err, vault_change_password(p, id, old, new, err)
    PROVE  IInv'
<1> DEFINE v == mem[p].vaults[id]
           w(pass) == [Match(v) EXCEPT !.pass = pass]
<1>0. Has(p, id) /\ v.pass # NoPass
  BY DEF vault_change_password
<1>1. CASE AuthRefused(p, id, old, err)
  BY <1>0, <1>1, RefusedKeeps
<1>2. ASSUME Verdict(v, old) = "OK", NEW pass \in Passwords \cup {Broken}
      PROVE  w(pass) \in Vault /\ LockAgrees(w(pass)) /\ w(pass).name = v.name
  <2>1. v \in Vault /\ LockAgrees(v) /\ v.status # "LOCKED"
    BY <1>0, <1>2, FoundGood DEF Verdict
  <2>2. Match(v) \in Vault /\ LockAgrees(Match(v)) /\ Match(v).name = v.name
        /\ Match(v).type = v.type
    BY <2>1, MatchGood DEF Match, Vault
  <2>3. v.type = "PROTECTED" /\ pass # NoPass
    BY <1>0, <2>1, NullsAssumption DEF LockAgrees
  <2> QED BY <2>2, <2>3 DEF Vault, LockAgrees
<1>3. CASE /\ Verdict(v, old) = "OK"
           /\ Commit(p, SetVault(mem[p], id, w(new)), err)
           /\ UNCHANGED <<up, history>>
  <2>1. w(new) \in Vault /\ LockAgrees(w(new)) /\ w(new).name = v.name
    BY <1>2, <1>3
  <2>2. UNCHANGED <<up, issued, removed>> /\ sealed' \subseteq Ids
    BY <1>3 DEF IInv, TypeOK, history
  <2> HIDE DEF w
  <2> QED BY <1>0, <1>3, <2>1, <2>2, CommitKeeps
<1>4. ASSUME Verdict(v, old) = "OK", NEW pass \in {v.pass, Broken},
             mem' = [mem EXCEPT ![p] = SetVault(mem[p], id, w(pass))],
             UNCHANGED <<disk, up, history>>
      PROVE  IInv'
  <2>1. pass \in Passwords \cup {Broken}
    BY <1>0, <1>4, FoundGood DEF Vault
  <2>2. w(pass) \in Vault /\ LockAgrees(w(pass)) /\ w(pass).name = v.name
    BY <1>2, <1>4, <2>1
  <2>3. UNCHANGED <<up, issued, removed>> /\ sealed' \subseteq Ids
    BY <1>4 DEF IInv, TypeOK, history
  <2> HIDE DEF w
  <2> QED BY <1>0, <1>4, <2>2, <2>3, SetStepKeeps
<1> QED BY <1>1, <1>3, <1>4 DEF vault_change_password

(* A call that only authenticates keeps the invariant.                     *)
LEMMA AuthenticateKeeps ==
    ASSUME IInv, NEW p \in Procs, NEW id, NEW pw \in Passwords, NEW err,
           authenticate(p, id, pw, err)
    PROVE  IInv'
<1> DEFINE v == mem[p].vaults[id]
<1>0. Has(p, id)
  BY DEF authenticate
<1>1. CASE AuthRefused(p, id, pw, err)
  BY <1>0, <1>1, RefusedKeeps
<1>2. CASE /\ Verdict(v, pw) = "OK"
           /\ mem' = [mem EXCEPT ![p] = SetVault(@, id, Match(v))]
           /\ UNCHANGED <<disk, up, history>>
  <2>1. Match(v) \in Vault /\ LockAgrees(Match(v)) /\ Match(v).name = v.name
    BY <1>0, <1>2, FoundGood, MatchGood DEF Verdict
  <2>2. UNCHANGED <<up, issued, removed>> /\ sealed' \subseteq Ids
    BY <1>2 DEF IInv, TypeOK, history
  <2>3. mem' = [mem EXCEPT ![p] = SetVault(mem[p], id, Match(v))]
    BY <1>2
  <2> QED BY <1>0, <1>2, <2>1, <2>2, <2>3, SetStepKeeps
<1> QED BY <1>1, <1>2 DEF authenticate

(* vault_scan keeps the invariant: ALERT puts no condition on the counter. *)
LEMMA ScanKeeps ==
    ASSUME IInv, NEW p \in Procs, NEW id, NEW changed \in BOOLEAN, NEW err,
           vault_scan(p, id, changed, err)
    PROVE  IInv'
<1> DEFINE v == mem[p].vaults[id]
           w == IF changed THEN alert_trigger(v) ELSE v
<1>0. Has(p, id)
  BY DEF vault_scan
<1>1. w \in Vault /\ LockAgrees(w) /\ w.name = v.name
  BY <1>0, FoundGood DEF alert_trigger, Vault, LockAgrees
<1>2. UNCHANGED <<up, issued, removed>> /\ sealed' \subseteq Ids
  BY DEF vault_scan, IInv, TypeOK, history
<1>3. Commit(p, SetVault(mem[p], id, w), err)
  BY <1>0, FoundGood DEF vault_scan, Commit
<1> HIDE DEF w
<1> QED BY <1>0, <1>1, <1>2, <1>3, CommitKeeps

(* alert_resolve keeps the invariant: it clears the counter of a PROTECTED *)
(* vault together with the status.                                         *)
LEMMA ResolveKeeps ==
    ASSUME IInv, NEW p \in Procs, NEW id, NEW pw \in Passwords, NEW err,
           alert_resolve(p, id, pw, err)
    PROVE  IInv'
<1> DEFINE v == mem[p].vaults[id]
           w == [Entered(v) EXCEPT !.status = "OK"]
<1>0. Has(p, id)
  BY DEF alert_resolve
<1>1. CASE AuthRefused(p, id, pw, err)
  BY <1>0, <1>1, RefusedKeeps
<1>2. CASE /\ MayEnter(v, pw)
           /\ Commit(p, SetVault(mem[p], id, w), err)
           /\ UNCHANGED <<up, history>>
  <2>1. v \in Vault /\ LockAgrees(v)
    BY <1>0, FoundGood
  <2>2. Entered(v) \in Vault /\ LockAgrees(Entered(v)) /\ Entered(v).name = v.name
    BY <1>2, <2>1, EnteredGood
  <2>3. Entered(v).failed_attempts = 0
    BY <2>1 DEF Entered, Match, LockAgrees, Vault
  <2>4. w \in Vault /\ LockAgrees(w) /\ w.name = v.name
    BY <2>2, <2>3, BoundsAssumption DEF Vault, LockAgrees
  <2>5. UNCHANGED <<up, issued, removed>> /\ sealed' \subseteq Ids
    BY <1>2 DEF IInv, TypeOK, history
  <2> HIDE DEF w
  <2> QED BY <1>0, <1>2, <2>4, <2>5, CommitKeeps
<1> QED BY <1>1, <1>2 DEF alert_resolve

(* The calls on the WORM flags keep the invariant.                         *)
LEMMA WormKeeps ==
    ASSUME IInv, NEW p \in Procs, NEW id, NEW flags \in SUBSET WormFlags, NEW err,
           \/ vault_worm_set_flags(p, id, flags, err)
           \/ vault_worm_clear_flags(p, id, flags, err)
           \/ vault_worm_set_scan(p, id, err)
    PROVE  IInv'
<1> DEFINE v == mem[p].vaults[id]
           w(worm) == [v EXCEPT !.worm = worm]
<1>0. Has(p, id)
  BY DEF vault_worm_set_flags, vault_worm_clear_flags, vault_worm_set_scan
<1>1. id \in Ids /\ v \in Vault /\ LockAgrees(v)
  BY <1>0, FoundGood
<1>2. ASSUME NEW worm \in SUBSET WormFlags
      PROVE  w(worm) \in Vault /\ LockAgrees(w(worm)) /\ w(worm).name = v.name
  BY <1>1 DEF Vault, LockAgrees
<1>3. UNCHANGED <<up, issued, removed>> /\ sealed' \subseteq Ids
  BY <1>1 DEF vault_worm_set_flags, vault_worm_clear_flags, vault_worm_set_scan, IInv, TypeOK, history
<1>4. PICK worm \in SUBSET WormFlags : Commit(p, SetVault(mem[p], id, w(worm)), err)
  <2>1. v.worm \in SUBSET WormFlags
    BY <1>1 DEF Vault
  <2> QED BY <2>1 DEF vault_worm_set_flags, vault_worm_clear_flags, vault_worm_set_scan
<1>5. w(worm) \in Vault /\ LockAgrees(w(worm)) /\ w(worm).name = v.name
  BY <1>2
<1> HIDE DEF w
<1> QED BY <1>0, <1>3, <1>4, <1>5, CommitKeeps

-----------------------------------------------------------------------------
(* Every step keeps the inductive invariant.                               *)
LEMMA NextKeeps == IInv /\ [Next]_vars => IInv'
<1> SUFFICES ASSUME IInv, [Next]_vars PROVE IInv'
  OBVIOUS
<1>1. CASE UNCHANGED vars
  BY <1>1 DEF vars, IInv, TypeOK, GoodCatalog, Keyed, LocksAgree, Live, LockAgrees
<1>2. CASE Next
  <2>1. PICK p \in Procs :
            LifeCycle(p) \/ \E err \in {"OK", "IO"} : Manage(p, err) \/ Guard(p, err)
    BY <1>2 DEF Next
  <2>2. CASE LifeCycle(p)
    BY <2>2, LifeCycleKeeps
  <2>3. ASSUME NEW err, Manage(p, err) PROVE IInv'
    BY <2>3, CreateKeeps, AbandonedKeeps, DeleteKeeps, RenameKeeps, UnlockKeeps,
       ChangePasswordKeeps, AuthenticateKeeps DEF Manage
  <2>4. ASSUME NEW err, Guard(p, err) PROVE IInv'
    <3>1. PICK id \in Ids :
            \/ \E changed \in BOOLEAN : vault_scan(p, id, changed, err)
            \/ \E pw \in Passwords : alert_resolve(p, id, pw, err)
            \/ \E flags \in SUBSET WormFlags \ {{}} :
                 vault_worm_set_flags(p, id, flags, err) \/ vault_worm_clear_flags(p, id, flags, err)
            \/ vault_worm_set_scan(p, id, err)
      BY <2>4 DEF Guard
    <3>2. {} \in SUBSET WormFlags
      OBVIOUS
    <3> QED BY <3>1, <3>2, ScanKeeps, ResolveKeeps, WormKeeps
  <2> QED BY <2>1, <2>2, <2>3, <2>4
<1> QED BY <1>1, <1>2

(* The inductive invariant holds initially.                                *)
LEMMA InitGood == Init => IInv
<1> SUFFICES ASSUME Init PROVE IInv
  OBVIOUS
<1>1. \A p \in Procs : mem[p] = ZeroCatalog
  BY DEF Init
<1>2. ZeroCatalog \in Catalog
  BY EmptyGood DEF GoodCatalog
<1>3. TypeOK
  BY <1>2 DEF Init, TypeOK
<1> QED BY <1>1, <1>3, EmptyGood DEF IInv, Init

(* The inductive invariant holds throughout, for any number of processes   *)
(* that share catalog.dat, crash, restart, and fail to load or to save.    *)
THEOREM InvariantHolds == Spec => []IInv
BY InitGood, NextKeeps, PTL DEF Spec

(* Type correctness of every variable, for any number of processes.        *)
THEOREM TypeCorrect == Spec => []TypeOK
<1>1. IInv => TypeOK
  BY DEF IInv
<1> QED BY <1>1, InvariantHolds, PTL

(* Names and ids stay unique in every catalog a process holds and in       *)
(* catalog.dat, whatever the processes sharing the file do, and even after *)
(* catalogs were lost to a failed load or save.                            *)
THEOREM KeysStayUnique == Spec => []UniqueKeys
<1>1. IInv => UniqueKeys
  BY DEF IInv, UniqueKeys, Catalogs, GoodCatalog
<1> QED BY <1>1, InvariantHolds, PTL

(* The status of a vault and its counter of failed attempts agree in every *)
(* catalog, in memory and on disk.                                         *)
THEOREM LockoutStaysConsistent == Spec => []LockoutConsistent
<1>1. IInv => LockoutConsistent
  BY DEF IInv, LockoutConsistent, Catalogs, GoodCatalog, LocksAgree
<1> QED BY <1>1, InvariantHolds, PTL
-----------------------------------------------------------------------------
(* A LOCKED vault is frozen.                                               *)

(* A record as it was but for an alert.                                    *)
Frozen(v, w) ==
    /\ w # NoVault
    /\ w.name = v.name /\ w.pass = v.pass
    /\ w.failed_attempts = v.failed_attempts
    /\ w.status \in {"LOCKED", "ALERT"}

(* A step of p that only replaces the record of one vault freezes every    *)
(* LOCKED vault if it does so for this one.                                *)
LEMMA FrozenBySet ==
    ASSUME IInv, NEW p \in Procs, NEW id \in Live(mem[p]), NEW w,
           mem' = [mem EXCEPT ![p] = SetVault(mem[p], id, w)],
           mem[p].vaults[id].status = "LOCKED" => Frozen(mem[p].vaults[id], w)
    PROVE  FrozenWhileLocked
<1>1. mem \in [Procs -> Catalog] /\ id \in Ids
  BY DEF IInv, TypeOK, Live
<1>2. \A q \in Procs : q # p => mem'[q] = mem[q]
  BY <1>1
<1>3. \A i \in Ids : mem'[p].vaults[i] = IF i = id THEN w ELSE mem[p].vaults[i]
  BY <1>1 DEF SetVault, Catalog
<1>4. SUFFICES ASSUME NEW q \in Procs, NEW i \in Live(mem[q]),
                      mem[q].vaults[i].status = "LOCKED"
               PROVE  Frozen(mem[q].vaults[i], mem'[q].vaults[i])
  BY DEF FrozenWhileLocked, Frozen
<1>5. i \in Ids /\ mem[q].vaults[i] # NoVault
  BY DEF Live
<1>6. mem'[q].vaults[i] = mem[q].vaults[i] \/ (q = p /\ i = id /\ mem'[q].vaults[i] = w)
  BY <1>2, <1>3, <1>5
<1> QED BY <1>4, <1>5, <1>6 DEF Frozen

(* A step of p that touches no vault p had, or after which p is down.      *)
LEMMA FrozenElsewhere ==
    ASSUME NEW p \in Procs,
           \A q \in Procs : q # p => mem'[q] = mem[q],
           \/ ~up[p] \/ ~up'[p]
           \/ \A i \in Live(mem[p]) : mem'[p].vaults[i] = mem[p].vaults[i]
    PROVE  FrozenWhileLocked
BY DEF FrozenWhileLocked, Live

(* A refused authentication changes nothing of a LOCKED vault.             *)
LEMMA FrozenWhenRefused ==
    ASSUME IInv, NEW p \in Procs, NEW id, Has(p, id), NEW pw \in Passwords,
           NEW err, AuthRefused(p, id, pw, err)
    PROVE  FrozenWhileLocked
<1> DEFINE v == mem[p].vaults[id]
<1>1. id \in Live(mem[p]) /\ v \in Vault /\ v # NoVault
  BY FoundGood DEF Live
<1>2. mem' = [mem EXCEPT ![p] = SetVault(mem[p], id, Refused(v, pw))]
  BY RefusedStep
<1>3. v.status = "LOCKED" => Frozen(v, Refused(v, pw))
  BY <1>1 DEF Refused, Verdict, Frozen
<1> QED BY <1>1, <1>2, <1>3, FrozenBySet

(* No step changes a LOCKED vault other than by an alert.                  *)
LEMMA NextFrozen == IInv /\ Next => FrozenWhileLocked
<1> SUFFICES ASSUME IInv, Next PROVE FrozenWhileLocked
  OBVIOUS
<1>0. mem \in [Procs -> Catalog] /\ up \in [Procs -> BOOLEAN]
  BY DEF IInv, TypeOK
<1>1. PICK p \in Procs :
          LifeCycle(p) \/ \E err \in {"OK", "IO"} : Manage(p, err) \/ Guard(p, err)
  BY DEF Next
<1>2. CASE LifeCycle(p)
  BY <1>0, <1>2, FrozenElsewhere
  DEF LifeCycle, vault_ffi_init, vault_ffi_init_failed, vault_ffi_shutdown, Crash
<1>3. ASSUME NEW id, Has(p, id), NEW pw, MayEnter(mem[p].vaults[id], pw)
      PROVE  mem[p].vaults[id].status # "LOCKED" /\ id \in Live(mem[p])
  BY <1>3, FoundGood, OpenNotLocked
<1>4. ASSUME NEW n \in Names, NEW t \in {"NORMAL", "PROTECTED"}, NEW pw \in Passwords,
             NEW err, vault_create(p, n, t, pw, err)
      PROVE  FrozenWhileLocked
  <2>1. GoodCatalog(mem[p]) /\ mem[p].next_id <= MaxId /\ ~vault_find_by_name(mem[p], n)
    BY <1>4 DEF IInv, vault_create, CanCreate
  <2>2. mem' = [mem EXCEPT ![p] = Added(mem[p], NewVault(n, t, pw))]
    BY <1>4 DEF vault_create, Commit, Added
  <2>3. \A i \in Live(mem[p]) : mem'[p].vaults[i] = mem[p].vaults[i]
    BY <1>0, <2>1, <2>2, NewVaultGood, AddVaultGood
  <2> QED BY <1>0, <2>2, <2>3, FrozenElsewhere
<1>5. ASSUME NEW n, vault_create_abandoned(p, n)
      PROVE  FrozenWhileLocked
  <2>1. mem'[p].vaults = mem[p].vaults /\ \A q \in Procs : q # p => mem'[q] = mem[q]
    BY <1>0, <1>5 DEF vault_create_abandoned, Catalog
  <2> QED BY <2>1, FrozenElsewhere
<1>6. ASSUME NEW id, NEW pw \in Passwords, NEW err, vault_delete(p, id, pw, err)
      PROVE  FrozenWhileLocked
  <2>1. Has(p, id)
    BY <1>6 DEF vault_delete
  <2>2. CASE AuthRefused(p, id, pw, err)
    BY <2>1, <2>2, FrozenWhenRefused
  <2>3. CASE /\ MayEnter(mem[p].vaults[id], pw)
             /\ Commit(p, SetVault(mem[p], id, NoVault), err)
    BY <1>3, <2>1, <2>3, FrozenBySet DEF Commit
  <2> QED BY <1>6, <2>2, <2>3 DEF vault_delete
<1>7. ASSUME NEW id, NEW n, NEW pw \in Passwords, NEW err, vault_rename(p, id, n, pw, err)
      PROVE  FrozenWhileLocked
  <2> DEFINE w == [Entered(mem[p].vaults[id]) EXCEPT !.name = n]
  <2>1. Has(p, id)
    BY <1>7 DEF vault_rename
  <2>2. CASE AuthRefused(p, id, pw, err)
    BY <2>1, <2>2, FrozenWhenRefused
  <2>3. CASE /\ MayEnter(mem[p].vaults[id], pw)
             /\ Commit(p, SetVault(mem[p], id, w), err)
    <3> HIDE DEF w
    <3> QED BY <1>3, <2>1, <2>3, FrozenBySet DEF Commit
  <2> QED BY <1>7, <2>2, <2>3 DEF vault_rename
<1>8. ASSUME NEW id, NEW pw \in Passwords, NEW err, vault_unlock(p, id, pw, err)
      PROVE  FrozenWhileLocked
  BY <1>8, UnlockRefused, FrozenWhenRefused
<1>9. ASSUME NEW id, NEW old \in Passwords, NEW new, NEW err,
             vault_change_password(p, id, old, new, err)
      PROVE  FrozenWhileLocked
  <2> DEFINE v == mem[p].vaults[id]
             w(pass) == [Match(v) EXCEPT !.pass = pass]
  <2>1. Has(p, id) /\ id \in Live(mem[p])
    BY <1>9 DEF vault_change_password, Has
  <2>2. CASE AuthRefused(p, id, old, err)
    BY <2>1, <2>2, FrozenWhenRefused
  <2>3. ASSUME Verdict(v, old) = "OK", NEW pass,
               mem' = [mem EXCEPT ![p] = SetVault(mem[p], id, w(pass))]
        PROVE  FrozenWhileLocked
    <3>1. v.status # "LOCKED"
      BY <2>3 DEF Verdict
    <3> HIDE DEF w
    <3> QED BY <2>1, <2>3, <3>1, FrozenBySet
  <2> QED BY <1>9, <2>2, <2>3 DEF vault_change_password, Commit
<1>10. ASSUME NEW id, NEW pw \in Passwords, NEW err, authenticate(p, id, pw, err)
       PROVE  FrozenWhileLocked
  <2> DEFINE v == mem[p].vaults[id]
  <2>1. Has(p, id) /\ id \in Live(mem[p])
    BY <1>10 DEF authenticate, Has
  <2>2. CASE AuthRefused(p, id, pw, err)
    BY <2>1, <2>2, FrozenWhenRefused
  <2>3. CASE /\ Verdict(v, pw) = "OK"
             /\ mem' = [mem EXCEPT ![p] = SetVault(mem[p], id, Match(v))]
    <3>1. v.status # "LOCKED"
      BY <2>3 DEF Verdict
    <3> QED BY <2>1, <2>3, <3>1, FrozenBySet
  <2> QED BY <1>10, <2>2, <2>3 DEF authenticate
<1>11. ASSUME NEW id, NEW changed \in BOOLEAN, NEW err, vault_scan(p, id, changed, err)
       PROVE  FrozenWhileLocked
  <2> DEFINE v == mem[p].vaults[id]
             w == IF changed THEN alert_trigger(v) ELSE v
  <2>1. id \in Live(mem[p]) /\ v \in Vault
    BY <1>11, FoundGood DEF vault_scan
  <2>2. v.status = "LOCKED" => Frozen(v, w)
    BY <2>1, NullsAssumption DEF Frozen, alert_trigger, Vault
  <2>3. mem' = [mem EXCEPT ![p] = SetVault(mem[p], id, w)]
    BY <1>11 DEF vault_scan
  <2> HIDE DEF w
  <2> QED BY <2>1, <2>2, <2>3, FrozenBySet
<1>12. ASSUME NEW id, NEW pw \in Passwords, NEW err, alert_resolve(p, id, pw, err)
       PROVE  FrozenWhileLocked
  <2> DEFINE w == [Entered(mem[p].vaults[id]) EXCEPT !.status = "OK"]
  <2>1. Has(p, id)
    BY <1>12 DEF alert_resolve
  <2>2. CASE AuthRefused(p, id, pw, err)
    BY <2>1, <2>2, FrozenWhenRefused
  <2>3. CASE /\ MayEnter(mem[p].vaults[id], pw)
             /\ Commit(p, SetVault(mem[p], id, w), err)
    <3> HIDE DEF w
    <3> QED BY <1>3, <2>1, <2>3, FrozenBySet DEF Commit
  <2> QED BY <1>12, <2>2, <2>3 DEF alert_resolve
<1>13. ASSUME NEW id, NEW flags \in SUBSET WormFlags, NEW err,
              \/ vault_worm_set_flags(p, id, flags, err)
              \/ vault_worm_clear_flags(p, id, flags, err)
              \/ vault_worm_set_scan(p, id, err)
       PROVE  FrozenWhileLocked
  <2> DEFINE v == mem[p].vaults[id]
             w(worm) == [v EXCEPT !.worm = worm]
  <2>1. id \in Live(mem[p]) /\ v \in Vault
    BY <1>13, FoundGood DEF vault_worm_set_flags, vault_worm_clear_flags, vault_worm_set_scan
  <2>2. PICK worm \in SUBSET WormFlags :
            mem' = [mem EXCEPT ![p] = SetVault(mem[p], id, w(worm))]
    <3>1. v.worm \in SUBSET WormFlags /\ flags \in SUBSET WormFlags
      BY <1>13, <2>1 DEF Vault
    <3> QED BY <1>13, <3>1
            DEF vault_worm_set_flags, vault_worm_clear_flags, vault_worm_set_scan, Commit
  <2>3. w(worm) \in Vault
    BY <2>1 DEF Vault
  <2>4. v.status = "LOCKED" => Frozen(v, w(worm))
    BY <2>1, <2>3, NullsAssumption DEF Frozen, Vault
  <2> HIDE DEF w
  <2> QED BY <2>1, <2>2, <2>4, FrozenBySet
<1> QED
  <2>1. ASSUME NEW err, Manage(p, err) PROVE FrozenWhileLocked
    BY <2>1, <1>4, <1>5, <1>6, <1>7, <1>8, <1>9, <1>10 DEF Manage
  <2>2. ASSUME NEW err, Guard(p, err) PROVE FrozenWhileLocked
    <3>1. {} \in SUBSET WormFlags
      OBVIOUS
    <3> QED BY <2>2, <3>1, <1>11, <1>12, <1>13 DEF Guard
  <2> QED BY <1>1, <1>2, <2>1, <2>2

(* No call deletes, renames or re-keys a LOCKED vault or clears its count  *)
(* of failed attempts without opening it, whatever was called before and   *)
(* whichever processes share the file.                                     *)
THEOREM LockedStaysFrozen == Spec => LockedIsFrozen
BY InvariantHolds, NextFrozen, PTL DEF Spec, LockedIsFrozen
-----------------------------------------------------------------------------
(* One process at a time, on a readable file.                              *)

(* Catalog c knows of every acknowledged call in the histories iss, rem    *)
(* and sea: it would not hand out their ids again, holds every vault that  *)
(* was not removed, and carries every SCAN seal.                           *)
Honours(c, iss, rem, sea) ==
    /\ \A id \in iss \cup sea : id < c.next_id
    /\ iss \ rem \subseteq Live(c)
    /\ \A id \in sea \cap Live(c) : c.vaults[id].worm = WormFlags

(* What the file and the catalog in memory know.  The file may lag behind  *)
(* the memory (a save failed), never the other way round.                  *)
SInv ==
    /\ disk = NoCatalog => issued = {} /\ sealed = {}
    /\ disk # NoCatalog => Honours(disk, issued, removed, sealed)
    /\ \A p \in Procs : up[p] => Honours(mem[p], issued, removed, sealed)
    /\ \A p \in Procs : ~up[p] => mem[p] = ZeroCatalog

(* A call that leaves p a catalog that knows of every acknowledged call,   *)
(* this one included, and acknowledges only what it has saved.             *)
LEMMA HonourStep ==
    ASSUME IInv, SInv, NEW p, Procs = {p}, up[p], NEW c,
           mem' = [mem EXCEPT ![p] = c], up' = up,
           disk' = disk \/ disk' = c,
           disk' = c \/ (issued' = issued /\ sealed' = sealed),
           removed \subseteq removed', c # NoCatalog,
           Honours(c, issued', removed', sealed')
    PROVE  SInv'
<1>1. mem'[p] = c /\ up'[p]
  BY DEF IInv, TypeOK
<1>2. CASE disk' = c
  BY <1>1, <1>2 DEF SInv
<1>3. CASE disk' = disk /\ issued' = issued /\ sealed' = sealed
  BY <1>1, <1>3 DEF SInv, Honours
<1> QED BY <1>2, <1>3

(* The same for a call that replaces one record and keeps a sealed vault   *)
(* sealed.                                                                 *)
LEMMA HonourSet ==
    ASSUME IInv, SInv, NEW p, Procs = {p}, NEW id, Has(p, id),
           NEW w \in Vault, id \in sealed => w.worm = WormFlags,
           mem' = [mem EXCEPT ![p] = SetVault(mem[p], id, w)],
           disk' = disk \/ disk' = SetVault(mem[p], id, w),
           UNCHANGED <<up, issued, removed, sealed>>
    PROVE  SInv'
<1> DEFINE c == SetVault(mem[p], id, w)
<1>1. /\ id \in Ids /\ mem[p] \in Catalog /\ up[p]
      /\ Honours(mem[p], issued, removed, sealed)
  BY FoundGood DEF Has, GoodCatalog, SInv
<1>2. /\ c \in Catalog /\ c.next_id = mem[p].next_id
      /\ \A i \in Ids : c.vaults[i] = IF i = id THEN w ELSE mem[p].vaults[i]
  BY <1>1 DEF SetVault, Catalog
<1>3. Live(c) = Live(mem[p])
  BY <1>2, NullsAssumption, FoundGood DEF Live
<1>4. Honours(c, issued, removed, sealed)
  BY <1>1, <1>2, <1>3 DEF Honours, Live
<1>5. c # NoCatalog
  BY <1>2, NullsAssumption
<1> HIDE DEF c
<1> QED BY <1>1, <1>4, <1>5, HonourStep DEF c

(* A refused authentication keeps the acknowledged history.                *)
LEMMA HonourRefused ==
    ASSUME IInv, SInv, NEW p, Procs = {p}, NEW id, Has(p, id), NEW pw \in Passwords,
           NEW err, AuthRefused(p, id, pw, err)
    PROVE  SInv'
<1> DEFINE v == mem[p].vaults[id]
<1>1. v \in Vault /\ LockAgrees(v) /\ id \in Live(mem[p])
  BY FoundGood
<1>2. Refused(v, pw) \in Vault /\ Refused(v, pw).worm = v.worm
  BY <1>1, RefusedGood
<1>3. id \in sealed => v.worm = WormFlags
  BY <1>1 DEF SInv, Honours, Has
<1> QED BY <1>2, <1>3, RefusedStep, HonourSet

(* The same for a call that replaces one record, leaves its WORM flags     *)
(* alone and saves.                                                        *)
LEMMA HonourCommit ==
    ASSUME IInv, SInv, NEW p, Procs = {p}, NEW id, Has(p, id),
           NEW w \in Vault, w.worm = mem[p].vaults[id].worm,
           NEW err, Commit(p, SetVault(mem[p], id, w), err),
           UNCHANGED <<up, issued, removed, sealed>>
    PROVE  SInv'
<1>1. id \in sealed => w.worm = WormFlags
  BY FoundGood DEF SInv, Honours, Has
<1>2. /\ mem' = [mem EXCEPT ![p] = SetVault(mem[p], id, w)]
      /\ disk' = disk \/ disk' = SetVault(mem[p], id, w)
  BY FoundGood, SaveEffect DEF Commit
<1> QED BY <1>1, <1>2, HonourSet

(* Every step of a lone process on a readable file keeps the acknowledged  *)
(* history: what was acknowledged is in the file and in memory.            *)
LEMMA NextHonours ==
    ASSUME NEW p, Procs = {p}, ~LoadMayFail
    PROVE  IInv /\ SInv /\ [Next]_vars => SInv'
<1> SUFFICES ASSUME IInv, SInv, [Next]_vars PROVE SInv'
  OBVIOUS
<1>0. /\ mem \in [Procs -> Catalog] /\ up \in [Procs -> BOOLEAN] /\ GoodCatalog(mem[p])
      /\ mem[p] # NoCatalog /\ ZeroCatalog # NoCatalog /\ FreshCatalog # NoCatalog
  BY EmptyGood, NullsAssumption DEF IInv, TypeOK, GoodCatalog
<1>1. CASE UNCHANGED vars
  BY <1>1 DEF vars, SInv, Honours, Live
<1>2. CASE vault_ffi_init(p)
  <2>1. up' = [up EXCEPT ![p] = TRUE] /\ mem'[p] = catalog_load
        /\ UNCHANGED <<disk, issued, removed, sealed>>
    BY <1>0, <1>2 DEF vault_ffi_init, history
  <2>2. Honours(catalog_load, issued, removed, sealed)
    BY DEF catalog_load, SInv, Honours
  <2> QED BY <1>0, <2>1, <2>2 DEF SInv
<1>3. CASE vault_ffi_shutdown(p) \/ Crash(p)
  <2>1. up'[p] = FALSE /\ mem'[p] = ZeroCatalog /\ UNCHANGED <<issued, removed, sealed>>
    BY <1>0, <1>3 DEF vault_ffi_shutdown, Crash, history
  <2>2. up[p] /\ (disk' = disk \/ disk' = mem[p])
    BY <1>3 DEF vault_ffi_shutdown, Crash
  <2> QED BY <1>0, <2>1, <2>2 DEF SInv
<1>4. ASSUME NEW n \in Names, NEW t \in {"NORMAL", "PROTECTED"}, NEW pw \in Passwords,
             NEW err, vault_create(p, n, t, pw, err)
      PROVE  SInv'
  <2> DEFINE id == mem[p].next_id
             c == Added(mem[p], NewVault(n, t, pw))
  <2>1. id <= MaxId /\ ~vault_find_by_name(mem[p], n) /\ up[p]
    BY <1>4 DEF vault_create, CanCreate
  <2>2. /\ c \in Catalog /\ Live(c) = Live(mem[p]) \cup {id} /\ id \in Ids
        /\ \A i \in Live(mem[p]) : c.vaults[i] = mem[p].vaults[i]
    BY <1>0, <2>1, NewVaultGood, AddVaultGood DEF GoodCatalog
  <2>3. c.next_id = id + 1 /\ id \in Nat /\ c # NoCatalog
    BY <1>0, <2>2, NullsAssumption DEF Added, Catalog
  <2>4. mem' = [mem EXCEPT ![p] = c] /\ catalog_save(p, err)
    BY <1>4 DEF vault_create, Commit, Added
  <2>5. (err = "OK" /\ disk' = c) \/ (err = "IO" /\ disk' = disk)
    BY <1>0, <2>4, SaveEffect
  <2>6. /\ up' = up /\ removed' = removed /\ sealed' = sealed
        /\ issued' = IF err = "OK" THEN issued \cup {id} ELSE issued
    BY <1>4 DEF vault_create
  <2>7. Honours(mem[p], issued, removed, sealed) /\ issued \subseteq Nat /\ sealed \subseteq Nat
    BY <2>1, BoundsAssumption DEF SInv, IInv, TypeOK, Ids
  <2>8. id \notin sealed
    BY <2>3, <2>7 DEF Honours
  <2>9. Honours(c, issued', removed', sealed')
    BY <2>2, <2>3, <2>6, <2>7, <2>8 DEF Honours
  <2> HIDE DEF c
  <2> QED BY <2>1, <2>3, <2>4, <2>5, <2>6, <2>9, HonourStep
<1>5. ASSUME NEW n, vault_create_abandoned(p, n)
      PROVE  SInv'
  <2> DEFINE c == [mem[p] EXCEPT !.next_id = @ + 1]
  <2>1. /\ mem' = [mem EXCEPT ![p] = c] /\ up[p]
        /\ UNCHANGED <<disk, up, issued, removed, sealed>>
    BY <1>5 DEF vault_create_abandoned, CanCreate, history
  <2>2. c \in Catalog /\ Live(c) = Live(mem[p])
    BY <1>0, SkipIdGood DEF GoodCatalog
  <2>3. c.next_id = mem[p].next_id + 1 /\ mem[p].next_id \in Nat /\ c.vaults = mem[p].vaults
        /\ c # NoCatalog
    BY <1>0, <2>2, NullsAssumption DEF Catalog
  <2>4. Honours(mem[p], issued, removed, sealed) /\ issued \subseteq Nat /\ sealed \subseteq Nat
    BY <2>1, BoundsAssumption DEF SInv, IInv, TypeOK, Ids
  <2>5. Honours(c, issued, removed, sealed)
    BY <2>2, <2>3, <2>4 DEF Honours
  <2> HIDE DEF c
  <2> QED BY <2>1, <2>3, <2>5, HonourStep
<1>6. ASSUME NEW id, NEW pw \in Passwords, NEW err, vault_delete(p, id, pw, err)
      PROVE  SInv'
  <2> DEFINE c == SetVault(mem[p], id, NoVault)
  <2>1. Has(p, id) /\ up[p]
    BY <1>6 DEF vault_delete, Has
  <2>2. CASE AuthRefused(p, id, pw, err)
    BY <2>1, <2>2, HonourRefused
  <2>3. CASE /\ Commit(p, c, err)
             /\ removed' = removed \cup {id}
             /\ UNCHANGED <<up, issued, sealed>>
    <3>1. /\ c \in Catalog /\ Live(c) = Live(mem[p]) \ {id}
          /\ c.next_id = mem[p].next_id
          /\ \A i \in Live(mem[p]) \ {id} : c.vaults[i] = mem[p].vaults[i]
      BY <2>1, FoundGood, DropVaultGood DEF GoodCatalog
    <3>2. Honours(c, issued, removed', sealed)
      BY <2>1, <2>3, <3>1 DEF SInv, Honours
    <3>3. mem' = [mem EXCEPT ![p] = c] /\ (disk' = disk \/ disk' = c) /\ c # NoCatalog
      BY <1>0, <2>3, <3>1, SaveEffect, NullsAssumption DEF Commit
    <3> HIDE DEF c
    <3> QED BY <2>1, <2>3, <3>2, <3>3, HonourStep
  <2> QED BY <1>6, <2>2, <2>3 DEF vault_delete
<1>7. ASSUME NEW id, NEW n \in Names, NEW pw \in Passwords, NEW err,
             vault_rename(p, id, n, pw, err)
      PROVE  SInv'
  <2> DEFINE v == mem[p].vaults[id]
             w == [Entered(v) EXCEPT !.name = n]
  <2>1. Has(p, id)
    BY <1>7 DEF vault_rename
  <2>2. CASE AuthRefused(p, id, pw, err)
    BY <2>1, <2>2, HonourRefused
  <2>3. CASE /\ MayEnter(v, pw)
             /\ Commit(p, SetVault(mem[p], id, w), err)
             /\ UNCHANGED <<up, history>>
    <3>1. w \in Vault /\ w.worm = v.worm
      BY <2>1, <2>3, FoundGood, EnteredGood DEF Vault
    <3> HIDE DEF w
    <3> QED BY <2>1, <2>3, <3>1, HonourCommit DEF history
  <2> QED BY <1>7, <2>2, <2>3 DEF vault_rename
<1>8. ASSUME NEW id, NEW pw \in Passwords, NEW err, vault_unlock(p, id, pw, err)
      PROVE  SInv'
  BY <1>8, UnlockRefused, HonourRefused
<1>9. ASSUME NEW id, NEW v, v = mem[p].vaults[id], Has(p, id), NEW pw, Verdict(v, pw) = "OK",
             NEW pass \in Passwords \cup {NoPass, Broken}
      PROVE  /\ [Match(v) EXCEPT !.pass = pass] \in Vault /\ Match(v) \in Vault
             /\ [Match(v) EXCEPT !.pass = pass].worm = v.worm /\ Match(v).worm = v.worm
  BY <1>9, FoundGood DEF Match, Vault
<1>10. ASSUME NEW id, NEW old \in Passwords, NEW new \in Passwords, NEW err,
              vault_change_password(p, id, old, new, err)
       PROVE  SInv'
  <2> DEFINE v == mem[p].vaults[id]
             w(pass) == [Match(v) EXCEPT !.pass = pass]
  <2>1. Has(p, id) /\ v.pass \in Passwords \cup {NoPass, Broken}
    BY <1>10, FoundGood DEF vault_change_password, Vault
  <2>2. CASE AuthRefused(p, id, old, err)
    BY <2>1, <2>2, HonourRefused
  <2>3. CASE /\ Verdict(v, old) = "OK"
             /\ Commit(p, SetVault(mem[p], id, w(new)), err)
             /\ UNCHANGED <<up, history>>
    <3>1. w(new) \in Vault /\ w(new).worm = v.worm
      BY <1>9, <2>1, <2>3
    <3> HIDE DEF w
    <3> QED BY <2>1, <2>3, <3>1, HonourCommit DEF history
  <2>4. ASSUME Verdict(v, old) = "OK", NEW pass \in {v.pass, Broken},
               mem' = [mem EXCEPT ![p] = SetVault(mem[p], id, w(pass))],
               UNCHANGED <<disk, up, history>>
        PROVE  SInv'
    <3>1. w(pass) \in Vault /\ w(pass).worm = v.worm
      BY <1>9, <2>1, <2>4
    <3>2. id \in sealed => w(pass).worm = WormFlags
      BY <2>1, <3>1 DEF SInv, Honours, Has
    <3> HIDE DEF w
    <3> QED BY <2>1, <2>4, <3>1, <3>2, HonourSet DEF history
  <2> QED BY <1>10, <2>2, <2>3, <2>4 DEF vault_change_password
<1>11. ASSUME NEW id, NEW pw \in Passwords, NEW err, authenticate(p, id, pw, err)
       PROVE  SInv'
  <2> DEFINE v == mem[p].vaults[id]
  <2>1. Has(p, id)
    BY <1>11 DEF authenticate
  <2>2. CASE AuthRefused(p, id, pw, err)
    BY <2>1, <2>2, HonourRefused
  <2>3. CASE /\ Verdict(v, pw) = "OK"
             /\ mem' = [mem EXCEPT ![p] = SetVault(mem[p], id, Match(v))]
             /\ UNCHANGED <<disk, up, history>>
    <3>1. Match(v) \in Vault /\ Match(v).worm = v.worm
      BY <1>9, <2>1, <2>3
    <3>2. id \in sealed => Match(v).worm = WormFlags
      BY <2>1, <3>1 DEF SInv, Honours, Has
    <3> QED BY <2>1, <2>3, <3>1, <3>2, HonourSet DEF history
  <2> QED BY <1>11, <2>2, <2>3 DEF authenticate
<1>12. ASSUME NEW id, NEW changed \in BOOLEAN, NEW err, vault_scan(p, id, changed, err)
       PROVE  SInv'
  <2> DEFINE v == mem[p].vaults[id]
             w == IF changed THEN alert_trigger(v) ELSE v
  <2>1. Has(p, id) /\ Commit(p, SetVault(mem[p], id, w), err)
        /\ UNCHANGED <<up, issued, removed, sealed>>
    BY <1>12 DEF vault_scan, Commit, history
  <2>2. w \in Vault /\ w.worm = v.worm
    BY <2>1, FoundGood DEF alert_trigger, Vault
  <2> HIDE DEF w
  <2> QED BY <2>1, <2>2, HonourCommit
<1>13. ASSUME NEW id, NEW pw \in Passwords, NEW err, alert_resolve(p, id, pw, err)
       PROVE  SInv'
  <2> DEFINE v == mem[p].vaults[id]
             w == [Entered(v) EXCEPT !.status = "OK"]
  <2>1. Has(p, id)
    BY <1>13 DEF alert_resolve
  <2>2. CASE AuthRefused(p, id, pw, err)
    BY <2>1, <2>2, HonourRefused
  <2>3. CASE /\ MayEnter(v, pw)
             /\ Commit(p, SetVault(mem[p], id, w), err)
             /\ UNCHANGED <<up, history>>
    <3>1. w \in Vault /\ w.worm = v.worm
      BY <2>1, <2>3, FoundGood, EnteredGood DEF Vault
    <3> HIDE DEF w
    <3> QED BY <2>1, <2>3, <3>1, HonourCommit DEF history
  <2> QED BY <1>13, <2>2, <2>3 DEF alert_resolve
<1>14. ASSUME NEW id, NEW flags \in SUBSET WormFlags, NEW err,
              \/ vault_worm_set_flags(p, id, flags, err)
              \/ vault_worm_clear_flags(p, id, flags, err)
       PROVE  SInv'
  <2> DEFINE v == mem[p].vaults[id]
  <2>1. Has(p, id) /\ UNCHANGED <<up, issued, removed, sealed>>
    BY <1>14 DEF vault_worm_set_flags, vault_worm_clear_flags, history
  <2>2. v \in Vault /\ v.worm \in SUBSET WormFlags /\ SCAN \in WormFlags
    BY <2>1, FoundGood DEF Vault, WormFlags
  <2>3. id \in sealed => v.worm = WormFlags
    BY <2>1, FoundGood DEF SInv, Honours, Has
  <2>4. PICK worm \in SUBSET WormFlags :
            /\ Commit(p, SetVault(mem[p], id, [v EXCEPT !.worm = worm]), err)
            /\ id \in sealed => worm = WormFlags
    <3>1. CASE vault_worm_set_flags(p, id, flags, err)
      BY <2>2, <2>3, <3>1 DEF vault_worm_set_flags
    <3>2. CASE vault_worm_clear_flags(p, id, flags, err)
      BY <2>2, <2>3, <3>2 DEF vault_worm_clear_flags
    <3> QED BY <1>14, <3>1, <3>2
  <2> DEFINE w == [v EXCEPT !.worm = worm]
  <2>5. w \in Vault /\ w.worm = worm
    BY <2>2 DEF Vault
  <2>6. Commit(p, SetVault(mem[p], id, w), err)
    BY <2>4
  <2> HIDE DEF w
  <2>7. /\ mem' = [mem EXCEPT ![p] = SetVault(mem[p], id, w)]
        /\ disk' = disk \/ disk' = SetVault(mem[p], id, w)
    BY <1>0, <2>6, SaveEffect DEF Commit
  <2>8. id \in sealed => w.worm = WormFlags
    BY <2>4, <2>5
  <2> QED BY <2>1, <2>5, <2>7, <2>8, HonourSet
<1>15. ASSUME NEW id, NEW err, vault_worm_set_scan(p, id, err)
       PROVE  SInv'
  <2> DEFINE w == [mem[p].vaults[id] EXCEPT !.worm = WormFlags]
             c == SetVault(mem[p], id, w)
  <2>1. Has(p, id) /\ up[p]
    BY <1>15 DEF vault_worm_set_scan, Has
  <2>2. w \in Vault /\ w.worm = WormFlags /\ id \in Ids /\ id \in Live(mem[p])
        /\ id < mem[p].next_id
    BY <2>1, FoundGood DEF Vault, GoodCatalog, Keyed
  <2>3. mem' = [mem EXCEPT ![p] = c] /\ ((err = "OK" /\ disk' = c) \/ (err = "IO" /\ disk' = disk))
    BY <1>0, <1>15, SaveEffect DEF vault_worm_set_scan, Commit
  <2>4. up' = up /\ issued' = issued /\ removed' = removed
        /\ sealed' = IF err = "OK" THEN sealed \cup {id} ELSE sealed
    BY <1>15 DEF vault_worm_set_scan
  <2> HIDE DEF w
  <2>5. /\ c \in Catalog /\ c.next_id = mem[p].next_id
        /\ \A i \in Ids : c.vaults[i] = IF i = id THEN w ELSE mem[p].vaults[i]
    BY <1>0, <2>2 DEF SetVault, Catalog, GoodCatalog
  <2>6. Live(c) = Live(mem[p]) /\ c # NoCatalog
    BY <2>2, <2>5, NullsAssumption DEF Live
  <2>7. Honours(mem[p], issued, removed, sealed)
    BY <2>1 DEF SInv
  <2>8. Honours(c, issued', removed', sealed')
    BY <2>2, <2>4, <2>5, <2>6, <2>7 DEF Honours, Live
  <2> HIDE DEF c
  <2> QED BY <2>1, <2>3, <2>4, <2>6, <2>8, HonourStep
<1>16. CASE Next
  <2>1. CASE LifeCycle(p)
    BY <1>2, <1>3, <2>1 DEF LifeCycle, vault_ffi_init_failed
  <2>2. ASSUME NEW err, Manage(p, err) PROVE SInv'
    BY <2>2, <1>4, <1>5, <1>6, <1>7, <1>8, <1>10, <1>11 DEF Manage
  <2>3. ASSUME NEW err, Guard(p, err) PROVE SInv'
    BY <2>3, <1>12, <1>13, <1>14, <1>15 DEF Guard
  <2> QED BY <1>16, <2>1, <2>2, <2>3 DEF Next
<1> QED BY <1>1, <1>16

(* Nothing is acknowledged initially.                                      *)
LEMMA InitHonours == Init => SInv
BY DEF Init, SInv

(* With one process at a time on a readable file, catalog.dat and the      *)
(* running process always know of every acknowledged call.                 *)
THEOREM HistoryHonoured ==
    ASSUME NEW p, Procs = {p}, ~LoadMayFail
    PROVE  Spec => [](IInv /\ SInv)
<1>1. IInv /\ SInv /\ [Next]_vars => SInv'
  BY NextHonours
<1> QED BY <1>1, InitHonours, InvariantHolds, PTL DEF Spec

(* With one process at a time on a readable file, a vault whose creation   *)
(* was acknowledged is in catalog.dat until it is deleted, across crashes, *)
(* restarts and failed saves.                                              *)
THEOREM AcknowledgedVaultsSurvive ==
    ASSUME NEW p, Procs = {p}, ~LoadMayFail
    PROVE  Spec => []AckedVaultSurvives
<1>1. SInv => AckedVaultSurvives
  BY DEF SInv, AckedVaultSurvives, Honours
<1> QED BY <1>1, HistoryHonoured, PTL

(* Under the same conditions an acknowledged PROTECTED-SCAN is never lost. *)
THEOREM ScanStaysSet ==
    ASSUME NEW p, Procs = {p}, ~LoadMayFail
    PROVE  Spec => []ScanIrrevocable
<1>1. SInv => ScanIrrevocable
  BY DEF SInv, ScanIrrevocable, Honours, Catalogs, ZeroCatalog, Live
<1> QED BY <1>1, HistoryHonoured, PTL

(* Under the same conditions no id of an acknowledged vault is reused.     *)
THEOREM IdsStayFresh ==
    ASSUME NEW p, Procs = {p}, ~LoadMayFail
    PROVE  Spec => IdsAreFresh
<1>1. IInv /\ SInv => (up[p] => mem[p].next_id \notin issued)
  BY BoundsAssumption DEF IInv, TypeOK, SInv, Honours, Ids, Catalog
<1>2. IInv /\ SInv /\ Next => FreshId
  BY <1>1 DEF FreshId
<1> QED BY <1>2, HistoryHonoured, PTL DEF Spec, IdsAreFresh
=============================================================================
