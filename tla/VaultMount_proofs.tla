-------------------------- MODULE VaultMount_proofs --------------------------
(***************************************************************************)
(* Proofs about VaultMount, for any vaults, catalog size and number of     *)
(* sessions: a session serves its own vault, the physical lock is as       *)
(* strong as the sessions, and catalog.dat keeps the vaults.               *)
(***************************************************************************)
EXTENDS VaultMount, TLAPS, FiniteSetTheorems, SequenceTheorems

(* The call the main thread is in has a record, and a session if it mounts *)
(* one; nothing is under way in a process that is not there.               *)
MainInv ==
    /\ main.at # "idle" => main.slot \in Slots
    /\ main.at = "idle" => main = Idle
    /\ main.at \in {"confirm", "join"} => main.session \in Sessions
    /\ process = "on" => /\ main.at = "recorded" => main.slot = count + 1
                         /\ main.at = "enrolled" => main.slot = count
                         /\ main.at \in {"moved", "confirm", "join"} => main.slot <= count
    /\ process = "exiting" => count <= 1 /\ (main.at = "recorded" => count = 0)
    /\ process = "off" => main = Idle /\ count = 0

(* A FUSE thread has a vault and points at a record; a session in the      *)
(* kernel has its thread before the seal.                                  *)
ThreadInv ==
    /\ \A s \in Sessions : Live(s) => thread[s].slot \in Slots /\ thread[s].of \in Vaults
    /\ \A s \in bound : thread[s].at \in {"born", "serving"}
    /\ process = "off" => \A s \in Sessions : ~Live(s)

(* The records that are in use: those that count, but for the last one     *)
(* while a delete has moved the others down and not counted yet.           *)
Extent == IF main.at = "moved" THEN count - 1 ELSE count
Ids(n) == {vaults[i].id : i \in 1 .. n}

(* What catalog.dat lists and g_catalog does not was deleted; no vault is  *)
(* listed twice, and none has an id that is still to be given out.         *)
CatalogInv ==
    /\ ~torn => IsInjective(dat)
    /\ dat_fresh \cap In(dat) = {}
    /\ process = "exiting" => \A i \in Slots : vaults[i].id = None
    /\ process = "on" =>
          /\ \A i \in 1 .. count : vaults[i].id \notin fresh
          /\ main.at = "recorded" => vaults[main.slot].id \in Vaults \ fresh
          /\ In(dat) \ Ids(Extent) \subseteq deleted
    /\ Sound =>
          /\ \A i, j \in 1 .. Extent : vaults[i].id = vaults[j].id => i = j
          /\ main.at = "recorded" => vaults[main.slot].id \notin Ids(count)

(* What a process that ended left open is known.                           *)
OffInv ==
    process = "off" => {d \in Vaults : mode[d] = "open"} \subseteq loose

(* The records that flags are up in have a vault.                          *)
FlagInv ==
    /\ \A i \in Slots : vaults[i].mounted => vaults[i].id # None
    /\ process = "on" /\ main.at = "recorded" => ~vaults[main.slot].mounted

(* A thread whose record was replaced, and the vault it got mixed up with, *)
(* are both known as loose ...                                             *)
Tight(s) == Live(s) /\ thread[s].of \notin loose

PointerInv ==
    Sound => \A s \in Sessions : Live(s) =>
        \/ Target(s) = thread[s].of
        \/ thread[s].of \in loose /\ Target(s) \in loose \cup {None}

(* ... and every other thread has a record in use to itself.               *)
OwnRecord(s) ==
    /\ thread[s].slot <= Extent
    /\ vaults[thread[s].slot].mounted
    /\ main.at = "enrolled" => thread[s].slot # main.slot
    /\ main.at \in {"confirm", "join"} /\ thread[s].slot = main.slot => s = main.session

TightInv ==
    Sound => /\ \A s \in Sessions : Tight(s) => OwnRecord(s)
             /\ \A s, t \in Sessions : Tight(s) /\ Tight(t) /\ thread[s].slot = thread[t].slot => s = t

(* The inductive invariant.                                                *)
BaseInv == TypeOK /\ MainInv /\ ThreadInv
LockInv == FlagInv /\ PointerInv /\ TightInv /\ OffInv
IInv == BaseInv /\ CatalogInv /\ LockInv /\ PhysicalLock
-----------------------------------------------------------------------------
RecordType == [id : Vaults \cup {None}, mounted : BOOLEAN]
ThreadType ==
    [at : {"none", "born", "serving", "sealed", "done"}, slot : 0 .. MaxSlots, of : Vaults \cup {None}]
MainType ==
    [at : {"idle", "recorded", "enrolled", "moved", "counted", "confirm", "join"},
     slot : 0 .. MaxSlots, session : Sessions \cup {None}]

LEMMA TypeFacts ==
    TypeOK <=> /\ vaults \in [Slots -> RecordType] /\ count \in 0 .. MaxSlots
               /\ dat \in Seq(Vaults \cup {None}) /\ Len(dat) <= MaxSlots
               /\ mode \in [Vaults -> {"none", "sealed", "open"}]
               /\ fresh \subseteq Vaults /\ dat_fresh \subseteq Vaults /\ deleted \subseteq Vaults
               /\ bound \subseteq {s \in Sessions : Live(s)}
               /\ thread \in [Sessions -> ThreadType] /\ main \in MainType
               /\ process \in {"off", "on", "exiting"} /\ loose \subseteq Vaults /\ torn \in BOOLEAN
BY DEF TypeOK, RecordType, ThreadType, MainType

(* What is saved.                                                          *)

LEMMA SegmentFacts ==
    ASSUME NEW n \in Nat, NEW S, NEW g \in [1 .. n -> S]
    PROVE  g \in Seq(S) /\ Len(g) = n /\ DOMAIN g = 1 .. n
<1>1. g \in Seq(S)
  BY SeqDef
<1> QED BY <1>1, LenProperties

LEMMA SavedFacts ==
    ASSUME TypeOK
    PROVE  /\ Saved \in Seq(Vaults \cup {None}) /\ Len(Saved) = count /\ Len(Saved) <= MaxSlots
           /\ In(Saved) = Ids(count) /\ DOMAIN Saved = 1 .. count
           /\ \A i \in 1 .. count : Saved[i] = vaults[i].id
<1>1. count \in Nat /\ count <= MaxSlots /\ MaxSlots \in Nat
  BY MountAssumption DEF TypeOK
<1>2. \A i \in 1 .. count : i \in Slots /\ vaults[i].id \in Vaults \cup {None}
  BY <1>1 DEF TypeOK, Slots
<1>3. Saved \in [1 .. count -> Vaults \cup {None}]
  BY <1>2 DEF Saved
<1>4. Saved \in Seq(Vaults \cup {None}) /\ Len(Saved) = count /\ DOMAIN Saved = 1 .. count
  BY <1>1, <1>3, SegmentFacts
<1>5. \A i \in 1 .. count : Saved[i] = vaults[i].id
  BY DEF Saved
<1>6. In(Saved) = Ids(count)
  BY <1>4, <1>5 DEF In, Ids
<1> QED BY <1>1, <1>4, <1>5, <1>6

(* catalog_load makes one record of each vault in the file.                *)
LEMMA DatFacts ==
    ASSUME TypeOK
    PROVE  /\ Len(dat) \in 0 .. MaxSlots /\ DOMAIN dat = 1 .. Len(dat)
           /\ \A i \in 1 .. Len(dat) : dat[i] \in Vaults \cup {None}
<1>1. dat \in Seq(Vaults \cup {None}) /\ Len(dat) <= MaxSlots
  BY DEF TypeOK
<1> QED BY <1>1, LenProperties, ElementOfSeq, MountAssumption

LEMMA BaseInit == Init => BaseInv
<1> SUFFICES ASSUME Init PROVE BaseInv
  OBVIOUS
<1>1. 0 \in 0 .. MaxSlots
  BY MountAssumption
<1>2. First \in Seq(Vaults \cup {None}) /\ Len(First) <= MaxSlots
  BY MountAssumption
<1>3. /\ vaults \in [Slots -> [id : Vaults \cup {None}, mounted : BOOLEAN]]
      /\ mode \in [Vaults -> {"none", "sealed", "open"}]
  BY DEF Init, Zeroed
<1>4. /\ thread \in [Sessions -> [at : {"none", "born", "serving", "sealed", "done"},
                                slot : 0 .. MaxSlots, of : Vaults \cup {None}]]
      /\ \A s \in Sessions : ~Live(s)
  BY <1>1 DEF Init, NoThread, Live
<1>5. /\ main \in [at : {"idle", "recorded", "enrolled", "moved", "counted", "confirm", "join"},
                 slot : 0 .. MaxSlots, session : Sessions \cup {None}]
      /\ main = Idle /\ main.at = "idle"
  BY <1>1 DEF Init, Idle
<1>6. TypeOK
  BY <1>1, <1>2, <1>3, <1>4, <1>5 DEF Init, TypeOK
<1>7. MainInv /\ ThreadInv
  BY <1>4, <1>5 DEF Init, MainInv, ThreadInv
<1> QED BY <1>6, <1>7 DEF BaseInv
-----------------------------------------------------------------------------
(* Types and control.                                                      *)

(* A step that leaves the threads and the kernel's mounts alone.           *)
LEMMA MainStep ==
    ASSUME BaseInv, vaults' \in [Slots -> RecordType], count' \in 0 .. MaxSlots,
           dat' \in Seq(Vaults \cup {None}), Len(dat') <= MaxSlots,
           mode' \in [Vaults -> {"none", "sealed", "open"}], main' \in MainType,
           process' \in {"off", "on", "exiting"}, loose' \subseteq Vaults, torn' \in BOOLEAN,
           fresh' \subseteq Vaults, dat_fresh' \subseteq Vaults, deleted' \subseteq Vaults,
           UNCHANGED <<thread, bound>>, process' = "off" => process = "off"
    PROVE  TypeOK' /\ ThreadInv'
<1>1. \A s \in Sessions : Live(s)' <=> Live(s)
  BY DEF Live
<1>2. ThreadInv'
  BY <1>1 DEF BaseInv, ThreadInv
<1>3. TypeOK'
  BY <1>1 DEF BaseInv, TypeOK, RecordType, MainType
<1> QED BY <1>2, <1>3

LEMMA GoneBase ==
    ASSUME BaseInv, Gone, dat' \in Seq(Vaults \cup {None}), Len(dat') <= MaxSlots, dat_fresh' \subseteq Vaults,
           mode' \in [Vaults -> {"none", "sealed", "open"}]
    PROVE  BaseInv'
<1>1. /\ process' = "off" /\ main' = Idle /\ vaults' = [i \in Slots |-> Zeroed] /\ count' = 0
      /\ thread' = [s \in Sessions |-> IF Live(s) THEN Done ELSE thread[s]]
      /\ loose' = {d \in Vaults : mode'[d] = "open"} /\ deleted' = {} /\ fresh' = {} /\ torn' = torn
      /\ bound' = {}
  BY DEF Gone, Ended
<1>2. 0 \in 0 .. MaxSlots
  BY MountAssumption
<1>3. Done \in ThreadType /\ Done.at = "done" /\ Zeroed \in RecordType /\ Idle \in MainType /\ Idle.at = "idle"
  BY <1>2 DEF Done, NoThread, ThreadType, Zeroed, RecordType, Idle, MainType
<1>4. thread \in [Sessions -> ThreadType] /\ torn \in BOOLEAN
  BY TypeFacts DEF BaseInv
<1>5. thread' \in [Sessions -> ThreadType] /\ \A s \in Sessions : ~Live(s)'
  BY <1>1, <1>3, <1>4 DEF Live
<1>6. vaults' \in [Slots -> RecordType] /\ loose' \subseteq Vaults
  BY <1>1, <1>3, <1>4
<1>7. TypeOK'
  BY <1>1, <1>2, <1>3, <1>4, <1>5, <1>6 DEF TypeOK, RecordType, ThreadType, MainType
<1>8. MainInv' /\ ThreadInv'
  BY <1>1, <1>3, <1>5 DEF MainInv, ThreadInv
<1> QED BY <1>7, <1>8 DEF BaseInv

LEMMA ChmodFacts ==
    ASSUME mode \in [Vaults -> {"none", "sealed", "open"}], NEW d, NEW m \in {"sealed", "open"}
    PROVE  /\ Chmod(d, m) \in [Vaults -> {"none", "sealed", "open"}]
           /\ \A x \in Vaults : Chmod(d, m)[x] = IF x = d THEN m ELSE mode[x]
BY DEF Chmod

(* A chmod that fails leaves the vault in loose.                           *)
LEMMA TryChmodFacts ==
    ASSUME BaseInv, NEW d, NEW m \in {"sealed", "open"}, TryChmod(d, m)
    PROVE  /\ mode' \in [Vaults -> {"none", "sealed", "open"}]
           /\ loose \subseteq loose' /\ loose' \subseteq Vaults
           /\ \A x \in Vaults : x \notin loose' => mode'[x] = IF x = d THEN m ELSE mode[x]
<1>1. mode \in [Vaults -> {"none", "sealed", "open"}] /\ loose \subseteq Vaults
  BY TypeFacts DEF BaseInv
<1> QED BY <1>1, ChmodFacts DEF TryChmod

(* A save writes the list it is given, or nothing.                         *)
LEMMA SaveFacts ==
    ASSUME BaseInv, NEW list, Save(list), list \in Seq(Vaults \cup {None}), Len(list) <= MaxSlots
    PROVE  dat' \in Seq(Vaults \cup {None}) /\ Len(dat') <= MaxSlots /\ dat_fresh' \subseteq Vaults
<1>1. /\ dat \in Seq(Vaults \cup {None}) /\ Len(dat) <= MaxSlots
      /\ fresh \subseteq Vaults /\ dat_fresh \subseteq Vaults
  BY TypeFacts DEF BaseInv
<1> QED BY <1>1 DEF Save, disk

LEMMA DisplacedFacts ==
    ASSUME BaseInv, NEW slots
    PROVE  /\ Displaced(slots) \subseteq Vaults
           /\ \A s \in Sessions : Live(s) /\ thread[s].slot \in slots =>
                 /\ thread[s].of \in Displaced(slots)
                 /\ \A i \in slots : vaults[i].id \in Vaults => vaults[i].id \in Displaced(slots)
BY DEF Displaced, BaseInv, ThreadInv

(* The steps of a call change main and one record at most.                 *)
LEMMA CallFacts ==
    ASSUME NEW at \in {"recorded", "enrolled", "moved", "counted", "confirm", "join"},
           NEW i \in Slots, NEW s \in Sessions \cup {None}
    PROVE  /\ Call(at, i, s) \in MainType
           /\ Call(at, i, s).at = at /\ Call(at, i, s).slot = i /\ Call(at, i, s).session = s
BY MountAssumption DEF Call, MainType, Slots

LEMMA IdleFacts == Idle \in MainType /\ Idle.at = "idle"
<1>1. 0 \in 0 .. MaxSlots
  BY MountAssumption
<1> QED BY <1>1 DEF Idle, MainType

LEMMA BaseLoad ==
    ASSUME BaseInv, catalog_load
    PROVE  BaseInv'
<1> DEFINE n == Len(dat)
<1>1. /\ process = "off" /\ process' = "on" /\ count' = n /\ main' = Idle /\ fresh' = dat_fresh
      /\ vaults' = [i \in Slots |-> IF i <= n THEN [id |-> dat[i], mounted |-> FALSE] ELSE Zeroed]
      /\ UNCHANGED <<dat, dat_fresh, mode, bound, thread, loose, torn, deleted>>
  BY DEF catalog_load, Read, disk, history
<1>2. n \in 0 .. MaxSlots /\ \A i \in 1 .. n : dat[i] \in Vaults \cup {None}
  BY DatFacts DEF BaseInv
<1>3. \A i \in Slots : i <= n => i \in 1 .. n
  BY <1>2, MountAssumption DEF Slots
<1>4. vaults' \in [Slots -> RecordType]
  BY <1>1, <1>2, <1>3 DEF RecordType, Zeroed
<1>5. TypeOK' /\ ThreadInv'
  BY <1>1, <1>2, <1>4, IdleFacts, TypeFacts, MainStep DEF BaseInv
<1>6. MainInv'
  BY <1>1, IdleFacts DEF MainInv
<1> QED BY <1>5, <1>6 DEF BaseInv

LEMMA BaseEnd ==
    ASSUME BaseInv, Crash \/ vault_ffi_shutdown \/ ctrlc_exit
    PROVE  BaseInv'
<1>1. Gone /\ (UNCHANGED <<dat, dat_fresh>> \/ Save(Saved))
  BY DEF Crash, vault_ffi_shutdown, ctrlc_exit, disk
<1>2. mode' \in [Vaults -> {"none", "sealed", "open"}]
  BY DEF Crash, vault_ffi_shutdown, ctrlc_exit, vault_fuse_seal_all_on_exit, BaseInv, TypeOK
<1>3. dat' \in Seq(Vaults \cup {None}) /\ Len(dat') <= MaxSlots /\ dat_fresh' \subseteq Vaults
  <2>1. CASE UNCHANGED <<dat, dat_fresh>>
    BY <2>1 DEF BaseInv, TypeOK
  <2>2. CASE Save(Saved)
    BY <2>2, SavedFacts, SaveFacts DEF BaseInv
  <2> QED BY <1>1, <2>1, <2>2
<1> QED BY <1>1, <1>2, <1>3, GoneBase

LEMMA BaseHandler ==
    ASSUME BaseInv, ctrlc_handler
    PROVE  BaseInv'
<1>1. /\ process = "on" /\ process' = "exiting" /\ Save(Saved) /\ fresh' = Vaults
      /\ vaults' = [i \in Slots |-> Zeroed] /\ count' = 0 /\ torn' = (torn \/ main.at = "moved")
      /\ UNCHANGED <<mode, bound, thread, main, loose, deleted>>
  BY DEF ctrlc_handler
<1>2. vaults' \in [Slots -> RecordType] /\ 0 \in 0 .. MaxSlots /\ torn' \in BOOLEAN
  BY <1>1, MountAssumption DEF RecordType, Zeroed
<1>3. TypeOK' /\ ThreadInv'
  <2>1. dat' \in Seq(Vaults \cup {None}) /\ Len(dat') <= MaxSlots /\ dat_fresh' \subseteq Vaults
    BY <1>1, SavedFacts, SaveFacts DEF BaseInv
  <2> QED BY <1>1, <1>2, <2>1, TypeFacts, MainStep DEF BaseInv
<1>4. MainInv'
  BY <1>1 DEF BaseInv, MainInv
<1> QED BY <1>3, <1>4 DEF BaseInv

(* vault_create, whether it goes on or mkdir fails.                        *)
LEMMA EnterFacts ==
    ASSUME BaseInv, NEW d \in Vaults, vault_create(d) \/ create_refused(d)
    PROVE  /\ process = "on" /\ main = Idle /\ count < MaxSlots /\ d \in fresh /\ fresh' = fresh \ {d}
           /\ vaults' = [vaults EXCEPT ![count + 1] = [id |-> d, mounted |-> FALSE]]
           /\ loose' = loose \cup (IF Displaced({count + 1}) = {} THEN {} ELSE Displaced({count + 1}) \cup {d})
           /\ UNCHANGED <<count, dat, dat_fresh, bound, thread, process, torn, deleted>>
           /\ mode' \in [Vaults -> {"none", "sealed", "open"}]
           /\ \A x \in Vaults : x # d => mode'[x] = mode[x]
           /\ main' = Call("recorded", count + 1, None) \/ (main' = Idle /\ mode' = mode)
           /\ mode'[d] \in {mode[d], "open"}
<1>1. mode \in [Vaults -> {"none", "sealed", "open"}]
  BY TypeFacts DEF BaseInv
<1>2. Enter(d) /\ (\/ mode' = (IF mode[d] = "none" THEN Chmod(d, "open") ELSE mode) /\ main' = Call("recorded", count + 1, None)
                   \/ UNCHANGED <<mode, main>>)
  BY DEF vault_create, create_refused
<1>3. /\ mode' \in [Vaults -> {"none", "sealed", "open"}]
      /\ \A x \in Vaults : x # d => mode'[x] = mode[x]
      /\ mode'[d] \in {mode[d], "open"}
  BY <1>1, <1>2, ChmodFacts
<1> QED BY <1>2, <1>3 DEF Enter, disk

LEMMA BaseCreate ==
    ASSUME BaseInv, NEW d \in Vaults, vault_create(d) \/ create_refused(d)
    PROVE  BaseInv'
<1>1. /\ process = "on" /\ main = Idle /\ count < MaxSlots /\ d \in fresh /\ fresh' = fresh \ {d}
      /\ vaults' = [vaults EXCEPT ![count + 1] = [id |-> d, mounted |-> FALSE]]
      /\ main' = Call("recorded", count + 1, None) \/ main' = Idle
      /\ loose' = loose \cup (IF Displaced({count + 1}) = {} THEN {} ELSE Displaced({count + 1}) \cup {d})
      /\ mode' \in [Vaults -> {"none", "sealed", "open"}]
      /\ UNCHANGED <<count, dat, dat_fresh, bound, thread, process, torn, deleted>>
  BY EnterFacts
<1>2. /\ vaults \in [Slots -> RecordType] /\ count \in 0 .. MaxSlots /\ loose \subseteq Vaults /\ fresh \subseteq Vaults
  BY TypeFacts DEF BaseInv
<1>3. count + 1 \in Slots
  BY <1>1, <1>2, MountAssumption DEF Slots
<1>4. vaults' \in [Slots -> RecordType]
  BY <1>1, <1>2, <1>3 DEF RecordType
<1>5. main' \in MainType /\ ((main'.at = "recorded" /\ main'.slot = count + 1) \/ main' = Idle)
  BY <1>1, <1>3, CallFacts, IdleFacts
<1>6. loose' \subseteq Vaults /\ fresh' \subseteq Vaults
  BY <1>1, <1>2, DisplacedFacts
<1>7. TypeOK' /\ ThreadInv'
  BY <1>1, <1>4, <1>5, <1>6, TypeFacts, MainStep DEF BaseInv
<1>8. MainInv'
  BY <1>1, <1>3, <1>5, IdleFacts DEF MainInv
<1> QED BY <1>7, <1>8 DEF BaseInv

LEMMA BaseCreateStep ==
    ASSUME BaseInv, create_step
    PROVE  BaseInv'
<1>1. /\ vaults \in [Slots -> RecordType] /\ count \in 0 .. MaxSlots /\ main \in MainType
      /\ mode \in [Vaults -> {"none", "sealed", "open"}] /\ process \in {"off", "on", "exiting"}
      /\ loose \subseteq Vaults /\ MaxSlots \in Nat
  BY TypeFacts, MountAssumption DEF BaseInv
<1>2. CASE create_abandoned
  <2>1. /\ main' = Idle /\ main.at = "recorded" /\ loose' = loose \cup ({vaults[main.slot].id} \cap Vaults)
        /\ UNCHANGED <<vaults, count, fresh, dat, dat_fresh, mode, bound, thread, process, torn, deleted>>
    BY <1>2 DEF create_abandoned, catalog, disk
  <2>2. TypeOK' /\ ThreadInv'
    BY <1>1, <2>1, IdleFacts, TypeFacts, MainStep DEF BaseInv
  <2>3. MainInv'
    BY <2>1, IdleFacts DEF BaseInv, MainInv
  <2> QED BY <2>2, <2>3 DEF BaseInv
<1>3. CASE create_count
  <2>1. /\ main.at = "recorded" /\ count' = count + 1 /\ main' = [main EXCEPT !.at = "enrolled"]
        /\ Save([i \in 1 .. count + 1 |-> vaults[i].id])
        /\ UNCHANGED <<vaults, fresh, mode, bound, thread, process, loose, torn, deleted>>
    BY <1>3 DEF create_count, history
  <2>2. main.slot \in Slots /\ count < MaxSlots /\ process # "off"
    BY <1>1, <2>1, IdleFacts DEF BaseInv, MainInv, Slots
  <2>3. /\ main' \in MainType /\ main'.at = "enrolled" /\ main'.slot = main.slot
    BY <1>1, <2>1 DEF MainType
  <2>4. count + 1 \in Nat /\ count' \in 0 .. MaxSlots
    BY <1>1, <2>1, <2>2
  <2> DEFINE list == [i \in 1 .. count + 1 |-> vaults[i].id]
  <2>5. list \in [1 .. count + 1 -> Vaults \cup {None}]
    BY <1>1, <2>1, <2>2 DEF RecordType, Slots
  <2> HIDE DEF list
  <2>6. list \in Seq(Vaults \cup {None}) /\ Len(list) <= MaxSlots
    BY <1>1, <2>1, <2>4, <2>5, SegmentFacts
  <2>9. dat' \in Seq(Vaults \cup {None}) /\ Len(dat') <= MaxSlots /\ dat_fresh' \subseteq Vaults
    BY <2>1, <2>6, SaveFacts DEF list
  <2>7. TypeOK' /\ ThreadInv'
    BY <1>1, <2>1, <2>2, <2>3, <2>4, <2>9, TypeFacts, MainStep DEF BaseInv
  <2>8. MainInv'
    BY <1>1, <2>1, <2>2, <2>3 DEF BaseInv, MainInv
  <2> QED BY <2>7, <2>8 DEF BaseInv
<1>4. CASE create_seal
  <2>1. /\ main' = Idle /\ main.at = "enrolled" /\ TryChmod(vaults[main.slot].id, "sealed")
        /\ UNCHANGED <<vaults, count, fresh, dat, dat_fresh, bound, thread, process, torn, deleted>>
    BY <1>4 DEF create_seal, catalog, disk
  <2>2. mode' \in [Vaults -> {"none", "sealed", "open"}] /\ loose' \subseteq Vaults
    BY <2>1, TryChmodFacts
  <2>3. TypeOK' /\ ThreadInv'
    BY <1>1, <2>1, <2>2, IdleFacts, TypeFacts, MainStep DEF BaseInv
  <2>4. MainInv'
    BY <2>1, IdleFacts DEF BaseInv, MainInv
  <2> QED BY <2>3, <2>4 DEF BaseInv
<1> QED BY <1>2, <1>3, <1>4 DEF create_step

LEMMA BaseDelete ==
    ASSUME BaseInv, NEW i \in Slots, vault_delete(i)
    PROVE  BaseInv'
<1>1. /\ process = "on" /\ main = Idle /\ i \in 1 .. count /\ vaults[i].id # None /\ main' = Call("moved", i, None)
      /\ vaults' = [j \in Slots |-> IF j >= i /\ j < count THEN vaults[j + 1] ELSE vaults[j]]
      /\ loose' = loose \cup Displaced(i .. count) /\ deleted' = deleted \cup {vaults[i].id}
      /\ UNCHANGED <<count, fresh, dat, dat_fresh, mode, bound, thread, process, torn>>
  BY DEF vault_delete, disk, Has
<1>2. /\ vaults \in [Slots -> RecordType] /\ count \in 0 .. MaxSlots /\ loose \subseteq Vaults /\ MaxSlots \in Nat
      /\ deleted \subseteq Vaults
  BY TypeFacts, MountAssumption DEF BaseInv
<1>3. \A j \in Slots : j < count => j + 1 \in Slots
  BY <1>2 DEF Slots
<1>4. vaults' \in [Slots -> RecordType]
  BY <1>1, <1>2, <1>3
<1>5. /\ main' \in MainType /\ main'.at = "moved" /\ main'.slot = i
  BY <1>1, CallFacts
<1>6. loose' \subseteq Vaults /\ deleted' \subseteq Vaults
  BY <1>1, <1>2, DisplacedFacts DEF RecordType
<1>7. TypeOK' /\ ThreadInv'
  BY <1>1, <1>4, <1>5, <1>6, TypeFacts, MainStep DEF BaseInv
<1>8. MainInv'
  BY <1>1, <1>2, <1>5 DEF MainInv
<1> QED BY <1>7, <1>8 DEF BaseInv

LEMMA BaseDeleteStep ==
    ASSUME BaseInv, delete_step
    PROVE  BaseInv'
<1>1. /\ vaults \in [Slots -> RecordType] /\ count \in 0 .. MaxSlots /\ main \in MainType
      /\ process \in {"off", "on", "exiting"} /\ MaxSlots \in Nat
  BY TypeFacts, MountAssumption DEF BaseInv
<1>2. CASE delete_count
  <2>1. /\ main.at = "moved" /\ process = "on" /\ count' = count - 1
        /\ main' = [main EXCEPT !.at = "counted"]
        /\ UNCHANGED <<vaults, fresh, dat, dat_fresh, mode, bound, thread, process, loose, torn, deleted>>
    BY <1>2 DEF delete_count, disk, history
  <2>2. main.slot \in Slots /\ main.slot <= count
    BY <2>1 DEF BaseInv, MainInv
  <2>3. count' \in 0 .. MaxSlots
    BY <1>1, <2>1, <2>2 DEF Slots
  <2>4. /\ main' \in MainType /\ main'.at = "counted" /\ main'.slot = main.slot
    BY <1>1, <2>1 DEF MainType
  <2>5. TypeOK' /\ ThreadInv'
    BY <1>1, <2>1, <2>3, <2>4, TypeFacts, MainStep DEF BaseInv
  <2>6. MainInv'
    BY <2>1, <2>2, <2>4 DEF MainInv
  <2> QED BY <2>5, <2>6 DEF BaseInv
<1>3. CASE delete_save
  <2>1. /\ main.at = "counted" /\ Save(Saved) /\ main' = Idle
        /\ UNCHANGED <<vaults, count, fresh, mode, bound, thread, process, loose, torn, deleted>>
    BY <1>3 DEF delete_save, catalog, history
  <2>4. dat' \in Seq(Vaults \cup {None}) /\ Len(dat') <= MaxSlots /\ dat_fresh' \subseteq Vaults
    BY <2>1, SavedFacts, SaveFacts DEF BaseInv
  <2>2. TypeOK' /\ ThreadInv'
    BY <1>1, <2>1, <2>4, IdleFacts, TypeFacts, MainStep DEF BaseInv
  <2>3. MainInv'
    BY <2>1, IdleFacts DEF BaseInv, MainInv
  <2> QED BY <2>2, <2>3 DEF BaseInv
<1> QED BY <1>2, <1>3 DEF delete_step

LEMMA BaseMount ==
    ASSUME BaseInv, NEW i \in Slots, NEW s \in Sessions, vault_fuse_mount(i, s)
    PROVE  BaseInv'
<1> DEFINE w == [at |-> "born", slot |-> i, of |-> vaults[i].id]
<1>1. /\ process = "on" /\ main = Idle /\ i \in 1 .. count /\ vaults[i].id # None
      /\ vaults' = [vaults EXCEPT ![i].mounted = TRUE] /\ bound' = bound \cup {s}
      /\ thread' = [thread EXCEPT ![s] = w] /\ main' = Call("confirm", i, s)
      /\ UNCHANGED <<count, fresh, dat, dat_fresh, mode, process, loose, torn, deleted>>
  BY DEF vault_fuse_mount, Mount, Has, disk, history
<1>2. /\ vaults \in [Slots -> RecordType] /\ thread \in [Sessions -> ThreadType] /\ count \in 0 .. MaxSlots
      /\ bound \subseteq Sessions /\ MaxSlots \in Nat /\ dat \in Seq(Vaults \cup {None}) /\ Len(dat) <= MaxSlots
      /\ mode \in [Vaults -> {"none", "sealed", "open"}] /\ fresh \subseteq Vaults /\ dat_fresh \subseteq Vaults
      /\ deleted \subseteq Vaults /\ loose \subseteq Vaults /\ torn \in BOOLEAN
  BY TypeFacts, MountAssumption DEF BaseInv
<1>3. vaults[i].id \in Vaults /\ vaults' \in [Slots -> RecordType]
  BY <1>1, <1>2 DEF RecordType
<1>4. w \in ThreadType /\ w.at = "born" /\ w.slot = i /\ w.of \in Vaults
  BY <1>2, <1>3 DEF ThreadType, Slots
<1> HIDE DEF w
<1>5. /\ thread' \in [Sessions -> ThreadType] /\ thread'[s] = w
      /\ \A t \in Sessions : t # s => thread'[t] = thread[t]
  BY <1>1, <1>2, <1>4
<1>6. /\ main' \in MainType /\ main'.at = "confirm" /\ main'.slot = i /\ main'.session = s
  BY <1>1, CallFacts
<1>7. \A t \in bound' : t \in Sessions /\ thread'[t].at \in {"born", "serving"}
  BY <1>1, <1>2, <1>4, <1>5 DEF BaseInv, ThreadInv
<1>8. \A t \in Sessions : Live(t)' => thread'[t].slot \in Slots /\ thread'[t].of \in Vaults
  BY <1>4, <1>5 DEF BaseInv, ThreadInv, Live
<1>9. TypeOK'
  BY <1>1, <1>2, <1>3, <1>5, <1>6, <1>7 DEF TypeOK, Live, RecordType, ThreadType, MainType
<1>10. ThreadInv'
  BY <1>1, <1>7, <1>8 DEF ThreadInv
<1>11. MainInv'
  BY <1>1, <1>6 DEF MainInv
<1> QED BY <1>9, <1>10, <1>11 DEF BaseInv

(* The kernel's mounts may go at any time.                                 *)
LEMMA BaseUnbound ==
    ASSUME BaseInv, bound' \subseteq bound, main' \in MainType, MainInv',
           UNCHANGED <<vaults, count, fresh, dat, dat_fresh, mode, thread, process, loose, torn, deleted>>
    PROVE  BaseInv'
<1>1. \A s \in Sessions : Live(s)' <=> Live(s)
  BY DEF Live
<1>2. ThreadInv'
  BY <1>1 DEF BaseInv, ThreadInv
<1>3. TypeOK'
  BY <1>1 DEF BaseInv, TypeOK, MainType
<1> QED BY <1>2, <1>3 DEF BaseInv

LEMMA BaseUnmount ==
    ASSUME BaseInv, \/ \E i \in Slots : vault_fuse_unmount(i)
                    \/ \E s \in Sessions : Fusermount(s)
    PROVE  BaseInv'
<1>1. /\ bound' \subseteq bound
      /\ UNCHANGED <<vaults, count, fresh, dat, dat_fresh, mode, thread, main, process, loose, torn, deleted>>
  BY DEF vault_fuse_unmount, Fusermount, catalog, disk, history
<1>2. main' \in MainType /\ MainInv'
  BY <1>1, TypeFacts DEF BaseInv, MainInv
<1> QED BY <1>1, <1>2, BaseUnbound

LEMMA BaseMountStep ==
    ASSUME BaseInv, mount_step
    PROVE  BaseInv'
<1>1. /\ vaults \in [Slots -> RecordType] /\ main \in MainType
      /\ mode \in [Vaults -> {"none", "sealed", "open"}]
  BY TypeFacts DEF BaseInv
<1>2. CASE mount_confirmed
  <2>1. /\ process = "on" /\ main' = Idle
        /\ UNCHANGED <<vaults, count, fresh, dat, dat_fresh, mode, bound, thread, process, loose, torn, deleted>>
    BY <1>2 DEF mount_confirmed, catalog, disk, history
  <2>2. MainInv' /\ main' \in MainType
    BY <2>1, IdleFacts DEF MainInv
  <2> QED BY <2>1, <2>2, BaseUnbound
<1>3. CASE mount_unconfirmed
  <2>1. /\ process = "on" /\ main.at = "confirm" /\ main' = [main EXCEPT !.at = "join"] /\ bound' \subseteq bound
        /\ UNCHANGED <<vaults, count, fresh, dat, dat_fresh, mode, thread, process, loose, torn, deleted>>
    BY <1>3 DEF mount_unconfirmed, catalog, disk, history
  <2>2. /\ main' \in MainType /\ main'.at = "join" /\ main'.slot = main.slot /\ main'.session = main.session
    BY <1>1, <2>1 DEF MainType
  <2>3. MainInv'
    BY <2>1, <2>2 DEF BaseInv, MainInv
  <2> QED BY <2>1, <2>2, <2>3, BaseUnbound
<1>4. CASE mount_fails
  <2>1. /\ process = "on" /\ main.at = "join" /\ main' = Idle
        /\ TryChmod(vaults[main.slot].id, "sealed")
        /\ vaults' = [vaults EXCEPT ![main.slot].mounted = FALSE]
        /\ UNCHANGED <<count, fresh, dat, dat_fresh, bound, thread, process, torn, deleted>>
    BY <1>4 DEF mount_fails, disk
  <2>2. /\ vaults' \in [Slots -> RecordType] /\ mode' \in [Vaults -> {"none", "sealed", "open"}]
        /\ loose' \subseteq Vaults
    <3>1. main.slot \in Slots
      BY <2>1 DEF BaseInv, MainInv
    <3>2. vaults' \in [Slots -> RecordType]
      BY <1>1, <2>1, <3>1 DEF RecordType
    <3>3. mode' \in [Vaults -> {"none", "sealed", "open"}] /\ loose' \subseteq Vaults
      BY <2>1, TryChmodFacts
    <3> QED BY <3>2, <3>3
  <2>3. TypeOK' /\ ThreadInv'
    BY <2>1, <2>2, IdleFacts, TypeFacts, MainStep DEF BaseInv
  <2>4. MainInv'
    BY <2>1, IdleFacts DEF MainInv
  <2> QED BY <2>3, <2>4 DEF BaseInv
<1> QED BY <1>2, <1>3, <1>4 DEF mount_step

(* What a step of thread s does to the threads.                            *)
LEMMA ThreadMove ==
    ASSUME BaseInv, NEW s \in Sessions, NEW at \in {"serving", "sealed"}, At(s, at)
    PROVE  /\ thread' \in [Sessions -> ThreadType]
           /\ thread'[s].at = at /\ thread'[s].slot = thread[s].slot /\ thread'[s].of = thread[s].of
           /\ \A t \in Sessions : t # s => thread'[t] = thread[t]
<1>1. thread \in [Sessions -> ThreadType] /\ thread' = [thread EXCEPT ![s].at = at]
  BY TypeFacts DEF BaseInv, At
<1> QED BY <1>1 DEF ThreadType

LEMMA BaseLoop ==
    ASSUME BaseInv, NEW s \in Sessions, vault_fuse_loop(s)
    PROVE  BaseInv'
<1>1. /\ vaults \in [Slots -> RecordType] /\ thread \in [Sessions -> ThreadType] /\ count \in 0 .. MaxSlots
      /\ bound \subseteq Sessions /\ dat \in Seq(Vaults \cup {None}) /\ Len(dat) <= MaxSlots
      /\ mode \in [Vaults -> {"none", "sealed", "open"}] /\ fresh \subseteq Vaults /\ dat_fresh \subseteq Vaults
      /\ deleted \subseteq Vaults /\ loose \subseteq Vaults /\ torn \in BOOLEAN /\ main \in MainType /\ process \in {"off", "on", "exiting"}
  BY TypeFacts DEF BaseInv
<1>2. /\ thread[s].at \in {"born", "serving", "sealed"} /\ Live(s) /\ process # "off"
      /\ thread[s].slot \in Slots /\ thread[s].of \in Vaults
  BY DEF vault_fuse_loop, loop_open, loop_seal, Unserved, loop_end, Finish, Live, BaseInv, ThreadInv
<1>3. CASE loop_open(s) \/ loop_seal(s)
  <2>1. PICK at \in {"serving", "sealed"} : At(s, at) /\ (at = "serving" \/ s \notin bound)
    BY <1>3 DEF loop_open, loop_seal, Unserved
  <2>2. /\ thread' \in [Sessions -> ThreadType]
        /\ thread'[s].at = at /\ thread'[s].slot = thread[s].slot /\ thread'[s].of = thread[s].of
        /\ \A t \in Sessions : t # s => thread'[t] = thread[t]
    BY <2>1, ThreadMove
  <2>3. TryChmod(Target(s), "open") \/ TryChmod(Target(s), "sealed")
    BY <1>3 DEF loop_open, loop_seal
  <2>4. mode' \in [Vaults -> {"none", "sealed", "open"}] /\ loose' \subseteq Vaults
    BY <2>3, TryChmodFacts
  <2>5. UNCHANGED <<vaults, count, fresh, dat, dat_fresh, bound, main, process, torn, deleted>>
    BY <1>3 DEF loop_open, loop_seal, Unserved, catalog, disk
  <2>6. \A t \in bound' : t \in Sessions /\ thread'[t].at \in {"born", "serving"}
    BY <1>1, <2>1, <2>2, <2>5 DEF BaseInv, ThreadInv
  <2>7. \A t \in Sessions : Live(t)' => thread'[t].slot \in Slots /\ thread'[t].of \in Vaults
    BY <1>2, <2>2 DEF BaseInv, ThreadInv, Live
  <2>8. TypeOK'
    BY <1>1, <2>2, <2>4, <2>5, <2>6 DEF TypeOK, Live, RecordType, ThreadType, MainType
  <2>9. ThreadInv' /\ MainInv'
    BY <1>2, <2>5, <2>6, <2>7 DEF BaseInv, ThreadInv, MainInv
  <2> QED BY <2>8, <2>9 DEF BaseInv
<1>4. CASE loop_end(s)
  <2>1. /\ thread[s].at = "sealed" /\ vaults' = [vaults EXCEPT ![thread[s].slot].mounted = FALSE]
        /\ thread' = [thread EXCEPT ![s] = Done]
        /\ UNCHANGED <<count, fresh, dat, dat_fresh, mode, bound, main, process, loose, torn, deleted>>
    BY <1>4 DEF loop_end, Finish, disk, history
  <2>2. Done \in ThreadType /\ Done.at = "done"
    BY MountAssumption DEF Done, NoThread, ThreadType
  <2>3. thread' \in [Sessions -> ThreadType] /\ thread'[s].at = "done" /\ \A t \in Sessions : t # s => thread'[t] = thread[t]
    BY <1>1, <2>1, <2>2
  <2>4. vaults' \in [Slots -> RecordType]
    BY <1>1, <1>2, <2>1 DEF RecordType
  <2>5. \A t \in bound' : t \in Sessions /\ thread'[t].at \in {"born", "serving"}
    BY <1>1, <2>1, <2>3 DEF BaseInv, ThreadInv
  <2>6. \A t \in Sessions : Live(t)' => thread'[t].slot \in Slots /\ thread'[t].of \in Vaults
    BY <2>3 DEF BaseInv, ThreadInv, Live
  <2>7. TypeOK'
    BY <1>1, <2>1, <2>3, <2>4, <2>5 DEF TypeOK, Live, RecordType, ThreadType, MainType
  <2>8. ThreadInv' /\ MainInv'
    BY <1>2, <2>1, <2>5, <2>6 DEF BaseInv, ThreadInv, MainInv
  <2> QED BY <2>7, <2>8 DEF BaseInv
<1> QED BY <1>3, <1>4 DEF vault_fuse_loop

LEMMA BaseStep == BaseInv /\ [Next]_vars => BaseInv'
<1> SUFFICES ASSUME BaseInv, [Next]_vars PROVE BaseInv'
  OBVIOUS
<1>1. CASE UNCHANGED vars
  BY <1>1 DEF vars, catalog, disk, history, BaseInv, TypeOK, MainInv, ThreadInv, Live
<1> QED
  BY <1>1, BaseLoad, BaseEnd, BaseHandler, BaseCreate, BaseCreateStep, BaseDelete, BaseDeleteStep,
     BaseMount, BaseUnmount, BaseMountStep, BaseLoop DEF Next
-----------------------------------------------------------------------------
(* catalog.dat.                                                            *)

LEMMA CatalogInit == Init => CatalogInv
<1> SUFFICES ASSUME Init PROVE CatalogInv
  OBVIOUS
<1>1. process = "off" /\ dat = First /\ dat_fresh = Vaults \ In(First)
  BY DEF Init
<1> QED BY <1>1, MountAssumption DEF CatalogInv, Sound

(* What a save may write, and what a failed one leaves.                    *)
LEMMA SaveIsGood ==
    ASSUME BaseInv, CatalogInv, process # "off", Save(Saved)
    PROVE  /\ ~torn /\ main.at # "moved" => IsInjective(dat')
           /\ dat_fresh' \cap In(dat') = {}
           /\ process = "on" => In(dat') \ Ids(Extent) \subseteq deleted \/ main.at = "moved"
           /\ process = "on" => In(dat) \ In(dat') \subseteq deleted
<1>1. /\ In(Saved) = Ids(count) /\ DOMAIN Saved = 1 .. count /\ \A i \in 1 .. count : Saved[i] = vaults[i].id
      /\ count \in Nat /\ process \in {"on", "exiting"} /\ \A i \in 1 .. count : i \in Slots
      /\ fresh \subseteq Vaults
  <2>1. process \in {"on", "exiting"} /\ count \in 0 .. MaxSlots /\ MaxSlots \in Nat /\ fresh \subseteq Vaults
    BY TypeFacts, MountAssumption DEF BaseInv
  <2> QED BY <2>1, SavedFacts DEF BaseInv, Slots
<1>2. CASE UNCHANGED <<dat, dat_fresh>>
  BY <1>2 DEF CatalogInv
<1>3. CASE dat' = Saved /\ dat_fresh' = fresh /\ process = "on"
  <2>1. fresh \cap In(Saved) = {}
    BY <1>1, <1>3 DEF CatalogInv, Ids
  <2>2. ~torn /\ main.at # "moved" => \A i, j \in 1 .. count : vaults[i].id = vaults[j].id => i = j
    BY <1>3 DEF CatalogInv, Sound, Extent
  <2>3. ~torn /\ main.at # "moved" => IsInjective(Saved)
    BY <1>1, <2>2 DEF IsInjective
  <2>4. Ids(Extent) \subseteq Ids(count) /\ (main.at # "moved" => Extent = count)
    BY <1>1 DEF Ids, Extent
  <2>5. In(dat) \ In(Saved) \subseteq deleted
    BY <1>1, <1>3, <2>4 DEF CatalogInv
  <2> QED BY <1>1, <1>3, <2>1, <2>3, <2>4, <2>5
<1>4. CASE dat' = Saved /\ dat_fresh' = fresh /\ process = "exiting"
  <2>1. count <= 1 /\ \A i \in Slots : vaults[i].id = None
    BY <1>4 DEF BaseInv, MainInv, CatalogInv
  <2>2. \A i, j \in 1 .. count : i = j
    BY <1>1, <2>1
  <2>3. fresh \cap In(Saved) = {}
    BY <1>1, <2>1, MountAssumption DEF Ids
  <2>4. IsInjective(Saved)
    BY <1>1, <2>2 DEF IsInjective
  <2> QED BY <1>4, <2>3, <2>4
<1> QED BY <1>1, <1>2, <1>3, <1>4 DEF Save, disk

LEMMA CatalogEnd ==
    ASSUME BaseInv, CatalogInv, Crash \/ vault_ffi_shutdown \/ ctrlc_exit
    PROVE  CatalogInv' /\ KeepsVaults
<1>1. /\ process # "off" /\ process' = "off" /\ torn' = torn
      /\ UNCHANGED <<dat, dat_fresh>> \/ (Save(Saved) /\ main = Idle)
  BY DEF Crash, vault_ffi_shutdown, ctrlc_exit, Gone, Ended, disk
<1>2. process \in {"on", "exiting"}
  BY <1>1, TypeFacts DEF BaseInv
<1>3. /\ ~torn' => IsInjective(dat')
      /\ dat_fresh' \cap In(dat') = {}
      /\ In(dat) \ In(dat') \subseteq deleted \/ process = "exiting"
  <2>1. CASE UNCHANGED <<dat, dat_fresh>>
    BY <1>1, <2>1 DEF CatalogInv
  <2>2. CASE Save(Saved) /\ main = Idle
    BY <1>1, <1>2, <2>2, SaveIsGood, IdleFacts
  <2> QED BY <1>1, <2>1, <2>2
<1>4. CatalogInv'
  BY <1>1, <1>3 DEF CatalogInv, Sound
<1> QED BY <1>3, <1>4 DEF KeepsVaults

LEMMA CatalogHandler ==
    ASSUME BaseInv, CatalogInv, ctrlc_handler
    PROVE  CatalogInv' /\ KeepsVaults
<1>1. /\ process = "on" /\ process' = "exiting" /\ Save(Saved)
      /\ vaults' = [i \in Slots |-> Zeroed] /\ torn' = (torn \/ main.at = "moved")
  BY DEF ctrlc_handler
<1>2. /\ ~torn' => IsInjective(dat')
      /\ dat_fresh' \cap In(dat') = {}
      /\ In(dat) \ In(dat') \subseteq deleted
  BY <1>1, SaveIsGood
<1>3. CatalogInv'
  BY <1>1, <1>2 DEF CatalogInv, Sound, Zeroed
<1> QED BY <1>2, <1>3 DEF KeepsVaults

LEMMA CatalogLoad ==
    ASSUME BaseInv, CatalogInv, catalog_load
    PROVE  CatalogInv' /\ KeepsVaults
<1> DEFINE n == Len(dat)
<1>1. /\ process' = "on" /\ count' = n /\ main' = Idle /\ fresh' = dat_fresh
      /\ vaults' = [i \in Slots |-> IF i <= n THEN [id |-> dat[i], mounted |-> FALSE] ELSE Zeroed]
      /\ UNCHANGED <<dat, dat_fresh, torn, deleted>>
  BY DEF catalog_load, Read, disk, history
<1>2. n \in 0 .. MaxSlots /\ DOMAIN dat = 1 .. n /\ MaxSlots \in Nat
  BY DatFacts, MountAssumption DEF BaseInv
<1>3. \A i \in 1 .. n : i \in Slots /\ vaults'[i].id = dat[i]
  BY <1>1, <1>2 DEF Slots
<1>4. Ids(n)' = In(dat)
  BY <1>1, <1>2, <1>3 DEF Ids, In
<1>5. \A i \in 1 .. n : dat[i] \in In(dat)
  BY <1>2 DEF In
<1>6. main'.at = "idle" /\ Extent' = n
  BY <1>1, IdleFacts DEF Extent
<1>7. ~torn => \A i, j \in 1 .. n : vaults'[i].id = vaults'[j].id => i = j
  BY <1>2, <1>3 DEF CatalogInv, IsInjective
<1>8. \A i \in 1 .. n : vaults'[i].id \notin fresh'
  BY <1>1, <1>3, <1>5 DEF CatalogInv
<1>10. Ids(Extent)' = In(dat)'
  BY <1>1, <1>4, <1>6 DEF Ids
<1>9. CatalogInv'
  BY <1>1, <1>6, <1>7, <1>8, <1>10 DEF CatalogInv, Sound
<1> QED BY <1>1, <1>9 DEF KeepsVaults, CatalogInv

LEMMA CatalogCreate ==
    ASSUME BaseInv, CatalogInv, NEW d \in Vaults, vault_create(d) \/ create_refused(d)
    PROVE  CatalogInv' /\ KeepsVaults
<1>1. /\ process = "on" /\ main = Idle /\ count < MaxSlots /\ d \in fresh /\ fresh' = fresh \ {d}
      /\ vaults' = [vaults EXCEPT ![count + 1] = [id |-> d, mounted |-> FALSE]]
      /\ main' = Call("recorded", count + 1, None) \/ main' = Idle
      /\ UNCHANGED <<count, dat, dat_fresh, process, torn, deleted>>
  BY EnterFacts
<1>2. /\ vaults \in [Slots -> RecordType] /\ count \in 0 .. MaxSlots /\ MaxSlots \in Nat
  BY TypeFacts, MountAssumption DEF BaseInv
<1>3. count + 1 \in Slots /\ \A i \in 1 .. count : i \in Slots /\ i # count + 1
  BY <1>1, <1>2 DEF Slots
<1>4. /\ (main'.at = "recorded" /\ main'.slot = count + 1) \/ main'.at = "idle"
      /\ main.at = "idle"
  BY <1>1, <1>3, CallFacts, IdleFacts
<1>5. vaults'[count + 1].id = d /\ \A i \in 1 .. count : vaults'[i] = vaults[i]
  BY <1>1, <1>2, <1>3
<1>6. Ids(count)' = Ids(count) /\ Extent' = count /\ Extent = count
  BY <1>1, <1>4, <1>5 DEF Ids, Extent
<1>10. Ids(Extent)' = Ids(Extent)
  BY <1>1, <1>5, <1>6 DEF Ids
<1>7. d \notin Ids(count) /\ In(dat) \ Ids(Extent) \subseteq deleted /\ \A i \in 1 .. count : vaults[i].id \notin fresh
  BY <1>1, <1>4 DEF CatalogInv, Ids
<1>8. \A i \in 1 .. count : vaults'[i].id \notin fresh'
  BY <1>1, <1>5, <1>7
<1>11. In(dat)' \ Ids(Extent)' \subseteq deleted'
  BY <1>1, <1>7, <1>10 DEF In
<1>12. Sound => \A i, j \in 1 .. count : vaults'[i].id = vaults'[j].id => i = j
  BY <1>5, <1>6 DEF CatalogInv
<1>13. main'.at = "recorded" => vaults'[main'.slot].id = d
  BY <1>4, <1>5
<1>9. CatalogInv'
  BY <1>1, <1>4, <1>6, <1>7, <1>8, <1>11, <1>12, <1>13 DEF CatalogInv, Sound
<1> QED BY <1>1, <1>9 DEF KeepsVaults, CatalogInv

LEMMA CatalogCount ==
    ASSUME BaseInv, CatalogInv, create_count
    PROVE  CatalogInv' /\ KeepsVaults
<1> DEFINE list == [i \in 1 .. count + 1 |-> vaults[i].id]
<1>1. /\ main.at = "recorded" /\ count' = count + 1 /\ main' = [main EXCEPT !.at = "enrolled"]
      /\ (dat' = list /\ dat_fresh' = fresh) \/ UNCHANGED <<dat, dat_fresh>>
      /\ UNCHANGED <<vaults, fresh, process, torn, deleted>>
  BY DEF create_count, Save, disk, history
<1>2. /\ main \in MainType /\ count \in 0 .. MaxSlots /\ MaxSlots \in Nat /\ process \in {"off", "on", "exiting"}
      /\ vaults \in [Slots -> RecordType] /\ fresh \subseteq Vaults
  BY TypeFacts, MountAssumption DEF BaseInv
<1>3. main.slot \in Slots /\ process # "off" /\ main'.at = "enrolled" /\ main'.slot = main.slot
  BY <1>1, <1>2, IdleFacts DEF BaseInv, MainInv, MainType
<1>4. /\ DOMAIN list = 1 .. count + 1 /\ (\A i \in 1 .. count + 1 : list[i] = vaults[i].id)
      /\ Extent' = count + 1 /\ Extent = count
  BY <1>1, <1>3 DEF Extent
<1> HIDE DEF list
<1>5. In(list) = Ids(count + 1)
  BY <1>4 DEF In, Ids
<1>6. CASE process = "on"
  <2>1. /\ main.slot = count + 1 /\ vaults[count + 1].id \in Vaults \ fresh
        /\ \A i \in 1 .. count : vaults[i].id \notin fresh
        /\ In(dat) \ Ids(count) \subseteq deleted
    BY <1>1, <1>4, <1>6 DEF BaseInv, MainInv, CatalogInv
  <2>2. \A i \in 1 .. count + 1 : i = count + 1 \/ i \in 1 .. count
    BY <1>2
  <2>3. \A i \in 1 .. count + 1 : vaults[i].id \notin fresh
    BY <2>1, <2>2
  <2>4. ~torn => \A i, j \in 1 .. count + 1 : vaults[i].id = vaults[j].id => i = j
    <3> SUFFICES ASSUME ~torn, NEW i \in 1 .. count + 1, NEW j \in 1 .. count + 1, vaults[i].id = vaults[j].id
                 PROVE  i = j
      OBVIOUS
    <3>1. vaults[count + 1].id \notin Ids(count) /\ \A k, m \in 1 .. count : vaults[k].id = vaults[m].id => k = m
      BY <1>1, <1>4, <1>6, <2>1 DEF CatalogInv, Sound
    <3> QED BY <2>2, <3>1 DEF Ids
  <2>5. Ids(count) \subseteq Ids(count + 1) /\ Ids(Extent)' = Ids(count + 1)
    BY <1>1, <1>2, <1>4 DEF Ids
  <2>6. /\ ~torn' => IsInjective(dat')
        /\ dat_fresh' \cap In(dat') = {}
        /\ In(dat) \ In(dat') \subseteq deleted
        /\ In(dat') \ Ids(count + 1) \subseteq deleted
    <3>1. CASE UNCHANGED <<dat, dat_fresh>>
      BY <1>1, <2>1, <2>5, <3>1 DEF CatalogInv
    <3>2. CASE dat' = list /\ dat_fresh' = fresh
      <4>1. ~torn => IsInjective(list)
        BY <1>4, <2>4 DEF IsInjective
      <4>2. fresh \cap In(list) = {}
        BY <1>5, <2>3 DEF Ids
      <4> QED BY <1>1, <1>5, <2>1, <2>5, <3>2, <4>1, <4>2
    <3> QED BY <1>1, <3>1, <3>2
  <2>7. In(dat)' \ Ids(Extent)' \subseteq deleted'
    BY <1>1, <2>5, <2>6 DEF In
  <2>8. CatalogInv'
    BY <1>1, <1>3, <1>4, <1>6, <2>3, <2>4, <2>6, <2>7 DEF CatalogInv, Sound
  <2> QED BY <1>6, <2>6, <2>8 DEF KeepsVaults
<1>7. CASE process = "exiting"
  <2>1. count = 0 /\ \A i \in Slots : vaults[i].id = None
    BY <1>1, <1>7 DEF BaseInv, MainInv, CatalogInv
  <2>2. \A i, j \in 1 .. count + 1 : i = j /\ i \in Slots
    BY <1>2, <1>3, <2>1 DEF Slots
  <2>3. IsInjective(list)
    BY <1>4, <2>2 DEF IsInjective
  <2>4. fresh \cap In(list) = {}
    BY <1>2, <1>5, <2>1, <2>2, MountAssumption DEF Ids
  <2>6. /\ ~torn' => IsInjective(dat')
        /\ dat_fresh' \cap In(dat') = {}
    BY <1>1, <2>3, <2>4 DEF CatalogInv
  <2>5. CatalogInv'
    BY <1>1, <1>7, <2>1, <2>6 DEF CatalogInv, Sound
  <2> QED BY <1>7, <2>6, <2>5 DEF KeepsVaults
<1> QED BY <1>2, <1>3, <1>6, <1>7

LEMMA CatalogDelete ==
    ASSUME BaseInv, CatalogInv, NEW i \in Slots, vault_delete(i)
    PROVE  CatalogInv' /\ KeepsVaults
<1>1. /\ process = "on" /\ main = Idle /\ i \in 1 .. count /\ vaults[i].id # None
      /\ main' = Call("moved", i, None)
      /\ vaults' = [j \in Slots |-> IF j >= i /\ j < count THEN vaults[j + 1] ELSE vaults[j]]
      /\ deleted' = deleted \cup {vaults[i].id}
      /\ UNCHANGED <<count, fresh, dat, dat_fresh, process, torn>>
  BY DEF vault_delete, disk, Has
<1>2. /\ vaults \in [Slots -> RecordType] /\ count \in 0 .. MaxSlots /\ MaxSlots \in Nat
  BY TypeFacts, MountAssumption DEF BaseInv
<1>3. main'.at = "moved" /\ main.at = "idle" /\ Extent' = count - 1 /\ Extent = count
  BY <1>1, CallFacts, IdleFacts DEF Extent
<1>4. \A j \in 1 .. count : j \in Slots /\ vaults'[j] = vaults[IF j >= i /\ j < count THEN j + 1 ELSE j]
  BY <1>1, <1>2 DEF Slots
<1>5. \A j \in 1 .. count : (IF j >= i /\ j < count THEN j + 1 ELSE j) \in 1 .. count
  BY <1>2
<1>6. \A j \in 1 .. count : vaults'[j].id \notin fresh'
  BY <1>1, <1>4, <1>5 DEF CatalogInv
<1>7. Ids(count) = Ids(count - 1)' \cup {vaults[i].id}
  <2>0. Ids(count - 1)' = {vaults'[j].id : j \in 1 .. count - 1}
    BY <1>1 DEF Ids
  <2>1. \A j \in 1 .. count - 1 : j \in 1 .. count /\ vaults'[j].id \in Ids(count)
    BY <1>2, <1>4, <1>5 DEF Ids
  <2>2. ASSUME NEW k \in 1 .. count, k # i
        PROVE  vaults[k].id \in Ids(count - 1)'
    <3>1. CASE k < i
      <4>1. k \in 1 .. count - 1 /\ ~(k >= i)
        BY <1>1, <1>2, <3>1
      <4>2. vaults'[k] = vaults[k]
        BY <1>4, <4>1
      <4> QED BY <2>0, <4>1, <4>2
    <3>2. CASE k > i
      <4>1. k - 1 \in 1 .. count - 1 /\ k - 1 >= i /\ k - 1 < count /\ (k - 1) + 1 = k /\ k - 1 \in 1 .. count
        BY <1>1, <1>2, <3>2
      <4>2. vaults'[k - 1] = vaults[k]
        BY <1>4, <4>1
      <4> QED BY <2>0, <4>1, <4>2
    <3> QED BY <1>1, <2>2, <3>1, <3>2
  <2>3. Ids(count - 1)' \subseteq Ids(count)
    BY <2>0, <2>1
  <2>4. vaults[i].id \in Ids(count)
    BY <1>1 DEF Ids
  <2>5. \A k \in 1 .. count : vaults[k].id \in Ids(count - 1)' \cup {vaults[i].id}
    BY <2>2
  <2>6. Ids(count) \subseteq Ids(count - 1)' \cup {vaults[i].id}
    BY <2>5 DEF Ids
  <2> QED BY <2>3, <2>4, <2>6
<1>8. ~torn => \A j, k \in 1 .. count - 1 : vaults'[j].id = vaults'[k].id => j = k
  <2> SUFFICES ASSUME ~torn, NEW j \in 1 .. count - 1, NEW k \in 1 .. count - 1, vaults'[j].id = vaults'[k].id
               PROVE  j = k
    OBVIOUS
  <2> DEFINE f == IF j >= i /\ j < count THEN j + 1 ELSE j
             g == IF k >= i /\ k < count THEN k + 1 ELSE k
  <2>1. j \in 1 .. count /\ k \in 1 .. count
    BY <1>2
  <2>2. vaults[f].id = vaults[g].id /\ f \in 1 .. count /\ g \in 1 .. count
    BY <1>4, <1>5, <2>1
  <2>3. \A x, y \in 1 .. count : vaults[x].id = vaults[y].id => x = y
    BY <1>1, <1>3 DEF CatalogInv, Sound
  <2>4. f = g
    BY <2>2, <2>3
  <2> QED BY <1>1, <1>2, <2>4
<1>9. In(dat) \ Ids(count) \subseteq deleted
  BY <1>1, <1>3 DEF CatalogInv
<1>10. CatalogInv'
  <2>1. Ids(Extent)' = Ids(count - 1)'
    BY <1>1, <1>3 DEF Ids
  <2>2. In(dat)' \ Ids(Extent)' \subseteq deleted'
    BY <1>1, <1>7, <1>9, <2>1 DEF In
  <2> QED BY <1>1, <1>3, <1>6, <1>8, <2>2 DEF CatalogInv, Sound
<1> QED BY <1>1, <1>10 DEF KeepsVaults, CatalogInv

LEMMA CatalogDeleteStep ==
    ASSUME BaseInv, CatalogInv, delete_step
    PROVE  CatalogInv' /\ KeepsVaults
<1>1. /\ vaults \in [Slots -> RecordType] /\ count \in 0 .. MaxSlots /\ main \in MainType
      /\ process \in {"off", "on", "exiting"} /\ MaxSlots \in Nat
  BY TypeFacts, MountAssumption DEF BaseInv
<1>2. CASE delete_count
  <2>1. /\ main.at = "moved" /\ process = "on" /\ count' = count - 1
        /\ main' = [main EXCEPT !.at = "counted"] /\ UNCHANGED <<vaults, fresh, dat, dat_fresh, process, torn, deleted>>
    BY <1>2 DEF delete_count, disk, history
  <2>2. main'.at = "counted" /\ Extent = count - 1 /\ Extent' = count - 1 /\ \A i \in 1 .. count - 1 : i \in 1 .. count
    BY <1>1, <2>1 DEF MainType, Extent
  <2>3. Ids(Extent)' = Ids(Extent) /\ In(dat)' = In(dat)
    BY <2>1, <2>2 DEF Ids, In
  <2>4. CatalogInv'
    BY <2>1, <2>2, <2>3 DEF CatalogInv, Sound
  <2> QED BY <2>1, <2>4 DEF KeepsVaults, CatalogInv
<1>3. CASE delete_save
  <2>1. /\ main.at = "counted" /\ Save(Saved) /\ main' = Idle
        /\ UNCHANGED <<vaults, count, fresh, process, torn, deleted>>
    BY <1>3 DEF delete_save, catalog, history
  <2>2. main'.at = "idle" /\ Extent = count /\ Extent' = count /\ process \in {"on", "exiting"}
    BY <1>1, <2>1, IdleFacts DEF Extent, BaseInv, MainInv
  <2>3. Ids(Extent)' = Ids(Extent)
    BY <2>1, <2>2 DEF Ids
  <2>4. /\ ~torn' => IsInjective(dat')
        /\ dat_fresh' \cap In(dat') = {}
        /\ process = "on" => In(dat') \ Ids(Extent) \subseteq deleted /\ In(dat) \ In(dat') \subseteq deleted
    BY <2>1, <2>2, SaveIsGood
  <2>6. process = "on" => In(dat)' \ Ids(Extent)' \subseteq deleted'
    BY <2>1, <2>3, <2>4 DEF In
  <2>5. CatalogInv'
    BY <2>1, <2>2, <2>4, <2>6 DEF CatalogInv, Sound
  <2> QED BY <2>2, <2>4, <2>5 DEF KeepsVaults
<1> QED BY <1>2, <1>3 DEF delete_step

(* The other steps leave the list of vaults alone.                         *)
LEMMA CatalogQuiet ==
    ASSUME CatalogInv, UNCHANGED <<dat, dat_fresh, fresh, count, process, torn, deleted>>,
           vaults \in [Slots -> RecordType],
           count \in 0 .. MaxSlots, main.at # "idle" => main.slot \in Slots,
           \A i \in Slots : vaults'[i].id = vaults[i].id,
           main' = main \/ (main.at \notin {"moved", "counted"} /\ main'.at \notin {"recorded", "moved", "counted"})
    PROVE  CatalogInv' /\ KeepsVaults
<1>1. \A i \in 1 .. count : i \in Slots /\ vaults'[i].id = vaults[i].id
  BY MountAssumption DEF Slots
<1>2. Extent' = Extent /\ Extent \in {count, count - 1} /\ Ids(count)' = Ids(count)
  BY <1>1 DEF Extent, Ids
<1>3. \A i \in 1 .. Extent : i \in 1 .. count
  BY <1>2, MountAssumption
<1>4. Ids(Extent)' = Ids(Extent)
  BY <1>1, <1>2, <1>3 DEF Ids
<1>5. /\ ~torn' => IsInjective(dat')
      /\ dat_fresh' \cap In(dat') = {}
      /\ process' = "exiting" => \A i \in Slots : vaults'[i].id = None
      /\ In(dat)' = In(dat)
  BY DEF CatalogInv, In
<1>6. process = "on" =>
         /\ \A i \in 1 .. count : vaults'[i].id \notin fresh'
         /\ main'.at = "recorded" => vaults'[main'.slot].id \in Vaults \ fresh'
  BY <1>1 DEF CatalogInv
<1>7. Sound' =>
         /\ \A i, j \in 1 .. Extent' : vaults'[i].id = vaults'[j].id => i = j
         /\ main'.at = "recorded" => vaults'[main'.slot].id \notin Ids(count)'
  BY <1>1, <1>2, <1>3 DEF CatalogInv, Sound
<1>8. process = "on" => In(dat)' \ Ids(Extent)' \subseteq deleted'
  BY <1>4, <1>5 DEF CatalogInv
<1>9. CatalogInv'
  BY <1>5, <1>6, <1>7, <1>8 DEF CatalogInv
<1> QED BY <1>5, <1>9 DEF KeepsVaults

LEMMA CatalogStep == BaseInv /\ CatalogInv /\ [Next]_vars => CatalogInv' /\ [KeepsVaults]_vars
<1> SUFFICES ASSUME BaseInv, CatalogInv, [Next]_vars
             PROVE  CatalogInv' /\ [KeepsVaults]_vars
  OBVIOUS
<1>2. /\ vaults \in [Slots -> RecordType] /\ count \in 0 .. MaxSlots /\ main \in MainType
      /\ thread \in [Sessions -> ThreadType] /\ (main.at # "idle" => main.slot \in Slots)
  BY TypeFacts DEF BaseInv, MainInv
<1>3. ASSUME \A i \in Slots : vaults'[i].id = vaults[i].id, UNCHANGED <<dat, dat_fresh, fresh, count, process, torn, deleted>>,
             main' = main \/ (main.at \notin {"moved", "counted"} /\ main'.at \notin {"recorded", "moved", "counted"})
      PROVE  CatalogInv' /\ KeepsVaults
  BY <1>2, <1>3, CatalogQuiet
<1>4. CASE UNCHANGED vars
  BY <1>3, <1>4 DEF vars, catalog, disk, history
<1>5. CASE create_step
  <2>1. CASE create_abandoned \/ create_seal
    BY <1>3, <2>1, IdleFacts DEF create_abandoned, create_seal, catalog, disk, history
  <2> QED BY <1>5, <2>1, CatalogCount DEF create_step
<1>6. ASSUME NEW i \in Slots, NEW s \in Sessions, vault_fuse_mount(i, s)
      PROVE  CatalogInv' /\ KeepsVaults
  <2>1. /\ vaults' = [vaults EXCEPT ![i].mounted = TRUE] /\ UNCHANGED <<dat, dat_fresh, fresh, count, process, torn, deleted>>
        /\ main = Idle /\ main' = Call("confirm", i, s)
    BY <1>6 DEF vault_fuse_mount, Mount, catalog, disk, history
  <2>2. \A j \in Slots : vaults'[j].id = vaults[j].id
    BY <1>2, <2>1 DEF RecordType
  <2>3. main.at = "idle" /\ main'.at = "confirm"
    BY <2>1, IdleFacts, CallFacts
  <2> QED BY <1>3, <2>1, <2>2, <2>3
<1>7. CASE mount_step
  <2>1. CASE mount_confirmed
    BY <1>3, <2>1, IdleFacts DEF mount_confirmed, catalog, disk, history
  <2>2. CASE mount_unconfirmed
    BY <1>2, <1>3, <2>2 DEF mount_unconfirmed, catalog, disk, history, MainType
  <2>3. CASE mount_fails
    <3>1. /\ vaults' = [vaults EXCEPT ![main.slot].mounted = FALSE] /\ UNCHANGED <<dat, dat_fresh, fresh, count, process, torn, deleted>>
          /\ main.at = "join" /\ main' = Idle
      BY <2>3 DEF mount_fails, catalog, disk, history
    <3>2. \A j \in Slots : vaults'[j].id = vaults[j].id
      BY <1>2, <3>1 DEF RecordType
    <3> QED BY <1>3, <3>1, <3>2, IdleFacts
  <2> QED BY <1>7, <2>1, <2>2, <2>3 DEF mount_step
<1>8. CASE \/ \E i \in Slots : vault_fuse_unmount(i)
           \/ \E s \in Sessions : Fusermount(s)
  BY <1>3, <1>8 DEF vault_fuse_unmount, Fusermount, catalog, disk, history
<1>9. ASSUME NEW s \in Sessions, vault_fuse_loop(s)
      PROVE  CatalogInv' /\ KeepsVaults
  <2>1. CASE loop_open(s) \/ loop_seal(s)
    BY <1>3, <2>1 DEF loop_open, loop_seal, Unserved, catalog, disk, history
  <2>2. CASE loop_end(s)
    <3>1. /\ vaults' = [vaults EXCEPT ![thread[s].slot].mounted = FALSE]
          /\ UNCHANGED <<dat, dat_fresh, fresh, count, process, torn, deleted, main>>
      BY <2>2 DEF loop_end, Finish, catalog, disk, history
    <3>2. \A j \in Slots : vaults'[j].id = vaults[j].id
      BY <1>2, <3>1 DEF RecordType
    <3> QED BY <1>3, <3>1, <3>2
  <2> QED BY <1>9, <2>1, <2>2 DEF vault_fuse_loop
<1> QED
  BY <1>4, <1>5, <1>6, <1>7, <1>8, <1>9, CatalogEnd, CatalogHandler, CatalogLoad, CatalogCreate,
     CatalogDelete, CatalogDeleteStep DEF Next

-----------------------------------------------------------------------------
(* The physical lock.                                                      *)

LEMMA LockInit == Init => LockInv /\ PhysicalLock
<1> SUFFICES ASSUME Init PROVE LockInv /\ PhysicalLock
  OBVIOUS
<1>1. process = "off" /\ ~Sound /\ \A i \in Slots : ~vaults[i].mounted
  BY DEF Init, Sound, Zeroed
<1>2. \A d \in Vaults : mode[d] # "open"
  BY DEF Init
<1>3. LockInv
  BY <1>1, <1>2 DEF LockInv, FlagInv, PointerInv, TightInv, OffInv
<1> QED BY <1>1, <1>3 DEF PhysicalLock, OpenHasOwner, NotSealedUnderSession, FlagHasSession

(* With the process go the promises that are about it.                     *)
LEMMA LockEnd ==
    ASSUME BaseInv, Crash \/ vault_ffi_shutdown \/ ctrlc_exit \/ ctrlc_handler
    PROVE  LockInv' /\ PhysicalLock'
<1>1. /\ process' # "on" /\ vaults' = [i \in Slots |-> Zeroed]
      /\ process' = "off" => loose' = {d \in Vaults : mode'[d] = "open"}
  BY DEF Crash, vault_ffi_shutdown, ctrlc_exit, ctrlc_handler, Gone, Ended
<1>2. FlagInv'
  BY <1>1 DEF FlagInv, Zeroed
<1>3. OffInv'
  BY <1>1 DEF OffInv
<1>4. ~Sound'
  BY <1>1 DEF Sound
<1> QED
  BY <1>2, <1>3, <1>4 DEF LockInv, PointerInv, TightInv, PhysicalLock, OpenHasOwner, NotSealedUnderSession,
                          FlagHasSession

LEMMA LockLoad ==
    ASSUME BaseInv, LockInv, catalog_load
    PROVE  LockInv' /\ PhysicalLock'
<1> DEFINE n == Len(dat)
<1>1. /\ process = "off" /\ process' = "on" /\ count' = n /\ main' = Idle
      /\ vaults' = [i \in Slots |-> IF i <= n THEN [id |-> dat[i], mounted |-> FALSE] ELSE Zeroed]
      /\ UNCHANGED <<mode, bound, thread, loose>>
  BY DEF catalog_load, Read, disk, history
<1>2. \A i \in Slots : ~vaults'[i].mounted
  BY <1>1 DEF Zeroed
<1>3. \A s \in Sessions : ~Live(s)'
  BY <1>1 DEF BaseInv, ThreadInv, Live
<1>4. \A i \in 1 .. n : i \in Slots
  BY DatFacts, MountAssumption DEF BaseInv, Slots
<1>5. main'.at = "idle" /\ bound \subseteq Sessions
  BY <1>1, IdleFacts, TypeFacts DEF BaseInv
<1>6. FlagInv' /\ PointerInv' /\ TightInv' /\ OffInv'
  BY <1>1, <1>2, <1>3, <1>5 DEF FlagInv, PointerInv, TightInv, Tight, OffInv
<1>7. OpenHasOwner'
  BY <1>1 DEF LockInv, OffInv, OpenHasOwner
<1>8. FlagHasSession'
  BY <1>1, <1>2, <1>4 DEF FlagHasSession
<1>9. NotSealedUnderSession'
  BY <1>1, <1>3, <1>5 DEF NotSealedUnderSession, Live
<1> QED BY <1>6, <1>7, <1>8, <1>9 DEF LockInv, PhysicalLock

(* A step of the main thread that only goes on with its call, or one that  *)
(* takes a mount out of the kernel.                                        *)
LEMMA LockCall ==
    ASSUME LockInv, PhysicalLock, UNCHANGED <<vaults, mode, thread, process, loose, torn>>,
           bound' \subseteq bound, count \in Nat, count' \in Nat,
           Sound => /\ \A s \in Sessions : Tight(s) => OwnRecord(s)'
                    /\ \A i \in 1 .. count' : vaults[i].mounted => i \in 1 .. count
                    /\ main.at \in {"recorded", "enrolled"} =>
                          main'.at \in {"recorded", "enrolled"} /\ main'.slot = main.slot
                    /\ main.at = "join" => main'.at = "join" /\ main'.slot = main.slot,
           main'.at = "recorded" => main' = main
    PROVE  LockInv' /\ PhysicalLock'
<1>1. /\ Sound' <=> Sound
      /\ \A s : (Live(s)' <=> Live(s)) /\ (Tight(s)' <=> Tight(s)) /\ Target(s)' = Target(s)
  BY DEF Sound, Live, Tight, Target
<1>2. FlagInv' /\ PointerInv' /\ OffInv'
  BY <1>1 DEF LockInv, FlagInv, PointerInv, OffInv
<1>3. TightInv'
  BY <1>1 DEF LockInv, TightInv
<1>4. OpenHasOwner'
  BY <1>1 DEF PhysicalLock, OpenHasOwner
<1>5. NotSealedUnderSession'
  BY <1>1 DEF PhysicalLock, NotSealedUnderSession
<1>6. FlagHasSession'
  BY <1>1 DEF PhysicalLock, FlagHasSession
<1> QED BY <1>2, <1>3, <1>4, <1>5, <1>6 DEF LockInv, PhysicalLock

LEMMA LockCount ==
    ASSUME BaseInv, LockInv, PhysicalLock, create_count
    PROVE  LockInv' /\ PhysicalLock'
<1>1. /\ main.at = "recorded" /\ count' = count + 1 /\ main' = [main EXCEPT !.at = "enrolled"]
      /\ UNCHANGED <<vaults, mode, bound, thread, process, loose, torn>>
  BY DEF create_count, disk, history
<1>2. /\ main \in MainType /\ count \in Nat /\ thread \in [Sessions -> ThreadType]
  BY TypeFacts, MountAssumption DEF BaseInv
<1>3. /\ main'.at = "enrolled" /\ main'.slot = main.slot /\ Extent = count /\ Extent' = count + 1
  BY <1>1, <1>2 DEF MainType, Extent
<1>4. Sound => main.slot = count + 1 /\ ~vaults[main.slot].mounted
  BY <1>1 DEF Sound, BaseInv, MainInv, LockInv, FlagInv
<1>5. ASSUME Sound, NEW s \in Sessions, Tight(s)
      PROVE  OwnRecord(s)'
  <2>1. thread[s].slot <= count /\ vaults[thread[s].slot].mounted /\ thread[s].slot \in Nat
    BY <1>2, <1>3, <1>5, MountAssumption DEF LockInv, TightInv, OwnRecord, ThreadType
  <2> QED BY <1>1, <1>2, <1>3, <1>4, <1>5, <2>1 DEF OwnRecord
<1>6. ASSUME Sound, NEW i \in 1 .. count + 1, vaults[i].mounted
      PROVE  i \in 1 .. count
  BY <1>2, <1>4, <1>6
<1> QED BY <1>1, <1>2, <1>3, <1>5, <1>6, LockCall

LEMMA LockDeleteStep ==
    ASSUME BaseInv, LockInv, PhysicalLock, delete_step
    PROVE  LockInv' /\ PhysicalLock'
<1>1. /\ main \in MainType /\ count \in Nat /\ thread \in [Sessions -> ThreadType]
  BY TypeFacts, MountAssumption DEF BaseInv
<1>2. /\ count' \in Nat
  BY BaseDeleteStep, TypeFacts, MountAssumption DEF BaseInv, TypeOK
<1>3. /\ main.at \in {"moved", "counted"} /\ main'.at \in {"counted", "idle"} /\ count' <= count
      /\ UNCHANGED <<vaults, mode, bound, thread, process, loose, torn>>
  BY <1>1, IdleFacts DEF delete_step, delete_count, delete_save, catalog, disk, history, MainType
<1>4. Extent' = Extent
  BY <1>1, IdleFacts DEF delete_step, delete_count, delete_save, catalog, Extent, MainType
<1>5. ASSUME Sound, NEW s \in Sessions, Tight(s)
      PROVE  OwnRecord(s)'
  BY <1>3, <1>4, <1>5 DEF LockInv, TightInv, OwnRecord
<1>6. ASSUME NEW i \in 1 .. count'
      PROVE  i \in 1 .. count
  BY <1>1, <1>2, <1>3
<1> QED BY <1>1, <1>2, <1>3, <1>5, <1>6, LockCall

(* vault_fuse_unmount, fusermount by hand, and a mount that looks for its  *)
(* mount point.                                                            *)
LEMMA LockUnmount ==
    ASSUME BaseInv, LockInv, PhysicalLock,
           \/ \E i \in Slots : vault_fuse_unmount(i)
           \/ \E s \in Sessions : Fusermount(s)
           \/ mount_confirmed \/ mount_unconfirmed
           \/ UNCHANGED vars
    PROVE  LockInv' /\ PhysicalLock'
<1>1. main \in MainType /\ count \in Nat
  BY TypeFacts, MountAssumption DEF BaseInv
<1>2. /\ bound' \subseteq bound
      /\ UNCHANGED <<vaults, count, mode, thread, process, loose, torn>>
      /\ \/ main' = main
         \/ main.at = "confirm" /\ main' = Idle
         \/ main.at = "confirm" /\ main' = [main EXCEPT !.at = "join"]
  BY DEF vault_fuse_unmount, Fusermount, mount_confirmed, mount_unconfirmed, vars, catalog, disk, history
<1>3. \/ main' = main
      \/ main.at = "confirm" /\ main'.at = "idle"
      \/ main.at = "confirm" /\ main'.at = "join" /\ main'.slot = main.slot /\ main'.session = main.session
  BY <1>1, <1>2, IdleFacts DEF MainType
<1>4. Extent' = Extent
  BY <1>2, <1>3 DEF Extent
<1>5. ASSUME Sound, NEW s \in Sessions, Tight(s)
      PROVE  OwnRecord(s)'
  BY <1>2, <1>3, <1>4, <1>5 DEF LockInv, TightInv, OwnRecord
<1> QED BY <1>1, <1>2, <1>3, <1>5, LockCall

LEMMA LockAbandoned ==
    ASSUME BaseInv, LockInv, PhysicalLock, create_abandoned
    PROVE  LockInv' /\ PhysicalLock'
<1>1. /\ main.at = "recorded" /\ main' = Idle /\ loose' = loose \cup ({vaults[main.slot].id} \cap Vaults)
      /\ UNCHANGED <<vaults, count, mode, bound, thread, process, torn>>
  BY DEF create_abandoned, catalog, disk
<1>2. main'.at = "idle" /\ Extent' = Extent /\ loose \subseteq loose'
  BY <1>1, IdleFacts DEF Extent
<1>3. /\ Sound' <=> Sound
      /\ \A s : (Live(s)' <=> Live(s)) /\ (Tight(s)' => Tight(s)) /\ Target(s)' = Target(s)
  BY <1>1, <1>2 DEF Sound, Live, Tight, Target
<1>4. FlagInv' /\ PointerInv'
  BY <1>1, <1>2, <1>3 DEF LockInv, FlagInv, PointerInv
<1>5. TightInv'
  BY <1>1, <1>2, <1>3 DEF LockInv, TightInv, OwnRecord
<1>6. OffInv'
  BY <1>1, <1>2 DEF LockInv, OffInv
<1>7. OpenHasOwner'
  BY <1>1, <1>2, <1>3 DEF PhysicalLock, OpenHasOwner
<1>8. NotSealedUnderSession'
  BY <1>1, <1>2, <1>3 DEF PhysicalLock, NotSealedUnderSession
<1>9. FlagHasSession'
  BY <1>1, <1>2, <1>3 DEF PhysicalLock, FlagHasSession
<1> QED BY <1>4, <1>5, <1>6, <1>7, <1>8, <1>9 DEF LockInv, PhysicalLock

(* A session that serves its own vault from a record in use is not of the  *)
(* vault of another record in use.                                         *)
LEMMA OtherVault ==
    ASSUME BaseInv, CatalogInv, LockInv, Sound, NEW s \in Sessions, Tight(s),
           NEW i \in Slots, i <= Extent, i # thread[s].slot
    PROVE  thread[s].of # vaults[i].id
<1>1. Target(s) = thread[s].of /\ thread[s].slot <= Extent /\ thread[s].slot \in Slots
  BY DEF Tight, LockInv, PointerInv, TightInv, OwnRecord, BaseInv, ThreadInv
<1>2. Extent \in Int
  BY TypeFacts, MountAssumption DEF BaseInv, Extent
<1>3. i \in 1 .. Extent /\ thread[s].slot \in 1 .. Extent
  BY <1>1, <1>2, MountAssumption DEF Slots
<1> QED BY <1>1, <1>3 DEF CatalogInv, Target

LEMMA LockSeal ==
    ASSUME BaseInv, CatalogInv, LockInv, PhysicalLock, create_seal
    PROVE  LockInv' /\ PhysicalLock'
<1> DEFINE d == vaults[main.slot].id
<1>1. /\ main.at = "enrolled" /\ main' = Idle /\ TryChmod(d, "sealed")
      /\ UNCHANGED <<vaults, count, bound, thread, process, torn>>
  BY DEF create_seal, catalog
<1>2. /\ main'.at = "idle" /\ Extent' = Extent /\ Extent = count /\ main.slot \in Slots /\ count \in Nat
      /\ bound \subseteq Sessions
  BY <1>1, IdleFacts, TypeFacts, MountAssumption DEF Extent, BaseInv, MainInv
<1>3. /\ loose \subseteq loose'
      /\ \A x \in Vaults : x \notin loose' => mode'[x] = IF x = d THEN "sealed" ELSE mode[x]
  BY <1>1, TryChmodFacts
<1>4. /\ Sound' <=> Sound
      /\ \A s : (Live(s)' <=> Live(s)) /\ (Tight(s)' => Tight(s)) /\ Target(s)' = Target(s)
  BY <1>1, <1>3 DEF Sound, Live, Tight, Target
<1>5. FlagInv' /\ PointerInv'
  BY <1>1, <1>2, <1>3, <1>4 DEF LockInv, FlagInv, PointerInv
<1>6. TightInv'
  BY <1>1, <1>2, <1>4 DEF LockInv, TightInv, OwnRecord
<1>7. OffInv'
  BY <1>1, <1>2, IdleFacts DEF OffInv, BaseInv, MainInv
<1>8. OpenHasOwner'
  BY <1>1, <1>3, <1>4 DEF PhysicalLock, OpenHasOwner
<1>9. NotSealedUnderSession'
  <2> SUFFICES ASSUME Sound, NEW s \in bound, thread[s].at = "serving", thread[s].of \notin loose'
               PROVE  mode'[thread[s].of] = "open"
    BY <1>1, <1>4 DEF NotSealedUnderSession
  <2>1. Tight(s) /\ s \in Sessions /\ thread[s].of \in Vaults /\ mode[thread[s].of] = "open"
    BY <1>2, <1>3 DEF Tight, Live, PhysicalLock, NotSealedUnderSession, BaseInv, ThreadInv
  <2>2. main.slot <= Extent /\ main.slot # thread[s].slot
    BY <1>1, <1>2, <2>1 DEF Sound, BaseInv, MainInv, LockInv, TightInv, OwnRecord
  <2>3. thread[s].of # d
    BY <1>2, <2>1, <2>2, OtherVault
  <2> QED BY <1>3, <2>1, <2>3
<1>10. FlagHasSession'
  BY <1>1, <1>2, <1>3, <1>4 DEF PhysicalLock, FlagHasSession
<1> QED BY <1>5, <1>6, <1>7, <1>8, <1>9, <1>10 DEF LockInv, PhysicalLock

LEMMA LockCreate ==
    ASSUME BaseInv, LockInv, PhysicalLock, NEW d \in Vaults, vault_create(d) \/ create_refused(d)
    PROVE  LockInv' /\ PhysicalLock'
<1> DEFINE n == count + 1
<1>1. /\ process = "on" /\ main = Idle /\ count < MaxSlots
      /\ \A x \in Vaults : x # d => mode'[x] = mode[x]
      /\ mode'[d] \in {mode[d], "open"}
      /\ vaults' = [vaults EXCEPT ![n] = [id |-> d, mounted |-> FALSE]]
      /\ main' = Call("recorded", n, None) \/ (main' = Idle /\ mode' = mode)
      /\ loose' = loose \cup (IF Displaced({n}) = {} THEN {} ELSE Displaced({n}) \cup {d})
      /\ UNCHANGED <<count, bound, thread, process, torn>>
  BY EnterFacts
<1>2. /\ vaults \in [Slots -> RecordType] /\ count \in 0 .. MaxSlots /\ MaxSlots \in Nat
      /\ mode \in [Vaults -> {"none", "sealed", "open"}] /\ bound \subseteq Sessions
  BY TypeFacts, MountAssumption DEF BaseInv
<1>3. /\ n \in Slots /\ ~(n <= count) /\ count \in Nat
      /\ \A i \in 1 .. count : i \in Slots /\ i # n
  BY <1>1, <1>2 DEF Slots
<1>4. /\ \/ main'.at = "recorded" /\ main'.slot = n
         \/ main'.at = "idle" /\ mode' = mode
      /\ main.at = "idle" /\ Extent' = count /\ Extent = count
  BY <1>1, <1>3, CallFacts, IdleFacts DEF Extent
<1>5. /\ vaults'[n].id = d /\ ~vaults'[n].mounted
      /\ \A i \in Slots : i # n => vaults'[i] = vaults[i]
  BY <1>1, <1>2, <1>3
<1>6. \A x \in Vaults : mode'[x] \in {mode[x], "open"} /\ (x # d => mode'[x] = mode[x])
  BY <1>1
<1>7. loose \subseteq loose' /\ (Sound' <=> Sound) /\ \A s : Live(s)' <=> Live(s)
  BY <1>1 DEF Sound, Live
<1>8. ASSUME NEW s \in Sessions, Live(s), thread[s].slot = n
      PROVE  /\ thread[s].of \in loose' /\ d \in loose' /\ Target(s)' = d
             /\ Target(s) \in Vaults => Target(s) \in loose'
  <2>1. thread[s].of \in Displaced({n}) /\ (vaults[n].id \in Vaults => vaults[n].id \in Displaced({n}))
    BY <1>8, DisplacedFacts
  <2> QED BY <1>1, <1>5, <1>8, <2>1 DEF Target
<1>9. ASSUME NEW s \in Sessions, Live(s), thread[s].slot # n
      PROVE  Target(s)' = Target(s) /\ vaults'[thread[s].slot] = vaults[thread[s].slot] /\ thread[s].slot \in Slots
  BY <1>1, <1>5, <1>9 DEF Target, BaseInv, ThreadInv
<1> HIDE DEF n
<1>10. FlagInv'
  BY <1>1, <1>4, <1>5, MountAssumption DEF LockInv, FlagInv
<1>11. PointerInv'
  BY <1>1, <1>7, <1>8, <1>9 DEF LockInv, PointerInv
<1>12. \A s \in Sessions : Tight(s)' => Tight(s) /\ thread[s].slot # n
  BY <1>1, <1>7, <1>8 DEF Tight
<1>13. TightInv'
  BY <1>1, <1>4, <1>7, <1>9, <1>12 DEF LockInv, TightInv, OwnRecord, Tight
<1>14. OffInv'
  BY <1>1 DEF OffInv
<1>15. ASSUME NEW x \in Vaults, x \notin loose', \E s \in Sessions : thread[s].at = "serving" /\ Target(s) = x
       PROVE  \E s \in Sessions : thread'[s].at = "serving" /\ Target(s)' = x
  <2>1. PICK s \in Sessions : thread[s].at = "serving" /\ Target(s) = x
    BY <1>15
  <2>2. Live(s)
    BY <2>1 DEF Live
  <2> QED BY <1>1, <1>8, <1>9, <1>15, <2>1, <2>2
<1>16. OpenHasOwner'
  <2> SUFFICES ASSUME Sound, NEW x \in Vaults, x \notin loose', mode'[x] = "open"
               PROVE  \/ \E s \in Sessions : thread'[s].at = "serving" /\ Target(s)' = x
                      \/ main'.at \in {"recorded", "enrolled"} /\ vaults'[main'.slot].id = x
    BY <1>7 DEF OpenHasOwner
  <2>1. CASE mode[x] # "open"
    BY <1>4, <1>5, <1>6, <2>1
  <2>2. CASE mode[x] = "open"
    <3>1. mode[x] = "open" /\ x \notin loose
      BY <1>7, <2>2
    <3>2. \E s \in Sessions : thread[s].at = "serving" /\ Target(s) = x
      BY <1>4, <3>1 DEF PhysicalLock, OpenHasOwner
    <3> QED BY <1>15, <3>2
  <2> QED BY <2>1, <2>2
<1>18. NotSealedUnderSession'
  <2> SUFFICES ASSUME Sound, NEW s \in bound, thread[s].at = "serving", thread[s].of \notin loose'
               PROVE  mode'[thread[s].of] = "open"
    BY <1>1, <1>7 DEF NotSealedUnderSession
  <2>1. thread[s].of \in Vaults /\ mode[thread[s].of] = "open"
    BY <1>2, <1>7 DEF Live, PhysicalLock, NotSealedUnderSession, BaseInv, ThreadInv
  <2> QED BY <1>6, <2>1
<1>19. FlagHasSession'
  BY <1>1, <1>3, <1>4, <1>5, <1>7 DEF PhysicalLock, FlagHasSession
<1> QED BY <1>10, <1>11, <1>13, <1>14, <1>16, <1>18, <1>19 DEF LockInv, PhysicalLock

LEMMA LockDelete ==
    ASSUME BaseInv, LockInv, PhysicalLock, NEW i \in Slots, vault_delete(i)
    PROVE  LockInv' /\ PhysicalLock'
<1>1. /\ process = "on" /\ main = Idle /\ i \in 1 .. count /\ main' = Call("moved", i, None)
      /\ vaults' = [j \in Slots |-> IF j >= i /\ j < count THEN vaults[j + 1] ELSE vaults[j]]
      /\ loose' = loose \cup Displaced(i .. count)
      /\ UNCHANGED <<count, mode, bound, thread, process, torn>>
  BY DEF vault_delete, disk, Has
<1>2. /\ vaults \in [Slots -> RecordType] /\ count \in 0 .. MaxSlots /\ MaxSlots \in Nat
      /\ loose \subseteq Vaults
  BY TypeFacts, MountAssumption DEF BaseInv
<1>3. /\ main'.at = "moved" /\ main.at = "idle" /\ Extent' = count - 1 /\ Extent = count
  BY <1>1, CallFacts, IdleFacts DEF Extent
<1>4. /\ \A j \in Slots : j \notin i .. count => vaults'[j] = vaults[j]
      /\ \A j \in i .. count : j \in Slots /\ \E k \in i .. count : k \in Slots /\ vaults'[j] = vaults[k]
  <2>1. \A j \in Slots : j \notin i .. count => vaults'[j] = vaults[j]
    BY <1>1, <1>2 DEF Slots
  <2>2. ASSUME NEW j \in i .. count
        PROVE  j \in Slots /\ \E k \in i .. count : k \in Slots /\ vaults'[j] = vaults[k]
    <3>1. j \in Slots /\ j >= i
      BY <1>1, <1>2 DEF Slots
    <3>2. CASE j < count
      <4>1. j + 1 \in i .. count /\ j + 1 \in Slots
        BY <1>1, <1>2, <3>2 DEF Slots
      <4> QED BY <1>1, <3>1, <3>2, <4>1
    <3>3. CASE ~(j < count)
      BY <1>1, <3>1, <3>3
    <3> QED BY <3>2, <3>3
  <2> QED BY <2>1, <2>2
<1>5. loose \subseteq loose' /\ (Sound' <=> Sound) /\ \A s : Live(s)' <=> Live(s)
  BY <1>1 DEF Sound, Live
<1>6. ASSUME NEW s \in Sessions, Live(s), thread[s].slot \in i .. count
      PROVE  /\ thread[s].of \in loose'
             /\ \A j \in i .. count : vaults[j].id \in Vaults => vaults[j].id \in loose'
  BY <1>1, <1>6, DisplacedFacts
<1>7. ASSUME NEW s \in Sessions, Live(s), thread[s].slot \notin i .. count
      PROVE  Target(s)' = Target(s) /\ vaults'[thread[s].slot] = vaults[thread[s].slot] /\ thread[s].slot \in Slots
  BY <1>1, <1>4, <1>7 DEF Target, BaseInv, ThreadInv
<1>8. FlagInv'
  BY <1>3, <1>4 DEF LockInv, FlagInv
<1>9. PointerInv'
  <2> SUFFICES ASSUME Sound, NEW s \in Sessions, Live(s)
               PROVE  \/ Target(s)' = thread[s].of
                      \/ thread[s].of \in loose' /\ Target(s)' \in loose' \cup {None}
    BY <1>1, <1>5 DEF PointerInv
  <2>1. CASE thread[s].slot \notin i .. count
    BY <1>5, <1>7, <2>1 DEF LockInv, PointerInv
  <2>2. CASE thread[s].slot \in i .. count
    <3>1. PICK k \in i .. count : k \in Slots /\ vaults'[thread[s].slot] = vaults[k]
      BY <1>4, <2>2
    <3>2. Target(s)' = vaults[k].id /\ vaults[k].id \in Vaults \cup {None}
      BY <1>1, <1>2, <3>1 DEF Target, RecordType
    <3> QED BY <1>6, <2>2, <3>1, <3>2
  <2> QED BY <2>1, <2>2
<1>10. ASSUME NEW s \in Sessions, Sound, Tight(s)'
       PROVE  Tight(s) /\ thread[s].slot \notin i .. count /\ OwnRecord(s)'
  <2>1. Tight(s) /\ Live(s) /\ thread[s].slot \notin i .. count
    BY <1>1, <1>5, <1>6, <1>10 DEF Tight
  <2>2. thread[s].slot <= count /\ vaults[thread[s].slot].mounted
    BY <1>3, <1>10, <2>1 DEF LockInv, TightInv, OwnRecord
  <2>3. thread[s].slot \in Slots /\ vaults'[thread[s].slot] = vaults[thread[s].slot]
    BY <1>7, <2>1
  <2>4. thread[s].slot <= count - 1
    BY <1>1, <1>2, <2>1, <2>2, <2>3 DEF Slots
  <2> QED BY <1>1, <1>3, <2>1, <2>2, <2>3, <2>4 DEF OwnRecord
<1>11. TightInv'
  BY <1>1, <1>5, <1>10 DEF LockInv, TightInv
<1>12. OffInv'
  BY <1>1 DEF OffInv
<1>13. ASSUME NEW x \in Vaults, x \notin loose', \E s \in Sessions : thread[s].at = "serving" /\ Target(s) = x
       PROVE  \E s \in Sessions : thread'[s].at = "serving" /\ Target(s)' = x
  <2>1. PICK s \in Sessions : thread[s].at = "serving" /\ Target(s) = x
    BY <1>13
  <2>2. Live(s)
    BY <2>1 DEF Live
  <2>3. thread[s].slot \notin i .. count
    BY <1>6, <1>13, <2>1, <2>2 DEF Target
  <2> QED BY <1>1, <1>7, <2>1, <2>2, <2>3
<1>14. OpenHasOwner'
  BY <1>1, <1>3, <1>5, <1>13 DEF PhysicalLock, OpenHasOwner
<1>16. NotSealedUnderSession'
  BY <1>1, <1>5 DEF PhysicalLock, NotSealedUnderSession
<1>17. FlagHasSession'
  <2> SUFFICES ASSUME Sound, NEW j \in 1 .. count, vaults'[j].mounted, vaults'[j].id \notin loose'
               PROVE  \E s \in Sessions : Live(s) /\ thread[s].slot = j
    BY <1>1, <1>5 DEF FlagHasSession
  <2>1. \A k \in 1 .. count : vaults[k].mounted /\ vaults[k].id \notin loose =>
            \E s \in Sessions : Live(s) /\ thread[s].slot = k
    BY <1>3 DEF PhysicalLock, FlagHasSession
  <2>2. CASE j \notin i .. count
    BY <1>2, <1>4, <1>5, <2>1, <2>2 DEF Slots
  <2>3. CASE j \in i .. count
    <3>1. PICK k \in i .. count : k \in Slots /\ vaults'[j] = vaults[k]
      BY <1>4, <2>3
    <3>2. k \in 1 .. count /\ vaults[k].id \in Vaults
      BY <1>1, <1>2, <3>1 DEF LockInv, FlagInv, RecordType
    <3>3. PICK s \in Sessions : Live(s) /\ thread[s].slot = k
      BY <1>5, <2>1, <3>1, <3>2
    <3> QED BY <1>6, <3>1, <3>2, <3>3
  <2> QED BY <2>2, <2>3
<1> QED BY <1>8, <1>9, <1>11, <1>12, <1>14, <1>16, <1>17 DEF LockInv, PhysicalLock

LEMMA LockMount ==
    ASSUME BaseInv, LockInv, PhysicalLock, NEW i \in Slots, NEW s \in Sessions, vault_fuse_mount(i, s)
    PROVE  LockInv' /\ PhysicalLock'
<1> DEFINE w == [at |-> "born", slot |-> i, of |-> vaults[i].id]
<1>1. /\ process = "on" /\ main = Idle /\ i \in 1 .. count /\ vaults[i].id # None /\ ~vaults[i].mounted
      /\ vaults' = [vaults EXCEPT ![i].mounted = TRUE] /\ bound' = bound \cup {s}
      /\ thread' = [thread EXCEPT ![s] = w] /\ main' = Call("confirm", i, s) /\ thread[s] = NoThread
      /\ UNCHANGED <<count, mode, process, loose, torn>>
  BY DEF vault_fuse_mount, Mount, Has, Unused, disk, history
<1>2. /\ vaults \in [Slots -> RecordType] /\ thread \in [Sessions -> ThreadType] /\ bound \subseteq Sessions
      /\ count \in Nat
  BY TypeFacts, MountAssumption DEF BaseInv
<1>3. /\ main'.at = "confirm" /\ main'.slot = i /\ main'.session = s /\ main.at = "idle"
      /\ Extent' = count /\ Extent = count
  BY <1>1, CallFacts, IdleFacts DEF Extent
<1>4. /\ thread'[s].at = "born" /\ thread'[s].slot = i /\ thread'[s].of = vaults[i].id
      /\ \A t \in Sessions : t # s => thread'[t] = thread[t]
  BY <1>1, <1>2
<1>5. ~Live(s) /\ Live(s)' /\ thread[s].at = "none"
  BY <1>1, <1>4 DEF Live, NoThread
<1>6. /\ vaults'[i].mounted /\ \A j \in Slots : vaults'[j].id = vaults[j].id
      /\ \A j \in Slots : j # i => vaults'[j] = vaults[j]
  BY <1>1, <1>2 DEF RecordType
<1>7. Sound' <=> Sound
  BY <1>1 DEF Sound
<1>8. ASSUME NEW t \in Sessions, t # s
      PROVE  /\ Live(t)' <=> Live(t)
             /\ Tight(t)' <=> Tight(t)
             /\ Live(t) => Target(t)' = Target(t) /\ thread[t].slot \in Slots
  BY <1>1, <1>4, <1>6, <1>8 DEF Live, Tight, Target, BaseInv, ThreadInv
<1>9. FlagInv'
  BY <1>1, <1>3, <1>6 DEF LockInv, FlagInv
<1>10. PointerInv'
  <2> SUFFICES ASSUME Sound, NEW t \in Sessions, Live(t)'
               PROVE  \/ Target(t)' = thread'[t].of
                      \/ thread'[t].of \in loose /\ Target(t)' \in loose \cup {None}
    BY <1>1, <1>7 DEF PointerInv
  <2>1. CASE t = s
    BY <1>4, <1>6, <2>1 DEF Target
  <2>2. CASE t # s
    BY <1>4, <1>8, <2>2 DEF LockInv, PointerInv
  <2> QED BY <2>1, <2>2
<1>11. ASSUME Sound, NEW t \in Sessions, t # s, Tight(t)'
       PROVE  OwnRecord(t)' /\ thread'[t].slot # i
  <2>1. Tight(t) /\ thread'[t] = thread[t] /\ thread[t].slot \in Slots
    BY <1>4, <1>8, <1>11 DEF Tight
  <2>2. OwnRecord(t)
    BY <1>11, <2>1 DEF LockInv, TightInv
  <2>3. thread[t].slot # i
    BY <1>1, <2>2 DEF OwnRecord
  <2> QED BY <1>3, <1>6, <2>1, <2>2, <2>3 DEF OwnRecord
<1>12. OwnRecord(s)'
  BY <1>1, <1>2, <1>3, <1>4, <1>6 DEF OwnRecord
<1>13. TightInv'
  <2>1. Sound' => \A t \in Sessions : Tight(t)' => OwnRecord(t)'
    BY <1>7, <1>11, <1>12
  <2>2. ASSUME Sound, NEW t \in Sessions, NEW u \in Sessions, Tight(t)', Tight(u)', thread'[t].slot = thread'[u].slot
        PROVE  t = u
    BY <1>4, <1>8, <1>11, <2>2 DEF LockInv, TightInv
  <2> QED BY <1>7, <2>1, <2>2 DEF TightInv
<1>14. OffInv'
  BY <1>1 DEF OffInv
<1>15. ASSUME NEW t \in Sessions, thread[t].at = "serving"
       PROVE  thread'[t].at = "serving" /\ Target(t)' = Target(t)
  BY <1>4, <1>5, <1>8, <1>15 DEF Live
<1>16. OpenHasOwner'
  BY <1>1, <1>3, <1>7, <1>15 DEF PhysicalLock, OpenHasOwner
<1>17. NotSealedUnderSession'
  BY <1>1, <1>2, <1>4, <1>7 DEF PhysicalLock, NotSealedUnderSession
<1>18. FlagHasSession'
  <2> SUFFICES ASSUME Sound, NEW j \in 1 .. count, vaults'[j].mounted, vaults'[j].id \notin loose
               PROVE  \E t \in Sessions : Live(t)' /\ thread'[t].slot = j
    BY <1>1, <1>7 DEF FlagHasSession
  <2>1. CASE j = i
    BY <1>4, <1>5, <2>1
  <2>2. CASE j # i
    <3>1. vaults'[j] = vaults[j]
      BY <1>1, <2>2
    <3>2. PICK t \in Sessions : Live(t) /\ thread[t].slot = j
      BY <1>3, <3>1 DEF PhysicalLock, FlagHasSession
    <3> QED BY <1>4, <1>5, <1>8, <3>2
  <2> QED BY <2>1, <2>2
<1> QED BY <1>9, <1>10, <1>13, <1>14, <1>16, <1>17, <1>18 DEF LockInv, PhysicalLock

(* The failed mount seals and clears the record of its own session, which  *)
(* is over.                                                                *)
LEMMA LockMountFails ==
    ASSUME BaseInv, CatalogInv, LockInv, PhysicalLock, mount_fails
    PROVE  LockInv' /\ PhysicalLock'
<1> DEFINE i == main.slot
           d == vaults[main.slot].id
<1>1. /\ process = "on" /\ main.at = "join" /\ main' = Idle /\ thread[main.session].at = "done"
      /\ TryChmod(d, "sealed") /\ vaults' = [vaults EXCEPT ![i].mounted = FALSE]
      /\ UNCHANGED <<count, bound, thread, process, torn>>
  BY DEF mount_fails
<1>2. /\ vaults \in [Slots -> RecordType] /\ bound \subseteq Sessions /\ count \in Nat
      /\ \A j \in 1 .. count : j \in Slots
  BY TypeFacts, MountAssumption DEF BaseInv, Slots
<1>3. /\ main'.at = "idle" /\ Extent' = count /\ Extent = count /\ i \in Slots /\ i <= count
      /\ main.session \in Sessions /\ ~Live(main.session)
  BY <1>1, IdleFacts DEF Extent, BaseInv, MainInv, Live
<1>4. /\ ~vaults'[i].mounted /\ \A j \in Slots : vaults'[j].id = vaults[j].id
      /\ \A j \in Slots : j # i => vaults'[j] = vaults[j]
  BY <1>1, <1>2, <1>3 DEF RecordType
<1>5. /\ loose \subseteq loose'
      /\ \A x \in Vaults : x \notin loose' => mode'[x] = IF x = d THEN "sealed" ELSE mode[x]
  BY <1>1, TryChmodFacts
<1>6. /\ Sound' <=> Sound
      /\ \A t \in Sessions : (Live(t)' <=> Live(t)) /\ (Tight(t)' => Tight(t))
      /\ \A t \in Sessions : Live(t) => Target(t)' = Target(t) /\ thread[t].slot \in Slots
  BY <1>1, <1>4, <1>5 DEF Sound, Live, Tight, Target, BaseInv, ThreadInv
<1>7. ASSUME Sound, NEW t \in Sessions, Tight(t)
      PROVE  thread[t].slot # i /\ thread[t].slot \in Slots
  BY <1>1, <1>3, <1>6, <1>7 DEF LockInv, TightInv, OwnRecord, Tight
<1>8. FlagInv'
  BY <1>3, <1>4 DEF LockInv, FlagInv
<1>9. PointerInv'
  BY <1>1, <1>5, <1>6 DEF LockInv, PointerInv
<1>10. TightInv'
  BY <1>1, <1>3, <1>4, <1>6, <1>7 DEF LockInv, TightInv, OwnRecord
<1>11. OffInv'
  BY <1>1 DEF OffInv
<1>12. \A t \in Sessions : thread[t].at = "serving" => Live(t)
  BY DEF Live
<1>13. OpenHasOwner'
  BY <1>1, <1>5, <1>6, <1>12 DEF PhysicalLock, OpenHasOwner
<1>14. NotSealedUnderSession'
  <2> SUFFICES ASSUME Sound, NEW t \in bound, thread[t].at = "serving", thread[t].of \notin loose'
               PROVE  mode'[thread[t].of] = "open"
    BY <1>1, <1>6 DEF NotSealedUnderSession
  <2>1. Tight(t) /\ t \in Sessions /\ thread[t].of \in Vaults /\ mode[thread[t].of] = "open"
    BY <1>2, <1>5 DEF Tight, Live, PhysicalLock, NotSealedUnderSession, BaseInv, ThreadInv
  <2>2. thread[t].of # d
    BY <1>3, <1>7, <2>1, OtherVault
  <2> QED BY <1>5, <2>1, <2>2
<1>15. FlagHasSession'
  BY <1>1, <1>2, <1>4, <1>5, <1>6 DEF PhysicalLock, FlagHasSession
<1> QED BY <1>8, <1>9, <1>10, <1>11, <1>13, <1>14, <1>15 DEF LockInv, PhysicalLock

LEMMA LockOpen ==
    ASSUME BaseInv, LockInv, PhysicalLock, NEW s \in Sessions, loop_open(s)
    PROVE  LockInv' /\ PhysicalLock'
<1> DEFINE d == Target(s)
<1>1. /\ thread[s].at = "born" /\ TryChmod(d, "open") /\ At(s, "serving")
      /\ UNCHANGED <<vaults, count, bound, main, process, torn>>
  BY DEF loop_open, catalog
<1>2. /\ thread'[s].at = "serving" /\ thread'[s].slot = thread[s].slot /\ thread'[s].of = thread[s].of
      /\ \A t \in Sessions : t # s => thread'[t] = thread[t]
  BY <1>1, ThreadMove
<1>3. /\ loose \subseteq loose'
      /\ \A x \in Vaults : x \notin loose' => mode'[x] = IF x = d THEN "open" ELSE mode[x]
  BY <1>1, TryChmodFacts
<1>4. \A t \in Sessions : thread'[t].slot = thread[t].slot /\ thread'[t].of = thread[t].of
  BY <1>2
<1>5. /\ Sound' <=> Sound
      /\ \A t \in Sessions : (Live(t)' <=> Live(t)) /\ (Tight(t)' => Tight(t)) /\ Target(t)' = Target(t)
  BY <1>1, <1>2, <1>3, <1>4 DEF Sound, Live, Tight, Target
<1>6. Extent' = Extent /\ bound \subseteq Sessions /\ process # "off"
  BY <1>1, TypeFacts DEF Extent, BaseInv, ThreadInv, Live
<1>7. FlagInv' /\ OffInv'
  BY <1>1, <1>6 DEF LockInv, FlagInv, OffInv
<1>8. PointerInv'
  BY <1>1, <1>3, <1>4, <1>5 DEF LockInv, PointerInv
<1>9. TightInv'
  BY <1>1, <1>4, <1>5, <1>6 DEF LockInv, TightInv, OwnRecord
<1>10. \A t \in Sessions : thread[t].at = "serving" => thread'[t].at = "serving"
  BY <1>2
<1>11. OpenHasOwner'
  BY <1>1, <1>2, <1>3, <1>5, <1>10 DEF PhysicalLock, OpenHasOwner
<1>13. NotSealedUnderSession'
  <2> SUFFICES ASSUME Sound, NEW t \in bound, thread'[t].at = "serving", thread'[t].of \notin loose'
               PROVE  mode'[thread'[t].of] = "open"
    BY <1>1, <1>5 DEF NotSealedUnderSession
  <2>1. t \in Sessions /\ Live(t) /\ thread[t].of \in Vaults /\ thread'[t].of = thread[t].of
    BY <1>1, <1>4, <1>6 DEF Live, BaseInv, ThreadInv
  <2>2. CASE t = s
    BY <1>3, <2>1, <2>2 DEF LockInv, PointerInv
  <2>3. CASE t # s
    BY <1>2, <1>3, <2>1, <2>3 DEF PhysicalLock, NotSealedUnderSession
  <2> QED BY <2>2, <2>3
<1>14. FlagHasSession'
  BY <1>1, <1>3, <1>4, <1>5 DEF PhysicalLock, FlagHasSession
<1> QED BY <1>7, <1>8, <1>9, <1>11, <1>13, <1>14 DEF LockInv, PhysicalLock

(* A thread never reaches the vault of another thread that is still tight. *)
LEMMA Apart ==
    ASSUME BaseInv, CatalogInv, LockInv, Sound, NEW s \in Sessions, Live(s),
           NEW t \in Sessions, Tight(t), t # s
    PROVE  Target(s) # thread[t].of /\ thread[s].slot # thread[t].slot
<1>1. /\ Live(t) /\ thread[t].of \in Vaults /\ thread[t].of \notin loose /\ Target(t) = thread[t].of
      /\ None \notin Vaults
  BY MountAssumption DEF Tight, LockInv, PointerInv, BaseInv, ThreadInv
<1>2. CASE thread[s].of \in loose
  <2>1. Target(s) \in loose \cup {None}
    BY <1>2 DEF LockInv, PointerInv
  <2> QED BY <1>1, <2>1 DEF Target
<1>3. CASE thread[s].of \notin loose
  <2>1. Tight(s)
    BY <1>3 DEF Tight
  <2>2. thread[s].slot \in Slots /\ thread[s].slot <= Extent /\ thread[s].slot # thread[t].slot
    BY <2>1 DEF LockInv, TightInv, OwnRecord, BaseInv, ThreadInv
  <2> QED BY <2>2, OtherVault DEF Target
<1> QED BY <1>2, <1>3

LEMMA LockLoopSeal ==
    ASSUME BaseInv, CatalogInv, LockInv, PhysicalLock, NEW s \in Sessions, loop_seal(s)
    PROVE  LockInv' /\ PhysicalLock'
<1> DEFINE d == Target(s)
<1>1. /\ thread[s].at = "serving" /\ s \notin bound /\ TryChmod(d, "sealed") /\ At(s, "sealed")
      /\ UNCHANGED <<vaults, count, bound, main, process, torn>>
  BY DEF loop_seal, Unserved, catalog
<1>2. /\ thread'[s].at = "sealed" /\ thread'[s].slot = thread[s].slot /\ thread'[s].of = thread[s].of
      /\ \A t \in Sessions : t # s => thread'[t] = thread[t]
  BY <1>1, ThreadMove
<1>3. \A x \in Vaults : x \notin loose' => mode'[x] = IF x = d THEN "sealed" ELSE mode[x]
  BY <1>1, TryChmodFacts
<1>4. /\ loose \subseteq loose'
      /\ \A t \in Sessions : thread'[t].slot = thread[t].slot /\ thread'[t].of = thread[t].of
  BY <1>1, <1>2, TryChmodFacts
<1>5. /\ Sound' <=> Sound
      /\ \A t \in Sessions : (Live(t)' <=> Live(t)) /\ (Tight(t)' => Tight(t)) /\ Target(t)' = Target(t)
  BY <1>1, <1>2, <1>4 DEF Sound, Live, Tight, Target
<1>6. Extent' = Extent /\ bound \subseteq Sessions /\ process # "off"
  BY <1>1, TypeFacts DEF Extent, BaseInv, ThreadInv, Live
<1>7. FlagInv' /\ OffInv'
  BY <1>1, <1>6 DEF LockInv, FlagInv, OffInv
<1>8. PointerInv'
  BY <1>1, <1>4, <1>5 DEF LockInv, PointerInv
<1>9. TightInv'
  BY <1>1, <1>4, <1>5, <1>6 DEF LockInv, TightInv, OwnRecord
<1>10. \A t \in Sessions : thread[t].at = "serving" /\ Target(t) # d => thread'[t].at = "serving"
  BY <1>2
<1>11. OpenHasOwner'
  BY <1>1, <1>3, <1>4, <1>5, <1>10 DEF PhysicalLock, OpenHasOwner
<1>13. NotSealedUnderSession'
  <2> SUFFICES ASSUME Sound, NEW t \in bound, thread'[t].at = "serving", thread'[t].of \notin loose'
               PROVE  mode'[thread'[t].of] = "open"
    BY <1>1, <1>5 DEF NotSealedUnderSession
  <2>1. t \in Sessions /\ t # s /\ thread'[t] = thread[t]
    BY <1>1, <1>2, <1>6
  <2>2. Live(t) /\ Live(s) /\ Tight(t) /\ thread[t].of \in Vaults
    BY <1>1, <1>4, <2>1 DEF Live, Tight, BaseInv, ThreadInv
  <2>3. mode[thread[t].of] = "open"
    BY <2>1, <2>2 DEF Tight, PhysicalLock, NotSealedUnderSession
  <2>4. thread[t].of # d
    BY <2>1, <2>2, Apart
  <2> QED BY <1>3, <2>1, <2>2, <2>3, <2>4
<1>14. FlagHasSession'
  BY <1>1, <1>4, <1>5 DEF PhysicalLock, FlagHasSession
<1> QED BY <1>7, <1>8, <1>9, <1>11, <1>13, <1>14 DEF LockInv, PhysicalLock

LEMMA LockLoopEnd ==
    ASSUME BaseInv, CatalogInv, LockInv, PhysicalLock, NEW s \in Sessions, loop_end(s)
    PROVE  LockInv' /\ PhysicalLock'
<1> DEFINE i == thread[s].slot
<1>1. /\ thread[s].at = "sealed" /\ vaults' = [vaults EXCEPT ![i].mounted = FALSE]
      /\ thread' = [thread EXCEPT ![s] = Done]
      /\ UNCHANGED <<count, mode, bound, main, process, loose, torn>>
  BY DEF loop_end, Finish, disk, history
<1>2. /\ vaults \in [Slots -> RecordType] /\ thread \in [Sessions -> ThreadType] /\ bound \subseteq Sessions
      /\ \A j \in 1 .. count : j \in Slots
  BY TypeFacts, MountAssumption DEF BaseInv, Slots
<1>3. Live(s) /\ i \in Slots /\ process # "off"
  BY <1>1 DEF Live, BaseInv, ThreadInv
<1>4. /\ thread'[s].at = "done" /\ ~Live(s)' /\ \A t \in Sessions : t # s => thread'[t] = thread[t]
  BY <1>1, <1>2 DEF Done, NoThread, Live
<1>5. /\ ~vaults'[i].mounted /\ \A j \in Slots : vaults'[j].id = vaults[j].id
      /\ \A j \in Slots : j # i => vaults'[j] = vaults[j]
  BY <1>1, <1>2, <1>3 DEF RecordType
<1>6. /\ Sound' <=> Sound
      /\ Extent' = Extent
  BY <1>1 DEF Sound, Extent
<1>7. ASSUME NEW t \in Sessions, t # s
      PROVE  /\ Live(t)' <=> Live(t)
             /\ Tight(t)' <=> Tight(t)
             /\ Live(t) => Target(t)' = Target(t) /\ thread[t].slot \in Slots
  BY <1>1, <1>4, <1>5, <1>7 DEF Live, Tight, Target, BaseInv, ThreadInv
<1>8. \A t \in Sessions : (Live(t)' => t # s) /\ (thread[t].at = "serving" => t # s /\ Live(t))
  BY <1>1, <1>4 DEF Live
<1>9. FlagInv'
  BY <1>1, <1>5 DEF LockInv, FlagInv, BaseInv, MainInv
<1>10. PointerInv'
  BY <1>1, <1>4, <1>6, <1>7, <1>8 DEF LockInv, PointerInv
<1>11. ASSUME Sound, NEW t \in Sessions, Tight(t)'
       PROVE  t # s /\ Tight(t) /\ thread'[t] = thread[t] /\ OwnRecord(t)'
  <2>1. t # s /\ Tight(t) /\ thread'[t] = thread[t] /\ thread[t].slot \in Slots
    BY <1>4, <1>7, <1>8, <1>11 DEF Tight
  <2>2. thread[t].slot # i
    BY <1>3, <1>11, <2>1, Apart
  <2> QED BY <1>1, <1>5, <1>6, <1>11, <2>1, <2>2 DEF LockInv, TightInv, OwnRecord
<1>12. TightInv'
  BY <1>6, <1>11 DEF LockInv, TightInv
<1>13. OffInv'
  BY <1>1 DEF LockInv, OffInv
<1>14. \A t \in Sessions : thread[t].at = "serving" => thread'[t].at = "serving" /\ Target(t)' = Target(t)
  BY <1>4, <1>7, <1>8
<1>15. OpenHasOwner'
  <2>1. main.at \in {"recorded", "enrolled"} => vaults'[main.slot].id = vaults[main.slot].id
    BY <1>5 DEF BaseInv, MainInv
  <2> QED BY <1>1, <1>6, <1>14, <2>1 DEF PhysicalLock, OpenHasOwner
<1>17. NotSealedUnderSession'
  <2>1. \A t \in bound : t # s /\ thread'[t] = thread[t]
    BY <1>1, <1>2, <1>4 DEF BaseInv, ThreadInv
  <2> QED BY <1>1, <1>6, <2>1 DEF PhysicalLock, NotSealedUnderSession
<1>18. FlagHasSession'
  <2> SUFFICES ASSUME Sound, NEW j \in 1 .. count, vaults'[j].mounted, vaults'[j].id \notin loose
               PROVE  \/ \E t \in Sessions : Live(t)' /\ thread'[t].slot = j
                      \/ main.at = "join" /\ main.slot = j
    BY <1>1, <1>6 DEF FlagHasSession
  <2>1. j # i /\ vaults'[j] = vaults[j]
    BY <1>2, <1>5
  <2>2. \/ \E t \in Sessions : Live(t) /\ thread[t].slot = j
        \/ main.at = "join" /\ main.slot = j
    BY <2>1 DEF PhysicalLock, FlagHasSession
  <2> QED BY <1>4, <1>7, <2>1, <2>2
<1> QED BY <1>9, <1>10, <1>12, <1>13, <1>15, <1>17, <1>18 DEF LockInv, PhysicalLock

LEMMA LockStep ==
    BaseInv /\ CatalogInv /\ LockInv /\ PhysicalLock /\ [Next]_vars => LockInv' /\ PhysicalLock'
<1> SUFFICES ASSUME BaseInv, CatalogInv, LockInv, PhysicalLock, [Next]_vars
             PROVE  LockInv' /\ PhysicalLock'
  OBVIOUS
<1>1. CASE create_step
  BY <1>1, LockAbandoned, LockCount, LockSeal DEF create_step
<1>2. CASE mount_step
  BY <1>2, LockUnmount, LockMountFails DEF mount_step
<1>3. ASSUME NEW s \in Sessions, vault_fuse_loop(s)
      PROVE  LockInv' /\ PhysicalLock'
  BY <1>3, LockOpen, LockLoopSeal, LockLoopEnd DEF vault_fuse_loop
<1> QED
  BY <1>1, <1>2, <1>3, LockEnd, LockLoad, LockCreate, LockDelete, LockDeleteStep, LockUnmount, LockMount DEF Next

-----------------------------------------------------------------------------
(* Types: every pointer of a FUSE thread is inside the array, also after a *)
(* Ctrl-C wiped it under the thread; every session in the kernel has a     *)
(* live thread.                                                            *)
THEOREM TypeCorrect == Spec => []TypeOK
<1>1. BaseInv => TypeOK
  BY DEF BaseInv
<1> QED BY <1>1, BaseInit, BaseStep, PTL DEF Spec

(* The saves of vault_create, vault_delete, vault_ffi_shutdown and of the  *)
(* Ctrl-C handler, any of which may fail: catalog.dat loses a vault only   *)
(* to vault_delete or to a save after the wipe, and never lists one twice. *)
THEOREM CatalogKept == Spec => VaultsKept
<1>1. BaseInv /\ CatalogInv /\ [Next]_vars => BaseInv' /\ CatalogInv'
  BY BaseStep, CatalogStep
<1>2. BaseInv /\ CatalogInv /\ [Next]_vars => [KeepsVaults]_vars
  BY CatalogStep
<1> QED BY <1>1, <1>2, BaseInit, CatalogInit, PTL DEF Spec, VaultsKept

(* The invariant is inductive, for any vaults and any number of sessions.  *)
THEOREM InvariantHolds == Spec => []IInv
<1>1. Init => IInv
  BY BaseInit, CatalogInit, LockInit DEF IInv
<1>2. IInv /\ [Next]_vars => IInv'
  BY BaseStep, CatalogStep, LockStep DEF IInv
<1> QED BY <1>1, <1>2, PTL DEF Spec

(* vault_fuse_loop follows its pointer into g_catalog.vaults with no lock: *)
(* as long as no delete or create replaced the record, it reaches the      *)
(* vault the session was mounted for.                                      *)
THEOREM ServesOwn == Spec => []ServesOwnVault
<1>1. IInv => ServesOwnVault
  BY DEF IInv, LockInv, PointerInv, ServesOwnVault
<1> QED BY <1>1, InvariantHolds, PTL

(* vault_fuse_loop, vault_create and the failed mount open and seal the    *)
(* directories: what is open has a session, a session finds its directory  *)
(* open, and no flag outlives it, in every interleaving; a directory whose *)
(* chmod failed is named in loose.                                         *)
THEOREM LockHolds == Spec => []PhysicalLock
<1>1. IInv => PhysicalLock
  BY DEF IInv
<1> QED BY <1>1, InvariantHolds, PTL
=============================================================================
