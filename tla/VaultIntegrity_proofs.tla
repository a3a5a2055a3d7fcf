----------------------- MODULE VaultIntegrity_proofs -----------------------
(***************************************************************************)
(* Proofs about VaultIntegrity, for every set of files and contents, every *)
(* schedule of reminders and any number of changes.                        *)
(***************************************************************************)
EXTENDS VaultIntegrity, TLAPS, WellFoundedInduction

(* An entry seen in this second is up to date unless its file changed in   *)
(* the same second.                                                        *)
SeenIsCurrent(r) ==
    \A f \in File \ recent :
        r.entry[f] # NoEntry /\ r.entry[f].fresh => r.entry[f].hash = disk[f]

(* A changed file has its alert.                                           *)
Standing(r) ==
    \A f \in Tracked(r) :
        (r.entry[f].modified \/ r.entry[f].hash # r.entry[f].base) => r.status # "OK"

(* A record a process may hold or find in the file.                        *)
GoodRecord(r) ==
    /\ r \in Record
    /\ Standing(r)
    /\ SeenIsCurrent(r)
    /\ r.status = "ALERT" => r.alert.raised

(* What has been raised in memory is on record, and a closed directory     *)
(* was raised before it was closed, unless a save or a chmod failed.       *)
OnRecord ==
    /\ mem.alert.raised => saved.alert.raised \/ lapse
    /\ dir = "0000" => mem.alert.raised \/ lapse

(* The thread lives in a privileged process, so its scan can always open   *)
(* the directory; a process that has just started has seen nothing.        *)
Threads ==
    /\ monitor # "none" => up /\ root
    /\ ~up => unseen = File

(* The inductive invariant.                                                *)
IInv ==
    /\ TypeOK
    /\ GoodRecord(mem) /\ GoodRecord(saved)
    /\ OnRecord
    /\ Threads
    /\ ScanMissesNothing

-----------------------------------------------------------------------------
(* The schedule of reminders.                                              *)

(* Every nonempty set of naturals has a least element.                     *)
LEMMA LeastNat ==
    ASSUME NEW T \in SUBSET Nat, T # {}
    PROVE  \E x \in T : \A y \in T : x =< y
<1>1. PICK x \in T : \A y \in T : ~(<<y, x>> \in OpToRel(<, Nat))
  BY NatLessThanWellFounded, WFMin, Zenon
<1>2. \A y \in T : ~(y < x)
  BY <1>1 DEF OpToRel
<1> QED BY <1>2

(* Finitely many naturals have a largest one: otherwise take the shortest  *)
(* prefix that has none.                                                   *)
LEMMA LargestOf ==
    ASSUME NEW N \in Nat, N >= 1, NEW A \in [1 .. N -> Nat]
    PROVE  \E m \in 1 .. N : \A i \in 1 .. N : A[i] =< A[m]
<1> DEFINE Bound(n, m) == \A i \in 1 .. n : A[i] =< A[m]
           Bad == {n \in 1 .. N : ~ \E m \in 1 .. n : Bound(n, m)}
<1>1. ASSUME Bad # {} PROVE FALSE
  <2>0. Bad \in SUBSET Nat
    OBVIOUS
  <2>1. PICK n \in Bad : \A k \in Bad : n =< k
    <3> HIDE DEF Bad
    <3> QED BY LeastNat, <1>1, <2>0
  <2>2. n \in Nat /\ 1 =< n /\ n =< N
    OBVIOUS
  <2>3. CASE n = 1
    <3>1. Bound(1, 1)
      BY <2>2
    <3> QED BY <2>1, <2>3, <3>1
  <2>4. CASE n # 1
    <3>1. n - 1 \in 1 .. N /\ ~(n =< n - 1)
      BY <2>2, <2>4
    <3>2. n - 1 \notin Bad
      BY <2>1, <3>1
    <3>3. PICK m \in 1 .. (n - 1) : Bound(n - 1, m)
      BY <3>1, <3>2
    <3>4 m \in 1 .. n /\ n \in 1 .. n /\ A[m] \in Nat /\ A[n] \in Nat
      BY <2>2, <3>3
    <3>5. \A i \in 1 .. n : A[i] \in Nat /\ (i = n \/ i \in 1 .. (n - 1))
      BY <2>2
    <3>6. Bound(n, m) \/ Bound(n, n)
      <4>1. CASE A[n] =< A[m]
        BY <3>3, <3>5, <4>1
      <4>2. CASE A[m] =< A[n]
        <5>1. \A i \in 1 .. (n - 1) : A[i] =< A[n]
          BY <2>2, <3>3, <3>4, <3>5, <4>2
        <5> QED BY <3>4, <3>5, <5>1
      <4> QED BY <3>4, <4>1, <4>2
    <3> QED BY <2>1, <3>4, <3>6
  <2> QED BY <2>3, <2>4
<1>2. Bad = {}
  <2> HIDE DEF Bad
  <2> QED BY <1>1
<1>3. N \in 1 .. N
  OBVIOUS
<1> QED BY <1>2, <1>3

(* The longest interval exists.                                            *)
LEMMA LongestExists == LongestInterval \in Nat
<1> DEFINE S == {ALERT_INTERVALS[i] : i \in DOMAIN ALERT_INTERVALS}
<1>1. /\ Len(ALERT_INTERVALS) \in Nat /\ Len(ALERT_INTERVALS) >= 1
      /\ ALERT_INTERVALS \in [1 .. Len(ALERT_INTERVALS) -> Nat]
  BY IntegrityAssumption
<1>2. PICK m \in 1 .. Len(ALERT_INTERVALS) :
          \A i \in 1 .. Len(ALERT_INTERVALS) : ALERT_INTERVALS[i] =< ALERT_INTERVALS[m]
  BY <1>1, LargestOf
<1>3. S \subseteq Nat /\ ALERT_INTERVALS[m] \in S /\ \A y \in S : ALERT_INTERVALS[m] >= y
  BY <1>1, <1>2
<1>4. Max(S) \in S
  BY <1>3 DEF Max
<1> QED BY <1>3, <1>4 DEF LongestInterval
-----------------------------------------------------------------------------
(* Records.                                                                *)

(* No entry is mistaken for a missing one.                                 *)
LEMMA EntryIsThere == NoEntry \notin Entry
BY IntegrityAssumption DEF NoEntry, Entry

(* What the file loop of a scan stores.                                    *)
LEMMA HashedFacts ==
    ASSUME NEW e \in Entry \cup {NoEntry}, NEW c \in Content
    PROVE  /\ Hashed(e, c) \in Entry
           /\ Hashed(e, c) # NoEntry
           /\ Hashed(e, c).hash = c /\ Hashed(e, c).fresh
           /\ Hashed(e, c).modified <=> (e # NoEntry /\ c # e.hash)
           /\ Hashed(e, c).base = IF e = NoEntry THEN c ELSE e.base
<1>1. Hashed(e, c) \in Entry
  BY DEF Hashed, Entry
<1> QED BY <1>1, EntryIsThere DEF Hashed

(* The file loop touches the entries of the files it read, and no others.  *)
LEMMA RehashedFacts ==
    ASSUME NEW r \in Record, NEW S, S \subseteq Present
    PROVE  /\ Rehashed(r, S) \in Record
           /\ Rehashed(r, S).status = r.status /\ Rehashed(r, S).alert = r.alert
           /\ \A f \in File : Rehashed(r, S).entry[f] =
                  IF f \in S THEN Hashed(r.entry[f], disk[f]) ELSE r.entry[f]
<1> DEFINE E == [f \in File |-> IF f \in S THEN Hashed(r.entry[f], disk[f]) ELSE r.entry[f]]
<1>1. Rehashed(r, S) = [r EXCEPT !.entry = E]
  BY DEF Rehashed
<1>2. \A f \in File : r.entry[f] \in Entry \cup {NoEntry}
  BY DEF Record
<1>3. \A f \in S : f \in File /\ disk[f] \in Content
  BY DEF Present
<1>4. \A f \in File : E[f] \in Entry \cup {NoEntry}
  BY <1>2, <1>3, HashedFacts
<1>5. E \in [File -> Entry \cup {NoEntry}]
  BY <1>4
<1>6. \A f \in File : E[f] = IF f \in S THEN Hashed(r.entry[f], disk[f]) ELSE r.entry[f]
  OBVIOUS
<1> HIDE DEF E
<1> QED BY <1>1, <1>5, <1>6 DEF Record

(* The second loop sets a flag and nothing else.                           *)
LEMMA FlaggedFacts ==
    ASSUME NEW r \in Record, NEW S, S \subseteq Tracked(r)
    PROVE  /\ Flagged(r, S) \in Record
           /\ Flagged(r, S).status = r.status /\ Flagged(r, S).alert = r.alert
           /\ \A f \in File \ S : Flagged(r, S).entry[f] = r.entry[f]
           /\ \A f \in S : /\ Flagged(r, S).entry[f] \in Entry
                           /\ Flagged(r, S).entry[f].modified
                           /\ Flagged(r, S).entry[f].hash = r.entry[f].hash
                           /\ Flagged(r, S).entry[f].base = r.entry[f].base
                           /\ Flagged(r, S).entry[f].fresh = r.entry[f].fresh
<1> DEFINE E == [f \in File |-> IF f \in S THEN [r.entry[f] EXCEPT !.modified = TRUE]
                               ELSE r.entry[f]]
<1>1. Flagged(r, S) = [r EXCEPT !.entry = E]
  BY DEF Flagged
<1>2. \A f \in S : f \in File /\ r.entry[f] \in Entry
  BY DEF Record, Tracked
<1>3. \A f \in File : r.entry[f] \in Entry \cup {NoEntry}
  BY DEF Record
<1>4. \A f \in S : /\ E[f] \in Entry /\ E[f].modified
                  /\ E[f].hash = r.entry[f].hash /\ E[f].base = r.entry[f].base
                  /\ E[f].fresh = r.entry[f].fresh
  BY <1>2 DEF Entry
<1>5. \A f \in File \ S : E[f] = r.entry[f]
  OBVIOUS
<1>6. E \in [File -> Entry \cup {NoEntry}]
  BY <1>3, <1>4, <1>5
<1> HIDE DEF E
<1> QED BY <1>1, <1>4, <1>5, <1>6 DEF Record

(* alert_trigger raises the alert and leaves the entries alone.            *)
LEMMA TriggerFacts ==
    ASSUME NEW r \in Record
    PROVE  /\ alert_trigger(r) \in Record
           /\ alert_trigger(r).status = "ALERT" /\ alert_trigger(r).alert.raised
           /\ alert_trigger(r).entry = r.entry
<1> DEFINE a == IF r.alert.raised THEN r.alert
                ELSE [r.alert EXCEPT !.raised = TRUE, !.interval_idx = 1]
<1>1. 1 \in 1 .. Len(ALERT_INTERVALS)
  BY IntegrityAssumption
<1>2. r.alert \in Alert
  BY DEF Record
<1>3. a \in Alert /\ a.raised
  BY <1>1, <1>2 DEF Alert
<1>4. alert_trigger(r) = [r EXCEPT !.status = "ALERT", !.alert = a]
  BY DEF alert_trigger
<1> HIDE DEF a
<1> QED BY <1>3, <1>4 DEF Record
(* The entries after a scan, and its alert.                                *)
LEMMA ScannedFacts ==
    ASSUME TypeOK
    PROVE  /\ Scanned \in Record
           /\ \A f \in Present : Scanned.entry[f] = Hashed(mem.entry[f], disk[f])
           /\ \A f \in File \ Present :
                  \/ Scanned.entry[f] = NoEntry /\ mem.entry[f] = NoEntry
                  \/ /\ mem.entry[f] # NoEntry /\ mem.entry[f].fresh
                     /\ Scanned.entry[f] = mem.entry[f]
                  \/ /\ mem.entry[f] # NoEntry /\ ~mem.entry[f].fresh
                     /\ Scanned.entry[f] # NoEntry /\ Scanned.entry[f].modified
                     /\ Scanned.entry[f].hash = mem.entry[f].hash
                     /\ Scanned.entry[f].base = mem.entry[f].base
                     /\ ~Scanned.entry[f].fresh
                     /\ f \in NewlyMissing \/ mem.entry[f].modified
           /\ IF NewlyModified \cup NewlyMissing = {}
              THEN Scanned.status = mem.status /\ Scanned.alert = mem.alert
              ELSE Scanned.status = "ALERT" /\ Scanned.alert.raised
<1> DEFINE read == Rehashed(mem, Present)
           lost == Missing(read)
           flagged == Flagged(read, lost)
<1>1. mem \in Record /\ Present \subseteq File
  BY DEF TypeOK, Present
<1>2. /\ read \in Record /\ read.status = mem.status /\ read.alert = mem.alert
      /\ \A f \in File : read.entry[f] =
             IF f \in Present THEN Hashed(mem.entry[f], disk[f]) ELSE mem.entry[f]
  BY <1>1, RehashedFacts
<1>3. \A f \in Present : read.entry[f].fresh
  <2> TAKE f \in Present
  <2>1. mem.entry[f] \in Entry \cup {NoEntry} /\ disk[f] \in Content
    BY <1>1 DEF Record, Present
  <2> QED BY <1>1, <1>2, <2>1, HashedFacts
<1>4. NewlyMissing = {f \in lost : ~mem.entry[f].modified}
  BY DEF NewlyMissing
<1> HIDE DEF read
<1>5. lost = {f \in File \ Present : mem.entry[f] # NoEntry /\ ~mem.entry[f].fresh}
  BY <1>2, <1>3 DEF Missing, Tracked
<1>6. lost \subseteq Tracked(read)
  BY DEF Missing
<1>7. Scanned = Alerted(flagged)
  BY DEF Scanned, read
<1> HIDE DEF lost
<1>8. /\ flagged \in Record /\ flagged.status = mem.status /\ flagged.alert = mem.alert
      /\ \A f \in File \ lost : flagged.entry[f] = read.entry[f]
      /\ \A f \in lost : /\ flagged.entry[f] \in Entry /\ flagged.entry[f].modified
                         /\ flagged.entry[f].hash = read.entry[f].hash
                         /\ flagged.entry[f].base = read.entry[f].base
                         /\ flagged.entry[f].fresh = read.entry[f].fresh
  BY <1>2, <1>6, FlaggedFacts
<1> HIDE DEF flagged
<1>9. /\ Scanned \in Record /\ Scanned.entry = flagged.entry
      /\ IF NewlyModified \cup NewlyMissing = {}
         THEN Scanned.status = mem.status /\ Scanned.alert = mem.alert
         ELSE Scanned.status = "ALERT" /\ Scanned.alert.raised
  BY <1>7, <1>8, TriggerFacts DEF Alerted
<1>10. \A f \in Present : Scanned.entry[f] = Hashed(mem.entry[f], disk[f])
  BY <1>1, <1>2, <1>5, <1>8, <1>9
<1>11. \A f \in File \ Present : f \notin lost => Scanned.entry[f] = mem.entry[f]
  BY <1>2, <1>8, <1>9
<1>12. \A f \in File \ Present : f \in lost =>
          /\ Scanned.entry[f] # NoEntry /\ Scanned.entry[f].modified
          /\ Scanned.entry[f].hash = mem.entry[f].hash
          /\ Scanned.entry[f].base = mem.entry[f].base
          /\ Scanned.entry[f].fresh = mem.entry[f].fresh
  BY <1>2, <1>8, <1>9, EntryIsThere
<1> QED BY <1>4, <1>5, <1>9, <1>10, <1>11, <1>12

(* A scan keeps the record good.                                           *)
LEMMA ScannedGood ==
    ASSUME TypeOK, GoodRecord(mem)
    PROVE  GoodRecord(Scanned)
<1>1. \A f \in File : mem.entry[f] \in Entry \cup {NoEntry}
  BY DEF TypeOK, Record
<1>2. \A f \in Present : f \in File /\ disk[f] \in Content
  BY DEF Present
<1>3. Standing(Scanned)
  <2> SUFFICES ASSUME NEW f \in Tracked(Scanned), Scanned.status = "OK"
               PROVE  ~Scanned.entry[f].modified /\ Scanned.entry[f].hash = Scanned.entry[f].base
    BY DEF Standing
  <2>1. f \in File /\ NewlyModified = {} /\ NewlyMissing = {} /\ mem.status = "OK"
    BY ScannedFacts DEF Tracked
  <2>2. mem.entry[f] # NoEntry => ~mem.entry[f].modified /\ mem.entry[f].hash = mem.entry[f].base
    BY <2>1 DEF GoodRecord, Standing, Tracked
  <2>3. CASE f \in Present
    <3>1. Scanned.entry[f] = Hashed(mem.entry[f], disk[f])
      BY <2>3, ScannedFacts
    <3>2. mem.entry[f] # NoEntry => disk[f] = mem.entry[f].hash
      BY <2>1, <2>2, <2>3 DEF NewlyModified, Tracked
    <3>3. disk[f] \in Content
      BY <1>2, <2>3
    <3> DEFINE h == Hashed(mem.entry[f], disk[f])
    <3>4. /\ h.hash = disk[f]
          /\ h.modified <=> (mem.entry[f] # NoEntry /\ disk[f] # mem.entry[f].hash)
          /\ h.base = IF mem.entry[f] = NoEntry THEN disk[f] ELSE mem.entry[f].base
      BY <1>1, <2>1, <3>3, HashedFacts
    <3> HIDE DEF h
    <3>5. ~h.modified /\ h.hash = h.base
      BY <2>2, <3>2, <3>4
    <3> QED BY <3>1, <3>5 DEF h
  <2>4. CASE f \notin Present
    BY <2>1, <2>2, <2>4, ScannedFacts DEF Tracked
  <2> QED BY <2>3, <2>4
<1>4. SeenIsCurrent(Scanned)
  <2> SUFFICES ASSUME NEW f \in File \ recent, Scanned.entry[f] # NoEntry, Scanned.entry[f].fresh
               PROVE  Scanned.entry[f].hash = disk[f]
    BY DEF SeenIsCurrent
  <2>1. CASE f \in Present
    <3>1. Hashed(mem.entry[f], disk[f]).hash = disk[f]
      BY <1>1, <1>2, <2>1, HashedFacts
    <3> QED BY <2>1, <3>1, ScannedFacts
  <2>2. CASE f \notin Present
    BY <2>2, ScannedFacts DEF GoodRecord, SeenIsCurrent
  <2> QED BY <2>1, <2>2
<1>5. Scanned.status = "ALERT" => Scanned.alert.raised
  BY ScannedFacts DEF GoodRecord
<1> QED BY <1>3, <1>4, <1>5, ScannedFacts DEF GoodRecord

(* What alert_trigger saves in the middle of a scan is a good record of    *)
(* the alert, whatever the scan had read by then.                          *)
LEMMA MidScanGood ==
    ASSUME TypeOK, GoodRecord(mem), NEW r \in SavedMidScan
    PROVE  GoodRecord(r) /\ r.alert.raised
<1> DEFINE read == Rehashed(mem, Present)
<1>1. ASSUME NEW S \in SUBSET Missing(read), r = alert_trigger(Flagged(read, S))
      PROVE  GoodRecord(r) /\ r.alert.raised
  <2>1. /\ read \in Record
        /\ \A f \in File : read.entry[f] =
               IF f \in Present THEN Hashed(mem.entry[f], disk[f]) ELSE mem.entry[f]
    BY RehashedFacts DEF GoodRecord
  <2>2. S \subseteq Tracked(read)
    BY DEF Missing
  <2> HIDE DEF read
  <2> DEFINE flagged == Flagged(read, S)
  <2>3. /\ flagged \in Record
        /\ \A f \in File \ S : flagged.entry[f] = read.entry[f]
        /\ \A f \in S : flagged.entry[f].fresh = read.entry[f].fresh
    BY <2>1, <2>2, FlaggedFacts
  <2>4. \A f \in S : ~read.entry[f].fresh
    BY DEF Missing
  <2> HIDE DEF flagged
  <2>5. r \in Record /\ r.status = "ALERT" /\ r.alert.raised /\ r.entry = flagged.entry
    BY <1>1, <2>3, TriggerFacts DEF flagged
  <2>6. SeenIsCurrent(r)
    <3> SUFFICES ASSUME NEW f \in File \ recent, r.entry[f] # NoEntry, r.entry[f].fresh
                 PROVE  r.entry[f].hash = disk[f]
      BY DEF SeenIsCurrent
    <3>1. f \notin S /\ r.entry[f] = read.entry[f]
      BY <2>3, <2>4, <2>5
    <3>2. CASE f \in Present
      <4>1. mem.entry[f] \in Entry \cup {NoEntry} /\ disk[f] \in Content
        BY <3>2 DEF GoodRecord, Record, Present
      <4>2. r.entry[f] = Hashed(mem.entry[f], disk[f])
        BY <2>1, <3>1, <3>2
      <4> QED BY <4>1, <4>2, HashedFacts
    <3>3. CASE f \notin Present
      BY <2>1, <3>1, <3>3 DEF GoodRecord, SeenIsCurrent
    <3> QED BY <3>2, <3>3
  <2> QED BY <2>5, <2>6 DEF GoodRecord, Standing
<1>2. ASSUME NEW g \in NewlyModified, NEW later \in SUBSET (Present \ {g}),
             r = alert_trigger(Flagged(Rehashed(mem, Present \ ({g} \cup later)), {g}))
      PROVE  GoodRecord(r) /\ r.alert.raised
  <2> DEFINE S == Present \ ({g} \cup later)
             part == Rehashed(mem, S)
             flagged == Flagged(part, {g})
  <2>2. S \subseteq Present /\ g \notin S /\ g \in File /\ mem.entry[g] # NoEntry
    BY DEF NewlyModified, Present, Tracked
  <2> HIDE DEF S
  <2>3. /\ part \in Record
        /\ \A f \in File : part.entry[f] =
               IF f \in S THEN Hashed(mem.entry[f], disk[f]) ELSE mem.entry[f]
    BY <2>2, RehashedFacts DEF GoodRecord
  <2> HIDE DEF part
  <2>4. {g} \subseteq Tracked(part)
    BY <2>2, <2>3 DEF Tracked
  <2>5. /\ flagged \in Record
        /\ \A f \in File \ {g} : flagged.entry[f] = part.entry[f]
        /\ flagged.entry[g].hash = part.entry[g].hash
        /\ flagged.entry[g].fresh = part.entry[g].fresh
    BY <2>3, <2>4, FlaggedFacts
  <2>6. r = alert_trigger(flagged)
    BY <1>2 DEF part, S
  <2> HIDE DEF flagged
  <2>7. r \in Record /\ r.status = "ALERT" /\ r.alert.raised /\ r.entry = flagged.entry
    BY <2>5, <2>6, TriggerFacts
  <2>8. SeenIsCurrent(r)
    <3> SUFFICES ASSUME NEW f \in File \ recent, r.entry[f] # NoEntry, r.entry[f].fresh
                 PROVE  r.entry[f].hash = disk[f]
      BY DEF SeenIsCurrent
    <3>1. CASE f \in S
      <4>1. mem.entry[f] \in Entry \cup {NoEntry} /\ disk[f] \in Content
        BY <2>2, <3>1 DEF GoodRecord, Record, Present
      <4>2. r.entry[f] = Hashed(mem.entry[f], disk[f])
        BY <2>2, <2>3, <2>5, <2>7, <3>1
      <4> QED BY <4>1, <4>2, HashedFacts
    <3>2. CASE f \notin S
      BY <2>2, <2>3, <2>5, <2>7, <3>2 DEF GoodRecord, SeenIsCurrent
    <3> QED BY <3>1, <3>2
  <2> QED BY <2>7, <2>8 DEF GoodRecord, Standing
<1>3. \/ \E g \in NewlyModified : \E later \in SUBSET (Present \ {g}) :
             r = alert_trigger(Flagged(Rehashed(mem, Present \ ({g} \cup later)), {g}))
      \/ \E S \in SUBSET Missing(read) : r = alert_trigger(Flagged(read, S))
  <2> DEFINE A == UNION {{alert_trigger(Flagged(Rehashed(mem, Present \ ({g} \cup later)), {g})) :
                              later \in SUBSET (Present \ {g})} : g \in NewlyModified}
             P == {S \in SUBSET Missing(read) : S \cap NewlyMissing # {}}
             B == {alert_trigger(Flagged(read, S)) : S \in P}
  <2>1. r \in A \/ r \in B
    BY DEF SavedMidScan
  <2>2. CASE r \in A
    BY <2>2
  <2>3. CASE r \in B
    BY <2>3
  <2> QED BY <2>1, <2>2, <2>3
<1> QED BY <1>1, <1>2, <1>3

(* Min of two integers.                                                    *)
LEMMA MinOfTwo ==
    ASSUME NEW a \in Int, NEW b \in Int
    PROVE  Min({a, b}) \in {a, b} /\ Min({a, b}) =< a /\ Min({a, b}) =< b
<1>1. \E x \in {a, b} : \A y \in {a, b} : x =< y
  <2>1. CASE a =< b
    BY <2>1
  <2>2. CASE b =< a
    BY <2>2
  <2> QED BY <2>1, <2>2
<1> QED BY <1>1 DEF Min

(* A reminder stays within the schedule.                                   *)
LEMMA EscalatedFacts ==
    ASSUME NEW a \in Alert
    PROVE  Escalated(a) \in Alert /\ Escalated(a).raised = a.raised
<1> DEFINE i == Min({a.interval_idx + 1, Len(ALERT_INTERVALS)})
<1>1. Len(ALERT_INTERVALS) \in Nat /\ Len(ALERT_INTERVALS) >= 1
  BY IntegrityAssumption
<1>2. a.interval_idx \in Int /\ a.interval_idx >= 1 /\ a.interval_idx + 1 \in Int
  BY <1>1 DEF Alert
<1>3. i \in {a.interval_idx + 1, Len(ALERT_INTERVALS)} /\ i =< Len(ALERT_INTERVALS)
  <2>1. \A x, y \in Int : Min({x, y}) \in {x, y} /\ Min({x, y}) =< y
    BY MinOfTwo
  <2>2. Len(ALERT_INTERVALS) \in Int
    BY <1>1
  <2> QED BY <1>2, <2>1, <2>2
<1> HIDE DEF i
<1>4. i \in 1 .. Len(ALERT_INTERVALS)
  BY <1>1, <1>2, <1>3
<1>5. 0 \in Never .. LongestInterval
  BY LongestExists DEF Never
<1>6. Escalated(a) = [a EXCEPT !.age = 0, !.interval_idx = i]
  BY DEF Escalated, i
<1> QED BY <1>4, <1>5, <1>6 DEF Alert

(* A second later nothing has been seen in the current second, and nothing *)
(* else has changed but the age of the reminder.                           *)
LEMMA AgedFacts ==
    ASSUME NEW r \in Record
    PROVE  /\ Aged(r) \in Record
           /\ Aged(r).status = r.status /\ Aged(r).alert.raised = r.alert.raised
           /\ \A f \in File :
                  /\ Aged(r).entry[f] = NoEntry <=> r.entry[f] = NoEntry
                  /\ r.entry[f] # NoEntry =>
                         /\ Aged(r).entry[f].hash = r.entry[f].hash
                         /\ Aged(r).entry[f].base = r.entry[f].base
                         /\ Aged(r).entry[f].modified = r.entry[f].modified
                         /\ ~Aged(r).entry[f].fresh
<1> DEFINE n == IF r.alert.age = Never THEN r.alert.age
                ELSE Min({r.alert.age + 1, LongestInterval})
           a == [r.alert EXCEPT !.age = n]
           E == [f \in File |-> IF r.entry[f] = NoEntry THEN r.entry[f]
                               ELSE [r.entry[f] EXCEPT !.fresh = FALSE]]
<1>1. r.alert \in Alert /\ r.entry \in [File -> Entry \cup {NoEntry}]
  BY DEF Record
<1>2. n \in Never .. LongestInterval
  <2>1. r.alert.age \in Int /\ r.alert.age >= -1 /\ r.alert.age =< LongestInterval
    BY <1>1, LongestExists DEF Alert, Never
  <2>2. CASE r.alert.age = Never
    BY <2>1, <2>2, LongestExists DEF Never
  <2>3. CASE r.alert.age # Never
    <3>1. n \in {r.alert.age + 1, LongestInterval} /\ n =< LongestInterval
      <4>1. \A x, y \in Int : Min({x, y}) \in {x, y} /\ Min({x, y}) =< y
        BY MinOfTwo
      <4>2. r.alert.age + 1 \in Int /\ LongestInterval \in Int
        BY <2>1, LongestExists
      <4>3. n = Min({r.alert.age + 1, LongestInterval})
        BY <2>3
      <4> QED BY <4>1, <4>2, <4>3
    <3> HIDE DEF n
    <3> QED BY <2>1, <2>3, <3>1, LongestExists DEF Never
  <2> QED BY <2>2, <2>3
<1>3. Aged(r) = [r EXCEPT !.alert = a, !.entry = E]
  BY <1>1 DEF Aged, Record, Alert
<1> HIDE DEF n
<1>4. a \in Alert /\ a.raised = r.alert.raised
  BY <1>1, <1>2 DEF Alert
<1>5. \A f \in File : /\ r.entry[f] = NoEntry => E[f] = NoEntry
                      /\ r.entry[f] # NoEntry =>
                             /\ E[f] \in Entry
                             /\ E[f].hash = r.entry[f].hash /\ E[f].base = r.entry[f].base
                             /\ E[f].modified = r.entry[f].modified /\ ~E[f].fresh
  BY <1>1 DEF Entry
<1>6. E \in [File -> Entry \cup {NoEntry}]
  BY <1>5
<1> HIDE DEF a, E
<1>7. /\ Aged(r) \in Record /\ Aged(r).status = r.status
      /\ Aged(r).alert = a /\ Aged(r).entry = E
  BY <1>3, <1>4, <1>6 DEF Record
<1> QED BY <1>4, <1>5, <1>7, EntryIsThere

(* A resolution accepts every entry.                                       *)
LEMMA AcceptedFacts ==
    ASSUME NEW e \in Entry \cup {NoEntry}
    PROVE  /\ Accepted(e) \in Entry \cup {NoEntry}
           /\ Accepted(e) = NoEntry <=> e = NoEntry
           /\ e # NoEntry => /\ ~Accepted(e).modified
                            /\ Accepted(e).hash = e.hash /\ Accepted(e).base = e.hash
                            /\ Accepted(e).fresh = e.fresh
<1>1. CASE e = NoEntry
  BY <1>1 DEF Accepted
<1>2. CASE e # NoEntry
  <2>1. /\ Accepted(e) \in Entry /\ ~Accepted(e).modified
        /\ Accepted(e).hash = e.hash /\ Accepted(e).base = e.hash
        /\ Accepted(e).fresh = e.fresh
    BY <1>2 DEF Accepted, Entry
  <2> QED BY <1>2, <2>1, EntryIsThere
<1> QED BY <1>1, <1>2
-----------------------------------------------------------------------------
(* The steps.                                                              *)

(* A good record stays good where no file changes and no second passes.    *)
LEMMA GoodMoves ==
    ASSUME NEW r, GoodRecord(r), UNCHANGED <<disk, recent>>
    PROVE  /\ mem' = r => GoodRecord(mem)'
           /\ saved' = r => GoodRecord(saved)'
BY DEF GoodRecord, Standing, SeenIsCurrent, Tracked

(* After a scan of an open directory only what changed in this second is   *)
(* unseen.                                                                 *)
LEMMA ScanSees ==
    ASSUME TypeOK, GoodRecord(mem), mem' = Scanned, unseen' = recent, UNCHANGED disk
    PROVE  ScanMissesNothing'
<1> SUFFICES ASSUME NEW f \in File \ recent
             PROVE  IF disk[f] = Gone
                    THEN Scanned.entry[f] = NoEntry \/ Scanned.entry[f].modified
                    ELSE Scanned.entry[f] # NoEntry /\ Scanned.entry[f].hash = disk[f]
  BY DEF ScanMissesNothing
<1>1. mem.entry[f] \in Entry \cup {NoEntry} /\ disk[f] \in Content \cup {Gone}
  BY DEF TypeOK, Record
<1>2. CASE disk[f] = Gone
  <2>1. f \notin Present
    BY <1>2, IntegrityAssumption DEF Present, Gone
  <2>2. mem.entry[f] # NoEntry /\ mem.entry[f].fresh => mem.entry[f].hash = Gone
    BY <1>2 DEF GoodRecord, SeenIsCurrent
  <2>3. ~(mem.entry[f] # NoEntry /\ mem.entry[f].fresh)
    BY <1>1, <2>2, IntegrityAssumption DEF Entry, Gone
  <2> QED BY <1>2, <2>1, <2>3, ScannedFacts
<1>3. CASE disk[f] # Gone
  <2>1. f \in Present /\ disk[f] \in Content
    BY <1>1, <1>3 DEF Present
  <2>2. Hashed(mem.entry[f], disk[f]) # NoEntry /\ Hashed(mem.entry[f], disk[f]).hash = disk[f]
    BY <1>1, <2>1, HashedFacts
  <2> QED BY <1>3, <2>1, <2>2, ScannedFacts
<1> QED BY <1>2, <1>3

(* A save that succeeds or fails leaves the alert on record, or the        *)
(* failure noted.                                                          *)
LEMMA SaveFacts ==
    ASSUME TypeOK, OnRecord, NEW r \in Record, Save(r)
    PROVE  /\ saved' \in {r, saved} /\ lapse' \in BOOLEAN
           /\ r.alert.raised => saved'.alert.raised \/ lapse'
           /\ lapse => lapse' \/ (r.alert.raised /\ saved'.alert.raised)
<1>1. r.alert.raised \in BOOLEAN /\ saved.alert.raised \in BOOLEAN
  BY DEF TypeOK, Record, Alert
<1> QED BY <1>1 DEF Save, TypeOK

(* Saving the record of the alert that is in memory keeps it on record.    *)
LEMMA SaveKeeps ==
    ASSUME TypeOK, OnRecord, NEW r \in Record, Save(r), UNCHANGED dir,
           mem.alert.raised => mem'.alert.raised, r.alert.raised = mem'.alert.raised
    PROVE  OnRecord' /\ saved' \in {r, saved} /\ lapse' \in BOOLEAN
<1>1. /\ saved' \in {r, saved} /\ lapse' \in BOOLEAN
      /\ r.alert.raised => saved'.alert.raised \/ lapse'
      /\ lapse => lapse' \/ (r.alert.raised /\ saved'.alert.raised)
  BY SaveFacts
<1> QED BY <1>1 DEF OnRecord

(* The end of a process: the next one knows what is on record and has seen *)
(* nothing.                                                                *)
LEMMA EndedGood ==
    ASSUME IInv, Ended, GoodRecord(saved)', lapse' \in BOOLEAN,
           dir = "0000" => saved'.alert.raised \/ lapse'
    PROVE  IInv'
<1>1. UNCHANGED <<disk, dir, recent, changes>> /\ mem' = saved' /\ ~up' /\ unseen' = File
      /\ root' = FALSE /\ up' = FALSE /\ monitor' = "none" /\ denied' = FALSE
  BY DEF Ended
<1>2. GoodRecord(mem)' /\ saved' \in Record /\ mem' \in Record
  BY <1>1 DEF GoodRecord, Standing, SeenIsCurrent, Tracked
<1>3. TypeOK'
  BY <1>1, <1>2 DEF IInv, TypeOK
<1>4. OnRecord' /\ Threads' /\ ScanMissesNothing'
  BY <1>1 DEF OnRecord, Threads, ScanMissesNothing
<1> QED BY <1>2, <1>3, <1>4 DEF IInv

(* Every step keeps the invariant.                                         *)
LEMMA StepHolds == IInv /\ [Next]_vars => IInv'
<1> SUFFICES ASSUME IInv, [Next]_vars PROVE IInv'
  OBVIOUS
<1>0. TypeOK /\ GoodRecord(mem) /\ GoodRecord(saved) /\ mem \in Record /\ saved \in Record
  BY DEF IInv, TypeOK
<1>1. CASE UNCHANGED vars
  BY <1>1 DEF vars, IInv, TypeOK, GoodRecord, Standing, SeenIsCurrent, Tracked, OnRecord,
              Threads, ScanMissesNothing
<1>2. CASE monitor_starts
  <2>1. CanOpen
    BY <1>2 DEF monitor_starts, CanOpen, IInv, Threads
  <2>2. /\ UNCHANGED <<disk, dir, up, root, recent, changes>> /\ mem' = Scanned
        /\ unseen' = recent /\ monitor' = "running" /\ monitor # "none" /\ denied' = FALSE
        /\ IF NewlyModified \cup NewlyMissing = {} THEN UNCHANGED <<saved, lapse>> ELSE SaveAlerts
    BY <1>2, <2>1 DEF monitor_starts, Looked
  <2>3. GoodRecord(Scanned)
    BY <1>0, ScannedGood
  <2>4. GoodRecord(saved') /\ OnRecord' /\ lapse' \in BOOLEAN
    <3>1. CASE NewlyModified \cup NewlyMissing = {}
      BY <1>0, <2>2, <3>1, ScannedFacts DEF IInv, OnRecord, TypeOK
    <3>2. CASE NewlyModified \cup NewlyMissing # {}
      <4>1. PICK r \in SavedMidScan : Save(r)
        BY <2>2, <3>2 DEF SaveAlerts
      <4>2. GoodRecord(r) /\ r.alert.raised /\ mem'.alert.raised
        BY <1>0, <2>2, <3>2, MidScanGood, ScannedFacts
      <4>3. r \in Record /\ mem' \in Record
        BY <2>2, <2>3, <4>2 DEF GoodRecord
      <4>4. r.alert.raised = mem'.alert.raised
        BY <4>2, <4>3 DEF Record, Alert
      <4>5. OnRecord' /\ saved' \in {r, saved} /\ lapse' \in BOOLEAN
        BY <1>0, <2>2, <4>1, <4>2, <4>3, <4>4, SaveKeeps DEF IInv
      <4> QED BY <1>0, <4>2, <4>5
    <3> QED BY <3>1, <3>2
  <2>5. GoodRecord(mem)' /\ GoodRecord(saved)' /\ mem' \in Record /\ saved' \in Record
    BY <2>2, <2>3, <2>4, GoodMoves DEF GoodRecord
  <2>6. TypeOK' /\ Threads'
    BY <2>2, <2>4, <2>5 DEF IInv, TypeOK, Threads
  <2>7. ScanMissesNothing'
    BY <1>0, <2>2, ScanSees
  <2> QED BY <2>4, <2>5, <2>6, <2>7 DEF IInv
<1>3. CASE alert_check_escalation
  <2>1. PICK a \in Alert : mem' = [mem EXCEPT !.alert = a] /\ a.raised = mem.alert.raised
    <3>1. mem.alert \in Alert
      BY <1>0 DEF Record
    <3>2. CASE first_reminder
      <4>1. 0 \in Never .. LongestInterval
        BY LongestExists DEF Never
      <4>2. [mem.alert EXCEPT !.age = 0] \in Alert /\ [mem.alert EXCEPT !.age = 0].raised = mem.alert.raised
        BY <3>1, <4>1 DEF Alert
      <4>3. mem' = [mem EXCEPT !.alert = [mem.alert EXCEPT !.age = 0]]
        BY <3>2 DEF first_reminder
      <4> QED BY <4>2, <4>3
    <3>3. CASE next_reminder
      BY <3>1, <3>3, EscalatedFacts DEF next_reminder
    <3> QED BY <1>3, <3>2, <3>3 DEF alert_check_escalation
  <2>2. /\ mem' \in Record /\ mem'.status = mem.status /\ mem'.entry = mem.entry
        /\ mem'.alert.raised = mem.alert.raised
    BY <1>0, <2>1 DEF Record
  <2>3. /\ UNCHANGED <<disk, saved, up, root, monitor, recent, unseen, changes, lapse>>
        /\ mem.alert.raised /\ dir' \in {"0700", "0000"} /\ denied' \in BOOLEAN
    BY <1>3 DEF alert_check_escalation, first_reminder, next_reminder, IInv, GoodRecord, TypeOK
  <2>4. GoodRecord(mem)' /\ GoodRecord(saved)'
    BY <1>0, <2>2, <2>3 DEF GoodRecord, Standing, SeenIsCurrent, Tracked
  <2>5. TypeOK' /\ OnRecord' /\ Threads' /\ ScanMissesNothing'
    BY <2>2, <2>3 DEF IInv, TypeOK, OnRecord, Threads, ScanMissesNothing
  <2> QED BY <2>4, <2>5 DEF IInv
<1>4. CASE vault_scan_ffi
  <2>1. /\ up /\ denied' = FALSE /\ UNCHANGED <<disk, dir, up, root, monitor, recent, changes>>
        /\ IF CanOpen THEN mem' = Scanned /\ unseen' = recent ELSE mem' = mem /\ unseen' = unseen
    BY <1>4 DEF vault_scan_ffi, Looked
  <2>2. GoodRecord(mem') /\ (mem.alert.raised => mem'.alert.raised)
    BY <1>0, <2>1, ScannedGood, ScannedFacts
  <2>3. PICK r : Save(r) /\ GoodRecord(r) /\ r.alert.raised = mem'.alert.raised
    <3>1. CASE Save(mem')
      BY <2>2, <3>1
    <3>2. CASE CanOpen /\ NewlyModified \cup NewlyMissing # {} /\ SaveAlerts
      <4>1. PICK r \in SavedMidScan : Save(r)
        BY <3>2 DEF SaveAlerts
      <4>2. GoodRecord(r) /\ r.alert.raised /\ mem'.alert.raised
        BY <1>0, <2>1, <3>2, MidScanGood, ScannedFacts
      <4>3. r.alert.raised = mem'.alert.raised
        BY <2>2, <4>2 DEF GoodRecord, Record, Alert
      <4> QED BY <4>1, <4>2, <4>3
    <3> QED BY <1>4, <3>1, <3>2 DEF vault_scan_ffi
  <2>4. r \in Record
    BY <2>3 DEF GoodRecord
  <2>5. OnRecord' /\ saved' \in {r, saved} /\ lapse' \in BOOLEAN
    BY <1>0, <2>1, <2>2, <2>3, <2>4, SaveKeeps DEF IInv
  <2>6. GoodRecord(mem)' /\ GoodRecord(saved)' /\ mem' \in Record /\ saved' \in Record
    <3>1. GoodRecord(saved')
      BY <1>0, <2>3, <2>5
    <3> QED BY <2>1, <2>2, <3>1, GoodMoves DEF GoodRecord
  <2>7. ScanMissesNothing'
    <3>1. CASE CanOpen
      BY <1>0, <2>1, <3>1, ScanSees
    <3>2. CASE ~CanOpen
      BY <2>1, <3>2 DEF IInv, ScanMissesNothing
    <3> QED BY <3>1, <3>2
  <2>8. TypeOK' /\ Threads'
    BY <2>1, <2>5, <2>6 DEF IInv, TypeOK, Threads
  <2> QED BY <2>5, <2>6, <2>7, <2>8 DEF IInv
<1>5. CASE scan_killed
  <2>1. SaveAlerts /\ Ended /\ UNCHANGED <<disk, recent>>
    BY <1>5 DEF scan_killed, Ended
  <2>2. PICK r \in SavedMidScan : Save(r)
    BY <2>1 DEF SaveAlerts
  <2>3. GoodRecord(r) /\ r.alert.raised /\ r \in Record
    BY <1>0, MidScanGood DEF GoodRecord
  <2>4. saved' \in {r, saved} /\ lapse' \in BOOLEAN /\ (saved'.alert.raised \/ lapse')
    BY <1>0, <2>2, <2>3, SaveFacts DEF IInv
  <2>5. GoodRecord(saved)'
    BY <1>0, <2>1, <2>3, <2>4, GoodMoves
  <2> QED BY <2>1, <2>4, <2>5, EndedGood
<1>6. CASE alert_resolve
  <2> DEFINE E == [f \in File |-> Accepted(mem.entry[f])]
  <2>1. /\ up /\ mem' = [status |-> "OK", alert |-> Quiet, entry |-> E]
        /\ saved' \in {mem', saved} /\ dir' \in {"0700", dir}
        /\ lapse' = (dir' = "0000") /\ denied' = FALSE
        /\ unseen' = unseen \cup {f \in Tracked(mem) : mem.entry[f].modified}
        /\ UNCHANGED <<disk, up, root, monitor, recent, changes>>
    BY <1>6 DEF alert_resolve, Resolved
  <2>2. \A f \in File :
           /\ E[f] \in Entry \cup {NoEntry} /\ (E[f] = NoEntry <=> mem.entry[f] = NoEntry)
           /\ mem.entry[f] # NoEntry => /\ ~E[f].modified /\ E[f].hash = mem.entry[f].hash
                                       /\ E[f].base = mem.entry[f].hash /\ E[f].fresh = mem.entry[f].fresh
    BY <1>0, AcceptedFacts DEF Record
  <2>3. E \in [File -> Entry \cup {NoEntry}]
    BY <2>2
  <2> HIDE DEF E
  <2>4. Quiet \in Alert
    BY IntegrityAssumption, LongestExists DEF Quiet, Alert, Never
  <2>5. mem' \in Record /\ mem'.status = "OK" /\ mem'.entry = E /\ ~mem'.alert.raised
    BY <2>1, <2>3, <2>4 DEF Record, Quiet
  <2>6. GoodRecord(mem)'
    BY <1>0, <2>1, <2>2, <2>5 DEF GoodRecord, Standing, SeenIsCurrent, Tracked
  <2>7. GoodRecord(saved)' /\ saved' \in Record
    <3>1. CASE saved' = mem'
      BY <2>1, <2>6, <3>1 DEF GoodRecord, Standing, SeenIsCurrent, Tracked
    <3>2. CASE saved' = saved
      BY <1>0, <2>1, <3>2, GoodMoves
    <3> QED BY <2>1, <3>1, <3>2
  <2>8. TypeOK' /\ OnRecord' /\ Threads'
    BY <2>1, <2>5, <2>7 DEF IInv, TypeOK, OnRecord, Threads, Tracked
  <2>9. ScanMissesNothing'
    BY <2>1, <2>2, <2>5 DEF IInv, ScanMissesNothing, Tracked
  <2> QED BY <2>6, <2>7, <2>8, <2>9 DEF IInv
<1>7. CASE auth_verify_password
  <2>1. /\ mem' = [mem EXCEPT !.status = "LOCKED"] /\ Save(mem') /\ denied' = FALSE
        /\ UNCHANGED <<disk, dir, up, root, monitor, recent, unseen, changes>>
    BY <1>7 DEF auth_verify_password
  <2>2. mem' \in Record /\ mem'.status = "LOCKED" /\ mem'.entry = mem.entry /\ mem'.alert = mem.alert
    BY <1>0, <2>1 DEF Record
  <2>3. OnRecord' /\ saved' \in {mem', saved} /\ lapse' \in BOOLEAN
    <3>1. PICK m \in Record : m = mem' /\ Save(m) /\ m.alert = mem.alert
      BY <2>1, <2>2
    <3>2. m.alert.raised = mem'.alert.raised /\ (mem.alert.raised => mem'.alert.raised)
      BY <3>1
    <3>3. OnRecord' /\ saved' \in {m, saved} /\ lapse' \in BOOLEAN
      BY <1>0, <2>1, <3>1, <3>2, SaveKeeps DEF IInv
    <3> QED BY <3>1, <3>3
  <2>4. GoodRecord(mem)' /\ GoodRecord(saved)'
    <3>1. GoodRecord(mem)' /\ GoodRecord(mem')
      BY <1>0, <2>1, <2>2 DEF GoodRecord, Standing, SeenIsCurrent, Tracked
    <3>2. GoodRecord(saved')
      BY <1>0, <2>3, <3>1
    <3> QED BY <2>1, <3>1, <3>2, GoodMoves
  <2>5. TypeOK' /\ Threads' /\ ScanMissesNothing'
    BY <2>1, <2>2, <2>3 DEF IInv, TypeOK, Threads, ScanMissesNothing
  <2> QED BY <2>3, <2>4, <2>5 DEF IInv
<1>8. CASE engine_validate
  <2>1. /\ mem' = alert_trigger(mem) /\ Save(mem') /\ denied' = FALSE
        /\ UNCHANGED <<disk, dir, up, root, monitor, recent, unseen, changes>>
    BY <1>8 DEF engine_validate
  <2>2. mem' \in Record /\ mem'.status = "ALERT" /\ mem'.entry = mem.entry /\ mem'.alert.raised
    BY <1>0, <2>1, TriggerFacts
  <2>3. OnRecord' /\ saved' \in {mem', saved} /\ lapse' \in BOOLEAN
    BY <1>0, <2>1, <2>2, SaveKeeps DEF IInv
  <2>4. GoodRecord(mem)' /\ GoodRecord(saved)'
    BY <1>0, <2>1, <2>2, <2>3 DEF GoodRecord, Standing, SeenIsCurrent, Tracked
  <2>5. TypeOK' /\ Threads' /\ ScanMissesNothing'
    BY <2>1, <2>2, <2>3 DEF IInv, TypeOK, Threads, ScanMissesNothing
  <2> QED BY <2>3, <2>4, <2>5 DEF IInv
<1>9. ASSUME NEW r \in BOOLEAN, vault_ffi_init(r) PROVE IInv'
  <2>1. /\ ~up /\ up' = TRUE /\ root' = r /\ monitor' \in {"none", "starting"}
        /\ monitor' # "none" => r
        /\ denied' = FALSE /\ UNCHANGED <<disk, dir, mem, saved, recent, unseen, changes, lapse>>
    BY <1>9 DEF vault_ffi_init
  <2>2. GoodRecord(mem)' /\ GoodRecord(saved)'
    BY <1>0, <2>1, GoodMoves
  <2>3. TypeOK' /\ OnRecord' /\ Threads' /\ ScanMissesNothing'
    BY <2>1 DEF IInv, TypeOK, OnRecord, Threads, ScanMissesNothing
  <2> QED BY <2>2, <2>3 DEF IInv
<1>10. CASE vault_ffi_shutdown \/ Crash
  <2>1. Ended /\ UNCHANGED <<disk, recent>> /\ (Save(mem) \/ UNCHANGED <<saved, lapse>>)
    BY <1>10 DEF vault_ffi_shutdown, Crash, Ended
  <2>2. /\ saved' \in {mem, saved} /\ lapse' \in BOOLEAN
        /\ dir = "0000" => saved'.alert.raised \/ lapse'
    <3>1. CASE Save(mem)
      BY <1>0, <3>1, SaveFacts DEF IInv, OnRecord
    <3>2. CASE UNCHANGED <<saved, lapse>>
      BY <1>0, <3>2 DEF IInv, OnRecord, TypeOK
    <3> QED BY <2>1, <3>1, <3>2
  <2>3. GoodRecord(saved)'
    BY <1>0, <2>1, <2>2, GoodMoves
  <2> QED BY <2>1, <2>2, <2>3, EndedGood
<1>11. ASSUME NEW f \in File, NEW c \in Content \cup {Gone}, Change(f, c) PROVE IInv'
  <2>1. /\ disk' = [disk EXCEPT ![f] = c] /\ recent' = recent \cup {f} /\ unseen' = unseen \cup {f}
        /\ changes < MaxChanges /\ changes' = changes + 1
        /\ denied' = FALSE /\ UNCHANGED <<dir, mem, saved, up, root, monitor, lapse>>
    BY <1>11 DEF Change
  <2>2. GoodRecord(mem)' /\ GoodRecord(saved)'
    BY <1>0, <2>1 DEF GoodRecord, Standing, SeenIsCurrent, Tracked, TypeOK
  <2>3. TypeOK'
    <3>1. MaxChanges \in Nat
      BY IntegrityAssumption
    <3>2. disk' \in [File -> Content \cup {Gone}]
      BY <2>1 DEF IInv, TypeOK
    <3>3. changes' \in 0..MaxChanges
      BY <2>1, <3>1 DEF IInv, TypeOK
    <3> QED BY <2>1, <3>2, <3>3 DEF IInv, TypeOK
  <2>4. OnRecord' /\ Threads' /\ ScanMissesNothing'
    BY <2>1 DEF IInv, TypeOK, OnRecord, Threads, ScanMissesNothing
  <2> QED BY <2>2, <2>3, <2>4 DEF IInv
<1>12. CASE Tick
  <2>1. /\ mem' = Aged(mem) /\ saved' = Aged(saved) /\ recent' = {}
        /\ denied' = FALSE /\ UNCHANGED <<disk, dir, up, root, monitor, unseen, changes, lapse>>
    BY <1>12 DEF Tick
  <2>2. ASSUME NEW r \in Record, GoodRecord(r)
        PROVE  /\ mem' = Aged(r) => GoodRecord(mem)'
               /\ saved' = Aged(r) => GoodRecord(saved)'
    <3>1. Standing(Aged(r)) /\ \A f \in File : Aged(r).entry[f] # NoEntry => ~Aged(r).entry[f].fresh
      BY <2>2, AgedFacts DEF GoodRecord, Standing, Tracked
    <3>2. Aged(r) \in Record /\ (Aged(r).status = "ALERT" => Aged(r).alert.raised)
      BY <2>2, AgedFacts DEF GoodRecord
    <3> QED BY <3>1, <3>2 DEF GoodRecord, Standing, Tracked, SeenIsCurrent
  <2>3. GoodRecord(mem)' /\ GoodRecord(saved)' /\ mem' \in Record /\ saved' \in Record
    BY <1>0, <2>1, <2>2, AgedFacts
  <2>4. TypeOK' /\ OnRecord' /\ Threads'
    BY <1>0, <2>1, <2>3, AgedFacts DEF IInv, TypeOK, OnRecord, Threads
  <2>5. ScanMissesNothing'
    BY <1>0, <2>1, AgedFacts DEF IInv, ScanMissesNothing
  <2> QED BY <2>3, <2>4, <2>5 DEF IInv
<1> QED BY <1>1, <1>2, <1>3, <1>4, <1>5, <1>6, <1>7, <1>8, <1>9, <1>10, <1>11, <1>12 DEF Next
(* Initially nothing is tracked and no alert is raised.                    *)
LEMMA InitHolds == Init => IInv
<1> SUFFICES ASSUME Init PROVE IInv
  OBVIOUS
<1>1. Quiet \in Alert
  BY IntegrityAssumption, LongestExists DEF Quiet, Alert, Never
<1>2. mem \in Record /\ saved = mem /\ mem.status = "OK" /\ \A f \in File : mem.entry[f] = NoEntry
  BY <1>1 DEF Init, Record
<1>3. GoodRecord(mem) /\ GoodRecord(saved)
  BY <1>2 DEF GoodRecord, Standing, SeenIsCurrent, Tracked
<1>4. TypeOK
  <2>1. /\ disk \in [File -> Content \cup {Gone}] /\ dir = "0700" /\ changes = 0
        /\ recent = {} /\ unseen = File /\ lapse = FALSE /\ denied = FALSE
        /\ up = FALSE /\ root = FALSE /\ monitor = "none"
    BY IntegrityAssumption DEF Init, Gone
  <2>2. 0 \in 0 .. MaxChanges
    BY IntegrityAssumption
  <2> QED BY <1>2, <2>1, <2>2 DEF TypeOK
<1> QED BY <1>2, <1>3, <1>4 DEF IInv, Init, OnRecord, Threads, ScanMissesNothing

(* The inductive invariant holds throughout.                               *)
THEOREM InvariantHolds == Spec => []IInv
BY InitHolds, StepHolds, PTL DEF Spec

(* The escalation index of an alert never leaves ALERT_INTERVALS and the   *)
(* records in memory and in the file stay well formed.                     *)
THEOREM TypeCorrect == Spec => []TypeOK
BY InvariantHolds, PTL DEF IInv

(* The monitor never forgets a modified or missing file before the owner   *)
(* accepts it, in memory or in catalog.dat, however scans, crashes in the  *)
(* middle of them, restarts and lockouts interleave.                       *)
THEOREM MonitorNeverForgets == Spec => []AlertStands
<1>1. IInv => AlertStands
  BY DEF IInv, AlertStands, GoodRecord, Standing
<1> QED BY <1>1, InvariantHolds, PTL

(* After a scan every file that did not change in its second is on record  *)
(* as it is, and a tracked file that is gone is flagged.                   *)
THEOREM ScanIsComplete == Spec => []ScanMissesNothing
BY InvariantHolds, PTL DEF IInv

(* A directory closed by the escalation has its alert in catalog.dat,      *)
(* although the escalation saves nothing and nobody looks at the result of *)
(* alert_trigger's save, unless the alert's own save or a resolution's     *)
(* chmod failed: crashes, restarts, other saves and scans cut short never  *)
(* lose it.                                                                *)
THEOREM ClosedHasAlert == Spec => []ClosedIsOnRecord
<1>1. IInv => ClosedIsOnRecord
  BY DEF IInv, ClosedIsOnRecord, OnRecord
<1> QED BY <1>1, InvariantHolds, PTL
=============================================================================
