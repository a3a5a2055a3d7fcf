------------------------ MODULE VaultSnapshots_proofs ------------------------
(***************************************************************************)
(* Proofs about VaultSnapshots, for any files, contents, tags and depth:   *)
(* snapshots are immutable, a restore never removes what it has not        *)
(* staged and reports the truth, and a repair heals.                       *)
(***************************************************************************)
EXTENDS VaultSnapshots, TLAPS, SequenceTheorems

Value == Contents \cup {Absent, Torn}
Level == [Files -> Value]
Tree == Seq(Level)

JobType ==
    [op : Calls \cup {"idle"}, tag : Tags \cup {NoSnap}, todo : SUBSET (Nat \X Files), kept : BOOLEAN]
ResultType ==
    [op : Calls \cup {"idle", "restore"}, tag : Tags \cup {NoSnap}, ok : BOOLEAN, kept : BOOLEAN]

(* One call is under way at a time, and it has not reported yet.           *)
TypeInv ==
    /\ dir \in Tree /\ Len(dir) >= 1
    /\ snaps \in [Tags -> Tree \cup {NoSnap}]
    /\ acked \in [Tags -> Tree \cup {NoSnap}]
    /\ before \in Level
    /\ job \in JobType
    /\ result \in ResultType
    /\ job.op # "idle" => job.tag \in Tags /\ result.op = "idle"

(* The files of tree have been copied to the levels of to from m + 1 on,   *)
(* but for those still to do.                                              *)
Copied(tree, to, m) ==
    /\ tree \in Tree
    /\ job.todo \subseteq Entries(tree)
    /\ \A k \in 1 .. Len(tree) : \A f \in Files :
          <<k, f>> \notin job.todo => to[k + m][f] = tree[k][f]

(* vault_snapshot_create: the snapshot is not acknowledged yet.            *)
CreateInv ==
    job.op = "create" =>
        /\ acked[job.tag] = NoSnap
        /\ snaps[job.tag] \in Tree /\ Len(snaps[job.tag]) = Len(dir)
        /\ Copied(dir, snaps[job.tag], 0)

(* vault_snapshot_restore stages next to the vault's files.                *)
StageInv ==
    job.op = "stage" =>
        /\ snaps[job.tag] \in Tree /\ Len(dir) = Len(snaps[job.tag]) + 1
        /\ dir[1] = before /\ ~job.kept
        /\ Copied(snaps[job.tag], dir, 1)

(* It clears what is not going to be replaced, ...                         *)
ClearInv ==
    job.op = "clear" =>
        /\ job.todo \subseteq {1} \X Files
        /\ ~job.kept => \A f \in Files : <<1, f>> \notin job.todo => dir[1][f] = Absent

(* ... with the snapshot in the stage, ...                                 *)
StagedInv ==
    job.op \in {"clear", "move"} /\ Clean(job.tag) =>
        Len(dir) = 2 /\ dir[2] = acked[job.tag][1]

(* ... and moves that into place.                                          *)
MoveInv ==
    job.op = "move" =>
        /\ job.todo \subseteq (1 .. Len(dir) - 1) \X Files
        /\ Clean(job.tag) /\ ~job.kept =>
              \A f \in Files : <<1, f>> \notin job.todo => dir[1][f] = dir[2][f]

(* File e of tree is in the vault with its length.                         *)
Healed(tree, e) ==
    Target(e) # Absent /\ SizeOf(Target(e)) = SizeOf(tree[e[1]][e[2]])

RepairInv ==
    job.op = "repair" =>
        /\ snaps[job.tag] \in Tree /\ Len(dir) >= Len(snaps[job.tag])
        /\ job.todo \subseteq Entries(snaps[job.tag])
        /\ \A e \in Entries(snaps[job.tag]) \ job.todo : Healed(snaps[job.tag], e)

JobInv == CreateInv /\ StageInv /\ ClearInv /\ StagedInv /\ MoveInv /\ RepairInv

(* The inductive invariant.                                                *)
IInv == TypeInv /\ SnapshotKept /\ JobInv /\ RestoreReport /\ RepairHeals
-----------------------------------------------------------------------------
(* Trees.                                                                  *)

LEMMA SegmentIsTree ==
    ASSUME NEW n \in Nat, NEW g \in [1 .. n -> Level]
    PROVE  g \in Tree /\ Len(g) = n
<1>1. g \in Seq(Level)
  BY SeqDef
<1> QED BY <1>1, LenProperties DEF Tree

LEMMA TreeFacts ==
    ASSUME NEW s \in Tree
    PROVE  /\ Len(s) \in Nat /\ DOMAIN s = 1 .. Len(s)
           /\ \A k \in 1 .. Len(s) : s[k] \in Level /\ \A f \in Files : s[k][f] \in Value
BY LenProperties, ElementOfSeq DEF Tree, Level

LEMMA EmptyIsLevel == Empty \in Level
BY DEF Empty, Level, Value

(* Trees with the same levels are the same.                                *)
LEMMA SameTree ==
    ASSUME NEW s \in Tree, NEW r \in Tree, Len(s) = Len(r),
           \A k \in 1 .. Len(s) : \A f \in Files : s[k][f] = r[k][f]
    PROVE  s = r
<1>1. \A k \in 1 .. Len(s) : s[k] \in [Files -> Value] /\ r[k] \in [Files -> Value]
  BY TreeFacts DEF Level
<1>2. \A k \in 1 .. Len(s) : s[k] = r[k]
  BY <1>1
<1> QED BY <1>2, SeqEqual DEF Tree

LEMMA BareFacts ==
    ASSUME NEW s \in Tree
    PROVE  /\ Bare(s) \in Tree /\ Len(Bare(s)) = Len(s)
           /\ \A k \in 1 .. Len(s) : \A f \in Files : Bare(s)[k][f] = Absent
<1>1. Len(s) \in Nat
  BY TreeFacts
<1>2. Bare(s) \in [1 .. Len(s) -> Level]
  BY EmptyIsLevel DEF Bare
<1>3. \A k \in 1 .. Len(s) : \A f \in Files : Bare(s)[k][f] = Absent
  BY DEF Bare, Empty
<1> QED BY <1>1, <1>2, <1>3, SegmentIsTree

LEMMA RemainsFacts ==
    ASSUME NEW s \in Tree, NEW r \in Remains(s)
    PROVE  r \in Tree
<1>1. PICK left \in SUBSET Entries(s) :
         r = [k \in 1 .. Len(s) |-> [f \in Files |-> IF <<k, f>> \in left THEN s[k][f] ELSE Absent]]
  BY DEF Remains
<1>2. Len(s) \in Nat /\ \A k \in 1 .. Len(s) : \A f \in Files : s[k][f] \in Value
  BY TreeFacts
<1>3. \A k \in 1 .. Len(s) :
         [f \in Files |-> IF <<k, f>> \in left THEN s[k][f] ELSE Absent] \in Level
  BY <1>2 DEF Level, Value
<1>4. r \in [1 .. Len(s) -> Level]
  BY <1>1, <1>3
<1> QED BY <1>2, <1>4, SegmentIsTree

(* The vault's files and the stage below them.                             *)
LEMMA StageFacts ==
    ASSUME NEW x \in Level, NEW s \in Tree
    PROVE  /\ <<x>> \o s \in Tree /\ Len(<<x>> \o s) = Len(s) + 1
           /\ (<<x>> \o s)[1] = x
           /\ \A k \in 1 .. Len(s) : (<<x>> \o s)[k + 1] = s[k]
<1>1. <<x>> \in Seq(Level) /\ Len(<<x>>) = 1 /\ <<x>>[1] = x /\ s \in Seq(Level) /\ Len(s) \in Nat
  BY TreeFacts DEF Tree
<1>2. /\ <<x>> \o s \in Seq(Level) /\ Len(<<x>> \o s) = Len(<<x>>) + Len(s)
      /\ \A i \in 1 .. Len(<<x>>) + Len(s) :
            (<<x>> \o s)[i] = IF i <= Len(<<x>>) THEN <<x>>[i] ELSE s[i - Len(<<x>>)]
  BY <1>1, ConcatProperties
<1>3. \A k \in 1 .. Len(s) : k + 1 \in 1 .. 1 + Len(s) /\ ~(k + 1 <= 1) /\ (k + 1) - 1 = k
  BY <1>1
<1>4. \A k \in 1 .. Len(s) : (<<x>> \o s)[k + 1] = s[k]
  BY <1>1, <1>2, <1>3
<1>5. (<<x>> \o s)[1] = x
  BY <1>1, <1>2
<1> QED BY <1>1, <1>2, <1>4, <1>5 DEF Tree

LEMMA TailFacts ==
    ASSUME NEW s \in Tree, Len(s) >= 1
    PROVE  /\ Tail(s) \in Tree /\ Len(Tail(s)) = Len(s) - 1
           /\ \A k \in 1 .. Len(s) - 1 : Tail(s)[k] = s[k + 1]
<1>1. s \in Seq(Level) /\ s # <<>> /\ Len(s) \in Nat
  BY TreeFacts, EmptySeq DEF Tree
<1> QED BY <1>1, HeadTailProperties DEF Tree

(* A file of a tree is written.                                            *)
LEMMA WriteFacts ==
    ASSUME NEW s \in Tree, NEW k \in 1 .. Len(s), NEW f \in Files, NEW v \in Value
    PROVE  /\ [s EXCEPT ![k][f] = v] \in Tree /\ Len([s EXCEPT ![k][f] = v]) = Len(s)
           /\ [s EXCEPT ![k][f] = v][k][f] = v
           /\ \A j \in 1 .. Len(s) : \A g \in Files :
                 j # k \/ g # f => [s EXCEPT ![k][f] = v][j][g] = s[j][g]
           /\ \A j \in 1 .. Len(s) : j # k => [s EXCEPT ![k][f] = v][j] = s[j]
<1>1. Len(s) \in Nat /\ DOMAIN s = 1 .. Len(s) /\ s \in [1 .. Len(s) -> Level]
  BY TreeFacts, LenProperties DEF Tree
<1>2. s[k] \in [Files -> Value] /\ [s[k] EXCEPT ![f] = v] \in Level
  BY <1>1 DEF Level
<1>3. [s EXCEPT ![k][f] = v] \in [1 .. Len(s) -> Level]
  BY <1>1, <1>2
<1>4. /\ [s EXCEPT ![k][f] = v][k] = [s[k] EXCEPT ![f] = v]
      /\ \A j \in 1 .. Len(s) : j # k => [s EXCEPT ![k][f] = v][j] = s[j]
  BY <1>1
<1>5. [s[k] EXCEPT ![f] = v][f] = v /\ \A g \in Files : g # f => [s[k] EXCEPT ![f] = v][g] = s[k][g]
  BY <1>2
<1> QED BY <1>1, <1>3, <1>4, <1>5, SegmentIsTree
-----------------------------------------------------------------------------
(* Nothing is said of a call that has not reported, or is not under way.   *)
LEMMA NothingReported ==
    ASSUME result'.op = "idle"
    PROVE  RestoreReport' /\ RepairHeals'
BY DEF RestoreReport, RestoreExact, StagingHarmless, RepairHeals

LEMMA NothingUnderWay ==
    ASSUME job'.op = "idle"
    PROVE  JobInv'
BY DEF JobInv, CreateInv, StageInv, ClearInv, StagedInv, MoveInv, RepairInv

LEMMA InitHolds == Init => IInv
<1> SUFFICES ASSUME Init PROVE IInv
  OBVIOUS
<1>1. job.op = "idle" /\ result.op = "idle"
  BY DEF Init, Idle, NoResult
<1>2. Empty \in Level
  BY EmptyIsLevel
<1>3. <<Empty>> \in Tree /\ Len(<<Empty>>) = 1
  BY <1>2 DEF Tree
<1>4. job \in JobType
  BY DEF Init, Idle, JobType
<1>5. result \in ResultType
  BY DEF Init, NoResult, ResultType
<1>6. TypeInv
  BY <1>1, <1>2, <1>3, <1>4, <1>5 DEF TypeInv, Init
<1>7. SnapshotKept
  BY DEF Init, SnapshotKept
<1>8. RestoreReport /\ RepairHeals
  BY <1>1 DEF RestoreReport, RestoreExact, StagingHarmless, RepairHeals
<1>9. JobInv
  BY <1>1 DEF JobInv, CreateInv, StageInv, ClearInv, StagedInv, MoveInv, RepairInv
<1> QED BY <1>6, <1>7, <1>8, <1>9 DEF IInv

(* Entries still to do name files.                                         *)
LEMMA TodoFacts ==
    ASSUME TypeInv, NEW e \in job.todo
    PROVE  e = <<e[1], e[2]>> /\ e[1] \in Nat /\ e[2] \in Files
BY DEF TypeInv, JobType

LEMMA EntriesFacts ==
    ASSUME NEW s, NEW e \in Entries(s)
    PROVE  e = <<e[1], e[2]>> /\ e[1] \in 1 .. Len(s) /\ e[2] \in Files /\ s[e[1]][e[2]] # Absent
BY DEF Entries

(* The types of job, step by step.                                         *)
LEMMA StartFacts ==
    ASSUME NEW op \in Calls, NEW t \in Tags, NEW todo \in SUBSET (Nat \X Files), NEW kept \in BOOLEAN,
           Start(op, t, todo, kept)
    PROVE  /\ job' \in JobType
           /\ job'.op = op /\ job'.tag = t /\ job'.todo = todo /\ job'.kept = kept
BY DEF Start, JobType

(* The four places a copy writes to.                                       *)
LEMMA CreateWrite ==
    ASSUME TypeInv, CreateInv, job.op = "create", NEW e \in job.todo, NEW v \in Value, Written(e, v)
    PROVE  /\ dir' = dir /\ e[1] \in 1 .. Len(dir) /\ e[2] \in Files /\ e = <<e[1], e[2]>>
           /\ snaps' \in [Tags -> Tree \cup {NoSnap}]
           /\ \A t \in Tags : t # job.tag => snaps'[t] = snaps[t]
           /\ snaps'[job.tag] \in Tree /\ Len(snaps'[job.tag]) = Len(dir)
           /\ snaps'[job.tag][e[1]][e[2]] = v
           /\ \A j \in 1 .. Len(dir) : \A g \in Files :
                 <<j, g>> # e => snaps'[job.tag][j][g] = snaps[job.tag][j][g]
<1> DEFINE T == job.tag
           s == snaps[T]
           w == [s EXCEPT ![e[1]][e[2]] = v]
<1>1. /\ T \in Tags /\ snaps \in [Tags -> Tree \cup {NoSnap}] /\ s \in Tree /\ Len(s) = Len(dir)
      /\ e \in Entries(dir)
  BY DEF TypeInv, CreateInv, Copied
<1>2. e = <<e[1], e[2]>> /\ e[1] \in 1 .. Len(s) /\ e[2] \in Files
  BY <1>1, EntriesFacts
<1>3. dir' = dir /\ snaps' = [snaps EXCEPT ![T] = w]
  BY <1>1 DEF Written
<1>4. snaps'[T] = w /\ \A t \in Tags : t # T => snaps'[t] = snaps[t]
  BY <1>1, <1>3
<1>5. /\ w \in Tree /\ Len(w) = Len(s) /\ w[e[1]][e[2]] = v
      /\ \A j \in 1 .. Len(s) : \A g \in Files : j # e[1] \/ g # e[2] => w[j][g] = s[j][g]
  BY <1>1, <1>2, WriteFacts
<1> HIDE DEF w
<1>6. snaps' \in [Tags -> Tree \cup {NoSnap}]
  BY <1>1, <1>3, <1>5
<1> QED BY <1>1, <1>2, <1>3, <1>4, <1>5, <1>6

LEMMA StageWrite ==
    ASSUME TypeInv, StageInv, job.op = "stage", NEW e \in job.todo, NEW v \in Value, Written(e, v)
    PROVE  /\ snaps' = snaps /\ e \in Entries(snaps[job.tag])
           /\ dir' \in Tree /\ Len(dir') = Len(dir) /\ dir'[1] = dir[1]
           /\ dir'[e[1] + 1][e[2]] = v
           /\ \A j \in 1 .. Len(snaps[job.tag]) : \A g \in Files :
                 <<j, g>> # e => dir'[j + 1][g] = dir[j + 1][g]
<1> DEFINE s == snaps[job.tag]
           w == [dir EXCEPT ![e[1] + 1][e[2]] = v]
<1>1. dir \in Tree /\ s \in Tree /\ Len(dir) = Len(s) + 1 /\ e \in Entries(s) /\ Len(s) \in Nat
  BY TreeFacts DEF TypeInv, StageInv, Copied
<1>2. e = <<e[1], e[2]>> /\ e[1] \in 1 .. Len(s) /\ e[2] \in Files
  BY <1>1, EntriesFacts
<1>3. dir' = w /\ snaps' = snaps
  BY DEF Written
<1>4. e[1] + 1 \in 1 .. Len(dir) /\ 1 \in 1 .. Len(dir) /\ 1 # e[1] + 1
  BY <1>1, <1>2
<1>5. /\ w \in Tree /\ Len(w) = Len(dir) /\ w[e[1] + 1][e[2]] = v
      /\ \A j \in 1 .. Len(dir) : \A g \in Files : j # e[1] + 1 \/ g # e[2] => w[j][g] = dir[j][g]
      /\ \A j \in 1 .. Len(dir) : j # e[1] + 1 => w[j] = dir[j]
  BY <1>1, <1>2, <1>4, WriteFacts
<1> HIDE DEF w
<1>6. \A j \in 1 .. Len(s) : \A g \in Files : <<j, g>> # e => w[j + 1][g] = dir[j + 1][g]
  <2> SUFFICES ASSUME NEW j \in 1 .. Len(s), NEW g \in Files, <<j, g>> # e PROVE w[j + 1][g] = dir[j + 1][g]
    OBVIOUS
  <2>1. j + 1 \in 1 .. Len(dir) /\ (j + 1 # e[1] + 1 \/ g # e[2])
    BY <1>1, <1>2
  <2> QED BY <1>5, <2>1
<1>7. w[1] = dir[1]
  BY <1>4, <1>5
<1> QED BY <1>1, <1>3, <1>5, <1>6, <1>7

LEMMA LevelWrite ==
    ASSUME TypeInv, MoveInv, RepairInv, job.op \in {"move", "repair"},
           NEW e \in job.todo, NEW v \in Value, Written(e, v)
    PROVE  /\ snaps' = snaps /\ e = <<e[1], e[2]>> /\ e[1] \in 1 .. Len(dir) /\ e[2] \in Files
           /\ dir' \in Tree /\ Len(dir') = Len(dir)
           /\ dir'[e[1]][e[2]] = v
           /\ \A j \in 1 .. Len(dir) : \A g \in Files : <<j, g>> # e => dir'[j][g] = dir[j][g]
           /\ \A j \in 1 .. Len(dir) : j # e[1] => dir'[j] = dir[j]
<1>1. dir \in Tree /\ Len(dir) \in Nat
  BY TreeFacts DEF TypeInv
<1>2. e = <<e[1], e[2]>> /\ e[1] \in 1 .. Len(dir) /\ e[2] \in Files
  <2>1. CASE job.op = "move"
    BY <1>1, <2>1 DEF MoveInv
  <2>2. CASE job.op = "repair"
    <3>1. e \in Entries(snaps[job.tag]) /\ Len(dir) >= Len(snaps[job.tag]) /\ Len(snaps[job.tag]) \in Nat
      BY <2>2, TreeFacts DEF RepairInv
    <3> QED BY <1>1, <3>1, EntriesFacts
  <2> QED BY <2>1, <2>2
<1> DEFINE w == [dir EXCEPT ![e[1]][e[2]] = v]
<1>3. dir' = w /\ snaps' = snaps
  BY DEF Written
<1>4. /\ w \in Tree /\ Len(w) = Len(dir) /\ w[e[1]][e[2]] = v
      /\ \A j \in 1 .. Len(dir) : \A g \in Files : j # e[1] \/ g # e[2] => w[j][g] = dir[j][g]
      /\ \A j \in 1 .. Len(dir) : j # e[1] => w[j] = dir[j]
  BY <1>1, <1>2, WriteFacts
<1> HIDE DEF w
<1> QED BY <1>2, <1>3, <1>4
-----------------------------------------------------------------------------
(* Calls that begin.                                                       *)
LEMMA NoResultFacts ==
    /\ NoResult \in ResultType
    /\ NoResult.op = "idle" /\ Empty \in Level
BY EmptyIsLevel DEF NoResult, ResultType

LEMMA EditStep ==
    ASSUME IInv, NEW f \in Files, NEW v \in Contents \cup {Absent}, Edit(f, v)
    PROVE  IInv'
<1>1. /\ job.op = "idle" /\ result' = NoResult /\ before' = Empty
      /\ dir' = [dir EXCEPT ![1][f] = v] /\ UNCHANGED <<snaps, job, acked>>
  BY DEF Edit, Begin, Forget
<1>2. dir \in Tree /\ 1 \in 1 .. Len(dir) /\ v \in Value
  BY TreeFacts DEF IInv, TypeInv, Value
<1>3. dir' \in Tree /\ Len(dir') = Len(dir)
  <2>1. \A k \in 1 .. Len(dir) : [dir EXCEPT ![k][f] = v] \in Tree /\ Len([dir EXCEPT ![k][f] = v]) = Len(dir)
    BY <1>2, WriteFacts
  <2> QED BY <1>1, <1>2, <2>1
<1>4. TypeInv'
  BY <1>1, <1>3, NoResultFacts DEF IInv, TypeInv
<1>5. SnapshotKept'
  BY <1>1 DEF IInv, SnapshotKept
<1> QED BY <1>1, <1>4, <1>5, NoResultFacts, NothingReported, NothingUnderWay DEF IInv

LEMMA CreateStep ==
    ASSUME IInv, NEW t \in Tags, vault_snapshot_create(t)
    PROVE  IInv'
<1>1. /\ result' = NoResult /\ before' = Empty /\ snaps[t] = NoSnap
      /\ snaps' = [snaps EXCEPT ![t] = Bare(dir)] /\ UNCHANGED <<dir, acked>>
      /\ Start("create", t, Entries(dir), FALSE)
  BY DEF vault_snapshot_create, Begin, Forget
<1>2. /\ dir \in Tree /\ Len(dir) \in Nat /\ Len(dir) >= 1 /\ snaps \in [Tags -> Tree \cup {NoSnap}]
      /\ acked \in [Tags -> Tree \cup {NoSnap}]
  BY TreeFacts DEF IInv, TypeInv
<1>3. /\ Bare(dir) \in Tree /\ Len(Bare(dir)) = Len(dir)
      /\ \A k \in 1 .. Len(dir) : \A f \in Files : Bare(dir)[k][f] = Absent
  BY <1>2, BareFacts
<1>4. /\ snaps' \in [Tags -> Tree \cup {NoSnap}] /\ snaps'[t] = Bare(dir)
      /\ \A q \in Tags : q # t => snaps'[q] = snaps[q]
  BY <1>1, <1>2, <1>3
<1>5. Entries(dir) \in SUBSET (Nat \X Files) /\ "create" \in Calls
  BY <1>2 DEF Entries, Calls
<1>6. /\ job' \in JobType
      /\ job'.op = "create" /\ job'.tag = t /\ job'.todo = Entries(dir) /\ job'.kept = FALSE
  BY <1>1, <1>5, StartFacts
<1>7. acked[t] = NoSnap
  BY <1>1 DEF IInv, SnapshotKept
<1>8. TypeInv'
  BY <1>1, <1>2, <1>4, <1>6, NoResultFacts DEF TypeInv
<1>9. SnapshotKept'
  BY <1>1, <1>4, <1>7 DEF IInv, SnapshotKept
<1>10. Copied(dir, snaps[job.tag], 0)'
  <2>1. \A k \in 1 .. Len(dir) : \A f \in Files :
           <<k, f>> \notin Entries(dir) => snaps'[t][k + 0][f] = dir[k][f]
    BY <1>2, <1>3, <1>4 DEF Entries
  <2> QED BY <1>1, <1>2, <1>6, <2>1 DEF Copied
<1>11. JobInv'
  BY <1>1, <1>3, <1>4, <1>6, <1>7, <1>10
     DEF JobInv, CreateInv, StageInv, ClearInv, StagedInv, MoveInv, RepairInv
<1> QED BY <1>1, <1>8, <1>9, <1>11, NoResultFacts, NothingReported DEF IInv

LEMMA DeleteStep ==
    ASSUME IInv, NEW t \in Tags, vault_snapshot_delete(t)
    PROVE  IInv'
<1>1. /\ job.op = "idle" /\ result' = NoResult /\ before' = Empty /\ snaps[t] # NoSnap
      /\ acked' = [acked EXCEPT ![t] = NoSnap] /\ UNCHANGED <<dir, job>>
      /\ \E left \in Remains(snaps[t]) \cup {<<>>, NoSnap} : snaps' = [snaps EXCEPT ![t] = left]
  BY DEF vault_snapshot_delete, Begin, Forget
<1>2. PICK left \in Remains(snaps[t]) \cup {<<>>, NoSnap} : snaps' = [snaps EXCEPT ![t] = left]
  BY <1>1
<1>3. /\ snaps \in [Tags -> Tree \cup {NoSnap}] /\ acked \in [Tags -> Tree \cup {NoSnap}] /\ snaps[t] \in Tree
  BY <1>1 DEF IInv, TypeInv
<1>4. left \in Tree \cup {NoSnap}
  <2>1. <<>> \in Tree
    BY DEF Tree
  <2> QED BY <1>3, <2>1, RemainsFacts
<1>5. /\ snaps' \in [Tags -> Tree \cup {NoSnap}] /\ acked' \in [Tags -> Tree \cup {NoSnap}]
      /\ acked'[t] = NoSnap /\ \A q \in Tags : q # t => snaps'[q] = snaps[q] /\ acked'[q] = acked[q]
  BY <1>1, <1>2, <1>3, <1>4
<1>6. TypeInv'
  BY <1>1, <1>5, NoResultFacts DEF IInv, TypeInv
<1>7. SnapshotKept'
  BY <1>5 DEF IInv, SnapshotKept
<1> QED BY <1>1, <1>6, <1>7, NoResultFacts, NothingReported, NothingUnderWay DEF IInv

LEMMA RestoreStep ==
    ASSUME IInv, NEW t \in Tags, vault_snapshot_restore(t)
    PROVE  IInv'
<1> DEFINE s == snaps[t]
<1>1. /\ result' = NoResult /\ before' = dir[1] /\ s # NoSnap
      /\ dir' = <<dir[1]>> \o Bare(s) /\ UNCHANGED <<snaps, acked>>
      /\ Start("stage", t, Entries(s), FALSE)
  BY DEF vault_snapshot_restore, Begin, HasData
<1>2. s \in Tree /\ Len(s) \in Nat /\ dir[1] \in Level
  <2>1. s \in Tree /\ dir \in Tree /\ Len(dir) >= 1
    BY <1>1 DEF IInv, TypeInv
  <2> QED BY <2>1, TreeFacts
<1>3. /\ Bare(s) \in Tree /\ Len(Bare(s)) = Len(s)
      /\ \A k \in 1 .. Len(s) : \A f \in Files : Bare(s)[k][f] = Absent
  BY <1>2, BareFacts
<1>4. /\ dir' \in Tree /\ Len(dir') = Len(s) + 1 /\ dir'[1] = dir[1]
      /\ \A k \in 1 .. Len(s) : dir'[k + 1] = Bare(s)[k]
  BY <1>1, <1>2, <1>3, StageFacts
<1>5. Entries(s) \in SUBSET (Nat \X Files) /\ "stage" \in Calls
  BY <1>2 DEF Entries, Calls
<1>6. /\ job' \in JobType
      /\ job'.op = "stage" /\ job'.tag = t /\ job'.todo = Entries(s) /\ job'.kept = FALSE
  BY <1>1, <1>5, StartFacts
<1>7. TypeInv'
  BY <1>1, <1>2, <1>4, <1>6, NoResultFacts DEF IInv, TypeInv
<1>8. SnapshotKept'
  BY <1>1 DEF IInv, SnapshotKept
<1>9. Copied(snaps[job.tag], dir, 1)'
  <2>1. \A k \in 1 .. Len(s) : \A f \in Files : <<k, f>> \notin Entries(s) => dir'[k + 1][f] = s[k][f]
    BY <1>2, <1>3, <1>4 DEF Entries
  <2>2. snaps'[job'.tag] = s
    BY <1>1, <1>6
  <2> HIDE DEF s
  <2> QED BY <1>2, <1>6, <2>1, <2>2 DEF Copied
<1>10. JobInv'
  BY <1>1, <1>2, <1>4, <1>6, <1>9
     DEF JobInv, CreateInv, StageInv, ClearInv, StagedInv, MoveInv, RepairInv
<1> QED BY <1>1, <1>7, <1>8, <1>10, NoResultFacts, NothingReported DEF IInv

LEMMA RefusedStep ==
    ASSUME IInv, NEW t \in Tags, restore_refused(t)
    PROVE  IInv'
<1>1. /\ job.op = "idle" /\ before' = dir[1] /\ Len(dir) > 1 /\ UNCHANGED <<snaps, job, acked>>
      /\ \E left \in Remains(Tail(dir)) : dir' = <<dir[1]>> \o left
      /\ result' = [op |-> "stage", tag |-> t, ok |-> FALSE, kept |-> FALSE]
  BY DEF restore_refused
<1>2. PICK left \in Remains(Tail(dir)) : dir' = <<dir[1]>> \o left
  BY <1>1
<1>3. dir \in Tree /\ Len(dir) \in Nat /\ Len(dir) >= 1 /\ dir[1] \in Level
  BY <1>1, TreeFacts DEF IInv, TypeInv
<1>4. left \in Tree /\ Len(left) \in Nat
  BY <1>3, TailFacts, RemainsFacts, TreeFacts
<1>5. dir' \in Tree /\ Len(dir') >= 1 /\ dir'[1] = dir[1]
  BY <1>2, <1>3, <1>4, StageFacts
<1>6. /\ result' \in ResultType
      /\ result'.op = "stage" /\ result'.ok = FALSE
  BY <1>1 DEF Calls, ResultType
<1>7. TypeInv'
  BY <1>1, <1>3, <1>5, <1>6 DEF IInv, TypeInv
<1>8. SnapshotKept'
  BY <1>1 DEF IInv, SnapshotKept
<1>9. RestoreReport' /\ RepairHeals'
  BY <1>1, <1>5, <1>6 DEF RestoreReport, RestoreExact, StagingHarmless, RepairHeals
<1> QED BY <1>1, <1>7, <1>8, <1>9, NothingUnderWay DEF IInv

LEMMA RepairStep ==
    ASSUME IInv, NEW t \in Tags, vault_repair(t)
    PROVE  IInv'
<1> DEFINE s == snaps[t]
           n == Len(s) - Len(dir)
           r == [k \in 1 .. n |-> Empty]
<1>1. /\ result' = NoResult /\ before' = Empty /\ s # NoSnap
      /\ dir' = dir \o r /\ UNCHANGED <<snaps, acked>>
      /\ Start("repair", t, Entries(s), FALSE)
  BY DEF vault_repair, Begin, HasData, Forget
<1>2. s \in Tree /\ Len(s) \in Nat /\ dir \in Tree /\ Len(dir) \in Nat /\ Len(dir) >= 1
  BY <1>1, TreeFacts DEF IInv, TypeInv
<1>3. r \in Tree /\ Len(r) \in Nat /\ Len(r) >= n
  <2>1. PICK m \in Nat : m >= n /\ 1 .. m = 1 .. n
    <3>1. n \in Int
      BY <1>2
    <3> HIDE DEF n
    <3>2. CASE n >= 0
      <4>1. n \in Nat /\ n >= n
        BY <3>1, <3>2
      <4> QED BY <4>1
    <3>3. CASE n < 0
      <4>1. 0 \in Nat /\ 0 >= n /\ 1 .. 0 = 1 .. n
        BY <3>1, <3>3
      <4> WITNESS 0 \in Nat
      <4> QED BY <4>1
    <3> QED BY <3>1, <3>2, <3>3
  <2>2. r \in [1 .. m -> Level]
    BY <2>1, EmptyIsLevel
  <2> HIDE DEF r, n
  <2> QED BY <2>1, <2>2, SegmentIsTree
<1> HIDE DEF r
<1>4. dir' \in Tree /\ Len(dir') = Len(dir) + Len(r)
  BY <1>1, <1>2, <1>3, ConcatProperties DEF Tree
<1>5. Len(dir') >= Len(s) /\ Len(dir') >= 1
  BY <1>2, <1>3, <1>4
<1>6. Entries(s) \in SUBSET (Nat \X Files) /\ "repair" \in Calls
  BY <1>2 DEF Entries, Calls
<1>7. /\ job' \in JobType
      /\ job'.op = "repair" /\ job'.tag = t /\ job'.todo = Entries(s) /\ job'.kept = FALSE
  BY <1>1, <1>6, StartFacts
<1>8. TypeInv'
  BY <1>1, <1>4, <1>5, <1>7, NoResultFacts DEF IInv, TypeInv
<1>9. SnapshotKept'
  BY <1>1 DEF IInv, SnapshotKept
<1>10. RepairInv'
  <2>1. snaps'[job'.tag] = s
    BY <1>1, <1>7
  <2> HIDE DEF s
  <2> QED BY <1>2, <1>5, <1>7, <2>1 DEF RepairInv
<1>11. JobInv'
  BY <1>7, <1>10 DEF JobInv, CreateInv, StageInv, ClearInv, StagedInv, MoveInv
<1> QED BY <1>1, <1>8, <1>9, <1>11, NoResultFacts, NothingReported DEF IInv
-----------------------------------------------------------------------------
(* Calls that end.                                                         *)
LEMMA StopStep ==
    ASSUME IInv, job.op # "idle", Stop, UNCHANGED <<acked, before>>,
           dir' \in Tree, Len(dir') >= 1, snaps' \in [Tags -> Tree \cup {NoSnap}], SnapshotKept',
           job.op = "stage" => dir'[1] = dir[1]
    PROVE  IInv'
<1>1. job' = Idle /\ result' = [op |-> job.op, tag |-> job.tag, ok |-> FALSE, kept |-> job.kept]
  BY DEF Stop
<1>2. /\ job.op \in Calls /\ job.tag \in Tags /\ job.kept \in BOOLEAN
      /\ job.op = "stage" => dir[1] = before
  BY DEF IInv, TypeInv, JobInv, StageInv, JobType
<1>3. /\ job' \in JobType
      /\ job'.op = "idle"
  BY <1>1 DEF Idle, JobType
<1>4. /\ result' \in ResultType
      /\ result'.op = job.op /\ result'.ok = FALSE
  BY <1>1, <1>2 DEF ResultType
<1>5. TypeInv'
  BY <1>3, <1>4 DEF IInv, TypeInv
<1>6. RestoreReport' /\ RepairHeals'
  BY <1>2, <1>4 DEF RestoreReport, RestoreExact, StagingHarmless, RepairHeals
<1> QED BY <1>3, <1>5, <1>6, NothingUnderWay DEF IInv

LEMMA FinishFacts ==
    ASSUME TypeInv, NEW op \in {"create", "restore", "repair"}, job.op # "idle", Finish(op)
    PROVE  /\ job' \in JobType
           /\ job'.op = "idle"
           /\ result' \in ResultType
           /\ result'.op = op /\ result'.tag = job.tag /\ result'.ok = TRUE /\ result'.kept = job.kept
<1>1. job' = Idle /\ result' = [op |-> op, tag |-> job.tag, ok |-> TRUE, kept |-> job.kept]
  BY DEF Finish
<1>2. job.tag \in Tags /\ job.kept \in BOOLEAN
  BY DEF TypeInv, JobType
<1>3. op \in Calls \cup {"idle", "restore"}
  BY DEF Calls
<1> QED BY <1>1, <1>2, <1>3 DEF Idle, JobType, ResultType

LEMMA InterruptedStep ==
    ASSUME IInv, Interrupted
    PROVE  IInv'
<1>1. job.op # "idle" /\ Stop /\ UNCHANGED <<dir, snaps, acked, before>>
  BY DEF Interrupted
<1>2. SnapshotKept'
  BY <1>1 DEF IInv, SnapshotKept
<1>3. dir' \in Tree /\ Len(dir') >= 1 /\ snaps' \in [Tags -> Tree \cup {NoSnap}]
  BY <1>1 DEF IInv, TypeInv
<1> QED BY <1>1, <1>2, <1>3, StopStep

LEMMA CreateDoneStep ==
    ASSUME IInv, create_done
    PROVE  IInv'
<1>1. /\ job.op = "create" /\ job.todo = {} /\ acked' = [acked EXCEPT ![job.tag] = dir]
      /\ Finish("create") /\ UNCHANGED <<dir, snaps, before>>
  BY DEF create_done
<1>2. job.tag \in Tags /\ dir \in Tree /\ acked \in [Tags -> Tree \cup {NoSnap}] /\ TypeInv
  BY <1>1 DEF IInv, TypeInv
<1>3. /\ job'.op = "idle" /\ result'.op = "create"
      /\ job' \in JobType
      /\ result' \in ResultType
  BY <1>1, <1>2, FinishFacts
<1>4. snaps[job.tag] = dir
  <2>1. /\ snaps[job.tag] \in Tree /\ Len(snaps[job.tag]) = Len(dir) /\ Len(dir) \in Nat
        /\ \A k \in 1 .. Len(dir) : \A f \in Files : snaps[job.tag][k + 0][f] = dir[k][f]
    BY <1>1, <1>2, TreeFacts DEF IInv, JobInv, CreateInv, Copied
  <2>2. \A k \in 1 .. Len(dir) : k + 0 = k
    BY <2>1
  <2> QED BY <1>2, <2>1, <2>2, SameTree
<1>5. acked' \in [Tags -> Tree \cup {NoSnap}] /\ \A q \in Tags : acked'[q] = IF q = job.tag THEN dir ELSE acked[q]
  BY <1>1, <1>2
<1>6. SnapshotKept'
  BY <1>1, <1>4, <1>5 DEF IInv, SnapshotKept
<1>7. TypeInv'
  BY <1>1, <1>2, <1>3, <1>5 DEF IInv, TypeInv
<1>8. RestoreReport' /\ RepairHeals'
  BY <1>3 DEF RestoreReport, RestoreExact, StagingHarmless, RepairHeals
<1> QED BY <1>3, <1>6, <1>7, <1>8, NothingUnderWay DEF IInv

LEMMA RepairDoneStep ==
    ASSUME IInv, repair_done
    PROVE  IInv'
<1>1. /\ job.op = "repair" /\ job.todo = {} /\ Finish("repair") /\ UNCHANGED <<dir, snaps, acked, before>>
  BY DEF repair_done
<1>2. TypeInv
  BY DEF IInv
<1>3. /\ job'.op = "idle" /\ result'.op = "repair" /\ result'.tag = job.tag
      /\ job' \in JobType
      /\ result' \in ResultType
  BY <1>1, <1>2, FinishFacts
<1>4. \A e \in Entries(snaps[job.tag]) :
         /\ dir[e[1]][e[2]] # Absent
         /\ SizeOf(dir[e[1]][e[2]]) = SizeOf(snaps[job.tag][e[1]][e[2]])
  BY <1>1 DEF IInv, JobInv, RepairInv, Healed, Target
<1>5. job.tag \in Tags /\ (acked[job.tag] # NoSnap => snaps[job.tag] = acked[job.tag])
  BY <1>1, <1>2 DEF IInv, TypeInv, SnapshotKept
<1>6. RepairHeals'
  BY <1>1, <1>3, <1>4, <1>5 DEF RepairHeals, Target
<1>7. RestoreReport'
  BY <1>3 DEF RestoreReport, RestoreExact, StagingHarmless
<1>8. TypeInv' /\ SnapshotKept'
  BY <1>1, <1>2, <1>3 DEF IInv, TypeInv, SnapshotKept
<1> QED BY <1>3, <1>6, <1>7, <1>8, NothingUnderWay DEF IInv
-----------------------------------------------------------------------------
(* A restore from the last file staged to the stage removed.               *)

LEMMA StageDoneStep ==
    ASSUME IInv, stage_done
    PROVE  IInv'
<1> DEFINE T == job.tag
           s == snaps[T]
           E == Entries(<<dir[1]>>)
<1>1. /\ job.op = "stage" /\ job.todo = {} /\ Start("clear", T, E, FALSE) /\ before' = Empty
      /\ UNCHANGED <<dir, snaps, acked, result>>
  BY DEF stage_done, Forget
<1>2. /\ T \in Tags /\ result.op = "idle" /\ dir \in Tree /\ Len(dir) >= 1 /\ Len(dir) \in Nat
      /\ dir[1] \in Level /\ s \in Tree /\ Len(dir) = Len(s) + 1
  BY <1>1, TreeFacts DEF IInv, TypeInv, JobInv, StageInv
<1>3. \A k \in 1 .. Len(s) : \A f \in Files : dir[k + 1][f] = s[k][f]
  BY <1>1 DEF IInv, JobInv, StageInv, Copied
<1>4. E \subseteq {1} \X Files /\ \A f \in Files : <<1, f>> \notin E => dir[1][f] = Absent
  <2>1. Len(<<dir[1]>>) = 1 /\ <<dir[1]>>[1] = dir[1] /\ 1 .. 1 = {1}
    OBVIOUS
  <2> QED BY <2>1 DEF Entries
<1>5. E \in SUBSET (Nat \X Files) /\ "clear" \in Calls
  BY <1>4 DEF Calls
<1> HIDE DEF E
<1>6. /\ job' \in JobType
      /\ job'.op = "clear" /\ job'.tag = T /\ job'.todo = E /\ job'.kept = FALSE
  BY <1>1, <1>2, <1>5, StartFacts
<1>7. StagedInv'
  <2> SUFFICES ASSUME Clean(T) PROVE Len(dir) = 2 /\ dir[2] = acked[T][1]
    BY <1>1, <1>6 DEF StagedInv, Clean
  <2>1. acked[T] = s /\ Len(s) = 1
    BY <1>2 DEF Clean, IInv, SnapshotKept
  <2>2. 1 \in 1 .. Len(s) /\ 1 + 1 = 2 /\ 2 \in 1 .. Len(dir)
    BY <1>2, <2>1
  <2>3. \A f \in Files : dir[2][f] = s[1][f]
    BY <1>3, <2>2
  <2>4. dir[2] \in [Files -> Value] /\ s[1] \in [Files -> Value]
    BY <1>2, <2>2, TreeFacts DEF Level
  <2> HIDE DEF s
  <2>5. dir[2] = s[1]
    BY <2>3, <2>4
  <2> QED BY <1>2, <2>1, <2>5
<1>8. JobInv'
  BY <1>1, <1>4, <1>6, <1>7 DEF JobInv, CreateInv, StageInv, ClearInv, MoveInv, RepairInv
<1>9. TypeInv' /\ SnapshotKept'
  BY <1>1, <1>2, <1>6, NoResultFacts DEF IInv, TypeInv, SnapshotKept
<1> QED BY <1>1, <1>2, <1>8, <1>9, NothingReported DEF IInv

LEMMA ClearEntryStep ==
    ASSUME IInv, NEW e \in job.todo, clear_entry(e)
    PROVE  IInv'
<1> DEFINE T == job.tag
           E == job.todo \ {e}
<1>1. /\ job.op = "clear" /\ UNCHANGED <<snaps, acked, before, result>>
      /\ \/ dir' = [dir EXCEPT ![1][e[2]] = Absent] /\ Start("clear", T, E, job.kept)
         \/ dir' = dir /\ Start("clear", T, E, TRUE)
  BY DEF clear_entry
<1>2. /\ T \in Tags /\ result.op = "idle" /\ dir \in Tree /\ Len(dir) >= 1 /\ Len(dir) \in Nat
      /\ job.kept \in BOOLEAN /\ E \in SUBSET (Nat \X Files)
  BY <1>1, TreeFacts DEF IInv, TypeInv, JobType
<1>3. /\ job.todo \subseteq {1} \X Files
      /\ ~job.kept => \A f \in Files : <<1, f>> \notin job.todo => dir[1][f] = Absent
      /\ Clean(T) => Len(dir) = 2 /\ dir[2] = acked[T][1]
  BY <1>1 DEF IInv, JobInv, ClearInv, StagedInv
<1>4. e = <<1, e[2]>> /\ e[2] \in Files /\ Absent \in Value /\ "clear" \in Calls
  BY <1>3 DEF Value, Calls
<1>5. PICK kept \in BOOLEAN :
         /\ Start("clear", T, E, kept)
         /\ ~kept => ~job.kept /\ dir' = [dir EXCEPT ![1][e[2]] = Absent]
         /\ dir' = dir \/ dir' = [dir EXCEPT ![1][e[2]] = Absent]
  BY <1>1, <1>2
<1> HIDE DEF E
<1>6. /\ job' \in JobType
      /\ job'.op = "clear" /\ job'.tag = T /\ job'.todo = E /\ job'.kept = kept
  BY <1>2, <1>4, <1>5, StartFacts
<1> DEFINE w == [dir EXCEPT ![1][e[2]] = Absent]
<1>7. /\ w \in Tree /\ Len(w) = Len(dir) /\ w[1][e[2]] = Absent
      /\ \A g \in Files : g # e[2] => w[1][g] = dir[1][g]
      /\ Len(dir) = 2 => w[2] = dir[2]
  <2>1. \A k \in 1 .. Len(dir) :
           /\ [dir EXCEPT ![k][e[2]] = Absent] \in Tree
           /\ Len([dir EXCEPT ![k][e[2]] = Absent]) = Len(dir)
           /\ [dir EXCEPT ![k][e[2]] = Absent][k][e[2]] = Absent
           /\ \A g \in Files : g # e[2] => [dir EXCEPT ![k][e[2]] = Absent][k][g] = dir[k][g]
           /\ \A j \in 1 .. Len(dir) : j # k => [dir EXCEPT ![k][e[2]] = Absent][j] = dir[j]
    BY <1>2, <1>4, WriteFacts
  <2>2. 1 \in 1 .. Len(dir)
    BY <1>2
  <2>3. Len(dir) = 2 => 2 \in 1 .. Len(dir)
    BY <1>2
  <2> QED BY <2>1, <2>2, <2>3
<1> HIDE DEF w
<1>8. dir' \in Tree /\ Len(dir') = Len(dir) /\ (Len(dir) = 2 => dir'[2] = dir[2])
  BY <1>2, <1>5, <1>7 DEF w
<1>9. StagedInv'
  BY <1>1, <1>3, <1>6, <1>8 DEF StagedInv, Clean
<1>10. ClearInv'
  <2>1. E \subseteq {1} \X Files
    BY <1>3 DEF E
  <2>2. ASSUME ~kept, NEW f \in Files, <<1, f>> \notin E
        PROVE  dir'[1][f] = Absent
    <3>1. dir' = w /\ ~job.kept
      BY <1>5, <2>2 DEF w
    <3>2. CASE f = e[2]
      BY <1>7, <3>1, <3>2
    <3>3. CASE f # e[2]
      <4>1. <<1, f>> # e
        BY <1>4, <3>3
      <4>2. <<1, f>> \notin job.todo
        BY <2>2, <4>1 DEF E
      <4> QED BY <1>3, <1>7, <3>1, <3>3, <4>2
    <3> QED BY <3>2, <3>3
  <2> QED BY <1>6, <2>1, <2>2 DEF ClearInv
<1>11. JobInv'
  BY <1>6, <1>9, <1>10 DEF JobInv, CreateInv, StageInv, MoveInv, RepairInv
<1>12. TypeInv' /\ SnapshotKept'
  BY <1>1, <1>2, <1>6, <1>8 DEF IInv, TypeInv, SnapshotKept
<1> QED BY <1>1, <1>2, <1>11, <1>12, NothingReported DEF IInv

LEMMA ClearDoneStep ==
    ASSUME IInv, clear_done
    PROVE  IInv'
<1> DEFINE T == job.tag
           E == Entries(Tail(dir))
<1>1. /\ job.op = "clear" /\ job.todo = {} /\ Start("move", T, E, job.kept)
      /\ UNCHANGED <<dir, snaps, acked, before, result>>
  BY DEF clear_done
<1>2. /\ T \in Tags /\ result.op = "idle" /\ dir \in Tree /\ Len(dir) >= 1 /\ Len(dir) \in Nat
      /\ job.kept \in BOOLEAN
  BY <1>1, TreeFacts DEF IInv, TypeInv, JobType
<1>3. /\ ~job.kept => \A f \in Files : dir[1][f] = Absent
      /\ Clean(T) => Len(dir) = 2 /\ dir[2] = acked[T][1]
  BY <1>1 DEF IInv, JobInv, ClearInv, StagedInv
<1>4. /\ Tail(dir) \in Tree /\ Len(Tail(dir)) = Len(dir) - 1
      /\ \A k \in 1 .. Len(dir) - 1 : Tail(dir)[k] = dir[k + 1]
  BY <1>2, TailFacts
<1>5. E \subseteq (1 .. Len(dir) - 1) \X Files /\ E \in SUBSET (Nat \X Files) /\ "move" \in Calls
  BY <1>2, <1>4 DEF Entries, Calls
<1>6. Len(dir) = 2 => \A f \in Files : <<1, f>> \notin E => dir[2][f] = Absent
  <2>1. Len(dir) = 2 => 1 \in 1 .. Len(Tail(dir)) /\ Tail(dir)[1] = dir[2]
    BY <1>4
  <2> QED BY <2>1 DEF Entries
<1> HIDE DEF E
<1>7. /\ job' \in JobType
      /\ job'.op = "move" /\ job'.tag = T /\ job'.todo = E /\ job'.kept = job.kept
  BY <1>1, <1>2, <1>5, StartFacts
<1>8. StagedInv'
  BY <1>1, <1>3, <1>7 DEF StagedInv, Clean
<1>9. MoveInv'
  BY <1>1, <1>3, <1>5, <1>6, <1>7 DEF MoveInv, Clean
<1>10. JobInv'
  BY <1>7, <1>8, <1>9 DEF JobInv, CreateInv, StageInv, ClearInv, RepairInv
<1>11. TypeInv' /\ SnapshotKept'
  BY <1>1, <1>2, <1>7 DEF IInv, TypeInv, SnapshotKept
<1> QED BY <1>1, <1>2, <1>10, <1>11, NothingReported DEF IInv

LEMMA MoveDoneStep ==
    ASSUME IInv, move_done
    PROVE  IInv'
<1> DEFINE T == job.tag
<1>1. /\ job.op = "move" /\ job.todo = {} /\ Finish("restore") /\ UNCHANGED <<snaps, acked, before>>
      /\ dir' = <<dir[1]>> \/ \E left \in Remains(Tail(dir)) : dir' = <<dir[1]>> \o left
  BY DEF move_done
<1>2. /\ TypeInv /\ T \in Tags /\ dir \in Tree /\ Len(dir) >= 1 /\ Len(dir) \in Nat /\ dir[1] \in Level
  BY <1>1, TreeFacts DEF IInv, TypeInv
<1>3. dir' \in Tree /\ Len(dir') >= 1 /\ dir'[1] = dir[1]
  <2>1. CASE dir' = <<dir[1]>>
    <3>1. <<dir[1]>> \in Seq(Level) /\ Len(<<dir[1]>>) = 1 /\ <<dir[1]>>[1] = dir[1]
      BY <1>2
    <3> QED BY <2>1, <3>1 DEF Tree
  <2>2. CASE \E left \in Remains(Tail(dir)) : dir' = <<dir[1]>> \o left
    <3>1. PICK left \in Remains(Tail(dir)) : dir' = <<dir[1]>> \o left
      BY <2>2
    <3>2. left \in Tree /\ Len(left) \in Nat
      BY <1>2, TailFacts, RemainsFacts, TreeFacts
    <3> QED BY <1>2, <3>1, <3>2, StageFacts
  <2> QED BY <1>1, <2>1, <2>2
<1>4. /\ job'.op = "idle" /\ result'.op = "restore" /\ result'.tag = T /\ result'.kept = job.kept
      /\ job' \in JobType
      /\ result' \in ResultType
  BY <1>1, <1>2, FinishFacts
<1>5. Clean(T) /\ ~job.kept => dir[1] = acked[T][1]
  <2> SUFFICES ASSUME Clean(T), ~job.kept PROVE dir[1] = acked[T][1]
    OBVIOUS
  <2>1. Len(dir) = 2 /\ dir[2] = acked[T][1] /\ \A f \in Files : dir[1][f] = dir[2][f]
    BY <1>1 DEF IInv, JobInv, StagedInv, MoveInv
  <2>2. dir[1] \in [Files -> Value] /\ dir[2] \in [Files -> Value]
    BY <1>2, <2>1, TreeFacts DEF Level
  <2>3. dir[1] = dir[2]
    BY <2>1, <2>2
  <2> QED BY <2>1, <2>3
<1>6. RestoreReport' /\ RepairHeals'
  BY <1>1, <1>3, <1>4, <1>5 DEF RestoreReport, RestoreExact, StagingHarmless, RepairHeals, Clean
<1>7. TypeInv' /\ SnapshotKept'
  BY <1>1, <1>2, <1>3, <1>4 DEF IInv, TypeInv, SnapshotKept
<1> QED BY <1>4, <1>6, <1>7, NothingUnderWay DEF IInv
-----------------------------------------------------------------------------
(* A file is copied.                                                       *)

LEMMA AnyWrite ==
    ASSUME IInv, job.op \in Calls \ {"clear"}, NEW e \in job.todo, NEW v \in Value, Written(e, v), acked' = acked
    PROVE  /\ dir' \in Tree /\ Len(dir') = Len(dir) /\ (job.op = "stage" => dir'[1] = dir[1])
           /\ snaps' \in [Tags -> Tree \cup {NoSnap}] /\ SnapshotKept'
<1>1. /\ TypeInv /\ CreateInv /\ StageInv /\ MoveInv /\ RepairInv /\ SnapshotKept
      /\ dir \in Tree /\ snaps \in [Tags -> Tree \cup {NoSnap}] /\ job.tag \in Tags
  BY DEF IInv, JobInv, TypeInv, Calls
<1>2. CASE job.op = "create"
  <2>1. /\ dir' = dir /\ snaps' \in [Tags -> Tree \cup {NoSnap}]
        /\ \A t \in Tags : t # job.tag => snaps'[t] = snaps[t]
    BY <1>1, <1>2, CreateWrite
  <2>2. acked[job.tag] = NoSnap
    BY <1>1, <1>2 DEF CreateInv
  <2>3. SnapshotKept'
    BY <1>1, <2>1, <2>2 DEF SnapshotKept
  <2> QED BY <1>1, <1>2, <2>1, <2>3
<1>3. CASE job.op = "stage"
  <2>1. snaps' = snaps /\ dir' \in Tree /\ Len(dir') = Len(dir) /\ dir'[1] = dir[1]
    BY <1>1, <1>3, StageWrite
  <2> QED BY <1>1, <2>1 DEF SnapshotKept
<1>4. CASE job.op \in {"move", "repair"}
  <2>1. snaps' = snaps /\ dir' \in Tree /\ Len(dir') = Len(dir)
    BY <1>1, <1>4, LevelWrite
  <2> QED BY <1>1, <1>4, <2>1 DEF SnapshotKept
<1> QED BY <1>2, <1>3, <1>4 DEF Calls

LEMMA CutShortStep ==
    ASSUME IInv, NEW e \in job.todo, copy_cut_short(e)
    PROVE  IInv'
<1>1. /\ job.op \in Calls \ {"clear"} /\ Written(e, Torn) /\ Stop /\ UNCHANGED <<acked, before>>
  BY DEF copy_cut_short
<1>2. Torn \in Value /\ Len(dir) >= 1 /\ job.op # "idle"
  BY <1>1 DEF IInv, TypeInv, Value, Calls
<1>3. /\ dir' \in Tree /\ Len(dir') = Len(dir) /\ (job.op = "stage" => dir'[1] = dir[1])
      /\ snaps' \in [Tags -> Tree \cup {NoSnap}] /\ SnapshotKept'
  BY <1>1, <1>2, AnyWrite
<1> QED BY <1>1, <1>2, <1>3, StopStep

LEMMA SourceFacts ==
    ASSUME IInv, job.op \in Calls \ {"clear"}, NEW e \in job.todo
    PROVE  Source(e) \in Value
<1>1. /\ dir \in Tree /\ Len(dir) \in Nat
  BY TreeFacts DEF IInv, TypeInv
<1>2. CASE job.op = "create"
  <2>1. e \in Entries(dir) /\ Source(e) = dir[e[1]][e[2]]
    BY <1>2 DEF IInv, JobInv, CreateInv, Copied, Source
  <2> QED BY <1>1, <2>1, EntriesFacts, TreeFacts
<1>3. CASE job.op = "move"
  <2>1. e[1] \in 1 .. Len(dir) - 1 /\ e[2] \in Files /\ Source(e) = dir[e[1] + 1][e[2]]
    BY <1>3 DEF IInv, JobInv, MoveInv, Source
  <2>2. e[1] + 1 \in 1 .. Len(dir)
    BY <1>1, <2>1
  <2> QED BY <1>1, <2>1, <2>2, TreeFacts
<1>4. CASE job.op \in {"stage", "repair"}
  <2>1. /\ snaps[job.tag] \in Tree /\ e \in Entries(snaps[job.tag])
        /\ Source(e) = snaps[job.tag][e[1]][e[2]]
    BY <1>4 DEF IInv, JobInv, StageInv, RepairInv, Copied, Source
  <2> QED BY <2>1, EntriesFacts, TreeFacts
<1> QED BY <1>2, <1>3, <1>4 DEF Calls

(* What is left to do after file e.                                        *)
LEMMA ListedFacts ==
    ASSUME TypeInv, NEW e \in job.todo, e[1] >= 1, NEW todo \in Listed(e)
    PROVE  /\ todo \in SUBSET (Nat \X Files)
           /\ job.op # "move" \/ e[1] = 1 => todo = job.todo \ {e}
           /\ todo \subseteq (job.todo \ {e}) \cup (IF e[1] > 1 THEN {<<e[1] - 1, e[2]>>} ELSE {})
<1>1. e[1] \in Nat /\ e[2] \in Files /\ job.todo \in SUBSET (Nat \X Files)
  BY TodoFacts DEF TypeInv
<1>2. CASE todo = job.todo \ {e}
  BY <1>1, <1>2
<1>3. CASE todo = (job.todo \ {e}) \cup {<<e[1] - 1, e[2]>>} /\ job.op = "move" /\ e[1] > 1
  <2>1. e[1] - 1 \in Nat /\ ~(e[1] = 1)
    BY <1>1, <1>3
  <2> QED BY <1>1, <1>3, <2>1
<1> QED BY <1>2, <1>3 DEF Listed

LEMMA CopyCreate ==
    ASSUME IInv, job.op = "create", NEW e \in job.todo, Written(e, Source(e)), Source(e) \in Value,
           job'.op = "create", job'.tag = job.tag, job'.todo = job.todo \ {e}, acked' = acked
    PROVE  JobInv'
<1> DEFINE T == job.tag
<1>1. /\ dir \in Tree /\ Len(dir) \in Nat /\ acked[T] = NoSnap /\ job.todo \subseteq Entries(dir)
      /\ \A k \in 1 .. Len(dir) : \A f \in Files : <<k, f>> \notin job.todo => snaps[T][k + 0][f] = dir[k][f]
      /\ TypeInv /\ CreateInv
  BY TreeFacts DEF IInv, TypeInv, JobInv, CreateInv, Copied
<1>2. /\ dir' = dir /\ e[1] \in 1 .. Len(dir) /\ e[2] \in Files /\ e = <<e[1], e[2]>>
      /\ snaps'[T] \in Tree /\ Len(snaps'[T]) = Len(dir)
      /\ snaps'[T][e[1]][e[2]] = Source(e)
      /\ \A j \in 1 .. Len(dir) : \A g \in Files : <<j, g>> # e => snaps'[T][j][g] = snaps[T][j][g]
  BY <1>1, CreateWrite
<1>3. Source(e) = dir[e[1]][e[2]]
  BY DEF Source
<1>4. ASSUME NEW k \in 1 .. Len(dir), NEW f \in Files, <<k, f>> \notin job.todo \ {e}
      PROVE  snaps'[T][k + 0][f] = dir[k][f]
  <2>1. k + 0 = k
    BY <1>1
  <2>2. CASE <<k, f>> = e
    <3>1. k = e[1] /\ f = e[2]
      BY <1>2, <2>2
    <3> QED BY <1>2, <1>3, <2>1, <3>1
  <2>3. CASE <<k, f>> # e
    BY <1>1, <1>2, <1>4, <2>1, <2>3
  <2> QED BY <2>2, <2>3
<1>5. Copied(dir, snaps[job.tag], 0)'
  BY <1>1, <1>2, <1>4 DEF Copied
<1> QED BY <1>1, <1>2, <1>5 DEF JobInv, CreateInv, StageInv, ClearInv, StagedInv, MoveInv, RepairInv

LEMMA CopyStage ==
    ASSUME IInv, job.op = "stage", NEW e \in job.todo, Written(e, Source(e)), Source(e) \in Value,
           job'.op = "stage", job'.tag = job.tag, job'.todo = job.todo \ {e}, job'.kept = job.kept,
           UNCHANGED <<acked, before>>
    PROVE  JobInv'
<1> DEFINE T == job.tag
           s == snaps[T]
<1>1. /\ s \in Tree /\ Len(s) \in Nat /\ Len(dir) = Len(s) + 1 /\ dir[1] = before /\ ~job.kept
      /\ job.todo \subseteq Entries(s)
      /\ \A k \in 1 .. Len(s) : \A f \in Files : <<k, f>> \notin job.todo => dir[k + 1][f] = s[k][f]
      /\ TypeInv /\ StageInv
  BY TreeFacts DEF IInv, JobInv, StageInv, Copied
<1>2. /\ snaps' = snaps /\ e \in Entries(s)
      /\ Len(dir') = Len(dir) /\ dir'[1] = dir[1]
      /\ dir'[e[1] + 1][e[2]] = Source(e)
      /\ \A j \in 1 .. Len(s) : \A g \in Files : <<j, g>> # e => dir'[j + 1][g] = dir[j + 1][g]
  BY <1>1, StageWrite
<1>3. Source(e) = s[e[1]][e[2]] /\ e = <<e[1], e[2]>>
  BY <1>2, EntriesFacts DEF Source
<1>4. ASSUME NEW k \in 1 .. Len(s), NEW f \in Files, <<k, f>> \notin job.todo \ {e}
      PROVE  dir'[k + 1][f] = s[k][f]
  <2>1. CASE <<k, f>> = e
    <3>1. k = e[1] /\ f = e[2]
      BY <1>3, <2>1
    <3> QED BY <1>2, <1>3, <3>1
  <2>2. CASE <<k, f>> # e
    BY <1>1, <1>2, <1>4, <2>2
  <2> QED BY <2>1, <2>2
<1>5. snaps'[job'.tag] = s
  BY <1>2
<1> HIDE DEF s
<1>6. Copied(snaps[job.tag], dir, 1)'
  BY <1>1, <1>4, <1>5 DEF Copied
<1> QED BY <1>1, <1>2, <1>5, <1>6 DEF JobInv, CreateInv, StageInv, ClearInv, StagedInv, MoveInv, RepairInv

LEMMA CopyMove ==
    ASSUME IInv, job.op = "move", NEW e \in job.todo, Written(e, Source(e)), Source(e) \in Value,
           job'.op = "move", job'.tag = job.tag, job'.todo \in Listed(e), job'.kept = job.kept,
           UNCHANGED acked
    PROVE  JobInv'
<1> DEFINE T == job.tag
<1>1. /\ dir \in Tree /\ Len(dir) \in Nat /\ job.todo \subseteq (1 .. Len(dir) - 1) \X Files
      /\ Clean(T) => Len(dir) = 2 /\ dir[2] = acked[T][1]
      /\ Clean(T) /\ ~job.kept => \A f \in Files : <<1, f>> \notin job.todo => dir[1][f] = dir[2][f]
      /\ TypeInv /\ MoveInv /\ RepairInv
  BY TreeFacts DEF IInv, TypeInv, JobInv, StagedInv, MoveInv
<1>2. /\ e = <<e[1], e[2]>> /\ e[2] \in Files /\ Len(dir') = Len(dir)
      /\ dir'[e[1]][e[2]] = Source(e)
      /\ \A j \in 1 .. Len(dir) : \A g \in Files : <<j, g>> # e => dir'[j][g] = dir[j][g]
      /\ \A j \in 1 .. Len(dir) : j # e[1] => dir'[j] = dir[j]
  BY <1>1, LevelWrite
<1>3. Source(e) = dir[e[1] + 1][e[2]] /\ e[1] \in 1 .. Len(dir) - 1
  BY <1>1 DEF Source
<1>4. /\ job.op # "move" \/ e[1] = 1 => job'.todo = job.todo \ {e}
      /\ job'.todo \subseteq (job.todo \ {e}) \cup (IF e[1] > 1 THEN {<<e[1] - 1, e[2]>>} ELSE {})
  BY <1>1, <1>3, ListedFacts
<1>5. job'.todo \subseteq (1 .. Len(dir) - 1) \X Files
  <2>1. e[1] > 1 => e[1] - 1 \in 1 .. Len(dir) - 1
    BY <1>1, <1>3
  <2> QED BY <1>1, <1>2, <1>4, <2>1
<1>6. ASSUME Clean(T)
      PROVE  /\ dir'[2] = acked[T][1] /\ dir'[2] = dir[2]
             /\ ~job.kept => \A f \in Files : <<1, f>> \notin job'.todo => dir'[1][f] = dir'[2][f]
  <2>1. e[1] = 1 /\ Len(dir) = 2 /\ job'.todo = job.todo \ {e}
    <3>1. Len(dir) = 2
      BY <1>1, <1>6
    <3>2. e[1] = 1
      BY <1>3, <3>1
    <3> QED BY <1>4, <3>1, <3>2
  <2>2. 1 \in 1 .. Len(dir) /\ 2 \in 1 .. Len(dir) /\ 2 # e[1] /\ e[1] + 1 = 2
    BY <2>1
  <2>3. dir'[2] = dir[2] /\ Source(e) = dir[2][e[2]]
    BY <1>2, <1>3, <2>2
  <2>4. ASSUME ~job.kept, NEW f \in Files, <<1, f>> \notin job.todo \ {e}
        PROVE  dir'[1][f] = dir[2][f]
    <3>1. CASE f = e[2]
      BY <1>2, <2>1, <2>3, <3>1
    <3>2. CASE f # e[2]
      <4>1. <<1, f>> # e
        BY <1>2, <3>2
      <4> QED BY <1>1, <1>2, <1>6, <2>2, <2>4, <4>1
    <3> QED BY <3>1, <3>2
  <2> QED BY <1>1, <1>6, <2>1, <2>3, <2>4
<1>7. StagedInv'
  BY <1>1, <1>2, <1>6 DEF StagedInv, Clean
<1>8. MoveInv'
  BY <1>2, <1>5, <1>6 DEF MoveInv, Clean
<1> QED BY <1>7, <1>8 DEF JobInv, CreateInv, StageInv, ClearInv, RepairInv

LEMMA CopyRepair ==
    ASSUME IInv, job.op = "repair", NEW e \in job.todo, Source(e) \in Value,
           IF Needed(e) THEN Written(e, Source(e)) ELSE UNCHANGED <<dir, snaps>>,
           job'.op = "repair", job'.tag = job.tag, job'.todo = job.todo \ {e}
    PROVE  JobInv'
<1> DEFINE s == snaps[job.tag]
<1>1. /\ s \in Tree /\ Len(s) \in Nat /\ Len(dir) \in Nat /\ Len(dir) >= Len(s) /\ job.todo \subseteq Entries(s)
      /\ \A x \in Entries(s) \ job.todo : Healed(s, x)
      /\ TypeInv /\ MoveInv /\ RepairInv
  BY TreeFacts DEF IInv, TypeInv, JobInv, RepairInv
<1>2. Source(e) = s[e[1]][e[2]] /\ Source(e) # Absent /\ e = <<e[1], e[2]>> /\ e \in Entries(s)
  BY <1>1, EntriesFacts DEF Source
<1>3. /\ snaps' = snaps /\ Len(dir') = Len(dir)
      /\ \A j \in 1 .. Len(dir) : \A g \in Files : <<j, g>> # e => dir'[j][g] = dir[j][g]
      /\ dir'[e[1]][e[2]] # Absent /\ SizeOf(dir'[e[1]][e[2]]) = SizeOf(Source(e))
  <2>1. CASE Needed(e)
    <3>1. /\ snaps' = snaps /\ Len(dir') = Len(dir) /\ dir'[e[1]][e[2]] = Source(e)
          /\ \A j \in 1 .. Len(dir) : \A g \in Files : <<j, g>> # e => dir'[j][g] = dir[j][g]
      BY <1>1, <2>1, LevelWrite
    <3> QED BY <1>2, <3>1
  <2>2. CASE ~Needed(e)
    <3>1. UNCHANGED <<dir, snaps>>
      BY <2>2
    <3>2. SizeOf(dir[e[1]][e[2]]) = SizeOf(Source(e)) /\ SizeOf(dir[e[1]][e[2]]) # 0
      BY <2>2 DEF Needed, Target
    <3>3. dir[e[1]][e[2]] # Absent
      BY <3>2, SnapshotAssumption DEF SizeOf
    <3> QED BY <3>1, <3>2, <3>3
  <2> QED BY <2>1, <2>2
<1>4. ASSUME NEW x \in Entries(s), x \notin job.todo \ {e}
      PROVE  /\ dir'[x[1]][x[2]] # Absent
             /\ SizeOf(dir'[x[1]][x[2]]) = SizeOf(s[x[1]][x[2]])
  <2>1. CASE x = e
    BY <1>2, <1>3, <2>1
  <2>2. CASE x # e
    <3>1. x = <<x[1], x[2]>> /\ x[1] \in 1 .. Len(s) /\ x[2] \in Files
      BY EntriesFacts
    <3>2. x[1] \in 1 .. Len(dir)
      BY <1>1, <3>1
    <3>3. dir'[x[1]][x[2]] = dir[x[1]][x[2]]
      BY <1>3, <2>2, <3>1, <3>2
    <3>4. Healed(s, x)
      BY <1>1, <1>4, <2>2
    <3> QED BY <3>3, <3>4 DEF Healed, Target
  <2> QED BY <2>1, <2>2
<1>5. snaps'[job'.tag] = s
  BY <1>3
<1> HIDE DEF s
<1>6. RepairInv'
  BY <1>1, <1>3, <1>4, <1>5 DEF RepairInv, Healed, Target
<1> QED BY <1>6 DEF JobInv, CreateInv, StageInv, ClearInv, StagedInv, MoveInv

LEMMA CopyStep ==
    ASSUME IInv, NEW e \in job.todo, copy_file_secure(e)
    PROVE  IInv'
<1>1. /\ job.op \in Calls \ {"clear"} /\ UNCHANGED <<acked, before, result>>
      /\ IF Needed(e) THEN Written(e, Source(e)) ELSE UNCHANGED <<dir, snaps>>
      /\ \E todo \in Listed(e) : Start(job.op, job.tag, todo, job.kept)
  BY DEF copy_file_secure
<1>2. PICK todo \in Listed(e) : Start(job.op, job.tag, todo, job.kept)
  BY <1>1
<1>3. /\ TypeInv /\ job.op \in Calls /\ job.op # "idle" /\ job.tag \in Tags /\ job.kept \in BOOLEAN
      /\ result.op = "idle" /\ SnapshotKept
  BY <1>1 DEF IInv, TypeInv, Calls, JobType
<1>4. Source(e) \in Value
  BY <1>1, SourceFacts
<1>5. e[1] >= 1
  <2>1. CASE job.op \in {"create", "stage", "repair"}
    <3>1. e \in Entries(dir) \/ e \in Entries(snaps[job.tag])
      BY <2>1 DEF IInv, JobInv, CreateInv, StageInv, RepairInv, Copied
    <3> QED BY <3>1, EntriesFacts
  <2>2. CASE job.op = "move"
    BY <2>2 DEF IInv, JobInv, MoveInv
  <2> QED BY <1>1, <2>1, <2>2 DEF Calls
<1>6. /\ todo \in SUBSET (Nat \X Files) /\ (job.op # "move" => todo = job.todo \ {e})
  BY <1>3, <1>5, ListedFacts
<1>7. /\ job' \in JobType
      /\ job'.op = job.op /\ job'.tag = job.tag /\ job'.todo = todo /\ job'.kept = job.kept
  BY <1>2, <1>3, <1>6, StartFacts
<1>8. /\ dir' \in Tree /\ Len(dir') = Len(dir) /\ snaps' \in [Tags -> Tree \cup {NoSnap}] /\ SnapshotKept'
  <2>1. CASE Needed(e)
    BY <1>1, <1>4, <2>1, AnyWrite
  <2>2. CASE ~Needed(e)
    BY <1>1, <1>3, <2>2 DEF TypeInv, SnapshotKept
  <2> QED BY <2>1, <2>2
<1>9. TypeInv'
  BY <1>1, <1>3, <1>7, <1>8 DEF TypeInv
<1>10. job.op # "repair" => Written(e, Source(e))
  BY <1>1 DEF Needed
<1>11. JobInv'
  <2>1. CASE job.op = "create"
    BY <1>1, <1>4, <1>6, <1>7, <1>10, <2>1, CopyCreate
  <2>2. CASE job.op = "stage"
    BY <1>1, <1>4, <1>6, <1>7, <1>10, <2>2, CopyStage
  <2>3. CASE job.op = "move"
    BY <1>1, <1>4, <1>7, <1>10, <2>3, CopyMove
  <2>4. CASE job.op = "repair"
    BY <1>1, <1>4, <1>6, <1>7, <2>4, CopyRepair
  <2> QED BY <1>1, <2>1, <2>2, <2>3, <2>4 DEF Calls
<1> QED BY <1>1, <1>3, <1>8, <1>9, <1>11, NothingReported DEF IInv
-----------------------------------------------------------------------------
LEMMA StepHolds == IInv /\ [Next]_vars => IInv'
<1> SUFFICES ASSUME IInv, [Next]_vars PROVE IInv'
  OBVIOUS
<1>1. CASE UNCHANGED vars
  <2>1. UNCHANGED <<dir, snaps, job, acked, before, result>>
    BY <1>1 DEF vars
  <2>2. TypeInv' /\ SnapshotKept'
    BY <2>1 DEF IInv, TypeInv, SnapshotKept
  <2>3. RestoreReport' /\ RepairHeals'
    BY <2>1 DEF IInv, RestoreReport, RestoreExact, StagingHarmless, RepairHeals, Clean, Target
  <2>4. CreateInv' /\ StageInv'
    BY <2>1 DEF IInv, JobInv, CreateInv, StageInv, Copied
  <2>5. ClearInv' /\ StagedInv' /\ MoveInv'
    BY <2>1 DEF IInv, JobInv, ClearInv, StagedInv, MoveInv, Clean
  <2>6. RepairInv'
    BY <2>1 DEF IInv, JobInv, RepairInv, Healed, Target
  <2> QED BY <2>2, <2>3, <2>4, <2>5, <2>6 DEF IInv, JobInv
<1>2. CASE \E f \in Files, v \in Contents \cup {Absent} : Edit(f, v)
  BY <1>2, EditStep
<1>3. CASE \E t \in Tags :
              \/ vault_snapshot_create(t) \/ vault_snapshot_delete(t)
              \/ vault_snapshot_restore(t) \/ restore_refused(t) \/ vault_repair(t)
  BY <1>3, CreateStep, DeleteStep, RestoreStep, RefusedStep, RepairStep
<1>4. CASE Step
  BY <1>4, CreateDoneStep, StageDoneStep, ClearDoneStep, MoveDoneStep, RepairDoneStep,
     ClearEntryStep, CopyStep, CutShortStep DEF Step
<1>5. CASE Interrupted
  BY <1>5, InterruptedStep
<1> QED BY <1>1, <1>2, <1>3, <1>4, <1>5 DEF Next

(* The inductive invariant holds throughout.                               *)
THEOREM InvariantHolds == Spec => []IInv
BY InitHolds, StepHolds, PTL DEF Spec

(* An acknowledged snapshot is immutable until it is deleted, and a        *)
(* restore removes files of the vault only while the stage holds all of    *)
(* the snapshot, whichever calls fail or are killed and where.             *)
THEOREM SnapshotsStayComplete == Spec => []CopiesComplete
<1>1. ASSUME IInv PROVE ClearedIsStaged
  <2> SUFFICES ASSUME job.op \in {"clear", "move"}, Clean(job.tag)
               PROVE  Tail(dir) = acked[job.tag]
    BY DEF ClearedIsStaged
  <2>1. /\ Len(dir) = 2 /\ dir[2] = acked[job.tag][1] /\ dir \in Tree /\ Len(dir) >= 1
        /\ job.tag \in Tags /\ acked[job.tag] \in Tree /\ Len(acked[job.tag]) = 1
    BY <1>1 DEF IInv, TypeInv, JobInv, StagedInv, Clean
  <2>2. Tail(dir) \in Tree /\ Len(Tail(dir)) = 1 /\ \A k \in 1 .. 1 : Tail(dir)[k] = dir[k + 1]
    <3>1. /\ Tail(dir) \in Tree /\ Len(Tail(dir)) = Len(dir) - 1
          /\ \A k \in 1 .. Len(dir) - 1 : Tail(dir)[k] = dir[k + 1]
      BY <2>1, TailFacts
    <3>2. Len(dir) - 1 = 1
      BY <2>1
    <3> QED BY <3>1, <3>2
  <2>3. \A k \in 1 .. 1 : k = 1 /\ k + 1 = 2
    OBVIOUS
  <2>4. \A k \in 1 .. 1 : Tail(dir)[k] = acked[job.tag][k]
    BY <2>1, <2>2, <2>3
  <2> QED BY <2>1, <2>2, <2>4, SameTree
<1>2. IInv => CopiesComplete
  BY <1>1 DEF IInv, CopiesComplete
<1> QED BY <1>2, InvariantHolds, PTL

(* A restore that returns Ok left the snapshot's files and no others; one  *)
(* that ended while it staged left the vault's files alone.                *)
THEOREM RestoreReportsTruth == Spec => []RestoreReport
BY InvariantHolds, PTL DEF IInv

(* A repair that returns Ok left no file of the snapshot missing or of     *)
(* another length.                                                         *)
THEOREM RepairIsComplete == Spec => []RepairHeals
BY InvariantHolds, PTL DEF IInv
=============================================================================
