-------------------------- MODULE Isolation_proofs --------------------------
(***************************************************************************)
(* Proofs about the three ways nuk4sd isolates: the decoy tree that the    *)
(* engine puts around a vault (VaultEngine), the processes of a sandbox    *)
(* session (Sandbox) and the file system a jailed program sees (JailTree). *)
(***************************************************************************)
EXTENDS VaultEngine, Sandbox, JailTree, TLAPS, WellFoundedInduction, NaturalsInduction,
        SequenceTheorems, FiniteSetTheorems

(* Part 1.  The isolation engine.                                          *)

LevelInv == level \in Level \cup {0} /\ intact \in Level \cup {0}

(* The inductive invariant.                                                *)
EngineInv == LevelInv /\ BuiltIsComplete /\ BuiltIsCapped /\ ValidatedIsComplete
-----------------------------------------------------------------------------
(* A nonempty set of naturals has a least element.                         *)
LEMMA LeastNat ==
    ASSUME NEW S \in SUBSET Nat, S # {}
    PROVE  \E m \in S : \A k \in S : m <= k
<1>1. PICK m \in S : \A y \in S : ~(<<y, m>> \in OpToRel(<, Nat))
  BY NatLessThanWellFounded, WFMin, Zenon
<1>2. \A y \in S : ~(y < m)
  BY <1>1 DEF OpToRel
<1> QED BY <1>2

(* Nodes are sequences, and a node above another one is shorter.           *)
LEMMA NodeIsSeq ==
    ASSUME NEW l \in Level, NEW n \in Nodes(l)
    PROVE  n \in Seq(Nat) /\ Len(n) \in Nat
<1>1. ENGINE_TREE_BRANCH[l] \in Nat
  BY EngineAssumption
<1>2. ENGINE_TREE_DEPTH[l] \in Nat
  BY EngineAssumption, ElementOfSeq, LenProperties DEF Level
<1>3. PICK d \in 1 .. ENGINE_TREE_DEPTH[l] : n \in [1 .. d -> 1 .. ENGINE_TREE_BRANCH[l]]
  BY DEF Nodes, Tree
<1>4. d \in Nat /\ n \in [1 .. d -> Nat]
  BY <1>1, <1>2, <1>3
<1>5. n \in Seq(Nat)
  BY <1>4, SeqDef
<1> QED BY <1>5, LenProperties

(* A node above another one has the shorter name.                          *)
LEMMA AboveIsShorter ==
    ASSUME NEW n \in Seq(Nat), NEW m \in Seq(Nat), m # n, Under(n, m)
    PROVE  Len(m) < Len(n)
<1>1. Len(m) <= Len(n) /\ SubSeq(n, 1, Len(m)) = m /\ Len(m) \in Nat /\ Len(n) \in Nat
  BY LenProperties DEF Under
<1>2. SUFFICES ASSUME Len(m) = Len(n) PROVE FALSE
  BY <1>1
<1>3. SubSeq(n, 1, Len(n)) = n
  BY SubSeqFull
<1> QED BY <1>1, <1>2, <1>3

(* engine_validate_subtree finds the topmost missing node of a branch, so  *)
(* a walk that finds none has come by every node.                          *)
LEMMA WalkIsComplete ==
    ASSUME NEW l \in Level, missing_layers(l) = {}
    PROVE  Nodes(l) \subseteq dirs /\ Visited(l) = Nodes(l)
<1> DEFINE Gone == Nodes(l) \ dirs
           Lengths == {Len(n) : n \in Gone}
<1>1. Gone = {}
  <2> SUFFICES ASSUME Gone # {} PROVE FALSE
    OBVIOUS
  <2>1. Lengths \in SUBSET Nat /\ Lengths # {}
    BY NodeIsSeq
  <2>2. PICK k \in Lengths : \A j \in Lengths : k <= j
    BY <2>1, LeastNat
  <2>3. PICK n \in Gone : Len(n) = k
    OBVIOUS
  <2>4. \A m \in Nodes(l) : m # n /\ Under(n, m) => m \in dirs
    <3> SUFFICES ASSUME NEW m \in Nodes(l), m # n, Under(n, m), m \notin dirs PROVE FALSE
      OBVIOUS
    <3>1. m \in Seq(Nat) /\ n \in Seq(Nat) /\ Len(m) \in Nat /\ Len(n) \in Nat
      BY NodeIsSeq
    <3>2. Len(m) < Len(n)
      BY <3>1, AboveIsShorter
    <3>3. Len(m) \in Lengths
      OBVIOUS
    <3>4. Len(n) <= Len(m)
      BY <2>2, <2>3, <3>3
    <3> QED BY <3>1, <3>2, <3>4
  <2>5. n \in missing_layers(l)
    BY <2>4 DEF missing_layers, Visited
  <2> QED BY <2>5
<1>2. Visited(l) = Nodes(l)
  BY <1>1 DEF Visited
<1> QED BY <1>1, <1>2
-----------------------------------------------------------------------------
(* The cap.                                                                *)

(* The loop of engine_estimate_nodes: the function it is modelled by       *)
(* exists, so its rounds are what its definition says.                     *)
IsLoop(f, n, b) ==
    f = [i \in 0 .. n |->
            IF i = 0 THEN [total |-> 0, level_nodes |-> b]
            ELSE [total |-> f[i - 1].total + f[i - 1].level_nodes,
                  level_nodes |-> f[i - 1].level_nodes * b]]

(* There is a function that obeys the recursion, for every number of       *)
(* rounds.                                                                 *)
LEMMA LoopExists ==
    ASSUME NEW b, NEW d \in Nat
    PROVE  \E f : IsLoop(f, d, b)
<1> DEFINE Bad == {n \in Nat : ~\E f : IsLoop(f, n, b)}
<1> SUFFICES Bad = {}
  OBVIOUS
<1> SUFFICES ASSUME Bad # {} PROVE FALSE
  OBVIOUS
<1>1. PICK m \in Bad : \A k \in Bad : m <= k
  BY LeastNat
<1>2. m \in Nat /\ ~\E f : IsLoop(f, m, b)
  OBVIOUS
<1>3. CASE m = 0
  <2>1. IsLoop([i \in 0 .. 0 |-> [total |-> 0, level_nodes |-> b]], 0, b)
    BY DEF IsLoop
  <2> QED BY <1>2, <1>3, <2>1
<1>4. CASE m # 0
  <2>1. m - 1 \in Nat /\ m - 1 \notin Bad
    BY <1>1, <1>2, <1>4
  <2>2. PICK f : IsLoop(f, m - 1, b)
    BY <2>1
  <2> DEFINE last == [total |-> f[m - 1].total + f[m - 1].level_nodes,
                      level_nodes |-> f[m - 1].level_nodes * b]
             g == [i \in 0 .. m |-> IF i = m THEN last ELSE f[i]]
             h == [i \in 0 .. m |->
                     IF i = 0 THEN [total |-> 0, level_nodes |-> b]
                     ELSE [total |-> g[i - 1].total + g[i - 1].level_nodes,
                           level_nodes |-> g[i - 1].level_nodes * b]]
  <2>3. ASSUME NEW i \in 0 .. m PROVE g[i] = h[i]
    <3>1. CASE i = m
      <4>1. m - 1 \in 0 .. m /\ m - 1 # m /\ i # 0
        BY <1>2, <1>4, <3>1
      <4>2. g[m - 1] = f[m - 1] /\ g[i] = last
        BY <3>1, <4>1
      <4> HIDE DEF g
      <4> QED BY <3>1, <4>1, <4>2
    <3>2. CASE i # m
      <4>1. i \in 0 .. (m - 1) /\ g[i] = f[i]
        BY <1>2, <3>2
      <4>2. f[i] = IF i = 0 THEN [total |-> 0, level_nodes |-> b]
                   ELSE [total |-> f[i - 1].total + f[i - 1].level_nodes,
                         level_nodes |-> f[i - 1].level_nodes * b]
        BY <2>2, <4>1 DEF IsLoop
      <4>3. i # 0 => g[i - 1] = f[i - 1]
        BY <1>2, <4>1
      <4> HIDE DEF g
      <4> QED BY <4>1, <4>2, <4>3
    <3> QED BY <3>1, <3>2
  <2>4. g = h
    BY <2>3
  <2>5. IsLoop(g, m, b)
    BY <2>4 DEF IsLoop
  <2> QED BY <1>2, <2>5
<1> QED BY <1>3, <1>4

(* So the one that is chosen obeys it.                                     *)
LEMMA RoundsUnfold ==
    ASSUME NEW b, NEW d \in Nat
    PROVE  Rounds(b, d) = [i \in 0 .. d |->
              IF i = 0 THEN [total |-> 0, level_nodes |-> b]
              ELSE [total |-> Rounds(b, d)[i - 1].total + Rounds(b, d)[i - 1].level_nodes,
                    level_nodes |-> Rounds(b, d)[i - 1].level_nodes * b]]
<1>1. Rounds(b, d) = CHOOSE f : IsLoop(f, d, b)
  BY DEF Rounds, IsLoop
<1>2. IsLoop(Rounds(b, d), d, b)
  BY <1>1, LoopExists
<1> QED BY <1>2 DEF IsLoop

(* Before the first round, and from one round to the next.                 *)
LEMMA FirstRound ==
    ASSUME NEW b, NEW d \in Nat
    PROVE  Rounds(b, d)[0].total = 0 /\ Rounds(b, d)[0].level_nodes = b
<1> DEFINE r == Rounds(b, d)
<1>1. r = [i \in 0 .. d |->
            IF i = 0 THEN [total |-> 0, level_nodes |-> b]
            ELSE [total |-> r[i - 1].total + r[i - 1].level_nodes,
                  level_nodes |-> r[i - 1].level_nodes * b]]
  BY RoundsUnfold
<1> HIDE DEF r
<1>2. r[0] = [total |-> 0, level_nodes |-> b]
  BY <1>1
<1> QED BY <1>2 DEF r

LEMMA NextRound ==
    ASSUME NEW b, NEW d \in Nat, NEW k \in 0 .. d, k < d
    PROVE  /\ Rounds(b, d)[k + 1].total = Rounds(b, d)[k].total + Rounds(b, d)[k].level_nodes
           /\ Rounds(b, d)[k + 1].level_nodes = Rounds(b, d)[k].level_nodes * b
<1> DEFINE r == Rounds(b, d)
<1>1. r = [i \in 0 .. d |->
            IF i = 0 THEN [total |-> 0, level_nodes |-> b]
            ELSE [total |-> r[i - 1].total + r[i - 1].level_nodes,
                  level_nodes |-> r[i - 1].level_nodes * b]]
  BY RoundsUnfold
<1> HIDE DEF r
<1>2. k + 1 \in 0 .. d /\ k + 1 # 0 /\ (k + 1) - 1 = k
  OBVIOUS
<1>3. r[k + 1] = [total |-> r[k].total + r[k].level_nodes, level_nodes |-> r[k].level_nodes * b]
  BY <1>1, <1>2
<1>4. r[k + 1].total = r[k].total + r[k].level_nodes /\ r[k + 1].level_nodes = r[k].level_nodes * b
  BY <1>3
<1> QED BY <1>4 DEF r

(* The nodes of one layer: those of the layer above, times the children.   *)
LayerNodes(b, n) == [1 .. n -> 1 .. b]

LEMMA NextLayer ==
    ASSUME NEW b \in Nat, NEW n \in Nat, IsFiniteSet(LayerNodes(b, n))
    PROVE  /\ IsFiniteSet(LayerNodes(b, n + 1))
           /\ Cardinality(LayerNodes(b, n + 1)) = Cardinality(LayerNodes(b, n)) * b
<1> DEFINE S == LayerNodes(b, n) \X (1 .. b)
           T == LayerNodes(b, n + 1)
           F == [x \in S |-> [j \in 1 .. n + 1 |-> IF j = n + 1 THEN x[2] ELSE x[1][j]]]
<1>1. IsFiniteSet(1 .. b) /\ Cardinality(1 .. b) = b
  BY FS_Interval
<1>2. IsFiniteSet(S) /\ Cardinality(S) = Cardinality(LayerNodes(b, n)) * b
  BY <1>1, FS_Product
<1>3. F \in [S -> T]
  <2> SUFFICES ASSUME NEW x \in S PROVE [j \in 1 .. n + 1 |-> IF j = n + 1 THEN x[2] ELSE x[1][j]] \in T
    OBVIOUS
  <2>1. x[1] \in [1 .. n -> 1 .. b] /\ x[2] \in 1 .. b
    BY DEF LayerNodes
  <2>2. ASSUME NEW j \in 1 .. n + 1 PROVE (IF j = n + 1 THEN x[2] ELSE x[1][j]) \in 1 .. b
    BY <2>1
  <2> QED BY <2>2 DEF LayerNodes
<1>4. ASSUME NEW x \in S, NEW y \in S, F[x] = F[y] PROVE x = y
  <2>1. \A j \in 1 .. n + 1 : (IF j = n + 1 THEN x[2] ELSE x[1][j]) = (IF j = n + 1 THEN y[2] ELSE y[1][j])
    <3> TAKE j \in 1 .. n + 1
    <3>1. F[x][j] = IF j = n + 1 THEN x[2] ELSE x[1][j]
      OBVIOUS
    <3>2. F[y][j] = IF j = n + 1 THEN y[2] ELSE y[1][j]
      OBVIOUS
    <3> HIDE DEF F
    <3> QED BY <1>4, <3>1, <3>2
  <2>2. x[2] = y[2]
    BY <2>1
  <2>3. \A j \in 1 .. n : x[1][j] = y[1][j]
    BY <2>1
  <2>4. x[1] \in [1 .. n -> 1 .. b] /\ y[1] \in [1 .. n -> 1 .. b]
    BY DEF LayerNodes
  <2>5. x[1] = y[1]
    BY <2>3, <2>4
  <2> QED BY <2>2, <2>5
<1>5. ASSUME NEW g \in T PROVE \E x \in S : F[x] = g
  <2> DEFINE f == [j \in 1 .. n |-> g[j]]
             x == <<f, g[n + 1]>>
  <2>1. g \in [1 .. n + 1 -> 1 .. b]
    BY DEF LayerNodes
  <2>2. x \in S
    BY <2>1 DEF LayerNodes
  <2>3. F[x] = [j \in 1 .. n + 1 |-> IF j = n + 1 THEN g[n + 1] ELSE f[j]]
    BY <2>2
  <2>4. \A j \in 1 .. n + 1 : g[j] = IF j = n + 1 THEN g[n + 1] ELSE f[j]
    OBVIOUS
  <2>5. F[x] = g
    BY <2>1, <2>3, <2>4
  <2> QED BY <2>2, <2>5
<1> HIDE DEF F, S, T
<1>6. F \in Bijection(S, T)
  BY <1>3, <1>4, <1>5 DEF Bijection, Injection, Surjection, IsInjective
<1>7. ExistsBijection(S, T)
  BY <1>6 DEF ExistsBijection
<1>8. IsFiniteSet(T) /\ Cardinality(T) = Cardinality(S)
  BY <1>2, <1>7, FS_Bijection
<1> QED BY <1>2, <1>8 DEF T

(* The sum that the cap is compared with is the number of nodes of the     *)
(* tree: after i rounds, total counts the layers down to i and level_nodes *)
(* is the size of the next one.                                            *)
LEMMA TreeGrows ==
    ASSUME NEW b, NEW i \in Nat
    PROVE  /\ Tree(b, i + 1) = Tree(b, i) \cup LayerNodes(b, i + 1)
           /\ Tree(b, i) \cap LayerNodes(b, i + 1) = {}
<1>1. 1 .. i + 1 = (1 .. i) \cup {i + 1}
  OBVIOUS
<1>2. Tree(b, i + 1) = Tree(b, i) \cup LayerNodes(b, i + 1)
  BY <1>1 DEF Tree, LayerNodes
<1>3. ASSUME NEW x \in Tree(b, i), x \in LayerNodes(b, i + 1) PROVE FALSE
  <2>1. PICK d \in 1 .. i : x \in [1 .. d -> 1 .. b]
    BY DEF Tree
  <2>2. DOMAIN x = 1 .. d /\ DOMAIN x = 1 .. i + 1
    BY <1>3, <2>1 DEF LayerNodes
  <2>3. i + 1 \in 1 .. i + 1 /\ i + 1 \notin 1 .. d
    BY <2>1
  <2> QED BY <2>2, <2>3
<1> QED BY <1>2, <1>3

Counted(b, d, i) ==
    /\ IsFiniteSet(Tree(b, i)) /\ IsFiniteSet(LayerNodes(b, i + 1))
    /\ Rounds(b, d)[i].total = Cardinality(Tree(b, i))
    /\ Rounds(b, d)[i].level_nodes = Cardinality(LayerNodes(b, i + 1))

(* The counts are right before the first round ...                         *)
LEMMA CountedAtFirst ==
    ASSUME NEW b \in Nat, NEW d \in Nat
    PROVE  Counted(b, d, 0)
<1>1. Tree(b, 0) = {}
  BY DEF Tree
<1>2. IsFiniteSet(Tree(b, 0)) /\ Cardinality(Tree(b, 0)) = 0
  BY <1>1, FS_EmptySet
<1> DEFINE e == [j \in 1 .. 0 |-> 0]
<1>3. LayerNodes(b, 0) = {e}
  <2>1. e \in LayerNodes(b, 0)
    BY DEF LayerNodes
  <2>2. ASSUME NEW x \in LayerNodes(b, 0) PROVE x = e
    BY <2>2 DEF LayerNodes
  <2> HIDE DEF e
  <2> QED BY <2>1, <2>2
<1>4. IsFiniteSet(LayerNodes(b, 0)) /\ Cardinality(LayerNodes(b, 0)) = 1
  BY <1>3, FS_Singleton
<1>5. IsFiniteSet(LayerNodes(b, 0 + 1)) /\ Cardinality(LayerNodes(b, 0 + 1)) = 1 * b
  BY <1>4, NextLayer
<1>6. Rounds(b, d)[0].total = 0 /\ Rounds(b, d)[0].level_nodes = b
  BY FirstRound
<1> QED BY <1>2, <1>5, <1>6 DEF Counted

(* ... and stay right from round to round ...                              *)
LEMMA CountedNext ==
    ASSUME NEW b \in Nat, NEW d \in Nat, NEW i \in 0 .. d, i < d, Counted(b, d, i)
    PROVE  Counted(b, d, i + 1)
<1> DEFINE A == Tree(b, i)
           B == LayerNodes(b, i + 1)
<1>1. /\ IsFiniteSet(A) /\ IsFiniteSet(B)
      /\ Rounds(b, d)[i].total = Cardinality(A) /\ Rounds(b, d)[i].level_nodes = Cardinality(B)
  BY DEF Counted
<1>2. /\ Rounds(b, d)[i + 1].total = Rounds(b, d)[i].total + Rounds(b, d)[i].level_nodes
      /\ Rounds(b, d)[i + 1].level_nodes = Rounds(b, d)[i].level_nodes * b
  BY NextRound
<1>3. Tree(b, i + 1) = A \cup B /\ A \cap B = {}
  BY TreeGrows
<1>4. IsFiniteSet(LayerNodes(b, i + 1 + 1)) /\ Cardinality(LayerNodes(b, i + 1 + 1)) = Cardinality(B) * b
  BY <1>1, NextLayer
<1> HIDE DEF A, B
<1>5. IsFiniteSet(A \cup B) /\ Cardinality(A \cup B) = Cardinality(A) + Cardinality(B)
  <2>1. /\ IsFiniteSet(A \cup B)
        /\ Cardinality(A \cup B) = Cardinality(A) + Cardinality(B) - Cardinality(A \cap B)
    BY <1>1, FS_Union
  <2>2. Cardinality(A \cap B) = 0
    BY <1>3, FS_EmptySet
  <2>3. Cardinality(A) \in Nat /\ Cardinality(B) \in Nat
    BY <1>1, FS_CardinalityType
  <2> QED BY <2>1, <2>2, <2>3
<1> QED BY <1>1, <1>2, <1>3, <1>4, <1>5 DEF Counted

(* ... so the estimate is the number of nodes.                             *)
LEMMA EstimateIsCount ==
    ASSUME NEW b \in Nat, NEW d \in Nat
    PROVE  /\ IsFiniteSet(Tree(b, d))
           /\ engine_estimate_nodes(b, d) = Cardinality(Tree(b, d))
<1> DEFINE Bad == {i \in 0 .. d : ~Counted(b, d, i)}
<1>1. Bad = {}
  <2> SUFFICES ASSUME Bad # {} PROVE FALSE
    OBVIOUS
  <2>0. Bad \in SUBSET Nat
    OBVIOUS
  <2>1. PICK m \in Bad : \A k \in Bad : m <= k
    BY <2>0, LeastNat
  <2>2. m # 0
    BY CountedAtFirst
  <2>3. m - 1 \in 0 .. d /\ m - 1 < d /\ m - 1 \notin Bad /\ (m - 1) + 1 = m
    BY <2>1, <2>2
  <2>4. Counted(b, d, m - 1)
    BY <2>3
  <2> QED BY <2>3, <2>4, CountedNext
<1>2. Counted(b, d, d)
  BY <1>1
<1> QED BY <1>2 DEF Counted, engine_estimate_nodes

(* A tree that is not refused has no more nodes than the cap.              *)
LEMMA NotTooLarge ==
    ASSUME NEW l \in Level, ~TooLarge(l)
    PROVE  Cardinality(Nodes(l)) <= ENGINE_MAX_DECOY_NODES
<1> DEFINE b == ENGINE_TREE_BRANCH[l]
           d == ENGINE_TREE_DEPTH[l]
<1>1. b \in Nat
  BY EngineAssumption
<1>2. d \in Nat
  BY EngineAssumption, ElementOfSeq, LenProperties DEF Level
<1>3. engine_estimate_nodes(b, d) = Cardinality(Nodes(l))
  BY <1>1, <1>2, EstimateIsCount DEF Nodes
<1>4. Cardinality(Nodes(l)) \in Nat
  BY <1>1, <1>2, EstimateIsCount, FS_CardinalityType DEF Nodes
<1>5. ~(engine_estimate_nodes(b, d) > ENGINE_MAX_DECOY_NODES)
  BY DEF TooLarge
<1> QED BY <1>3, <1>4, <1>5, EngineAssumption
-----------------------------------------------------------------------------
LEMMA EngineInitHolds == EngineInit => EngineInv
BY DEF EngineInit, EngineInv, LevelInv, BuiltIsComplete, BuiltIsCapped, ValidatedIsComplete

(* Level 0 is no level.                                                    *)
LEMMA NoLevel == 0 \notin Level
BY EngineAssumption, LenProperties DEF Level

(* The calls and what they leave of the invariant.                         *)
LEMMA ApplyStep ==
    ASSUME EngineInv, NEW l \in Level, vault_apply_engine_ffi(l)
    PROVE  EngineInv'
<1>1. level' = l /\ ret'.op = "apply" /\ intact' \in {0, l}
  BY DEF vault_apply_engine_ffi, apply_refused, apply_done, apply_partial, Answer
<1>2. ASSUME intact' # 0 PROVE Complete(intact)'
  <2>1. apply_done(l)
    BY <1>2 DEF vault_apply_engine_ffi, apply_partial
  <2>2. Built(l, {}) = Nodes(l)
    BY DEF Built, Tried
  <2>3. /\ decoy' /\ real' /\ intact' = l
        /\ dirs' = dirs \cup Nodes(l) \cup {} /\ full' = full \cup ((Nodes(l) \cup {}) \X {Pool(l)})
    BY <2>1, <2>2 DEF apply_done, build_subtree
  <2> QED BY <2>3 DEF Complete
<1>3. BuiltIsComplete'
  BY <1>2 DEF BuiltIsComplete
<1>4. BuiltIsCapped'
  <2> SUFFICES ASSUME intact' # 0 PROVE Cardinality(Nodes(intact')) <= ENGINE_MAX_DECOY_NODES
    BY DEF BuiltIsCapped
  <2>1. apply_done(l) /\ ~TooLarge(l)
    BY DEF vault_apply_engine_ffi, apply_partial
  <2>2. intact' = l
    BY <2>1 DEF apply_done
  <2> QED BY <2>1, <2>2, NotTooLarge
<1>5. ValidatedIsComplete'
  BY <1>1 DEF ValidatedIsComplete
<1> QED BY <1>1, <1>3, <1>4, <1>5 DEF EngineInv, LevelInv

LEMMA ValidateStep ==
    ASSUME EngineInv, engine_validate
    PROVE  EngineInv'
<1>1. ret' = [op |-> "validate", err |-> Validation] /\ UNCHANGED <<level, decoy, real, dirs, full, intact>>
  BY DEF engine_validate, Answer
<1>2. LevelInv' /\ BuiltIsComplete' /\ BuiltIsCapped'
  BY <1>1 DEF EngineInv, LevelInv, BuiltIsComplete, BuiltIsCapped, Complete
<1>3. ASSUME Validation = "OK", level # 0 PROVE Complete(level)
  <2>1. level \in Level
    BY <1>3 DEF EngineInv, LevelInv
  <2>2. decoy /\ real /\ missing_layers(level) = {} /\ missing_files(level) = {}
    BY <1>3 DEF Validation
  <2>3. Nodes(level) \subseteq dirs /\ Visited(level) = Nodes(level)
    BY <2>1, <2>2, WalkIsComplete
  <2>4. \A n \in Nodes(level) : <<n, Pool(level)>> \in full
    BY <2>2, <2>3 DEF missing_files
  <2> QED BY <2>2, <2>3, <2>4 DEF Complete
<1>4. ValidatedIsComplete'
  BY <1>1, <1>3 DEF ValidatedIsComplete, Complete
<1> QED BY <1>2, <1>4 DEF EngineInv

LEMMA EngineStep == EngineInv /\ [EngineNext]_engineVars => EngineInv'
<1> SUFFICES ASSUME EngineInv, [EngineNext]_engineVars PROVE EngineInv'
  OBVIOUS
<1>1. CASE UNCHANGED engineVars
  BY <1>1 DEF engineVars, EngineInv, LevelInv, BuiltIsComplete, BuiltIsCapped, ValidatedIsComplete, Complete
<1>2. ASSUME NEW l \in Level, vault_apply_engine_ffi(l) PROVE EngineInv'
  BY <1>2, ApplyStep
<1>3. CASE engine_validate
  BY <1>3, ValidateStep
<1>4. CASE Damage
  <2>1. intact' = 0 /\ level' = level /\ ret'.op = "none"
    BY <1>4 DEF Damage, Called
  <2> QED BY <2>1 DEF EngineInv, LevelInv, BuiltIsComplete, BuiltIsCapped, ValidatedIsComplete
<1>5. CASE Others \/ Restart
  <2>1. /\ UNCHANGED <<decoy, real, dirs, full, intact>> /\ level' \in {level, 0} /\ ret'.op = "none"
    BY <1>5 DEF Others, Restart, Called
  <2> QED BY <2>1 DEF EngineInv, LevelInv, BuiltIsComplete, BuiltIsCapped, ValidatedIsComplete, Complete
<1> QED BY <1>1, <1>2, <1>3, <1>4, <1>5 DEF EngineNext

(* The inductive invariant holds throughout.                               *)
THEOREM EngineInvariantHolds == EngineSpec => []EngineInv
BY EngineInitHolds, EngineStep, PTL DEF EngineSpec

(* engine_validate answers ERR_OK only for a complete tree, however deep   *)
(* and wide it is and whatever was removed from it.                        *)
THEOREM ValidateIsSound == EngineSpec => []ValidatedIsComplete
BY EngineInvariantHolds, PTL DEF EngineInv

(* A tree that engine_apply reported as built is within the cap and stays  *)
(* complete until somebody touches it, whatever earlier builds and         *)
(* clean-ups left behind: what the loop of engine_estimate_nodes adds up   *)
(* is the number of directories of the tree.                               *)
THEOREM ApplyIsComplete == EngineSpec => []AppliedIsComplete
BY EngineInvariantHolds, PTL DEF EngineInv, AppliedIsComplete

-----------------------------------------------------------------------------
(* Part 2.  The processes of a sandbox session.                            *)

(* Where the child is before and after the release of the sync pipe, and   *)
(* where the parent is after it.                                           *)
EarlyChild == {"start", "newuser", "signal", "sync"}
LateChild == {"unshare", "netready", "netsync", "tree", "fork", "wait"}
Wired == {"veth", "netsync", "wait"}

(* The meeting on the pipes: the write ends a process still holds say how  *)
(* far it may have come, and so how far the one that reads is.             *)
PipeInv ==
    /\ ~pipe["sync"].byte
    /\ parent \in {"forked", "ready", "map", "kill", "cgroup", "release"} => "parent" \in pipe["sync"].writers
    /\ "parent" \in pipe["sync"].writers =>
          /\ parent \in {"forked", "ready", "map", "kill", "close", "cgroup", "release"}
          /\ child \in EarlyChild \cup {"zombie"} /\ init = "none"
    /\ child = "start" \/ pipe["sync"].writers \subseteq {"parent"}
    /\ child \in {"start", "newuser", "signal"} =>
          "child" \in pipe["ready"].writers /\ ~pipe["ready"].byte /\ parent \in {"forked", "ready", "dead"}

(* Who is there: the child from the fork to the wait for it, PID 1 while   *)
(* the child waits for it or after a kill of the child.                    *)
ProcessInv ==
    /\ parent \in {"idle", "clean"} => child = "none"
    /\ child = "none" => parent \in {"idle", "clean", "dead"}
    /\ parent \in {"close", "reap"} => child = "zombie"
    /\ parent = "dead" <=> "parent" \in struck
    /\ InitAlive => child = "wait" \/ "child" \in struck
    /\ child \in {"start", "newuser", "signal", "sync", "unshare", "netready", "netsync", "tree", "fork"} =>
          init = "none"

(* What the processes have put in place by the time they are where they    *)
(* are.                                                                    *)
Limited == conf.cgroup = "hard" => "cgroup" \in layers
Admitted == ("map" \in layers /\ Limited) \/ "parent" \in struck
Entered ==
    /\ {"user", "ns"} \subseteq layers
    /\ Admitted
Furnished ==
    /\ Entered
    /\ conf.nfilter => "filter" \in layers
    /\ conf.mode = "run" => "vault" \in layers
LayerInv ==
    /\ parent \in {"cgroup", "release", "veth", "netsync", "wait", "clean"} => "map" \in layers
    /\ parent \in {"release", "veth", "netsync", "wait", "clean"} => Limited
    /\ "map" \in layers => "user" \in layers
    /\ child \in {"start", "newuser"} => layers = {}
    /\ child \in {"signal", "sync"} \cup LateChild => "user" \in layers
    /\ child \in LateChild => Admitted
    /\ child \in LateChild \ {"unshare"} => Entered
    /\ child \in {"netready", "netsync", "tree"} => conf.mode = "run"
    /\ child \in {"tree", "fork", "wait"} => (conf.nfilter => "filter" \in layers)
    /\ child \in {"fork", "wait"} => Furnished
    /\ InitAlive => Furnished
    /\ init = "remount" => conf.mode = "open"
    /\ init \in {"pivot", "remount", "caps", "seccomp", "exec", "running"} => "mounts" \in layers
    /\ init \in {"remount", "caps", "seccomp", "exec", "running"} => "root" \in layers
    /\ init \in {"seccomp", "exec", "running"} => "caps" \in layers
    /\ init \in {"exec", "running"} => (conf.seccomp => "seccomp" \in layers)

(* What the parent has made outside and not yet taken away.                *)
ResourceInv ==
    /\ parent \in {"idle", "forked", "clean"} => ~whitelist
    /\ cipher = "open" => "cipher" \in left \/ (conf.mode = "open" /\ parent # "idle")
    /\ conf.mode = "open" => held = {} /\ left \subseteq {"cipher"}
    /\ parent \in {"idle", "forked", "ready", "map", "kill", "close", "reap", "cgroup"} =>
          held \subseteq {"jail_root", "nat"} \cup left
    /\ "cgroup" \in held => "cgroup" \in layers \/ "cgroup" \in left
    /\ "veth" \in held => conf.veth
    /\ parent \in {"veth", "netsync"} => conf.veth

(* The exit code that stands for a step that failed.                       *)
CodeOf(step) ==
    IF step = "exec" THEN "exec"
    ELSE IF conf.mode = "run" THEN "layer"
    ELSE IF step \in {"user", "ns"} THEN "unshare"
    ELSE IF step = "clone" THEN "clone"
    ELSE IF step = "root" THEN "pivot"
    ELSE IF step = "proc" THEN "mount"
    ELSE "layer"

(* The failures of the child and of PID 1, and what the call then says.    *)
ChildFailures == {"ns", "filter", "vault", "clone"}
InitFailures == {"mounts", "root", "oldroot", "proc", "caps", "seccomp", "exec"}
Reported ==
    IF conf.mode = "run" THEN result \notin {"program", "none"}
    ELSE /\ failed \in {"ns", "clone", "root", "proc"} => result \notin {"ERR_OK", "none"}
         /\ failed = "user" => result = "ERR_PERM_DENIED"

(* Where the news of a failure is, as long as nobody was killed.           *)
NewsInv ==
    struck = {} =>
        /\ failed \in {"none", "user", "map", "cgroup"} \cup ChildFailures \cup InitFailures
        /\ failed = "user" =>
              /\ "user" \notin layers /\ child \in {"zombie", "none"}
              /\ parent \in {"forked", "ready", "map", "kill", "close", "reap", "idle"}
        /\ failed \in {"map", "cgroup"} => parent \in {"kill", "close", "reap", "idle"}
        /\ failed \in ChildFailures \cup InitFailures =>
              \/ failed \in InitFailures /\ child = "wait" /\ init = "zombie" /\ code.init = CodeOf(failed)
              \/ child = "zombie" /\ parent \in Wired /\ code.child = CodeOf(failed)
              \/ parent = "clean" /\ code.child = CodeOf(failed)
              \/ parent = "idle"
        /\ parent = "idle" /\ failed # "none" => Reported
        /\ child = "wait" => parent \in Wired
        /\ init = "zombie" => child = "wait" /\ code.init # "signal"

(* The inductive invariant.                                                *)
BoxInv == TypeOK /\ PipeInv /\ ProcessInv /\ LayerInv /\ ResourceInv /\ NewsInv

(* Every step keeps the types.                                             *)
LEMMA BoxTypeStep == BoxInv /\ [SandboxNext]_sandboxVars => TypeOK'
<1> SUFFICES ASSUME BoxInv, [SandboxNext]_sandboxVars PROVE TypeOK'
  OBVIOUS
<1> USE DEF BoxInv, TypeOK, Pipes, Codes, ParentPc, ChildPc, InitPc
<1>1. CASE UNCHANGED sandboxVars
  BY <1>1 DEF sandboxVars
<1>2. CASE start_fails
  BY <1>2 DEF start_fails, Start, Prepare, jail_install_shell, InitAlive
<1>3. CASE start_forks
  BY <1>3 DEF start_forks, Start, Prepare, jail_install_shell, InitAlive
<1>4. CASE parent_adopts
  BY <1>4 DEF parent_adopts, Closed
<1>5. CASE parent_reads_ready
  BY <1>5 DEF parent_reads_ready, Readable, session
<1>6. CASE vsb_write_uid_gid_map
  <2>1. layers' \in {layers, layers \cup {"map"}} /\ parent' \in {"cgroup", "kill"}
    BY <1>6 DEF vsb_write_uid_gid_map
  <2> QED BY <1>6, <2>1 DEF vsb_write_uid_gid_map, session
<1>7. CASE rust_cgroup_apply
  <2>1. /\ held' \subseteq held \cup {"cgroup"} /\ layers' \subseteq layers \cup {"cgroup"}
        /\ left' \subseteq left \cup {"cgroup"} /\ parent' \in {"release", "kill"}
    BY <1>7 DEF rust_cgroup_apply
  <2> QED BY <1>7, <2>1 DEF rust_cgroup_apply
<1>8. CASE abort_kill
  BY <1>8 DEF abort_kill, Killed, ChildAlive, Closed, session
<1>9. CASE abort_close
  BY <1>9 DEF abort_close, Closed, session
<1>10. CASE abort_returns
  <2>1. held' \subseteq held /\ left' \subseteq left \cup {"cipher"}
    BY <1>10 DEF abort_returns
  <2>2. pipe' \in [Pipes -> [byte : BOOLEAN, writers : SUBSET {"parent", "child"}]]
    BY <1>10 DEF abort_returns, Closed
  <2> QED BY <1>10, <2>1, <2>2 DEF abort_returns
<1>11. CASE parent_releases
  BY <1>11 DEF parent_releases, Closed, session
<1>12. CASE vsb_net_veth_setup
  <2>1. held' \subseteq held \cup {"veth", "nat"} /\ layers' \subseteq layers \cup {"veth"}
    BY <1>12 DEF vsb_net_veth_setup
  <2> QED BY <1>12, <2>1 DEF vsb_net_veth_setup
<1>13. CASE parent_syncs_net
  BY <1>13 DEF parent_syncs_net, Sent, session
<1>14. CASE parent_reaps
  BY <1>14 DEF parent_reaps
<1>15. CASE parent_returns
  <2>1. held' \subseteq held /\ left' \subseteq left \cup {"cipher", "cgroup", "veth"}
    BY <1>15 DEF parent_returns, Due
  <2>2. pipe' \in [Pipes -> [byte : BOOLEAN, writers : SUBSET {"parent", "child"}]]
    BY <1>15 DEF parent_returns, Closed
  <2> QED BY <1>15, <2>1, <2>2 DEF parent_returns
<1>16. CASE child_starts
  BY <1>16 DEF child_starts, Closed, session
<1>17. CASE unshare_user
  BY <1>17 DEF unshare_user, child_exits, Closed, session
<1>18. CASE child_signals
  BY <1>18 DEF child_signals, Sent, session
<1>19. CASE child_reads_sync
  BY <1>19 DEF child_reads_sync, Readable, session
<1>20. CASE unshare_ns
  BY <1>20 DEF unshare_ns, child_exits, Closed, session
<1>21. CASE child_signals_net
  <2> DEFINE PipeType == [Pipes -> [byte : BOOLEAN, writers : SUBSET {"parent", "child"}]]
             sent == Sent("child", "netready")
  <2>a. sent \in PipeType
    BY DEF Sent
  <2>b. pipe' = [sent EXCEPT !["netsync"] = [sent["netsync"] EXCEPT !.writers = @ \ {"child"}]]
    BY <1>21, <2>a DEF child_signals_net
  <2> HIDE DEF sent
  <2>1. pipe' \in PipeType
    BY <2>a, <2>b
  <2> QED BY <1>21, <2>1 DEF child_signals_net, session
<1>22. CASE configure_net
  BY <1>22 DEF configure_net, Readable, child_exits, Closed, session
<1>23. CASE bind_vault
  BY <1>23 DEF bind_vault, child_exits, Closed, session
<1>24. CASE fork_init
  BY <1>24 DEF fork_init, child_exits, Closed, session
<1>25. CASE child_relays
  BY <1>25 DEF child_relays, child_exits, Closed, session
<1>26. CASE jail_mounts
  BY <1>26 DEF jail_mounts, Layer, init_exits, session
<1>27. CASE vsb_pivot_root
  BY <1>27 DEF vsb_pivot_root, Layer, init_exits, session
<1>28. CASE vsb_prepare_mounts
  BY <1>28 DEF vsb_prepare_mounts, Layer, init_exits, session
<1>29. CASE vsb_drop_caps
  BY <1>29 DEF vsb_drop_caps, Layer, init_exits, session
<1>30. CASE vsb_apply_seccomp
  BY <1>30 DEF vsb_apply_seccomp, Layer, init_exits, session
<1>31. CASE no_seccomp
  BY <1>31 DEF no_seccomp, session
<1>32. CASE exec
  BY <1>32 DEF exec, init_exits, session, CanExec
<1>33. CASE program_ends
  BY <1>33 DEF program_ends, init_exits, session
<1>34. ASSUME NEW p \in {"parent", "child", "init"}, Kill(p) PROVE TypeOK'
  BY <1>34 DEF Kill, Quiet, ChildAlive, InitAlive, Killed, Closed, session
<1> QED
  BY <1>1, <1>2, <1>3, <1>4, <1>5, <1>6, <1>7, <1>8, <1>9, <1>10, <1>11, <1>12,
     <1>13, <1>14, <1>15, <1>16, <1>17, <1>18, <1>19, <1>20, <1>21, <1>22, <1>23, <1>24,
     <1>25, <1>26, <1>27, <1>28, <1>29, <1>30, <1>31, <1>32, <1>33, <1>34
     DEF SandboxNext, ParentStep, ChildStep, InitStep

(* The pipes: only the parent holds the sync pipe open and nobody writes   *)
(* to it, so that its end of file is the release.                          *)
LEMMA PipeStep == BoxInv /\ [SandboxNext]_sandboxVars => PipeInv'
<1> SUFFICES ASSUME BoxInv, [SandboxNext]_sandboxVars PROVE PipeInv'
  OBVIOUS
<1> USE DEF BoxInv, TypeOK, Pipes, PipeInv, ProcessInv, EarlyChild, LateChild
<1>1. CASE UNCHANGED sandboxVars
  BY <1>1 DEF sandboxVars
<1>2. CASE start_fails
  BY <1>2 DEF start_fails, Start, Prepare, jail_install_shell, InitAlive
<1>3. CASE start_forks
  BY <1>3 DEF start_forks, Start, Prepare, jail_install_shell, InitAlive
<1>4. CASE parent_adopts
  BY <1>4 DEF parent_adopts, Closed
<1>5. CASE parent_reads_ready
  BY <1>5 DEF parent_reads_ready, Readable, session
<1>6. CASE vsb_write_uid_gid_map
  BY <1>6 DEF vsb_write_uid_gid_map, session
<1>7. CASE rust_cgroup_apply
  BY <1>7 DEF rust_cgroup_apply
<1>8. CASE abort_kill
  BY <1>8 DEF abort_kill, Killed, ChildAlive, Closed, session
<1>9. CASE abort_close
  BY <1>9 DEF abort_close, Closed, session
<1>10. CASE abort_returns
  BY <1>10 DEF abort_returns, Closed
<1>11. CASE parent_releases
  BY <1>11 DEF parent_releases, Closed, session
<1>12. CASE vsb_net_veth_setup
  BY <1>12 DEF vsb_net_veth_setup, Readable
<1>13. CASE parent_syncs_net
  BY <1>13 DEF parent_syncs_net, Sent, session
<1>14. CASE parent_reaps
  BY <1>14 DEF parent_reaps
<1>15. CASE parent_returns
  BY <1>15 DEF parent_returns, Closed, Verdict
<1>16. CASE child_starts
  BY <1>16 DEF child_starts, Closed, session
<1>17. CASE unshare_user
  BY <1>17 DEF unshare_user, child_exits, Closed, session
<1>18. CASE child_signals
  BY <1>18 DEF child_signals, Sent, session
<1>19. CASE child_reads_sync
  BY <1>19 DEF child_reads_sync, Readable, session
<1>20. CASE unshare_ns
  BY <1>20 DEF unshare_ns, child_exits, Closed, session
<1>21. CASE child_signals_net
  BY <1>21 DEF child_signals_net, Sent, session
<1>22. CASE configure_net
  BY <1>22 DEF configure_net, Readable, child_exits, Closed, session
<1>23. CASE bind_vault
  BY <1>23 DEF bind_vault, child_exits, Closed, session
<1>24. CASE fork_init
  BY <1>24 DEF fork_init, child_exits, Closed, session
<1>25. CASE child_relays
  BY <1>25 DEF child_relays, child_exits, Closed, session
<1>26. CASE jail_mounts
  BY <1>26 DEF jail_mounts, Layer, init_exits, session
<1>27. CASE vsb_pivot_root
  BY <1>27 DEF vsb_pivot_root, Layer, init_exits, session
<1>28. CASE vsb_prepare_mounts
  BY <1>28 DEF vsb_prepare_mounts, Layer, init_exits, session
<1>29. CASE vsb_drop_caps
  BY <1>29 DEF vsb_drop_caps, Layer, init_exits, session
<1>30. CASE vsb_apply_seccomp
  BY <1>30 DEF vsb_apply_seccomp, Layer, init_exits, session
<1>31. CASE no_seccomp
  BY <1>31 DEF no_seccomp, session
<1>32. CASE exec
  BY <1>32 DEF exec, init_exits, session, CanExec
<1>33. CASE program_ends
  BY <1>33 DEF program_ends, init_exits, session
<1>34. ASSUME NEW p \in {"parent", "child", "init"}, Kill(p) PROVE PipeInv'
  BY <1>34 DEF Kill, Quiet, ChildAlive, InitAlive, Killed, Closed, session
<1> QED
  BY <1>1, <1>2, <1>3, <1>4, <1>5, <1>6, <1>7, <1>8, <1>9, <1>10, <1>11, <1>12,
     <1>13, <1>14, <1>15, <1>16, <1>17, <1>18, <1>19, <1>20, <1>21, <1>22, <1>23, <1>24,
     <1>25, <1>26, <1>27, <1>28, <1>29, <1>30, <1>31, <1>32, <1>33, <1>34
     DEF SandboxNext, ParentStep, ChildStep, InitStep

(* Who is there: no step lets the parent come back while the child lives.  *)
LEMMA ProcessStep == BoxInv /\ [SandboxNext]_sandboxVars => ProcessInv'
<1> SUFFICES ASSUME BoxInv, [SandboxNext]_sandboxVars PROVE ProcessInv'
  OBVIOUS
<1> USE DEF BoxInv, ProcessInv, PipeInv, TypeOK, Pipes,
            EarlyChild, InitAlive, InitPc
<1>1. CASE UNCHANGED sandboxVars
  BY <1>1 DEF sandboxVars
<1>2. CASE start_fails
  BY <1>2 DEF start_fails, Start, Prepare, jail_install_shell, InitAlive
<1>3. CASE start_forks
  BY <1>3 DEF start_forks, Start, Prepare, jail_install_shell, InitAlive
<1>4. CASE parent_adopts
  BY <1>4 DEF parent_adopts, Closed
<1>5. CASE parent_reads_ready
  BY <1>5 DEF parent_reads_ready, Readable, session
<1>6. CASE vsb_write_uid_gid_map
  BY <1>6 DEF vsb_write_uid_gid_map, session
<1>7. CASE rust_cgroup_apply
  BY <1>7 DEF rust_cgroup_apply
<1>8. CASE abort_kill
  BY <1>8 DEF abort_kill, Killed, ChildAlive, Closed, session
<1>9. CASE abort_close
  BY <1>9 DEF abort_close, Closed, session
<1>10. CASE abort_returns
  BY <1>10 DEF abort_returns, Closed
<1>11. CASE parent_releases
  BY <1>11 DEF parent_releases, Closed, session
<1>12. CASE vsb_net_veth_setup
  BY <1>12 DEF vsb_net_veth_setup, Readable
<1>13. CASE parent_syncs_net
  BY <1>13 DEF parent_syncs_net, Sent, session
<1>14. CASE parent_reaps
  BY <1>14 DEF parent_reaps
<1>15. CASE parent_returns
  BY <1>15 DEF parent_returns, Closed, Verdict
<1>16. CASE child_starts
  BY <1>16 DEF child_starts, Closed, session
<1>17. CASE unshare_user
  BY <1>17 DEF unshare_user, child_exits, Closed, session
<1>18. CASE child_signals
  BY <1>18 DEF child_signals, Sent, session
<1>19. CASE child_reads_sync
  BY <1>19 DEF child_reads_sync, Readable, session
<1>20. CASE unshare_ns
  BY <1>20 DEF unshare_ns, child_exits, Closed, session
<1>21. CASE child_signals_net
  BY <1>21 DEF child_signals_net, Sent, session
<1>22. CASE configure_net
  BY <1>22 DEF configure_net, Readable, child_exits, Closed, session
<1>23. CASE bind_vault
  BY <1>23 DEF bind_vault, child_exits, Closed, session
<1>24. CASE fork_init
  BY <1>24 DEF fork_init, child_exits, Closed, session
<1>25. CASE child_relays
  BY <1>25 DEF child_relays, child_exits, Closed, session
<1>26. CASE jail_mounts
  BY <1>26 DEF jail_mounts, Layer, init_exits, session
<1>27. CASE vsb_pivot_root
  BY <1>27 DEF vsb_pivot_root, Layer, init_exits, session
<1>28. CASE vsb_prepare_mounts
  BY <1>28 DEF vsb_prepare_mounts, Layer, init_exits, session
<1>29. CASE vsb_drop_caps
  BY <1>29 DEF vsb_drop_caps, Layer, init_exits, session
<1>30. CASE vsb_apply_seccomp
  BY <1>30 DEF vsb_apply_seccomp, Layer, init_exits, session
<1>31. CASE no_seccomp
  BY <1>31 DEF no_seccomp, session
<1>32. CASE exec
  BY <1>32 DEF exec, init_exits, session, CanExec
<1>33. CASE program_ends
  BY <1>33 DEF program_ends, init_exits, session
<1>34. ASSUME NEW p \in {"parent", "child", "init"}, Kill(p) PROVE ProcessInv'
  BY <1>34 DEF Kill, Quiet, ChildAlive, InitAlive, Killed, Closed, session
<1> QED
  BY <1>1, <1>2, <1>3, <1>4, <1>5, <1>6, <1>7, <1>8, <1>9, <1>10, <1>11, <1>12,
     <1>13, <1>14, <1>15, <1>16, <1>17, <1>18, <1>19, <1>20, <1>21, <1>22, <1>23, <1>24,
     <1>25, <1>26, <1>27, <1>28, <1>29, <1>30, <1>31, <1>32, <1>33, <1>34
     DEF SandboxNext, ParentStep, ChildStep, InitStep

(* Layers: no step of the child or of PID 1 is reached without the ones    *)
(* before it, and none takes a layer away.                                 *)
LEMMA LayerStep == BoxInv /\ [SandboxNext]_sandboxVars => LayerInv'
<1> SUFFICES ASSUME BoxInv, [SandboxNext]_sandboxVars PROVE LayerInv'
  OBVIOUS
<1> USE DEF BoxInv, LayerInv, ProcessInv, PipeInv, TypeOK, Pipes,
            Options, ParentPc, Limited, Admitted, Entered, Furnished, EarlyChild, LateChild, InitAlive
<1>1. CASE UNCHANGED sandboxVars
  BY <1>1 DEF sandboxVars
<1>2. CASE start_fails
  BY <1>2 DEF start_fails, Start, Prepare, jail_install_shell, InitAlive
<1>3. CASE start_forks
  BY <1>3 DEF start_forks, Start, Prepare, jail_install_shell, InitAlive
<1>4. CASE parent_adopts
  BY <1>4 DEF parent_adopts, Closed
<1>5. CASE parent_reads_ready
  BY <1>5 DEF parent_reads_ready, Readable, session
<1>6. CASE vsb_write_uid_gid_map
  BY <1>6 DEF vsb_write_uid_gid_map, session
<1>7. CASE rust_cgroup_apply
  BY <1>7 DEF rust_cgroup_apply
<1>8. CASE abort_kill
  BY <1>8 DEF abort_kill, Killed, ChildAlive, Closed, session
<1>9. CASE abort_close
  BY <1>9 DEF abort_close, Closed, session
<1>10. CASE abort_returns
  BY <1>10 DEF abort_returns, Closed
<1>11. CASE parent_releases
  BY <1>11 DEF parent_releases, Closed, session
<1>12. CASE vsb_net_veth_setup
  BY <1>12 DEF vsb_net_veth_setup, Readable
<1>13. CASE parent_syncs_net
  BY <1>13 DEF parent_syncs_net, Sent, session
<1>14. CASE parent_reaps
  BY <1>14 DEF parent_reaps
<1>15. CASE parent_returns
  BY <1>15 DEF parent_returns, Closed, Verdict
<1>16. CASE child_starts
  BY <1>16 DEF child_starts, Closed, session
<1>17. CASE unshare_user
  BY <1>17 DEF unshare_user, child_exits, Closed, session
<1>18. CASE child_signals
  BY <1>18 DEF child_signals, Sent, session
<1>19. CASE child_reads_sync
  BY <1>19 DEF child_reads_sync, Readable, session
<1>20. CASE unshare_ns
  BY <1>20 DEF unshare_ns, child_exits, Closed, session
<1>21. CASE child_signals_net
  BY <1>21 DEF child_signals_net, Sent, session
<1>22. CASE configure_net
  BY <1>22 DEF configure_net, Readable, child_exits, Closed, session
<1>23. CASE bind_vault
  BY <1>23 DEF bind_vault, child_exits, Closed, session
<1>24. CASE fork_init
  BY <1>24 DEF fork_init, child_exits, Closed, session
<1>25. CASE child_relays
  BY <1>25 DEF child_relays, child_exits, Closed, session
<1>26. CASE jail_mounts
  BY <1>26 DEF jail_mounts, Layer, init_exits, session
<1>27. CASE vsb_pivot_root
  BY <1>27 DEF vsb_pivot_root, Layer, init_exits, session
<1>28. CASE vsb_prepare_mounts
  BY <1>28 DEF vsb_prepare_mounts, Layer, init_exits, session
<1>29. CASE vsb_drop_caps
  BY <1>29 DEF vsb_drop_caps, Layer, init_exits, session
<1>30. CASE vsb_apply_seccomp
  BY <1>30 DEF vsb_apply_seccomp, Layer, init_exits, session
<1>31. CASE no_seccomp
  BY <1>31 DEF no_seccomp, session
<1>32. CASE exec
  BY <1>32 DEF exec, init_exits, session, CanExec
<1>33. CASE program_ends
  BY <1>33 DEF program_ends, init_exits, session
<1>34. ASSUME NEW p \in {"parent", "child", "init"}, Kill(p) PROVE LayerInv'
  BY <1>34 DEF Kill, Quiet, ChildAlive, InitAlive, Killed, Closed, session
<1> QED
  BY <1>1, <1>2, <1>3, <1>4, <1>5, <1>6, <1>7, <1>8, <1>9, <1>10, <1>11, <1>12,
     <1>13, <1>14, <1>15, <1>16, <1>17, <1>18, <1>19, <1>20, <1>21, <1>22, <1>23, <1>24,
     <1>25, <1>26, <1>27, <1>28, <1>29, <1>30, <1>31, <1>32, <1>33, <1>34
     DEF SandboxNext, ParentStep, ChildStep, InitStep

(* What lies outside the processes is taken away before the call returns.  *)
LEMMA ResourceStep == BoxInv /\ [SandboxNext]_sandboxVars => ResourceInv'
<1> SUFFICES ASSUME BoxInv, [SandboxNext]_sandboxVars PROVE ResourceInv'
  OBVIOUS
<1> USE DEF BoxInv, ResourceInv, ProcessInv, TypeOK, Options, ParentPc
<1>1. CASE UNCHANGED sandboxVars
  BY <1>1 DEF sandboxVars
<1>2. CASE start_fails
  BY <1>2 DEF start_fails, Start, Prepare, jail_install_shell, InitAlive
<1>3. CASE start_forks
  BY <1>3 DEF start_forks, Start, Prepare, jail_install_shell, InitAlive
<1>4. CASE parent_adopts
  BY <1>4 DEF parent_adopts, Closed
<1>5. CASE parent_reads_ready
  BY <1>5 DEF parent_reads_ready, Readable, session
<1>6. CASE vsb_write_uid_gid_map
  BY <1>6 DEF vsb_write_uid_gid_map, session
<1>7. CASE rust_cgroup_apply
  BY <1>7 DEF rust_cgroup_apply
<1>8. CASE abort_kill
  BY <1>8 DEF abort_kill, Killed, ChildAlive, Closed, session
<1>9. CASE abort_close
  BY <1>9 DEF abort_close, Closed, session
<1>10. CASE abort_returns
  BY <1>10 DEF abort_returns, Closed
<1>11. CASE parent_releases
  BY <1>11 DEF parent_releases, Closed, session
<1>12. CASE vsb_net_veth_setup
  BY <1>12 DEF vsb_net_veth_setup, Readable
<1>13. CASE parent_syncs_net
  BY <1>13 DEF parent_syncs_net, Sent, session
<1>14. CASE parent_reaps
  BY <1>14 DEF parent_reaps
<1>15. CASE parent_returns
  <2>1. CASE conf.mode = "open"
    BY <1>15, <2>1 DEF parent_returns
  <2>2. CASE conf.mode = "run"
    <3>1. PICK kept \in SUBSET (Due \cap held) :
              held' \subseteq held \ (Due \ kept) /\ left' = left \cup kept
      BY <1>15, <2>2 DEF parent_returns
    <3>2. held' \subseteq {"jail_root", "nat"} \cup left'
      BY <3>1 DEF Due
    <3> QED BY <1>15, <2>2, <3>1, <3>2 DEF parent_returns
  <2> QED BY <1>15, <2>1, <2>2 DEF parent_returns
<1>16. CASE child_starts
  BY <1>16 DEF child_starts, Closed, session
<1>17. CASE unshare_user
  BY <1>17 DEF unshare_user, child_exits, Closed, session
<1>18. CASE child_signals
  BY <1>18 DEF child_signals, Sent, session
<1>19. CASE child_reads_sync
  BY <1>19 DEF child_reads_sync, Readable, session
<1>20. CASE unshare_ns
  BY <1>20 DEF unshare_ns, child_exits, Closed, session
<1>21. CASE child_signals_net
  BY <1>21 DEF child_signals_net, Sent, session
<1>22. CASE configure_net
  BY <1>22 DEF configure_net, Readable, child_exits, Closed, session
<1>23. CASE bind_vault
  BY <1>23 DEF bind_vault, child_exits, Closed, session
<1>24. CASE fork_init
  BY <1>24 DEF fork_init, child_exits, Closed, session
<1>25. CASE child_relays
  BY <1>25 DEF child_relays, child_exits, Closed, session
<1>26. CASE jail_mounts
  BY <1>26 DEF jail_mounts, Layer, init_exits, session
<1>27. CASE vsb_pivot_root
  BY <1>27 DEF vsb_pivot_root, Layer, init_exits, session
<1>28. CASE vsb_prepare_mounts
  BY <1>28 DEF vsb_prepare_mounts, Layer, init_exits, session
<1>29. CASE vsb_drop_caps
  BY <1>29 DEF vsb_drop_caps, Layer, init_exits, session
<1>30. CASE vsb_apply_seccomp
  BY <1>30 DEF vsb_apply_seccomp, Layer, init_exits, session
<1>31. CASE no_seccomp
  BY <1>31 DEF no_seccomp, session
<1>32. CASE exec
  BY <1>32 DEF exec, init_exits, session, CanExec
<1>33. CASE program_ends
  BY <1>33 DEF program_ends, init_exits, session
<1>34. ASSUME NEW p \in {"parent", "child", "init"}, Kill(p) PROVE ResourceInv'
  BY <1>34 DEF Kill, Quiet, ChildAlive, InitAlive, Killed, Closed, session
<1> QED
  BY <1>1, <1>2, <1>3, <1>4, <1>5, <1>6, <1>7, <1>8, <1>9, <1>10, <1>11, <1>12,
     <1>13, <1>14, <1>15, <1>16, <1>17, <1>18, <1>19, <1>20, <1>21, <1>22, <1>23, <1>24,
     <1>25, <1>26, <1>27, <1>28, <1>29, <1>30, <1>31, <1>32, <1>33, <1>34
     DEF SandboxNext, ParentStep, ChildStep, InitStep

(* The news of a failure goes from PID 1 to the child, from the child to   *)
(* the parent, and is not lost or overwritten on the way.                  *)
LEMMA NewsStep == BoxInv /\ [SandboxNext]_sandboxVars => NewsInv'
<1> SUFFICES ASSUME BoxInv, [SandboxNext]_sandboxVars PROVE NewsInv'
  OBVIOUS
<1> USE DEF BoxInv, NewsInv, ProcessInv, LayerInv, PipeInv, TypeOK,
            Pipes, Options, ParentPc, CodeOf, Reported, ChildFailures,
            InitFailures, EarlyChild, LateChild, Wired, InitAlive
<1>1. CASE UNCHANGED sandboxVars
  BY <1>1 DEF sandboxVars
<1>2. CASE start_fails
  BY <1>2 DEF start_fails, Start, Prepare, jail_install_shell, InitAlive
<1>3. CASE start_forks
  BY <1>3 DEF start_forks, Start, Prepare, jail_install_shell, InitAlive
<1>4. CASE parent_adopts
  BY <1>4 DEF parent_adopts, Closed
<1>5. CASE parent_reads_ready
  BY <1>5 DEF parent_reads_ready, Readable, session
<1>6. CASE vsb_write_uid_gid_map
  BY <1>6 DEF vsb_write_uid_gid_map, session
<1>7. CASE rust_cgroup_apply
  BY <1>7 DEF rust_cgroup_apply
<1>8. CASE abort_kill
  BY <1>8 DEF abort_kill, Killed, ChildAlive, Closed, session
<1>9. CASE abort_close
  BY <1>9 DEF abort_close, Closed, session
<1>10. CASE abort_returns
  BY <1>10 DEF abort_returns, Closed
<1>11. CASE parent_releases
  BY <1>11 DEF parent_releases, Closed, session
<1>12. CASE vsb_net_veth_setup
  BY <1>12 DEF vsb_net_veth_setup, Readable
<1>13. CASE parent_syncs_net
  BY <1>13 DEF parent_syncs_net, Sent, session
<1>14. CASE parent_reaps
  BY <1>14 DEF parent_reaps
<1>15. CASE parent_returns
  BY <1>15 DEF parent_returns, Closed, Verdict
<1>16. CASE child_starts
  BY <1>16 DEF child_starts, Closed, session
<1>17. CASE unshare_user
  BY <1>17 DEF unshare_user, child_exits, Closed, session
<1>18. CASE child_signals
  BY <1>18 DEF child_signals, Sent, session
<1>19. CASE child_reads_sync
  BY <1>19 DEF child_reads_sync, Readable, session
<1>20. CASE unshare_ns
  BY <1>20 DEF unshare_ns, child_exits, Closed, session
<1>21. CASE child_signals_net
  BY <1>21 DEF child_signals_net, Sent, session
<1>22. CASE configure_net
  BY <1>22 DEF configure_net, Readable, child_exits, Closed, session
<1>23. CASE bind_vault
  BY <1>23 DEF bind_vault, child_exits, Closed, session
<1>24. CASE fork_init
  BY <1>24 DEF fork_init, child_exits, Closed, session
<1>25. CASE child_relays
  BY <1>25 DEF child_relays, child_exits, Closed, session
<1>26. CASE jail_mounts
  BY <1>26 DEF jail_mounts, Layer, init_exits, session
<1>27. CASE vsb_pivot_root
  BY <1>27 DEF vsb_pivot_root, Layer, init_exits, session
<1>28. CASE vsb_prepare_mounts
  BY <1>28 DEF vsb_prepare_mounts, Layer, init_exits, session
<1>29. CASE vsb_drop_caps
  BY <1>29 DEF vsb_drop_caps, Layer, init_exits, session
<1>30. CASE vsb_apply_seccomp
  BY <1>30 DEF vsb_apply_seccomp, Layer, init_exits, session
<1>31. CASE no_seccomp
  BY <1>31 DEF no_seccomp, session
<1>32. CASE exec
  BY <1>32 DEF exec, init_exits, session, CanExec
<1>33. CASE program_ends
  BY <1>33 DEF program_ends, init_exits, session
<1>34. ASSUME NEW p \in {"parent", "child", "init"}, Kill(p) PROVE NewsInv'
  BY <1>34 DEF Kill, Quiet, ChildAlive, InitAlive, Killed, Closed, session
<1> QED
  BY <1>1, <1>2, <1>3, <1>4, <1>5, <1>6, <1>7, <1>8, <1>9, <1>10, <1>11, <1>12,
     <1>13, <1>14, <1>15, <1>16, <1>17, <1>18, <1>19, <1>20, <1>21, <1>22, <1>23, <1>24,
     <1>25, <1>26, <1>27, <1>28, <1>29, <1>30, <1>31, <1>32, <1>33, <1>34
     DEF SandboxNext, ParentStep, ChildStep, InitStep

(* Nothing is there before the first session.                              *)
LEMMA BoxInitHolds == SandboxInit => BoxInv
<1> SUFFICES ASSUME SandboxInit PROVE BoxInv
  OBVIOUS
<1>1. TypeOK
  <2>1. code \in [{"child", "init"} -> Codes]
    BY DEF SandboxInit, Codes
  <2>2. pipe \in [Pipes -> [byte : BOOLEAN, writers : SUBSET {"parent", "child"}]]
    BY DEF SandboxInit
  <2>3. parent \in ParentPc /\ child \in ChildPc /\ init \in InitPc
    BY DEF SandboxInit, ParentPc, ChildPc, InitPc
  <2> QED BY <2>1, <2>2, <2>3 DEF SandboxInit, TypeOK
<1>2. PipeInv /\ ProcessInv /\ LayerInv /\ ResourceInv
  BY DEF SandboxInit, Pipes, InitAlive, PipeInv, ProcessInv, LayerInv, ResourceInv, Limited, Admitted, Entered, Furnished,
         EarlyChild, LateChild
<1>3. NewsInv
  BY DEF SandboxInit, NewsInv, Wired, ChildFailures, InitFailures
<1> QED BY <1>1, <1>2, <1>3 DEF BoxInv

LEMMA BoxStep == BoxInv /\ [SandboxNext]_sandboxVars => BoxInv'
BY BoxTypeStep, PipeStep, ProcessStep, LayerStep, ResourceStep, NewsStep DEF BoxInv

(* What a reader wants to know follows from the invariant.                 *)
LEMMA BoxFollows ==
    ASSUME BoxInv
    PROVE  TypeOK /\ ProgramIsolated /\ NothingLeftBehind /\ FailureReported
<1>1. TypeOK
  BY DEF BoxInv
<1>2. ProgramIsolated
  BY DEF BoxInv, LayerInv, Furnished, Entered, Admitted, Limited, InitAlive, ProgramIsolated
<1>3. NothingLeftBehind
  BY DEF BoxInv, ProcessInv, ResourceInv, InitAlive, ChildAlive, NothingLeftBehind,
         NothingLeftRunning, SessionScoped
<1>4. FailureReported
  BY DEF BoxInv, NewsInv, Reported, FailureReported
<1> QED BY <1>1, <1>2, <1>3, <1>4

(* The inductive invariant of a sandbox session holds throughout, whatever *)
(* fails, whoever is killed and however the processes interleave.          *)
THEOREM BoxInvariantHolds == SandboxSpec => []BoxInv
BY BoxInitHolds, BoxStep, PTL DEF SandboxSpec

(* Every variable of a sandbox session keeps its type.                     *)
THEOREM BoxTypesHold == SandboxSpec => []TypeOK
BY BoxInvariantHolds, BoxFollows, PTL

(* When the program runs, every layer its options ask for is in place,     *)
(* although three processes set them up and any of them may be killed.     *)
THEOREM ProgramRunsIsolated == SandboxSpec => []ProgramIsolated
BY BoxInvariantHolds, BoxFollows, PTL

(* vault_sandbox_open and run_isolated return with their processes gone    *)
(* and the whitelist empty, whichever of their paths they return by.  The  *)
(* cgroup, the network pair or the open cipher directory outlives them     *)
(* only through an early return or a call that failed, both of which the   *)
(* model keeps record of.                                                  *)
THEOREM CallsLeaveNothing == SandboxSpec => []NothingLeftBehind
BY BoxInvariantHolds, BoxFollows, PTL

(* The failure of a step reaches the caller through both exits and waits,  *)
(* if the caller has a code for it; run_isolated reports every one.        *)
THEOREM FailuresAreReported == SandboxSpec => []FailureReported
BY BoxInvariantHolds, BoxFollows, PTL

-----------------------------------------------------------------------------
(* Part 3.  The file system of a jail.                                     *)

(* The steps PID 1 goes through, their order, and the ones it has done.    *)
StepNames == {Steps[i] : i \in 1 .. Len(Steps)}
Rank(s) == CHOOSE i \in 1 .. Len(Steps) : Steps[i] = s
Behind(s) == pc \in StepNames /\ Rank(s) < Rank(pc)

(* The paths a command line may name that no option but the home and a     *)
(* graphical session mounts over.                                          *)
PlainPaths == Below["home"] \cup {"usr"}

Mount == [at : Paths, kind : {"ro", "rw", "tmpfs", "proc", "gone"}, hid : SUBSET Paths]

(* Control: the steps that apply are taken in order, the binds first.      *)
ControlInv ==
    /\ asked.binds \in Seq([type : Types, path : PlainPaths]) /\ asked.home \in {"off", "ro", "rw"}
    /\ table \in Seq(Mount) /\ hidden \subseteq {"bus"}
    /\ pc \in StepNames \cup {"aborted"}
    /\ pc \in StepNames => Applies(pc)
    /\ next \in Nat \ {0} /\ skipped \subseteq 1 .. next - 1
    /\ pc \notin {"binds", "aborted"} => next > Len(asked.binds)

(* A bind done before next covers the path of bind i, or an option does.   *)
CoveredYet(i) ==
    LET p == asked.binds[i].path IN
    \/ \E j \in DOMAIN asked.binds :
          /\ j > i /\ j < next /\ j \notin skipped
          /\ asked.binds[j].type # "blacklist" /\ asked.binds[j].path \in Above(p)
    \/ asked.home # "off" /\ p \in Below["home"]
    \/ Graphical /\ p = "usr"

(* What the binds done so far promise holds after each of them.            *)
Honoured(i) ==
    /\ asked.binds[i].type = "ro" => \A q \in Below[asked.binds[i].path] :
          Shown(q) = "rw" => \/ q # asked.binds[i].path /\ q \in apart
                             \/ \E j \in DOMAIN asked.binds : j > i /\ asked.binds[j].path = q
    /\ asked.binds[i].type = "blacklist" => \A q \in Below[asked.binds[i].path] :
          Visible(q) => \E j \in DOMAIN asked.binds : j > i /\ asked.binds[j].path = q
BindInv ==
    \A i \in DOMAIN asked.binds : i < next /\ i \notin skipped /\ ~CoveredYet(i) => Honoured(i)

(* The mask of the bus is there from its step on, and what shows the bus   *)
(* was bound before.                                                       *)
BusInv ==
    "no-dbus" \in asked.on \ lapses =>
        /\ Behind("no-dbus") => "bus" \in hidden
        /\ Visible("bus") => "wayland" \in asked.on
        /\ Visible("bus") /\ Behind("xdg-runtime") => "xdg-runtime" \notin asked.on \ lapses

VaultsInv ==
    asked.home = "rw" /\ "home" \notin lapses /\ Behind("home") => ~Visible("vaults")

(* The /proc mounts there are: one from its step on, two between the root  *)
(* and the step that takes one away, and one less for each that failed.    *)
ProcMounts == {i \in DOMAIN table : table[i].kind # "gone" /\ table[i].at = "proc"}
ProcSteps == {"proc", "root", "procfs"}
Several(S) == \E i, j \in S : i # j
ProcCount ==
    /\ \A s \in ProcSteps \cap lapses : Behind(s)
    /\ ~Behind("proc") => ProcMounts = {}
    /\ Behind("proc") /\ ~Behind("procfs") /\ (~Behind("root") \/ "chroot" \in asked.on) =>
          (ProcMounts # {} <=> "proc" \notin lapses) /\ ~Several(ProcMounts)
    /\ Behind("root") /\ ~Behind("procfs") /\ "chroot" \notin asked.on =>
          (Several(ProcMounts) <=> {"proc", "root"} \cap lapses = {})
    /\ Behind("procfs") =>
          (ProcMounts # {} <=> IF "chroot" \in asked.on THEN "procfs" \notin lapses
                               ELSE {"proc", "root"} \cap lapses = {})
ProcInv ==
    /\ \A i \in ProcMounts : table[i].kind = "proc"
    /\ "no-proc" \in asked.on => ProcMounts = {}
    /\ "no-proc" \notin asked.on /\ pc \in StepNames => ProcCount

(* The inductive invariant.                                                *)
JailInv == ControlInv /\ BindInv /\ BusInv /\ VaultsInv /\ ProcInv

(* The newest of some entries of a list.                                   *)
LEMMA NewestOf ==
    ASSUME NEW n \in Nat, NEW S \in SUBSET (1 .. n), S # {}
    PROVE  Max(S) \in S /\ \A i \in S : i <= Max(S)
<1> DEFINE Gaps == {n - i : i \in S}
<1>1. Gaps \in SUBSET Nat /\ Gaps # {}
  <2>1. \A i \in S : i \in Nat /\ n - i \in Nat
    OBVIOUS
  <2> QED BY <2>1
<1>2. PICK g \in Gaps : \A k \in Gaps : g <= k
  BY <1>1, LeastNat
<1>3. PICK x \in S : g = n - x
  OBVIOUS
<1>4. \A i \in S : n - x <= n - i
  BY <1>2, <1>3
<1>5. \A i \in S : x >= i
  BY <1>4
<1>6. \E y \in S : \A i \in S : y >= i
  BY <1>5
<1>7. Max(S) \in S /\ \A i \in S : Max(S) >= i
  BY <1>6 DEF Max
<1> QED BY <1>7

(* What a list of mounts shows, for the lists a step goes through.         *)
OverIn(tab, p) == {i \in DOMAIN tab : tab[i].kind # "gone" /\ p \in Below[tab[i].at]}
ShownIn(tab, own, p) ==
    IF OverIn(tab, p) # {} THEN Face(p, tab[Max(OverIn(tab, p))])
    ELSE IF p \in own THEN "own" ELSE "absent"
(* The same, or only a file of the jail's own more or less.                *)
Close(a, b) == a = b \/ {a, b} \subseteq {"own", "absent"}

(* It is what the jail shows before and after a step.                      *)
LEMMA ShownNow == \A p : Shown(p) = ShownIn(table, made, p)
BY DEF Shown, ShownIn, MountsOver, OverIn

LEMMA ShownThen ==
    ASSUME apart' = apart
    PROVE  \A p : Shown(p)' = ShownIn(table', made', p)
<1>1. \A p, m : Face(p, m)' = Face(p, m)
  BY DEF Face
<1> QED BY <1>1 DEF Shown, ShownIn, MountsOver, OverIn, Face

(* A mount shows at every path under it what it has there.                 *)
LEMMA MountShows ==
    ASSUME NEW tab \in Seq(Mount), NEW m \in Mount, NEW own, NEW p,
           m.kind # "gone", p \in Below[m.at]
    PROVE  ShownIn(Append(tab, m), own, p) = Face(p, m)
<1> DEFINE new == Append(tab, m)
           n == Len(tab) + 1
<1>1. new \in Seq(Mount) /\ Len(new) = n /\ n \in Nat \ {0} /\ new[n] = m /\ DOMAIN new = 1 .. n
  BY LenProperties, AppendProperties
<1> HIDE DEF new, n
<1>2. n \in OverIn(new, p)
  BY <1>1 DEF OverIn
<1>3. OverIn(new, p) \in SUBSET (1 .. n)
  BY <1>1 DEF OverIn
<1>4. Max(OverIn(new, p)) = n
  <2>1. OverIn(new, p) # {} /\ n \in Nat
    BY <1>1, <1>2
  <2>2. Max(OverIn(new, p)) \in OverIn(new, p) /\ \A i \in OverIn(new, p) : i <= Max(OverIn(new, p))
    BY <1>3, <2>1, NewestOf
  <2>3. Max(OverIn(new, p)) \in 1 .. n /\ n <= Max(OverIn(new, p))
    BY <1>2, <1>3, <2>2
  <2> QED BY <2>1, <2>3
<1>5. new[Max(OverIn(new, p))] = m /\ OverIn(new, p) # {}
  BY <1>1, <1>2, <1>4
<1> QED BY <1>5 DEF ShownIn, new

(* A path shows the same after changes to mounts that are not over it.     *)
LEMMA ShowsTheSame ==
    ASSUME NEW tab \in Seq(Mount), NEW new \in Seq(Mount), NEW own, NEW now, NEW p,
           OverIn(new, p) = OverIn(tab, p), \A i \in OverIn(tab, p) : new[i] = tab[i]
    PROVE  Close(ShownIn(new, now, p), ShownIn(tab, own, p))
<1>1. CASE OverIn(tab, p) = {}
  BY <1>1 DEF ShownIn, Close
<1>2. CASE OverIn(tab, p) # {}
  <2>1. Len(tab) \in Nat /\ OverIn(tab, p) \in SUBSET (1 .. Len(tab))
    BY LenProperties DEF OverIn
  <2>2. Max(OverIn(tab, p)) \in OverIn(tab, p)
    BY <1>2, <2>1, NewestOf
  <2> QED BY <1>2, <2>2 DEF ShownIn, Close
<1> QED BY <1>1, <1>2

(* A mount leaves what is not under it as it was.                          *)
LEMMA MountLeaves ==
    ASSUME NEW tab \in Seq(Mount), NEW m \in Mount, NEW own, NEW now, NEW p, p \notin Below[m.at]
    PROVE  Close(ShownIn(Append(tab, m), now, p), ShownIn(tab, own, p))
<1> DEFINE new == Append(tab, m)
           n == Len(tab) + 1
<1>1. /\ new \in Seq(Mount) /\ Len(new) = n /\ n \in Nat \ {0} /\ new[n] = m /\ DOMAIN new = 1 .. n
      /\ DOMAIN tab = 1 .. (n - 1) /\ \A i \in 1 .. (n - 1) : new[i] = tab[i]
  BY LenProperties, AppendProperties
<1> HIDE DEF new, n
<1>2. OverIn(new, p) \subseteq OverIn(tab, p)
  BY <1>1 DEF OverIn
<1>3. OverIn(tab, p) \subseteq OverIn(new, p) /\ \A i \in OverIn(tab, p) : new[i] = tab[i]
  BY <1>1 DEF OverIn
<1>4. OverIn(new, p) = OverIn(tab, p)
  BY <1>2, <1>3
<1>5. Close(ShownIn(new, now, p), ShownIn(tab, own, p))
  BY <1>1, <1>3, <1>4, ShowsTheSame
<1> QED BY <1>5 DEF new

(* Taking away a mount and what is on top of it.                           *)
LiveAt(p) == {i \in DOMAIN table : table[i].kind # "gone" /\ table[i].at = p}

(* An unmount marks the newest mount there and what was mounted below it   *)
(* since.                                                                  *)
LEMMA UnmountKeeps ==
    ASSUME table \in Seq(Mount), NEW q \in Paths
    PROVE  LET bare == Unmounted(q) IN
           /\ bare \in Seq(Mount) /\ DOMAIN bare = DOMAIN table
           /\ LiveAt(q) = {} => bare = table
           /\ LiveAt(q) # {} => \A i \in DOMAIN table :
                 bare[i] = IF i >= Max(LiveAt(q)) /\ table[i].at \in Below[q]
                           THEN [table[i] EXCEPT !.kind = "gone"] ELSE table[i]
<1> DEFINE bare == Unmounted(q)
           n == Len(table)
<1>1. n \in Nat /\ DOMAIN table = 1 .. n /\ \A i \in 1 .. n : table[i] \in Mount
  BY LenProperties, ElementOfSeq
<1>2. CASE LiveAt(q) = {}
  BY <1>2 DEF Unmounted, LiveAt
<1>3. CASE LiveAt(q) # {}
  <2>1. bare = [i \in DOMAIN table |-> IF i >= Max(LiveAt(q)) /\ table[i].at \in Below[q]
                                       THEN [table[i] EXCEPT !.kind = "gone"] ELSE table[i]]
    BY <1>3 DEF Unmounted, LiveAt
  <2>2. \A i \in 1 .. n : [table[i] EXCEPT !.kind = "gone"] \in Mount
    BY <1>1 DEF Mount
  <2> HIDE DEF bare, n
  <2>3. bare \in [1 .. n -> Mount]
    BY <1>1, <2>1, <2>2
  <2>4. bare \in Seq(Mount)
    BY <1>1, <2>3, SeqDef
  <2> QED BY <1>1, <1>3, <2>1, <2>3, <2>4 DEF bare
<1> QED BY <1>2, <1>3

(* It leaves what is not under it as it was.                               *)
LEMMA UnmountLeaves ==
    ASSUME table \in Seq(Mount), NEW q \in Paths, NEW own, NEW now, NEW p, p \notin Below[q]
    PROVE  Close(ShownIn(Unmounted(q), now, p), ShownIn(table, own, p))
<1> DEFINE bare == Unmounted(q)
<1>1. /\ bare \in Seq(Mount) /\ DOMAIN bare = DOMAIN table
      /\ LiveAt(q) = {} => bare = table
      /\ LiveAt(q) # {} => \A i \in DOMAIN table :
            bare[i] = IF i >= Max(LiveAt(q)) /\ table[i].at \in Below[q]
                      THEN [table[i] EXCEPT !.kind = "gone"] ELSE table[i]
  BY UnmountKeeps
<1>2. \A i \in DOMAIN table : table[i] \in Mount
  BY LenProperties, ElementOfSeq
<1> HIDE DEF bare
<1>3. ASSUME NEW i \in DOMAIN table, table[i].at \in Below[q] PROVE p \notin Below[table[i].at]
  BY <1>2, <1>3 DEF Mount, Paths, Below
<1>4. \A i \in DOMAIN table : bare[i] = table[i] \/ (bare[i].at = table[i].at /\ p \notin Below[table[i].at])
  BY <1>1, <1>2, <1>3 DEF Mount
<1>5. OverIn(bare, p) \subseteq OverIn(table, p) /\ OverIn(table, p) \subseteq OverIn(bare, p)
  BY <1>1, <1>4 DEF OverIn
<1>6. \A i \in OverIn(table, p) : bare[i] = table[i]
  BY <1>4 DEF OverIn
<1>7. OverIn(bare, p) = OverIn(table, p)
  BY <1>5
<1>8. Close(ShownIn(bare, now, p), ShownIn(table, own, p))
  BY <1>1, <1>6, <1>7, ShowsTheSame
<1> QED BY <1>8 DEF bare

(* The order of the steps.                                                 *)
LEMMA StepsAre ==
    /\ Len(Steps) = 14
    /\ Steps[1] = "binds" /\ Steps[2] = "home" /\ Steps[3] = "wayland" /\ Steps[4] = "x11"
    /\ Steps[5] = "no-dbus" /\ Steps[6] = "proc" /\ Steps[7] = "gui" /\ Steps[8] = "xdg-runtime"
    /\ Steps[9] = "audio" /\ Steps[10] = "dbus-session" /\ Steps[11] = "root"
    /\ Steps[12] = "procfs" /\ Steps[13] = "tmp" /\ Steps[14] = "running"
BY DEF Steps

LEMMA StepsDiffer == \A i, j \in 1 .. 14 : Steps[i] = Steps[j] => i = j
<1>1. \A i \in 1 .. 14 : i \in {1, 2, 3, 4, 5, 6, 7, 8, 9, 10, 11, 12, 13, 14}
  OBVIOUS
<1> QED BY <1>1, StepsAre

(* The steps by number.                                                    *)
LEMMA RankOf ==
    ASSUME NEW k \in 1 .. 14
    PROVE  Rank(Steps[k]) = k
BY StepsAre, StepsDiffer DEF Rank

LEMMA Ranks ==
    /\ Rank("binds") = 1 /\ Rank("home") = 2 /\ Rank("wayland") = 3 /\ Rank("x11") = 4
    /\ Rank("no-dbus") = 5 /\ Rank("proc") = 6 /\ Rank("gui") = 7 /\ Rank("xdg-runtime") = 8
    /\ Rank("audio") = 9 /\ Rank("dbus-session") = 10 /\ Rank("root") = 11
    /\ Rank("procfs") = 12 /\ Rank("tmp") = 13 /\ Rank("running") = 14
BY StepsAre, RankOf

LEMMA NamesAre ==
    /\ {"binds", "home", "wayland", "x11", "no-dbus", "proc", "gui", "xdg-runtime", "audio",
        "dbus-session", "root", "procfs", "tmp", "running"} \subseteq StepNames
    /\ \A s \in StepNames : \E k \in 1 .. 14 : s = Steps[k] /\ Rank(s) = k
    /\ "aborted" \notin StepNames
<1>1. \A k \in 1 .. 14 : Steps[k] \in StepNames
  BY StepsAre DEF StepNames
<1>2. \A s \in StepNames : \E k \in 1 .. 14 : s = Steps[k] /\ Rank(s) = k
  BY StepsAre, RankOf DEF StepNames
<1>3. \A i \in 1 .. 14 : i \in {1, 2, 3, 4, 5, 6, 7, 8, 9, 10, 11, 12, 13, 14}
  OBVIOUS
<1>4. \A i \in 1 .. 14 : Steps[i] # "aborted"
  BY <1>3, StepsAre
<1> QED BY <1>1, <1>2, <1>4, StepsAre

(* After a step comes the first later one that applies.                    *)
LEMMA AfterIsNext ==
    ASSUME NEW s \in StepNames \ {"running"}
    PROVE  /\ After(s) \in StepNames /\ Applies(After(s)) /\ Rank(s) < Rank(After(s))
           /\ \A t \in StepNames : Applies(t) /\ Rank(s) < Rank(t) => Rank(After(s)) <= Rank(t)
<1>1. PICK k \in 1 .. 14 : s = Steps[k] /\ Rank(s) = k
  BY NamesAre
<1> DEFINE Rest == {i \in 1 .. Len(Steps) : i > Rank(s) /\ Applies(Steps[i])}
<1>2. After(s) = Steps[Min(Rest)]
  BY DEF After, Rank
<1>3. k # 14
  BY <1>1, StepsAre
<1>4. Applies("running")
  BY DEF Applies, Switches
<1>5. Rest = {i \in 1 .. 14 : i > k /\ Applies(Steps[i])}
  BY <1>1, StepsAre
<1>6. 14 \in Rest /\ Rest \in SUBSET Nat
  BY <1>3, <1>4, <1>5, StepsAre
<1> HIDE DEF Rest
<1>7. \E m \in Rest : \A i \in Rest : m <= i
  BY <1>6, LeastNat
<1>8. Min(Rest) \in Rest /\ \A i \in Rest : Min(Rest) <= i
  BY <1>7 DEF Min
<1> DEFINE n == Min(Rest)
<1>9. /\ n \in 1 .. 14 /\ n > k /\ Applies(Steps[n])
      /\ \A i \in 1 .. 14 : i > k /\ Applies(Steps[i]) => n <= i
  BY <1>5, <1>8
<1>10. After(s) = Steps[n]
  BY <1>2
<1> HIDE DEF n
<1>11. Rank(After(s)) = n /\ After(s) \in StepNames
  BY <1>9, <1>10, RankOf, StepsAre DEF StepNames
<1>12. ASSUME NEW t \in StepNames, Applies(t), Rank(s) < Rank(t) PROVE Rank(After(s)) <= Rank(t)
  <2>1. PICK j \in 1 .. 14 : t = Steps[j] /\ Rank(t) = j
    BY NamesAre
  <2> QED BY <1>1, <1>9, <1>11, <1>12, <2>1
<1> QED BY <1>1, <1>9, <1>10, <1>11, <1>12

(* A step that applies is behind once it was taken.                        *)
LEMMA AdvanceIsInOrder ==
    ASSUME pc \in StepNames \ {"running"}, pc' = After(pc), asked' = asked
    PROVE  /\ pc' \in StepNames /\ Applies(pc)'
           /\ \A t \in StepNames : Applies(t) /\ Behind(t)' => t = pc \/ Behind(t)
           /\ pc' # "binds"
<1>1. /\ pc' \in StepNames /\ Applies(pc') /\ Rank(pc) < Rank(pc')
      /\ \A t \in StepNames : Applies(t) /\ Rank(pc) < Rank(t) => Rank(pc') <= Rank(t)
  BY AfterIsNext
<1>2. Applies(pc)'
  BY <1>1 DEF Applies, Graphical
<1>3. \A t \in StepNames : Rank(t) \in Nat /\ t = Steps[Rank(t)]
  BY NamesAre
<1>4. ASSUME NEW t \in StepNames, Applies(t), Behind(t)' PROVE t = pc \/ Behind(t)
  <2>1. Rank(t) < Rank(pc')
    BY <1>4 DEF Behind, Rank
  <2>2. ~(Rank(pc) < Rank(t))
    BY <1>1, <1>3, <1>4, <2>1
  <2>3. Rank(t) < Rank(pc) \/ Rank(t) = Rank(pc)
    BY <1>3, <2>2
  <2> QED BY <1>3, <2>3 DEF Behind
<1>5. pc' # "binds"
  BY <1>1, <1>3, Ranks, NamesAre
<1> QED BY <1>1, <1>2, <1>4, <1>5

(* The actions of the binds, and those of the steps after them.            *)
Binding == bind_ro \/ bind_rw \/ bind_blacklist
Later ==
    \/ bind_home \/ bind_wayland \/ bind_x11 \/ mask_dbus \/ mount_proc \/ bind_gui
    \/ bind_xdg_runtime \/ bind_audio \/ bind_dbus_session \/ remount_proc \/ mount_tmp
    \/ isolate_root /\ pc' # "aborted"

(* The paths a step mounts at or over.                                     *)
Touched(s) ==
    IF s = "home" THEN Below["home"]
    ELSE IF s \in {"wayland", "xdg-runtime"} THEN Below["run"]
    ELSE IF s = "x11" THEN {"x11"}
    ELSE IF s = "audio" THEN {"sound"}
    ELSE IF s = "dbus-session" THEN {"bus"}
    ELSE IF s \in {"proc", "root", "procfs"} THEN {"proc"}
    ELSE IF s = "gui" THEN {"usr"}
    ELSE IF s = "tmp" THEN Below["tmp"]
    ELSE {}

LEMMA PathsAre ==
    /\ Paths = {"home", "secret", "vaults", "usr", "run", "bus", "sound", "tmp", "x11", "proc"}
    /\ Below["home"] = {"home", "secret", "vaults"} /\ Below["vaults"] = {"vaults"}
    /\ Below["secret"] = {"secret"} /\ Below["usr"] = {"usr"} /\ Below["run"] = {"run", "bus", "sound"}
    /\ Below["bus"] = {"bus"} /\ Below["sound"] = {"sound"} /\ Below["tmp"] = {"tmp", "x11"}
    /\ Below["x11"] = {"x11"} /\ Below["proc"] = {"proc"}
    /\ PlainPaths = {"home", "secret", "vaults", "usr"}
BY DEF Paths, Below, PlainPaths

(* The mounts the steps make, with the bus hidden in them or not.          *)
LEMMA NewMount ==
    ASSUME ControlInv, NEW q \in Paths, NEW kind \in {"ro", "rw", "tmpfs", "proc"}, NEW tab \in Seq(Mount)
    PROVE  /\ [at |-> q, kind |-> kind, hid |-> hidden] \in Mount
           /\ MountedOn(tab, q, kind) = Append(tab, [at |-> q, kind |-> kind, hid |-> hidden])
           /\ MountedOn(tab, q, kind) \in Seq(Mount)
<1>1. hidden \in SUBSET Paths
  BY PathsAre DEF ControlInv
<1>2. [at |-> q, kind |-> kind, hid |-> hidden] \in Mount
  BY <1>1 DEF Mount
<1> QED BY <1>2, AppendProperties DEF MountedOn

LEMMA MountedLeaves ==
    ASSUME ControlInv, NEW q \in Paths, NEW kind \in {"ro", "rw", "tmpfs", "proc"}, NEW tab \in Seq(Mount),
           NEW own, NEW now, NEW p, p \notin Below[q]
    PROVE  Close(ShownIn(MountedOn(tab, q, kind), now, p), ShownIn(tab, own, p))
<1> DEFINE m == [at |-> q, kind |-> kind, hid |-> hidden]
<1>1. m \in Mount /\ MountedOn(tab, q, kind) = Append(tab, m) /\ m.at = q
  BY NewMount
<1> HIDE DEF m
<1> QED BY <1>1, MountLeaves

LEMMA MountedShows ==
    ASSUME ControlInv, NEW q \in Paths, NEW kind \in {"ro", "rw", "tmpfs", "proc"}, NEW tab \in Seq(Mount),
           NEW now, NEW p, p \in Below[q], NEW m, m = [at |-> q, kind |-> kind, hid |-> hidden]
    PROVE  ShownIn(MountedOn(tab, q, kind), now, p) = Face(p, m)
<1>1. m \in Mount /\ MountedOn(tab, q, kind) = Append(tab, m) /\ m.at = q /\ m.kind # "gone"
  BY NewMount
<1> QED BY <1>1, MountShows

(* The mount whose failure is ignored.                                     *)
LEMMA SoftlyDoes ==
    ASSUME ControlInv, NEW q \in Paths, NEW kind \in {"ro", "rw", "tmpfs", "proc"}, NEW tab \in Seq(Mount),
           Softly(tab, q, kind)
    PROVE  /\ table' \in Seq(Mount)
           /\ \/ table' = MountedOn(tab, q, kind) /\ lapses' = lapses
              \/ /\ table' = tab \/ (kind = "ro" /\ table' = MountedOn(tab, q, "rw"))
                 /\ lapses' = lapses \cup {pc}
           /\ \A p : p \notin Below[q] => Close(ShownIn(table', made', p), ShownIn(tab, made, p))
<1>1. \/ table' = MountedOn(tab, q, kind) /\ lapses' = lapses
      \/ /\ table' = tab \/ (kind = "ro" /\ table' = MountedOn(tab, q, "rw"))
         /\ lapses' = lapses \cup {pc}
  BY DEF Softly, Lapse
<1>2. MountedOn(tab, q, kind) \in Seq(Mount) /\ MountedOn(tab, q, "rw") \in Seq(Mount)
  BY NewMount
<1>3. ASSUME NEW p, p \notin Below[q] PROVE Close(ShownIn(table', made', p), ShownIn(tab, made, p))
  <2>1. CASE table' = tab
    BY <2>1 DEF Close, ShownIn
  <2>2. CASE table' = MountedOn(tab, q, kind)
    BY <1>3, <2>2, MountedLeaves
  <2>3. CASE table' = MountedOn(tab, q, "rw")
    BY <1>3, <2>3, MountedLeaves
  <2> QED BY <1>1, <2>1, <2>2, <2>3
<1> QED BY <1>1, <1>2, <1>3

(* The steps after the binds: which step it is, and what it leaves alone.  *)
LEMMA LaterFrame ==
    ASSUME ControlInv, Later
    PROVE  /\ pc \in StepNames \ {"binds", "running"} /\ pc' = After(pc)
           /\ UNCHANGED <<asked, apart, next, skipped>>
           /\ hidden' \subseteq {"bus"} /\ lapses' \in {lapses, lapses \cup {pc}}
           /\ lapses \subseteq lapses'
<1>1. pc' = After(pc) /\ UNCHANGED <<asked, apart, next, skipped>>
  BY DEF Later, bind_home, bind_wayland, bind_x11, mask_dbus, mount_proc,
         bind_gui, bind_xdg_runtime,
         bind_audio, bind_dbus_session, remount_proc, mount_tmp, isolate_root,
         Step, Advance, Abort
<1>2. pc \in {"home", "wayland", "x11", "no-dbus", "proc", "gui", "xdg-runtime", "audio",
              "dbus-session", "root", "procfs", "tmp"}
  BY DEF Later, bind_home, bind_wayland, bind_x11, mask_dbus, mount_proc,
         bind_gui, bind_xdg_runtime,
         bind_audio, bind_dbus_session, remount_proc, mount_tmp, isolate_root,
         Step
<1>3. hidden' \in {hidden, hidden \cup {"bus"}}
  BY DEF Later, bind_home, bind_wayland, bind_x11, mask_dbus, mount_proc,
         bind_gui, bind_xdg_runtime,
         bind_audio, bind_dbus_session, remount_proc, mount_tmp, isolate_root
<1>4. lapses' \in {lapses, lapses \cup {pc}}
  BY DEF Later, bind_home, bind_wayland, bind_x11, mask_dbus, mount_proc,
         bind_gui, bind_xdg_runtime,
         bind_audio, bind_dbus_session, remount_proc, mount_tmp, isolate_root,
         Softly, Lapse, Abort
<1> QED BY <1>1, <1>2, <1>3, <1>4, NamesAre DEF ControlInv

(* What a step after the binds does to the mounts it does not name.        *)
LEMMA LaterTable ==
    ASSUME ControlInv, Later
    PROVE  /\ table' \in Seq(Mount)
           /\ \A p : p \notin Touched(pc) => Close(Shown(p)', Shown(p))
<1> DEFINE Still(T) == /\ table' \in Seq(Mount)
                       /\ \A p : p \notin T => Close(ShownIn(table', made', p), ShownIn(table, made, p))
<1> HIDE DEF Still
<1>a. SUFFICES Still(Touched(pc))
  <2>1. apart' = apart
    BY LaterFrame
  <2> QED BY <1>a, <2>1, ShownNow, ShownThen DEF Still
<1>0. table \in Seq(Mount)
  BY DEF ControlInv
<1>1. ASSUME NEW q \in Paths, NEW kind \in {"ro", "rw", "tmpfs", "proc"}, Softly(table, q, kind)
      PROVE  Still(Below[q])
  BY <1>0, <1>1, SoftlyDoes DEF Still
<1>2. ASSUME NEW q \in Paths, NEW r \in Paths, NEW kind \in {"ro", "rw", "tmpfs", "proc"},
             Softly(Unmounted(r), q, kind)
      PROVE  Still(Below[q] \cup Below[r])
  <2>1. Unmounted(r) \in Seq(Mount)
    BY <1>0, UnmountKeeps
  <2>2. /\ table' \in Seq(Mount)
        /\ \A p : p \notin Below[q] => Close(ShownIn(table', made', p), ShownIn(Unmounted(r), made, p))
    BY <1>2, <2>1, SoftlyDoes
  <2>3. \A p : p \notin Below[r] => Close(ShownIn(Unmounted(r), made, p), ShownIn(table, made, p))
    BY <1>0, UnmountLeaves
  <2> QED BY <2>2, <2>3 DEF Close, Still
<1>3. ASSUME NEW r \in Paths, table' = Unmounted(r) PROVE Still(Below[r])
  <2>1. Unmounted(r) \in Seq(Mount)
    BY <1>0, UnmountKeeps
  <2> QED BY <1>0, <1>3, <2>1, UnmountLeaves DEF Still
<1>4. ASSUME table' = table PROVE Still({})
  BY <1>0, <1>4 DEF Close, ShownIn, Still
<1>5. CASE bind_home
  <2> DEFINE bare == Unmounted("vaults")
             one == MountedOn(bare, "home", "rw")
             two == MountedOn(one, "vaults", "tmpfs")
  <2>1. pc = "home" /\ (Softly(bare, "home", "ro") \/ table' \in {bare, one, two, table})
    BY <1>5 DEF bind_home, Step
  <2>2. "home" \in Paths /\ "vaults" \in Paths /\ Below["vaults"] \subseteq Below["home"]
    BY PathsAre
  <2>3. bare \in Seq(Mount)
    BY <1>0, <2>2, UnmountKeeps
  <2>4. \A p : p \notin Below["home"] => Close(ShownIn(bare, made', p), ShownIn(table, made, p))
    BY <1>0, <2>2, UnmountLeaves
  <2> HIDE DEF bare
  <2>5. one \in Seq(Mount)
    BY <2>2, <2>3, NewMount
  <2>6. \A p : p \notin Below["home"] => Close(ShownIn(one, made', p), ShownIn(bare, made', p))
    BY <2>2, <2>3, MountedLeaves
  <2> HIDE DEF one
  <2>7. two \in Seq(Mount)
    BY <2>2, <2>5, NewMount
  <2>8. \A p : p \notin Below["home"] => Close(ShownIn(two, made', p), ShownIn(one, made', p))
    BY <2>2, <2>5, MountedLeaves
  <2> HIDE DEF two
  <2>9. Still(Below["home"])
    <3>1. CASE Softly(bare, "home", "ro")
      BY <3>1, <1>2, <2>2 DEF bare
    <3>2. CASE table' = bare
      BY <3>2, <2>3, <2>4 DEF Still
    <3>3. CASE table' = one
      BY <3>3, <2>5, <2>4, <2>6 DEF Close, Still
    <3>4. CASE table' = two
      BY <3>4, <2>7, <2>4, <2>6, <2>8 DEF Close, Still
    <3>5. CASE table' = table
      BY <3>5, <1>4 DEF Still
    <3> QED BY <2>1, <3>1, <3>2, <3>3, <3>4, <3>5
    <2> QED BY <2>1, <2>9 DEF Touched
<1>6. CASE bind_wayland \/ bind_xdg_runtime
  <2>1. pc \in {"wayland", "xdg-runtime"} /\ Softly(table, "run", "ro")
    BY <1>6 DEF bind_wayland, bind_xdg_runtime, Step
  <2>2. Touched(pc) = Below["run"]
    BY <2>1 DEF Touched
  <2> QED BY <2>1, <2>2, <1>1, PathsAre
<1>7. CASE bind_x11
  <2>1. pc = "x11" /\ Softly(table, "x11", "ro")
    BY <1>7 DEF bind_x11, Step
  <2>2. Touched(pc) = Below["x11"]
    BY <2>1, PathsAre DEF Touched
  <2> QED BY <2>1, <2>2, <1>1, PathsAre
<1>8. CASE bind_audio
  <2>1. pc = "audio" /\ Softly(table, "sound", "rw")
    BY <1>8 DEF bind_audio, Step
  <2>2. Touched(pc) = Below["sound"]
    BY <2>1, PathsAre DEF Touched
  <2> QED BY <2>1, <2>2, <1>1, PathsAre
<1>9. CASE bind_dbus_session
  <2>1. pc = "dbus-session" /\ Softly(table, "bus", "rw")
    BY <1>9 DEF bind_dbus_session, Step
  <2>2. Touched(pc) = Below["bus"]
    BY <2>1, PathsAre DEF Touched
  <2> QED BY <2>1, <2>2, <1>1, PathsAre
<1>10. CASE mount_tmp
  <2>1. pc = "tmp" /\ Softly(table, "tmp", "tmpfs")
    BY <1>10 DEF mount_tmp, Step
  <2>2. Touched(pc) = Below["tmp"]
    BY <2>1, PathsAre DEF Touched
  <2> QED BY <2>1, <2>2, <1>1, PathsAre
<1>11. CASE mask_dbus
  <2>1. pc = "no-dbus" /\ table' = table
    BY <1>11 DEF mask_dbus, Step
  <2>2. Touched(pc) = {}
    BY <2>1 DEF Touched
  <2> QED BY <2>1, <2>2, <1>4
<1>12. CASE bind_gui
  <2>1. pc = "gui" /\ Softly(Unmounted("usr"), "usr", "ro")
    BY <1>12 DEF bind_gui, Step
  <2>2. Touched(pc) = Below["usr"] \cup Below["usr"]
    BY <2>1, PathsAre DEF Touched
  <2> QED BY <2>1, <2>2, <1>2, PathsAre
<1>13. CASE mount_proc \/ isolate_root
  <2>1. pc \in {"proc", "root"} /\ (Softly(table, "proc", "proc") \/ table' = table)
    BY <1>13 DEF mount_proc, isolate_root, Step, Abort
  <2>2. Touched(pc) = Below["proc"]
    BY <2>1, PathsAre DEF Touched
  <2>3. CASE Softly(table, "proc", "proc")
    BY <2>2, <2>3, <1>1, PathsAre
  <2>4. CASE table' = table
    BY <2>4, <1>4 DEF Still
  <2> QED BY <2>1, <2>3, <2>4
<1>14. CASE remount_proc
  <2>1. pc = "procfs" /\ (Softly(Unmounted("proc"), "proc", "proc") \/ table' = Unmounted("proc"))
    BY <1>14 DEF remount_proc, Step
  <2>2. Touched(pc) = Below["proc"]
    BY <2>1, PathsAre DEF Touched
  <2>3. CASE Softly(Unmounted("proc"), "proc", "proc")
    <3>1. Still(Below["proc"] \cup Below["proc"])
      BY <2>3, <1>2, PathsAre
    <3> QED BY <2>2, <3>1
  <2>4. CASE table' = Unmounted("proc")
    BY <2>2, <2>4, <1>3, PathsAre
  <2> QED BY <2>1, <2>3, <2>4
<1> QED BY <1>5, <1>6, <1>7, <1>8, <1>9, <1>10, <1>11, <1>12, <1>13, <1>14 DEF Later

(* A bind of the command line ends the sandbox, is passed over, or mounts  *)
(* what its type says at its path.                                         *)
KindOf(type) == IF type = "blacklist" THEN "tmpfs" ELSE type
PassesOver ==
    /\ skipped' = skipped \cup {next} /\ next' = next + 1
    /\ UNCHANGED <<asked, apart, pc, table, hidden, lapses>>
Mounts ==
    /\ table' = MountedOn(table, asked.binds[next].path, KindOf(asked.binds[next].type)) /\ next' = next + 1
    /\ UNCHANGED <<asked, apart, pc, hidden, skipped, lapses>>

(* What the step of a bind comes to: it ends the jail, is skipped or       *)
(* mounts.                                                                 *)
LEMMA BindingDoes ==
    ASSUME ControlInv, Binding
    PROVE  /\ pc = "binds" /\ next \in DOMAIN asked.binds
           /\ Abort \/ PassesOver \/ Mounts
<1>1. pc = "binds" /\ next <= Len(asked.binds)
  BY DEF Binding, bind_ro, bind_rw, bind_blacklist, At
<1>2. next \in DOMAIN asked.binds
  BY <1>1, LenProperties DEF ControlInv
<1>3. CASE bind_ro
  BY <1>1, <1>2, <1>3 DEF bind_ro, At, Skip, Bound, Dst, PassesOver, Mounts, KindOf
<1>4. CASE bind_rw
  BY <1>1, <1>2, <1>4 DEF bind_rw, At, Skip, Bound, Unbound, Dst,
         PassesOver, Mounts, KindOf
<1>5. CASE bind_blacklist
  BY <1>1, <1>2, <1>5 DEF bind_blacklist, At, Skip, Bound, Dst, PassesOver,
         Mounts, KindOf
<1> QED BY <1>1, <1>2, <1>3, <1>4, <1>5 DEF Binding

(* The binds and the steps there are.                                      *)
LEMMA BindIs ==
    ASSUME ControlInv, NEW i \in DOMAIN asked.binds
    PROVE  /\ i \in Nat /\ i <= Len(asked.binds)
           /\ asked.binds[i].path \in PlainPaths /\ asked.binds[i].path \in Paths
           /\ asked.binds[i].type \in {"ro", "rw", "blacklist"}
           /\ KindOf(asked.binds[i].type) \in {"ro", "rw", "tmpfs"}
<1>1. i \in 1 .. Len(asked.binds) /\ asked.binds[i] \in [type : Types, path : PlainPaths] /\ Len(asked.binds) \in Nat
  BY LenProperties, ElementOfSeq DEF ControlInv
<1> QED BY <1>1, PathsAre DEF Types, KindOf

LEMMA NextIs ==
    ASSUME [JailNext]_jailVars
    PROVE  Binding \/ Later \/ binds_done \/ (isolate_root /\ Abort) \/ UNCHANGED jailVars
<1>1. CASE isolate_root
  <2>1. pc = "root" /\ (Abort \/ pc' = After("root"))
    BY <1>1 DEF isolate_root, Advance
  <2>2. After("root") # "aborted"
    BY AfterIsNext, NamesAre
  <2> QED BY <1>1, <2>1, <2>2 DEF Later
<1>2. CASE Over
  BY <1>2 DEF Over
<1> QED BY <1>1, <1>2 DEF JailNext, Binding, Later

LEMMA ControlStep == ControlInv /\ [JailNext]_jailVars => ControlInv'
<1> SUFFICES ASSUME ControlInv, [JailNext]_jailVars PROVE ControlInv'
  OBVIOUS
<1>1. CASE Binding
  <2>1. pc = "binds" /\ next \in DOMAIN asked.binds /\ (Abort \/ PassesOver \/ Mounts)
    BY <1>1, BindingDoes
  <2>2. Applies("binds")
    BY DEF Applies, Switches
  <2>3. CASE Abort
    BY <2>3, NamesAre DEF ControlInv, Abort
  <2>4. CASE PassesOver
    <3>1. skipped' \subseteq 1 .. next' - 1 /\ next' \in Nat \ {0}
      BY <2>4 DEF ControlInv, PassesOver
    <3> QED BY <2>1, <2>2, <2>4, <3>1 DEF ControlInv, PassesOver, Applies, Graphical
  <2>5. CASE Mounts
    <3>1. skipped' \subseteq 1 .. next' - 1 /\ next' \in Nat \ {0}
      BY <2>5 DEF ControlInv, Mounts
    <3>2. table' \in Seq(Mount)
      BY <2>1, <2>5, BindIs, NewMount DEF ControlInv, Mounts
    <3> QED BY <2>1, <2>2, <2>5, <3>1, <3>2 DEF ControlInv, Mounts, Applies, Graphical
  <2> QED BY <2>1, <2>3, <2>4, <2>5
<1>2. CASE Later
  <2>1. /\ pc \in StepNames \ {"binds", "running"} /\ pc' = After(pc)
        /\ UNCHANGED <<asked, apart, next, skipped>> /\ hidden' \subseteq {"bus"}
    BY <1>2, LaterFrame
  <2>2. table' \in Seq(Mount)
    BY <1>2, LaterTable
  <2>3. pc' \in StepNames /\ Applies(pc)' /\ pc # "aborted"
    BY <2>1, AdvanceIsInOrder, NamesAre
  <2> QED BY <2>1, <2>2, <2>3 DEF ControlInv
<1>3. CASE binds_done
  <2>1. pc = "binds" /\ next > Len(asked.binds) /\ pc' = After(pc) /\ UNCHANGED <<asked, next, skipped, table, hidden>>
    BY <1>3 DEF binds_done, Pass, Advance
  <2>2. pc' \in StepNames /\ Applies(pc)'
    BY <2>1, AdvanceIsInOrder, NamesAre
  <2> QED BY <2>1, <2>2 DEF ControlInv
<1>4. CASE Abort
  BY <1>4, NamesAre DEF ControlInv, Abort
<1>5. CASE UNCHANGED jailVars
  BY <1>5 DEF ControlInv, jailVars, Applies, Graphical
<1> QED BY <1>1, <1>2, <1>3, <1>4, <1>5, NextIs

(* A promise lasts as long as the paths it is about show the same.         *)
LEMMA StaysHonoured ==
    ASSUME ControlInv, asked' = asked, apart' = apart, NEW i \in DOMAIN asked.binds, Honoured(i),
           \A p \in Below[asked.binds[i].path] : Close(Shown(p)', Shown(p))
    PROVE  Honoured(i)'
<1>1. \A q \in Below[asked.binds[i].path] : Shown(q)' = "rw" => Shown(q) = "rw"
  BY DEF Close
<1>2. asked.binds[i].type = "ro" => \A q \in Below[asked.binds[i].path] :
          Shown(q)' = "rw" => \/ q # asked.binds[i].path /\ q \in apart
                              \/ \E j \in DOMAIN asked.binds : j > i /\ asked.binds[j].path = q
  BY <1>1 DEF Honoured
<1>3. \A q \in Below[asked.binds[i].path] : Visible(q)' => Visible(q)
  BY DEF Close, Visible
<1>4. asked.binds[i].type = "blacklist" => \A q \in Below[asked.binds[i].path] :
          Visible(q)' => \E j \in DOMAIN asked.binds : j > i /\ asked.binds[j].path = q
  BY <1>3 DEF Honoured
<1>5. Below' = Below
  BY DEF Below
<1> QED BY <1>2, <1>4, <1>5 DEF Honoured

(* Nothing but the jail's own files changes.                               *)
LEMMA SameTable ==
    ASSUME table' = table, apart' = apart
    PROVE  \A p : Close(Shown(p)', Shown(p))
BY ShownNow, ShownThen DEF Close, ShownIn

(* After a bind, its own promise and those of the binds before it hold.    *)
LEMMA BindingHonours ==
    ASSUME ControlInv, BindInv, Mounts, next \in DOMAIN asked.binds,
           NEW i \in DOMAIN asked.binds, i < next', i \notin skipped, ~CoveredYet(i)'
    PROVE  Honoured(i)'
<1>p. PICK p, r, kind :
        p = asked.binds[i].path /\ r = asked.binds[next].path /\ kind = KindOf(asked.binds[next].type)
  OBVIOUS
<1> DEFINE m == [at |-> r, kind |-> kind, hid |-> hidden]
<1>0. /\ table' = MountedOn(table, r, kind) /\ asked' = asked /\ apart' = apart /\ next' = next + 1
      /\ skipped' = skipped /\ table \in Seq(Mount) /\ next \in Nat
  BY <1>p DEF Mounts, ControlInv
<1>1. r \in Paths /\ kind \in {"ro", "rw", "tmpfs", "proc"} /\ r \in PlainPaths
  BY <1>p, BindIs
<1>2. i \in Nat /\ p \in PlainPaths /\ p \in Paths
  BY <1>p, BindIs
<1>3. \A q \in Below[r] : Shown(q)' = Face(q, m)
  <2>1. m = [at |-> r, kind |-> kind, hid |-> hidden]
    OBVIOUS
  <2> HIDE DEF m
  <2>2. \A q \in Below[r] : ShownIn(MountedOn(table, r, kind), made', q) = Face(q, m)
    BY <1>0, <1>1, <2>1, MountedShows
  <2> QED BY <1>0, <2>2, ShownThen
<1>4. \A q : q \notin Below[r] => Close(Shown(q)', Shown(q))
  BY <1>0, <1>1, MountedLeaves, ShownThen, ShownNow
<1>5. asked.binds[next].type = "blacklist" => \A q \in Below[r] : Shown(q)' \in {"tmpfs", "absent"}
  BY <1>p, <1>3 DEF Face, KindOf
<1>6. CASE i = next
  <2>2. asked.binds[i].type = "ro" => \A q \in Below[p] : Shown(q)' = "rw" => q # p /\ q \in apart
    <3>1. asked.binds[i].type = "ro" => kind = "ro"
      BY <1>p, <1>6 DEF KindOf
    <3>2. kind = "ro" => \A q : Face(q, m) = "rw" => q # r /\ q \in apart
      BY DEF Face
    <3> QED BY <1>p, <1>3, <1>6, <3>1, <3>2
  <2>3. asked.binds[i].type = "blacklist" => \A q \in Below[p] : ~Visible(q)'
    BY <1>p, <1>5, <1>6 DEF Visible
  <2>4. Below' = Below
    BY DEF Below
  <2> QED BY <1>p, <1>0, <2>2, <2>3, <2>4 DEF Honoured
<1>7. CASE i < next
  <2>1. ~CoveredYet(i)
    <3> SUFFICES ASSUME NEW j \in DOMAIN asked.binds, j > i, j < next, j \notin skipped,
                        asked.binds[j].type # "blacklist", asked.binds[j].path \in Above(asked.binds[i].path)
                 PROVE  FALSE
      BY <1>0 DEF CoveredYet, Graphical, Above, Below, Paths
    <3>1. j \in Nat
      BY BindIs
    <3>2. j < next' /\ j \notin skipped'
      BY <1>0, <3>1
    <3> QED BY <1>0, <3>2 DEF CoveredYet, Above, Below, Paths
  <2>2. Honoured(i)
    BY <1>7, <2>1 DEF BindInv
  <2>3. asked.binds[next].type = "blacklist" \/ p \notin Below[r]
    <3>1. next > i /\ next < next' /\ next \notin skipped
      BY <1>0, <1>2, <1>7 DEF ControlInv
    <3>2. asked.binds[next].type = "blacklist" \/ r \notin Above(p)
      BY <1>p, <1>0, <3>1 DEF CoveredYet, Above, Below, Paths
    <3> QED BY <1>1, <3>2 DEF Above
  <2>4. ASSUME asked.binds[i].type = "ro", NEW q \in Below[p], Shown(q)' = "rw"
        PROVE  \/ q # p /\ q \in apart
               \/ \E j \in DOMAIN asked.binds : j > i /\ asked.binds[j].path = q
    <3>1. CASE q \notin Below[r]
      <4>1. Shown(q) = "rw"
        BY <1>4, <2>4, <3>1 DEF Close
      <4> QED BY <1>p, <2>2, <2>4, <4>1 DEF Honoured
    <3>2. CASE q \in Below[r]
      <4>1. asked.binds[next].type # "blacklist"
        BY <1>5, <2>4, <3>2
      <4>2. q = r
        BY <1>1, <1>2, <2>3, <2>4, <3>2, <4>1, PathsAre
      <4> QED BY <1>p, <1>0, <1>2, <1>7, <4>2
    <3> QED BY <3>1, <3>2
  <2>5. ASSUME asked.binds[i].type = "blacklist", NEW q \in Below[p], Visible(q)'
        PROVE  \E j \in DOMAIN asked.binds : j > i /\ asked.binds[j].path = q
    <3>1. CASE q \notin Below[r]
      <4>1. Visible(q)
        BY <1>4, <2>5, <3>1 DEF Close, Visible
      <4> QED BY <1>p, <2>2, <2>5, <4>1 DEF Honoured
    <3>2. CASE q \in Below[r]
      <4>1. asked.binds[next].type # "blacklist"
        BY <1>5, <2>5, <3>2 DEF Visible
      <4>2. q = r
        BY <1>1, <1>2, <2>3, <2>5, <3>2, <4>1, PathsAre
      <4> QED BY <1>p, <1>0, <1>2, <1>7, <4>2
    <3> QED BY <3>1, <3>2
  <2>6. Below' = Below
    BY DEF Below
  <2> QED BY <1>p, <1>0, <2>4, <2>5, <2>6 DEF Honoured
<1> QED BY <1>0, <1>2, <1>6, <1>7

(* The steps after the binds break no promise that nothing covers.         *)
LEMMA LaterHonours ==
    ASSUME ControlInv, BindInv, Later, NEW i \in DOMAIN asked.binds, ~CoveredYet(i), Honoured(i)
    PROVE  Honoured(i)'
<1>1. asked' = asked /\ apart' = apart
  BY LaterFrame
<1>2. \A p : p \notin Touched(pc) => Close(Shown(p)', Shown(p))
  BY LaterTable
<1>3. pc \in StepNames /\ Applies(pc)
  BY LaterFrame DEF ControlInv
<1>4. ASSUME NEW p \in Below[asked.binds[i].path] PROVE p \notin Touched(pc)
  <2>1. asked.binds[i].path \in PlainPaths
    BY BindIs
  <2>2. pc = "home" => asked.binds[i].path \notin Below["home"]
    BY <1>3 DEF Applies, CoveredYet
  <2>3. pc = "gui" => asked.binds[i].path # "usr"
    BY <1>3 DEF Applies, CoveredYet
  <2> QED BY <2>1, <2>2, <2>3, PathsAre DEF Touched
<1> QED BY <1>1, <1>2, <1>4, StaysHonoured

LEMMA BindStep == ControlInv /\ BindInv /\ [JailNext]_jailVars => BindInv'
<1> SUFFICES ASSUME ControlInv, BindInv, [JailNext]_jailVars,
                    NEW i \in DOMAIN asked'.binds, i < next', i \notin skipped', ~CoveredYet(i)'
             PROVE  Honoured(i)'
  BY DEF BindInv
<1>1. ASSUME UNCHANGED <<asked, next, skipped>> PROVE i < next /\ i \notin skipped /\ ~CoveredYet(i) /\ Honoured(i)
  <2>1. ~CoveredYet(i)
    BY <1>1 DEF CoveredYet, Above, Below, Graphical, Paths
  <2> QED BY <1>1, <2>1 DEF BindInv
<1>2. ASSUME UNCHANGED <<asked, next, skipped, table, apart>> PROVE Honoured(i)'
  BY <1>1, <1>2, SameTable, StaysHonoured
<1>3. CASE Binding
  <2>1. next \in DOMAIN asked.binds /\ (Abort \/ PassesOver \/ Mounts)
    BY <1>3, BindingDoes
  <2>2. CASE Abort
    BY <1>2, <2>2 DEF Abort
  <2>3. CASE PassesOver
    <3>1. /\ UNCHANGED <<asked, apart, table>> /\ next' = next + 1 /\ skipped' = skipped \cup {next}
          /\ next \in Nat
      BY <2>3 DEF PassesOver, ControlInv
    <3>2. i \in Nat /\ i < next /\ i \notin skipped
      BY <3>1, BindIs
    <3>3. ~CoveredYet(i)
      <4> SUFFICES ASSUME NEW j \in DOMAIN asked.binds, j > i, j < next, j \notin skipped,
                          asked.binds[j].type # "blacklist", asked.binds[j].path \in Above(asked.binds[i].path)
                   PROVE  FALSE
        BY <3>1 DEF CoveredYet, Graphical, Above, Below, Paths
      <4>1. j \in Nat
        BY BindIs
      <4>2. j < next' /\ j \notin skipped'
        BY <3>1, <4>1
      <4> QED BY <3>1, <4>2 DEF CoveredYet, Above, Below, Paths
    <3>4. Honoured(i)
      BY <3>1, <3>2, <3>3 DEF BindInv
    <3> QED BY <3>1, <3>4, SameTable, StaysHonoured
  <2>4. CASE Mounts
    <3>1. asked' = asked /\ skipped' = skipped
      BY <2>4 DEF Mounts
    <3> QED BY <2>1, <2>4, <3>1, BindingHonours
  <2> QED BY <2>1, <2>2, <2>3, <2>4
<1>4. CASE Later
  <2>1. UNCHANGED <<asked, next, skipped>>
    BY <1>4, LaterFrame
  <2> QED BY <1>1, <1>4, <2>1, LaterHonours
<1>5. CASE binds_done
  BY <1>2, <1>5 DEF binds_done, Pass, Advance
<1>6. CASE Abort
  BY <1>2, <1>6 DEF Abort
<1>7. CASE UNCHANGED jailVars
  BY <1>2, <1>7 DEF jailVars
<1> QED BY <1>3, <1>4, <1>5, <1>6, <1>7, NextIs

(* The steps behind, after each kind of step.                              *)
LEMMA BehindSame ==
    ASSUME pc' = pc \/ pc' = "aborted", NEW t, Behind(t)'
    PROVE  Behind(t)
BY NamesAre DEF Behind, Rank, StepNames, Steps

(* While the binds are done no step is behind, and they show no bus and no *)
(* vaults.                                                                 *)
LEMMA NothingBehind ==
    ASSUME pc = "binds", NEW t \in StepNames
    PROVE  ~Behind(t)
BY Ranks, NamesAre DEF Behind

LEMMA MountsLeaves ==
    ASSUME ControlInv, Mounts, next \in DOMAIN asked.binds, NEW p, p \notin PlainPaths
    PROVE  Close(Shown(p)', Shown(p))
<1>1. PICK r, kind : r = asked.binds[next].path /\ kind = KindOf(asked.binds[next].type)
  OBVIOUS
<1>2. r \in Paths /\ r \in PlainPaths /\ kind \in {"ro", "rw", "tmpfs", "proc"}
  BY <1>1, BindIs
<1>3. p \notin Below[r]
  BY <1>2, PathsAre
<1>4. table' = MountedOn(table, r, kind) /\ apart' = apart /\ table \in Seq(Mount)
  BY <1>1 DEF Mounts, ControlInv
<1> QED BY <1>2, <1>3, <1>4, MountedLeaves, ShownThen, ShownNow

(* What any step but a later one leaves as it is.                          *)
LEMMA EarlyFrame ==
    ASSUME ControlInv, [JailNext]_jailVars, ~Later
    PROVE  /\ UNCHANGED <<asked, hidden, lapses>>
           /\ \A p : p \notin PlainPaths => Close(Shown(p)', Shown(p))
           /\ \A t \in StepNames : Applies(t) /\ t # "binds" /\ Behind(t)' => Behind(t)
<1>1. CASE Binding
  <2>1. pc = "binds" /\ next \in DOMAIN asked.binds /\ (Abort \/ PassesOver \/ Mounts)
    BY <1>1, BindingDoes
  <2>2. UNCHANGED <<asked, hidden, lapses, apart>> /\ (pc' = pc \/ pc' = "aborted")
    BY <2>1 DEF Abort, PassesOver, Mounts
  <2>3. table' = table \/ Mounts
    BY <2>1 DEF Abort, PassesOver
  <2>4. \A p : p \notin PlainPaths => Close(Shown(p)', Shown(p))
    BY <2>1, <2>2, <2>3, SameTable, MountsLeaves
  <2> QED BY <2>2, <2>4, BehindSame
<1>2. CASE binds_done
  <2>1. pc = "binds" /\ pc' = After(pc) /\ UNCHANGED <<asked, apart, table, hidden, lapses>>
    BY <1>2 DEF binds_done, Pass, Advance
  <2>2. pc \in StepNames \ {"running"}
    BY <2>1, NamesAre
  <2>3. \A t \in StepNames : Applies(t) /\ Behind(t)' => t = pc \/ Behind(t)
    BY <2>1, <2>2, AdvanceIsInOrder
  <2> QED BY <2>1, <2>3, SameTable
<1>3. CASE Abort
  BY <1>3, SameTable, BehindSame DEF Abort
<1>4. CASE UNCHANGED jailVars
  <2>1. UNCHANGED <<asked, apart, pc, table, hidden, lapses>>
    BY <1>4 DEF jailVars
  <2> QED BY <2>1, SameTable, BehindSame
<1> QED BY <1>1, <1>2, <1>3, <1>4, NextIs

(* A later step is behind once it is done.                                 *)
LEMMA LaterBehind ==
    ASSUME ControlInv, Later, NEW t \in StepNames
    PROVE  /\ Applies(t) /\ Behind(t)' => t = pc \/ Behind(t)
           /\ t = pc \/ Behind(t) => Behind(t)'
<1>1. pc \in StepNames \ {"binds", "running"} /\ pc' = After(pc) /\ asked' = asked
  BY LaterFrame
<1>2. pc' \in StepNames /\ Rank(pc) < Rank(pc')
  BY <1>1, AfterIsNext
<1>3. Rank(t) \in Nat /\ Rank(pc) \in Nat /\ Rank(pc') \in Nat
  BY <1>1, <1>2, NamesAre
<1>4. t = pc \/ Behind(t) => Rank(t) < Rank(pc')
  BY <1>2, <1>3 DEF Behind
<1>5. t = pc \/ Behind(t) => Behind(t)'
  BY <1>2, <1>4 DEF Behind, Rank, StepNames, Steps
<1> QED BY <1>1, <1>5, AdvanceIsInOrder

LEMMA BusStep == ControlInv /\ BusInv /\ [JailNext]_jailVars => BusInv'
<1> SUFFICES ASSUME ControlInv, BusInv, [JailNext]_jailVars, "no-dbus" \in asked'.on \ lapses' PROVE
             /\ Behind("no-dbus")' => "bus" \in hidden'
             /\ Visible("bus")' => "wayland" \in asked'.on
             /\ Visible("bus")' /\ Behind("xdg-runtime")' => "xdg-runtime" \notin asked'.on \ lapses'
  BY DEF BusInv
<1>0. "no-dbus" \in StepNames /\ "xdg-runtime" \in StepNames /\ "bus" \notin PlainPaths
  BY NamesAre, PathsAre
<1>1. /\ "no-dbus" \in asked.on => Applies("no-dbus")
      /\ "xdg-runtime" \in asked.on => Applies("xdg-runtime")
  BY DEF Applies
<1>2. CASE ~Later
  <2>1. /\ UNCHANGED <<asked, hidden, lapses>> /\ Close(Shown("bus")', Shown("bus"))
        /\ "no-dbus" \in asked.on /\ Behind("no-dbus")' => Behind("no-dbus")
        /\ "xdg-runtime" \in asked.on /\ Behind("xdg-runtime")' => Behind("xdg-runtime")
    BY <1>0, <1>1, <1>2, EarlyFrame
  <2>2. Visible("bus")' => Visible("bus")
    BY <2>1 DEF Visible, Close
  <2> QED BY <2>1, <2>2 DEF BusInv
<1>3. CASE Later
  <2>1. asked' = asked /\ lapses \subseteq lapses' /\ pc \in StepNames /\ Applies(pc)
    BY <1>3, LaterFrame DEF ControlInv
  <2>2. "no-dbus" \in asked.on \ lapses
    BY <2>1
  <2>3. Behind("no-dbus")' => pc = "no-dbus" \/ Behind("no-dbus")
    BY <1>0, <1>1, <1>3, <2>2, LaterBehind
  <2>4. "xdg-runtime" \in asked.on /\ Behind("xdg-runtime")' => pc = "xdg-runtime" \/ Behind("xdg-runtime")
    BY <1>0, <1>1, <1>3, LaterBehind
  <2>5. /\ Behind("no-dbus") => "bus" \in hidden
        /\ Visible("bus") => "wayland" \in asked.on
        /\ Visible("bus") /\ Behind("xdg-runtime") => "xdg-runtime" \notin asked.on \ lapses
    BY <2>2 DEF BusInv
  <2>6. pc = "no-dbus" => mask_dbus
    BY <1>3 DEF Later, bind_home, bind_wayland, bind_x11, mount_proc, bind_gui,
           bind_xdg_runtime,
                bind_audio, bind_dbus_session, remount_proc, mount_tmp,
                isolate_root, Step
  <2>7. pc # "no-dbus" => hidden' = hidden
    BY <1>3 DEF Later, bind_home, bind_wayland, bind_x11, mask_dbus,
           mount_proc, bind_gui, bind_xdg_runtime,
                bind_audio, bind_dbus_session, remount_proc, mount_tmp,
                isolate_root, Step
  <2>8. pc = "no-dbus" => "bus" \in hidden'
    BY <2>1, <2>6 DEF mask_dbus, Lapse
  <2>9. Behind("no-dbus")' => "bus" \in hidden'
    BY <2>3, <2>5, <2>7, <2>8
  <2>10. CASE "bus" \notin Touched(pc)
    <3>1. Visible("bus")' => Visible("bus")
      BY <1>3, <2>10, LaterTable DEF Visible, Close
    <3>2. pc # "xdg-runtime"
      BY <2>10, PathsAre DEF Touched
    <3> QED BY <2>1, <2>4, <2>5, <2>9, <3>1, <3>2
  <2>11. CASE pc = "wayland"
    <3>1. "wayland" \in asked.on
      BY <2>1, <2>11 DEF Applies, Switches
    <3>2. ~Behind("xdg-runtime")
      BY <2>11, Ranks DEF Behind
    <3> QED BY <2>1, <2>4, <2>9, <2>11, <3>1, <3>2
  <2>12. CASE pc = "xdg-runtime"
    <3>1. Softly(table, "run", "ro")
      BY <1>3, <2>12 DEF Later, bind_home, bind_wayland, bind_x11, mask_dbus,
             mount_proc, bind_gui,
             bind_xdg_runtime, bind_audio, bind_dbus_session, remount_proc,
             mount_tmp, isolate_root, Step
    <3>2. Behind("no-dbus")
      BY <2>1, <2>12, Ranks DEF Behind
    <3>3. "bus" \in hidden /\ "run" \in Paths /\ "bus" \in Below["run"] /\ table \in Seq(Mount) /\ apart' = apart
      BY <1>3, <2>5, <3>2, PathsAre, LaterFrame DEF ControlInv
    <3>4. ASSUME NEW kind \in {"ro", "rw"}, table' = MountedOn(table, "run", kind) PROVE ~Visible("bus")'
      <4>1. PICK m : m = [at |-> "run", kind |-> kind, hid |-> hidden]
        OBVIOUS
      <4>2. ShownIn(MountedOn(table, "run", kind), made', "bus") = Face("bus", m)
        BY <3>3, <4>1, MountedShows
      <4>3. Face("bus", m) = "tmpfs"
        BY <3>3, <4>1 DEF Face
      <4>4. Shown("bus")' = "tmpfs"
        BY <3>3, <3>4, <4>2, <4>3, ShownThen
      <4> QED BY <4>4 DEF Visible
    <3>5. \/ table' = MountedOn(table, "run", "ro")
          \/ /\ table' \in {table, MountedOn(table, "run", "rw")}
             /\ lapses' = lapses \cup {pc}
      BY <3>1, <3>3, SoftlyDoes
    <3>6. CASE table' = table /\ lapses' = lapses \cup {pc}
      <4>1. Visible("bus")' => Visible("bus")
        BY <3>3, <3>6, SameTable DEF Visible, Close
      <4> QED BY <2>1, <2>5, <2>9, <2>12, <3>6, <4>1
    <3> QED BY <2>9, <3>4, <3>5, <3>6
  <2>13. pc # "dbus-session"
    BY <2>1, <2>2 DEF Applies
  <2> QED BY <2>10, <2>11, <2>12, <2>13, PathsAre DEF Touched
<1> QED BY <1>2, <1>3

LEMMA VaultsStep == ControlInv /\ VaultsInv /\ [JailNext]_jailVars => VaultsInv'
<1> SUFFICES ASSUME ControlInv, VaultsInv, [JailNext]_jailVars,
                    asked'.home = "rw", "home" \notin lapses', Behind("home")'
             PROVE  ~Visible("vaults")'
  BY DEF VaultsInv
<1>0. "home" \in StepNames /\ "home" # "binds"
  BY NamesAre
<1>1. ~(~Later /\ (Binding \/ binds_done))
  <2> SUFFICES ASSUME ~Later, Binding \/ binds_done PROVE FALSE
    OBVIOUS
  <2>1. asked' = asked /\ (Applies("home") /\ Behind("home")' => Behind("home"))
    BY <1>0, EarlyFrame
  <2>2. Applies("home")
    BY <2>1 DEF Applies, Switches
  <2>3. pc = "binds"
    BY BindingDoes DEF binds_done
  <2> QED BY <1>0, <2>1, <2>2, <2>3, NothingBehind
<1>2. CASE ~Later
  <2>1. UNCHANGED <<table, apart, asked, lapses>> /\ (pc' = pc \/ pc' = "aborted")
    BY <1>1, <1>2, NextIs DEF Abort, jailVars
  <2>2. Behind("home")
    BY <2>1, BehindSame
  <2>3. Visible("vaults")' => Visible("vaults")
    BY <2>1, SameTable DEF Visible, Close
  <2> QED BY <2>1, <2>2, <2>3 DEF VaultsInv
<1>3. CASE Later
  <2>1. asked' = asked /\ apart' = apart /\ lapses \subseteq lapses' /\ pc \in StepNames /\ Applies(pc)
    BY <1>3, LaterFrame DEF ControlInv
  <2>2. Applies("home")
    BY <2>1 DEF Applies, Switches
  <2>3. pc = "home" \/ Behind("home")
    BY <1>0, <1>3, <2>2, LaterBehind
  <2>4. CASE pc = "home"
    <3>1. bind_home
      BY <1>3, <2>4 DEF Later, bind_wayland, bind_x11, mask_dbus, mount_proc,
             bind_gui, bind_xdg_runtime,
                        bind_audio, bind_dbus_session, remount_proc, mount_tmp,
                        isolate_root, Step
    <3> DEFINE one == MountedOn(Unmounted("vaults"), "home", "rw")
    <3>2. table' = MountedOn(one, "vaults", "tmpfs")
      BY <2>1, <2>4, <3>1 DEF bind_home, Lapse
    <3>3. "home" \in Paths /\ "vaults" \in Paths /\ "vaults" \in Below["vaults"] /\ table \in Seq(Mount)
      BY PathsAre DEF ControlInv
    <3>4. one \in Seq(Mount)
      BY <3>3, UnmountKeeps, NewMount
    <3> HIDE DEF one
    <3>5. PICK m : m = [at |-> "vaults", kind |-> "tmpfs", hid |-> hidden]
      OBVIOUS
    <3>6. ShownIn(MountedOn(one, "vaults", "tmpfs"), made', "vaults") = Face("vaults", m)
      BY <3>3, <3>4, <3>5, MountedShows
    <3>7. Face("vaults", m) = "tmpfs"
      BY <3>5 DEF Face
    <3>8. Shown("vaults")' = "tmpfs"
      BY <2>1, <3>2, <3>6, <3>7, ShownThen
    <3> QED BY <3>8 DEF Visible
  <2>5. CASE Behind("home")
    <3>1. pc # "home"
      BY <2>5, Ranks DEF Behind
    <3>2. "vaults" \notin Touched(pc)
      BY <3>1, PathsAre DEF Touched
    <3>3. Visible("vaults")' => Visible("vaults")
      BY <1>3, <3>2, LaterTable DEF Visible, Close
    <3> QED BY <2>1, <2>5, <3>3 DEF VaultsInv
  <2> QED BY <2>3, <2>4, <2>5
<1> QED BY <1>2, <1>3

(* The mounts at /proc in a list, and what the list operations do to them. *)
ProcIn(tab) == {i \in DOMAIN tab : tab[i].kind # "gone" /\ tab[i].at = "proc"}
SameProc(new, tab) == ProcIn(new) = ProcIn(tab) /\ \A i \in ProcIn(tab) : new[i] = tab[i]

(* Only mounts on /proc and unmounts above it change the /proc mounts.     *)
LEMMA OtherMount ==
    ASSUME ControlInv, NEW q \in Paths, NEW kind \in {"ro", "rw", "tmpfs", "proc"}, NEW tab \in Seq(Mount),
           q # "proc"
    PROVE  SameProc(MountedOn(tab, q, kind), tab)
<1> DEFINE m == [at |-> q, kind |-> kind, hid |-> hidden]
           new == MountedOn(tab, q, kind)
           n == Len(tab) + 1
<1>1. new = Append(tab, m) /\ m \in Mount
  BY NewMount
<1>2. /\ n \in Nat \ {0} /\ DOMAIN new = 1 .. n /\ new[n].at # "proc"
      /\ DOMAIN tab = 1 .. (n - 1) /\ \A i \in 1 .. (n - 1) : new[i] = tab[i]
  BY <1>1, LenProperties, AppendProperties
<1> HIDE DEF new, n
<1>3. ProcIn(new) \subseteq ProcIn(tab) /\ ProcIn(tab) \subseteq ProcIn(new)
  BY <1>2 DEF ProcIn
<1>4. \A i \in ProcIn(tab) : new[i] = tab[i]
  BY <1>2 DEF ProcIn
<1> QED BY <1>3, <1>4 DEF SameProc, new

LEMMA ProcMount ==
    ASSUME ControlInv, NEW tab \in Seq(Mount)
    PROVE  LET new == MountedOn(tab, "proc", "proc")  n == Len(tab) + 1 IN
           /\ n \notin ProcIn(tab) /\ ProcIn(new) = ProcIn(tab) \cup {n} /\ new[n].kind = "proc"
           /\ \A i \in ProcIn(tab) : new[i] = tab[i]
<1> DEFINE m == [at |-> "proc", kind |-> "proc", hid |-> hidden]
           new == MountedOn(tab, "proc", "proc")
           n == Len(tab) + 1
<1>1. new = Append(tab, m) /\ m \in Mount
  BY NewMount, PathsAre
<1>2. /\ n \in Nat \ {0} /\ DOMAIN new = 1 .. n /\ new[n].at = "proc" /\ new[n].kind = "proc"
      /\ DOMAIN tab = 1 .. (n - 1) /\ \A i \in 1 .. (n - 1) : new[i] = tab[i]
  BY <1>1, LenProperties, AppendProperties
<1> HIDE DEF new, n
<1>3. ProcIn(new) \subseteq ProcIn(tab) \cup {n} /\ ProcIn(tab) \cup {n} \subseteq ProcIn(new)
  BY <1>2 DEF ProcIn
<1>4. n \notin ProcIn(tab) /\ \A i \in ProcIn(tab) : new[i] = tab[i]
  BY <1>2 DEF ProcIn
<1> QED BY <1>2, <1>3, <1>4 DEF new, n

LEMMA OtherUnmount ==
    ASSUME table \in Seq(Mount), NEW q \in Paths, "proc" \notin Below[q]
    PROVE  SameProc(Unmounted(q), table)
<1> DEFINE bare == Unmounted(q)
<1>1. /\ DOMAIN bare = DOMAIN table
      /\ LiveAt(q) = {} => bare = table
      /\ LiveAt(q) # {} => \A i \in DOMAIN table :
            bare[i] = IF i >= Max(LiveAt(q)) /\ table[i].at \in Below[q]
                      THEN [table[i] EXCEPT !.kind = "gone"] ELSE table[i]
  BY UnmountKeeps
<1>2. \A i \in DOMAIN table : table[i] \in Mount
  BY LenProperties, ElementOfSeq
<1> HIDE DEF bare
<1>3. \A i \in DOMAIN table : bare[i] = table[i] \/ (bare[i].at = table[i].at /\ table[i].at # "proc")
  BY <1>1, <1>2 DEF Mount
<1>4. ProcIn(bare) \subseteq ProcIn(table) /\ ProcIn(table) \subseteq ProcIn(bare)
  BY <1>1, <1>3 DEF ProcIn
<1>5. \A i \in ProcIn(table) : bare[i] = table[i]
  BY <1>3 DEF ProcIn
<1> QED BY <1>4, <1>5 DEF SameProc, bare

(* Of the mounts at /proc the newest goes and the others stay.             *)
LEMMA ProcUnmount ==
    ASSUME table \in Seq(Mount)
    PROVE  /\ ProcIn(Unmounted("proc")) \subseteq ProcIn(table)
           /\ \A i \in ProcIn(Unmounted("proc")) : Unmounted("proc")[i] = table[i]
           /\ Several(ProcIn(table)) <=> ProcIn(Unmounted("proc")) # {}
<1> DEFINE bare == Unmounted("proc")
           top == Max(LiveAt("proc"))
<1>0. "proc" \in Paths /\ Below["proc"] = {"proc"} /\ LiveAt("proc") = ProcIn(table)
  BY PathsAre DEF LiveAt, ProcIn
<1>1. /\ DOMAIN bare = DOMAIN table
      /\ LiveAt("proc") = {} => bare = table
      /\ LiveAt("proc") # {} => \A i \in DOMAIN table :
            bare[i] = IF i >= top /\ table[i].at \in Below["proc"]
                      THEN [table[i] EXCEPT !.kind = "gone"] ELSE table[i]
  BY <1>0, UnmountKeeps
<1>2. \A i \in DOMAIN table : table[i] \in Mount
  BY LenProperties, ElementOfSeq
<1> HIDE DEF bare, top
<1>3. \A i \in DOMAIN table : bare[i] = table[i] \/ bare[i].kind = "gone"
  BY <1>1, <1>2 DEF Mount
<1>4. ProcIn(bare) \subseteq ProcIn(table) /\ \A i \in ProcIn(bare) : bare[i] = table[i]
  BY <1>1, <1>3 DEF ProcIn
<1>n. Len(table) \in Nat /\ ProcIn(table) \in SUBSET (1 .. Len(table))
  BY LenProperties DEF ProcIn
<1>t. ProcIn(table) # {} => top \in ProcIn(table) /\ \A k \in ProcIn(table) : k <= top
  BY <1>0, <1>n, NewestOf DEF top
<1>5. ASSUME Several(ProcIn(table)) PROVE ProcIn(bare) # {}
  <2>0. PICK i, j \in ProcIn(table) : i # j
    BY <1>5 DEF Several
  <2>1. Len(table) \in Nat /\ ProcIn(table) \in SUBSET (1 .. Len(table))
    BY <1>n
  <2>2. top \in ProcIn(table) /\ \A k \in ProcIn(table) : k <= top
    BY <1>t, <2>0
  <2>3. PICK k \in ProcIn(table) : k < top
    BY <2>0, <2>1, <2>2
  <2>4. k \in DOMAIN table /\ table[k].kind # "gone" /\ table[k].at = "proc" /\ ~(k >= top)
    BY <2>1, <2>2, <2>3 DEF ProcIn
  <2>5. bare[k] = table[k]
    BY <1>0, <1>1, <2>4
  <2>6. k \in ProcIn(bare)
    BY <1>1, <2>4, <2>5 DEF ProcIn
  <2> QED BY <2>6
<1>6. ASSUME NEW k \in ProcIn(bare) PROVE Several(ProcIn(table))
  <2>1. k \in ProcIn(table) /\ bare[k] = table[k]
    BY <1>4
  <2>2. top \in ProcIn(table)
    BY <1>t, <2>1
  <2>3. top \in DOMAIN table /\ table[top].at = "proc" /\ top >= top
    BY <1>n, <2>2 DEF ProcIn
  <2>4. bare[top].kind = "gone"
    BY <1>0, <1>1, <1>2, <2>2, <2>3 DEF Mount
  <2>5. k # top
    BY <2>4 DEF ProcIn
  <2> QED BY <2>1, <2>2, <2>5 DEF Several
<1> QED BY <1>4, <1>5, <1>6 DEF bare

(* A step that leaves the mounts at /proc alone.                           *)
LEMMA ProcKept ==
    ASSUME ProcInv, SameProc(table', table), asked' = asked,
           "no-proc" \notin asked.on /\ pc' \in StepNames =>
              /\ pc \in StepNames /\ ProcSteps \cap lapses' = ProcSteps \cap lapses
              /\ \A s \in ProcSteps : Behind(s)' <=> Behind(s)
    PROVE  ProcInv'
<1>1. ProcMounts = ProcIn(table) /\ ProcMounts' = ProcIn(table')
  BY DEF ProcMounts, ProcIn
<1>2. ProcMounts' = ProcMounts /\ \A i \in ProcMounts : table'[i] = table[i]
  BY <1>1 DEF SameProc
<1>3. \A i \in ProcMounts' : table'[i].kind = "proc"
  BY <1>2 DEF ProcInv
<1>4. "no-proc" \in asked.on => ProcMounts' = {}
  BY <1>2 DEF ProcInv
<1>5. ASSUME "no-proc" \notin asked.on, pc' \in StepNames PROVE ProcCount'
  <2>1. ProcCount
    BY <1>5 DEF ProcInv
  <2>2. Several(ProcMounts)' <=> Several(ProcMounts)
    BY <1>2 DEF Several
  <2>3. \A s \in ProcSteps : (Behind(s)' <=> Behind(s)) /\ (s \in lapses' <=> s \in lapses)
    BY <1>5
  <2>4. /\ Behind("proc")' <=> Behind("proc")
        /\ Behind("root")' <=> Behind("root")
        /\ Behind("procfs")' <=> Behind("procfs")
        /\ "proc" \in lapses' <=> "proc" \in lapses
        /\ "root" \in lapses' <=> "root" \in lapses
        /\ "procfs" \in lapses' <=> "procfs" \in lapses
    BY <2>3 DEF ProcSteps
  <2>5. \A s \in ProcSteps \cap lapses' : Behind(s)'
    BY <2>1, <2>3 DEF ProcCount
  <2> QED BY <1>2, <2>1, <2>2, <2>4, <2>5 DEF ProcCount, ProcSteps
<1>6. StepNames' = StepNames
  BY DEF StepNames, Steps
<1> QED BY <1>3, <1>4, <1>5, <1>6 DEF ProcInv

LEMMA SoftlyElsewhere ==
    ASSUME ControlInv, NEW q \in Paths, NEW kind \in {"ro", "rw", "tmpfs", "proc"}, NEW tab \in Seq(Mount),
           Softly(tab, q, kind), q # "proc", SameProc(tab, table)
    PROVE  SameProc(table', table)
<1>1. table' \in {tab, MountedOn(tab, q, kind), MountedOn(tab, q, "rw")}
  BY SoftlyDoes
<1>2. SameProc(MountedOn(tab, q, kind), tab) /\ SameProc(MountedOn(tab, q, "rw"), tab)
  BY OtherMount
<1> QED BY <1>1, <1>2 DEF SameProc

(* Only the three steps about /proc change its mounts.                     *)
LEMMA ElsewhereProc ==
    ASSUME ControlInv, Later, pc \notin {"proc", "root", "procfs"}
    PROVE  SameProc(table', table)
<1>0. table \in Seq(Mount) /\ SameProc(table, table)
  BY DEF ControlInv, SameProc
<1>1. CASE bind_home
  <2> DEFINE bare == Unmounted("vaults")
             one == MountedOn(bare, "home", "rw")
             two == MountedOn(one, "vaults", "tmpfs")
  <2>1. Softly(bare, "home", "ro") \/ table' \in {bare, one, two, table}
    BY <1>1 DEF bind_home
  <2>2. "home" \in Paths /\ "vaults" \in Paths /\ "proc" \notin Below["vaults"]
    BY PathsAre
  <2>3. bare \in Seq(Mount) /\ SameProc(bare, table)
    BY <1>0, <2>2, UnmountKeeps, OtherUnmount
  <2> HIDE DEF bare
  <2>4. one \in Seq(Mount) /\ SameProc(one, bare)
    BY <2>2, <2>3, NewMount, OtherMount
  <2> HIDE DEF one
  <2>5. SameProc(two, one)
    BY <2>2, <2>4, OtherMount
  <2> HIDE DEF two
  <2>6. CASE Softly(bare, "home", "ro")
    BY <2>2, <2>3, <2>6, SoftlyElsewhere
  <2> QED BY <1>0, <2>1, <2>3, <2>4, <2>5, <2>6 DEF SameProc
<1>2. CASE bind_wayland \/ bind_xdg_runtime
  <2>1. Softly(table, "run", "ro")
    BY <1>2 DEF bind_wayland, bind_xdg_runtime
  <2> QED BY <1>0, <2>1, PathsAre, SoftlyElsewhere
<1>3. CASE bind_x11
  <2>1. Softly(table, "x11", "ro")
    BY <1>3 DEF bind_x11
  <2> QED BY <1>0, <2>1, PathsAre, SoftlyElsewhere
<1>4. CASE bind_audio
  <2>1. Softly(table, "sound", "rw")
    BY <1>4 DEF bind_audio
  <2> QED BY <1>0, <2>1, PathsAre, SoftlyElsewhere
<1>5. CASE bind_dbus_session
  <2>1. Softly(table, "bus", "rw")
    BY <1>5 DEF bind_dbus_session
  <2> QED BY <1>0, <2>1, PathsAre, SoftlyElsewhere
<1>6. CASE mount_tmp
  <2>1. Softly(table, "tmp", "tmpfs")
    BY <1>6 DEF mount_tmp
  <2> QED BY <1>0, <2>1, PathsAre, SoftlyElsewhere
<1>7. CASE mask_dbus
  <2>1. table' = table
    BY <1>7 DEF mask_dbus
  <2> QED BY <1>0, <2>1
<1>8. CASE bind_gui
  <2>1. Softly(Unmounted("usr"), "usr", "ro") /\ "usr" \in Paths /\ "proc" \notin Below["usr"]
    BY <1>8, PathsAre DEF bind_gui
  <2>2. Unmounted("usr") \in Seq(Mount) /\ SameProc(Unmounted("usr"), table)
    BY <1>0, <2>1, UnmountKeeps, OtherUnmount
  <2> QED BY <2>1, <2>2, SoftlyElsewhere
<1> QED BY <1>1, <1>2, <1>3, <1>4, <1>5, <1>6, <1>7, <1>8
    DEF Later, mount_proc, isolate_root, remount_proc, Step

LEMMA ProcStep == ControlInv /\ ProcInv /\ [JailNext]_jailVars => ProcInv'
<1> SUFFICES ASSUME ControlInv, ProcInv, [JailNext]_jailVars PROVE ProcInv'
  OBVIOUS
<1>0. /\ ProcSteps \subseteq StepNames /\ "proc" \in Paths /\ "binds" \notin ProcSteps
      /\ table \in Seq(Mount) /\ SameProc(table, table)
      /\ "no-proc" \notin asked.on => \A s \in ProcSteps : Applies(s)
      /\ StepNames' = StepNames
  BY NamesAre, PathsAre DEF Applies, Switches, ControlInv, SameProc, ProcSteps, StepNames, Steps
<1>1. CASE ~Later
  <2>1. /\ UNCHANGED <<asked, lapses>>
        /\ \A t \in StepNames : Applies(t) /\ t # "binds" /\ Behind(t)' => Behind(t)
    BY <1>1, EarlyFrame
  <2>2. SameProc(table', table)
    <3>1. CASE Binding
      <4>1. next \in DOMAIN asked.binds /\ (table' = table \/ Mounts)
        BY <3>1, BindingDoes DEF Abort, PassesOver
      <4>2. CASE Mounts
        <5>1. PICK r, kind : r = asked.binds[next].path /\ kind = KindOf(asked.binds[next].type)
          OBVIOUS
        <5>2. r \in Paths /\ r # "proc" /\ kind \in {"ro", "rw", "tmpfs", "proc"}
          BY <4>1, <5>1, BindIs, PathsAre
        <5>3. table' = MountedOn(table, r, kind)
          BY <4>2, <5>1 DEF Mounts
        <5> QED BY <1>0, <5>2, <5>3, OtherMount
      <4> QED BY <1>0, <4>1, <4>2
    <3>2. CASE binds_done \/ Abort \/ UNCHANGED jailVars
      <4>1. table' = table
        BY <3>2 DEF binds_done, Pass, Abort, jailVars
      <4> QED BY <1>0, <4>1
    <3> QED BY <1>1, <3>1, <3>2, NextIs
  <2>3. ASSUME "no-proc" \notin asked.on, pc' \in StepNames
        PROVE  pc \in StepNames /\ \A s \in ProcSteps : Behind(s)' <=> Behind(s)
    <3>1. CASE pc = "binds"
      <4>1. \A s \in ProcSteps : ~Behind(s)
        BY <1>0, <3>1, NothingBehind
      <4>2. \A s \in ProcSteps : Behind(s)' => Behind(s)
        BY <1>0, <2>1, <2>3
      <4> QED BY <3>1, <4>1, <4>2, NamesAre
    <3>2. CASE pc # "binds"
      <4>1. pc' # "aborted"
        BY <2>3, NamesAre
      <4>2. UNCHANGED jailVars
        BY <1>1, <3>2, <4>1, NextIs, BindingDoes DEF binds_done, Abort
      <4>3. pc' = pc
        BY <4>2 DEF jailVars
      <4> QED BY <2>3, <4>3 DEF Behind, Rank, StepNames, Steps
    <3> QED BY <3>1, <3>2
  <2> QED BY <2>1, <2>2, <2>3, ProcKept
<1>2. CASE Later
  <2>1. asked' = asked /\ lapses' \in {lapses, lapses \cup {pc}} /\ pc \in StepNames /\ Applies(pc)
    BY <1>2, LaterFrame DEF ControlInv
  <2>2. "no-proc" \notin asked.on => \A s \in ProcSteps : Behind(s)' <=> s = pc \/ Behind(s)
    BY <1>0, <1>2, LaterBehind
  <2>3. ProcMounts = ProcIn(table) /\ ProcMounts' = ProcIn(table')
    BY DEF ProcMounts, ProcIn
  <2>4. CASE pc \notin ProcSteps
    <3>1. SameProc(table', table)
      BY <1>2, <2>4, ElsewhereProc DEF ProcSteps
    <3>2. ProcSteps \cap lapses' = ProcSteps \cap lapses
      BY <2>1, <2>4
    <3>3. "no-proc" \notin asked.on => \A s \in ProcSteps : Behind(s)' <=> Behind(s)
      BY <2>2, <2>4
    <3> QED BY <2>1, <3>1, <3>2, <3>3, ProcKept
  <2>b. "no-proc" \notin asked.on =>
          /\ Behind("proc")' <=> pc = "proc" \/ Behind("proc")
          /\ Behind("root")' <=> pc = "root" \/ Behind("root")
          /\ Behind("procfs")' <=> pc = "procfs" \/ Behind("procfs")
    BY <2>2 DEF ProcSteps
  <2>c. "no-proc" \notin asked.on => ProcCount /\ \A s \in ProcSteps : s \in lapses => Behind(s)
    BY <2>1 DEF ProcInv, ProcCount
  \* What is left to show: the kind of the mounts, and their number.
  <2>i. ASSUME \A i \in ProcMounts' : table'[i].kind = "proc",
               "no-proc" \in asked.on => ProcMounts' = {},
               "no-proc" \notin asked.on => ProcCount'
        PROVE  ProcInv'
    BY <2>1, <2>i DEF ProcInv
  <2>5. CASE pc = "proc"
    <3>1. Softly(table, "proc", "proc")
      BY <1>2, <2>5 DEF Later, bind_home, bind_wayland, bind_x11, mask_dbus,
             mount_proc, bind_gui,
             bind_xdg_runtime, bind_audio, bind_dbus_session, remount_proc,
             mount_tmp, isolate_root, Step
    <3>2. "no-proc" \notin asked.on /\ ~Behind("proc") /\ ~Behind("root") /\ ~Behind("procfs")
      BY <2>1, <2>5, Ranks DEF Applies, Behind
    <3>3. ProcMounts = {} /\ "proc" \notin lapses /\ "root" \notin lapses /\ "procfs" \notin lapses
      BY <2>c, <3>2 DEF ProcCount, ProcSteps
    <3>4. Behind("proc")' /\ ~Behind("root")' /\ ~Behind("procfs")'
      BY <2>b, <2>5, <3>2
    <3>5. \/ table' = MountedOn(table, "proc", "proc") /\ lapses' = lapses
          \/ table' = table /\ lapses' = lapses \cup {"proc"}
      BY <1>0, <2>5, <3>1, SoftlyDoes
    <3>6. CASE table' = MountedOn(table, "proc", "proc") /\ lapses' = lapses
      <4>1. PICK n : ProcIn(table') = ProcIn(table) \cup {n} /\ table'[n].kind = "proc"
        BY <1>0, <3>6, ProcMount
      <4>2. ProcMounts' = {n}
        BY <2>3, <3>3, <4>1
      <4>3. ProcMounts' # {} /\ ~Several(ProcMounts')
        BY <4>2 DEF Several
      <4>4. ProcCount'
        BY <3>3, <3>4, <3>6, <4>3 DEF ProcCount, ProcSteps
      <4> QED BY <2>i, <3>2, <4>1, <4>2, <4>4
    <3>7. CASE table' = table /\ lapses' = lapses \cup {"proc"}
      <4>1. ProcMounts' = {} /\ ~Several(ProcMounts')
        BY <2>3, <3>3, <3>7 DEF Several
      <4>2. ProcCount'
        BY <3>3, <3>4, <3>7, <4>1 DEF ProcCount, ProcSteps
      <4> QED BY <2>i, <4>1, <4>2
    <3> QED BY <3>5, <3>6, <3>7
  <2>6. CASE pc = "root"
    <3>1. isolate_root /\ pc' # "aborted"
      BY <1>2, <2>6 DEF Later, bind_home, bind_wayland, bind_x11, mask_dbus,
             mount_proc, bind_gui,
             bind_xdg_runtime, bind_audio, bind_dbus_session, remount_proc,
             mount_tmp, Step
    <3>2. IF {"no-proc", "chroot"} \cap asked.on = {} THEN Softly(table, "proc", "proc")
          ELSE table' = table /\ lapses' = lapses
      BY <3>1 DEF isolate_root, Abort
    <3>3. Behind("proc") /\ ~Behind("root") /\ ~Behind("procfs")
      BY <2>1, <2>6, Ranks DEF Behind
    <3>4. "no-proc" \notin asked.on =>
            /\ Behind("proc")' /\ Behind("root")' /\ ~Behind("procfs")'
            /\ "root" \notin lapses /\ "procfs" \notin lapses
            /\ ProcMounts # {} <=> "proc" \notin lapses
            /\ ~Several(ProcMounts)
      BY <2>b, <2>c, <2>6, <3>3 DEF ProcCount, ProcSteps
    <3>5. CASE {"no-proc", "chroot"} \cap asked.on = {}
      <4>1. "no-proc" \notin asked.on /\ "chroot" \notin asked.on
        BY <3>5
      <4>2. \/ table' = MountedOn(table, "proc", "proc") /\ lapses' = lapses
            \/ table' = table /\ lapses' = lapses \cup {"root"}
        BY <1>0, <2>6, <3>2, <3>5, SoftlyDoes
      <4>3. CASE table' = MountedOn(table, "proc", "proc") /\ lapses' = lapses
        <5>1. PICK n : /\ n \notin ProcIn(table)
                       /\ ProcIn(table') = ProcIn(table) \cup {n} /\ table'[n].kind = "proc"
                       /\ \A i \in ProcIn(table) : table'[i] = table[i]
          BY <1>0, <4>3, ProcMount
        <5>2. \A i \in ProcMounts' : table'[i].kind = "proc"
          BY <2>3, <5>1 DEF ProcInv
        <5>3. Several(ProcMounts') <=> ProcMounts # {}
          BY <2>3, <3>4, <4>1, <5>1 DEF Several
        <5>4. ProcCount'
          BY <2>1, <3>4, <4>1, <4>3, <5>3 DEF ProcCount, ProcSteps
        <5> QED BY <2>i, <4>1, <5>2, <5>4
      <4>4. CASE table' = table /\ lapses' = lapses \cup {"root"}
        <5>1. ProcMounts' = ProcMounts
          BY <2>3, <4>4
        <5>2. ProcCount'
          BY <2>1, <3>4, <4>1, <4>4, <5>1 DEF ProcCount, ProcSteps
        <5> QED BY <2>i, <4>1, <4>4, <5>1, <5>2 DEF ProcInv
      <4> QED BY <4>2, <4>3, <4>4
    <3>6. CASE {"no-proc", "chroot"} \cap asked.on # {}
      <4>1. table' = table /\ lapses' = lapses /\ ProcMounts' = ProcMounts
        BY <2>3, <3>2, <3>6
      <4>2. "no-proc" \notin asked.on => ProcCount'
        <5> SUFFICES ASSUME "no-proc" \notin asked.on PROVE ProcCount'
          OBVIOUS
        <5>1. "chroot" \in asked'.on
          BY <2>1, <3>6
        <5> QED BY <3>4, <4>1, <5>1 DEF ProcCount, ProcSteps
      <4> QED BY <2>i, <4>1, <4>2 DEF ProcInv
    <3> QED BY <3>5, <3>6
  <2>7. CASE pc = "procfs"
    <3>1. remount_proc
      BY <1>2, <2>7 DEF Later, bind_home, bind_wayland, bind_x11, mask_dbus,
             mount_proc, bind_gui,
             bind_xdg_runtime, bind_audio, bind_dbus_session, mount_tmp,
             isolate_root, Step
    <3> DEFINE bare == Unmounted("proc")
    <3>2. bare \in Seq(Mount)
      BY <1>0, UnmountKeeps
    <3>3. /\ ProcIn(bare) \subseteq ProcIn(table) /\ \A i \in ProcIn(bare) : bare[i] = table[i]
          /\ Several(ProcMounts) <=> ProcIn(bare) # {}
      BY <1>0, <2>3, ProcUnmount
    <3>4. IF "chroot" \in asked.on /\ "no-proc" \notin asked.on THEN Softly(bare, "proc", "proc")
          ELSE table' = bare /\ lapses' = lapses
      BY <3>1 DEF remount_proc
    <3> HIDE DEF bare
    <3>5. Behind("proc") /\ Behind("root") /\ ~Behind("procfs")
      BY <2>1, <2>7, Ranks DEF Behind
    <3>6. \A i \in ProcIn(bare) : bare[i].kind = "proc"
      BY <2>3, <3>3 DEF ProcInv
    <3>7. "no-proc" \notin asked.on =>
            /\ Behind("proc")' /\ Behind("root")' /\ Behind("procfs")' /\ "procfs" \notin lapses
      BY <2>b, <2>c, <2>7, <3>5 DEF ProcSteps
    <3>8. CASE "chroot" \in asked.on /\ "no-proc" \notin asked.on
      <4>1. \/ table' = MountedOn(bare, "proc", "proc") /\ lapses' = lapses
            \/ table' = bare /\ lapses' = lapses \cup {"procfs"}
        BY <1>0, <2>7, <3>2, <3>4, <3>8, SoftlyDoes
      <4>2. ProcIn(bare) = {}
        BY <2>c, <3>3, <3>5, <3>8 DEF ProcCount
      <4>3. CASE table' = MountedOn(bare, "proc", "proc") /\ lapses' = lapses
        <5>1. PICK n : ProcIn(table') = ProcIn(bare) \cup {n} /\ table'[n].kind = "proc"
          BY <3>2, <4>3, ProcMount
        <5>2. ProcMounts' = {n} /\ ProcMounts' # {}
          BY <2>3, <4>2, <5>1
        <5>3. ProcCount'
          BY <2>1, <3>7, <3>8, <4>3, <5>2 DEF ProcCount, ProcSteps
        <5> QED BY <2>i, <3>8, <5>1, <5>2, <5>3
      <4>4. CASE table' = bare /\ lapses' = lapses \cup {"procfs"}
        <5>1. ProcMounts' = {}
          BY <2>3, <4>2, <4>4
        <5>2. ProcCount'
          BY <2>1, <3>7, <3>8, <4>4, <5>1 DEF ProcCount, ProcSteps
        <5> QED BY <2>i, <5>1, <5>2
      <4> QED BY <4>1, <4>3, <4>4
    <3>9. CASE ~("chroot" \in asked.on /\ "no-proc" \notin asked.on)
      <4>1. table' = bare /\ lapses' = lapses /\ ProcMounts' = ProcIn(bare)
        BY <2>3, <3>4, <3>9
      <4>2. \A i \in ProcMounts' : table'[i].kind = "proc"
        BY <3>6, <4>1
      <4>3. "no-proc" \in asked.on => ProcMounts' = {}
        BY <2>3, <3>3, <4>1 DEF ProcInv
      <4>4. ASSUME "no-proc" \notin asked.on PROVE ProcCount'
        <5>1. "chroot" \notin asked.on
          BY <3>9, <4>4
        <5>2. ProcMounts' # {} <=> {"proc", "root"} \cap lapses = {}
          BY <2>c, <3>3, <3>5, <4>1, <4>4, <5>1 DEF ProcCount
        <5> QED BY <2>1, <3>7, <4>1, <4>4, <5>1, <5>2 DEF ProcCount, ProcSteps
      <4> QED BY <2>i, <4>2, <4>3, <4>4
    <3> QED BY <3>8, <3>9
  <2> QED BY <2>4, <2>5, <2>6, <2>7 DEF ProcSteps
<1> QED BY <1>1, <1>2
-----------------------------------------------------------------------------
LEMMA JailInitHolds ==
    ASSUME BindPaths \subseteq PlainPaths, MaxBinds \in Nat, JailInit
    PROVE  JailInv
<1>1. PICK n \in 0 .. MaxBinds : asked.binds \in [1 .. n -> [type : Types, path : BindPaths]]
  BY DEF JailInit, Configs
<1>2. asked.binds \in [1 .. n -> [type : Types, path : PlainPaths]] /\ n \in Nat
  BY <1>1
<1>3. asked.binds \in Seq([type : Types, path : PlainPaths])
  <2> DEFINE Bind == [type : Types, path : PlainPaths]
  <2>1. asked.binds \in [1 .. n -> Bind]
    BY <1>2
  <2> HIDE DEF Bind
  <2>2. asked.binds \in Seq(Bind)
    BY <1>2, <2>1, SeqDef
  <2> QED BY <2>2 DEF Bind
<1>4. asked.home \in {"off", "ro", "rw"}
  BY DEF JailInit, Configs
<1>5. /\ pc = "binds" /\ next = 1 /\ table = <<>> /\ hidden = {} /\ skipped = {} /\ lapses = {}
      /\ made = {"proc", "tmp"} \cup (IF Graphical THEN {"usr"} ELSE {})
  BY DEF JailInit
<1>6. table \in Seq(Mount) /\ DOMAIN table = {}
  BY <1>5, EmptySeq
<1>7. Applies("binds")
  BY DEF Applies, Switches
<1>8. ControlInv
  BY <1>3, <1>4, <1>5, <1>6, <1>7, NamesAre DEF ControlInv
<1>9. BindInv
  BY <1>5, <1>8, BindIs DEF BindInv
<1>10. \A t \in StepNames : ~Behind(t)
  BY <1>5, NothingBehind
<1>11. MountsOver("bus") = {} /\ ProcMounts = {}
  BY <1>6 DEF MountsOver, ProcMounts
<1>12. ~Visible("bus")
  BY <1>11 DEF Visible, Shown
<1>13. BusInv /\ VaultsInv
  BY <1>10, <1>12, NamesAre DEF BusInv, VaultsInv
<1>14. ProcInv
  BY <1>5, <1>10, <1>11, NamesAre DEF ProcInv, ProcCount
<1> QED BY <1>8, <1>9, <1>13, <1>14 DEF JailInv

LEMMA JailStep == JailInv /\ [JailNext]_jailVars => JailInv'
BY ControlStep, BindStep, BusStep, VaultsStep, ProcStep DEF JailInv

(* What the user was promised follows from the invariant.                  *)
LEMMA LastWordFollows == JailInv => LastWordHolds
<1> SUFFICES ASSUME JailInv, pc = "running", NEW i \in DOMAIN asked.binds \ skipped, ~Covered(i)
             PROVE  /\ asked.binds[i].type = "ro" => \A q \in Below[asked.binds[i].path] :
                         CanWrite(q) => \/ q # asked.binds[i].path /\ q \in apart
                                        \/ \E j \in DOMAIN asked.binds : j > i /\ asked.binds[j].path = q
                    /\ asked.binds[i].type = "blacklist" => \A q \in Below[asked.binds[i].path] :
                         CanRead(q) => \E j \in DOMAIN asked.binds : j > i /\ asked.binds[j].path = q
  BY DEF LastWordHolds
<1>1. ControlInv /\ BindInv
  BY DEF JailInv
<1>2. next > Len(asked.binds) /\ next \in Nat /\ Len(asked.binds) \in Nat
  BY <1>1, LenProperties DEF ControlInv
<1>3. \A j \in DOMAIN asked.binds : j < next
  BY <1>1, <1>2, BindIs
<1>4. ~CoveredYet(i)
  BY <1>3 DEF CoveredYet, Covered
<1>5. Honoured(i)
  BY <1>1, <1>3, <1>4 DEF BindInv
<1> QED BY <1>5 DEF Honoured, CanWrite, CanRead

LEMMA OptionsFollow == JailInv => OptionsHonoured
<1> SUFFICES ASSUME JailInv, pc = "running" PROVE OptionsHonoured
  BY DEF OptionsHonoured, BusHidden, VaultsHidden, ProcAsAsked
<1>1. ControlInv /\ BusInv /\ VaultsInv /\ ProcInv
  BY DEF JailInv
<1>2. Behind("home") /\ Behind("no-dbus") /\ Behind("xdg-runtime") /\ Behind("procfs")
  BY Ranks, NamesAre DEF Behind
<1>3. BusHidden
  <2> SUFFICES ASSUME "no-dbus" \in asked.on, "no-dbus" \notin lapses, Visible("bus")
               PROVE  "wayland" \in asked.on /\ "xdg-runtime" \notin asked.on \ lapses
    BY DEF BusHidden, CanRead
  <2>1. "no-dbus" \in asked.on \ lapses
    OBVIOUS
  <2> QED BY <1>1, <1>2, <2>1 DEF BusInv
<1>4. VaultsHidden
  BY <1>1, <1>2 DEF VaultsInv, VaultsHidden, CanRead
<1>5. Shown("proc") = "proc" <=> ProcMounts # {}
  <2>1. Len(table) \in Nat /\ DOMAIN table = 1 .. Len(table) /\ \A i \in DOMAIN table : table[i].at \in Paths
    <3>1. table \in Seq(Mount)
      BY <1>1 DEF ControlInv
    <3>2. Len(table) \in Nat /\ DOMAIN table = 1 .. Len(table) /\ \A i \in DOMAIN table : table[i] \in Mount
      BY <3>1, LenProperties, ElementOfSeq
    <3> QED BY <3>2 DEF Mount
  <2>2. \A i \in DOMAIN table : "proc" \in Below[table[i].at] <=> table[i].at = "proc"
    BY <2>1, PathsAre
  <2>3. MountsOver("proc") \subseteq ProcMounts /\ ProcMounts \subseteq MountsOver("proc")
    BY <2>2 DEF MountsOver, ProcMounts
  <2>4. MountsOver("proc") = ProcMounts
    BY <2>3
  <2>5. CASE ProcMounts = {}
    BY <2>4, <2>5 DEF Shown
  <2>6. CASE ProcMounts # {}
    <3>1. ProcMounts \in SUBSET (1 .. Len(table))
      BY <2>1 DEF ProcMounts
    <3>2. Max(ProcMounts) \in ProcMounts
      BY <2>1, <2>6, <3>1, NewestOf
    <3>3. table[Max(ProcMounts)].kind = "proc" /\ table[Max(ProcMounts)].at = "proc"
      BY <1>1, <3>2 DEF ProcInv, ProcMounts
    <3>4. Shown("proc") = "proc"
      BY <2>4, <2>6, <3>3 DEF Shown, Face
    <3> QED BY <2>6, <3>4
  <2> QED BY <2>5, <2>6
<1>6. ProcAsAsked
  <2>1. "no-proc" \in asked.on => ProcMounts = {}
    BY <1>1 DEF ProcInv
  <2>2. "no-proc" \notin asked.on =>
          (ProcMounts # {} <=> IF "chroot" \in asked.on THEN "procfs" \notin lapses
                               ELSE {"proc", "root"} \cap lapses = {})
    BY <1>1, <1>2, NamesAre DEF ProcInv, ProcCount
  <2> QED BY <1>5, <2>1, <2>2 DEF ProcAsAsked
<1> QED BY <1>3, <1>4, <1>6 DEF OptionsHonoured

(* The inductive invariant of the jail, for any number of binds of paths   *)
(* that no option but the home and a graphical session mounts over.        *)
THEOREM JailInvariantHolds ==
    ASSUME BindPaths \subseteq PlainPaths, MaxBinds \in Nat
    PROVE  JailSpec => []JailInv
<1>1. JailInit => JailInv
  BY JailInitHolds
<1> QED BY <1>1, JailStep, PTL DEF JailSpec

(* Whatever binds and blacklists of such paths are given in whatever       *)
(* order, and whatever fails on the way, the last word on a path holds     *)
(* when the program runs: below a --ro only file systems of their own and  *)
(* paths a later bind names can be written, below a --blacklist only the   *)
(* latter can be read.                                                     *)
THEOREM LastWordIsKept ==
    ASSUME BindPaths \subseteq PlainPaths, MaxBinds \in Nat
    PROVE  JailSpec => []LastWordHolds
BY JailInvariantHolds, LastWordFollows, PTL

(* For a command line that binds no path of the run-time directory, of     *)
(* /tmp or of /proc, whichever mounts fail: the bus is hidden by --no-dbus *)
(* except where --wayland has bound its directory before, --rw-home hides  *)
(* the vaults, and /proc is there exactly when it was not declined and the *)
(* mounts it takes succeeded.                                              *)
THEOREM OptionsAreKept ==
    ASSUME BindPaths \subseteq PlainPaths, MaxBinds \in Nat
    PROVE  JailSpec => []OptionsHonoured
BY JailInvariantHolds, OptionsFollow, PTL
=============================================================================
