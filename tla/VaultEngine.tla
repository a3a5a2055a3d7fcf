---------------------------- MODULE VaultEngine ----------------------------
(***************************************************************************)
(* The isolation engine of one vault (vault_engine.c): the tree of decoy   *)
(* directories that engine_apply builds under .engine_decoy, the checks of *)
(* engine_validate, the clean-up after a partial build, and the life of    *)
(* v->engine_level, which catalog_save does not write.                     *)
(*                                                                         *)
(* A node of the tree is the sequence of child indices that leads to it.   *)
(* Of the 26 decoys of a node only one thing matters to the code: whether  *)
(* each letter has a file with an extension of the text pool, and of the   *)
(* binary pool.  Contents, templates, seeds and extensions are left out.   *)
(***************************************************************************)
EXTENDS Integers, Sequences, FiniteSets

CONSTANTS
    ENGINE_TREE_DEPTH,       \* level -> depth of the tree
    ENGINE_TREE_BRANCH,      \* level -> children per node
    BinaryFrom,              \* first level whose decoys are fake binaries
    ENGINE_MAX_DECOY_NODES,  \* larger trees are refused
    MaxDamage                \* bound: times somebody removes decoys

Level == DOMAIN ENGINE_TREE_DEPTH

ASSUME EngineAssumption ==
    /\ ENGINE_TREE_DEPTH \in Seq(Nat \ {0})
    /\ ENGINE_TREE_BRANCH \in [Level -> Nat \ {0}]
    /\ BinaryFrom \in Nat /\ ENGINE_MAX_DECOY_NODES \in Nat /\ MaxDamage \in Nat

VARIABLES
    status,    \* v->status: "OK", "ALERT", "LOCKED"
    level,     \* v->engine_level of the running process; 0 is no engine
    reachable, \* v->path can be entered: not closed by the escalation
    decoy,     \* .engine_decoy exists
    real,      \* .engine_real exists
    dirs,      \* nodes whose directory exists
    full,      \* <<node, pool>>: every letter has a decoy of that pool
    ret,       \* what the last call returned: [op, err]
    intact,    \* history: the level of a tree nobody touched since its build
    damage     \* number of removals so far

engineVars == <<status, level, reachable, decoy, real, dirs, full, ret, intact, damage>>

Pool(l) == IF l >= BinaryFrom THEN "binary" ELSE "text"

Tree(branch, depth) == UNION {[1..d -> 1..branch] : d \in 1..depth}
Nodes(l) == Tree(ENGINE_TREE_BRANCH[l], ENGINE_TREE_DEPTH[l])
\* n is m or lies below it.
Under(n, m) == Len(m) <= Len(n) /\ SubSeq(n, 1, Len(m)) = m

\* total and level_nodes after i rounds of the loop over the layers.
Rounds(branch, depth) ==
    LET round[i \in 0 .. depth] ==
            IF i = 0 THEN [total |-> 0, level_nodes |-> branch]
            ELSE [total |-> round[i - 1].total + round[i - 1].level_nodes,
                  level_nodes |-> round[i - 1].level_nodes * branch]
    IN  round
engine_estimate_nodes(branch, depth) == Rounds(branch, depth)[depth].total

TooLarge(l) ==
    engine_estimate_nodes(ENGINE_TREE_BRANCH[l], ENGINE_TREE_DEPTH[l]) > ENGINE_MAX_DECOY_NODES

Complete(l) ==
    /\ decoy /\ real
    /\ \A n \in Nodes(l) : n \in dirs /\ <<n, Pool(l)>> \in full

EngineInit ==
    /\ status = "OK" /\ level = 0 /\ reachable = TRUE
    /\ decoy = FALSE /\ real = FALSE /\ dirs = {} /\ full = {}
    /\ ret = [op |-> "none", err |-> "OK"]
    /\ intact = 0 /\ damage = 0

-----------------------------------------------------------------------------
(* engine_apply                                                            *)

Answer(op, err) == ret' = [op |-> op, err |-> err]

\* Refusals that come after v->engine_level was set: a LOCKED vault, a
\* directory that mkdir cannot enter, a tree beyond the cap.
apply_refused(l) ==
    \/ /\ status = "LOCKED"
       /\ Answer("apply", "VAULT_LOCKED")
       /\ UNCHANGED <<decoy, real>>
    \/ /\ status # "LOCKED"
       /\ Answer("apply", "IO")
       /\ \/ UNCHANGED <<decoy, real>>
          \/ reachable /\ decoy' = TRUE /\ real' = real /\ ~real
    \/ /\ status # "LOCKED" /\ reachable /\ TooLarge(l)
       /\ decoy' = TRUE /\ real' = TRUE
       /\ Answer("apply", "INVALID_ARGS")

\* engine_build_subtree with the failing nodes F: those of P get their
\* directory and fail to populate, of which E end up with all the letters
\* although a write failed; nothing below a failing node is tried.
Tried(l, F) == {n \in Nodes(l) : \A m \in F : m # n => ~Under(n, m)}
Built(l, F) == Tried(l, F) \ F

build_subtree(l, F, P, E) ==
    /\ dirs' = dirs \cup Built(l, F) \cup P
    /\ full' = full \cup ((Built(l, F) \cup E) \X {Pool(l)})

apply_done(l) ==
    /\ build_subtree(l, {}, {}, {})
    /\ decoy' = TRUE /\ real' = TRUE
    /\ intact' = l
    /\ Answer("apply", "OK")

\* engine_cleanup_decoy: rm -rf of the whole root, unless fork or rm failed.
engine_cleanup_decoy(l, F, P, E) ==
    \/ /\ decoy' = FALSE /\ dirs' = {} /\ full' = {}
    \/ /\ decoy' = TRUE /\ build_subtree(l, F, P, E)

\* Faulty variant: a node that could not be populated does not count as failed.
apply_partial_lax(l) ==
    \E F \in SUBSET Nodes(l) : \E P \in SUBSET F : \E E \in SUBSET P :
        /\ F # {} /\ F \subseteq Tried(l, F)
        /\ real' = TRUE
        /\ IF P = F
           THEN /\ decoy' = TRUE /\ build_subtree(l, F, P, E)
                /\ intact' = l /\ Answer("apply", "OK")
           ELSE /\ engine_cleanup_decoy(l, F, P, E)
                /\ intact' = 0 /\ Answer("apply", "IO")

apply_partial(l) ==
    \E F \in SUBSET Nodes(l) : \E P \in SUBSET F : \E E \in SUBSET P :
        /\ F # {} /\ F \subseteq Tried(l, F)
        /\ engine_cleanup_decoy(l, F, P, E)
        /\ real' = TRUE
        /\ intact' = 0
        /\ Answer("apply", "IO")

\* vault_apply_engine_ffi: the level is set before engine_apply and stays when
\* it fails.
vault_apply_engine_ffi(l) ==
    /\ level' = l
    /\ \/ apply_refused(l) /\ intact' = 0 /\ UNCHANGED <<dirs, full>>
       \/ /\ status # "LOCKED" /\ reachable /\ ~TooLarge(l)
          /\ apply_done(l) \/ apply_partial(l)
    /\ UNCHANGED <<status, reachable, damage>>

-----------------------------------------------------------------------------
(* engine_validate                                                         *)

\* Faulty variant: the walk stops before the deepest layer.
Visited_shallow(l) == {n \in Nodes(l) : Len(n) < ENGINE_TREE_DEPTH[l]}

\* engine_validate_subtree: the nodes it comes by, and what it finds missing.
Visited(l) == {n \in Nodes(l) : \A m \in Nodes(l) : (m # n /\ Under(n, m)) => m \in dirs}
missing_layers(l) == Visited(l) \ dirs
missing_files(l) == {n \in Visited(l) \cap dirs : <<n, Pool(l)>> \notin full}

Validation ==
    IF level = 0 THEN "OK"
    ELSE IF ~reachable \/ ~decoy \/ ~real THEN "INTEGRITY"
    ELSE IF missing_layers(level) \cup missing_files(level) # {} THEN "INTEGRITY"
    ELSE "OK"

\* Only missing nodes and files raise the alert, not a missing root.
Alarming == /\ level # 0 /\ reachable /\ decoy /\ real
            /\ missing_layers(level) \cup missing_files(level) # {}

engine_validate ==
    /\ Answer("validate", Validation)
    /\ status' = IF Alarming THEN "ALERT" ELSE status
    /\ UNCHANGED <<level, reachable, decoy, real, dirs, full, intact, damage>>

-----------------------------------------------------------------------------
(* The world.                                                              *)

Called == ret' = [op |-> "none", err |-> "OK"]

\* Somebody removes a node with all below it, some decoys of a node, or a root.
Damage ==
    /\ damage < MaxDamage
    /\ damage' = damage + 1
    /\ intact' = 0
    /\ Called
    /\ \/ \E m \in dirs :
            /\ dirs' = {n \in dirs : ~Under(n, m)}
            /\ full' = {x \in full : ~Under(x[1], m)}
            /\ UNCHANGED <<decoy, real>>
       \/ \E x \in full : full' = full \ {x} /\ UNCHANGED <<dirs, decoy, real>>
       \/ decoy /\ decoy' = FALSE /\ dirs' = {} /\ full' = {} /\ real' = real
       \/ real /\ real' = FALSE /\ UNCHANGED <<decoy, dirs, full>>
    /\ UNCHANGED <<status, level, reachable>>

\* A wrong password locks the vault, a resolution sets it to OK and opens the
\* directory, the escalation of an alert closes it (VaultIntegrity).
Others ==
    /\ \/ status' = "LOCKED" /\ status # "LOCKED" /\ UNCHANGED reachable
       \/ status = "ALERT" /\ status' = "OK" /\ reachable' = TRUE
       \/ status = "ALERT" /\ reachable' = FALSE /\ UNCHANGED status
    /\ Called
    /\ UNCHANGED <<level, decoy, real, dirs, full, intact, damage>>

\* The process ends and another loads the catalog: memset leaves level 0.
Restart ==
    /\ level' = 0
    /\ Called
    /\ UNCHANGED <<status, reachable, decoy, real, dirs, full, intact, damage>>

EngineNext ==
    \/ \E l \in Level : vault_apply_engine_ffi(l)
    \/ engine_validate
    \/ Damage
    \/ Others
    \/ Restart

EngineSpec == EngineInit /\ [][EngineNext]_engineVars

-----------------------------------------------------------------------------
(* Properties.                                                             *)

\* The tree of intact has every node and every decoy of its level.
BuiltIsComplete == intact # 0 => Complete(intact)

\* It is within the cap: the sum of engine_estimate_nodes is its number of nodes.
BuiltIsCapped == intact # 0 => Cardinality(Nodes(intact)) <= ENGINE_MAX_DECOY_NODES

\* An apply that returned ERR_OK left a complete tree within the cap, whatever
\* earlier builds of other levels, failed builds and failed clean-ups left on
\* disk, and it lasts until somebody touches it.
AppliedIsComplete == BuiltIsComplete /\ BuiltIsCapped

\* With an engine set, engine_validate answers ERR_OK only for a complete tree:
\* a node missing in one branch hides nothing in the others (FIX-7).
ValidatedIsComplete ==
    (ret = [op |-> "validate", err |-> "OK"] /\ level # 0) => Complete(level)

=============================================================================
