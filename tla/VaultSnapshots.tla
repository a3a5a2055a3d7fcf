---------------------------- MODULE VaultSnapshots ----------------------------
(***************************************************************************)
(* Snapshots of one vault: vault_snapshot_create, _delete, _restore and    *)
(* vault_repair of vault_ops.rs, file by file, with calls that fail or are *)
(* killed at any file.                                                     *)
(*                                                                         *)
(* A directory tree is a sequence of levels.  The first is its own files,  *)
(* the next the files of its subdirectory .vault_restore_stage, and so on: *)
(* a restore stages into the vault itself, so a stage left by a restore    *)
(* that was killed is copied into the next snapshot like any other         *)
(* directory.  .vault_snapshots is skipped by every copy and is kept in a  *)
(* variable of its own.                                                    *)
(***************************************************************************)
EXTENDS Integers, Sequences, FiniteSets

CONSTANTS
    Files,          \* names of the vault's files but .vault_history.log
    Contents,       \* what a user may put into a file
    Size,           \* Size[c]: length of content c
    Tags,           \* names of snapshots
    Absent,         \* no such file
    Torn,           \* a file whose copy was cut short
    NoSnap,         \* no such snapshot
    MaxDepth,       \* bound of the model: levels a snapshot may have
    MaxEdits,       \* bound of the model: changes of files by the user
    MaxLapses       \* bound of the model: calls that fail or are killed

ASSUME SnapshotAssumption ==
    /\ Size \in [Contents -> Nat \ {0}]
    /\ Absent \notin Contents /\ Torn \notin Contents /\ Absent # Torn
    /\ MaxDepth \in Nat \ {0} /\ MaxEdits \in Nat /\ MaxLapses \in Nat

VARIABLES
    dir,            \* the vault's directory, without .vault_snapshots
    snaps,          \* snaps[t]: the tree of .vault_snapshots/t/data; <<>> if it
                    \* is missing from an existing .vault_snapshots/t
    job,            \* the call in progress: its name, tag and entries to do
    acked,          \* history: the vault when create t returned Ok
    before,         \* history: the vault's files when the restore that is
                    \* staging, or ended there, began
    result,         \* history: how the last call ended
    edits, lapses   \* counters of the model

vars == <<dir, snaps, job, acked, before, result, edits, lapses>>

Empty == [f \in Files |-> Absent]
Calls == {"create", "stage", "clear", "move", "repair"}
Idle == [op |-> "idle", tag |-> NoSnap, todo |-> {}, kept |-> FALSE]
NoResult == [op |-> "idle", tag |-> NoSnap, ok |-> FALSE, kept |-> FALSE]

(* What read_dir returns of a tree: the level and the name of each file.   *)
Entries(tree) ==
    {e \in (1 .. Len(tree)) \X Files : tree[e[1]][e[2]] # Absent}
Bare(tree) == [k \in 1 .. Len(tree) |-> Empty]
SizeOf(v) == IF v \in Contents THEN Size[v] ELSE 0

(* A tree some files of which remove_dir_all did not get to.               *)
Remains(tree) ==
    {[k \in 1 .. Len(tree) |-> [f \in Files |->
        IF <<k, f>> \in left THEN tree[k][f] ELSE Absent]] :
            left \in SUBSET Entries(tree)}

Start(op, t, todo, kept) == job' = [op |-> op, tag |-> t, todo |-> todo, kept |-> kept]
Begin == job.op = "idle" /\ result' = NoResult
Forget == before' = Empty

(* The call returns Ok.                                                    *)
Finish(op) ==
    /\ job' = Idle
    /\ result' = [op |-> op, tag |-> job.tag, ok |-> TRUE, kept |-> job.kept]

(* The call returns an error, or its process is killed.                    *)
Stop ==
    /\ lapses < MaxLapses
    /\ lapses' = lapses + 1
    /\ job' = Idle
    /\ result' = [op |-> job.op, tag |-> job.tag, ok |-> FALSE, kept |-> job.kept]

-----------------------------------------------------------------------------
Init ==
    /\ dir = <<Empty>>
    /\ snaps = [t \in Tags |-> NoSnap]
    /\ job = Idle
    /\ acked = [t \in Tags |-> NoSnap]
    /\ before = Empty
    /\ result = NoResult
    /\ edits = 0 /\ lapses = 0

(* vault_add with replace, or vault_rm_file.                               *)
Edit(f, v) ==
    /\ Begin
    /\ edits < MaxEdits /\ edits' = edits + 1
    /\ dir[1][f] # v
    /\ dir' = [dir EXCEPT ![1][f] = v]
    /\ Forget
    /\ UNCHANGED <<snaps, job, acked, lapses>>

(* An existing .vault_snapshots/t is refused, whatever it holds.           *)
vault_snapshot_create(t) ==
    /\ Begin
    /\ snaps[t] = NoSnap
    /\ Len(dir) <= MaxDepth
    /\ snaps' = [snaps EXCEPT ![t] = Bare(dir)]
    /\ Start("create", t, Entries(dir), FALSE)
    /\ Forget
    /\ UNCHANGED <<dir, acked, edits, lapses>>

(* meta.txt is written and the tag returned.                               *)
create_done ==
    /\ job.op = "create" /\ job.todo = {}
    /\ acked' = [acked EXCEPT ![job.tag] = dir]
    /\ Finish("create")
    /\ UNCHANGED <<dir, snaps, before, edits, lapses>>

(* remove_dir_all: all of it is gone, or it stopped somewhere and some     *)
(* files, or the directory without its data, are still there.              *)
vault_snapshot_delete(t) ==
    /\ Begin
    /\ snaps[t] # NoSnap
    /\ \/ snaps' = [snaps EXCEPT ![t] = NoSnap] /\ UNCHANGED lapses
       \/ /\ lapses < MaxLapses /\ lapses' = lapses + 1
          /\ \E left \in Remains(snaps[t]) \cup {<<>>} : snaps' = [snaps EXCEPT ![t] = left]
    /\ acked' = [acked EXCEPT ![t] = NoSnap]
    /\ Forget
    /\ UNCHANGED <<dir, job, edits>>

HasData(t) == snaps[t] # NoSnap /\ snaps[t] # <<>>

(* Faulty variant: a stage that is already there is kept.                  *)
vault_snapshot_restore_stale(t) ==
    /\ Begin
    /\ HasData(t)
    /\ before' = dir[1]
    /\ dir' = <<dir[1]>> \o
        [k \in 1 .. (IF Len(dir) - 1 > Len(snaps[t]) THEN Len(dir) - 1 ELSE Len(snaps[t])) |->
            IF k < Len(dir) THEN dir[k + 1] ELSE Empty]
    /\ Start("stage", t, Entries(snaps[t]), FALSE)
    /\ UNCHANGED <<snaps, acked, edits, lapses>>
(* A stale stage is removed and the snapshot is staged.                    *)
vault_snapshot_restore(t) ==
    /\ Begin
    /\ HasData(t)
    /\ before' = dir[1]
    /\ dir' = <<dir[1]>> \o Bare(snaps[t])
    /\ Start("stage", t, Entries(snaps[t]), FALSE)
    /\ UNCHANGED <<snaps, acked, edits, lapses>>

(* The stale stage cannot be removed: the restore ends before it began.    *)
restore_refused(t) ==
    /\ job.op = "idle"
    /\ HasData(t)
    /\ Len(dir) > 1
    /\ lapses < MaxLapses /\ lapses' = lapses + 1
    /\ \E left \in Remains(Tail(dir)) : dir' = <<dir[1]>> \o left
    /\ before' = dir[1]
    /\ result' = [op |-> "stage", tag |-> t, ok |-> FALSE, kept |-> FALSE]
    /\ UNCHANGED <<snaps, job, acked, edits>>

(* Faulty variant: the vault's entries are left to be overwritten.         *)
stage_done_unswept ==
    /\ job.op = "stage" /\ job.todo = {}
    /\ Start("clear", job.tag, {}, FALSE)
    /\ Forget
    /\ UNCHANGED <<dir, snaps, acked, result, edits, lapses>>

stage_done ==
    /\ job.op = "stage" /\ job.todo = {}
    /\ Start("clear", job.tag, Entries(<<dir[1]>>), FALSE)
    /\ Forget
    /\ UNCHANGED <<dir, snaps, acked, result, edits, lapses>>

(* One of the vault's entries is removed; that it is not goes unnoticed.   *)
clear_entry(e) ==
    /\ job.op = "clear" /\ e \in job.todo
    /\ \/ /\ dir' = [dir EXCEPT ![1][e[2]] = Absent]
          /\ Start("clear", job.tag, job.todo \ {e}, job.kept)
          /\ UNCHANGED lapses
       \/ /\ lapses < MaxLapses /\ lapses' = lapses + 1
          /\ Start("clear", job.tag, job.todo \ {e}, TRUE)
          /\ UNCHANGED dir
    /\ UNCHANGED <<snaps, acked, before, result, edits>>

clear_done ==
    /\ job.op = "clear" /\ job.todo = {}
    /\ Start("move", job.tag, Entries(Tail(dir)), job.kept)
    /\ UNCHANGED <<dir, snaps, acked, before, result, edits, lapses>>

(* The stage is removed; that some of it is not goes unnoticed.            *)
move_done ==
    /\ job.op = "move" /\ job.todo = {}
    /\ \/ dir' = <<dir[1]>> /\ UNCHANGED lapses
       \/ /\ lapses < MaxLapses /\ lapses' = lapses + 1
          /\ \E left \in Remains(Tail(dir)) : dir' = <<dir[1]>> \o left
    /\ Finish("restore")
    /\ UNCHANGED <<snaps, acked, before, edits>>

(* The directories of the snapshot are made where they are missing.  Which *)
(* snapshot is the last one read_dir returns is not for the caller to say. *)
vault_repair(t) ==
    /\ Begin
    /\ HasData(t)
    /\ dir' = dir \o [k \in 1 .. (Len(snaps[t]) - Len(dir)) |-> Empty]
    /\ Start("repair", t, Entries(snaps[t]), FALSE)
    /\ Forget
    /\ UNCHANGED <<snaps, acked, edits, lapses>>

(* The line that log_vault_event then appends to .vault_history.log, itself *)
(* a file that was copied back if its length had changed, is left out.     *)
repair_done ==
    /\ job.op = "repair" /\ job.todo = {}
    /\ Finish("repair")
    /\ UNCHANGED <<dir, snaps, acked, before, edits, lapses>>

-----------------------------------------------------------------------------
(* copy_dir_all and walk_repair, one file at a time.  Where entry e is     *)
(* read, and with which content v it arrives.                              *)
Source(e) ==
    CASE job.op = "create" -> dir[e[1]][e[2]]
      [] job.op = "move" -> dir[e[1] + 1][e[2]]
      [] OTHER -> snaps[job.tag][e[1]][e[2]]
Target(e) == dir[e[1]][e[2]]

Written(e, v) ==
    CASE job.op = "create" ->
            snaps' = [snaps EXCEPT ![job.tag][e[1]][e[2]] = v] /\ UNCHANGED dir
      [] job.op = "stage" ->
            dir' = [dir EXCEPT ![e[1] + 1][e[2]] = v] /\ UNCHANGED snaps
      [] OTHER ->
            dir' = [dir EXCEPT ![e[1]][e[2]] = v] /\ UNCHANGED snaps

(* Faulty variant: only missing files are repaired.                        *)
Needed_missing(e) == job.op = "repair" => Target(e) = Absent

(* walk_repair copies what is missing, empty or of another length.         *)
Needed(e) ==
    job.op = "repair" => SizeOf(Target(e)) \notin {SizeOf(Source(e))} \ {0}

(* Moving level k + 1 to level k may create a file in the very directory   *)
(* that read_dir is going through one level up; POSIX leaves open whether  *)
(* it is returned.                                                         *)
Listed(e) ==
    {job.todo \ {e}} \cup
    (IF job.op = "move" /\ e[1] > 1 /\ Target(e) = Absent
     THEN {(job.todo \ {e}) \cup {<<e[1] - 1, e[2]>>}} ELSE {})

copy_file_secure(e) ==
    /\ job.op \in Calls \ {"clear"} /\ e \in job.todo
    /\ IF Needed(e) THEN Written(e, Source(e)) ELSE UNCHANGED <<dir, snaps>>
    /\ \E todo \in Listed(e) : Start(job.op, job.tag, todo, job.kept)
    /\ UNCHANGED <<acked, before, result, edits, lapses>>

(* fs::copy fails or is killed after it truncated its destination.         *)
copy_cut_short(e) ==
    /\ job.op \in Calls \ {"clear"} /\ e \in job.todo
    /\ Needed(e)
    /\ Written(e, Torn)
    /\ Stop
    /\ UNCHANGED <<acked, before, edits>>

(* The call fails or is killed between two files.                          *)
Interrupted ==
    /\ job.op # "idle"
    /\ Stop
    /\ UNCHANGED <<dir, snaps, acked, before, edits>>

Step ==
    \/ create_done \/ stage_done \/ clear_done \/ move_done \/ repair_done
    \/ \E e \in job.todo : clear_entry(e) \/ copy_file_secure(e) \/ copy_cut_short(e)

Next ==
    \/ \E f \in Files, v \in Contents \cup {Absent} : Edit(f, v)
    \/ \E t \in Tags :
        \/ vault_snapshot_create(t) \/ vault_snapshot_delete(t)
        \/ vault_snapshot_restore(t) \/ restore_refused(t) \/ vault_repair(t)
    \/ Step
    \/ Interrupted

Spec == Init /\ [][Next]_vars

-----------------------------------------------------------------------------
(* A tag that vault_snapshot_create returned stands for the vault as it    *)
(* was then, until it is deleted: no failed call, restore or repair changes *)
(* it ("immutable snapshot", vault_ops.rs:649).                            *)
SnapshotKept == \A t \in Tags : acked[t] # NoSnap => snaps[t] = acked[t]

(* A snapshot taken of a vault that held no stage of its own.              *)
Clean(t) == acked[t] # NoSnap /\ Len(acked[t]) = 1

(* From the first file removed to the last one moved the stage holds all   *)
(* of the snapshot, so that nothing of it has to be read from elsewhere.   *)
ClearedIsStaged ==
    job.op \in {"clear", "move"} /\ Clean(job.tag) => Tail(dir) = acked[job.tag]

(* Whatever is deleted or overwritten, a complete copy of it exists: the   *)
(* snapshot itself, and the stage while the vault's files are replaced.    *)
CopiesComplete == SnapshotKept /\ ClearedIsStaged

(* vault_ops.rs:814, "the exact snapshot state": a restore that returns Ok *)
(* leaves the files of the snapshot and no others, whatever an earlier     *)
(* call left in the vault or in the stage, provided every old file could   *)
(* be removed.                                                             *)
RestoreExact ==
    result.op = "restore" /\ result.ok /\ ~result.kept /\ Clean(result.tag) =>
        dir[1] = acked[result.tag][1]

(* vault_ops.rs:848, "vault unchanged": a restore that ends while it       *)
(* stages, by an error or a kill, has not touched the vault's files.       *)
StagingHarmless == result.op = "stage" /\ ~result.ok => dir[1] = before

(* What a restore reports is true, of its success and of its failure.      *)
RestoreReport == RestoreExact /\ StagingHarmless

(* After vault_repair returned Ok no file of the snapshot is missing from  *)
(* the vault or has another length, also when a killed restore had left    *)
(* the vault empty or with files cut short.  A file damaged without a      *)
(* change of length is not found damaged, and is not promised here.        *)
RepairHeals ==
    result.op = "repair" /\ result.ok /\ acked[result.tag] # NoSnap =>
        \A e \in Entries(acked[result.tag]) :
            /\ Target(e) # Absent
            /\ SizeOf(Target(e)) = SizeOf(acked[result.tag][e[1]][e[2]])
===============================================================================
