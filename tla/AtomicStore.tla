---------------------------- MODULE AtomicStore ----------------------------
(***************************************************************************)
(* What VaultCatalog takes for granted of catalog_save and catalog_load: a *)
(* save replaces the file in one step or leaves it alone, reports which,   *)
(* and returns; a load finds what was stored last.                         *)
(***************************************************************************)
CONSTANTS
    Procs, Catalogs, Fresh, NoFile,
    Kept(_),    \* what the disk may keep of a catalog
    Read(_)     \* what a load makes of it

VARIABLES
    file,       \* the stored catalog, or NoFile
    mem,        \* mem[p]: the catalog of process p
    phase,      \* phase[p]: "off", "idle" or "saving"
    exiting,    \* p ends after the save it is in
    saved       \* the last save of p was reported as done

vars == <<file, mem, phase, exiting, saved>>

Init ==
    /\ file = NoFile
    /\ mem = [p \in Procs |-> Fresh]
    /\ phase = [p \in Procs |-> "off"]
    /\ exiting = [p \in Procs |-> FALSE]
    /\ saved = [p \in Procs |-> FALSE]

Load(p) ==
    /\ phase[p] = "off"
    /\ phase' = [phase EXCEPT ![p] = "idle"]
    /\ mem' = [mem EXCEPT ![p] = IF file = NoFile THEN Fresh ELSE Read(file)]
    /\ UNCHANGED <<file, exiting, saved>>

(* p starts to save catalog c, and ends afterwards if it is leaving.       *)
Begin(p, c, leaving) ==
    /\ phase[p] = "idle"
    /\ leaving => c = mem[p]
    /\ phase' = [phase EXCEPT ![p] = "saving"]
    /\ mem' = [mem EXCEPT ![p] = c]
    /\ exiting' = [exiting EXCEPT ![p] = leaving]
    /\ saved' = [saved EXCEPT ![p] = FALSE]
    /\ UNCHANGED file

End(p, ok) ==
    /\ phase[p] = "saving"
    /\ IF ok THEN file' \in Kept(mem[p]) ELSE file' = file
    /\ phase' = [phase EXCEPT ![p] = IF exiting[p] THEN "off" ELSE "idle"]
    /\ mem' = [mem EXCEPT ![p] = IF exiting[p] THEN Fresh ELSE @]
    /\ exiting' = [exiting EXCEPT ![p] = FALSE]
    /\ saved' = [saved EXCEPT ![p] = ok]

Crash(p) ==
    /\ phase[p] # "off"
    /\ phase' = [phase EXCEPT ![p] = "off"]
    /\ mem' = [mem EXCEPT ![p] = Fresh]
    /\ exiting' = [exiting EXCEPT ![p] = FALSE]
    /\ saved' = [saved EXCEPT ![p] = FALSE]
    /\ UNCHANGED file

Next ==
    \E p \in Procs :
        \/ Load(p)
        \/ \E c \in Catalogs \cup {mem[p]}, leaving \in BOOLEAN : Begin(p, c, leaving)
        \/ \E ok \in BOOLEAN : End(p, ok)
        \/ Crash(p)

Spec ==
    /\ Init /\ [][Next]_vars
    /\ \A p \in Procs : WF_vars(\E ok \in BOOLEAN : End(p, ok))
=============================================================================
