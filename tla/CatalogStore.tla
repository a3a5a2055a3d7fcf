----------------------------- MODULE CatalogStore -----------------------------
(***************************************************************************)
(* How catalog.dat is written and read: catalog_save and catalog_load      *)
(* system call by system call, with several processes, crashes and a disk  *)
(* that may fill up.  VaultCatalog takes a save to be atomic; this module  *)
(* says when it is.                                                        *)
(*                                                                         *)
(* A catalog is known here by its version: version k has Size[k] vault     *)
(* records.  Its image is a header block and one block per record, each    *)
(* tagged with the version it comes from.  Every process writes to the     *)
(* same temporary name, and to whichever inode it opened under it.         *)
(***************************************************************************)
EXTENDS Integers, Sequences, FiniteSets

CONSTANTS
    Procs,          \* processes that share one catalog directory
    MaxVersion,     \* bound of the model: catalogs made by the processes
    Size,           \* Size[k]: number of vaults in version k; Size[0] = 0 (fresh)
    Inodes,         \* inodes of the directory, more than names and open files need
    None,           \* no inode
    DiskMayFill     \* whether a write may fail with ENOSPC

VARIABLES
    dat, tmp,       \* inode of catalog.dat and of catalog.dat.tmp, or None
    data,           \* data[i]: blocks of inode i
    pc,             \* where each process is
    mem,            \* mem[p]: the image of g_catalog
    fd, pos,        \* inode p writes to, blocks p has written
    exiting,        \* p is in vault_ffi_shutdown
    saved,          \* saved[p]: the last catalog_save of p returned ERR_OK
    versions,       \* versions made so far
    lost            \* history: the disk was full and part of an image was lost

vars == <<dat, tmp, data, pc, mem, fd, pos, exiting, saved, versions, lost>>

Versions == 0 .. MaxVersion
Hole == -1          \* zeros: never written, or never read

ASSUME StoreAssumption ==
    /\ MaxVersion \in Nat
    /\ Size \in [Versions -> Nat] /\ Size[0] = 0
    /\ None \notin Inodes
    /\ IsFiniteSet(Procs) /\ IsFiniteSet(Inodes)
    /\ Cardinality(Inodes) > Cardinality(Procs) + 1
    /\ DiskMayFill \in BOOLEAN

Image(k) == [i \in 1 .. Size[k] + 1 |-> k]
Blocks == Versions \cup {Hole}

(* Block b written at position n of contents s; a gap reads as zeros.      *)
WriteAt(s, n, b) ==
    [i \in 1 .. (IF n > Len(s) THEN n ELSE Len(s)) |->
        IF i = n THEN b ELSE IF i <= Len(s) THEN s[i] ELSE Hole]

(* g_catalog after catalog_load read s: nothing when the magic is missing, *)
(* else as many records as the header announces, those past the end of the *)
(* file left zero.  The caller goes on even if the load failed.            *)
Loaded(s) ==
    IF s = <<>> \/ s[1] = Hole
    THEN Image(0)
    ELSE [i \in 1 .. Size[s[1]] + 1 |-> IF i <= Len(s) THEN s[i] ELSE Hole]

Free == {i \in Inodes : i \notin {dat, tmp} /\ \A p \in Procs : fd[p] # i}

-----------------------------------------------------------------------------
Init ==
    /\ dat = None /\ tmp = None
    /\ data = [i \in Inodes |-> <<>>]
    /\ pc = [p \in Procs |-> "off"]
    /\ mem = [p \in Procs |-> Image(0)]
    /\ fd = [p \in Procs |-> None]
    /\ pos = [p \in Procs |-> 0]
    /\ exiting = [p \in Procs |-> FALSE]
    /\ saved = [p \in Procs |-> FALSE]
    /\ versions = 0
    /\ lost = FALSE

catalog_load(p) ==
    /\ pc[p] = "off"
    /\ pc' = [pc EXCEPT ![p] = "idle"]
    /\ mem' = [mem EXCEPT ![p] = IF dat = None THEN Image(0) ELSE Loaded(data[dat])]
    /\ UNCHANGED <<dat, tmp, data, fd, pos, exiting, saved, versions, lost>>

(* A call changes g_catalog and saves it.                                  *)
Change(p) ==
    /\ pc[p] = "idle"
    /\ versions < MaxVersion
    /\ versions' = versions + 1
    /\ mem' = [mem EXCEPT ![p] = Image(versions')]
    /\ pc' = [pc EXCEPT ![p] = "open"]
    /\ saved' = [saved EXCEPT ![p] = FALSE]
    /\ UNCHANGED <<dat, tmp, data, fd, pos, exiting, lost>>

(* vault_ffi_shutdown saves what is in memory, whatever it is.             *)
Shutdown(p) ==
    /\ pc[p] = "idle"
    /\ pc' = [pc EXCEPT ![p] = "open"]
    /\ exiting' = [exiting EXCEPT ![p] = TRUE]
    /\ saved' = [saved EXCEPT ![p] = FALSE]
    /\ UNCHANGED <<dat, tmp, data, mem, fd, pos, versions, lost>>

(* Faulty variant: a save returns without closing its file.                *)
Return_leaks(p, ok) ==
    /\ pc' = [pc EXCEPT ![p] = IF exiting[p] THEN "off" ELSE "idle"]
    /\ exiting' = [exiting EXCEPT ![p] = FALSE]
    /\ saved' = [saved EXCEPT ![p] = ok]
    /\ fd' = fd
    /\ pos' = [pos EXCEPT ![p] = 0]
    /\ mem' = [mem EXCEPT ![p] = IF exiting[p] THEN Image(0) ELSE @]

(* catalog_save returns; after the save of a shutdown the process ends.    *)
Return(p, ok) ==
    /\ pc' = [pc EXCEPT ![p] = IF exiting[p] THEN "off" ELSE "idle"]
    /\ exiting' = [exiting EXCEPT ![p] = FALSE]
    /\ saved' = [saved EXCEPT ![p] = ok]
    /\ fd' = [fd EXCEPT ![p] = None]
    /\ pos' = [pos EXCEPT ![p] = 0]
    /\ mem' = [mem EXCEPT ![p] = IF exiting[p] THEN Image(0) ELSE @]

(* fopen(tmp, "wb") creates the temporary or truncates the one that is     *)
(* there, whoever is writing to it.                                        *)
fopen(p) ==
    /\ pc[p] = "open"
    /\ tmp' = IF tmp = None THEN CHOOSE i \in Free : TRUE ELSE tmp
    /\ data' = [data EXCEPT ![tmp'] = <<>>]
    /\ fd' = [fd EXCEPT ![p] = tmp']
    /\ pc' = [pc EXCEPT ![p] = "write"]
    /\ UNCHANGED <<dat, mem, pos, exiting, saved, versions, lost>>

fopen_fails(p) ==
    /\ pc[p] = "open"
    /\ Return(p, FALSE)
    /\ UNCHANGED <<dat, tmp, data, versions, lost>>

fwrite(p) ==
    /\ pc[p] = "write"
    /\ pos[p] < Len(mem[p])
    /\ pos' = [pos EXCEPT ![p] = @ + 1]
    /\ data' = [data EXCEPT ![fd[p]] = WriteAt(@, pos'[p], mem[p][pos'[p]])]
    /\ UNCHANGED <<dat, tmp, pc, mem, fd, exiting, saved, versions, lost>>

(* No fwrite and no fclose is checked: on a full disk the rest of the      *)
(* image is lost and the save goes on.                                     *)
fwrite_fails(p) ==
    /\ DiskMayFill
    /\ pc[p] = "write"
    /\ pos[p] < Len(mem[p])
    /\ pos' = [pos EXCEPT ![p] = Len(mem[p])]
    /\ lost' = TRUE
    /\ UNCHANGED <<dat, tmp, data, pc, mem, fd, exiting, saved, versions>>

(* Faulty variant: the temporary is renamed before it is complete.         *)
rename_early(p) ==
    /\ pc[p] = "write"
    /\ pos[p] > 0
    /\ tmp # None
    /\ dat' = tmp
    /\ tmp' = None
    /\ Return(p, TRUE)
    /\ UNCHANGED <<data, versions, lost>>

rename(p) ==
    /\ pc[p] = "write"
    /\ pos[p] = Len(mem[p])
    /\ tmp # None
    /\ dat' = tmp
    /\ tmp' = None
    /\ Return(p, TRUE)
    /\ UNCHANGED <<data, versions, lost>>

(* The temporary is gone, or the directory does not let it be renamed.     *)
rename_fails(p) ==
    /\ pc[p] = "write"
    /\ pos[p] = Len(mem[p])
    /\ pc' = [pc EXCEPT ![p] = "unlink"]
    /\ UNCHANGED <<dat, tmp, data, mem, fd, pos, exiting, saved, versions, lost>>

(* Faulty variant: a failed save removes the file instead of the temporary. *)
unlink_dat(p) ==
    /\ pc[p] = "unlink"
    /\ dat' = None
    /\ Return(p, FALSE)
    /\ UNCHANGED <<tmp, data, versions, lost>>

unlink(p) ==
    /\ pc[p] = "unlink"
    /\ tmp' = None
    /\ Return(p, FALSE)
    /\ UNCHANGED <<dat, data, versions, lost>>

(* The process is killed.                                                  *)
Crash(p) ==
    /\ pc[p] # "off"
    /\ pc' = [pc EXCEPT ![p] = "off"]
    /\ fd' = [fd EXCEPT ![p] = None]
    /\ pos' = [pos EXCEPT ![p] = 0]
    /\ exiting' = [exiting EXCEPT ![p] = FALSE]
    /\ saved' = [saved EXCEPT ![p] = FALSE]
    /\ mem' = [mem EXCEPT ![p] = Image(0)]
    /\ UNCHANGED <<dat, tmp, data, versions, lost>>

catalog_save(p) ==
    \/ fopen(p) \/ fopen_fails(p)
    \/ fwrite(p) \/ fwrite_fails(p)
    \/ rename(p) \/ rename_fails(p) \/ unlink(p)

Next ==
    \E p \in Procs :
        catalog_load(p) \/ Change(p) \/ Shutdown(p) \/ catalog_save(p) \/ Crash(p)

(* A process that runs keeps running; it need not make another change.     *)
Spec == Init /\ [][Next]_vars /\ \A p \in Procs : WF_vars(catalog_save(p))

(* What a reader of catalog.dat finds.                                     *)
Contents == IF dat = None THEN <<>> ELSE data[dat]

(* What every user of catalog_save relies on: the file changes in one step *)
(* or not at all (module AtomicStore).  On a full disk what it changes to   *)
(* is the beginning of an image.                                           *)
Stored(m) == {m} \cup (IF DiskMayFill THEN {SubSeq(m, 1, n) : n \in 0 .. Len(m)} ELSE {})
Phase(p) == IF pc[p] \in {"open", "write", "unlink"} THEN "saving" ELSE pc[p]
Atomic == INSTANCE AtomicStore WITH
    file <- Contents,
    phase <- [p \in Procs |-> Phase(p)],
    Catalogs <- {Image(k) : k \in Versions},
    Fresh <- Image(0),
    NoFile <- <<>>,
    Kept <- Stored,
    Read <- Loaded

-----------------------------------------------------------------------------
(* Type invariant: a process has a file open exactly while it is writing   *)
(* in catalog_save, and is never past the end of its image.                *)
TypeOK ==
    /\ dat \in Inodes \cup {None} /\ tmp \in Inodes \cup {None}
    /\ data \in [Inodes -> Seq(Blocks)]
    /\ pc \in [Procs -> {"off", "idle", "open", "write", "unlink"}]
    /\ mem \in [Procs -> Seq(Blocks)]
    /\ fd \in [Procs -> Inodes \cup {None}]
    /\ pos \in [Procs -> Nat]
    /\ \A p \in Procs : /\ pos[p] <= Len(mem[p])
                        /\ fd[p] # None <=> pc[p] \in {"write", "unlink"}
    /\ exiting \in [Procs -> BOOLEAN] /\ saved \in [Procs -> BOOLEAN]
    /\ versions \in Versions /\ lost \in BOOLEAN

Complete(s) == \E k \in Versions : s = Image(k)

(* vault_catalog.c:256, "Atomic rename": whatever moment a process dies    *)
(* at, catalog.dat is the complete image of one catalog, unless the disk    *)
(* was full; and it never combines records of two catalogs, even when a    *)
(* truncated file was loaded and saved again.                              *)
FileIsComplete ==
    /\ dat # None /\ ~lost => Complete(data[dat])
    /\ \A i, j \in DOMAIN Contents :
          Contents[i] # Hole /\ Contents[j] # Hole => Contents[i] = Contents[j]

(* catalog_save implements an atomic replacement of the file that succeeds *)
(* or fails as a whole.                                                    *)
SaveIsAtomic == Atomic!Spec
===============================================================================
