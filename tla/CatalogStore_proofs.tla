------------------------ MODULE CatalogStore_proofs ------------------------
(***************************************************************************)
(* Proofs about CatalogStore, for every number of versions and sizes of    *)
(* catalogs: the types for any set of processes, and for one process that  *)
(* catalog.dat is replaced atomically.                                     *)
(***************************************************************************)
EXTENDS CatalogStore, TLAPS, FiniteSetTheorems, SequenceTheorems

Busy(q) == pc[q] \in {"write", "unlink"}

(* A process that is not writing has written nothing, and one that leaves  *)
(* is in the save of its shutdown.                                         *)
ProcInv ==
    \A q \in Procs : /\ ~Busy(q) => pos[q] = 0
                     /\ exiting[q] => Busy(q) \/ pc[q] = "open"

(* s holds records of one catalog and zeros.                               *)
OneVersion(s) == \E k \in Versions : \A i \in 1 .. Len(s) : s[i] \in {k, Hole}

(* What g_catalog or the file may be: all of a catalog, unless the disk    *)
(* was full.                                                               *)
Whole(s) == OneVersion(s) /\ (~lost => Complete(s))

(* The temporary holds what its process has written so far; only what a    *)
(* full disk swallowed is missing at the end.                              *)
Written(q) ==
    /\ tmp # None /\ fd[q] = tmp
    /\ \A i \in 1 .. Len(data[tmp]) : data[tmp][i] = mem[q][i]
    /\ \/ Len(data[tmp]) = pos[q]
       \/ lost /\ Len(data[tmp]) <= pos[q] /\ pos[q] = Len(mem[q])

(* With one process the file and the temporary are never the same.         *)
FileInv ==
    /\ lost => DiskMayFill
    /\ dat = None \/ dat # tmp
    /\ \A q \in Procs : Whole(mem[q])
    /\ dat # None => Whole(data[dat])
    /\ \A q \in Procs : Busy(q) => Written(q)

(* The inductive invariants, for any processes and for one.                *)
PInv == TypeOK /\ ProcInv
IInv == PInv /\ FileInv
-----------------------------------------------------------------------------
(* Images.                                                                 *)

(* A function on an initial segment is a sequence of that length.          *)
LEMMA SegmentIsSeq ==
    ASSUME NEW n \in Nat, NEW S, NEW f \in [1 .. n -> S]
    PROVE  f \in Seq(S) /\ Len(f) = n /\ DOMAIN f = 1 .. n
<1>1. f \in Seq(S)
  BY SeqDef
<1> QED BY <1>1, LenProperties

LEMMA ImageFacts ==
    ASSUME NEW k \in Versions
    PROVE  /\ Image(k) \in Seq(Blocks) /\ Len(Image(k)) = Size[k] + 1
           /\ Len(Image(k)) \in Nat /\ Len(Image(k)) >= 1
           /\ \A i \in 1 .. Len(Image(k)) : Image(k)[i] = k
           /\ OneVersion(Image(k)) /\ Complete(Image(k))
<1>1. Size[k] \in Nat /\ Size[k] + 1 \in Nat
  BY StoreAssumption
<1>2. Image(k) \in [1 .. Size[k] + 1 -> Blocks]
  BY DEF Image, Blocks
<1>3. Image(k) \in Seq(Blocks) /\ Len(Image(k)) = Size[k] + 1
  BY <1>1, <1>2, SegmentIsSeq
<1>4. \A i \in 1 .. Len(Image(k)) : Image(k)[i] = k
  BY <1>3 DEF Image
<1> QED BY <1>1, <1>3, <1>4 DEF OneVersion, Complete

(* A fresh catalog is version 0.                                           *)
LEMMA FreshIsVersion == 0 \in Versions
BY StoreAssumption DEF Versions

(* A file stays a sequence of blocks wherever a block is written, ...      *)
LEMMA WriteAtFacts ==
    ASSUME NEW s \in Seq(Blocks), NEW n \in Nat, n >= 1, NEW b \in Blocks
    PROVE  WriteAt(s, n, b) \in Seq(Blocks)
<1> DEFINE N == IF n > Len(s) THEN n ELSE Len(s)
<1>1. Len(s) \in Nat /\ N \in Nat /\ \A i \in 1 .. Len(s) : s[i] \in Blocks
  BY LenProperties, ElementOfSeq
<1>2. Hole \in Blocks
  BY DEF Blocks
<1>3. WriteAt(s, n, b) = [i \in 1 .. N |-> IF i = n THEN b ELSE IF i <= Len(s) THEN s[i] ELSE Hole]
  BY DEF WriteAt
<1> HIDE DEF N
<1>4. WriteAt(s, n, b) \in [1 .. N -> Blocks]
  BY <1>1, <1>2, <1>3
<1> QED BY <1>1, <1>4, SegmentIsSeq

(* ... and a block written right after the others extends it by one.       *)
LEMMA AppendFacts ==
    ASSUME NEW s \in Seq(Blocks), NEW n \in Nat, n >= 1, NEW b \in Blocks, n = Len(s) + 1
    PROVE  /\ Len(WriteAt(s, n, b)) = n
           /\ \A i \in 1 .. Len(s) : WriteAt(s, n, b)[i] = s[i]
           /\ WriteAt(s, n, b)[n] = b
<1>1. Len(s) \in Nat /\ \A i \in 1 .. Len(s) : s[i] \in Blocks
  BY LenProperties, ElementOfSeq
<1>2. WriteAt(s, n, b) = [i \in 1 .. n |-> IF i = n THEN b ELSE IF i <= Len(s) THEN s[i] ELSE Hole]
  BY <1>1 DEF WriteAt
<1>3. WriteAt(s, n, b) \in [1 .. n -> Blocks]
  BY <1>1, <1>2 DEF Blocks
<1>4. Len(WriteAt(s, n, b)) = n
  BY <1>3, SegmentIsSeq
<1> QED BY <1>1, <1>2, <1>4

(* What catalog_load makes of a file.                                      *)
LEMMA LoadedFacts ==
    ASSUME NEW s \in Seq(Blocks)
    PROVE  /\ Loaded(s) \in Seq(Blocks) /\ Len(Loaded(s)) \in Nat
           /\ OneVersion(s) => OneVersion(Loaded(s))
           /\ Complete(s) => Complete(Loaded(s))
<1>1. CASE s = <<>> \/ s[1] = Hole
  BY <1>1, ImageFacts, FreshIsVersion DEF Loaded
<1>2. CASE ~(s = <<>> \/ s[1] = Hole)
  <2>1. Len(s) \in Nat /\ Len(s) >= 1 /\ \A i \in 1 .. Len(s) : s[i] \in Blocks
    BY <1>2, EmptySeq, ElementOfSeq, LenProperties
  <2>2. s[1] \in Versions
    BY <1>2, <2>1 DEF Blocks
  <2> DEFINE n == Size[s[1]] + 1
             m == [i \in 1 .. n |-> IF i <= Len(s) THEN s[i] ELSE Hole]
  <2>3. n \in Nat
    BY <2>2, StoreAssumption
  <2>4. Loaded(s) = m
    BY <1>2 DEF Loaded
  <2>5. s[1] \in {s[1], Hole}
    OBVIOUS
  <2>6. m \in [1 .. n -> Blocks]
    <3> HIDE DEF n
    <3>1. Hole \in Blocks
      BY DEF Blocks
    <3> QED BY <2>1, <2>3, <3>1
  <2>7. m \in Seq(Blocks) /\ Len(m) = n
    <3> HIDE DEF n, m
    <3> QED BY <2>3, <2>6, SegmentIsSeq
  <2>8. \A i \in 1 .. n : m[i] = IF i <= Len(s) THEN s[i] ELSE Hole
    OBVIOUS
  <2>9. ASSUME OneVersion(s) PROVE OneVersion(m)
    <3>1. PICK k \in Versions : \A i \in 1 .. Len(s) : s[i] \in {k, Hole}
      BY <2>9 DEF OneVersion
    <3> HIDE DEF n, m
    <3>2. \A i \in 1 .. n : m[i] \in {k, Hole}
      BY <2>1, <2>3, <2>8, <3>1
    <3> QED BY <2>7, <3>2 DEF OneVersion
  <2>10. ASSUME Complete(s) PROVE Complete(m)
    <3>1. PICK k \in Versions : s = Image(k)
      BY <2>10 DEF Complete
    <3>2. Len(s) = Size[k] + 1 /\ \A i \in 1 .. Len(s) : s[i] = k
      BY <3>1, ImageFacts
    <3>3. s[1] = k
      BY <2>1, <3>2
    <3>4. n = Len(s)
      BY <3>2, <3>3
    <3>5. \A i \in 1 .. n : m[i] = s[i]
      <4> HIDE DEF n, m
      <4> QED BY <2>1, <2>8, <3>4
    <3>6. m = s
      <4> HIDE DEF n, m
      <4> QED BY <2>7, <3>4, <3>5, SeqEqual
    <3> QED BY <2>10, <3>6
  <2> HIDE DEF n, m
  <2> QED BY <2>3, <2>4, <2>7, <2>9, <2>10
<1> QED BY <1>1, <1>2

(* There is an inode for the temporary of a process that has none.         *)
LEMMA FreeExists ==
    ASSUME TypeOK, NEW p \in Procs, fd[p] = None, tmp = None
    PROVE  \E i \in Inodes : i \in Free
<1> DEFINE R == {fd[q] : q \in Procs}
<1>1. fd \in Surjection(Procs, R)
  BY DEF TypeOK, Surjection
<1>2. IsFiniteSet(R) /\ Cardinality(R) <= Cardinality(Procs)
  BY <1>1, FS_Surjection, StoreAssumption
<1>3. /\ IsFiniteSet(R \cup {dat})
      /\ Cardinality(R \cup {dat}) = IF dat \in R THEN Cardinality(R) ELSE Cardinality(R) + 1
  BY <1>2, FS_AddElement
<1>4. /\ Cardinality(R) \in Nat /\ Cardinality(Procs) \in Nat /\ Cardinality(Inodes) \in Nat
      /\ Cardinality(R \cup {dat}) \in Nat
  BY <1>2, <1>3, FS_CardinalityType, StoreAssumption
<1>5. Cardinality(R \cup {dat}) < Cardinality(Inodes)
  BY <1>2, <1>3, <1>4, StoreAssumption
<1>6. ~(Inodes \subseteq R \cup {dat})
  <2>1. ASSUME Inodes \subseteq R \cup {dat} PROVE Cardinality(Inodes) <= Cardinality(R \cup {dat})
    <3> HIDE DEF R
    <3> QED BY <1>3, <2>1, FS_Subset
  <2> QED BY <1>4, <1>5, <2>1
<1>7. PICK i \in Inodes : i # dat /\ i \notin R
  BY <1>6
<1>8. i # None
  BY StoreAssumption
<1> QED BY <1>7, <1>8 DEF Free
-----------------------------------------------------------------------------
(* Any number of processes.                                                *)

(* What holds of the other processes is not touched by a step of p.        *)
LEMMA OwnStep ==
    ASSUME PInv, NEW p \in Procs,
           NEW w \in {"off", "idle", "open", "write", "unlink"}, pc' = [pc EXCEPT ![p] = w],
           NEW m \in Seq(Blocks), mem' = [mem EXCEPT ![p] = m],
           NEW d \in Inodes \cup {None}, fd' = [fd EXCEPT ![p] = d],
           NEW n \in Nat, pos' = [pos EXCEPT ![p] = n],
           NEW e \in BOOLEAN, exiting' = [exiting EXCEPT ![p] = e],
           NEW o \in BOOLEAN, saved' = [saved EXCEPT ![p] = o],
           n <= Len(m), d # None <=> w \in {"write", "unlink"},
           w \notin {"write", "unlink"} => n = 0,
           e => w \in {"open", "write", "unlink"},
           dat' \in Inodes \cup {None}, tmp' \in Inodes \cup {None},
           data' \in [Inodes -> Seq(Blocks)], versions' \in Versions, lost' \in BOOLEAN
    PROVE  PInv'
<1>1. /\ pc \in [Procs -> {"off", "idle", "open", "write", "unlink"}]
      /\ mem \in [Procs -> Seq(Blocks)] /\ fd \in [Procs -> Inodes \cup {None}]
      /\ pos \in [Procs -> Nat] /\ exiting \in [Procs -> BOOLEAN] /\ saved \in [Procs -> BOOLEAN]
  BY DEF PInv, TypeOK
<1>2. /\ pc' \in [Procs -> {"off", "idle", "open", "write", "unlink"}]
      /\ mem' \in [Procs -> Seq(Blocks)] /\ fd' \in [Procs -> Inodes \cup {None}]
      /\ pos' \in [Procs -> Nat]
  BY <1>1
<1>3. exiting' \in [Procs -> BOOLEAN] /\ saved' \in [Procs -> BOOLEAN]
  BY <1>1
<1>4. ASSUME NEW q \in Procs
      PROVE  /\ pos'[q] <= Len(mem'[q])
             /\ fd'[q] # None <=> pc'[q] \in {"write", "unlink"}
             /\ pc'[q] \notin {"write", "unlink"} => pos'[q] = 0
  <2>1. CASE q = p
    BY <1>1, <2>1
  <2>2. CASE q # p
    BY <1>1, <2>2 DEF PInv, TypeOK, ProcInv, Busy
  <2> QED BY <2>1, <2>2
<1>5. ASSUME NEW q \in Procs
      PROVE  exiting'[q] => pc'[q] \in {"open", "write", "unlink"}
  <2>1. CASE q = p
    BY <1>1, <2>1
  <2>2. CASE q # p
    BY <1>1, <2>2 DEF PInv, ProcInv, Busy
  <2> QED BY <2>1, <2>2
<1>6. TypeOK'
  BY <1>2, <1>3, <1>4 DEF TypeOK
<1>7. ProcInv'
  BY <1>4, <1>5 DEF ProcInv, Busy
<1> QED BY <1>6, <1>7 DEF PInv

(* A save returns.                                                         *)
LEMMA ReturnStep ==
    ASSUME PInv, NEW p \in Procs, NEW ok \in BOOLEAN, Return(p, ok),
           dat' \in Inodes \cup {None}, tmp' \in Inodes \cup {None},
           UNCHANGED <<data, versions, lost>>
    PROVE  PInv'
<1> DEFINE w == IF exiting[p] THEN "off" ELSE "idle"
           m == IF exiting[p] THEN Image(0) ELSE mem[p]
<1>1. /\ pc' = [pc EXCEPT ![p] = w] /\ mem' = [mem EXCEPT ![p] = m]
      /\ fd' = [fd EXCEPT ![p] = None] /\ pos' = [pos EXCEPT ![p] = 0]
      /\ exiting' = [exiting EXCEPT ![p] = FALSE] /\ saved' = [saved EXCEPT ![p] = ok]
  BY DEF Return
<1>2. m \in Seq(Blocks) /\ w \in {"off", "idle"}
  BY ImageFacts, FreshIsVersion DEF PInv, TypeOK
<1>3. 0 <= Len(m)
  BY <1>2, LenProperties
<1>4. data' \in [Inodes -> Seq(Blocks)] /\ versions' \in Versions /\ lost' \in BOOLEAN
  BY DEF PInv, TypeOK
<1> HIDE DEF w, m
<1> QED BY <1>1, <1>2, <1>3, <1>4, OwnStep

(* The operations of a process keep its invariant.                         *)
LEMMA ProcStep == PInv /\ [Next]_vars => PInv'
<1> SUFFICES ASSUME PInv, [Next]_vars PROVE PInv'
  OBVIOUS
<1>1. CASE UNCHANGED vars
  BY <1>1 DEF vars, PInv, TypeOK, ProcInv, Busy
<1> SUFFICES ASSUME NEW p \in Procs,
                    \/ catalog_load(p) \/ Change(p) \/ Shutdown(p) \/ Crash(p)
                    \/ fopen(p) \/ fopen_fails(p) \/ fwrite(p) \/ fwrite_fails(p)
                    \/ rename(p) \/ rename_fails(p) \/ unlink(p)
             PROVE  PInv'
  BY <1>1 DEF Next, catalog_save
<1>2. /\ pc[p] \in {"off", "idle", "open", "write", "unlink"} /\ mem[p] \in Seq(Blocks)
      /\ fd[p] \in Inodes \cup {None} /\ pos[p] \in Nat /\ Len(mem[p]) \in Nat
      /\ pos[p] <= Len(mem[p])
      /\ exiting[p] \in BOOLEAN /\ saved[p] \in BOOLEAN
      /\ dat \in Inodes \cup {None} /\ tmp \in Inodes \cup {None}
      /\ data \in [Inodes -> Seq(Blocks)] /\ versions \in Versions /\ lost \in BOOLEAN
  BY LenProperties DEF PInv, TypeOK
<1>3. /\ pc = [pc EXCEPT ![p] = pc[p]] /\ mem = [mem EXCEPT ![p] = mem[p]]
      /\ fd = [fd EXCEPT ![p] = fd[p]] /\ pos = [pos EXCEPT ![p] = pos[p]]
      /\ exiting = [exiting EXCEPT ![p] = exiting[p]] /\ saved = [saved EXCEPT ![p] = saved[p]]
  BY DEF PInv, TypeOK
<1>4. /\ fd[p] # None <=> pc[p] \in {"write", "unlink"}
      /\ pc[p] \notin {"write", "unlink"} => pos[p] = 0
      /\ exiting[p] => pc[p] \in {"open", "write", "unlink"}
  BY DEF PInv, TypeOK, ProcInv, Busy
<1>5. CASE catalog_load(p)
  <2> DEFINE m == IF dat = None THEN Image(0) ELSE Loaded(data[dat])
  <2>1. m \in Seq(Blocks) /\ 0 <= Len(m)
    BY <1>2, ImageFacts, FreshIsVersion, LoadedFacts, LenProperties
  <2>2. /\ pc[p] = "off" /\ pc' = [pc EXCEPT ![p] = "idle"] /\ mem' = [mem EXCEPT ![p] = m]
        /\ UNCHANGED <<dat, tmp, data, fd, pos, exiting, saved, versions, lost>>
    BY <1>5 DEF catalog_load
  <2> HIDE DEF m
  <2>3. fd[p] = None /\ pos[p] = 0 /\ ~exiting[p]
    BY <1>4, <2>2
  <2> QED BY <1>2, <1>3, <2>1, <2>2, <2>3, OwnStep
<1>6. CASE Change(p)
  <2>1. /\ pc[p] = "idle" /\ versions < MaxVersion /\ versions' = versions + 1
        /\ mem' = [mem EXCEPT ![p] = Image(versions')] /\ pc' = [pc EXCEPT ![p] = "open"]
        /\ saved' = [saved EXCEPT ![p] = FALSE]
        /\ UNCHANGED <<dat, tmp, data, fd, pos, exiting, lost>>
    BY <1>6 DEF Change
  <2>2. versions' \in Versions
    BY <1>2, <2>1, StoreAssumption DEF Versions
  <2>3. Image(versions') \in Seq(Blocks) /\ 0 <= Len(Image(versions'))
    BY <2>2, ImageFacts
  <2>4. fd[p] = None /\ pos[p] = 0 /\ ~exiting[p]
    BY <1>4, <2>1
  <2>5. /\ fd' = [fd EXCEPT ![p] = None] /\ pos' = [pos EXCEPT ![p] = 0]
        /\ exiting' = [exiting EXCEPT ![p] = exiting[p]]
    BY <1>3, <2>1, <2>4
  <2> DEFINE m == Image(versions')
  <2> HIDE DEF m
  <2>6. mem' = [mem EXCEPT ![p] = m] /\ m \in Seq(Blocks) /\ 0 <= Len(m)
    BY <2>1, <2>3 DEF m
  <2> QED BY <1>2, <2>1, <2>2, <2>4, <2>5, <2>6, OwnStep
<1>7. CASE Shutdown(p)
  <2>1. /\ pc[p] = "idle" /\ pc' = [pc EXCEPT ![p] = "open"]
        /\ exiting' = [exiting EXCEPT ![p] = TRUE] /\ saved' = [saved EXCEPT ![p] = FALSE]
        /\ UNCHANGED <<dat, tmp, data, mem, fd, pos, versions, lost>>
    BY <1>7 DEF Shutdown
  <2>2. fd[p] = None /\ pos[p] = 0 /\ 0 <= Len(mem[p])
    BY <1>2, <1>4, <2>1
  <2>3. /\ mem' = [mem EXCEPT ![p] = mem[p]] /\ fd' = [fd EXCEPT ![p] = None]
        /\ pos' = [pos EXCEPT ![p] = 0]
    BY <1>3, <2>1, <2>2
  <2> QED BY <1>2, <2>1, <2>2, <2>3, OwnStep
<1>8. CASE Crash(p)
  <2>1. /\ pc' = [pc EXCEPT ![p] = "off"] /\ fd' = [fd EXCEPT ![p] = None]
        /\ pos' = [pos EXCEPT ![p] = 0] /\ exiting' = [exiting EXCEPT ![p] = FALSE]
        /\ saved' = [saved EXCEPT ![p] = FALSE] /\ mem' = [mem EXCEPT ![p] = Image(0)]
        /\ UNCHANGED <<dat, tmp, data, versions, lost>>
    BY <1>8 DEF Crash
  <2>2. Image(0) \in Seq(Blocks) /\ 0 <= Len(Image(0))
    BY ImageFacts, FreshIsVersion
  <2> QED BY <1>2, <2>1, <2>2, OwnStep
<1>9. CASE fopen(p)
  <2>1. /\ pc[p] = "open" /\ data' = [data EXCEPT ![tmp'] = <<>>]
        /\ fd' = [fd EXCEPT ![p] = tmp'] /\ pc' = [pc EXCEPT ![p] = "write"]
        /\ UNCHANGED <<dat, mem, pos, exiting, saved, versions, lost>>
    BY <1>9 DEF fopen
  <2>2. fd[p] = None /\ pos[p] = 0
    BY <1>4, <2>1
  <2>3. tmp' \in Inodes /\ tmp' # None
    <3>1. CASE tmp = None
      <4>1. PICK i \in Inodes : i \in Free
        BY <2>2, <3>1, FreeExists DEF PInv
      <4>2. tmp' \in Free
        BY <1>9, <3>1, <4>1 DEF fopen
      <4> QED BY <4>2, StoreAssumption DEF Free
    <3>2. CASE tmp # None
      BY <1>2, <1>9, <3>2 DEF fopen
    <3> QED BY <3>1, <3>2
  <2>4. data' \in [Inodes -> Seq(Blocks)]
    <3>1. <<>> \in Seq(Blocks)
      BY EmptySeq
    <3> QED BY <1>2, <2>1, <3>1
  <2> QED BY <1>2, <1>3, <2>1, <2>2, <2>3, <2>4, OwnStep
<1>10. CASE fopen_fails(p)
  BY <1>2, <1>10, ReturnStep DEF fopen_fails
<1>11. CASE fwrite(p)
  <2> DEFINE n == pos[p] + 1
  <2>1. /\ pc[p] = "write" /\ pos[p] < Len(mem[p]) /\ pos' = [pos EXCEPT ![p] = n]
        /\ pos'[p] = n
        /\ data' = [data EXCEPT ![fd[p]] = WriteAt(data[fd[p]], n, mem[p][n])]
        /\ UNCHANGED <<dat, tmp, pc, mem, fd, exiting, saved, versions, lost>>
    BY <1>11 DEF fwrite, PInv, TypeOK
  <2>2. fd[p] \in Inodes /\ n \in Nat /\ n >= 1 /\ n <= Len(mem[p]) /\ mem[p][n] \in Blocks
    BY <1>2, <1>4, <2>1, ElementOfSeq
  <2> HIDE DEF n
  <2>3. WriteAt(data[fd[p]], n, mem[p][n]) \in Seq(Blocks)
    BY <1>2, <2>2, WriteAtFacts
  <2>4. data' \in [Inodes -> Seq(Blocks)]
    BY <1>2, <2>1, <2>3
  <2> QED BY <1>2, <1>3, <1>4, <2>1, <2>2, <2>4, OwnStep
<1>12. CASE fwrite_fails(p)
  <2>1. /\ pc[p] = "write" /\ pos' = [pos EXCEPT ![p] = Len(mem[p])] /\ lost' = TRUE
        /\ UNCHANGED <<dat, tmp, data, pc, mem, fd, exiting, saved, versions>>
    BY <1>12 DEF fwrite_fails
  <2>2. lost' \in BOOLEAN /\ Len(mem[p]) <= Len(mem[p]) /\ fd[p] # None
    BY <1>2, <1>4, <2>1
  <2>3. /\ mem' = [mem EXCEPT ![p] = mem[p]] /\ fd' = [fd EXCEPT ![p] = fd[p]]
        /\ pc' = [pc EXCEPT ![p] = "write"] /\ exiting' = [exiting EXCEPT ![p] = exiting[p]]
        /\ saved' = [saved EXCEPT ![p] = saved[p]]
    BY <1>3, <2>1
  <2> QED BY <1>2, <2>1, <2>2, <2>3, OwnStep
<1>13. CASE rename(p)
  BY <1>2, <1>13, ReturnStep DEF rename
<1>14. CASE rename_fails(p)
  <2>1. /\ pc[p] = "write" /\ pc' = [pc EXCEPT ![p] = "unlink"]
        /\ UNCHANGED <<dat, tmp, data, mem, fd, pos, exiting, saved, versions, lost>>
    BY <1>14 DEF rename_fails
  <2>2. /\ mem' = [mem EXCEPT ![p] = mem[p]] /\ fd' = [fd EXCEPT ![p] = fd[p]]
        /\ pos' = [pos EXCEPT ![p] = pos[p]] /\ exiting' = [exiting EXCEPT ![p] = exiting[p]]
        /\ saved' = [saved EXCEPT ![p] = saved[p]]
    BY <1>3, <2>1
  <2>3. fd[p] # None
    BY <1>4, <2>1
  <2> QED BY <1>2, <2>1, <2>2, <2>3, OwnStep
<1>15. CASE unlink(p)
  BY <1>2, <1>15, ReturnStep DEF unlink
<1> QED BY <1>5, <1>6, <1>7, <1>8, <1>9, <1>10, <1>11, <1>12, <1>13, <1>14, <1>15
-----------------------------------------------------------------------------
(* One process.                                                            *)

(* What is in the temporary when all has been written is the beginning of  *)
(* the image in memory, and all of it unless the disk was full.            *)
LEMMA WrittenOut ==
    ASSUME IInv, NEW p \in Procs, Busy(p), pos[p] = Len(mem[p])
    PROVE  /\ Whole(data[tmp])
           /\ data[tmp] \in Stored(mem[p])
<1> DEFINE s == data[tmp]
           m == mem[p]
<1>1. s \in Seq(Blocks) /\ m \in Seq(Blocks) /\ Len(s) \in Nat /\ Len(m) \in Nat
  BY LenProperties DEF IInv, PInv, TypeOK, FileInv, Written
<1>2. /\ \A i \in 1 .. Len(s) : s[i] = m[i]
      /\ Len(s) = Len(m) \/ (lost /\ Len(s) <= Len(m))
      /\ lost => DiskMayFill
      /\ OneVersion(m) /\ (~lost => Complete(m))
  BY DEF IInv, FileInv, Written, Whole
<1>3. Len(s) <= Len(m)
  BY <1>1, <1>2
<1> HIDE DEF s, m
<1>4. OneVersion(s)
  <2>1. PICK k \in Versions : \A i \in 1 .. Len(m) : m[i] \in {k, Hole}
    BY <1>2 DEF OneVersion
  <2>2. \A i \in 1 .. Len(s) : s[i] \in {k, Hole}
    BY <1>1, <1>2, <1>3, <2>1
  <2> QED BY <2>2 DEF OneVersion
<1>5. CASE Len(s) = Len(m)
  <2>1. s = m
    BY <1>1, <1>2, <1>5, SeqEqual
  <2> QED BY <1>2, <2>1 DEF Whole, Stored, s, m
<1>6. CASE lost
  <2>1. \A i \in 1 .. Len(s) : m[i] \in Blocks
    BY <1>1, <1>3, ElementOfSeq
  <2> DEFINE t == SubSeq(m, 1, Len(s))
  <2>2. t \in Seq(Blocks) /\ Len(t) = Len(s) /\ \A i \in 1 .. Len(s) : t[i] = m[i]
    <3>1. /\ t \in Seq(Blocks) /\ Len(t) = IF 1 <= Len(s) THEN Len(s) - 1 + 1 ELSE 0
          /\ \A i \in 1 .. Len(s) - 1 + 1 : t[i] = m[1 + i - 1]
      <4> HIDE DEF t
      <4>1. 1 \in Int /\ Len(s) \in Int
        BY <1>1
      <4> QED BY <2>1, <4>1, SubSeqProperties DEF t
    <3> HIDE DEF t
    <3> QED BY <1>1, <3>1
  <2>3. s = t
    <3> HIDE DEF t
    <3> QED BY <1>1, <1>2, <2>2, SeqEqual
  <2>4. Len(s) \in 0 .. Len(m)
    BY <1>1, <1>3
  <2>5. s \in {SubSeq(m, 1, n) : n \in 0 .. Len(m)}
    BY <2>3, <2>4
  <2> QED BY <1>2, <1>4, <1>6, <2>5 DEF Whole, Stored, s, m
<1> QED BY <1>2, <1>5, <1>6

(* After a save catalog.dat and g_catalog are whole, whatever came of it.  *)
LEMMA ReturnFile ==
    ASSUME NEW p, Procs = {p}, IInv, NEW ok, Return(p, ok), UNCHANGED <<data, lost>>,
           dat' = None \/ dat' # tmp', dat' # None => Whole(data[dat'])
    PROVE  FileInv'
<1>1. pc \in [Procs -> {"off", "idle", "open", "write", "unlink"}] /\ mem \in [Procs -> Seq(Blocks)]
  BY DEF IInv, PInv, TypeOK
<1>2. pc'[p] \in {"off", "idle"} /\ mem'[p] \in {Image(0), mem[p]}
  BY <1>1 DEF Return
<1>3. OneVersion(Image(0)) /\ Complete(Image(0))
  BY ImageFacts, FreshIsVersion
<1>4. Whole(mem[p])' /\ ~Busy(p)'
  BY <1>2, <1>3 DEF IInv, FileInv, Whole, Busy
<1>5. dat' # None => Whole(data[dat])'
  BY DEF Whole
<1> QED BY <1>4, <1>5 DEF IInv, FileInv

(* Every operation keeps the file whole.                                   *)
LEMMA FileStep ==
    ASSUME NEW p, Procs = {p}, IInv, [Next]_vars
    PROVE  FileInv'
<1>1. CASE UNCHANGED vars
  BY <1>1 DEF vars, IInv, FileInv, Whole, Busy, Written
<1> SUFFICES ASSUME \/ catalog_load(p) \/ Change(p) \/ Shutdown(p) \/ Crash(p)
                    \/ fopen(p) \/ fopen_fails(p) \/ fwrite(p) \/ fwrite_fails(p)
                    \/ rename(p) \/ rename_fails(p) \/ unlink(p)
             PROVE  FileInv'
  BY <1>1 DEF Next, catalog_save
<1>2. /\ p \in Procs /\ pc \in [Procs -> {"off", "idle", "open", "write", "unlink"}]
      /\ mem \in [Procs -> Seq(Blocks)] /\ fd \in [Procs -> Inodes \cup {None}]
      /\ pos \in [Procs -> Nat] /\ data \in [Inodes -> Seq(Blocks)]
      /\ dat \in Inodes \cup {None} /\ tmp \in Inodes \cup {None}
      /\ Len(mem[p]) \in Nat /\ versions \in Versions
      /\ fd[p] # None <=> pc[p] \in {"write", "unlink"}
      /\ pc[p] \notin {"write", "unlink"} => pos[p] = 0
  BY LenProperties DEF IInv, PInv, TypeOK, ProcInv, Busy
<1>3. /\ lost => DiskMayFill
      /\ dat = None \/ dat # tmp
      /\ Whole(mem[p])
      /\ dat # None => Whole(data[dat])
      /\ Busy(p) => Written(p)
  BY <1>2 DEF IInv, FileInv
<1>4. OneVersion(Image(0)) /\ Complete(Image(0))
  BY ImageFacts, FreshIsVersion
<1>5. CASE catalog_load(p) \/ Crash(p)
  <2>1. /\ UNCHANGED <<dat, tmp, data, lost>> /\ pc'[p] \in {"off", "idle"}
        /\ mem'[p] \in {Image(0), IF dat = None THEN Image(0) ELSE Loaded(data[dat])}
    BY <1>2, <1>5 DEF Crash, catalog_load
  <2>2. dat # None => OneVersion(Loaded(data[dat])) /\ (~lost => Complete(Loaded(data[dat])))
    BY <1>2, <1>3, LoadedFacts DEF Whole
  <2>3. Whole(mem[p])' /\ ~Busy(p)'
    BY <1>4, <2>1, <2>2 DEF Whole, Busy
  <2>4. dat' # None => Whole(data[dat])'
    BY <1>3, <2>1 DEF Whole
  <2> QED BY <1>3, <2>1, <2>3, <2>4 DEF FileInv
<1>6. CASE Change(p) \/ Shutdown(p)
  <2>1. /\ UNCHANGED <<dat, tmp, data, lost>> /\ pc'[p] = "open"
        /\ mem'[p] = mem[p] \/ (versions' \in Versions /\ mem'[p] = Image(versions'))
    BY <1>2, <1>6, StoreAssumption DEF Change, Shutdown, Versions
  <2>2. Whole(mem[p])' /\ ~Busy(p)'
    BY <1>3, <2>1, ImageFacts DEF Whole, Busy
  <2>3. dat' # None => Whole(data[dat])'
    BY <1>3, <2>1 DEF Whole
  <2> QED BY <1>3, <2>1, <2>2, <2>3 DEF FileInv
<1>7. CASE fopen(p)
  <2>1. /\ pc[p] = "open" /\ tmp' = IF tmp = None THEN CHOOSE i \in Free : TRUE ELSE tmp
        /\ data' = [data EXCEPT ![tmp'] = <<>>] /\ fd'[p] = tmp'
        /\ UNCHANGED <<dat, mem, pos, lost>>
    BY <1>2, <1>7 DEF fopen
  <2>2. tmp' \in Inodes /\ tmp' # dat
    <3>1. CASE tmp = None
      <4>1. PICK i \in Inodes : i \in Free
        BY <1>2, <2>1, <3>1, FreeExists DEF IInv, PInv
      <4>2. tmp' \in Free
        BY <2>1, <3>1, <4>1
      <4> QED BY <4>2 DEF Free
    <3>2. CASE tmp # None
      BY <1>2, <1>3, <2>1, <3>2
    <3> QED BY <3>1, <3>2
  <2>3. data'[tmp'] = <<>> /\ (dat # None => data'[dat] = data[dat]) /\ pos[p] = 0
    BY <1>2, <2>1, <2>2
  <2>4. Len(data'[tmp']) = 0 /\ tmp' # None /\ fd'[p] = tmp' /\ pos'[p] = 0
    BY <2>1, <2>2, <2>3, EmptySeq, StoreAssumption
  <2>5. Written(p)'
    <3>1. \A i \in 1 .. Len(data'[tmp']) : FALSE
      BY <2>4
    <3> QED BY <2>4, <3>1 DEF Written
  <2>6. Whole(mem[p])' /\ (dat' # None => Whole(data[dat])')
    BY <1>3, <2>1, <2>3 DEF Whole
  <2> QED BY <1>3, <2>1, <2>2, <2>5, <2>6 DEF FileInv
<1>8. CASE fwrite(p)
  <2> DEFINE n == pos[p] + 1
             s == data[tmp]
             b == mem[p][n]
             t == WriteAt(s, n, b)
  <2>1. /\ Busy(p) /\ pos[p] < Len(mem[p]) /\ pos' = [pos EXCEPT ![p] = n] /\ pos'[p] = n
        /\ data' = [data EXCEPT ![fd[p]] = WriteAt(data[fd[p]], n, mem[p][n])]
        /\ UNCHANGED <<dat, tmp, pc, mem, fd, lost>>
    BY <1>2, <1>8 DEF fwrite, Busy
  <2>2. tmp \in Inodes /\ fd[p] = tmp /\ dat # tmp /\ s \in Seq(Blocks) /\ Len(s) \in Nat
    BY <1>2, <1>3, <2>1, LenProperties DEF Written
  <2>3. pos[p] \in Nat /\ n \in Nat /\ n >= 1 /\ n <= Len(mem[p])
    BY <1>2, <2>1
  <2>4. Len(s) = pos[p] /\ \A i \in 1 .. Len(s) : s[i] = mem[p][i]
    BY <1>2, <1>3, <2>1, <2>3 DEF Written
  <2>5. b \in Blocks
    BY <1>2, <2>3, ElementOfSeq
  <2>6. data'[tmp] = t /\ (dat # None => data'[dat] = data[dat])
    BY <1>2, <2>1, <2>2
  <2>7. n = Len(s) + 1
    BY <2>4
  <2> HIDE DEF n, s, b
  <2>8. /\ Len(t) = n /\ \A i \in 1 .. Len(s) : t[i] = s[i]
        /\ t[n] = b
    BY <2>2, <2>3, <2>5, <2>7, AppendFacts
  <2> HIDE DEF t
  <2>9. \A i \in 1 .. Len(t) : t[i] = mem[p][i]
    BY <2>2, <2>3, <2>4, <2>7, <2>8 DEF b
  <2>10. Written(p)'
    BY <1>3, <2>1, <2>6, <2>8, <2>9 DEF Written
  <2>11. Whole(mem[p])' /\ (dat' # None => Whole(data[dat])')
    BY <1>3, <2>1, <2>6 DEF Whole
  <2> QED BY <1>3, <2>1, <2>10, <2>11 DEF FileInv
<1>9. CASE fwrite_fails(p)
  <2>1. /\ DiskMayFill /\ Busy(p) /\ pos[p] < Len(mem[p]) /\ pos'[p] = Len(mem[p]) /\ lost' = TRUE
        /\ UNCHANGED <<dat, tmp, data, pc, mem, fd>>
    BY <1>2, <1>9 DEF fwrite_fails, Busy
  <2>2. Len(data[tmp]) \in Nat /\ pos[p] \in Nat
    BY <1>2, <1>3, <2>1, LenProperties DEF Written
  <2>3. Written(p)'
    BY <1>2, <1>3, <2>1, <2>2 DEF Written
  <2>4. Whole(mem[p])' /\ (dat' # None => Whole(data[dat])')
    BY <1>3, <2>1 DEF Whole
  <2> QED BY <1>3, <2>1, <2>3, <2>4 DEF FileInv
<1>10. CASE rename(p)
  <2>1. /\ dat' = tmp /\ tmp' = None /\ tmp # None /\ UNCHANGED <<data, lost>>
        /\ Busy(p) /\ pos[p] = Len(mem[p]) /\ Return(p, TRUE)
    BY <1>10 DEF rename, Busy
  <2>2. Whole(data[dat'])
    BY <1>2, <2>1, WrittenOut
  <2> QED BY <2>1, <2>2, ReturnFile
<1>11. CASE rename_fails(p)
  <2>1. Busy(p) /\ UNCHANGED <<dat, tmp, data, mem, fd, pos, lost>>
    BY <1>11 DEF rename_fails, Busy
  <2>2. Written(p)'
    BY <1>3, <2>1 DEF Written
  <2>3. Whole(mem[p])' /\ (dat' # None => Whole(data[dat])')
    BY <1>3, <2>1 DEF Whole
  <2> QED BY <1>3, <2>1, <2>2, <2>3 DEF FileInv
<1>12. CASE fopen_fails(p) \/ unlink(p)
  <2>1. /\ UNCHANGED <<dat, data, lost>> /\ tmp' \in {tmp, None} /\ Return(p, FALSE)
    BY <1>12 DEF fopen_fails, unlink
  <2>2. dat' = None \/ dat' # tmp'
    BY <1>3, <2>1
  <2>3. dat' # None => Whole(data[dat'])
    BY <1>3, <2>1
  <2> QED BY <2>1, <2>2, <2>3, ReturnFile
<1> QED BY <1>5, <1>6, <1>7, <1>8, <1>9, <1>10, <1>11, <1>12
-----------------------------------------------------------------------------
LEMMA InitHolds == Init => IInv
<1> SUFFICES ASSUME Init PROVE IInv
  OBVIOUS
<1>1. Image(0) \in Seq(Blocks) /\ Len(Image(0)) >= 1 /\ OneVersion(Image(0)) /\ Complete(Image(0))
  BY ImageFacts, FreshIsVersion
<1>2. Len(Image(0)) \in Nat
  BY <1>1, LenProperties
<1>3. TypeOK
  <2>1. <<>> \in Seq(Blocks)
    OBVIOUS
  <2>2. dat \in Inodes \cup {None} /\ tmp \in Inodes \cup {None} /\ data \in [Inodes -> Seq(Blocks)]
    BY <2>1 DEF Init
  <2>3. /\ pc \in [Procs -> {"off", "idle", "open", "write", "unlink"}]
        /\ mem \in [Procs -> Seq(Blocks)] /\ fd \in [Procs -> Inodes \cup {None}] /\ pos \in [Procs -> Nat]
    BY <1>1 DEF Init
  <2>4. \A q \in Procs : pos[q] <= Len(mem[q]) /\ (fd[q] # None <=> pc[q] \in {"write", "unlink"})
    BY <1>1, <1>2 DEF Init
  <2>5. exiting \in [Procs -> BOOLEAN] /\ saved \in [Procs -> BOOLEAN] /\ lost \in BOOLEAN
    BY DEF Init
  <2>6. versions \in Versions
    BY FreshIsVersion DEF Init
  <2> QED BY <2>2, <2>3, <2>4, <2>5, <2>6 DEF TypeOK
<1>4. ProcInv
  BY DEF Init, ProcInv
<1>5. FileInv
  BY <1>1 DEF Init, FileInv, Whole, Busy
<1> QED BY <1>3, <1>4, <1>5 DEF IInv, PInv

(* A process has catalog.dat.tmp open exactly while it writes, and never   *)
(* writes past its image, however many processes share the directory.      *)
THEOREM TypeCorrect == Spec => []TypeOK
<1>1. Init => PInv
  BY InitHolds DEF IInv
<1>2. PInv => TypeOK
  BY DEF PInv
<1> QED BY <1>1, <1>2, ProcStep, PTL DEF Spec

(* With one process the file invariant holds throughout.                   *)
THEOREM InvariantHolds ==
    ASSUME NEW CONSTANT p, Procs = {p}
    PROVE  Spec => []IInv
<1>1. IInv /\ [Next]_vars => IInv'
  BY ProcStep, FileStep DEF IInv
<1> QED BY <1>1, InitHolds, PTL DEF Spec

(* catalog.dat is a complete image at every moment a process may die,      *)
(* unless the disk was full, and never combines two catalogs.              *)
THEOREM FileStaysComplete ==
    ASSUME NEW CONSTANT p, Procs = {p}
    PROVE  Spec => []FileIsComplete
<1>1. ASSUME IInv PROVE FileIsComplete
  <2>1. dat # None /\ ~lost => Complete(data[dat])
    BY <1>1 DEF IInv, FileInv, Whole
  <2>2. CASE dat = None
    <3>1. \A i \in DOMAIN Contents : FALSE
      BY <2>2 DEF Contents
    <3> QED BY <2>1, <3>1 DEF FileIsComplete
  <2>3. CASE dat # None
    <3>1. data[dat] \in Seq(Blocks) /\ OneVersion(data[dat]) /\ Contents = data[dat]
      BY <1>1, <2>3 DEF IInv, PInv, TypeOK, FileInv, Whole, Contents
    <3>2. DOMAIN Contents = 1 .. Len(data[dat])
      BY <3>1, LenProperties
    <3>3. PICK k \in Versions : \A i \in DOMAIN Contents : Contents[i] \in {k, Hole}
      BY <3>1, <3>2 DEF OneVersion
    <3> QED BY <2>1, <3>3 DEF FileIsComplete
  <2> QED BY <2>2, <2>3
<1> QED BY <1>1, InvariantHolds, PTL
-----------------------------------------------------------------------------
(* catalog_save seen from outside: module AtomicStore.                     *)

(* A file that was never there reads as a fresh catalog, and so does an    *)
(* empty one.                                                              *)
LEMMA EmptyLoads == Loaded(<<>>) = Image(0)
BY DEF Loaded

(* What the processes look like while one of them moves.                   *)
LEMMA PhaseStep ==
    ASSUME NEW p \in Procs, NEW w, pc \in [Procs -> {"off", "idle", "open", "write", "unlink"}],
           pc' = [pc EXCEPT ![p] = w]
    PROVE  [q \in Procs |-> Phase(q)]' =
               [[q \in Procs |-> Phase(q)] EXCEPT ![p] = IF w \in {"open", "write", "unlink"} THEN "saving" ELSE w]
BY DEF Phase

LEMMA AtomicInit == Init => Atomic!Init
<1> SUFFICES ASSUME Init PROVE Atomic!Init
  OBVIOUS
<1>1. Contents = <<>> /\ mem = [q \in Procs |-> Image(0)]
  BY DEF Init, Contents
<1>2. [q \in Procs |-> Phase(q)] = [q \in Procs |-> "off"]
  BY DEF Init, Phase
<1>3. exiting = [q \in Procs |-> FALSE] /\ saved = [q \in Procs |-> FALSE]
  BY DEF Init
<1> QED BY <1>1, <1>2, <1>3 DEF Atomic!Init

(* Every step of a process is a step of the atomic store or changes        *)
(* nothing that can be seen of it.                                         *)
LEMMA AtomicStep ==
    ASSUME NEW p, Procs = {p}, IInv, [Next]_vars
    PROVE  [Atomic!Next]_(Atomic!vars)
<1> DEFINE phase == [q \in Procs |-> Phase(q)]
<1>1. CASE UNCHANGED vars
  BY <1>1 DEF vars, Atomic!vars, Phase, Contents
<1> SUFFICES ASSUME \/ catalog_load(p) \/ Change(p) \/ Shutdown(p) \/ Crash(p)
                    \/ fopen(p) \/ fopen_fails(p) \/ fwrite(p) \/ fwrite_fails(p)
                    \/ rename(p) \/ rename_fails(p) \/ unlink(p)
             PROVE  [Atomic!Next]_(Atomic!vars)
  BY <1>1 DEF Next, catalog_save
<1>2. /\ p \in Procs
      /\ pc \in [Procs -> {"off", "idle", "open", "write", "unlink"}]
      /\ mem \in [Procs -> Seq(Blocks)] /\ exiting \in [Procs -> BOOLEAN] /\ saved \in [Procs -> BOOLEAN]
      /\ data \in [Inodes -> Seq(Blocks)] /\ tmp \in Inodes \cup {None} /\ dat \in Inodes \cup {None}
      /\ dat = None \/ dat # tmp
      /\ Busy(p) => Written(p)
      /\ pc[p] = "idle" => ~exiting[p]
  BY DEF IInv, PInv, TypeOK, ProcInv, FileInv, Busy
<1>3. phase[p] = Phase(p)
  BY <1>2
<1>4. CASE catalog_load(p)
  <2>1. /\ pc[p] = "off" /\ pc' = [pc EXCEPT ![p] = "idle"]
        /\ mem' = [mem EXCEPT ![p] = IF dat = None THEN Image(0) ELSE Loaded(data[dat])]
        /\ UNCHANGED <<dat, data, exiting, saved>>
    BY <1>4 DEF catalog_load
  <2>2. phase[p] = "off" /\ phase' = [phase EXCEPT ![p] = "idle"] /\ Contents' = Contents
    BY <1>2, <1>3, <2>1, PhaseStep DEF Phase, Contents
  <2>3. mem' = [mem EXCEPT ![p] = IF Contents = <<>> THEN Image(0) ELSE Loaded(Contents)]
    BY <2>1, EmptyLoads DEF Contents
  <2>4. Atomic!Load(p)
    BY <2>1, <2>2, <2>3 DEF Atomic!Load
  <2> QED BY <1>2, <2>4 DEF Atomic!Next
<1>5. CASE Change(p)
  <2>1. /\ pc[p] = "idle" /\ pc' = [pc EXCEPT ![p] = "open"] /\ versions' \in Versions
        /\ mem' = [mem EXCEPT ![p] = Image(versions')] /\ saved' = [saved EXCEPT ![p] = FALSE]
        /\ UNCHANGED <<dat, data, exiting>>
    BY <1>5, StoreAssumption DEF Change, Versions, IInv, PInv, TypeOK
  <2>2. phase[p] = "idle" /\ phase' = [phase EXCEPT ![p] = "saving"] /\ Contents' = Contents
    BY <1>2, <1>3, <2>1, PhaseStep DEF Phase, Contents
  <2>3. exiting' = [exiting EXCEPT ![p] = FALSE]
    BY <1>2, <2>1
  <2>4. Atomic!Begin(p, Image(versions'), FALSE)
    BY <2>1, <2>2, <2>3 DEF Atomic!Begin
  <2>5. Image(versions') \in {Image(k) : k \in Versions} \cup {mem[p]}
    BY <2>1
  <2> QED BY <1>2, <2>4, <2>5 DEF Atomic!Next
<1>6. CASE Shutdown(p)
  <2>1. /\ pc[p] = "idle" /\ pc' = [pc EXCEPT ![p] = "open"]
        /\ exiting' = [exiting EXCEPT ![p] = TRUE] /\ saved' = [saved EXCEPT ![p] = FALSE]
        /\ UNCHANGED <<dat, data, mem>>
    BY <1>6 DEF Shutdown
  <2>2. phase[p] = "idle" /\ phase' = [phase EXCEPT ![p] = "saving"] /\ Contents' = Contents
    BY <1>2, <1>3, <2>1, PhaseStep DEF Phase, Contents
  <2>3. mem' = [mem EXCEPT ![p] = mem[p]]
    BY <1>2, <2>1
  <2>4. Atomic!Begin(p, mem[p], TRUE)
    BY <2>1, <2>2, <2>3 DEF Atomic!Begin
  <2> QED BY <1>2, <2>4 DEF Atomic!Next
<1>7. CASE Crash(p)
  <2>1. /\ pc[p] # "off" /\ pc' = [pc EXCEPT ![p] = "off"] /\ mem' = [mem EXCEPT ![p] = Image(0)]
        /\ exiting' = [exiting EXCEPT ![p] = FALSE] /\ saved' = [saved EXCEPT ![p] = FALSE]
        /\ UNCHANGED <<dat, data>>
    BY <1>7 DEF Crash
  <2>2. phase[p] # "off" /\ phase' = [phase EXCEPT ![p] = "off"] /\ Contents' = Contents
    BY <1>2, <1>3, <2>1, PhaseStep DEF Phase, Contents
  <2>3. Atomic!Crash(p)
    BY <2>1, <2>2 DEF Atomic!Crash
  <2> QED BY <1>2, <2>3 DEF Atomic!Next
<1>8. ASSUME pc[p] \in {"open", "write", "unlink"}, NEW ok \in BOOLEAN, Return(p, ok),
             IF ok THEN Contents' \in Stored(mem[p]) ELSE Contents' = Contents
      PROVE  [Atomic!Next]_(Atomic!vars)
  <2>1. /\ pc' = [pc EXCEPT ![p] = IF exiting[p] THEN "off" ELSE "idle"]
        /\ exiting' = [exiting EXCEPT ![p] = FALSE] /\ saved' = [saved EXCEPT ![p] = ok]
        /\ mem' = [mem EXCEPT ![p] = IF exiting[p] THEN Image(0) ELSE mem[p]]
    BY <1>8 DEF Return
  <2>2. phase[p] = "saving" /\ phase' = [phase EXCEPT ![p] = IF exiting[p] THEN "off" ELSE "idle"]
    BY <1>2, <1>3, <1>8, <2>1, PhaseStep DEF Phase
  <2>3. Atomic!End(p, ok)
    BY <1>8, <2>1, <2>2 DEF Atomic!End
  <2> QED BY <1>2, <1>8, <2>3 DEF Atomic!Next
<1>9. CASE fopen_fails(p) \/ unlink(p)
  <2>1. /\ pc[p] \in {"open", "write", "unlink"} /\ Return(p, FALSE) /\ Contents' = Contents
    BY <1>9 DEF fopen_fails, unlink, Contents
  <2> QED BY <1>8, <2>1
<1>10. CASE rename(p)
  <2>1. /\ pc[p] = "write" /\ Busy(p) /\ pos[p] = Len(mem[p]) /\ Return(p, TRUE)
        /\ tmp # None /\ dat' = tmp /\ data' = data
    BY <1>10 DEF rename, Busy
  <2>2. Contents' = data[tmp]
    BY <2>1 DEF Contents
  <2>3. Contents' \in Stored(mem[p])
    BY <1>2, <2>1, <2>2, WrittenOut
  <2> QED BY <1>8, <2>1, <2>3
<1>11. ASSUME pc[p] \in {"open", "write", "unlink"}, NEW w \in {"open", "write", "unlink"},
              pc' = [pc EXCEPT ![p] = w], Contents' = Contents, UNCHANGED <<mem, exiting, saved>>
       PROVE  [Atomic!Next]_(Atomic!vars)
  <2>1. phase' = phase
    BY <1>2, <1>11 DEF Phase
  <2> QED BY <1>11, <2>1 DEF Atomic!vars
<1>12. CASE fopen(p)
  <2>1. /\ pc[p] = "open" /\ pc' = [pc EXCEPT ![p] = "write"] /\ UNCHANGED <<dat, mem, exiting, saved>>
        /\ tmp' = IF tmp = None THEN CHOOSE i \in Free : TRUE ELSE tmp
        /\ data' = [data EXCEPT ![tmp'] = <<>>]
    BY <1>12 DEF fopen
  <2>2. tmp' # dat
    <3>1. CASE tmp = None
      <4>1. PICK i \in Inodes : i \in Free
        BY <1>2, <2>1, <3>1, FreeExists DEF IInv, PInv, TypeOK
      <4>2. tmp' \in Free
        BY <2>1, <3>1, <4>1
      <4> QED BY <4>2 DEF Free
    <3>2. CASE tmp # None
      BY <1>2, <2>1, <3>2
    <3> QED BY <3>1, <3>2
  <2>3. Contents' = Contents
    BY <1>2, <2>1, <2>2 DEF Contents
  <2> QED BY <1>11, <2>1, <2>3
<1>13. CASE fwrite(p)
  <2>1. /\ pc[p] = "write" /\ Busy(p) /\ UNCHANGED <<dat, pc, mem, exiting, saved>>
        /\ data' = [data EXCEPT ![fd[p]] = WriteAt(data[fd[p]], pos'[p], mem[p][pos'[p]])]
    BY <1>13 DEF fwrite, Busy
  <2>2. Contents' = Contents /\ pc' = [pc EXCEPT ![p] = "write"]
    BY <1>2, <2>1 DEF Contents, Written
  <2> QED BY <1>11, <2>1, <2>2
<1>14. CASE fwrite_fails(p) \/ rename_fails(p)
  <2>1. /\ pc[p] = "write" /\ UNCHANGED <<dat, data, mem, exiting, saved>>
        /\ pc' = [pc EXCEPT ![p] = "write"] \/ pc' = [pc EXCEPT ![p] = "unlink"]
    BY <1>2, <1>14 DEF fwrite_fails, rename_fails
  <2>2. Contents' = Contents
    BY <2>1 DEF Contents
  <2> QED BY <1>11, <2>1, <2>2
<1> QED BY <1>4, <1>5, <1>6, <1>7, <1>9, <1>10, <1>12, <1>13, <1>14

(* With one process catalog_save is an atomic replacement: every behaviour *)
(* starts and steps as AtomicStore allows.  What is left of SaveIsAtomic,  *)
(* that a save returns, is a fairness property.                            *)
THEOREM ReplacesAtomically ==
    ASSUME NEW CONSTANT p, Procs = {p}
    PROVE  Spec => Atomic!Init /\ [][Atomic!Next]_(Atomic!vars)
<1>1. IInv /\ [Next]_vars => [Atomic!Next]_(Atomic!vars)
  BY AtomicStep
<1> QED BY <1>1, AtomicInit, InvariantHolds, PTL DEF Spec
=============================================================================
