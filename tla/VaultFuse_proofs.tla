-------------------------- MODULE VaultFuse_proofs --------------------------
(***************************************************************************)
(* Proofs about VaultFuse, for every set of names and any number of writes *)
(* and password changes.                                                   *)
(***************************************************************************)
EXTENDS VaultFuse, TLAPS, FiniteSetTheorems

Ops == {"open", "truncate", "read", "write", "mkdir", "unlink", "rmdir", "rename", "create"}
Request == [op : Ops, name : Names, to : Names]

(* The flags of now would still let the request under way begin.           *)
Allowed ==
    /\ request.op \in {"write", "truncate"} => ~worm_check("WRITE")
    /\ request.op \in {"mkdir", "create"} => SCAN \notin flags
    /\ request.op \in {"unlink", "rmdir"} => ~worm_check("DELETE")
    /\ request.op = "rename" =>
           /\ ~worm_check("RENAME")
           /\ worm_check("DELETE") \/ worm_check("WRITE") => node[request.to] = Absent

(* Names a request may still change although the flags now forbid it.      *)
Exempt == IF Allowed THEN {} ELSE Touched

(* What the checks of a handler established stays true while its request   *)
(* is under way: no other request comes between.                           *)
RequestInv ==
    /\ request = NoRequest \/ request \in Request
    /\ request.op \in {"open", "truncate", "unlink"} => IsFile(request.name)
    /\ request.op = "read" => IsFile(request.name)
    /\ request.op = "write" => request.name \in handles /\ stamp < MaxData
    /\ request.op \in {"mkdir", "create"} => node[request.name] = Absent
    /\ request.op = "rename" => request.name # request.to /\ node[request.name] # Absent

(* A name that the history holds is exempt from no flag.                   *)
HeldInv == DOMAIN held \cap Exempt = {}

Was == {n \in DOMAIN held : held[n] # Absent}
There == {n \in Names : node[n] # Absent}

(* Retention, with what is still to happen to the exempt names discounted. *)
ContentInv ==
    worm_check("WRITE") /\ worm_check("DELETE") =>
        \A n \in DOMAIN held : held[n] \notin {Absent, Dir} =>
            \E m \in Names \ Exempt : node[m] = held[n]
CountInv ==
    worm_check("DELETE") => Cardinality(There \ Exempt) >= Cardinality(Was)
NameInv ==
    worm_check("DELETE") /\ worm_check("RENAME") => Was \subseteq There

(* Every file is stored under the stream its next read applies.            *)
StreamInv ==
    \A n \in Names \ disturbed : IsFile(n) => node[n].data = 0 \/ node[n].key = <<salt, n>>

(* An answer is about the vault as it still is.                            *)
AnswerInv == answer # NoAnswer => request = NoRequest /\ ReadsBack

(* The inductive invariant.                                                *)
IInv ==
    /\ TypeOK /\ RequestInv /\ HeldInv
    /\ ContentInv /\ CountInv /\ NameInv
    /\ ScanFreezes /\ StreamInv /\ AnswerInv
-----------------------------------------------------------------------------
(* No operation under way, nothing exempt.                                 *)
LEMMA NoneApart == NoRequest.op = "none" /\ NoRequest \notin Request
BY DEF NoRequest, Request, Ops

(* Sets of names are finite.                                               *)
LEMMA NamesFinite ==
    ASSUME NEW S, NEW T, T \subseteq Names, S \subseteq T
    PROVE  /\ Cardinality(S) \in Nat /\ Cardinality(T) \in Nat
           /\ Cardinality(S) =< Cardinality(T)
           /\ IsFiniteSet(S) /\ IsFiniteSet(T)
<1>1. IsFiniteSet(T)
  BY FS_Subset, FuseAssumption
<1>2. IsFiniteSet(S) /\ Cardinality(S) =< Cardinality(T)
  BY <1>1, FS_Subset
<1> QED BY <1>1, <1>2, FS_CardinalityType

(* What an empty file is stored as.                                        *)
LEMMA EmptyIsFile == Empty \in File /\ Empty \notin {Absent, Dir} /\ Empty.data = 0
<1>1. 0 \in 0 .. MaxData /\ Plain \in Keys
  BY FuseAssumption DEF Keys
<1>2. Empty \in File /\ Empty.data = 0
  BY <1>1 DEF Empty, File
<1> QED BY <1>2, FuseAssumption

(* A request begins: its checks passed under the flags of now, so that no  *)
(* name is exempt.                                                         *)
LEMMA BeginHolds ==
    ASSUME IInv, NEW op \in Ops, NEW n \in Names, NEW m \in Names, Begin(op, n, m),
           RequestInv', Allowed'
    PROVE  IInv'
<1>1. /\ request = NoRequest /\ request' = [op |-> op, name |-> n, to |-> m]
      /\ answer' = NoAnswer
      /\ UNCHANGED <<node, handles, flags, salt, stamp, held, disturbed>>
  BY DEF Begin, store
<1>2. Exempt = {} /\ Exempt' = {}
  BY <1>1 DEF Exempt, Touched
<1>3. TypeOK'
  BY <1>1 DEF IInv, TypeOK, IsFile
<1>4. HeldInv' /\ ContentInv' /\ CountInv' /\ NameInv'
  BY <1>1, <1>2 DEF IInv, HeldInv, ContentInv, CountInv, NameInv, Was, There, worm_check
<1>5. ScanFreezes' /\ StreamInv' /\ AnswerInv'
  BY <1>1 DEF IInv, ScanFreezes, StreamInv, IsFile, AnswerInv
<1> QED BY <1>3, <1>4, <1>5 DEF IInv

(* A request ends.  What the flags of now forbid it may still do to exempt *)
(* names only; what they allow takes nothing away that they protect.       *)
LEMMA EffectHolds ==
    ASSUME IInv, request' = NoRequest, UNCHANGED <<flags, held>>,
           TypeOK', StreamInv', AnswerInv',
           \A n \in Names \ Touched : node'[n] = node[n],
           Allowed /\ worm_check("DELETE") => Cardinality(There') >= Cardinality(There),
           Allowed /\ worm_check("WRITE") /\ worm_check("DELETE") =>
               \A n \in Names : IsFile(n) => \E m \in Names : node'[m] = node[n],
           Allowed /\ worm_check("DELETE") /\ worm_check("RENAME") => There \subseteq There',
           Allowed /\ SCAN \in flags => \A n \in Names : node'[n] = node[n]
    PROVE  IInv'
<1>1. Exempt' = {} /\ RequestInv' /\ HeldInv'
  BY NoneApart DEF Exempt, Touched, RequestInv, HeldInv
<1>2. /\ worm_check("WRITE")' = worm_check("WRITE") /\ worm_check("DELETE")' = worm_check("DELETE")
      /\ worm_check("RENAME")' = worm_check("RENAME") /\ Was' = Was
      /\ DOMAIN held \subseteq Names /\ Was \subseteq Names
  BY DEF worm_check, Was, IInv, TypeOK
<1>3. CASE Allowed
  <2>1. Exempt = {}
    BY <1>3 DEF Exempt
  <2>2. ContentInv'
    BY <1>1, <1>2, <1>3, <2>1 DEF IInv, ContentInv, IsFile
  <2>3. CountInv'
    <3>1. /\ Cardinality(There) \in Nat /\ Cardinality(There') \in Nat
          /\ Cardinality(Was) \in Nat
      BY <1>2, NamesFinite DEF There
    <3>2. There \ Exempt = There /\ (There \ Exempt)' = There'
      BY <1>1, <2>1
    <3> QED BY <1>1, <1>2, <1>3, <3>1, <3>2 DEF IInv, CountInv
  <2>4. NameInv' /\ ScanFreezes'
    BY <1>2, <1>3 DEF IInv, NameInv, ScanFreezes, TypeOK
  <2> QED BY <1>1, <2>2, <2>3, <2>4 DEF IInv
<1>4. CASE ~Allowed
  <2>1. Exempt = Touched
    BY <1>4 DEF Exempt
  <2>2. ContentInv'
    BY <1>1, <1>2, <2>1 DEF IInv, ContentInv
  <2>3. There \ Exempt \subseteq There'
    BY <2>1 DEF There
  <2>4. CountInv'
    <3>1. /\ Cardinality(There \ Exempt) \in Nat /\ Cardinality(There') \in Nat
          /\ Cardinality(There \ Exempt) =< Cardinality(There')
          /\ Cardinality(Was) \in Nat
      BY <1>2, <2>3, NamesFinite DEF There
    <3>2. (There \ Exempt)' = There'
      BY <1>1
    <3> QED BY <1>2, <3>1, <3>2 DEF IInv, CountInv
  <2>5. Was \cap Exempt = {}
    BY DEF IInv, HeldInv, Was
  <2>6. NameInv'
    BY <1>2, <2>3, <2>5 DEF IInv, NameInv
  <2>7. ScanFreezes'
    BY <1>2, <2>1 DEF IInv, ScanFreezes, HeldInv
  <2> QED BY <1>1, <2>2, <2>4, <2>6, <2>7 DEF IInv
<1> QED BY <1>3, <1>4

(* The flags change: from now on the history holds every name no request   *)
(* is about to touch.                                                      *)
LEMMA HoldHolds ==
    ASSUME IInv, Hold, flags' \subseteq Protections \cup {SCAN},
           UNCHANGED <<node, handles, salt, stamp, request, disturbed, answer>>
    PROVE  IInv'
<1>1. /\ DOMAIN held' = Names \ Touched /\ \A n \in Names \ Touched : held'[n] = node[n]
      /\ Touched' = Touched /\ There' = There
  BY DEF Hold, Touched, There
<1>2. Exempt' \subseteq Touched
  BY <1>1 DEF Exempt
<1>3. TypeOK' /\ RequestInv' /\ StreamInv' /\ AnswerInv'
  BY <1>1 DEF IInv, TypeOK, RequestInv, StreamInv, IsFile, AnswerInv, ReadsBack
<1>4. HeldInv' /\ ScanFreezes' /\ ContentInv'
  BY <1>1, <1>2 DEF HeldInv, ScanFreezes, ContentInv
<1>5. Was' = There \ Touched
  BY <1>1 DEF Was, There
<1>6. NameInv'
  BY <1>1, <1>5 DEF NameInv
<1>7. CountInv'
  <2>1. Was' \subseteq (There \ Exempt)' /\ (There \ Exempt)' \subseteq Names
    BY <1>1, <1>2, <1>5 DEF There
  <2>2. /\ Cardinality(Was') \in Nat /\ Cardinality((There \ Exempt)') \in Nat
        /\ Cardinality(Was') =< Cardinality((There \ Exempt)')
    BY <2>1, NamesFinite
  <2> QED BY <2>2 DEF CountInv
<1> QED BY <1>3, <1>4, <1>6, <1>7 DEF IInv
(* Every handler's checks keep the invariant.                              *)
LEMMA HandlersHold == IInv /\ Handlers => IInv'
<1> SUFFICES ASSUME IInv, NEW n \in Names, NEW m \in Names,
                    \/ vfuse_open(n) \/ vfuse_read(n) \/ vfuse_write(n)
                    \/ vfuse_mkdir(n) \/ vfuse_unlink(n) \/ vfuse_rmdir(n) \/ vfuse_create(n)
                    \/ vfuse_rename(n, m)
             PROVE  IInv'
  BY DEF Handlers
<1>0. \A k \in handles : IsFile(k)
  BY DEF IInv, TypeOK
<1> USE DEF RequestInv, Allowed, worm_check, IsFile, Ops, Request
<1>1. CASE vfuse_open(n)
  <2>1. PICK op \in {"open", "truncate"} : Begin(op, n, n)
    BY <1>1 DEF vfuse_open
  <2>2. op \in Ops /\ RequestInv' /\ Allowed'
    BY <1>0, <1>1, <2>1 DEF vfuse_open, Begin, store
  <2> QED BY <2>1, <2>2, BeginHolds
<1>2. CASE vfuse_read(n)
  <2>1. Begin("read", n, n) /\ RequestInv' /\ Allowed'
    BY <1>0, <1>2 DEF vfuse_read, Begin, store
  <2> QED BY <2>1, BeginHolds
<1>3. CASE vfuse_write(n)
  <2>1. Begin("write", n, n) /\ RequestInv' /\ Allowed'
    BY <1>0, <1>3 DEF vfuse_write, Begin, store
  <2> QED BY <2>1, BeginHolds
<1>4. CASE vfuse_mkdir(n)
  <2>1. Begin("mkdir", n, n) /\ RequestInv' /\ Allowed'
    BY <1>0, <1>4 DEF vfuse_mkdir, Begin, store
  <2> QED BY <2>1, BeginHolds
<1>5. CASE vfuse_unlink(n)
  <2>1. Begin("unlink", n, n) /\ RequestInv' /\ Allowed'
    BY <1>0, <1>5 DEF vfuse_unlink, Begin, store
  <2> QED BY <2>1, BeginHolds
<1>6. CASE vfuse_rmdir(n)
  <2>1. Begin("rmdir", n, n) /\ RequestInv' /\ Allowed'
    BY <1>0, <1>6 DEF vfuse_rmdir, Begin, store
  <2> QED BY <2>1, BeginHolds
<1>7. CASE vfuse_create(n)
  <2>1. Begin("create", n, n) /\ RequestInv' /\ Allowed'
    BY <1>0, <1>7 DEF vfuse_create, Begin, store
  <2> QED BY <2>1, BeginHolds
<1>8. CASE vfuse_rename(n, m)
  <2>1. Begin("rename", n, m) /\ RequestInv' /\ Allowed'
    BY <1>8 DEF vfuse_rename, Begin, store
  <2> QED BY <2>1, BeginHolds
<1> QED BY <1>1, <1>2, <1>3, <1>4, <1>5, <1>6, <1>7, <1>8

(* Every effect of a request keeps the invariant.                          *)
LEMMA EffectsHold == IInv /\ Effects => IInv'
<1> SUFFICES ASSUME IInv, Effects PROVE IInv'
  OBVIOUS
<1> DEFINE n == request.name
           m == request.to
<1>0. request # NoRequest =>
          /\ request \in Request /\ n \in Names /\ m \in Names /\ Touched = {n, m}
  BY DEF IInv, RequestInv, Request, Touched
<1>1. request.op # "none" => request # NoRequest
  BY NoneApart
<1>2. node \in [Names -> File \cup {Absent, Dir}] /\ \A k \in handles : k \in Names /\ IsFile(k)
  BY DEF IInv, TypeOK
<1>a. request # NoRequest => answer = NoAnswer
  BY DEF IInv, AnswerInv
<1>3. CASE open_done \/ request_fails
  <2>1. /\ request # NoRequest /\ request' = NoRequest
        /\ handles' = handles \/ (request.op = "open" /\ handles' = handles \cup {n})
        /\ UNCHANGED <<node, flags, salt, stamp, held, disturbed, answer>>
    BY <1>1, <1>3 DEF open_done, request_fails, Finish, store
  <2>2. n \in Names /\ (request.op = "open" => IsFile(n)) /\ AnswerInv'
    BY <1>0, <1>a, <2>1 DEF IInv, RequestInv, AnswerInv
  <2>3. TypeOK'
    BY <2>1, <2>2 DEF IInv, TypeOK, IsFile
  <2>4. StreamInv' /\ There' = There
    BY <2>1 DEF IInv, StreamInv, IsFile, There
  <2>5. Cardinality(There') >= Cardinality(There)
    BY <2>4, NamesFinite DEF There
  <2> QED BY <2>1, <2>2, <2>3, <2>4, <2>5, EffectHolds
<1>b. ASSUME NEW data, NEW deciphered \in BOOLEAN, Answered(data, deciphered),
             data \in {Decrypted(n), Raw(n)}, deciphered => data = Decrypted(n)
      PROVE  IInv'
  <2>1. /\ request.op = "read" /\ request' = NoRequest
        /\ answer' = [name |-> n, data |-> data, deciphered |-> deciphered]
        /\ UNCHANGED <<node, handles, stamp, flags, salt, held, disturbed>>
    BY <1>b DEF Answered, Finish, store
  <2>2. n \in Names /\ IsFile(n)
    BY <1>0, <1>1, <2>1 DEF IInv, RequestInv
  <2>3. data \in 0 .. MaxData \cup {Garbled}
    <3>1. node[n] \in File
      BY <1>2, <2>2 DEF IsFile
    <3> QED BY <1>b, <3>1 DEF Decrypted, Raw, Under, File
  <2>4. TypeOK'
    BY <2>1, <2>2, <2>3 DEF IInv, TypeOK, IsFile
  <2>5. n \notin disturbed => Decrypted(n) = node[n].data
    BY <2>2 DEF IInv, StreamInv, Decrypted, Under
  <2>6. AnswerInv'
    BY <1>b, <2>1, <2>5 DEF AnswerInv, ReadsBack
  <2>7. StreamInv' /\ There' = There
    BY <2>1 DEF IInv, StreamInv, IsFile, There
  <2>8. Cardinality(There') >= Cardinality(There)
    BY <2>7, NamesFinite DEF There
  <2> QED BY <2>1, <2>4, <2>6, <2>7, <2>8, EffectHolds
<1>c. CASE read_done
  <2>1. Answered(Decrypted(n), TRUE)
    BY <1>c DEF read_done
  <2> HIDE DEF n
  <2> QED BY <1>b, <2>1
<1>d. CASE read_raw
  <2>1. Answered(Raw(n), FALSE)
    BY <1>d DEF read_raw
  <2> HIDE DEF n
  <2> QED BY <1>b, <2>1
<1>4. ASSUME NEW key \in Keys, Written(key), key = <<salt, n>> \/ n \in disturbed',
             disturbed' \subseteq Names, disturbed \subseteq disturbed'
      PROVE  IInv'
  <2> DEFINE file == [data |-> stamp + 1, key |-> key]
  <2>1. /\ request.op = "write" /\ request' = NoRequest /\ stamp' = stamp + 1
        /\ node' = [node EXCEPT ![n] = file] /\ UNCHANGED <<handles, flags, salt, held, answer>>
    BY <1>4 DEF Written, Finish
  <2>2. /\ n \in Names /\ n \in Touched /\ n \in handles /\ IsFile(n)
        /\ stamp \in Nat /\ stamp < MaxData /\ stamp + 1 \in 0 .. MaxData
    BY <1>0, <1>1, <1>2, <2>1, FuseAssumption DEF IInv, RequestInv, TypeOK
  <2>3. file \in File /\ file \notin {Absent, Dir} /\ file.key = key
    BY <2>2, FuseAssumption DEF File
  <2> HIDE DEF file
  <2>4. TypeOK'
    <3>1. node' \in [Names -> File \cup {Absent, Dir}]
      BY <1>2, <2>1, <2>3
    <3>2. \A k \in handles : k \in Names /\ node'[k] \notin {Absent, Dir}
      BY <1>2, <2>1, <2>3 DEF IsFile
    <3> QED BY <1>4, <2>1, <2>2, <3>1, <3>2 DEF IInv, TypeOK, IsFile
  <2>5. StreamInv'
    BY <1>2, <1>4, <2>1, <2>2, <2>3 DEF IInv, StreamInv, IsFile
  <2>a. AnswerInv'
    BY <1>1, <1>a, <2>1 DEF AnswerInv
  <2>6. There' = There
    BY <1>2, <2>1, <2>2, <2>3 DEF There, IsFile
  <2>7. Cardinality(There') >= Cardinality(There)
    BY <2>6, NamesFinite DEF There
  <2>8. ~(Allowed /\ worm_check("WRITE")) /\ ~(Allowed /\ SCAN \in flags)
    BY <2>1 DEF Allowed, worm_check
  <2>9. \A k \in Names \ Touched : node'[k] = node[k]
    BY <1>2, <2>1, <2>2
  <2> QED BY <2>1, <2>4, <2>5, <2>6, <2>7, <2>8, <2>9, <2>a, EffectHolds
<1>5. CASE write_done
  <2>1. Written(<<salt, n>>) /\ disturbed' = disturbed /\ request.op = "write"
    BY <1>5 DEF write_done, Written, Finish
  <2>2. n \in Names /\ <<salt, n>> \in Keys
    BY <1>0, <1>1, <2>1 DEF IInv, TypeOK, Keys
  <2> QED BY <1>4, <2>1, <2>2 DEF IInv, TypeOK
<1>6. CASE write_plain
  <2>1. Written(Plain) /\ disturbed' = disturbed \cup {n} /\ request.op = "write"
    BY <1>6 DEF write_plain, Written, Finish
  <2>2. n \in Names /\ Plain \in Keys
    BY <1>0, <1>1, <2>1 DEF Keys
  <2> QED BY <1>4, <2>1, <2>2 DEF IInv, TypeOK
<1>e. CASE open_truncates
  <2>1. /\ request.op = "truncate" /\ request' = NoRequest
        /\ node' = [node EXCEPT ![n] = Empty] /\ handles' = handles \cup {n}
        /\ disturbed' = disturbed \ {n}
        /\ UNCHANGED <<stamp, flags, salt, held, answer>>
    BY <1>e DEF open_truncates, Finish
  <2>2. n \in Names /\ n \in Touched /\ IsFile(n) /\ AnswerInv'
    BY <1>0, <1>1, <1>a, <2>1 DEF IInv, RequestInv, AnswerInv
  <2>3. Empty \in File /\ Empty \notin {Absent, Dir} /\ Empty.data = 0
    BY EmptyIsFile
  <2>4. /\ node' \in [Names -> File \cup {Absent, Dir}]
        /\ \A k \in Names : k # n => node'[k] = node[k]
        /\ node'[n] = Empty
    BY <1>2, <2>1, <2>2, <2>3
  <2>5. handles' \subseteq {k \in Names : node'[k] \notin {Absent, Dir}}
    BY <1>2, <2>1, <2>2, <2>3, <2>4 DEF IsFile
  <2>6. TypeOK'
    BY <2>1, <2>2, <2>4, <2>5 DEF IInv, TypeOK, IsFile
  <2>7. StreamInv'
    BY <2>1, <2>3, <2>4 DEF IInv, StreamInv, IsFile
  <2>8. There' = There
    BY <2>2, <2>3, <2>4 DEF There, IsFile
  <2>9. Cardinality(There') >= Cardinality(There)
    BY <2>8, NamesFinite DEF There
  <2>10. ~(Allowed /\ worm_check("WRITE")) /\ ~(Allowed /\ SCAN \in flags)
    BY <2>1 DEF Allowed, worm_check
  <2> QED BY <2>1, <2>2, <2>4, <2>6, <2>7, <2>8, <2>9, <2>10, EffectHolds
<1>7. CASE mkdir_done \/ create_done
  <2>1. /\ request.op \in {"mkdir", "create"} /\ request' = NoRequest
        /\ disturbed' \in {disturbed, disturbed \ {n}}
        /\ UNCHANGED <<flags, salt, stamp, held, answer>>
        /\ \/ node' = [node EXCEPT ![n] = Dir] /\ handles' = handles
           \/ node' = [node EXCEPT ![n] = Empty] /\ handles' = handles \cup {n}
    BY <1>7 DEF mkdir_done, create_done, Finish
  <2>2. n \in Names /\ n \in Touched /\ node[n] = Absent /\ n \notin handles /\ AnswerInv'
    BY <1>0, <1>1, <1>2, <1>a, <2>1 DEF IInv, RequestInv, IsFile, AnswerInv
  <2>3. Empty \in File /\ Empty \notin {Absent, Dir} /\ Empty.data = 0
    BY EmptyIsFile
  <2>4. /\ node' \in [Names -> File \cup {Absent, Dir}]
        /\ \A k \in Names : k # n => node'[k] = node[k]
        /\ node'[n] = Dir \/ node'[n] = Empty
    BY <1>2, <2>1, <2>2, <2>3
  <2>5. handles' \subseteq {k \in Names : node'[k] \notin {Absent, Dir}}
    BY <1>2, <2>1, <2>2, <2>3 DEF IsFile
  <2>6. TypeOK'
    BY <2>1, <2>4, <2>5 DEF IInv, TypeOK, IsFile
  <2>7. StreamInv'
    BY <2>1, <2>2, <2>3, <2>4 DEF IInv, StreamInv, IsFile
  <2>8. There \subseteq There'
    BY <2>2, <2>4 DEF There
  <2>9. Cardinality(There') >= Cardinality(There)
    <3>1. There' \subseteq Names
      BY DEF There
    <3> QED BY <2>8, <3>1, NamesFinite
  <2>10. ~(Allowed /\ SCAN \in flags)
    BY <2>1 DEF Allowed
  <2>11. \A k \in Names : IsFile(k) => \E l \in Names : node'[l] = node[k]
    BY <2>2, <2>4 DEF IsFile
  <2> QED BY <2>1, <2>2, <2>4, <2>6, <2>7, <2>8, <2>9, <2>10, <2>11, EffectHolds
<1>8. CASE remove_done
  <2>1. /\ request.op \in {"unlink", "rmdir"} /\ request' = NoRequest
        /\ node' = [node EXCEPT ![n] = Absent] /\ handles' = handles \ {n}
        /\ UNCHANGED <<flags, salt, stamp, held, disturbed, answer>>
    BY <1>8 DEF remove_done, Finish
  <2>2. n \in Names /\ n \in Touched /\ AnswerInv'
    BY <1>0, <1>1, <1>a, <2>1 DEF AnswerInv
  <2>3. /\ node' \in [Names -> File \cup {Absent, Dir}]
        /\ \A k \in Names : k # n => node'[k] = node[k]
        /\ node'[n] = Absent
    BY <1>2, <2>1, <2>2
  <2>4. handles' \subseteq {k \in Names : node'[k] \notin {Absent, Dir}}
    BY <1>2, <2>1, <2>3 DEF IsFile
  <2>5. TypeOK'
    BY <2>1, <2>3, <2>4 DEF IInv, TypeOK, IsFile
  <2>6. StreamInv'
    BY <2>1, <2>3 DEF IInv, StreamInv, IsFile
  <2>7. ~(Allowed /\ worm_check("DELETE")) /\ ~(Allowed /\ SCAN \in flags)
    BY <2>1 DEF Allowed, worm_check
  <2> QED BY <2>1, <2>2, <2>3, <2>5, <2>6, <2>7, EffectHolds
<1>9. CASE rename_done
  <2>1. /\ request.op = "rename" /\ request' = NoRequest
        /\ node' = [node EXCEPT ![m] = node[n], ![n] = Absent]
        /\ handles' = (handles \ {n, m}) \cup (IF n \in handles THEN {m} ELSE {})
        /\ disturbed' = disturbed \cup {m} /\ UNCHANGED <<flags, salt, stamp, held, answer>>
    BY <1>9 DEF rename_done, Renamed, Finish
  <2>2. n \in Names /\ m \in Names /\ n # m /\ Touched = {n, m} /\ node[n] # Absent /\ AnswerInv'
    BY <1>0, <1>1, <1>a, <2>1 DEF IInv, RequestInv, AnswerInv
  <2>3. /\ node' \in [Names -> File \cup {Absent, Dir}]
        /\ \A k \in Names : k \notin {n, m} => node'[k] = node[k]
        /\ node'[n] = Absent /\ node'[m] = node[n]
    BY <1>2, <2>1, <2>2
  <2>4. handles' \subseteq {k \in Names : node'[k] \notin {Absent, Dir}}
    BY <1>2, <2>1, <2>2, <2>3 DEF IsFile
  <2>5. TypeOK'
    BY <2>1, <2>2, <2>3, <2>4 DEF IInv, TypeOK, IsFile
  <2>6. StreamInv'
    BY <2>1, <2>3 DEF IInv, StreamInv, IsFile
  <2>7. ASSUME Allowed, worm_check("DELETE") PROVE Cardinality(There') >= Cardinality(There)
    <3>1. node[m] = Absent
      BY <2>1, <2>7 DEF Allowed
    <3>2. There' = (There \ {n}) \cup {m} /\ n \in There /\ m \notin There
      BY <2>2, <2>3, <3>1 DEF There
    <3>3. IsFiniteSet(There) /\ Cardinality(There) \in Nat
      BY NamesFinite DEF There
    <3>4. IsFiniteSet(There \ {n}) /\ Cardinality(There \ {n}) = Cardinality(There) - 1
      BY <3>2, <3>3, FS_RemoveElement
    <3>5. Cardinality((There \ {n}) \cup {m}) = Cardinality(There \ {n}) + 1
      <4>1. m \notin There \ {n}
        BY <3>2
      <4> QED BY <3>4, <4>1, FS_AddElement
    <3>6. Cardinality(There') = Cardinality(There)
      BY <3>2, <3>3, <3>4, <3>5
    <3> QED BY <3>3, <3>6
  <2>8. ASSUME Allowed, worm_check("DELETE"), NEW k \in Names, IsFile(k)
        PROVE  \E l \in Names : node'[l] = node[k]
    <3>1. node[m] = Absent
      BY <2>1, <2>8 DEF Allowed
    <3> QED BY <2>2, <2>3, <2>8, <3>1 DEF IsFile
  <2>9. ~(Allowed /\ worm_check("RENAME")) /\ ~(Allowed /\ SCAN \in flags)
    BY <2>1 DEF Allowed, worm_check
  <2> QED BY <2>1, <2>2, <2>3, <2>5, <2>6, <2>7, <2>8, <2>9, EffectHolds
<1> QED BY <1>3, <1>5, <1>6, <1>7, <1>8, <1>9, <1>c, <1>d, <1>e DEF Effects
(* Flags, password changes and closing keep it, too.                       *)
LEMMA StepHolds == IInv /\ [Next]_vars => IInv'
<1> SUFFICES ASSUME IInv, [Next]_vars PROVE IInv'
  OBVIOUS
<1>1. CASE UNCHANGED vars
  BY <1>1 DEF vars, store, IInv, AnswerInv, ReadsBack, TypeOK, RequestInv, HeldInv, ContentInv, CountInv, NameInv,
              ScanFreezes, StreamInv, IsFile, Exempt, Allowed, Touched, Was, There, worm_check
<1>2. ASSUME NEW f \in Protections,
             vault_worm_set_flags(f) \/ vault_worm_clear_flags(f) \/ vault_worm_set_scan
      PROVE  IInv'
  <2>1. /\ Hold /\ flags' \subseteq Protections \cup {SCAN}
        /\ UNCHANGED <<node, handles, salt, stamp, request, disturbed, answer>>
    BY <1>2 DEF store, vault_worm_set_flags, vault_worm_clear_flags, vault_worm_set_scan, IInv, TypeOK
  <2> QED BY <2>1, HoldHolds
<1>3. CASE vault_change_password
  <2>1. /\ salt < MaxSalt /\ salt' = salt + 1
        /\ disturbed' = disturbed \cup {n \in Names : IsFile(n)}
        /\ UNCHANGED <<node, handles, flags, stamp, request, held, answer>>
    BY <1>3 DEF vault_change_password, store
  <2>2. TypeOK'
    BY <2>1, FuseAssumption DEF IInv, TypeOK, IsFile
  <2>3. RequestInv' /\ ScanFreezes' /\ StreamInv' /\ AnswerInv'
    BY <2>1 DEF IInv, RequestInv, IsFile, ScanFreezes, StreamInv, AnswerInv, ReadsBack
  <2>4. HeldInv' /\ ContentInv' /\ CountInv' /\ NameInv'
    BY <2>1 DEF IInv, HeldInv, ContentInv, CountInv, NameInv, Exempt, Allowed, Touched,
                Was, There, worm_check
  <2> QED BY <2>2, <2>3, <2>4 DEF IInv
<1>4. ASSUME NEW n \in Names, Close(n) PROVE IInv'
  <2>1. /\ n \notin Touched /\ handles' = handles \ {n}
        /\ UNCHANGED <<node, flags, salt, stamp, request, held, disturbed, answer>>
    BY <1>4 DEF Close
  <2>2. request.op = "write" => n # request.name
    BY <2>1, NoneApart DEF Touched
  <2>3. TypeOK' /\ RequestInv' /\ ScanFreezes' /\ StreamInv' /\ AnswerInv'
    BY <2>1, <2>2 DEF IInv, TypeOK, RequestInv, IsFile, ScanFreezes, StreamInv, AnswerInv, ReadsBack
  <2>4. HeldInv' /\ ContentInv' /\ CountInv' /\ NameInv'
    BY <2>1 DEF IInv, HeldInv, ContentInv, CountInv, NameInv, Exempt, Allowed, Touched,
                Was, There, worm_check
  <2> QED BY <2>3, <2>4 DEF IInv
<1>5. CASE Manage
  <2>1. "WRITE" \in Protections
    BY DEF Protections
  <2> QED BY <1>2, <1>3, <1>5, <2>1 DEF Manage
<1> QED BY <1>1, <1>4, <1>5, HandlersHold, EffectsHold DEF Next

(* Initially the vault is empty and no flag is set.                        *)
LEMMA InitHolds == Init => IInv
<1> SUFFICES ASSUME Init PROVE IInv
  OBVIOUS
<1>1. /\ node = [n \in Names |-> Absent] /\ handles = {} /\ flags = {} /\ salt = 0 /\ stamp = 0
      /\ request = NoRequest /\ held = [n \in {} |-> Absent] /\ disturbed = {}
      /\ answer = NoAnswer /\ DOMAIN held = {}
  BY DEF Init
<1>2. TypeOK
  <2>1. 0 \in 0 .. MaxSalt /\ 0 \in 0 .. MaxData
    BY FuseAssumption
  <2>2. node \in [Names -> File \cup {Absent, Dir}]
    BY <1>1
  <2> QED BY <1>1, <2>1, <2>2 DEF TypeOK
<1>3. RequestInv /\ HeldInv /\ ScanFreezes /\ StreamInv /\ AnswerInv
  BY <1>1, NoneApart DEF RequestInv, HeldInv, AnswerInv, ScanFreezes, StreamInv, IsFile
<1>4. ContentInv /\ CountInv /\ NameInv
  BY <1>1 DEF ContentInv, CountInv, NameInv, worm_check
<1> QED BY <1>2, <1>3, <1>4 DEF IInv

(* The inductive invariant holds throughout.                               *)
THEOREM InvariantHolds == Spec => []IInv
BY InitHolds, StepHolds, PTL DEF Spec

(* Only files are open for writing, and a request is always about names of *)
(* the vault.                                                              *)
THEOREM TypeCorrect == Spec => []TypeOK
BY InvariantHolds, PTL DEF IInv

(* WORM protection keeps what was stored when it was switched on, whatever *)
(* the requests, their races with the flags, the truncating opens and the  *)
(* renames: every file's  *)
(* content under WRITE and DELETE, the number of names under DELETE, every *)
(* name under DELETE and RENAME.                                           *)
THEOREM ProtectedIsRetained == Spec => []Retention
<1>1. IInv => Retention
  <2> SUFFICES ASSUME IInv PROVE Retention
    OBVIOUS
  <2>1. Was \subseteq Names
    BY DEF IInv, TypeOK, Was
  <2>2. worm_check("DELETE") => Cardinality(There) >= Cardinality(Was)
    <3>1. There \subseteq Names /\ There \ Exempt \subseteq There
      BY DEF There
    <3>2. /\ Cardinality(There \ Exempt) \in Nat /\ Cardinality(There) \in Nat
          /\ Cardinality(There \ Exempt) =< Cardinality(There)
      BY <3>1, NamesFinite
    <3>3. Cardinality(Was) \in Nat
      BY <2>1, NamesFinite
    <3> QED BY <3>2, <3>3 DEF IInv, CountInv
  <2>3. NamesKept
    BY <2>2 DEF IInv, NameInv, NamesKept, Was, There
  <2> QED BY <2>3 DEF IInv, ContentInv, Retention
<1> QED BY <1>1, InvariantHolds, PTL

(* Nothing changes in a vault under PROTECTED-SCAN but what a request that *)
(* was under way when it was engaged still does to its own names.          *)
THEOREM ScanIsFinal == Spec => []ScanFreezes
BY InvariantHolds, PTL DEF IInv

(* Transparent encryption: a read that could decipher returns what was     *)
(* last written under its name, unless a rename to that name, a password   *)
(* change or a failed encryption came after the file was last empty.       *)
THEOREM ReadsReturnWrites == Spec => []ReadsBack
<1>1. IInv => ReadsBack
  BY DEF IInv, AnswerInv, ReadsBack
<1> QED BY <1>1, InvariantHolds, PTL
=============================================================================
