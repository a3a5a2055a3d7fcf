------------------------------ MODULE VaultFuse ------------------------------
(***************************************************************************)
(* The FUSE handlers of one mounted PROTECTED vault: what WORM protection  *)
(* and transparent encryption promise about the files, whatever sequence   *)
(* of calls the kernel sends.                                              *)
(*                                                                         *)
(* A handler first evaluates v->worm_flags and then works on cipher_<id>;  *)
(* it holds no lock, so the main thread may change the flags or the salt   *)
(* in between.  libfuse locks the paths of a request, so requests on the   *)
(* same names do not overlap: one in flight is enough.                     *)
(*                                                                         *)
(* A file is the stamp of its last write and the key stream its bytes were *)
(* stored under: derived from the vault's salt and the path of the file.   *)
(***************************************************************************)
EXTENDS Naturals, FiniteSets

CONSTANTS
    Names,          \* paths in the vault
    MaxData,        \* bound of the model: writes
    MaxSalt,        \* bound of the model: password changes
    Absent, Dir,    \* no entry of that name; a directory
    Plain,          \* bytes stored as they are
    Garbled         \* bytes that mean nothing

VARIABLES
    node,           \* what each name of cipher_<id> holds
    handles,        \* names a client holds open for writing
    flags,          \* v->worm_flags
    salt,           \* v->salt, by version
    stamp,          \* writes so far
    request,        \* the request that passed its checks and is under way
    held,           \* history: the names no request was touching when the flags
                    \* were last changed, with what they held
    disturbed,      \* history: names whose bytes a rename, a password change or
                    \* a write in the clear has made unreadable
    answer          \* what the read that ended last returned, until a request begins

store == <<node, handles, stamp>>
vars == <<store, flags, salt, request, held, disturbed, answer>>

Protections == {"WRITE", "DELETE", "RENAME", "READ"}
SCAN == "SCAN"
Keys == (0 .. MaxSalt) \X Names \cup {Plain}
File == [data : 0 .. MaxData, key : Keys]
Empty == [data |-> 0, key |-> Plain]
NoRequest == [op |-> "none"]
NoAnswer == [name |-> Absent]

ASSUME FuseAssumption ==
    /\ IsFiniteSet(Names)
    /\ MaxData \in Nat /\ MaxSalt \in Nat
    /\ Absent # Dir /\ {Absent, Dir} \cap File = {}
    /\ Plain \notin (0 .. MaxSalt) \X Names /\ Garbled \notin 0 .. MaxData
    /\ Absent \notin Names

IsFile(n) == node[n] \notin {Absent, Dir}
worm_check(flag) == SCAN \in flags \/ flag \in flags

\* The bytes of a file under a key stream; Garbled if it is not the one they
\* were stored under.  Applying the stream to plain bytes garbles them too.
Under(file, key) ==
    IF file.data = 0 \/ file.key = key THEN file.data ELSE Garbled

\* fuse_crypt_stream as vfuse_read applies it, to salt and path of now; the
\* bytes as pread got them, which vfuse_read returns when it failed.
Decrypted(n) == Under(node[n], <<salt, n>>)
Raw(n) == Under(node[n], Plain)

\* Names a request under way is about to touch.
Touched == IF request = NoRequest THEN {} ELSE {request.name, request.to}
Hold == held' = [n \in Names \ Touched |-> node[n]]

-----------------------------------------------------------------------------
Init ==
    /\ node = [n \in Names |-> Absent]
    /\ handles = {} /\ flags = {} /\ salt = 0 /\ stamp = 0
    /\ request = NoRequest
    /\ held = [n \in {} |-> Absent]
    /\ disturbed = {} /\ answer = NoAnswer

(* The checks of a handler: with them the request is under way.            *)
Begin(op, n, m) ==
    /\ request = NoRequest
    /\ request' = [op |-> op, name |-> n, to |-> m]
    /\ answer' = NoAnswer
    /\ UNCHANGED <<store, flags, salt, held, disturbed>>

\* Faulty variant: denied by write and not here.
open_unchecked(n) ==
    /\ IsFile(n)
    /\ Begin("truncate", n, n)

\* An open with write flags, with or without O_TRUNC, which the kernel passes
\* on (atomic_o_trunc is the default of libfuse 3, and there is no truncate
\* handler).  An open for reading changes nothing and is left out.
vfuse_open(n) ==
    /\ IsFile(n)
    /\ ~worm_check("WRITE")
    /\ \E op \in {"open", "truncate"} : Begin(op, n, n)

vfuse_read(n) ==
    /\ IsFile(n) /\ node[n].data # 0
    /\ ~worm_check("READ")
    /\ Begin("read", n, n)

\* Under WORM_PROTECT_WRITE the open is O_CREAT | O_EXCL, which a file that
\* is there, as any with a handle is, refuses.
vfuse_write(n) ==
    /\ n \in handles /\ stamp < MaxData
    /\ worm_check("WRITE") => node[n] = Absent
    /\ Begin("write", n, n)

\* Faulty variant: directories may be made whatever the flags.
mkdir_unchecked(n) ==
    /\ node[n] = Absent
    /\ Begin("mkdir", n, n)

vfuse_mkdir(n) ==
    /\ node[n] = Absent
    /\ SCAN \notin flags
    /\ Begin("mkdir", n, n)

vfuse_unlink(n) ==
    /\ IsFile(n)
    /\ ~worm_check("DELETE")
    /\ Begin("unlink", n, n)

vfuse_rmdir(n) ==
    /\ node[n] = Dir
    /\ ~worm_check("DELETE")
    /\ Begin("rmdir", n, n)

vfuse_rename(n, m) ==
    /\ n # m /\ node[n] # Absent
    /\ node[m] = Absent \/ (node[m] = Dir) = (node[n] = Dir)
    /\ ~worm_check("RENAME")
    /\ worm_check("DELETE") \/ worm_check("WRITE") => node[m] = Absent
    /\ Begin("rename", n, m)

\* The kernel sends a create for a name its lookup did not find.
vfuse_create(n) ==
    /\ node[n] = Absent
    /\ SCAN \notin flags
    /\ Begin("create", n, n)

Handlers ==
    \E n \in Names :
        \/ vfuse_open(n) \/ vfuse_read(n) \/ vfuse_write(n)
        \/ vfuse_mkdir(n) \/ vfuse_unlink(n) \/ vfuse_rmdir(n) \/ vfuse_create(n)
        \/ \E m \in Names : vfuse_rename(n, m)

-----------------------------------------------------------------------------
(* The system calls of the request under way.                              *)

Finish(op) == request.op = op /\ request' = NoRequest

\* open(full_path, fi->flags) and close.
open_done ==
    /\ Finish("open")
    /\ handles' = handles \cup {request.name}
    /\ UNCHANGED <<node, stamp, flags, salt, held, disturbed, answer>>

\* The same with O_TRUNC: the contents are gone.
open_truncates ==
    /\ Finish("truncate")
    /\ node' = [node EXCEPT ![request.name] = Empty]
    /\ handles' = handles \cup {request.name}
    /\ disturbed' = disturbed \ {request.name}
    /\ UNCHANGED <<stamp, flags, salt, held, answer>>

Answered(data, deciphered) ==
    /\ Finish("read")
    /\ answer' = [name |-> request.name, data |-> data, deciphered |-> deciphered]
    /\ UNCHANGED <<store, flags, salt, held, disturbed>>

\* pread, then fuse_crypt_stream with the salt and the path of now.
read_done == Answered(Decrypted(request.name), TRUE)

\* fuse_crypt_stream failed, which nobody looks at.
read_raw == Answered(Raw(request.name), FALSE)

Written(key) ==
    /\ Finish("write")
    /\ stamp' = stamp + 1
    /\ node' = [node EXCEPT ![request.name] = [data |-> stamp + 1, key |-> key]]
    /\ UNCHANGED <<handles, flags, salt, held, answer>>

\* Faulty variant: the stream of a write starts from the salt alone.
write_done_one_stream ==
    Written(<<salt, CHOOSE n \in Names : TRUE>>) /\ UNCHANGED disturbed

write_done == Written(<<salt, request.name>>) /\ UNCHANGED disturbed

\* fuse_crypt_stream or malloc failed: the bytes are written as they are.
write_plain == Written(Plain) /\ disturbed' = disturbed \cup {request.name}

mkdir_done ==
    /\ Finish("mkdir")
    /\ node' = [node EXCEPT ![request.name] = Dir]
    /\ UNCHANGED <<handles, stamp, flags, salt, held, disturbed, answer>>

remove_done ==
    /\ Finish("unlink") \/ Finish("rmdir")
    /\ node' = [node EXCEPT ![request.name] = Absent]
    /\ handles' = handles \ {request.name}
    /\ UNCHANGED <<stamp, flags, salt, held, disturbed, answer>>

\* The bytes keep the stream of the old path.
Renamed(open) ==
    /\ Finish("rename")
    /\ node' = [node EXCEPT ![request.to] = node[request.name], ![request.name] = Absent]
    /\ handles' = open
    /\ disturbed' = disturbed \cup {request.to}
    /\ UNCHANGED <<stamp, flags, salt, held, answer>>

\* Faulty variant: open files keep the old path.
rename_done_old_path == Renamed(handles)

rename_done ==
    Renamed((handles \ {request.name, request.to}) \cup
            (IF request.name \in handles THEN {request.to} ELSE {}))

create_done ==
    /\ Finish("create")
    /\ node' = [node EXCEPT ![request.name] = Empty]
    /\ handles' = handles \cup {request.name}
    /\ disturbed' = disturbed \ {request.name}
    /\ UNCHANGED <<stamp, flags, salt, held, answer>>

\* The system call failed and its errno is the answer.
request_fails ==
    /\ request # NoRequest /\ request' = NoRequest
    /\ UNCHANGED <<store, flags, salt, held, disturbed, answer>>

Close(n) ==
    /\ n \in handles /\ n \notin Touched
    /\ handles' = handles \ {n}
    /\ UNCHANGED <<node, stamp, flags, salt, request, held, disturbed, answer>>

Effects ==
    \/ open_done \/ open_truncates \/ read_done \/ read_raw
    \/ write_done \/ write_plain \/ mkdir_done \/ remove_done
    \/ rename_done \/ create_done \/ request_fails

-----------------------------------------------------------------------------
(* The main thread, under g_monitor.lock.                                  *)

vault_worm_set_flags(f) ==
    /\ flags' = flags \cup {f}
    /\ Hold
    /\ UNCHANGED <<store, salt, request, disturbed, answer>>

vault_worm_clear_flags(f) ==
    /\ SCAN \notin flags
    /\ flags' = flags \ {f}
    /\ Hold
    /\ UNCHANGED <<store, salt, request, disturbed, answer>>

vault_worm_set_scan ==
    /\ SCAN \notin flags
    /\ flags' = flags \cup Protections \cup {SCAN}
    /\ Hold
    /\ UNCHANGED <<store, salt, request, disturbed, answer>>

\* A new salt; the re-keying that goes with it looks for .enc files only.
vault_change_password ==
    /\ salt < MaxSalt
    /\ salt' = salt + 1
    /\ disturbed' = disturbed \cup {n \in Names : IsFile(n)}
    /\ UNCHANGED <<store, flags, request, held, answer>>

Manage ==
    \/ \E f \in Protections : vault_worm_set_flags(f) \/ vault_worm_clear_flags(f)
    \/ vault_worm_set_scan \/ vault_change_password

Next == Handlers \/ Effects \/ Manage \/ \E n \in Names : Close(n)

Spec == Init /\ [][Next]_vars

-----------------------------------------------------------------------------
TypeOK ==
    /\ node \in [Names -> File \cup {Absent, Dir}]
    /\ handles \subseteq {n \in Names : IsFile(n)}
    /\ flags \subseteq Protections \cup {SCAN}
    /\ salt \in 0 .. MaxSalt /\ stamp \in 0 .. MaxData
    /\ request # NoRequest => request.name \in Names /\ request.to \in Names
    /\ DOMAIN held \subseteq Names
    /\ disturbed \subseteq Names
    /\ answer # NoAnswer =>
          answer \in [name : Names, data : 0 .. MaxData \cup {Garbled}, deciphered : BOOLEAN]

(* DELETE protection keeps the number of names that were there when the    *)
(* flags last changed, and with RENAME protection every name.              *)
NamesKept ==
    worm_check("DELETE") =>
        LET was == {n \in DOMAIN held : held[n] # Absent}
        IN  /\ worm_check("RENAME") => \A n \in was : node[n] # Absent
            /\ Cardinality({n \in Names : node[n] # Absent}) >= Cardinality(was)

(* Retention: what was stored when the flags last changed, with WRITE and  *)
(* DELETE protection on, is still stored under some name, whatever         *)
(* requests came since, renames included; with DELETE protection alone at  *)
(* least the names are.                                                    *)
Retention ==
    /\ worm_check("WRITE") /\ worm_check("DELETE") =>
          \A n \in DOMAIN held : held[n] \notin {Absent, Dir} =>
              \E m \in Names : node[m] = held[n]
    /\ NamesKept

(* PROTECTED-SCAN freezes the vault: every name no request was touching    *)
(* when it was engaged holds what it held, and what did not exist does not *)
(* appear; nothing undoes it.                                              *)
ScanFreezes == SCAN \in flags => \A n \in DOMAIN held : node[n] = held[n]

(* Transparent encryption: a read that could decipher returns what was     *)
(* last written under that name, as long as neither a rename to it, nor a  *)
(* password change, nor a write that stored its bytes in the clear came    *)
(* after the file was last created or truncated.  A read that could not    *)
(* decipher returns the stored bytes as if they were the answer.           *)
ReadsBack ==
    answer # NoAnswer /\ answer.deciphered /\ answer.name \notin disturbed =>
        answer.data = node[answer.name].data
=============================================================================
