----------------------------- MODULE VaultFiles -----------------------------
(***************************************************************************)
(* The files of one password-protected vault, and the three calls that     *)
(* rewrite them file by file: vault_encrypt_ffi, vault_decrypt_ffi and     *)
(* vault_change_password with rekey_vault_files.  Each call holds          *)
(* g_monitor.lock and works through the directory; the process may die     *)
(* between any two system calls, and calls on files may fail.              *)
(*                                                                         *)
(* A file f exists as f, as f.enc, or both.  A key stands for a password   *)
(* together with the random salt it was set with: key k is known as long   *)
(* as catalog.dat or a running process holds its salt, and lost afterwards.*)
(***************************************************************************)
EXTENDS Naturals, FiniteSets

CONSTANTS
    Files,          \* file names in v->path
    MaxKey,         \* bound of the model: salts drawn, key 0 being the first
    Absent,         \* no such file
    Torn,           \* a .enc file that does not decrypt under any key
    Broken,         \* salt and pass_hash of different passwords
    NoFile          \* no file is being worked on

VARIABLES
    plain,          \* files present as complete plaintext
    enc,            \* enc[f]: key f.enc is encrypted under, Absent or Torn
    scratch,        \* files with a plaintext temporary of the running process
                    \* (.tmp.<pid>, .rekey_tmp_<pid>)
    diskKey,        \* salt and hash in catalog.dat
    memKey,         \* salt and hash in g_catalog
    newKey,         \* the salt a password change has drawn
    salts,          \* salts drawn so far
    pc, cur, todo,  \* where the call is, its file, the entries readdir has left
    mishaps         \* history: what went wrong so far

vars == <<plain, enc, scratch, diskKey, memKey, newKey, salts, pc, cur, todo, mishaps>>
catalog == <<diskKey, memKey, newKey, salts>>

Keys == 0 .. MaxKey
Mishaps == {"crashed",      \* the process was killed
            "interrupted",  \* ... in a password change, or with one unsaved
            "swallowed",    \* fclose failed unnoticed and the end of a file is lost
            "aborted",      \* vault_change_password returned an error
            "unopened"}     \* rekey_vault_files could not open the directory

ASSUME FilesAssumption ==
    /\ MaxKey \in Nat
    /\ Cardinality({Absent, Torn, Broken, NoFile}) = 4
    /\ {Absent, Torn, Broken} \cap Keys = {}
    /\ NoFile \notin Files

Encrypted == {f \in Files : enc[f] # Absent}

-----------------------------------------------------------------------------
Init ==
    /\ plain = Files
    /\ enc = [f \in Files |-> Absent]
    /\ scratch = {}
    /\ diskKey = 0 /\ memKey = 0 /\ newKey = 0 /\ salts = 0
    /\ pc = "off" /\ cur = NoFile /\ todo = {}
    /\ mishaps = {}

vault_ffi_init ==
    /\ pc = "off"
    /\ pc' = "idle"
    /\ memKey' = diskKey
    /\ UNCHANGED <<plain, enc, scratch, diskKey, newKey, salts, cur, todo, mishaps>>

(* The save of a shutdown, or of any later call, may catch up on one that  *)
(* failed.                                                                 *)
vault_ffi_shutdown ==
    /\ pc = "idle"
    /\ pc' = "off"
    /\ diskKey' \in {diskKey, memKey}
    /\ mishaps' = IF diskKey' = memKey THEN mishaps ELSE mishaps \cup {"interrupted"}
    /\ UNCHANGED <<plain, enc, scratch, memKey, newKey, salts, cur, todo>>

Rekeying == pc \in {"rekey", "rekey_encrypt", "rekey_swap", "rekey_torn"}

(* The process is killed.  Its temporaries carry its pid in their names    *)
(* and no later call looks for them.                                       *)
Crash ==
    /\ pc # "off"
    /\ pc' = "off" /\ cur' = NoFile /\ todo' = {} /\ scratch' = {}
    /\ mishaps' = mishaps \cup {"crashed"} \cup
                  IF Rekeying \/ memKey # diskKey THEN {"interrupted"} ELSE {}
    /\ UNCHANGED <<plain, enc, catalog>>

(* Faulty variant: the record is not checked before it is used.            *)
Enter_unchecked(call, entries) ==
    /\ pc = "idle"
    /\ pc' = call /\ cur' = NoFile /\ todo' = entries

(* A call passes auth_verify_password, which a Broken record never does,   *)
(* and reads the directory.                                                *)
Enter(call, entries) ==
    /\ pc = "idle"
    /\ memKey # Broken
    /\ pc' = call /\ cur' = NoFile /\ todo' = entries

Leave(call) ==
    /\ pc = call
    /\ todo = {}
    /\ pc' = "idle"
    /\ UNCHANGED <<plain, enc, scratch, catalog, cur, todo, mishaps>>

(* On to the next entry.                                                   *)
Skip(call, f) == pc' = call /\ cur' = NoFile /\ todo' = todo \ {f}

-----------------------------------------------------------------------------
(* vault_encrypt_ffi.                                                      *)

vault_encrypt_ffi ==
    /\ Enter("encrypt", plain)
    /\ UNCHANGED <<plain, enc, scratch, catalog, mishaps>>

(* Faulty variant: the plaintext goes before the ciphertext is complete.   *)
encrypt_open_unlinks(f) ==
    /\ pc = "encrypt" /\ f \in todo
    /\ enc' = [enc EXCEPT ![f] = Torn]
    /\ plain' = plain \ {f}
    /\ pc' = "encrypting" /\ cur' = f
    /\ UNCHANGED <<scratch, catalog, todo, mishaps>>

(* encrypt_file opens f.enc for writing, whatever it held; when it cannot, *)
(* f.enc is left alone and the file is passed over.                        *)
encrypt_open(f) ==
    /\ pc = "encrypt" /\ f \in todo
    /\ \/ /\ enc' = [enc EXCEPT ![f] = Torn]
          /\ pc' = "encrypting" /\ cur' = f
          /\ UNCHANGED todo
       \/ Skip("encrypt", f) /\ UNCHANGED enc
    /\ UNCHANGED <<plain, scratch, catalog, mishaps>>

encrypt_file(lost) ==
    /\ pc = "encrypting"
    /\ enc' = [enc EXCEPT ![cur] = IF lost THEN Torn ELSE memKey]
    /\ mishaps' = IF lost THEN mishaps \cup {"swallowed"} ELSE mishaps
    /\ pc' = "encrypted"
    /\ UNCHANGED <<plain, scratch, catalog, cur, todo>>

encrypt_fails ==
    /\ pc = "encrypting"
    /\ enc' = [enc EXCEPT ![cur] = Absent]
    /\ Skip("encrypt", cur)
    /\ UNCHANGED <<plain, scratch, catalog, mishaps>>

encrypt_unlink ==
    /\ pc = "encrypted"
    /\ plain' = plain \ {cur}
    /\ Skip("encrypt", cur)
    /\ UNCHANGED <<enc, scratch, catalog, mishaps>>

-----------------------------------------------------------------------------
(* vault_decrypt_ffi.                                                      *)

vault_decrypt_ffi ==
    /\ Enter("decrypt", Encrypted)
    /\ UNCHANGED <<plain, enc, scratch, catalog, mishaps>>

decrypt_open(f) ==
    /\ pc = "decrypt" /\ f \in todo
    /\ scratch' = scratch \cup {f}
    /\ pc' = "decrypting" /\ cur' = f
    /\ UNCHANGED <<plain, enc, catalog, todo, mishaps>>

(* The temporary is renamed to f only after the GCM tag was checked.       *)
decrypt_file(lost) ==
    /\ pc = "decrypting"
    /\ enc[cur] = memKey
    /\ scratch' = scratch \ {cur}
    /\ plain' = IF lost THEN plain \ {cur} ELSE plain \cup {cur}
    /\ mishaps' = IF lost THEN mishaps \cup {"swallowed"} ELSE mishaps
    /\ pc' = "decrypted"
    /\ UNCHANGED <<enc, catalog, cur, todo>>

decrypt_fails ==
    /\ pc = "decrypting"
    /\ scratch' = scratch \ {cur}
    /\ Skip("decrypt", cur)
    /\ UNCHANGED <<plain, enc, catalog, mishaps>>

decrypt_unlink ==
    /\ pc = "decrypted"
    /\ enc' = [enc EXCEPT ![cur] = Absent]
    /\ Skip("decrypt", cur)
    /\ UNCHANGED <<plain, scratch, catalog, mishaps>>

-----------------------------------------------------------------------------
(* vault_change_password.                                                  *)

(* A new salt is drawn and the directory read.  When opendir fails         *)
(* rekey_vault_files returns ERR_OK as if it had found no .enc file.       *)
vault_change_password(opened) ==
    /\ salts < MaxKey
    /\ salts' = salts + 1 /\ newKey' = salts'
    /\ Enter("rekey", IF opened THEN Encrypted ELSE {})
    /\ mishaps' = IF opened \/ Encrypted = {} THEN mishaps ELSE mishaps \cup {"unopened"}
    /\ UNCHANGED <<plain, enc, scratch, diskKey, memKey>>

Abort ==
    /\ pc' = "idle" /\ cur' = NoFile /\ todo' = {}
    /\ mishaps' = mishaps \cup {"aborted"}

(* Faulty variant: a file that does not decrypt is passed over.            *)
rekey_decrypt_skips(f) ==
    /\ pc = "rekey" /\ f \in todo
    /\ \/ /\ enc[f] = memKey
          /\ scratch' = scratch \cup {f}
          /\ pc' = "rekey_encrypt" /\ cur' = f
          /\ UNCHANGED todo
       \/ Skip("rekey", f) /\ scratch' = scratch \ {f}
    /\ UNCHANGED <<plain, enc, catalog, mishaps>>

rekey_decrypt(f) ==
    /\ pc = "rekey" /\ f \in todo
    /\ \/ /\ enc[f] = memKey
          /\ scratch' = scratch \cup {f}
          /\ pc' = "rekey_encrypt" /\ cur' = f
          /\ UNCHANGED <<todo, mishaps>>
       \/ Abort /\ scratch' = scratch \ {f}
    /\ UNCHANGED <<plain, enc, catalog>>

(* Faulty variant: the error path forgets the plaintext temporary.         *)
rekey_encrypt_leaks(lost) ==
    /\ pc = "rekey_encrypt"
    /\ \/ /\ pc' = IF lost THEN "rekey_torn" ELSE "rekey_swap"
          /\ UNCHANGED <<cur, todo>>
          /\ mishaps' = IF lost THEN mishaps \cup {"swallowed"} ELSE mishaps
       \/ Abort
    /\ UNCHANGED <<plain, enc, scratch, catalog>>

(* f.enc.rekey_new_<pid> is written; the end of it may be lost unnoticed.  *)
rekey_encrypt(lost) ==
    /\ pc = "rekey_encrypt"
    /\ \/ /\ pc' = IF lost THEN "rekey_torn" ELSE "rekey_swap"
          /\ UNCHANGED <<scratch, cur, todo>>
          /\ mishaps' = IF lost THEN mishaps \cup {"swallowed"} ELSE mishaps
       \/ Abort /\ scratch' = scratch \ {cur}
    /\ UNCHANGED <<plain, enc, catalog>>

(* rename puts the new f.enc in place.  readdir may or may not return the  *)
(* entry that was renamed over once more.                                  *)
rekey_swap ==
    /\ pc \in {"rekey_swap", "rekey_torn"}
    /\ scratch' = scratch \ {cur}
    /\ \/ /\ enc' = [enc EXCEPT ![cur] = IF pc = "rekey_torn" THEN Torn ELSE newKey]
          /\ pc' = "rekey" /\ cur' = NoFile
          /\ todo' \in {todo, todo \ {cur}}
          /\ UNCHANGED mishaps
       \/ Abort /\ UNCHANGED enc
    /\ UNCHANGED <<plain, catalog>>

(* The new salt and hash replace the old ones and the catalog is saved;    *)
(* deriving the hash, or the save, may fail.                               *)
rekey_commit ==
    /\ pc = "rekey" /\ todo = {}
    /\ \/ /\ memKey' = newKey /\ diskKey' = newKey
          /\ UNCHANGED mishaps
       \/ /\ memKey' \in {newKey, Broken} /\ diskKey' = diskKey
          /\ mishaps' = mishaps \cup {"aborted"}
    /\ pc' = "idle"
    /\ UNCHANGED <<plain, enc, scratch, newKey, salts, cur, todo>>

-----------------------------------------------------------------------------
Step ==
    \/ \E f \in Files : encrypt_open(f) \/ decrypt_open(f) \/ rekey_decrypt(f)
    \/ \E lost \in BOOLEAN : encrypt_file(lost) \/ decrypt_file(lost) \/ rekey_encrypt(lost)
    \/ encrypt_fails \/ encrypt_unlink \/ Leave("encrypt")
    \/ decrypt_fails \/ decrypt_unlink \/ Leave("decrypt")
    \/ rekey_swap \/ rekey_commit

Next ==
    \/ vault_ffi_init \/ vault_ffi_shutdown \/ Crash
    \/ vault_encrypt_ffi \/ vault_decrypt_ffi
    \/ \E opened \in BOOLEAN : vault_change_password(opened)
    \/ Step

(* A call that was entered runs on: nothing in it waits.                   *)
Spec == Init /\ [][Next]_vars
-----------------------------------------------------------------------------
(* Type invariant: every key in use is one that was drawn, even after a    *)
(* password change that failed half way (vault_change_password).           *)
TypeOK ==
    /\ plain \subseteq Files /\ scratch \subseteq Files /\ todo \subseteq Files
    /\ enc \in [Files -> 0 .. salts \cup {Absent, Torn}]
    /\ salts \in Keys /\ newKey \in 0 .. salts
    /\ diskKey \in 0 .. salts \cup {Broken} /\ memKey \in 0 .. salts \cup {Broken}
    /\ pc \in {"off", "idle", "encrypt", "encrypting", "encrypted", "decrypt", "decrypting",
              "decrypted", "rekey", "rekey_encrypt", "rekey_swap", "rekey_torn"}
    /\ cur \in Files \cup {NoFile}
    /\ mishaps \subseteq Mishaps

(* Keys that catalog.dat or the running process can still derive, and the  *)
(* files that can still be read with one of them or without a key.         *)
KnownKeys ==
    ({diskKey} \cup (IF pc = "off" THEN {} ELSE {memKey})
               \cup (IF Rekeying THEN {newKey} ELSE {})) \ {Broken}
Recoverable(f) == f \in plain \/ enc[f] \in KnownKeys

(* No file of the vault is ever lost, not even when the process is killed  *)
(* in the middle of an encryption or a decryption, unless a password       *)
(* change went wrong or the disk swallowed data.                           *)
DataKept == mishaps \subseteq {"crashed"} => \A f \in Files : Recoverable(f)

(* Between calls all encrypted files are under the one key the catalog     *)
(* holds, unless a password change went wrong; a file that is torn does    *)
(* not count.                                                              *)
OneKey ==
    (pc = "idle" /\ mishaps \subseteq {"crashed", "swallowed"}) =>
        \A f \in Files : enc[f] \in {Absent, Torn, memKey}

(* No plaintext temporary of decrypt_file or rekey_vault_files outlives    *)
(* the call that made it, whichever of its error paths it took.            *)
ScratchCleaned == pc = "idle" => scratch = {}

=============================================================================
