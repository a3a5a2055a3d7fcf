------------------------- MODULE VaultFiles_proofs -------------------------
(***************************************************************************)
(* Proofs about VaultFiles, for every set of files and every number of     *)
(* password changes.                                                       *)
(***************************************************************************)
EXTENDS VaultFiles, TLAPS

Working == pc \in {"encrypting", "encrypted", "decrypting", "decrypted",
                   "rekey_encrypt", "rekey_swap", "rekey_torn"}
Holding == pc \in {"decrypting", "rekey_encrypt", "rekey_swap", "rekey_torn"}
Encrypting == pc \in {"encrypt", "encrypting", "encrypted"}

(* Control: the file worked on is an entry readdir returned, a temporary   *)
(* exists only for that file and only in the steps that need it, a record  *)
(* that no password opens is never used to encrypt, and an encryption      *)
(* works through files that are there as plaintext.                        *)
ControlInv ==
    /\ Working => cur \in todo
    /\ pc \in {"off", "idle"} => todo = {}
    /\ pc \notin {"off", "idle"} => memKey # Broken
    /\ scratch = IF Holding THEN {cur} ELSE {}
    /\ Encrypting => todo \subseteq plain
    /\ pc = "rekey_torn" => "swallowed" \in mishaps

(* Keys: until a password change goes wrong memory and file agree on a     *)
(* whole record, every .enc file is torn or under its key, and a password  *)
(* change has at least every entry readdir has left still to do.           *)
KeyInv ==
    mishaps \subseteq {"crashed", "swallowed"} =>
        /\ memKey = diskKey /\ memKey # Broken
        /\ ~Rekeying => \A f \in Files : enc[f] \in {Absent, Torn, memKey}
        /\ Rekeying => /\ \A f \in Files : enc[f] \in {Absent, Torn, memKey, newKey}
                       /\ \A f \in Files \ todo : enc[f] \in {Absent, Torn, newKey}

(* Data: every file can be read, and where a call is about to remove one   *)
(* of the two forms of a file the other one is complete.                   *)
DataInv ==
    mishaps \subseteq {"crashed"} =>
        /\ \A f \in Files : f \in plain \/ enc[f] = memKey \/ (Rekeying /\ enc[f] = newKey)
        /\ pc = "encrypted" => enc[cur] = memKey
        /\ pc = "decrypted" => cur \in plain

(* The inductive invariant.                                                *)
IInv == TypeOK /\ ControlInv /\ KeyInv /\ DataInv

-----------------------------------------------------------------------------
(* The types: a key that encrypts a file was drawn, because a call that    *)
(* passed auth_verify_password works with a whole record.                  *)
LEMMA TypeStep == IInv /\ [Next]_vars => TypeOK'
<1> SUFFICES ASSUME IInv, [Next]_vars PROVE TypeOK'
  OBVIOUS
<1> USE FilesAssumption DEF IInv, TypeOK, Keys, Mishaps, ControlInv, Working
<1>1. CASE UNCHANGED vars
  BY <1>1 DEF vars
<1>2. CASE vault_ffi_init
  BY <1>2 DEF vault_ffi_init
<1>3. CASE vault_ffi_shutdown
  BY <1>3 DEF vault_ffi_shutdown
<1>4. CASE Crash
  BY <1>4 DEF Crash, catalog
<1>5. CASE vault_encrypt_ffi
  BY <1>5 DEF vault_encrypt_ffi, Enter, catalog
<1>6. CASE vault_decrypt_ffi
  BY <1>6 DEF vault_decrypt_ffi, Enter, Encrypted, catalog
<1>7. ASSUME NEW opened \in BOOLEAN, vault_change_password(opened) PROVE TypeOK'
  BY <1>7 DEF vault_change_password, Enter, Encrypted, catalog
<1>8. ASSUME NEW f \in Files, encrypt_open(f) PROVE TypeOK'
  BY <1>8 DEF encrypt_open, Skip, catalog
<1>9. ASSUME NEW f \in Files, decrypt_open(f) PROVE TypeOK'
  BY <1>9 DEF decrypt_open, catalog
<1>10. ASSUME NEW f \in Files, rekey_decrypt(f) PROVE TypeOK'
  BY <1>10 DEF rekey_decrypt, Abort, catalog
<1>11. ASSUME NEW lost \in BOOLEAN, encrypt_file(lost) PROVE TypeOK'
  BY <1>11 DEF encrypt_file, catalog
<1>12. ASSUME NEW lost \in BOOLEAN, decrypt_file(lost) PROVE TypeOK'
  BY <1>12 DEF decrypt_file, catalog
<1>13. ASSUME NEW lost \in BOOLEAN, rekey_encrypt(lost) PROVE TypeOK'
  BY <1>13 DEF rekey_encrypt, Abort, catalog
<1>14. CASE encrypt_fails
  BY <1>14 DEF encrypt_fails, Skip, catalog
<1>15. CASE encrypt_unlink
  BY <1>15 DEF encrypt_unlink, Skip, catalog
<1>16. ASSUME NEW call \in {"encrypt", "decrypt"}, Leave(call) PROVE TypeOK'
  BY <1>16 DEF Leave, catalog
<1>17. CASE decrypt_fails
  BY <1>17 DEF decrypt_fails, Skip, catalog
<1>18. CASE decrypt_unlink
  BY <1>18 DEF decrypt_unlink, Skip, catalog
<1>19. CASE rekey_swap
  <2>1. cur \in Files /\ newKey \in 0 .. salts
    BY <1>19 DEF rekey_swap
  <2>2. UNCHANGED <<plain, diskKey, memKey, newKey, salts>>
    BY <1>19 DEF rekey_swap, catalog
  <2>3. enc' \in [Files -> 0 .. salts \cup {Absent, Torn}]
    BY <1>19, <2>1 DEF rekey_swap
  <2> QED BY <1>19, <2>2, <2>3 DEF rekey_swap, Abort
<1>20. CASE rekey_commit
  BY <1>20 DEF rekey_commit
<1> QED BY <1>1, <1>2, <1>3, <1>4, <1>5, <1>6, <1>7, <1>8, <1>9, <1>10, <1>11,
       <1>12, <1>13, <1>14, <1>15, <1>16, <1>17, <1>18, <1>19, <1>20 DEF Next,
       Step

(* No call leaves a temporary behind or works on a file it did not list.   *)
LEMMA ControlStep == IInv /\ [Next]_vars => ControlInv'
<1> SUFFICES ASSUME IInv, [Next]_vars PROVE ControlInv'
  OBVIOUS
<1> USE FilesAssumption DEF IInv, ControlInv, Working, Holding, Encrypting, TypeOK,
        Keys, Mishaps
<1>1. CASE UNCHANGED vars
  BY <1>1 DEF vars
<1>2. CASE vault_ffi_init
  BY <1>2 DEF vault_ffi_init
<1>3. CASE vault_ffi_shutdown
  BY <1>3 DEF vault_ffi_shutdown
<1>4. CASE Crash
  BY <1>4 DEF Crash, catalog
<1>5. CASE vault_encrypt_ffi
  BY <1>5 DEF vault_encrypt_ffi, Enter, catalog
<1>6. CASE vault_decrypt_ffi
  BY <1>6 DEF vault_decrypt_ffi, Enter, Encrypted, catalog
<1>7. ASSUME NEW opened \in BOOLEAN, vault_change_password(opened) PROVE ControlInv'
  BY <1>7 DEF vault_change_password, Enter, Encrypted, catalog
<1>8. ASSUME NEW f \in Files, encrypt_open(f) PROVE ControlInv'
  BY <1>8 DEF encrypt_open, Skip, catalog
<1>9. ASSUME NEW f \in Files, decrypt_open(f) PROVE ControlInv'
  BY <1>9 DEF decrypt_open, catalog
<1>10. ASSUME NEW f \in Files, rekey_decrypt(f) PROVE ControlInv'
  BY <1>10 DEF rekey_decrypt, Abort, catalog
<1>11. ASSUME NEW lost \in BOOLEAN, encrypt_file(lost) PROVE ControlInv'
  BY <1>11 DEF encrypt_file, catalog
<1>12. ASSUME NEW lost \in BOOLEAN, decrypt_file(lost) PROVE ControlInv'
  BY <1>12 DEF decrypt_file, catalog
<1>13. ASSUME NEW lost \in BOOLEAN, rekey_encrypt(lost) PROVE ControlInv'
  BY <1>13 DEF rekey_encrypt, Abort, catalog
<1>14. CASE encrypt_fails
  BY <1>14 DEF encrypt_fails, Skip, catalog
<1>15. CASE encrypt_unlink
  BY <1>15 DEF encrypt_unlink, Skip, catalog
<1>16. ASSUME NEW call \in {"encrypt", "decrypt"}, Leave(call) PROVE ControlInv'
  BY <1>16 DEF Leave, catalog
<1>17. CASE decrypt_fails
  BY <1>17 DEF decrypt_fails, Skip, catalog
<1>18. CASE decrypt_unlink
  BY <1>18 DEF decrypt_unlink, Skip, catalog
<1>19. CASE rekey_swap
  BY <1>19 DEF rekey_swap, Abort, catalog
<1>20. CASE rekey_commit
  BY <1>20 DEF rekey_commit
<1> QED BY <1>1, <1>2, <1>3, <1>4, <1>5, <1>6, <1>7, <1>8, <1>9, <1>10, <1>11,
       <1>12, <1>13, <1>14, <1>15, <1>16, <1>17, <1>18, <1>19, <1>20 DEF Next,
       Step

(* A password change that reports success has re-encrypted every file.     *)
LEMMA KeyStep == IInv /\ [Next]_vars => KeyInv'
<1> SUFFICES ASSUME IInv, [Next]_vars PROVE KeyInv'
  OBVIOUS
<1> USE FilesAssumption DEF IInv, KeyInv, ControlInv, Working, Rekeying, TypeOK,
        Keys, Mishaps
<1>1. CASE UNCHANGED vars
  BY <1>1 DEF vars
<1>2. CASE vault_ffi_init
  BY <1>2 DEF vault_ffi_init
<1>3. CASE vault_ffi_shutdown
  BY <1>3 DEF vault_ffi_shutdown
<1>4. CASE Crash
  BY <1>4 DEF Crash, catalog
<1>5. CASE vault_encrypt_ffi
  BY <1>5 DEF vault_encrypt_ffi, Enter, catalog
<1>6. CASE vault_decrypt_ffi
  BY <1>6 DEF vault_decrypt_ffi, Enter, Encrypted, catalog
<1>7. ASSUME NEW opened \in BOOLEAN, vault_change_password(opened) PROVE KeyInv'
  BY <1>7 DEF vault_change_password, Enter, Encrypted, catalog
<1>8. ASSUME NEW f \in Files, encrypt_open(f) PROVE KeyInv'
  BY <1>8 DEF encrypt_open, Skip, catalog
<1>9. ASSUME NEW f \in Files, decrypt_open(f) PROVE KeyInv'
  BY <1>9 DEF decrypt_open, catalog
<1>10. ASSUME NEW f \in Files, rekey_decrypt(f) PROVE KeyInv'
  BY <1>10 DEF rekey_decrypt, Abort, catalog
<1>11. ASSUME NEW lost \in BOOLEAN, encrypt_file(lost) PROVE KeyInv'
  BY <1>11 DEF encrypt_file, catalog
<1>12. ASSUME NEW lost \in BOOLEAN, decrypt_file(lost) PROVE KeyInv'
  BY <1>12 DEF decrypt_file, catalog
<1>13. ASSUME NEW lost \in BOOLEAN, rekey_encrypt(lost) PROVE KeyInv'
  BY <1>13 DEF rekey_encrypt, Abort, catalog
<1>14. CASE encrypt_fails
  BY <1>14 DEF encrypt_fails, Skip, catalog
<1>15. CASE encrypt_unlink
  BY <1>15 DEF encrypt_unlink, Skip, catalog
<1>16. ASSUME NEW call \in {"encrypt", "decrypt"}, Leave(call) PROVE KeyInv'
  BY <1>16 DEF Leave, catalog
<1>17. CASE decrypt_fails
  BY <1>17 DEF decrypt_fails, Skip, catalog
<1>18. CASE decrypt_unlink
  BY <1>18 DEF decrypt_unlink, Skip, catalog
<1>19. CASE rekey_swap
  BY <1>19 DEF rekey_swap, Abort, catalog
<1>20. CASE rekey_commit
  BY <1>20 DEF rekey_commit
<1> QED BY <1>1, <1>2, <1>3, <1>4, <1>5, <1>6, <1>7, <1>8, <1>9, <1>10, <1>11,
       <1>12, <1>13, <1>14, <1>15, <1>16, <1>17, <1>18, <1>19, <1>20 DEF Next,
       Step

(* No call removes the last readable form of a file.                       *)
LEMMA DataStep == IInv /\ [Next]_vars => DataInv'
<1> SUFFICES ASSUME IInv, [Next]_vars PROVE DataInv'
  OBVIOUS
<1> USE FilesAssumption DEF IInv, DataInv, KeyInv, ControlInv, Working, Encrypting,
        Rekeying, TypeOK, Keys, Mishaps
<1>1. CASE UNCHANGED vars
  BY <1>1 DEF vars
<1>2. CASE vault_ffi_init
  BY <1>2 DEF vault_ffi_init
<1>3. CASE vault_ffi_shutdown
  BY <1>3 DEF vault_ffi_shutdown
<1>4. CASE Crash
  BY <1>4 DEF Crash, catalog
<1>5. CASE vault_encrypt_ffi
  BY <1>5 DEF vault_encrypt_ffi, Enter, catalog
<1>6. CASE vault_decrypt_ffi
  BY <1>6 DEF vault_decrypt_ffi, Enter, Encrypted, catalog
<1>7. ASSUME NEW opened \in BOOLEAN, vault_change_password(opened) PROVE DataInv'
  BY <1>7 DEF vault_change_password, Enter, Encrypted, catalog
<1>8. ASSUME NEW f \in Files, encrypt_open(f) PROVE DataInv'
  BY <1>8 DEF encrypt_open, Skip, catalog
<1>9. ASSUME NEW f \in Files, decrypt_open(f) PROVE DataInv'
  BY <1>9 DEF decrypt_open, catalog
<1>10. ASSUME NEW f \in Files, rekey_decrypt(f) PROVE DataInv'
  BY <1>10 DEF rekey_decrypt, Abort, catalog
<1>11. ASSUME NEW lost \in BOOLEAN, encrypt_file(lost) PROVE DataInv'
  BY <1>11 DEF encrypt_file, catalog
<1>12. ASSUME NEW lost \in BOOLEAN, decrypt_file(lost) PROVE DataInv'
  BY <1>12 DEF decrypt_file, catalog
<1>13. ASSUME NEW lost \in BOOLEAN, rekey_encrypt(lost) PROVE DataInv'
  BY <1>13 DEF rekey_encrypt, Abort, catalog
<1>14. CASE encrypt_fails
  BY <1>14 DEF encrypt_fails, Skip, catalog
<1>15. CASE encrypt_unlink
  BY <1>15 DEF encrypt_unlink, Skip, catalog
<1>16. ASSUME NEW call \in {"encrypt", "decrypt"}, Leave(call) PROVE DataInv'
  BY <1>16 DEF Leave, catalog
<1>17. CASE decrypt_fails
  BY <1>17 DEF decrypt_fails, Skip, catalog
<1>18. CASE decrypt_unlink
  BY <1>18 DEF decrypt_unlink, Skip, catalog
<1>19. CASE rekey_swap
  BY <1>19 DEF rekey_swap, Abort, catalog
<1>20. CASE rekey_commit
  BY <1>20 DEF rekey_commit
<1> QED BY <1>1, <1>2, <1>3, <1>4, <1>5, <1>6, <1>7, <1>8, <1>9, <1>10, <1>11,
       <1>12, <1>13, <1>14, <1>15, <1>16, <1>17, <1>18, <1>19, <1>20 DEF Next,
       Step

(* Initially every file is there as plaintext and nothing is under way.    *)
LEMMA InitHolds == Init => IInv
BY FilesAssumption
   DEF Init, IInv, TypeOK, ControlInv, KeyInv, DataInv, Working, Holding,
       Encrypting, Rekeying, Keys, Mishaps

(* The inductive invariant holds throughout.                               *)
THEOREM InvariantHolds == Spec => []IInv
BY InitHolds, TypeStep, ControlStep, KeyStep, DataStep, PTL DEF IInv, Spec

(* Every key a file of the vault is encrypted under was drawn by           *)
(* vault_change_password or is the first one.                              *)
THEOREM TypeCorrect == Spec => []TypeOK
BY InvariantHolds, PTL DEF IInv

(* However often the process is killed in the middle of an encryption or a *)
(* decryption, every file of the vault can be read, as plaintext or with a *)
(* key that catalog.dat or the running process knows, as long as no        *)
(* password change went wrong and the disk swallowed nothing.              *)
THEOREM NoFileLost == Spec => []DataKept
<1>1. IInv => DataKept
  BY FilesAssumption
     DEF IInv, DataKept, Recoverable, KnownKeys, DataInv, KeyInv, ControlInv,
         TypeOK, Rekeying, Keys
<1> QED BY <1>1, InvariantHolds, PTL

(* After a password change that reported success, and through everything   *)
(* that follows it, no file is left under the old key.                     *)
THEOREM AllUnderOneKey == Spec => []OneKey
<1>1. IInv => OneKey
  BY DEF IInv, OneKey, KeyInv, Rekeying
<1> QED BY <1>1, InvariantHolds, PTL

(* Whichever error path decrypt_file or rekey_vault_files takes, its       *)
(* plaintext temporary is gone when the call returns.                      *)
THEOREM NoPlaintextLeft == Spec => []ScratchCleaned
<1>1. IInv => ScratchCleaned
  BY DEF IInv, ScratchCleaned, ControlInv, Holding
<1> QED BY <1>1, InvariantHolds, PTL
=============================================================================
