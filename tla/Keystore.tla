------------------------------- MODULE Keystore -------------------------------
(***************************************************************************)
(* keystore/: key files, written by the import command and read when a     *)
(* relayer starts. Imports are processes of their own and may overlap. A   *)
(* key stands for its address, a file for what decrypting it gives.        *)
(***************************************************************************)
EXTENDS Naturals

CONSTANTS
    Keys,           \* private keys
    Passwords,
    Processes,      \* import commands
    NoKey           \* an error instead of a key

VARIABLES
    file,           \* the key files: per directory and address
    import          \* what each import command is doing

keystoreVars == <<file, import>>

Paths == {"keys", "/"} \X Keys

\* EncryptAndWriteToFile: the type is noted beside the encrypted key.
Encrypted(key, password) ==
    [state |-> "written", key |-> key, password |-> password, type |-> "secp256k1"]

KeyMapping == [ethereum |-> "secp256k1", substrate |-> "sr25519"]

\* Decrypt and DecryptKeypair: authenticated, so another password gives an
\* error; the key found must be the one the file names.
DecryptKeypair(content, password) ==
    IF content.password = password THEN content.key ELSE NoKey

\* ReadFromFileAndDecrypt: a file without content is no JSON.
ReadFromFileAndDecrypt(path, password, type) ==
    IF file[path].state = "written" /\ file[path].type = type
    THEN DecryptKeypair(file[path], password) ELSE NoKey

\* KeypairFromAddress, not insecure.
KeypairFromAddress(path, password, chainType) ==
    IF file[path].state = "missing" THEN NoKey
    ELSE ReadFromFileAndDecrypt(path, password, KeyMapping[chainType])

-------------------------------------------------------------------------------
InitKeystore ==
    /\ file = [path \in Paths |-> [state |-> "missing"]]
    /\ import = [p \in Processes |-> [state |-> "idle"]]

\* keystoreDir: its error is overwritten by the next one, and the path is then
\* that of the root directory.
KeystoreDir == {"keys", "/"}

\* Fault: a file that exists is opened and emptied.
ImportPrivKeyTruncates(p) ==
    /\ import[p].state = "idle"
    /\ \E key \in Keys, password \in Passwords, dir \in KeystoreDir :
           /\ file' = [file EXCEPT ![<<dir, key>>] = [state |-> "empty"]]
           /\ import' = [import EXCEPT ![p] =
                            [state |-> "open", path |-> <<dir, key>>, key |-> key,
                             password |-> password]]

\* ImportPrivKey up to the opened file, which must not exist.
ImportPrivKey(p) ==
    /\ import[p].state = "idle"
    /\ \E key \in Keys, password \in Passwords, dir \in KeystoreDir :
           IF file[<<dir, key>>].state = "missing"
           THEN /\ file' = [file EXCEPT ![<<dir, key>>] = [state |-> "empty"]]
                /\ import' = [import EXCEPT ![p] =
                                 [state |-> "open", path |-> <<dir, key>>, key |-> key,
                                  password |-> password]]
           ELSE import' = [import EXCEPT ![p] = [state |-> "error"]] /\ UNCHANGED file

\* The rest of it.
WriteKey(p) ==
    /\ import[p].state = "open"
    /\ file' = [file EXCEPT ![import[p].path] = Encrypted(import[p].key, import[p].password)]
    /\ import' = [import EXCEPT ![p].state = "ok"]

\* Encrypting or writing fails, or the process ends: the file stays, empty.
WriteKeyFails(p) ==
    /\ import[p].state = "open"
    /\ import' = [import EXCEPT ![p] = [state |-> "error"]]
    /\ UNCHANGED file

NextKeystore == \E p \in Processes : ImportPrivKey(p) \/ WriteKey(p) \/ WriteKeyFails(p)

-------------------------------------------------------------------------------
\* A key whose import reported success is read back from the path it reports
\* with the same password, and with no other, for an EVM chain and only for
\* one, whatever other imports of the same key were under way or come later.
\* (A key that landed in the root directory is there, where a relayer that is
\* configured with the key directory does not look.)
ImportedLoads ==
    \A p \in Processes : import[p].state = "ok" =>
        /\ KeypairFromAddress(import[p].path, import[p].password, "ethereum") = import[p].key
        /\ \A other \in Passwords, chainType \in {"ethereum", "substrate"} :
               KeypairFromAddress(import[p].path, other, chainType) # NoKey =>
                   other = import[p].password /\ chainType = "ethereum"

===============================================================================
