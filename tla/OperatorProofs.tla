---------------------------- MODULE OperatorProofs ----------------------------
(***************************************************************************)
(* What an operator sets and runs: the configuration, the import of a key, *)
(* and the commands of the EVM command line.                               *)
(***************************************************************************)
EXTENDS EVMCLI, Keystore, Configuration, FiniteSetTheorems, WellFoundedInduction, TLAPS

-------------------------------------------------------------------------------
(* Keystore: an import which reported success can be loaded, for any number *)
(* of keys, passwords and overlapping import commands.                      *)

KeystoreSpec == InitKeystore /\ [][NextKeystore]_keystoreVars

Missing == [state |-> "missing"]
Empty == [state |-> "empty"]

\* An import command that holds a file, or has written one.
Importing(state, path, key, password) ==
    [state |-> state, path |-> path, key |-> key, password |-> password]

Busy(state) ==
    {Importing(state, path, key, password) :
        path \in Paths, key \in Keys, password \in Passwords}

\* What the files and the commands are.
KeystoreType ==
    /\ file \in [Paths -> {Missing, Empty} \cup
                          {Encrypted(key, password) : key \in Keys, password \in Passwords}]
    /\ import \in [Processes -> {[state |-> "idle"], [state |-> "error"]}
                                \cup Busy("open") \cup Busy("ok")]

\* A command has the file it created for itself, empty, until it writes it.
SoleWriter ==
    \A p \in Processes : import[p].state = "open" =>
        /\ file[import[p].path] = Empty
        /\ \A q \in Processes \ {p} :
              import[q].state = "open" => import[q].path # import[p].path

\* Nothing touches a file after a successful import.
Written ==
    \A p \in Processes : import[p].state = "ok" =>
        file[import[p].path] = Encrypted(import[p].key, import[p].password)

\* The inductive invariant.
KeystoreInv == KeystoreType /\ SoleWriter /\ Written

\* The states a command can be in, by its record.
LEMMA CommandShape ==
    ASSUME KeystoreType, NEW p \in Processes
    PROVE  /\ import[p].state \in {"idle", "error", "open", "ok"}
           /\ import[p].state \in {"open", "ok"} =>
                 /\ import[p].path \in Paths /\ import[p].key \in Keys
                 /\ import[p].password \in Passwords
                 /\ import[p] = Importing(import[p].state, import[p].path, import[p].key,
                                          import[p].password)
<1>1. CASE import[p] \in {[state |-> "idle"], [state |-> "error"]}
  BY <1>1
<1>2. ASSUME NEW s \in {"open", "ok"}, import[p] \in Busy(s)
      PROVE  /\ import[p].state = s
             /\ import[p].path \in Paths /\ import[p].key \in Keys
             /\ import[p].password \in Passwords
             /\ import[p] = Importing(s, import[p].path, import[p].key, import[p].password)
  BY <1>2 DEF Busy, Importing
<1> QED
  BY <1>1, <1>2 DEF KeystoreType

\* The states of a file are told apart.
LEMMA ContentStates ==
    /\ Empty.state = "empty"
    /\ \A key, password : Encrypted(key, password).state = "written"
  BY DEF Empty, Encrypted

\* The exclusive open: a command gets a file only when there was none.
LEMMA ImportPrivKeyInv ==
    ASSUME KeystoreInv, NEW p \in Processes, ImportPrivKey(p)
    PROVE  KeystoreInv'
<1>1. KeystoreType /\ SoleWriter /\ Written
  BY DEF KeystoreInv
<1>2. PICK key \in Keys, password \in Passwords, dir \in KeystoreDir :
         IF file[<<dir, key>>].state = "missing"
         THEN /\ file' = [file EXCEPT ![<<dir, key>>] = [state |-> "empty"]]
              /\ import' = [import EXCEPT ![p] =
                               [state |-> "open", path |-> <<dir, key>>, key |-> key,
                                password |-> password]]
         ELSE import' = [import EXCEPT ![p] = [state |-> "error"]] /\ UNCHANGED file
  BY DEF ImportPrivKey
<1> DEFINE path == <<dir, key>>
<1>3. path \in Paths
  BY DEF Paths, KeystoreDir
<1> HIDE DEF path
<1>4. CASE file[path].state # "missing"
  <2>1. import' = [import EXCEPT ![p] = [state |-> "error"]] /\ file' = file
    BY <1>2, <1>4 DEF path
  <2>2. KeystoreType'
    BY <1>1, <2>1 DEF KeystoreType
  <2>3. SoleWriter' /\ Written'
    BY <1>1, <2>1 DEF KeystoreType, SoleWriter, Written
  <2> QED
    BY <2>2, <2>3 DEF KeystoreInv
<1>5. CASE file[path].state = "missing"
  <2> DEFINE new == Importing("open", path, key, password)
  <2>1. file' = [file EXCEPT ![path] = Empty] /\ import' = [import EXCEPT ![p] = new]
    BY <1>2, <1>5 DEF path, Empty, Importing
  <2>2. /\ new \in Busy("open") /\ new.state = "open" /\ new.path = path
    BY <1>3 DEF Busy, Importing
  <2> HIDE DEF new
  <2>3. KeystoreType'
    BY <1>1, <1>3, <2>1, <2>2 DEF KeystoreType
  <2>4. \A q \in Processes : import[q].state \in {"open", "ok"} => import[q].path # path
    BY <1>1, <1>5, ContentStates DEF SoleWriter, Written
  <2>5. \A q \in Processes : import[q].state \in {"open", "ok"} => import[q].path \in Paths
    BY <1>1, CommandShape
  <2>6. import \in [Processes -> {[state |-> "idle"], [state |-> "error"]}
                                 \cup Busy("open") \cup Busy("ok")]
        /\ DOMAIN file = Paths
    BY <1>1 DEF KeystoreType
  <2>7. SoleWriter'
    BY <1>1, <1>3, <2>1, <2>2, <2>4, <2>5, <2>6 DEF SoleWriter
  <2>8. Written'
    BY <1>1, <1>3, <2>1, <2>2, <2>4, <2>5, <2>6 DEF Written
  <2> QED
    BY <2>3, <2>7, <2>8 DEF KeystoreInv
<1> QED
  BY <1>4, <1>5

\* The command writes the file that it alone holds.
LEMMA WriteKeyInv ==
    ASSUME KeystoreInv, NEW p \in Processes, WriteKey(p)
    PROVE  KeystoreInv'
<1> DEFINE path == import[p].path
           key == import[p].key
           password == import[p].password
           new == Importing("ok", path, key, password)
<1>1. KeystoreType /\ SoleWriter /\ Written
  BY DEF KeystoreInv
<1>2. /\ import[p].state = "open" /\ path \in Paths /\ key \in Keys /\ password \in Passwords
      /\ import[p] = Importing("open", path, key, password)
  BY <1>1, CommandShape DEF WriteKey
<1>3. file' = [file EXCEPT ![path] = Encrypted(key, password)]
  BY DEF WriteKey
<1>4. import' = [import EXCEPT ![p] = new]
  <2>1. [import[p] EXCEPT !.state = "ok"] = new
    BY <1>2 DEF Importing
  <2> QED
    BY <2>1 DEF WriteKey
<1>5. /\ new \in Busy("ok") /\ new.state = "ok" /\ new.path = path /\ new.key = key
      /\ new.password = password
  BY <1>2 DEF Busy, Importing
<1>6. \A q \in Processes \ {p} : import[q].state \in {"open", "ok"} => import[q].path # path
  BY <1>1, <1>2, ContentStates DEF SoleWriter, Written
<1>7. \A q \in Processes : import[q].state \in {"open", "ok"} => import[q].path \in Paths
  BY <1>1, CommandShape
<1>8. import \in [Processes -> {[state |-> "idle"], [state |-> "error"]}
                               \cup Busy("open") \cup Busy("ok")]
      /\ DOMAIN file = Paths
  BY <1>1 DEF KeystoreType
<1> HIDE DEF path, key, password, new
<1>9. KeystoreType'
  BY <1>1, <1>2, <1>3, <1>4, <1>5 DEF KeystoreType
<1>10. SoleWriter'
  BY <1>1, <1>2, <1>3, <1>4, <1>5, <1>6, <1>7, <1>8 DEF SoleWriter
<1>11. Written'
  BY <1>1, <1>2, <1>3, <1>4, <1>5, <1>6, <1>7, <1>8 DEF Written
<1> QED
  BY <1>9, <1>10, <1>11 DEF KeystoreInv

\* A failed command leaves an empty file that nobody writes any more.
LEMMA WriteKeyFailsInv ==
    ASSUME KeystoreInv, NEW p \in Processes, WriteKeyFails(p)
    PROVE  KeystoreInv'
<1>1. KeystoreType'
  BY DEF WriteKeyFails, KeystoreInv, KeystoreType
<1>2. SoleWriter' /\ Written'
  BY DEF WriteKeyFails, KeystoreInv, KeystoreType, SoleWriter, Written
<1> QED
  BY <1>1, <1>2 DEF KeystoreInv

\* The invariant gives the property: decrypting is authenticated, and the
\* type beside the key is that of an EVM chain.
LEMMA WrittenLoads == KeystoreInv => ImportedLoads
<1> SUFFICES ASSUME KeystoreInv, NEW p \in Processes, import[p].state = "ok"
             PROVE  /\ KeypairFromAddress(import[p].path, import[p].password, "ethereum")
                         = import[p].key
                    /\ \A other \in Passwords, chainType \in {"ethereum", "substrate"} :
                          KeypairFromAddress(import[p].path, other, chainType) # NoKey =>
                              other = import[p].password /\ chainType = "ethereum"
  BY DEF ImportedLoads
<1>1. file[import[p].path] = Encrypted(import[p].key, import[p].password)
  BY DEF KeystoreInv, Written
<1> QED
  BY <1>1 DEF KeypairFromAddress, ReadFromFileAndDecrypt, DecryptKeypair, KeyMapping,
     Encrypted

\* A key whose import reported success is loaded with its password, and with
\* no other and for no other kind of chain.
THEOREM ImportsLoad == KeystoreSpec => []ImportedLoads
<1>1. InitKeystore => KeystoreInv
  BY DEF InitKeystore, KeystoreInv, KeystoreType, SoleWriter, Written, Missing
<1>2. KeystoreInv /\ [NextKeystore]_keystoreVars => KeystoreInv'
  <2> SUFFICES ASSUME KeystoreInv, [NextKeystore]_keystoreVars PROVE KeystoreInv'
    OBVIOUS
  <2>1. CASE UNCHANGED keystoreVars
    BY <2>1 DEF keystoreVars, KeystoreInv, KeystoreType, SoleWriter, Written
  <2>2. CASE NextKeystore
    BY <2>2, ImportPrivKeyInv, WriteKeyInv, WriteKeyFailsInv DEF NextKeystore
  <2> QED
    BY <2>1, <2>2
<1> QED
  BY <1>1, <1>2, WrittenLoads, PTL DEF KeystoreSpec

-------------------------------------------------------------------------------
(* Configuration: whatever a file holds.                                   *)

ConfigurationSpec == InitConfiguration /\ [][NextConfiguration]_conf

\* A configuration is made of a file that was accepted.
LEMMA LoadUsable ==
    ASSUME NEW raw \in RawConfigs, NEW known \in BOOLEAN, Load(raw, known)
    PROVE  UsableIfAccepted'
<1>1. /\ raw.id \in Ids \cup {NoId} /\ raw.confirmations \in Int
  BY ConfigurationAssumption DEF RawConfigs
<1>2. CASE conf' = [result |-> "error"]
  BY <1>2 DEF UsableIfAccepted
<1>3. CASE /\ ValidEVM(raw)
           /\ conf' = [result |-> "evm", raw |-> raw, config |-> NewEVMConfig(raw)]
  <2>1. /\ conf'.result = "evm" /\ conf'.raw = raw /\ conf'.config.id = raw.id
        /\ conf'.config.confirmations = OrDefault(raw.confirmations, DefaultConfirmations)
    BY <1>3 DEF NewEVMConfig
  <2>2. OrDefault(raw.confirmations, DefaultConfirmations) >= 1
    BY <1>1, <1>3, ConfigurationAssumption DEF ValidEVM, OrDefault
  <2> QED
    BY <1>1, <1>3, <2>1, <2>2 DEF UsableIfAccepted, ValidEVM, ValidGeneral
<1>4. CASE /\ ValidGeneral(raw)
           /\ conf' = [result |-> "substrate", raw |-> raw, config |-> NewSubstrateConfig(raw)]
  BY <1>1, <1>4 DEF UsableIfAccepted, ValidGeneral, NewSubstrateConfig
<1> QED
  BY <1>2, <1>3, <1>4 DEF Load

\* An accepted configuration has an id of a domain and, for an EVM chain, a
\* bridge and at least one confirmation, for every file.
THEOREM ConfigurationUsable == ConfigurationSpec => []UsableIfAccepted
<1>1. InitConfiguration => UsableIfAccepted
  BY DEF InitConfiguration, UsableIfAccepted
<1>2. UsableIfAccepted /\ [NextConfiguration]_conf => UsableIfAccepted'
  <2>1. ASSUME UsableIfAccepted, UNCHANGED conf PROVE UsableIfAccepted'
    BY <2>1 DEF UsableIfAccepted
  <2> QED
    BY <2>1, LoadUsable DEF NextConfiguration
<1> QED
  BY <1>1, <1>2, PTL DEF ConfigurationSpec

-------------------------------------------------------------------------------
(* The contracts                                                           *)

Methods ==
    {"adminAddRelayer", "adminChangeRelayerThreshold", "adminSetResource",
     "adminSetGenericResource", "adminSetBurnable", "adminSetDepositNonce",
     "adminPauseTransfers", "adminUnpauseTransfers", "adminWithdraw", "deposit",
     "voteProposal", "mint", "approve", "grantRole"}

\* The methods that a chain without any history can take.
Plain == Methods \ {"adminPauseTransfers", "adminUnpauseTransfers", "adminWithdraw", "deposit"}

\* Amounts are numbers, and what is there has code at an address already used.
StoreType(s, nonce) ==
    /\ s = [k \in DOMAIN s |-> s[k]]
    /\ \A k \in DOMAIN s :
          /\ k[1] \in {"code", "paused"} => k[2] \in 1..nonce
          /\ k[1] = "code" => k = <<"code", k[2]>>
          /\ k[1] \in {"balance", "allowance", "deposits"} => s[k] \in Nat

\* The amounts a transaction carries are numbers.
Sent(m) ==
    /\ m.fn = "mint" => m.n \in Nat \ {0}
    /\ m.fn = "approve" => m.n \in Nat
    /\ m.fn = "adminSetDepositNonce" => 2 \in DOMAIN m.args /\ m.args[2] \in Nat

\* Storage that was written.
Is(s, key, value) == key \in DOMAIN s /\ s[key] = value

\* A write, and everything else.
LEMMA Written1 ==
    ASSUME NEW s, NEW key, NEW value
    PROVE  /\ Is(Put(s, key, value), key, value)
           /\ DOMAIN Put(s, key, value) = DOMAIN s \cup {key}
           /\ \A k \in DOMAIN s : k # key => Put(s, key, value)[k] = s[k]
           /\ \A k, v : k # key => (Is(Put(s, key, value), k, v) <=> Is(s, k, v))
  BY DEF Is, Put

\* Writing what is there changes nothing.
LEMMA WrittenAgain ==
    ASSUME NEW s, NEW nonce, StoreType(s, nonce), NEW key, NEW value, Is(s, key, value)
    PROVE  Put(s, key, value) = s
  BY DEF Is, Put, StoreType

\* A write keeps the type of the storage.
LEMMA PutType ==
    ASSUME NEW s, NEW nonce, StoreType(s, nonce), NEW key, NEW value,
           key[1] # "code", key[1] = "paused" => key[2] \in 1..nonce,
           key[1] \in {"balance", "allowance", "deposits"} => value \in Nat
    PROVE  StoreType(Put(s, key, value), nonce)
  BY DEF Put, StoreType

\* So does a flag.
LEMMA FlagType ==
    ASSUME NEW s, NEW nonce, StoreType(s, nonce), NEW key,
           key[1] # "code", key[1] = "paused" => key[2] \in 1..nonce,
           key[1] \notin {"balance", "allowance", "deposits"}
    PROVE  StoreType(Put(s, key, TRUE), nonce) /\ StoreType(Put(s, key, FALSE), nonce)
  BY DEF Put, StoreType

\* A later nonce keeps it as well.
LEMMA NonceType ==
    ASSUME NEW s, NEW nonce \in Nat, NEW later \in Nat, nonce <= later, StoreType(s, nonce)
    PROVE  StoreType(s, later)
  BY DEF StoreType

\* Amounts and counts are numbers.
LEMMA GetNat ==
    ASSUME NEW s, NEW nonce, StoreType(s, nonce), NEW key,
           key[1] \in {"balance", "allowance", "deposits"}
    PROVE  Get(s, key, 0) \in Nat
  BY DEF Get, StoreType

\* What has code is at a used address.
LEMMA KindAddress ==
    ASSUME NEW s, NEW nonce, StoreType(s, nonce), NEW a, Kind(s, a) # "none"
    PROVE  a \in 1..nonce
<1>1. <<"code", a>> \in DOMAIN s
  BY DEF Kind, Get
<1> QED
  BY <1>1 DEF StoreType

\* What the methods that need no history write.
LEMMA PlainType ==
    ASSUME NEW s, NEW nonce, StoreType(s, nonce), NEW m, m.fn \in Plain, Sent(m)
    PROVE  StoreType(Applied(s, m), nonce)
<1> DEFINE to == m.to
           a == m.args
<1>1. CASE m.fn \in {"adminSetResource", "adminSetGenericResource"}
  <2>1. Applied(s, m) = Put(Put(s, <<"resource", to, a[2]>>, a[1]), <<"token", a[1], a[2]>>, a[3])
    BY <1>1 DEF Applied
  <2>2. StoreType(Put(s, <<"resource", to, a[2]>>, a[1]), nonce)
    BY PutType
  <2> QED
    BY <2>1, <2>2, PutType
<1>2. CASE m.fn = "mint"
  <2>1. CASE Kind(s, to) = "erc20"
    <3>1. Applied(s, m) = Put(s, <<"balance", to, a[1]>>, Get(s, <<"balance", to, a[1]>>, 0) + m.n)
      BY <1>2, <2>1 DEF Applied
    <3>2. Get(s, <<"balance", to, a[1]>>, 0) + m.n \in Nat
      BY <1>2, GetNat DEF Sent
    <3> QED
      BY <3>1, <3>2, PutType
  <2>2. CASE Kind(s, to) # "erc20"
    <3>1. Applied(s, m) = Put(s, <<"owner", to>>, a[1])
      BY <1>2, <2>2 DEF Applied
    <3> QED
      BY <3>1, PutType
  <2> QED
    BY <2>1, <2>2
<1>3. CASE m.fn = "approve"
  <2>1. CASE Kind(s, to) = "erc20"
    <3>1. Applied(s, m) = Put(s, <<"allowance", to, a[1]>>, m.n)
      BY <1>3, <2>1 DEF Applied
    <3> QED
      BY <1>3, <3>1, PutType DEF Sent
  <2>2. CASE Kind(s, to) # "erc20"
    <3>1. Applied(s, m) = Put(s, <<"approved", to>>, a[1])
      BY <1>3, <2>2 DEF Applied
    <3> QED
      BY <3>1, PutType
  <2> QED
    BY <2>1, <2>2
<1>4. CASE m.fn = "adminSetDepositNonce"
  <2>1. Applied(s, m) = Put(s, <<"deposits", to, a[1]>>, a[2])
    BY <1>4 DEF Applied
  <2> QED
    BY <1>4, <2>1, PutType DEF Sent
<1>5. CASE m.fn = "adminAddRelayer"
  <2> DEFINE key == <<"relayer", to, a[1]>>
  <2>1. Applied(s, m) = Put(s, key, TRUE) /\ key[1] = "relayer"
    BY <1>5 DEF Applied
  <2> HIDE DEF key
  <2>2. StoreType(Put(s, key, TRUE), nonce)
    BY <2>1, FlagType
  <2> QED
    BY <2>1, <2>2
<1>6. CASE m.fn = "adminChangeRelayerThreshold"
  <2>1. Applied(s, m) = Put(s, <<"threshold", to>>, m.n)
    BY <1>6 DEF Applied
  <2> QED
    BY <2>1, PutType
<1>7. CASE m.fn = "adminSetBurnable"
  <2> DEFINE key == <<"burnable", a[1], a[2]>>
  <2>1. Applied(s, m) = Put(s, key, TRUE) /\ key[1] = "burnable"
    BY <1>7 DEF Applied
  <2> HIDE DEF key
  <2>2. StoreType(Put(s, key, TRUE), nonce)
    BY <2>1, FlagType
  <2> QED
    BY <2>1, <2>2
<1>8. CASE m.fn = "voteProposal"
  <2> DEFINE key == <<"voted", to>>
  <2>1. Applied(s, m) = Put(s, key, TRUE) /\ key[1] = "voted"
    BY <1>8 DEF Applied
  <2> HIDE DEF key
  <2>2. StoreType(Put(s, key, TRUE), nonce)
    BY <2>1, FlagType
  <2> QED
    BY <2>1, <2>2
<1>9. CASE m.fn = "grantRole"
  <2> DEFINE key == <<"minter", to, a[1]>>
  <2>1. Applied(s, m) = Put(s, key, TRUE) /\ key[1] = "minter"
    BY <1>9 DEF Applied
  <2> HIDE DEF key
  <2>2. StoreType(Put(s, key, TRUE), nonce)
    BY <2>1, FlagType
  <2> QED
    BY <2>1, <2>2
<1> QED
  BY <1>1, <1>2, <1>3, <1>4, <1>5, <1>6, <1>7, <1>8, <1>9 DEF Plain, Methods

\* What a handler takes on deposit leaves balances that are numbers.
LEMMA TransferredType ==
    ASSUME NEW s, NEW nonce, StoreType(s, nonce), NEW h, NEW t, Takes(s, h, t)
    PROVE  StoreType(Transferred(s, h, t), nonce)
<1>1. CASE Kind(s, h) = "erc20Handler"
  <2> DEFINE paid == Put(Put(s, <<"balance", t, Sender>>, Get(s, <<"balance", t, Sender>>, 0) - 1),
                         <<"allowance", t, h>>, Get(s, <<"allowance", t, h>>, 0) - 1)
  <2>1. /\ Get(s, <<"balance", t, Sender>>, 0) - 1 \in Nat
        /\ Get(s, <<"allowance", t, h>>, 0) - 1 \in Nat
        /\ Get(s, <<"balance", t, h>>, 0) + 1 \in Nat
    <3>1. /\ Get(s, <<"balance", t, Sender>>, 0) \in Nat /\ Get(s, <<"allowance", t, h>>, 0) \in Nat
          /\ Get(s, <<"balance", t, h>>, 0) \in Nat
      BY GetNat
    <3>2. Get(s, <<"balance", t, Sender>>, 0) > 0 /\ Get(s, <<"allowance", t, h>>, 0) > 0
      BY <1>1 DEF Takes
    <3> QED
      BY <3>1, <3>2
  <2>2. StoreType(Put(s, <<"balance", t, Sender>>, Get(s, <<"balance", t, Sender>>, 0) - 1), nonce)
    BY <2>1, PutType
  <2>3. StoreType(paid, nonce)
    BY <2>1, <2>2, PutType
  <2>4. \/ Transferred(s, h, t) = paid
        \/ Transferred(s, h, t) = Put(paid, <<"balance", t, h>>, Get(s, <<"balance", t, h>>, 0) + 1)
    BY <1>1 DEF Transferred
  <2> HIDE DEF paid
  <2>5. StoreType(Put(paid, <<"balance", t, h>>, Get(s, <<"balance", t, h>>, 0) + 1), nonce)
    BY <2>1, <2>3, PutType
  <2> QED
    BY <2>3, <2>4, <2>5
<1>2. CASE Kind(s, h) = "erc721Handler"
  <2>1. PICK owner : Transferred(s, h, t) = Put(s, <<"owner", t>>, owner)
    BY <1>2 DEF Transferred
  <2> QED
    BY <2>1, PutType
<1>3. CASE Kind(s, h) \notin {"erc20Handler", "erc721Handler"}
  BY <1>3 DEF Transferred
<1> QED
  BY <1>1, <1>2, <1>3

\* A transaction that is executed keeps the type of the storage.
LEMMA AppliedType ==
    ASSUME NEW s, NEW nonce, StoreType(s, nonce), NEW m, m.fn \in Methods, Sent(m), Accepts(s, m)
    PROVE  StoreType(Applied(s, m), nonce)
<1> DEFINE to == m.to
           a == m.args
<1>1. CASE m.fn \in Plain
  BY <1>1, PlainType
<1>2. CASE m.fn \in {"adminPauseTransfers", "adminUnpauseTransfers"}
  <2>1. Kind(s, to) = "bridge"
    BY <1>2 DEF Accepts
  <2>2. to \in 1..nonce
    BY <2>1, KindAddress
  <2>3. \/ Applied(s, m) = Put(s, <<"paused", to>>, TRUE)
        \/ Applied(s, m) = Put(s, <<"paused", to>>, FALSE)
    BY <1>2 DEF Applied
  <2> DEFINE key == <<"paused", to>>
  <2>4. key[1] = "paused" /\ key[2] = to
    OBVIOUS
  <2> HIDE DEF key
  <2>5. StoreType(Put(s, key, TRUE), nonce) /\ StoreType(Put(s, key, FALSE), nonce)
    BY <2>2, <2>4, FlagType
  <2> QED
    BY <2>3, <2>5 DEF key
<1>3. CASE m.fn = "adminWithdraw"
  <2> DEFINE key == <<"balance", a[2], a[1]>>
  <2>1. Applied(s, m) = Put(s, key, s[key] - 1)
    BY <1>3 DEF Applied
  <2>2. Get(s, key, 0) > 0
    BY <1>3 DEF Accepts
  <2>3. s[key] - 1 \in Nat
    <3>1. Get(s, key, 0) \in Nat
      BY GetNat
    <3> QED
      BY <2>2, <3>1 DEF Get
  <2> QED
    BY <2>1, <2>3, PutType
<1>4. CASE m.fn = "deposit"
  <2> DEFINE h == Get(s, <<"resource", to, a[1]>>, Zero)
             t == TokenOf(s, to, a[1])
             given == Transferred(s, h, t)
             key == <<"deposits", to, a[2]>>
  <2>1. Takes(s, h, t)
    BY <1>4 DEF Accepts
  <2>2. StoreType(given, nonce)
    BY <2>1, TransferredType
  <2>3. Get(s, key, 0) + 1 \in Nat
    BY GetNat
  <2>4. Kind(s, h) # "none"
    BY <2>1 DEF Takes
  <2>5. h \in 1..nonce
    BY <2>4, KindAddress
  <2>6. h # Zero
    BY <2>5, CLIAssumption
  <2>7. h = s[<<"resource", to, a[1]>>]
    BY <2>6 DEF Get
  <2>8. Applied(s, m) = Put(given, key, Get(s, key, 0) + 1)
    BY <1>4, <2>7 DEF Applied
  <2> HIDE DEF given, key
  <2>9. key[1] = "deposits"
    BY DEF key
  <2> QED
    BY <2>2, <2>3, <2>8, <2>9, PutType
<1> QED
  BY <1>1, <1>2, <1>3, <1>4 DEF Plain, Methods

\* Setting a flag that is set changes nothing, and a flag is read as it was set.
LEMMA FlagAgain ==
    ASSUME NEW s, NEW nonce, StoreType(s, nonce), NEW key
    PROVE  /\ Put(Put(s, key, TRUE), key, TRUE) = Put(s, key, TRUE)
           /\ Put(Put(s, key, FALSE), key, FALSE) = Put(s, key, FALSE)
  BY DEF Put

\* A write of another field leaves the code alone.
LEMMA PutKind ==
    ASSUME NEW s, NEW key, NEW value, key[1] # "code"
    PROVE  \A a : Kind(Put(s, key, value), a) = Kind(s, a)
<1> TAKE a
<1>1. key # <<"code", a>>
  OBVIOUS
<1> QED
  BY <1>1 DEF Kind, Get, Put

\* Executing a transaction twice is executing it once, for all methods but
\* those that count something.
LEMMA AppliedTwice ==
    ASSUME NEW s, NEW nonce, StoreType(s, nonce), NEW m, m.fn \in Methods \ Counted
    PROVE  Applied(Applied(s, m), m) = Applied(s, m)
<1> DEFINE to == m.to
           a == m.args
<1>1. CASE m.fn \in {"adminSetResource", "adminSetGenericResource"}
  <2> DEFINE k == <<"resource", to, a[2]>>
             l == <<"token", a[1], a[2]>>
  <2>1. \A x : Applied(x, m) = Put(Put(x, k, a[1]), l, a[3])
    BY <1>1 DEF Applied
  <2>2. k # l
    OBVIOUS
  <2> HIDE DEF k, l
  <2>3. Put(Put(Put(Put(s, k, a[1]), l, a[3]), k, a[1]), l, a[3]) = Put(Put(s, k, a[1]), l, a[3])
    BY <2>2 DEF Put
  <2> QED
    BY <2>1, <2>3
<1>2. CASE m.fn = "approve"
  <2>1. CASE Kind(s, to) = "erc20"
    <3> DEFINE k == <<"allowance", to, a[1]>>
    <3>1. \A x : Kind(x, to) = "erc20" => Applied(x, m) = Put(x, k, m.n)
      BY <1>2 DEF Applied
    <3>2. k[1] # "code"
      OBVIOUS
    <3> HIDE DEF k
    <3>3. Kind(Put(s, k, m.n), to) = "erc20"
      BY <2>1, <3>2, PutKind
    <3>4. Put(Put(s, k, m.n), k, m.n) = Put(s, k, m.n)
      BY DEF Put
    <3> QED
      BY <2>1, <3>1, <3>3, <3>4
  <2>2. CASE Kind(s, to) # "erc20"
    <3> DEFINE k == <<"approved", to>>
    <3>1. \A x : Kind(x, to) # "erc20" => Applied(x, m) = Put(x, k, a[1])
      BY <1>2 DEF Applied
    <3>2. k[1] # "code"
      OBVIOUS
    <3> HIDE DEF k
    <3>3. Kind(Put(s, k, a[1]), to) # "erc20"
      BY <2>2, <3>2, PutKind
    <3>4. Put(Put(s, k, a[1]), k, a[1]) = Put(s, k, a[1])
      BY DEF Put
    <3> QED
      BY <2>2, <3>1, <3>3, <3>4
  <2> QED
    BY <2>1, <2>2
<1>3. CASE m.fn \in {"adminChangeRelayerThreshold", "adminSetDepositNonce"}
  <2>1. PICK k, v : \A x : Applied(x, m) = Put(x, k, v)
    <3>1. CASE m.fn = "adminChangeRelayerThreshold"
      <4>1. \A x : Applied(x, m) = Put(x, <<"threshold", to>>, m.n)
        BY <3>1 DEF Applied
      <4> QED
        BY <4>1
    <3>2. CASE m.fn = "adminSetDepositNonce"
      <4>1. \A x : Applied(x, m) = Put(x, <<"deposits", to, a[1]>>, a[2])
        BY <3>2 DEF Applied
      <4> QED
        BY <4>1
    <3> QED
      BY <1>3, <3>1, <3>2
  <2>2. Put(Put(s, k, v), k, v) = Put(s, k, v)
    BY DEF Put
  <2> QED
    BY <2>1, <2>2
<1>4. ASSUME NEW k, \A x : Applied(x, m) = Put(x, k, TRUE)
      PROVE  Applied(Applied(s, m), m) = Applied(s, m)
  <2>1. Applied(s, m) = Put(s, k, TRUE) /\ Applied(Put(s, k, TRUE), m) = Put(Put(s, k, TRUE), k, TRUE)
    BY <1>4, Zenon
  <2> QED
    BY <2>1, FlagAgain
<1>5. CASE m.fn = "adminUnpauseTransfers"
  <2> DEFINE k == <<"paused", to>>
  <2>1. \A x : Applied(x, m) = Put(x, k, FALSE)
    BY <1>5 DEF Applied
  <2> HIDE DEF k
  <2>2. Applied(s, m) = Put(s, k, FALSE) /\ Applied(Put(s, k, FALSE), m) = Put(Put(s, k, FALSE), k, FALSE)
    BY <2>1, Zenon
  <2> QED
    BY <2>2, FlagAgain
<1>6. CASE m.fn = "adminAddRelayer"
  <2>1. \A x : Applied(x, m) = Put(x, <<"relayer", to, a[1]>>, TRUE)
    BY <1>6 DEF Applied
  <2> QED
    BY <1>4, <2>1
<1>7. CASE m.fn = "adminSetBurnable"
  <2>1. \A x : Applied(x, m) = Put(x, <<"burnable", a[1], a[2]>>, TRUE)
    BY <1>7 DEF Applied
  <2> QED
    BY <1>4, <2>1
<1>8. CASE m.fn = "adminPauseTransfers"
  <2>1. \A x : Applied(x, m) = Put(x, <<"paused", to>>, TRUE)
    BY <1>8 DEF Applied
  <2> QED
    BY <1>4, <2>1
<1>9. CASE m.fn = "voteProposal"
  <2>1. \A x : Applied(x, m) = Put(x, <<"voted", to>>, TRUE)
    BY <1>9 DEF Applied
  <2> QED
    BY <1>4, <2>1
<1>10. CASE m.fn = "grantRole"
  <2>1. \A x : Applied(x, m) = Put(x, <<"minter", to, a[1]>>, TRUE)
    BY <1>10 DEF Applied
  <2> QED
    BY <1>4, <2>1
<1> QED
  BY <1>1, <1>2, <1>3, <1>5, <1>6, <1>7, <1>8, <1>9, <1>10 DEF Methods, Counted

\* A method that counts changes the storage.
LEMMA CountedChanges ==
    ASSUME NEW s, NEW nonce, StoreType(s, nonce), NEW m, m.fn \in Counted, Sent(m), Accepts(s, m),
           m.fn = "mint" => Kind(s, m.to) \in {"erc20", "erc721"}
    PROVE  Applied(s, m) # s
<1> DEFINE to == m.to
           a == m.args
<1>1. ASSUME NEW x, NEW key, NEW n \in Nat, NEW d \in Int, d # 0, Get(s, key, 0) = n
      PROVE  Put(x, key, n + d) # s
  <2>1. Put(x, key, n + d)[key] = n + d /\ key \in DOMAIN Put(x, key, n + d)
    BY DEF Put
  <2>2. n + d # n
    BY <1>1
  <2> QED
    BY <1>1, <2>1, <2>2 DEF Get
<1>2. CASE m.fn = "deposit"
  <2> DEFINE key == <<"deposits", to, a[2]>>
             given == Transferred(s, s[<<"resource", to, a[1]>>], TokenOf(s, to, a[1]))
  <2>1. Applied(s, m) = Put(given, key, Get(s, key, 0) + 1)
    BY <1>2 DEF Applied
  <2>2. Get(s, key, 0) \in Nat
    BY GetNat
  <2> HIDE DEF key, given
  <2> QED
    BY <1>1, <2>1, <2>2
<1>3. CASE m.fn = "adminWithdraw"
  <2> DEFINE key == <<"balance", a[2], a[1]>>
  <2>1. Applied(s, m) = Put(s, key, s[key] - 1) /\ Get(s, key, 0) > 0
    BY <1>3 DEF Applied, Accepts
  <2>2. Get(s, key, 0) \in Nat
    BY GetNat
  <2> HIDE DEF key
  <2>3. s[key] = Get(s, key, 0)
    BY <2>1, <2>2 DEF Get
  <2>4. Applied(s, m) = Put(s, key, Get(s, key, 0) + (-1))
    BY <2>1, <2>2, <2>3
  <2> QED
    BY <1>1, <2>2, <2>4
<1>4. CASE m.fn = "mint" /\ Kind(s, to) = "erc20"
  <2> DEFINE key == <<"balance", to, a[1]>>
  <2>1. Applied(s, m) = Put(s, key, Get(s, key, 0) + m.n)
    BY <1>4 DEF Applied
  <2>2. Get(s, key, 0) \in Nat /\ m.n \in Nat \ {0}
    BY <1>4, GetNat DEF Sent
  <2> HIDE DEF key
  <2>3. m.n \in Int /\ m.n # 0
    BY <2>2
  <2> QED
    BY <1>1, <2>1, <2>2, <2>3
<1>5. CASE m.fn = "mint" /\ Kind(s, to) = "erc721"
  <2> DEFINE key == <<"owner", to>>
  <2>1. Applied(s, m) = Put(s, key, a[1]) /\ key \notin DOMAIN s
    BY <1>5 DEF Applied, Accepts
  <2> HIDE DEF key
  <2>2. key \in DOMAIN Put(s, key, a[1])
    BY DEF Put
  <2> QED
    BY <2>1, <2>2
<1> QED
  BY <1>2, <1>3, <1>4, <1>5 DEF Counted

\* A flag that was set.
IsSet(s, key) == key \in DOMAIN s /\ s[key] = TRUE

\* The fields a new contract has.
NewFields == {"code", "bridge", "threshold", "relayer", "minter"}

\* What a new contract at address a is, in storage t made of s.
Adds(s, t, a, kind, bridge, threshold, relayers) ==
    /\ t = [k \in DOMAIN t |-> t[k]]
    /\ Is(t, <<"code", a>>, kind)
    /\ kind \in Handlers => Is(t, <<"bridge", a>>, bridge)
    /\ kind = "bridge" => /\ Is(t, <<"threshold", a>>, threshold)
                          /\ \A r \in relayers : IsSet(t, <<"relayer", a, r>>)
    /\ \A k \in DOMAIN s : k \in DOMAIN t /\ (k[2] # a => t[k] = s[k])
    /\ \A k \in DOMAIN t : k \in DOMAIN s \/ (k[1] \in NewFields /\ k[2] = a)
    /\ \A k \in DOMAIN t : k \in DOMAIN s \/ k[1] # "code" \/ k = <<"code", a>>
    /\ \A k \in DOMAIN t : k[1] \notin NewFields => t[k] = s[k]

\* What a constructor writes.
LEMMA CreatedAdds ==
    ASSUME NEW s, NEW a, NEW kind \in Kinds, NEW bridge, NEW threshold, NEW relayers
    PROVE  Adds(s, Created(s, a, kind, bridge, threshold, relayers), a, kind, bridge, threshold,
                relayers)
<1> DEFINE coded == Put(s, <<"code", a>>, kind)
           t == Created(s, a, kind, bridge, threshold, relayers)
<1>1. CASE kind = "bridge"
  <2> DEFINE known == {<<"relayer", a, r>> : r \in relayers}
             led == Put(coded, <<"threshold", a>>, threshold)
  <2>1. t = [k \in DOMAIN led \cup known |-> IF k \in known THEN TRUE ELSE led[k]]
    BY <1>1 DEF Created
  <2>2. \A k \in known : k[1] = "relayer" /\ k[2] = a
    OBVIOUS
  <2>3. \A r \in relayers : <<"relayer", a, r>> \in known
    OBVIOUS
  <2>4. /\ <<"code", a>> \notin known /\ <<"threshold", a>> \notin known
        /\ <<"code", a>> # <<"threshold", a>>
    BY <2>2
  <2>5. DOMAIN led = DOMAIN s \cup {<<"code", a>>, <<"threshold", a>>}
        /\ led[<<"code", a>>] = kind /\ led[<<"threshold", a>>] = threshold
        /\ \A k \in DOMAIN s : k # <<"code", a>> /\ k # <<"threshold", a>> => led[k] = s[k]
    BY <2>4 DEF Put
  <2> HIDE DEF known, led, t
  <2>6. /\ t = [k \in DOMAIN t |-> t[k]] /\ DOMAIN t = DOMAIN led \cup known
        /\ \A k \in DOMAIN led : k \notin known => t[k] = led[k]
    BY <2>1
  <2>7. \A k \in known : t[k] = TRUE
    BY <2>1
  <2>8. \A r \in relayers : IsSet(t, <<"relayer", a, r>>)
    BY <2>3, <2>6, <2>7 DEF IsSet
  <2>9. Is(t, <<"code", a>>, kind) /\ Is(t, <<"threshold", a>>, threshold)
    BY <2>4, <2>5, <2>6 DEF Is
  <2>10. \A k \in DOMAIN s : k \in DOMAIN t /\ (k[2] # a => t[k] = s[k])
    BY <2>2, <2>5, <2>6
  <2>11. \A k \in DOMAIN t : k \in DOMAIN s \/ (k[1] \in NewFields /\ k[2] = a)
    BY <2>2, <2>5, <2>6 DEF NewFields
  <2>12. \A k \in DOMAIN t : k[1] \notin NewFields => t[k] = s[k]
    BY <2>2, <2>5, <2>6 DEF NewFields
  <2>13. kind \notin Handlers
    BY <1>1 DEF Handlers
  <2>14. \A k \in DOMAIN t : k \in DOMAIN s \/ k[1] # "code" \/ k = <<"code", a>>
    BY <2>2, <2>5, <2>6
  <2> QED
    BY <2>6, <2>8, <2>9, <2>10, <2>11, <2>12, <2>13, <2>14 DEF Adds, t
<1>2. CASE kind \in Handlers
  <2>1. t = Put(coded, <<"bridge", a>>, bridge)
    BY <1>2 DEF Created, Handlers
  <2>2. /\ t = [k \in DOMAIN t |-> t[k]]
        /\ DOMAIN t = DOMAIN s \cup {<<"code", a>>, <<"bridge", a>>}
        /\ t[<<"code", a>>] = kind /\ t[<<"bridge", a>>] = bridge
        /\ \A k \in DOMAIN s : k # <<"code", a>> /\ k # <<"bridge", a>> => t[k] = s[k]
    BY <2>1 DEF Put
  <2> HIDE DEF t
  <2> QED
    BY <1>2, <2>2 DEF Adds, Is, NewFields, Handlers, t
<1>3. CASE kind \in {"erc20", "erc721"}
  <2>1. t = Put(coded, <<"minter", a, Sender>>, TRUE)
    BY <1>3 DEF Created
  <2>2. /\ t = [k \in DOMAIN t |-> t[k]]
        /\ DOMAIN t = DOMAIN s \cup {<<"code", a>>, <<"minter", a, Sender>>}
        /\ t[<<"code", a>>] = kind
        /\ \A k \in DOMAIN s : k # <<"code", a>> /\ k # <<"minter", a, Sender>> => t[k] = s[k]
    BY <2>1 DEF Put
  <2> HIDE DEF t
  <2> QED
    BY <1>3, <2>2 DEF Adds, Is, NewFields, Handlers, t
<1>4. CASE kind = "assetStore"
  <2>1. t = coded
    BY <1>4 DEF Created
  <2>2. /\ t = [k \in DOMAIN t |-> t[k]]
        /\ DOMAIN t = DOMAIN s \cup {<<"code", a>>}
        /\ t[<<"code", a>>] = kind
        /\ \A k \in DOMAIN s : k # <<"code", a>> => t[k] = s[k]
    BY <2>1 DEF Put
  <2> HIDE DEF t
  <2> QED
    BY <1>4, <2>2 DEF Adds, Is, NewFields, Handlers, t
<1> QED
  BY <1>1, <1>2, <1>3, <1>4 DEF Kinds

\* A new contract at the next address keeps the type of the storage.
LEMMA CreatedType ==
    ASSUME NEW s, NEW nonce \in Nat, StoreType(s, nonce), NEW kind \in Kinds, NEW bridge,
           NEW threshold, NEW relayers
    PROVE  StoreType(Created(s, nonce + 1, kind, bridge, threshold, relayers), nonce + 1)
<1> DEFINE t == Created(s, nonce + 1, kind, bridge, threshold, relayers)
<1>1. Adds(s, t, nonce + 1, kind, bridge, threshold, relayers)
  BY CreatedAdds
<1> HIDE DEF t
<1>2. nonce + 1 \in 1..(nonce + 1) /\ 1..nonce \subseteq 1..(nonce + 1)
  OBVIOUS
<1>3. ASSUME NEW k \in DOMAIN t
      PROVE  /\ k[1] \in {"code", "paused"} => k[2] \in 1..(nonce + 1)
             /\ k[1] \in {"balance", "allowance", "deposits"} => t[k] \in Nat
  <2>1. k \in DOMAIN s \/ (k[1] \in NewFields /\ k[2] = nonce + 1)
    BY <1>1 DEF Adds
  <2>2. k[1] \notin NewFields => t[k] = s[k] /\ k \in DOMAIN s
    BY <1>1, <2>1 DEF Adds
  <2> QED
    BY <1>2, <2>1, <2>2 DEF StoreType, NewFields
<1>5. ASSUME NEW k \in DOMAIN t, k[1] = "code"
      PROVE  k = <<"code", k[2]>>
  <2>1. k \in DOMAIN s \/ k = <<"code", nonce + 1>>
    BY <1>1, <1>5 DEF Adds
  <2> QED
    BY <1>5, <2>1 DEF StoreType
<1>4. t = [k \in DOMAIN t |-> t[k]]
  BY <1>1 DEF Adds
<1> QED
  BY <1>3, <1>4, <1>5 DEF StoreType, t

-------------------------------------------------------------------------------
(* The steps of local-setup                                                *)

\* Sequence w is s of n steps followed by t of m steps.
Follows(s, t, w, S, n, m) ==
    /\ w \in Seq(S) /\ Len(w) = n + m
    /\ \A i \in 1..n : w[i] = s[i]
    /\ \A i \in 1..m : w[n + i] = t[i]

\* Where the members of two sequences are in their concatenation.
LEMMA Appended ==
    ASSUME NEW S, NEW s \in Seq(S), NEW t \in Seq(S), NEW n \in Nat, NEW m \in Nat,
           Len(s) = n, Len(t) = m
    PROVE  Follows(s, t, s \o t, S, n, m)
  BY DEF Follows

\* On each chain seven contracts are deployed, then the resources are set up.
Local(s, c) ==
    /\ Len(s) = 18
    /\ s[1] = BridgeDeployment(c, 1, Relayers)
    /\ s[2] = Deployment(c, "erc721")
    /\ s[3] = Deployment(c, "erc721Handler")
    /\ s[4] = Deployment(c, "erc20")
    /\ s[5] = Deployment(c, "erc20Handler")
    /\ s[6] = Deployment(c, "assetStore")
    /\ s[7] = Deployment(c, "generic")
    /\ s[8] = AdminSetResource(c, "bridge", "erc20Handler", "r0", "erc20")
    /\ s[9] = MintTokens(c, "erc20", Sender, Units)
    /\ s[10] = ApproveTokens(c, "erc20", "erc20Handler", Units)
    /\ s[11] = View(c, "erc20")
    /\ s[12] = Transaction(c, "erc20", "grantRole", <<"erc20Handler">>)
    /\ s[13] = SetBurnableInput(c, "bridge", "erc20Handler", "erc20")
    /\ s[14] = AdminSetResource(c, "bridge", "erc721Handler", "r2", "erc721")
    /\ s[15] = View(c, "erc721")
    /\ s[16] = Transaction(c, "erc721", "grantRole", <<"erc721Handler">>)
    /\ s[17] = SetBurnableInput(c, "bridge", "erc721Handler", "erc721")
    /\ s[18] = AdminSetGenericResource(c, "bridge", "generic", "r1", "assetStore")

\* The steps of PrepareLocal, one by one.
LEMMA LocalSteps ==
    ASSUME NEW c
    PROVE  /\ Local(PrepareLocal(c), c)
           /\ \E S : PrepareLocal(c) \in Seq(S)
<1> DEFINE
     b == <<BridgeDeployment(c, 1, Relayers)>>
     d7 == <<Deployment(c, "erc721"),
             Deployment(c, "erc721Handler")>>
     d2 == <<Deployment(c, "erc20"),
             Deployment(c, "erc20Handler")>>
     dg == <<Deployment(c, "assetStore"),
             Deployment(c, "generic")>>
     r2 == <<AdminSetResource(c, "bridge", "erc20Handler", "r0", "erc20"),
             MintTokens(c, "erc20", Sender, Units),
             ApproveTokens(c, "erc20", "erc20Handler", Units)>>
     m2 == <<View(c, "erc20"),
             Transaction(c, "erc20", "grantRole", <<"erc20Handler">>)>>
     u2 == <<SetBurnableInput(c, "bridge", "erc20Handler", "erc20")>>
     r7 == <<AdminSetResource(c, "bridge", "erc721Handler", "r2", "erc721")>>
     m7 == <<View(c, "erc721"),
             Transaction(c, "erc721", "grantRole", <<"erc721Handler">>)>>
     u7 == <<SetBurnableInput(c, "bridge", "erc721Handler", "erc721")>>
     g == <<AdminSetGenericResource(c, "bridge", "generic", "r1", "assetStore")>>
     S == {BridgeDeployment(c, 1, Relayers),
           Deployment(c, "erc721"),
           Deployment(c, "erc721Handler"),
           Deployment(c, "erc20"),
           Deployment(c, "erc20Handler"),
           Deployment(c, "assetStore"),
           Deployment(c, "generic"),
           AdminSetResource(c, "bridge", "erc20Handler", "r0", "erc20"),
           MintTokens(c, "erc20", Sender, Units),
           ApproveTokens(c, "erc20", "erc20Handler", Units),
           View(c, "erc20"),
           Transaction(c, "erc20", "grantRole", <<"erc20Handler">>),
           SetBurnableInput(c, "bridge", "erc20Handler", "erc20"),
           AdminSetResource(c, "bridge", "erc721Handler", "r2", "erc721"),
           View(c, "erc721"),
           Transaction(c, "erc721", "grantRole", <<"erc721Handler">>),
           SetBurnableInput(c, "bridge", "erc721Handler", "erc721"),
           AdminSetGenericResource(c, "bridge", "generic", "r1", "assetStore")}
<1>1. /\ b \in Seq(S) /\ Len(b) = 1
      /\ d7 \in Seq(S) /\ Len(d7) = 2
      /\ d2 \in Seq(S) /\ Len(d2) = 2
      /\ dg \in Seq(S) /\ Len(dg) = 2
      /\ r2 \in Seq(S) /\ Len(r2) = 3
      /\ m2 \in Seq(S) /\ Len(m2) = 2
      /\ u2 \in Seq(S) /\ Len(u2) = 1
      /\ r7 \in Seq(S) /\ Len(r7) = 1
      /\ m7 \in Seq(S) /\ Len(m7) = 2
      /\ u7 \in Seq(S) /\ Len(u7) = 1
      /\ g \in Seq(S) /\ Len(g) = 1
  OBVIOUS
<1>2. /\ b[1] = BridgeDeployment(c, 1, Relayers)
      /\ d7[1] = Deployment(c, "erc721") /\ d7[2] = Deployment(c, "erc721Handler")
      /\ d2[1] = Deployment(c, "erc20") /\ d2[2] = Deployment(c, "erc20Handler")
      /\ dg[1] = Deployment(c, "assetStore") /\ dg[2] = Deployment(c, "generic")
      /\ r2[1] = AdminSetResource(c, "bridge", "erc20Handler", "r0", "erc20")
      /\ r2[2] = MintTokens(c, "erc20", Sender, Units)
      /\ r2[3] = ApproveTokens(c, "erc20", "erc20Handler", Units)
      /\ m2[1] = View(c, "erc20")
      /\ m2[2] = Transaction(c, "erc20", "grantRole", <<"erc20Handler">>)
      /\ u2[1] = SetBurnableInput(c, "bridge", "erc20Handler", "erc20")
      /\ r7[1] = AdminSetResource(c, "bridge", "erc721Handler", "r2", "erc721")
      /\ m7[1] = View(c, "erc721")
      /\ m7[2] = Transaction(c, "erc721", "grantRole", <<"erc721Handler">>)
      /\ u7[1] = SetBurnableInput(c, "bridge", "erc721Handler", "erc721")
      /\ g[1] = AdminSetGenericResource(c, "bridge", "generic", "r1", "assetStore")
  OBVIOUS
<1>3. PrepareLocal(c) =
         (((((b \o d7) \o d2) \o dg) \o ((r2 \o m2) \o u2)) \o ((r7 \o m7) \o u7)) \o g
  BY DEF PrepareLocal, DeployErc721, DeployErc20, DeployGeneric, PrepareErc20, PrepareErc721,
     PrepareGeneric, AddMinter, AddMinter721
<1> HIDE DEF S, b, d7, d2, dg, r2, m2, u2, r7, m7, u7, g
<1> DEFINE w1 == r2 \o m2
<1>4. Follows(r2, m2, w1, S, 3, 2)
  <2>1. 3 \in Nat /\ 2 \in Nat
    OBVIOUS
  <2> QED
    BY <2>1, <1>1, Appended, Zenon
<1> HIDE DEF w1
<1>5. /\ w1 \in Seq(S) /\ Len(w1) = 5
      /\ w1[1] = r2[1] /\ w1[2] = r2[2] /\ w1[3] = r2[3] /\ w1[4] = m2[1]
      /\ w1[5] = m2[2]
  BY <1>4, <1>1 DEF Follows
<1> DEFINE w2 == w1 \o u2
<1>6. Follows(w1, u2, w2, S, 5, 1)
  <2>1. 5 \in Nat /\ 1 \in Nat
    OBVIOUS
  <2> QED
    BY <2>1, <1>1, <1>5, Appended, Zenon
<1> HIDE DEF w2
<1>7. /\ w2 \in Seq(S) /\ Len(w2) = 6
      /\ w2[1] = r2[1] /\ w2[2] = r2[2] /\ w2[3] = r2[3] /\ w2[4] = m2[1]
      /\ w2[5] = m2[2] /\ w2[6] = u2[1]
  BY <1>6, <1>1, <1>5 DEF Follows
<1> DEFINE w3 == r7 \o m7
<1>8. Follows(r7, m7, w3, S, 1, 2)
  <2>1. 1 \in Nat /\ 2 \in Nat
    OBVIOUS
  <2> QED
    BY <2>1, <1>1, Appended, Zenon
<1> HIDE DEF w3
<1>9. /\ w3 \in Seq(S) /\ Len(w3) = 3
      /\ w3[1] = r7[1] /\ w3[2] = m7[1] /\ w3[3] = m7[2]
  BY <1>8, <1>1 DEF Follows
<1> DEFINE w4 == w3 \o u7
<1>10. Follows(w3, u7, w4, S, 3, 1)
  <2>1. 3 \in Nat /\ 1 \in Nat
    OBVIOUS
  <2> QED
    BY <2>1, <1>1, <1>9, Appended, Zenon
<1> HIDE DEF w4
<1>11. /\ w4 \in Seq(S) /\ Len(w4) = 4
      /\ w4[1] = r7[1] /\ w4[2] = m7[1] /\ w4[3] = m7[2] /\ w4[4] = u7[1]
  BY <1>10, <1>1, <1>9 DEF Follows
<1> DEFINE w5 == b \o d7
<1>12. Follows(b, d7, w5, S, 1, 2)
  <2>1. 1 \in Nat /\ 2 \in Nat
    OBVIOUS
  <2> QED
    BY <2>1, <1>1, Appended, Zenon
<1> HIDE DEF w5
<1>13. /\ w5 \in Seq(S) /\ Len(w5) = 3
      /\ w5[1] = b[1] /\ w5[2] = d7[1] /\ w5[3] = d7[2]
  BY <1>12, <1>1 DEF Follows
<1> DEFINE w6 == w5 \o d2
<1>14. Follows(w5, d2, w6, S, 3, 2)
  <2>1. 3 \in Nat /\ 2 \in Nat
    OBVIOUS
  <2> QED
    BY <2>1, <1>1, <1>13, Appended, Zenon
<1> HIDE DEF w6
<1>15. /\ w6 \in Seq(S) /\ Len(w6) = 5
      /\ w6[1] = b[1] /\ w6[2] = d7[1] /\ w6[3] = d7[2] /\ w6[4] = d2[1]
      /\ w6[5] = d2[2]
  BY <1>14, <1>1, <1>13 DEF Follows
<1> DEFINE w7 == w6 \o dg
<1>16. Follows(w6, dg, w7, S, 5, 2)
  <2>1. 5 \in Nat /\ 2 \in Nat
    OBVIOUS
  <2> QED
    BY <2>1, <1>1, <1>15, Appended, Zenon
<1> HIDE DEF w7
<1>17. /\ w7 \in Seq(S) /\ Len(w7) = 7
      /\ w7[1] = b[1] /\ w7[2] = d7[1] /\ w7[3] = d7[2] /\ w7[4] = d2[1]
      /\ w7[5] = d2[2] /\ w7[6] = dg[1] /\ w7[7] = dg[2]
  BY <1>16, <1>1, <1>15 DEF Follows
<1> DEFINE w8 == w7 \o w2
<1>18. Follows(w7, w2, w8, S, 7, 6)
  <2>1. 7 \in Nat /\ 6 \in Nat
    OBVIOUS
  <2> QED
    BY <2>1, <1>17, <1>7, Appended, Zenon
<1> HIDE DEF w8
<1>19. /\ w8 \in Seq(S) /\ Len(w8) = 13
      /\ w8[1] = b[1] /\ w8[2] = d7[1] /\ w8[3] = d7[2] /\ w8[4] = d2[1]
      /\ w8[5] = d2[2] /\ w8[6] = dg[1] /\ w8[7] = dg[2] /\ w8[8] = r2[1]
      /\ w8[9] = r2[2] /\ w8[10] = r2[3] /\ w8[11] = m2[1] /\ w8[12] = m2[2]
      /\ w8[13] = u2[1]
  BY <1>18, <1>17, <1>7 DEF Follows
<1> DEFINE w9 == w8 \o w4
<1>20. Follows(w8, w4, w9, S, 13, 4)
  <2>1. 13 \in Nat /\ 4 \in Nat
    OBVIOUS
  <2> QED
    BY <2>1, <1>11, <1>19, Appended, Zenon
<1> HIDE DEF w9
<1>21. /\ w9 \in Seq(S) /\ Len(w9) = 17
      /\ w9[1] = b[1] /\ w9[2] = d7[1] /\ w9[3] = d7[2] /\ w9[4] = d2[1]
      /\ w9[5] = d2[2] /\ w9[6] = dg[1] /\ w9[7] = dg[2] /\ w9[8] = r2[1]
      /\ w9[9] = r2[2] /\ w9[10] = r2[3] /\ w9[11] = m2[1] /\ w9[12] = m2[2]
      /\ w9[13] = u2[1] /\ w9[14] = r7[1] /\ w9[15] = m7[1] /\ w9[16] = m7[2]
      /\ w9[17] = u7[1]
  BY <1>20, <1>11, <1>19 DEF Follows
<1> DEFINE w == w9 \o g
<1>22. Follows(w9, g, w, S, 17, 1)
  <2>1. 17 \in Nat /\ 1 \in Nat
    OBVIOUS
  <2> QED
    BY <2>1, <1>1, <1>21, Appended, Zenon
<1> HIDE DEF w
<1>23. /\ w \in Seq(S) /\ Len(w) = 18
      /\ w[1] = b[1] /\ w[2] = d7[1] /\ w[3] = d7[2] /\ w[4] = d2[1]
      /\ w[5] = d2[2] /\ w[6] = dg[1] /\ w[7] = dg[2] /\ w[8] = r2[1]
      /\ w[9] = r2[2] /\ w[10] = r2[3] /\ w[11] = m2[1] /\ w[12] = m2[2]
      /\ w[13] = u2[1] /\ w[14] = r7[1] /\ w[15] = m7[1] /\ w[16] = m7[2]
      /\ w[17] = u7[1] /\ w[18] = g[1]
  BY <1>22, <1>1, <1>21 DEF Follows
<1>24. PrepareLocal(c) = w
  BY <1>3 DEF w1, w2, w3, w4, w5, w6, w7, w8, w9, w
<1> QED
  BY <1>2, <1>23, <1>24 DEF Local

\* The place of each deployment.
Place(kind) ==
    CASE kind = "bridge" -> 1 [] kind = "erc721" -> 2 [] kind = "erc721Handler" -> 3
      [] kind = "erc20" -> 4 [] kind = "erc20Handler" -> 5 [] kind = "assetStore" -> 6
      [] kind = "generic" -> 7

\* After d steps on a chain its contracts are at new addresses (above low, the
\* nonce at the start), the handlers answer to the bridge, and the bridge is
\* not paused and has its relayers and threshold.
ContractsUp(s, e, d, low, nonce) ==
    /\ DOMAIN e = {k \in Kinds : Place(k) <= d}
    /\ \A k \in DOMAIN e : /\ e[k] \in (low + 1)..nonce
                           /\ Is(s, <<"code", e[k]>>, k)
                           /\ k \in Handlers => Is(s, <<"bridge", e[k]>>, e["bridge"])
    /\ d >= 1 => /\ Is(s, <<"threshold", e["bridge"]>>, 1)
                 /\ <<"paused", e["bridge"]>> \notin DOMAIN s
                 /\ \A r \in Relayers : IsSet(s, <<"relayer", e["bridge"], r>>)

\* What the transactions have set up after d steps.
ResourcesUp(s, e, d) ==
    /\ d >= 8 => /\ Is(s, <<"resource", e["bridge"], "r0">>, e["erc20Handler"])
                 /\ Is(s, <<"token", e["erc20Handler"], "r0">>, e["erc20"])
    /\ d >= 9 => Get(s, <<"balance", e["erc20"], Sender>>, 0) > 0
    /\ d >= 10 => Is(s, <<"allowance", e["erc20"], e["erc20Handler"]>>, Units)
    /\ d >= 12 => IsSet(s, <<"minter", e["erc20"], e["erc20Handler"]>>)
    /\ d >= 13 => IsSet(s, <<"burnable", e["erc20Handler"], e["erc20"]>>)
    /\ d >= 14 => /\ Is(s, <<"resource", e["bridge"], "r2">>, e["erc721Handler"])
                  /\ Is(s, <<"token", e["erc721Handler"], "r2">>, e["erc721"])
    /\ d >= 16 => IsSet(s, <<"minter", e["erc721"], e["erc721Handler"]>>)
    /\ d >= 17 => IsSet(s, <<"burnable", e["erc721Handler"], e["erc721"]>>)
    /\ d >= 18 => /\ Is(s, <<"resource", e["bridge"], "r1">>, e["generic"])
                  /\ Is(s, <<"token", e["generic"], "r1">>, e["assetStore"])

\* The fields that only a deployment or the administration of a bridge writes.
Fixed == {"code", "bridge", "threshold", "relayer", "paused"}

\* A write of another field leaves the contracts as they are.
LEMMA ContractsPut ==
    ASSUME NEW s, NEW e, NEW d, NEW low, NEW nonce, ContractsUp(s, e, d, low, nonce),
           NEW key, key[1] \notin Fixed, NEW value
    PROVE  ContractsUp(Put(s, key, value), e, d, low, nonce)
<1>1. /\ \A k : k[1] \in Fixed => k # key
  OBVIOUS
<1>2. /\ \A k, v : k[1] \in Fixed => (Is(Put(s, key, value), k, v) <=> Is(s, k, v))
      /\ \A k : k[1] \in Fixed => (IsSet(Put(s, key, value), k) <=> IsSet(s, k))
      /\ \A k : k[1] \in Fixed => (k \in DOMAIN Put(s, key, value) <=> k \in DOMAIN s)
  BY <1>1 DEF Is, IsSet, Put
<1>3. \A x, y : /\ <<"code", x>>[1] \in Fixed /\ <<"bridge", x>>[1] \in Fixed
                /\ <<"threshold", x>>[1] \in Fixed /\ <<"paused", x>>[1] \in Fixed
                /\ <<"relayer", x, y>>[1] \in Fixed
  BY DEF Fixed
<1> HIDE DEF Fixed
<1> QED
  BY <1>2, <1>3 DEF ContractsUp

\* Step by step.
LEMMA Resources8 ==
    ASSUME NEW s, NEW e
    PROVE  ResourcesUp(Put(Put(s, <<"resource", e["bridge"], "r0">>, e["erc20Handler"]),
                           <<"token", e["erc20Handler"], "r0">>, e["erc20"]), e, 8)
  BY DEF ResourcesUp, Is, Put

\* Step 18 of the setup registers the generic resource.
LEMMA Resources18 ==
    ASSUME NEW s, NEW e, ResourcesUp(s, e, 17)
    PROVE  ResourcesUp(Put(Put(s, <<"resource", e["bridge"], "r1">>, e["generic"]),
                           <<"token", e["generic"], "r1">>, e["assetStore"]), e, 18)
  BY DEF ResourcesUp, Is, Put, Get, IsSet

\* Step 9 mints.
LEMMA Resources9 ==
    ASSUME NEW s, NEW e, ResourcesUp(s, e, 8), NEW n, n > 0
    PROVE  ResourcesUp(Put(s, <<"balance", e["erc20"], Sender>>, n), e, 9)
  BY DEF ResourcesUp, Is, Put, Get

\* Step 10 allows the ERC20 handler to take tokens.
LEMMA Resources10 ==
    ASSUME NEW s, NEW e, ResourcesUp(s, e, 9)
    PROVE  ResourcesUp(Put(s, <<"allowance", e["erc20"], e["erc20Handler"]>>, Units), e, 10)
  BY DEF ResourcesUp, Is, Put, Get

\* Steps 11 and 15 ask for a role and change nothing.
LEMMA Resources11 ==
    ASSUME NEW s, NEW e
    PROVE  /\ ResourcesUp(s, e, 10) => ResourcesUp(s, e, 11)
           /\ ResourcesUp(s, e, 14) => ResourcesUp(s, e, 15)
  BY DEF ResourcesUp

\* Nothing but flags of roles and tokens differs, and those set stay set.
FlagOnly(s, t) ==
    /\ \A k : IsSet(s, k) => IsSet(t, k)
    /\ \A k, w : k[1] \notin {"minter", "burnable"} /\ Is(s, k, w) => Is(t, k, w)
    /\ \A k : k[1] \notin {"minter", "burnable"} => Get(t, k, 0) = Get(s, k, 0)

On(v) == v = TRUE

\* A flag that is set.
LEMMA FlagPut ==
    ASSUME NEW s, NEW key, key[1] \in {"minter", "burnable"}, NEW v, On(v)
    PROVE  IsSet(Put(s, key, v), key) /\ FlagOnly(s, Put(s, key, v))
<1> DEFINE t == Put(s, key, v)
<1>1. DOMAIN t = DOMAIN s \cup {key} /\ t[key] = v /\ \A k \in DOMAIN s : k # key => t[k] = s[k]
  BY DEF Put
<1> HIDE DEF t
<1>2. IsSet(t, key)
  BY <1>1 DEF IsSet, On
<1>3. \A k : IsSet(s, k) => IsSet(t, k)
  BY <1>1 DEF IsSet, On
<1>4. \A k, w : k[1] \notin {"minter", "burnable"} /\ Is(s, k, w) => Is(t, k, w)
  BY <1>1 DEF Is
<1>5. \A k : k[1] \notin {"minter", "burnable"} => Get(t, k, 0) = Get(s, k, 0)
  BY <1>1 DEF Get
<1> QED
  BY <1>2, <1>3, <1>4, <1>5 DEF FlagOnly, t

\* Step 12 makes the ERC20 handler a minter.
LEMMA Resources12 ==
    ASSUME NEW s, NEW e, ResourcesUp(s, e, 11), NEW v, On(v)
    PROVE  ResourcesUp(Put(s, <<"minter", e["erc20"], e["erc20Handler"]>>, v), e, 12)
<1> DEFINE key == <<"minter", e["erc20"], e["erc20Handler"]>>
           t == Put(s, key, v)
<1>1. IsSet(t, key) /\ FlagOnly(s, t)
  <2>1. key[1] \in {"minter", "burnable"}
    OBVIOUS
  <2> HIDE DEF key
  <2> QED
    BY <2>1, FlagPut
<1> HIDE DEF t
<1>2. ResourcesUp(t, e, 12)
  BY <1>1 DEF ResourcesUp, FlagOnly
<1> QED
  BY <1>2 DEF t

\* Step 13 makes the ERC20 token burnable.
LEMMA Resources13 ==
    ASSUME NEW s, NEW e, ResourcesUp(s, e, 12), NEW v, On(v)
    PROVE  ResourcesUp(Put(s, <<"burnable", e["erc20Handler"], e["erc20"]>>, v), e, 13)
<1> DEFINE key == <<"burnable", e["erc20Handler"], e["erc20"]>>
           t == Put(s, key, v)
<1>1. IsSet(t, key) /\ FlagOnly(s, t)
  <2>1. key[1] \in {"minter", "burnable"}
    OBVIOUS
  <2> HIDE DEF key
  <2> QED
    BY <2>1, FlagPut
<1> HIDE DEF t
<1>2. ResourcesUp(t, e, 13)
  BY <1>1 DEF ResourcesUp, FlagOnly
<1> QED
  BY <1>2 DEF t

\* Step 14 registers the ERC721 resource.
LEMMA Resources14 ==
    ASSUME NEW s, NEW e, ResourcesUp(s, e, 13)
    PROVE  ResourcesUp(Put(Put(s, <<"resource", e["bridge"], "r2">>, e["erc721Handler"]),
                           <<"token", e["erc721Handler"], "r2">>, e["erc721"]), e, 14)
  BY DEF ResourcesUp, Is, Put, Get, IsSet

\* Step 16 makes the ERC721 handler a minter.
LEMMA Resources16 ==
    ASSUME NEW s, NEW e, ResourcesUp(s, e, 15), NEW v, On(v)
    PROVE  ResourcesUp(Put(s, <<"minter", e["erc721"], e["erc721Handler"]>>, v), e, 16)
<1> DEFINE key == <<"minter", e["erc721"], e["erc721Handler"]>>
           t == Put(s, key, v)
<1>1. IsSet(t, key) /\ FlagOnly(s, t)
  <2>1. key[1] \in {"minter", "burnable"}
    OBVIOUS
  <2> HIDE DEF key
  <2> QED
    BY <2>1, FlagPut
<1> HIDE DEF t
<1>2. ResourcesUp(t, e, 16)
  BY <1>1 DEF ResourcesUp, FlagOnly
<1> QED
  BY <1>2 DEF t

\* Step 17 makes the ERC721 token burnable.
LEMMA Resources17 ==
    ASSUME NEW s, NEW e, ResourcesUp(s, e, 16), NEW v, On(v)
    PROVE  ResourcesUp(Put(s, <<"burnable", e["erc721Handler"], e["erc721"]>>, v), e, 17)
<1> DEFINE key == <<"burnable", e["erc721Handler"], e["erc721"]>>
           t == Put(s, key, v)
<1>1. IsSet(t, key) /\ FlagOnly(s, t)
  <2>1. key[1] \in {"minter", "burnable"}
    OBVIOUS
  <2> HIDE DEF key
  <2> QED
    BY <2>1, FlagPut
<1> HIDE DEF t
<1>2. ResourcesUp(t, e, 17)
  BY <1>1 DEF ResourcesUp, FlagOnly
<1> QED
  BY <1>2 DEF t

\* A deployment at the next address adds its contract to those that are there.
LEMMA ContractsAdd ==
    ASSUME NEW s, NEW e, NEW d \in 0..6, NEW low \in Nat, NEW nonce \in Nat, low <= nonce,
           StoreType(s, nonce), ContractsUp(s, e, d, low, nonce),
           NEW kind \in Kinds, Place(kind) = d + 1, NEW n, NEW relayers,
           kind = "bridge" => n = 1 /\ relayers = Relayers
    PROVE  ContractsUp(Created(s, nonce + 1, kind, Named(e, "bridge"), n, relayers),
                       Put(e, kind, nonce + 1), d + 1, low, nonce + 1)
<1> DEFINE a == nonce + 1
           t == Created(s, a, kind, Named(e, "bridge"), n, relayers)
           f == Put(e, kind, a)
<1>1. Adds(s, t, a, kind, Named(e, "bridge"), n, relayers)
  BY CreatedAdds
<1>2. DOMAIN f = DOMAIN e \cup {kind} /\ f[kind] = a /\ \A k \in DOMAIN e : k # kind => f[k] = e[k]
  BY DEF Put
<1>3. \A k \in Kinds : Place(k) \in 1..7 /\ (Place(k) = d + 1 <=> k = kind)
  BY DEF Place, Kinds, Handlers
<1>4. DOMAIN f = {k \in Kinds : Place(k) <= d + 1} /\ kind \notin DOMAIN e
  BY <1>2, <1>3 DEF ContractsUp
<1>5. \A k \in DOMAIN e : f[k] = e[k] /\ e[k] \in (low + 1)..nonce /\ e[k] # a
  <2>1. \A k \in DOMAIN e : f[k] = e[k] /\ e[k] \in (low + 1)..nonce
    BY <1>2, <1>4 DEF ContractsUp
  <2>2. \A x \in (low + 1)..nonce : x # a
    OBVIOUS
  <2> HIDE DEF a, f
  <2> QED
    BY <2>1, <2>2
<1> HIDE DEF t, f, a
<1>6. /\ \A k \in DOMAIN s : k[2] # a => \A v : (Is(s, k, v) => Is(t, k, v))
      /\ \A k \in DOMAIN s : k[2] # a => (IsSet(s, k) => IsSet(t, k))
  BY <1>1 DEF Adds, Is, IsSet
<1>7. kind # "bridge" => "bridge" \in DOMAIN e /\ "bridge" \in Kinds /\ d >= 1
  <2>1. "bridge" \in Kinds /\ Place("bridge") = 1 /\ (kind # "bridge" => Place(kind) > 1)
    BY DEF Place, Kinds, Handlers
  <2> QED
    BY <2>1 DEF ContractsUp
<1>8. ASSUME NEW k \in DOMAIN f
      PROVE  /\ f[k] \in (low + 1)..(nonce + 1) /\ Is(t, <<"code", f[k]>>, k)
             /\ k \in Handlers => Is(t, <<"bridge", f[k]>>, f["bridge"])
  <2>1. CASE k = kind
    <3>1. Is(t, <<"code", a>>, k) /\ (k \in Handlers => Is(t, <<"bridge", a>>, Named(e, "bridge")))
      BY <1>1, <2>1 DEF Adds
    <3>2. k \in Handlers => Named(e, "bridge") = f["bridge"]
      BY <1>5, <1>7, <2>1 DEF Handlers, Named
    <3> QED
      BY <1>2, <2>1, <3>1, <3>2 DEF a
  <2>2. CASE k # kind
    <3>1. k \in DOMAIN e /\ f[k] = e[k] /\ f[k] # a /\ f[k] \in (low + 1)..nonce
      BY <1>2, <1>5, <2>2
    <3>2. /\ Is(s, <<"code", f[k]>>, k)
          /\ k \in Handlers => Is(s, <<"bridge", f[k]>>, e["bridge"])
      BY <3>1 DEF ContractsUp
    <3>3. Is(t, <<"code", f[k]>>, k)
      <4>1. <<"code", f[k]>>[2] = f[k] /\ <<"code", f[k]>> \in DOMAIN s
        BY <3>2 DEF Is
      <4> QED
        BY <1>6, <3>1, <3>2, <4>1
    <3>4. k \in Handlers => Is(t, <<"bridge", f[k]>>, e["bridge"])
      <4>1. <<"bridge", f[k]>>[2] = f[k] /\ (k \in Handlers => <<"bridge", f[k]>> \in DOMAIN s)
        BY <3>2 DEF Is
      <4> QED
        BY <1>6, <3>1, <3>2, <4>1
    <3>5. k \in Handlers => f["bridge"] = e["bridge"]
      <4>1. k \in Handlers => kind # "bridge"
        <5>1. Place("bridge") = 1
          BY DEF Place
        <5>2. k \in Kinds /\ Place(k) <= d
          BY <3>1 DEF ContractsUp
        <5>3. d >= 1
          BY <1>3, <5>2
        <5> QED
          BY <5>1, <5>3
      <4> QED
        BY <1>5, <1>7, <4>1
    <3> QED
      BY <3>1, <3>3, <3>4, <3>5
  <2> QED
    BY <2>1, <2>2
<1>9. /\ Is(t, <<"threshold", f["bridge"]>>, 1)
      /\ <<"paused", f["bridge"]>> \notin DOMAIN t
      /\ \A r \in Relayers : IsSet(t, <<"relayer", f["bridge"], r>>)
  <2>1. CASE kind = "bridge"
    <3>1. f["bridge"] = a /\ n = 1 /\ relayers = Relayers
      BY <1>2, <2>1
    <3>2. Is(t, <<"threshold", a>>, 1) /\ \A r \in Relayers : IsSet(t, <<"relayer", a, r>>)
      BY <1>1, <2>1, <3>1 DEF Adds
    <3>3. <<"paused", a>> \notin DOMAIN t
      <4>1. <<"paused", a>> \notin DOMAIN s
        <5>1. a \notin 1..nonce
          BY DEF a
        <5> QED
          BY <5>1 DEF StoreType
      <4> QED
        BY <1>1, <4>1 DEF Adds, NewFields
    <3> QED
      BY <3>1, <3>2, <3>3
  <2>2. CASE kind # "bridge"
    <3> DEFINE b == e["bridge"]
    <3>1. f["bridge"] = b /\ b # a
      BY <1>5, <1>7, <2>2
    <3>2. /\ Is(s, <<"threshold", b>>, 1) /\ <<"paused", b>> \notin DOMAIN s
          /\ \A r \in Relayers : IsSet(s, <<"relayer", b, r>>)
      BY <1>7, <2>2 DEF ContractsUp
    <3> HIDE DEF b
    <3>3. Is(t, <<"threshold", b>>, 1)
      <4>1. <<"threshold", b>>[2] = b /\ <<"threshold", b>> \in DOMAIN s
        BY <3>2 DEF Is
      <4> QED
        BY <1>6, <3>1, <3>2, <4>1
    <3>4. ASSUME NEW r \in Relayers PROVE IsSet(t, <<"relayer", b, r>>)
      <4>1. <<"relayer", b, r>>[2] = b /\ <<"relayer", b, r>> \in DOMAIN s
        BY <3>2 DEF IsSet
      <4> QED
        BY <1>6, <3>1, <3>2, <4>1
    <3>5. <<"paused", b>> \notin DOMAIN t
      BY <1>1, <3>2 DEF Adds, NewFields
    <3> QED
      BY <3>1, <3>3, <3>4, <3>5
  <2> QED
    BY <2>1, <2>2
<1> QED
  BY <1>4, <1>8, <1>9 DEF ContractsUp, t, f, a

\* Names of contracts become addresses, and nothing else changes.
Resolves(e) ==
    /\ \A k \in Kinds : Named(e, k) = e[k]
    /\ \A x \in {"r0", "r1", "r2", "", Sender} : Named(e, x) = x

\* With all seven contracts deployed their names become their addresses.
LEMMA AllDeployed ==
    ASSUME NEW s, NEW e, NEW d \in Nat, d >= 7, NEW low \in Nat, NEW nonce \in Nat,
           ContractsUp(s, e, d, low, nonce)
    PROVE  /\ DOMAIN e = Kinds
           /\ ContractsUp(s, e, d + 1, low, nonce) /\ ContractsUp(s, e, d, low, nonce + 1)
           /\ Resolves(e) /\ \A k \in Kinds : Kind(s, e[k]) = k
<1>1. \A k \in Kinds : Place(k) \in 1..7
  BY DEF Place, Kinds, Handlers
<1>2. DOMAIN e = Kinds
  BY <1>1 DEF ContractsUp
<1>3. ContractsUp(s, e, d + 1, low, nonce)
  <2>1. DOMAIN e = {k \in Kinds : Place(k) <= d + 1}
    BY <1>1, <1>2
  <2> QED
    BY <2>1 DEF ContractsUp
<1>4. ContractsUp(s, e, d, low, nonce + 1)
  <2>1. (low + 1)..nonce \subseteq (low + 1)..(nonce + 1)
    OBVIOUS
  <2> QED
    BY <2>1 DEF ContractsUp
<1>5. \A k \in Kinds : Named(e, k) = e[k] /\ Kind(s, e[k]) = k
  BY <1>2 DEF ContractsUp, Named, Kind, Get, Is
<1>6. \A x \in {"r0", "r1", "r2", "", Sender} : x \notin Kinds
  BY CLIAssumption DEF Kinds, Handlers
<1> QED
  BY <1>2, <1>3, <1>4, <1>5, <1>6 DEF Named, Resolves

ResourceCall(m, h, rid, t) ==
    /\ m.fn \in {"adminSetResource", "adminSetGenericResource"} /\ m.to = "bridge"
    /\ h \in Kinds /\ rid \in {"r0", "r1", "r2"} /\ t \in Kinds /\ m.args = <<h, rid, t>>
GrantCall(m, t, h) ==
    m.fn = "grantRole" /\ t \in Kinds /\ m.to = t /\ h \in Kinds /\ m.args = <<h>>
BurnableCall(m, h, t) ==
    /\ m.fn = "adminSetBurnable" /\ m.to = "bridge"
    /\ h \in Kinds /\ t \in Kinds /\ m.args = <<h, t>>
TokenCall(m, fn, x) ==
    /\ fn \in {"mint", "approve"} /\ m.fn = fn /\ m.to = "erc20"
    /\ x \in Kinds \cup {Sender} /\ m.args = <<x>>

\* What a resource message of the setup writes, its names resolved.
LEMMA ResourceMessage ==
    ASSUME NEW s, NEW e, Resolves(e), NEW m, NEW h, NEW rid, NEW t, ResourceCall(m, h, rid, t)
    PROVE  Applied(s, ResolvedIn(e, m)) =
               Put(Put(s, <<"resource", e["bridge"], rid>>, e[h]), <<"token", e[h], rid>>, e[t])
<1> DEFINE r == ResolvedIn(e, m)
<1>1. /\ r.to = e["bridge"] /\ r.fn = m.fn
      /\ r.args = [i \in DOMAIN m.args |-> Named(e, m.args[i])]
  BY DEF ResolvedIn, Resolves, Kinds, ResourceCall
<1>2. DOMAIN m.args = 1..3 /\ m.args[1] = h /\ m.args[2] = rid /\ m.args[3] = t
  BY DEF ResourceCall
<1>3. r.args[1] = Named(e, h) /\ r.args[2] = Named(e, rid) /\ r.args[3] = Named(e, t)
  BY <1>1, <1>2
<1>4. Named(e, h) = e[h] /\ Named(e, rid) = rid /\ Named(e, t) = e[t]
  BY DEF Resolves, ResourceCall
<1> HIDE DEF r
<1> QED
  BY <1>1, <1>3, <1>4 DEF Applied, r, ResourceCall

\* What a grantRole message writes.
LEMMA GrantMessage ==
    ASSUME NEW s, NEW e, Resolves(e), NEW m, NEW t, NEW h, GrantCall(m, t, h)
    PROVE  \E v : On(v) /\ Applied(s, ResolvedIn(e, m)) = Put(s, <<"minter", e[t], e[h]>>, v)
<1> DEFINE r == ResolvedIn(e, m)
<1>1. /\ r.to = e[t] /\ r.fn = m.fn
      /\ r.args = [i \in DOMAIN m.args |-> Named(e, m.args[i])]
  BY DEF ResolvedIn, Resolves, Kinds, GrantCall
<1>2. DOMAIN m.args = 1..1 /\ m.args[1] = h
  BY DEF GrantCall
<1>3. r.args[1] = Named(e, h)
  BY <1>1, <1>2
<1>4. Named(e, h) = e[h]
  BY DEF Resolves, GrantCall
<1> HIDE DEF r
<1> QED
  BY <1>1, <1>3, <1>4 DEF Applied, r, GrantCall, On

\* What a setBurnable message writes.
LEMMA BurnableMessage ==
    ASSUME NEW s, NEW e, Resolves(e), NEW m, NEW h, NEW t, BurnableCall(m, h, t)
    PROVE  \E v : On(v) /\ Applied(s, ResolvedIn(e, m)) = Put(s, <<"burnable", e[h], e[t]>>, v)
<1> DEFINE r == ResolvedIn(e, m)
<1>1. /\ r.to = e["bridge"] /\ r.fn = m.fn
      /\ r.args = [i \in DOMAIN m.args |-> Named(e, m.args[i])]
  BY DEF ResolvedIn, Resolves, Kinds, BurnableCall
<1>2. DOMAIN m.args = 1..2 /\ m.args[1] = h /\ m.args[2] = t
  BY DEF BurnableCall
<1>3. r.args[1] = Named(e, h) /\ r.args[2] = Named(e, t)
  BY <1>1, <1>2
<1>4. Named(e, h) = e[h] /\ Named(e, t) = e[t]
  BY DEF Resolves, BurnableCall
<1> HIDE DEF r
<1> QED
  BY <1>1, <1>3, <1>4 DEF Applied, r, BurnableCall, On

\* What a mint or an approve message writes.
LEMMA TokenMessage ==
    ASSUME NEW s, NEW e, Resolves(e), NEW m, NEW fn, NEW x, TokenCall(m, fn, x),
           Kind(s, e["erc20"]) = "erc20"
    PROVE  LET y == Named(e, x) IN
           /\ fn = "mint" =>
                 Applied(s, ResolvedIn(e, m)) =
                     Put(s, <<"balance", e["erc20"], y>>, Get(s, <<"balance", e["erc20"], y>>, 0) + m.n)
           /\ fn = "approve" =>
                 Applied(s, ResolvedIn(e, m)) = Put(s, <<"allowance", e["erc20"], y>>, m.n)
<1> DEFINE r == ResolvedIn(e, m)
<1>1. /\ r.to = e["erc20"] /\ r.fn = fn /\ r.n = m.n
      /\ r.args = [i \in DOMAIN m.args |-> Named(e, m.args[i])]
  BY DEF ResolvedIn, Resolves, Kinds, TokenCall
<1>2. DOMAIN m.args = 1..1 /\ m.args[1] = x
  BY DEF TokenCall
<1>3. r.args[1] = Named(e, x)
  BY <1>1, <1>2
<1> HIDE DEF r
<1> QED
  BY <1>1, <1>3 DEF Applied, r, TokenCall

\* A transaction of local-setup that is executed brings the chain one step further.
LEMMA LocalExecuted ==
    ASSUME NEW c, NEW L, Local(L, c), NEW s, NEW e, NEW d \in 7..17, NEW low \in Nat,
           NEW nonce \in Nat, StoreType(s, nonce), ContractsUp(s, e, d, low, nonce),
           ResourcesUp(s, e, d), L[d + 1].do = "transact"
    PROVE  LET t == Applied(s, ResolvedIn(e, L[d + 1])) IN
           ContractsUp(t, e, d + 1, low, nonce + 1) /\ ResourcesUp(t, e, d + 1)
<1> DEFINE m == L[d + 1]
           t == Applied(s, ResolvedIn(e, m))
<1>1. /\ Resolves(e) /\ ContractsUp(s, e, d + 1, low, nonce + 1)
      /\ Kind(s, e["erc20"]) = "erc20"
  <2>1. d \in Nat /\ d >= 7 /\ d + 1 \in Nat /\ d + 1 >= 7
    OBVIOUS
  <2>2. /\ ContractsUp(s, e, d + 1, low, nonce) /\ Resolves(e)
        /\ \A k \in Kinds : Kind(s, e[k]) = k
    BY <2>1, AllDeployed
  <2>3. ContractsUp(s, e, d + 1, low, nonce + 1)
    BY <2>1, <2>2, AllDeployed
  <2> QED
    BY <2>2, <2>3 DEF Kinds
<1>2. ASSUME NEW key, NEW v, key[1] \notin Fixed
      PROVE  ContractsUp(Put(s, key, v), e, d + 1, low, nonce + 1)
  BY <1>1, <1>2, ContractsPut
<1>3. ASSUME NEW key, NEW v, key[1] \notin Fixed, NEW other, NEW w, other[1] \notin Fixed
      PROVE  ContractsUp(Put(Put(s, key, v), other, w), e, d + 1, low, nonce + 1)
  BY <1>2, <1>3, ContractsPut
<1> HIDE DEF m, t
<1>5. CASE d = 7
  <2>1. m = AdminSetResource(c, "bridge", "erc20Handler", "r0", "erc20")
    BY <1>5 DEF m, Local
  <2>2. ResourceCall(m, "erc20Handler", "r0", "erc20")
    BY <2>1 DEF ResourceCall, Kinds, Handlers, AdminSetResource, Transaction, Step
  <2>3. t = Put(Put(s, <<"resource", e["bridge"], "r0">>, e["erc20Handler"]),
                <<"token", e["erc20Handler"], "r0">>, e["erc20"])
    BY <1>1, <2>2, ResourceMessage DEF t
  <2>4. ResourcesUp(t, e, 8)
    BY <1>5, <2>3, Resources8
  <2>5. <<"resource", e["bridge"], "r0">>[1] \notin Fixed /\ <<"token", e["erc20Handler"], "r0">>[1] \notin Fixed
    BY DEF Fixed
  <2> QED
    BY <1>3, <1>5, <2>3, <2>4, <2>5 DEF t, m
<1>6. CASE d = 8
  <2> DEFINE key == <<"balance", e["erc20"], Sender>>
  <2>1. m = MintTokens(c, "erc20", Sender, Units)
    BY <1>6 DEF m, Local
  <2>2. TokenCall(m, "mint", Sender) /\ m.n = Units
    BY <2>1 DEF TokenCall, MintTokens, Step
  <2>3. Named(e, Sender) = Sender
    BY <1>1 DEF Resolves
  <2>4. t = Put(s, key, Get(s, key, 0) + Units)
    BY <1>1, <2>2, <2>3, TokenMessage DEF t
  <2>5. Get(s, key, 0) + Units > 0
    BY GetNat, CLIAssumption
  <2>6. ResourcesUp(t, e, 9)
    BY <1>6, <2>4, <2>5, Resources9
  <2>7. key[1] \notin Fixed
    BY DEF Fixed
  <2> HIDE DEF key
  <2> QED
    BY <1>2, <1>6, <2>4, <2>6, <2>7 DEF t, m
<1>7. CASE d = 9
  <2> DEFINE key == <<"allowance", e["erc20"], e["erc20Handler"]>>
  <2>1. m = ApproveTokens(c, "erc20", "erc20Handler", Units)
    BY <1>7 DEF m, Local
  <2>2. TokenCall(m, "approve", "erc20Handler") /\ m.n = Units
    BY <2>1 DEF TokenCall, Kinds, Handlers, ApproveTokens, Step
  <2>3. "erc20Handler" \in Kinds /\ Named(e, "erc20Handler") = e["erc20Handler"]
    BY <1>1 DEF Resolves, Kinds, Handlers
  <2>4. t = Put(s, key, Units)
    BY <1>1, <2>2, <2>3, TokenMessage DEF t
  <2>5. ResourcesUp(t, e, 10)
    BY <1>7, <2>4, Resources10
  <2>6. key[1] \notin Fixed
    BY DEF Fixed
  <2> HIDE DEF key
  <2> QED
    BY <1>2, <1>7, <2>4, <2>5, <2>6 DEF t, m
<1>8. CASE d = 11
  <2> DEFINE key == <<"minter", e["erc20"], e["erc20Handler"]>>
  <2>1. m = Transaction(c, "erc20", "grantRole", <<"erc20Handler">>)
    BY <1>8 DEF m, Local
  <2>2. GrantCall(m, "erc20", "erc20Handler")
    BY <2>1 DEF GrantCall, Kinds, Handlers, Transaction, Step
  <2>3. PICK on : On(on) /\ t = Put(s, key, on)
    BY <1>1, <2>2, GrantMessage DEF t
  <2>4. ResourcesUp(t, e, 12)
    BY <1>8, <2>3, Resources12
  <2>5. key[1] \notin Fixed
    BY DEF Fixed
  <2> HIDE DEF key
  <2> QED
    BY <1>2, <1>8, <2>3, <2>4, <2>5 DEF t, m
<1>9. CASE d = 12
  <2> DEFINE key == <<"burnable", e["erc20Handler"], e["erc20"]>>
  <2>1. m = SetBurnableInput(c, "bridge", "erc20Handler", "erc20")
    BY <1>9 DEF m, Local
  <2>2. BurnableCall(m, "erc20Handler", "erc20")
    BY <2>1 DEF BurnableCall, Kinds, Handlers, SetBurnableInput, Transaction, Step
  <2>3. PICK on : On(on) /\ t = Put(s, key, on)
    BY <1>1, <2>2, BurnableMessage DEF t
  <2>4. ResourcesUp(t, e, 13)
    BY <1>9, <2>3, Resources13
  <2>5. key[1] \notin Fixed
    BY DEF Fixed
  <2> HIDE DEF key
  <2> QED
    BY <1>2, <1>9, <2>3, <2>4, <2>5 DEF t, m
<1>10. CASE d = 13
  <2>1. m = AdminSetResource(c, "bridge", "erc721Handler", "r2", "erc721")
    BY <1>10 DEF m, Local
  <2>2. ResourceCall(m, "erc721Handler", "r2", "erc721")
    BY <2>1 DEF ResourceCall, Kinds, Handlers, AdminSetResource, Transaction, Step
  <2>3. t = Put(Put(s, <<"resource", e["bridge"], "r2">>, e["erc721Handler"]),
                <<"token", e["erc721Handler"], "r2">>, e["erc721"])
    BY <1>1, <2>2, ResourceMessage DEF t
  <2>4. ResourcesUp(t, e, 14)
    BY <1>10, <2>3, Resources14
  <2>5. <<"resource", e["bridge"], "r2">>[1] \notin Fixed /\ <<"token", e["erc721Handler"], "r2">>[1] \notin Fixed
    BY DEF Fixed
  <2> QED
    BY <1>3, <1>10, <2>3, <2>4, <2>5 DEF t, m
<1>11. CASE d = 15
  <2> DEFINE key == <<"minter", e["erc721"], e["erc721Handler"]>>
  <2>1. m = Transaction(c, "erc721", "grantRole", <<"erc721Handler">>)
    BY <1>11 DEF m, Local
  <2>2. GrantCall(m, "erc721", "erc721Handler")
    BY <2>1 DEF GrantCall, Kinds, Handlers, Transaction, Step
  <2>3. PICK on : On(on) /\ t = Put(s, key, on)
    BY <1>1, <2>2, GrantMessage DEF t
  <2>4. ResourcesUp(t, e, 16)
    BY <1>11, <2>3, Resources16
  <2>5. key[1] \notin Fixed
    BY DEF Fixed
  <2> HIDE DEF key
  <2> QED
    BY <1>2, <1>11, <2>3, <2>4, <2>5 DEF t, m
<1>12. CASE d = 16
  <2> DEFINE key == <<"burnable", e["erc721Handler"], e["erc721"]>>
  <2>1. m = SetBurnableInput(c, "bridge", "erc721Handler", "erc721")
    BY <1>12 DEF m, Local
  <2>2. BurnableCall(m, "erc721Handler", "erc721")
    BY <2>1 DEF BurnableCall, Kinds, Handlers, SetBurnableInput, Transaction, Step
  <2>3. PICK on : On(on) /\ t = Put(s, key, on)
    BY <1>1, <2>2, BurnableMessage DEF t
  <2>4. ResourcesUp(t, e, 17)
    BY <1>12, <2>3, Resources17
  <2>5. key[1] \notin Fixed
    BY DEF Fixed
  <2> HIDE DEF key
  <2> QED
    BY <1>2, <1>12, <2>3, <2>4, <2>5 DEF t, m
<1>13. CASE d = 17
  <2>1. m = AdminSetGenericResource(c, "bridge", "generic", "r1", "assetStore")
    BY <1>13 DEF m, Local
  <2>2. ResourceCall(m, "generic", "r1", "assetStore")
    BY <2>1 DEF ResourceCall, Kinds, Handlers, AdminSetGenericResource, Transaction, Step
  <2>3. t = Put(Put(s, <<"resource", e["bridge"], "r1">>, e["generic"]),
                <<"token", e["generic"], "r1">>, e["assetStore"])
    BY <1>1, <2>2, ResourceMessage DEF t
  <2>4. ResourcesUp(t, e, 18)
    BY <1>13, <2>3, Resources18
  <2>5. <<"resource", e["bridge"], "r1">>[1] \notin Fixed /\ <<"token", e["generic"], "r1">>[1] \notin Fixed
    BY DEF Fixed
  <2> QED
    BY <1>3, <1>13, <2>3, <2>4, <2>5 DEF t, m
<1>14. CASE d \in {10, 14}
  <2>1. L[d + 1] \in {View(c, "erc20"), View(c, "erc721")}
    BY <1>14 DEF Local
  <2>2. View(c, "erc20").do = "call" /\ View(c, "erc721").do = "call"
    BY DEF View, Step
  <2> QED
    BY <2>1, <2>2
<1> QED
  BY <1>5, <1>6, <1>7, <1>8, <1>9, <1>10, <1>11, <1>12, <1>13, <1>14

-------------------------------------------------------------------------------
(* The commands                                                            *)

ChainType(h) ==
    /\ h = [nonce |-> h.nonce, store |-> h.store]
    /\ h.nonce \in Nat /\ StoreType(h.store, h.nonce)

ChainsType ==
    /\ chain = [c \in Chains |-> chain[c]]
    /\ \A c \in Chains : ChainType(chain[c])

RunType ==
    /\ run = [cmd |-> run.cmd, prepare |-> run.prepare, pc |-> run.pc, env |-> run.env,
              start |-> run.start, steps |-> run.steps, result |-> run.result]
    /\ run.pc \in Nat \ {0} /\ run.prepare \in BOOLEAN
    /\ run.env = [c \in Chains |-> run.env[c]]
    /\ run.start = [c \in Chains |-> run.start[c]]
    /\ \A c \in Chains : ChainType(run.start[c])
    /\ Len(run.steps) \in Nat /\ DOMAIN run.steps = 1..Len(run.steps)

\* A step that a command may have.
StepType(m) ==
    /\ m.chain \in Chains
    /\ m.do = "transact" => /\ Sent(m)
                            /\ m.fn \in Methods \/ (m.fn = "" /\ m.to \in Relayers)
    /\ m.do = "deploy" => m.to \in Kinds

StepsType == run.result = "running" => \A i \in DOMAIN run.steps : StepType(run.steps[i])

Live == run.result \in {"running", "ok"}

\* What a step that succeeded left at the end.
Shows(m) == Sends(m) => Idle(m) \/ Effective(m)

\* Commands that may send nothing.
Quiet == Asking \cup Stubs \cup {"", "transfer"}

\* A token is minted only by the contract of one.
MintsToken(m) ==
    m.fn = "mint" => Kind(run.start[m.chain].store, m.to) \in {"none", "erc20", "erc721"}

\* A command other than deploy and local-setup sends at most one transaction or
\* deploys one contract, as its last step, and has changed nothing before.
SimpleInv ==
    Live /\ run.cmd \notin {"deploy", "local-setup"} =>
        /\ \A i \in DOMAIN run.steps :
              /\ run.steps[i].do \in {"transact", "deploy"} => i = Len(run.steps)
              /\ run.steps[i].do = "transact" => run.env = NoEnv /\ MintsToken(run.steps[i])
        /\ run.result = "ok" => run.pc > Len(run.steps)
        /\ run.pc <= Len(run.steps) \/ run.prepare => chain = run.start
        /\ run.pc > Len(run.steps) /\ ~run.prepare =>
              \A i \in DOMAIN run.steps : Shows(run.steps[i])
        /\ (\A i \in DOMAIN run.steps : ~Sends(run.steps[i])) =>
              chain = run.start /\ run.cmd \in Quiet

\* deploy has contracts of the kinds asked for, the bridge first, and those
\* deployed so far are at used addresses and answer to the bridge.
DeployedSo(c) ==
    LET s == chain[c].store
        e == run.env[c]
    IN  /\ "bridge" \in DOMAIN e
        /\ \A i \in DOMAIN run.steps :
              /\ run.steps[i].chain = c /\ run.steps[i].do = "deploy"
              /\ run.steps[i].to \in Kinds
              /\ run.steps[i].to = "bridge" => i = 1
        /\ \A i \in DOMAIN run.steps : i < run.pc =>
              LET k == run.steps[i].to
              IN  /\ k \in DOMAIN e /\ e[k] \in 1..chain[c].nonce
                  /\ Is(s, <<"code", e[k]>>, k)
                  /\ k \in Handlers => Is(s, <<"bridge", e[k]>>, e["bridge"])
        /\ DOMAIN run.steps # {}
        /\ run.result = "ok" => \/ run.pc > Len(run.steps)
                                \/ e["bridge"] = Zero /\ run.steps[run.pc].to = "generic"

DeployInv ==
    Live /\ run.cmd = "deploy" => ~run.prepare /\ \E c \in Chains : DeployedSo(c)

\* The steps of local-setup done on a chain.
DoneOn(c) ==
    IF c = 1 THEN IF run.pc > 18 THEN 18 ELSE run.pc - 1
    ELSE IF run.pc > 18 THEN run.pc - 19 ELSE 0

SetupInv ==
    Live /\ run.cmd = "local-setup" =>
        /\ ~run.prepare /\ Len(run.steps) = 36
        /\ \A i \in 1..18 : /\ run.steps[i] = PrepareLocal(1)[i]
                            /\ run.steps[18 + i] = PrepareLocal(2)[i]
        /\ run.pc \in 1..37 /\ (run.result = "ok" => run.pc = 37)
        /\ \A c \in Chains :
              /\ run.start[c].nonce <= chain[c].nonce
              /\ ContractsUp(chain[c].store, run.env[c], DoneOn(c), run.start[c].nonce,
                             chain[c].nonce)
              /\ ResourcesUp(chain[c].store, run.env[c], DoneOn(c))

\* The inductive invariant of the command line.
CLIInv == ChainsType /\ RunType /\ StepsType /\ SimpleInv /\ DeployInv /\ SetupInv

\* How a step leaves the rest of the command.
LEMMA EndRun ==
    ASSUME RunType, NEW r, End(r)
    PROVE  /\ RunType' /\ run'.result = r
           /\ run'.cmd = run.cmd /\ run'.prepare = run.prepare /\ run'.pc = run.pc
           /\ run'.env = run.env /\ run'.start = run.start /\ run'.steps = run.steps
<1>1. run' = [cmd |-> run.cmd, prepare |-> run.prepare, pc |-> run.pc, env |-> run.env,
              start |-> run.start, steps |-> run.steps, result |-> r]
  BY DEF RunType, End
<1> QED
  BY <1>1 DEF RunType

\* Proceed only moves to the next step.
LEMMA ProceedRun ==
    ASSUME RunType, Proceed
    PROVE  /\ RunType' /\ run'.pc = run.pc + 1
           /\ run'.cmd = run.cmd /\ run'.prepare = run.prepare /\ run'.result = run.result
           /\ run'.env = run.env /\ run'.start = run.start /\ run'.steps = run.steps
<1>1. run' = [cmd |-> run.cmd, prepare |-> run.prepare, pc |-> run.pc + 1, env |-> run.env,
              start |-> run.start, steps |-> run.steps, result |-> run.result]
  BY DEF RunType, Proceed
<1>2. run.pc + 1 \in Nat \ {0}
  BY DEF RunType
<1> QED
  BY <1>1, <1>2 DEF RunType

\* The step that runs.
LEMMA NowType ==
    ASSUME CLIInv, run.result = "running", run.pc <= Len(run.steps)
    PROVE  /\ run.pc \in DOMAIN run.steps /\ StepType(Now) /\ Now.chain \in Chains
           /\ chain[Now.chain].nonce \in Nat /\ StoreType(Store, chain[Now.chain].nonce)
<1>1. run.pc \in DOMAIN run.steps
  BY DEF CLIInv, RunType
<1>2. StepType(Now) /\ Now.chain \in Chains
  BY <1>1 DEF CLIInv, StepsType, StepType, Now
<1> QED
  BY <1>1, <1>2 DEF CLIInv, ChainsType, ChainType, Store

\* A transaction is mined on its chain alone.
LEMMA MinedChain ==
    ASSUME ChainsType, NEW store, Mined(store), Now.chain \in Chains,
           StoreType(store, chain[Now.chain].nonce + 1)
    PROVE  /\ ChainsType'
           /\ chain'[Now.chain].nonce = chain[Now.chain].nonce + 1
           /\ chain'[Now.chain].store = store
           /\ \A c \in Chains : c # Now.chain => chain'[c] = chain[c]
<1> DEFINE n == Now.chain
           new == [nonce |-> chain[n].nonce + 1, store |-> store]
<1>1. chain' = [chain EXCEPT ![n] = new]
  BY DEF Mined
<1>2. /\ new.nonce = chain[n].nonce + 1 /\ new.store = store /\ ChainType(new)
  BY DEF ChainsType, ChainType
<1> HIDE DEF n, new
<1>3. n \in Chains /\ chain' = [c \in Chains |-> IF c = n THEN new ELSE chain[c]]
  BY <1>1 DEF ChainsType, n
<1>4. chain'[n] = new /\ \A c \in Chains : c # n => chain'[c] = chain[c]
  BY <1>3
<1>5. ChainsType'
  BY <1>2, <1>3, <1>4 DEF ChainsType
<1> QED
  BY <1>2, <1>4, <1>5 DEF n

\* A command that ends with an error says nothing of what it did.
LEMMA ErrorInv ==
    ASSUME CLIInv, ChainsType', End("error")
    PROVE  CLIInv'
<1>1. RunType' /\ run'.result = "error"
  BY EndRun DEF CLIInv
<1>2. ~Live' /\ StepsType'
  BY <1>1 DEF Live, StepsType
<1> QED
  BY <1>1, <1>2 DEF CLIInv, SimpleInv, DeployInv, SetupInv

\* What step j of local-setup does.
LocalStep(m, c, j) ==
    /\ m.chain = c /\ m.to \in Kinds /\ m.do \in {"deploy", "transact", "call"}
    /\ m.do = "deploy" <=> j <= 7
    /\ m.do = "deploy" => Place(m.to) = j /\ (m.to = "bridge" => m.n = 1 /\ m.args = Relayers)
    /\ m.do = "call" => j \in {11, 15} /\ m.fn # "voteProposal"
    /\ m.do = "transact" => /\ m.fn \in Plain \ {"adminSetDepositNonce"}
                            /\ m.fn \in {"mint", "approve"} => m.n = Units

\* What the steps of PrepareLocal do.
LEMMA LocalDoes ==
    ASSUME NEW c, NEW L, Local(L, c), NEW j \in 1..18
    PROVE  LocalStep(L[j], c, j)
<1> DEFINE m == L[j]
<1>0. ASSUME NEW to, NEW args, NEW n, NEW fn, NEW do, m = Step(c, do, to, fn, args, n)
      PROVE  /\ m.chain = c /\ m.do = do /\ m.to = to /\ m.fn = fn /\ m.args = args /\ m.n = n
  <2> HIDE DEF m
  <2> QED
    BY <1>0 DEF Step
<1>1. CASE j = 1
  <2>1. m = Step(c, "deploy", "bridge", "", Relayers, 1)
    BY <1>1 DEF Local, BridgeDeployment
  <2>2. "bridge" \in Kinds /\ Place("bridge") = 1
    BY DEF Kinds, Place
  <2> HIDE DEF m
  <2>3. /\ m.chain = c /\ m.do = "deploy" /\ m.to = "bridge" /\ m.args = Relayers /\ m.n = 1
    BY <1>0, <2>1
  <2> QED
    BY <1>1, <2>2, <2>3 DEF LocalStep, m
<1>2. CASE j \in 2..7
  <2>1. /\ j = 2 => m = Step(c, "deploy", "erc721", "", {}, 0)
        /\ j = 3 => m = Step(c, "deploy", "erc721Handler", "", {}, 0)
        /\ j = 4 => m = Step(c, "deploy", "erc20", "", {}, 0)
        /\ j = 5 => m = Step(c, "deploy", "erc20Handler", "", {}, 0)
        /\ j = 6 => m = Step(c, "deploy", "assetStore", "", {}, 0)
        /\ j = 7 => m = Step(c, "deploy", "generic", "", {}, 0)
    BY DEF Local, Deployment
  <2> HIDE DEF m
  <2>2. /\ Place("erc721") = 2 /\ Place("erc721Handler") = 3 /\ Place("erc20") = 4
        /\ Place("erc20Handler") = 5 /\ Place("assetStore") = 6 /\ Place("generic") = 7
        /\ {"erc721", "erc721Handler", "erc20", "erc20Handler", "assetStore", "generic"}
               \subseteq Kinds \ {"bridge"}
    BY DEF Place, Kinds, Handlers
  <2>3. ASSUME NEW kind \in Kinds \ {"bridge"}, Place(kind) = j,
               m = Step(c, "deploy", kind, "", {}, 0)
        PROVE  m.chain = c /\ m.do = "deploy" /\ m.to \in Kinds \ {"bridge"} /\ Place(m.to) = j
    BY <1>0, <2>3
  <2>4. j \in {2, 3, 4, 5, 6, 7}
    BY <1>2
  <2>5. m.chain = c /\ m.do = "deploy" /\ m.to \in Kinds \ {"bridge"} /\ Place(m.to) = j
    BY <2>1, <2>2, <2>3, <2>4
  <2>6. j <= 7
    BY <1>2
  <2> QED
    BY <2>5, <2>6 DEF LocalStep, m
<1>3. CASE j \in {11, 15}
  <2>1. PICK t \in Kinds : m = Step(c, "call", t, "", <<>>, 0)
    BY <1>3 DEF Local, View, Kinds
  <2> HIDE DEF m
  <2>2. m.chain = c /\ m.do = "call" /\ m.fn = "" /\ m.to \in Kinds
    BY <1>0, <2>1
  <2>3. j \in 1..18 /\ ~(j <= 7)
    BY <1>3
  <2> QED
    BY <1>3, <2>2, <2>3 DEF LocalStep, m
<1>4. CASE j \in {8, 9, 10, 12, 13, 14, 16, 17, 18}
  <2>1. /\ j \in {8, 14} => m.do = "transact" /\ m.chain = c /\ m.to = "bridge" /\ m.fn = "adminSetResource"
        /\ j = 9 => m.do = "transact" /\ m.chain = c /\ m.to = "erc20" /\ m.fn = "mint" /\ m.n = Units
        /\ j = 10 => m.do = "transact" /\ m.chain = c /\ m.to = "erc20" /\ m.fn = "approve" /\ m.n = Units
        /\ j \in {12, 16} => m.do = "transact" /\ m.chain = c /\ m.to \in {"erc20", "erc721"} /\ m.fn = "grantRole"
        /\ j \in {13, 17} => m.do = "transact" /\ m.chain = c /\ m.to = "bridge" /\ m.fn = "adminSetBurnable"
        /\ j = 18 => m.do = "transact" /\ m.chain = c /\ m.to = "bridge" /\ m.fn = "adminSetGenericResource"
    <3>1. /\ j = 8 => m = Step(c, "transact", "bridge", "adminSetResource", <<"erc20Handler", "r0", "erc20">>, 0)
          /\ j = 14 => m = Step(c, "transact", "bridge", "adminSetResource", <<"erc721Handler", "r2", "erc721">>, 0)
          /\ j = 9 => m = Step(c, "transact", "erc20", "mint", <<Sender>>, Units)
          /\ j = 10 => m = Step(c, "transact", "erc20", "approve", <<"erc20Handler">>, Units)
          /\ j = 12 => m = Step(c, "transact", "erc20", "grantRole", <<"erc20Handler">>, 0)
          /\ j = 16 => m = Step(c, "transact", "erc721", "grantRole", <<"erc721Handler">>, 0)
          /\ j = 13 => m = Step(c, "transact", "bridge", "adminSetBurnable", <<"erc20Handler", "erc20">>, 0)
          /\ j = 17 => m = Step(c, "transact", "bridge", "adminSetBurnable", <<"erc721Handler", "erc721">>, 0)
          /\ j = 18 => m = Step(c, "transact", "bridge", "adminSetGenericResource", <<"generic", "r1", "assetStore">>, 0)
      BY DEF Local, AdminSetResource, AdminSetGenericResource, MintTokens, ApproveTokens,
         SetBurnableInput, Transaction
    <3> HIDE DEF m
    <3> QED
      BY <1>0, <3>1
  <2> HIDE DEF m
  <2>2. m.do = "transact" /\ m.chain = c /\ m.to \in Kinds
    BY <1>4, <2>1 DEF Kinds
  <2>3. /\ m.fn \in {"adminSetResource", "mint", "approve", "grantRole", "adminSetBurnable",
                     "adminSetGenericResource"}
        /\ m.fn \in {"mint", "approve"} => m.n = Units
    BY <1>4, <2>1
  <2>4. m.fn \in Plain \ {"adminSetDepositNonce"}
    BY <2>3 DEF Plain, Methods
  <2>5. j \in 1..18 /\ ~(j <= 7)
    BY <1>4
  <2> QED
    BY <2>2, <2>3, <2>4, <2>5 DEF LocalStep, m
<1>5. j \in {1} \cup 2..7 \cup {8, 9, 10, 11, 12, 13, 14, 15, 16, 17, 18}
  OBVIOUS
<1> QED
  BY <1>1, <1>2, <1>3, <1>4, <1>5

\* The step of local-setup that runs, and what is done on its chain.
LEMMA SetupNow ==
    ASSUME CLIInv, run.result = "running", run.cmd = "local-setup", run.pc <= Len(run.steps)
    PROVE  /\ Now.chain \in Chains /\ Local(PrepareLocal(Now.chain), Now.chain)
           /\ DoneOn(Now.chain) \in 0..17
           /\ Now = PrepareLocal(Now.chain)[DoneOn(Now.chain) + 1]
           /\ LocalStep(Now, Now.chain, DoneOn(Now.chain) + 1)
           /\ run.pc \in 1..36 /\ (Now.chain = 1 <=> run.pc <= 18)
<1> DEFINE pc == run.pc
<1>1. pc \in 1..36
  <2>1. pc \in 1..37 /\ Len(run.steps) = 36 /\ pc <= Len(run.steps)
    BY DEF CLIInv, SetupInv, Live
  <2> HIDE DEF pc
  <2> QED
    BY <2>1
<1>2. /\ \A i \in 1..18 : run.steps[i] = PrepareLocal(1)[i]
      /\ \A i \in 1..18 : run.steps[18 + i] = PrepareLocal(2)[i]
  BY DEF CLIInv, SetupInv, Live
<1>3. Local(PrepareLocal(1), 1) /\ Local(PrepareLocal(2), 2)
  BY LocalSteps
<1>4. /\ DoneOn(1) = IF pc > 18 THEN 18 ELSE pc - 1
      /\ DoneOn(2) = IF pc > 18 THEN pc - 19 ELSE 0
      /\ Now = run.steps[pc]
  BY DEF DoneOn, Now
<1> HIDE DEF pc
<1>5. CASE pc <= 18
  <2>1. pc \in 1..18 /\ DoneOn(1) \in 0..17 /\ DoneOn(1) + 1 = pc
    <3>1. DoneOn(1) = pc - 1
      BY <1>1, <1>4, <1>5
    <3> QED
      BY <1>1, <1>5, <3>1
  <2>2. Now = PrepareLocal(1)[pc]
    BY <1>2, <1>4, <2>1
  <2>3. Now.chain = 1 /\ LocalStep(Now, 1, pc)
    <3>1. LocalStep(PrepareLocal(1)[pc], 1, pc)
      BY <1>3, <2>1, LocalDoes
    <3>2. LocalStep(Now, 1, pc)
      BY <2>2, <3>1
    <3> QED
      BY <3>2 DEF LocalStep
  <2>4. Now.chain \in Chains
    BY <2>3 DEF Chains
  <2>5. run.pc \in 1..36 /\ (Now.chain = 1 <=> run.pc <= 18)
    BY <1>1, <1>5, <2>3 DEF pc
  <2>6. /\ DoneOn(Now.chain) = DoneOn(1) /\ PrepareLocal(Now.chain) = PrepareLocal(1)
        /\ Local(PrepareLocal(Now.chain), Now.chain)
    BY <1>3, <2>3, Zenon
  <2>7. Now = PrepareLocal(Now.chain)[DoneOn(Now.chain) + 1]
    BY <2>1, <2>2, <2>6, Zenon
  <2>8. LocalStep(Now, Now.chain, DoneOn(Now.chain) + 1)
    BY <2>1, <2>3, <2>6, Zenon
  <2>9. DoneOn(Now.chain) \in 0..17
    BY <2>1, <2>6, Zenon
  <2> QED
    BY <2>4, <2>5, <2>6, <2>7, <2>8, <2>9, Zenon
<1>6. CASE pc > 18
  <2> DEFINE j == pc - 18
  <2>1. j \in 1..18 /\ pc = 18 + j /\ DoneOn(2) \in 0..17 /\ DoneOn(2) + 1 = j
    <3>1. DoneOn(2) = pc - 19
      BY <1>4, <1>6
    <3> QED
      BY <1>1, <1>6, <3>1
  <2> HIDE DEF j
  <2>2. Now = PrepareLocal(2)[j]
    BY <1>2, <1>4, <2>1
  <2>3. Now.chain = 2 /\ LocalStep(Now, 2, j)
    <3>1. LocalStep(PrepareLocal(2)[j], 2, j)
      BY <1>3, <2>1, LocalDoes
    <3>2. LocalStep(Now, 2, j)
      BY <2>2, <3>1
    <3> QED
      BY <3>2 DEF LocalStep
  <2>4. ~(pc <= 18)
    BY <1>1, <1>6
  <2>5. Now.chain \in Chains /\ Now.chain # 1
    BY <2>3 DEF Chains
  <2>6. run.pc \in 1..36 /\ (Now.chain = 1 <=> run.pc <= 18)
    BY <1>1, <2>4, <2>5 DEF pc
  <2>7. /\ DoneOn(Now.chain) = DoneOn(2) /\ PrepareLocal(Now.chain) = PrepareLocal(2)
        /\ Local(PrepareLocal(Now.chain), Now.chain)
    BY <1>3, <2>3, Zenon
  <2>8. Now = PrepareLocal(Now.chain)[DoneOn(Now.chain) + 1]
    BY <2>1, <2>2, <2>7, Zenon
  <2>9. LocalStep(Now, Now.chain, DoneOn(Now.chain) + 1)
    BY <2>1, <2>3, <2>7, Zenon
  <2>10. DoneOn(Now.chain) \in 0..17
    BY <2>1, <2>7, Zenon
  <2> QED
    BY <2>5, <2>6, <2>7, <2>8, <2>9, <2>10, Zenon
<1> QED
  BY <1>1, <1>5, <1>6

\* Without deployments a message is as it was given.
LEMMA ResolvedPlain ==
    ASSUME RunType, run.env = NoEnv, NEW m, m.chain \in Chains
    PROVE  /\ Resolved(m).to = m.to
           /\ DOMAIN Resolved(m).args = DOMAIN m.args
           /\ \A i \in DOMAIN m.args : Resolved(m).args[i] = m.args[i]
<1>1. run.env[m.chain] = <<>>
  BY DEF NoEnv
<1>2. DOMAIN <<>> = {}
  OBVIOUS
<1>3. \A x : Named(<<>>, x) = x
  BY <1>2 DEF Named
<1> QED
  BY <1>1, <1>3 DEF Resolved, ResolvedIn

\* A transaction that reaches a contract names one of its methods and carries numbers.
LEMMA NowSent ==
    ASSUME CLIInv, run.result = "running", run.pc <= Len(run.steps), Now.do = "transact"
    PROVE  /\ Resolved(Now).fn = Now.fn /\ Resolved(Now).n = Now.n
           /\ Hit => Now.fn \in Methods /\ Sent(Resolved(Now))
<1>1. Resolved(Now).fn = Now.fn /\ Resolved(Now).n = Now.n
  BY DEF Resolved, ResolvedIn
<1>2. run.pc \in DOMAIN run.steps /\ StepType(Now) /\ Live
  BY NowType DEF Live
<1>3. run.cmd # "deploy"
  <2> SUFFICES ASSUME run.cmd = "deploy" PROVE FALSE
    OBVIOUS
  <2>1. PICK c \in Chains : DeployedSo(c)
    BY <1>2 DEF CLIInv, DeployInv
  <2> QED
    BY <1>2, <2>1 DEF DeployedSo, Now
<1>4. CASE run.cmd = "local-setup"
  <2>1. Now.fn \in Plain \ {"adminSetDepositNonce"}
    BY <1>4, SetupNow DEF LocalStep
  <2>2. Now.fn \in Methods /\ Now.fn # "adminSetDepositNonce"
    BY <2>1 DEF Plain
  <2> QED
    BY <1>1, <1>2, <2>2 DEF StepType, Sent
<1>5. CASE run.cmd # "local-setup"
  <2>1. run.env = NoEnv
    BY <1>2, <1>3, <1>5 DEF CLIInv, SimpleInv, Now
  <2>2. /\ Resolved(Now).to = Now.to
        /\ DOMAIN Resolved(Now).args = DOMAIN Now.args
        /\ \A i \in DOMAIN Now.args : Resolved(Now).args[i] = Now.args[i]
    BY <1>2, <2>1, ResolvedPlain DEF CLIInv, StepType
  <2>3. ASSUME Hit PROVE Now.fn \in Methods
    <3>1. Now.to \in 1..chain[Now.chain].nonce
      BY <2>2, <2>3, KindAddress, NowType DEF Hit
    <3>2. Now.to \in Nat
      BY <3>1, NowType
    <3> QED
      BY <1>2, <3>2, CLIAssumption DEF StepType
  <2>4. ASSUME Now.fn = "adminSetDepositNonce" 
        PROVE  2 \in DOMAIN Resolved(Now).args /\ Resolved(Now).args[2] \in Nat
    BY <1>2, <2>2, <2>4 DEF StepType, Sent
  <2> QED
    BY <1>1, <1>2, <2>3, <2>4 DEF StepType, Sent
<1> QED
  BY <1>4, <1>5


\* What a transaction leaves is again the storage of a chain.
LEMMA NowMined ==
    ASSUME CLIInv, run.result = "running", run.pc <= Len(run.steps)
    PROVE  LET n == chain[Now.chain].nonce + 1 IN
           /\ StoreType(Store, n)
           /\ Now.do = "transact" /\ Hit /\ Accepts(Store, Resolved(Now)) =>
                  StoreType(Applied(Store, Resolved(Now)), n)
           /\ Now.do = "deploy" => StoreType(NewContract, n)
<1> DEFINE n == chain[Now.chain].nonce
<1>1. n \in Nat /\ n + 1 \in Nat /\ n <= n + 1 /\ StoreType(Store, n)
  BY NowType
<1> HIDE DEF n
<1>2. StoreType(Store, n + 1)
  BY <1>1, NonceType
<1>3. ASSUME Now.do = "transact", Hit, Accepts(Store, Resolved(Now))
      PROVE  StoreType(Applied(Store, Resolved(Now)), n + 1)
  <2>1. Resolved(Now).fn \in Methods /\ Sent(Resolved(Now))
    BY <1>3, NowSent
  <2> QED
    BY <1>2, <1>3, <2>1, AppliedType
<1>4. ASSUME Now.do = "deploy"
      PROVE  StoreType(NewContract, n + 1)
  <2>1. Now.to \in Kinds
    BY <1>4, NowType DEF StepType
  <2> QED
    BY <1>1, <2>1, CreatedType DEF NewContract, CreateAddress, n
<1> QED
  BY <1>2, <1>3, <1>4 DEF n

\* The steps that end a command with an error.
LEMMA FailedSteps ==
    ASSUME CLIInv, Reverted \/ DeployPrepared \/ NodeFails \/ MinedUnseen
    PROVE  CLIInv'
<1>1. End("error") /\ run.result = "running" /\ run.pc <= Len(run.steps)
  BY DEF Reverted, DeployPrepared, NodeFails, MinedUnseen, Running
<1>2. Now.chain \in Chains /\ ChainsType
  BY <1>1, NowType DEF CLIInv
<1>3. CASE Reverted
  <2>1. Mined(Store) /\ StoreType(Store, chain[Now.chain].nonce + 1)
    BY <1>1, <1>3, NowMined DEF Reverted
  <2> QED
    BY <1>1, <1>2, <2>1, MinedChain, ErrorInv
<1>4. CASE DeployPrepared \/ NodeFails
  <2>1. chain' = chain
    BY <1>4 DEF DeployPrepared, NodeFails
  <2>2. ChainsType'
    BY <1>2, <2>1 DEF ChainsType
  <2> QED
    BY <1>1, <2>2, ErrorInv
<1>5. CASE MinedUnseen
  <2>1. CASE Now.do = "deploy" /\ Mined(NewContract)
    <3>1. StoreType(NewContract, chain[Now.chain].nonce + 1)
      BY <1>1, <2>1, NowMined
    <3> QED
      BY <1>1, <1>2, <2>1, <3>1, MinedChain, ErrorInv
  <2>2. CASE Now.do = "transact" /\ Hit /\ Accepts(Store, Resolved(Now))
             /\ Mined(Applied(Store, Resolved(Now)))
    <3>1. StoreType(Applied(Store, Resolved(Now)), chain[Now.chain].nonce + 1)
      BY <1>1, <2>2, NowMined
    <3> QED
      BY <1>1, <1>2, <2>2, <3>1, MinedChain, ErrorInv
  <2> QED
    BY <1>5, <2>1, <2>2 DEF MinedUnseen
<1> QED
  BY <1>3, <1>4, <1>5

\* A command that has no step left ends well, and so does a deployment without
\* a bridge.
LEMMA EndedSteps ==
    ASSUME CLIInv, Finish \/ GenericWithoutBridge
    PROVE  CLIInv'
<1>1. /\ End("ok") /\ chain' = chain /\ run.result = "running" /\ Live
      /\ run.pc > Len(run.steps) \/ (run.cmd = "deploy" /\ GenericWithoutBridge)
  BY DEF Finish, GenericWithoutBridge, Running, NoBridge, Live
<1>2. /\ RunType' /\ run'.result = "ok"
      /\ run'.cmd = run.cmd /\ run'.prepare = run.prepare /\ run'.pc = run.pc
      /\ run'.env = run.env /\ run'.start = run.start /\ run'.steps = run.steps
  BY <1>1, EndRun DEF CLIInv
<1>3. ChainsType' /\ StepsType'
  BY <1>1, <1>2 DEF CLIInv, ChainsType, StepsType
<1>4. SimpleInv'
  <2> SUFFICES ASSUME run.cmd \notin {"deploy", "local-setup"} PROVE SimpleInv'
    BY <1>2 DEF SimpleInv
  <2>1. \A m : Shows(m)' = Shows(m)
    BY <1>1, <1>2 DEF Shows, Idle, Effective, Resolved
  <2>2. \A m : MintsToken(m)' = MintsToken(m)
    BY <1>2 DEF MintsToken
  <2> QED
    BY <1>1, <1>2, <2>1, <2>2 DEF CLIInv, SimpleInv
<1>5. DeployInv'
  <2> SUFFICES ASSUME run.cmd = "deploy" PROVE DeployInv'
    BY <1>2 DEF DeployInv
  <2>1. ~run.prepare /\ \E c \in Chains : DeployedSo(c)
    BY <1>1 DEF CLIInv, DeployInv
  <2>2. PICK c \in Chains : DeployedSo(c)
    BY <2>1
  <2>3. \/ run.pc > Len(run.steps)
        \/ run.env[c]["bridge"] = Zero /\ run.steps[run.pc].to = "generic"
    <3>1. CASE GenericWithoutBridge
      <4>1. /\ run.pc \in DOMAIN run.steps /\ run.env[Now.chain]["bridge"] = Zero
            /\ Now.to = "generic"
        BY <3>1, NowType DEF GenericWithoutBridge, Running, NoBridge
      <4> QED
        BY <2>2, <4>1 DEF DeployedSo, Now
    <3> QED
      BY <1>1, <3>1
  <2>4. DeployedSo(c)'
    BY <1>1, <1>2, <2>2, <2>3 DEF DeployedSo
  <2> QED
    BY <1>2, <2>1, <2>4 DEF DeployInv
<1>6. SetupInv'
  <2> SUFFICES ASSUME run.cmd = "local-setup" PROVE SetupInv'
    BY <1>2 DEF SetupInv
  <2>1. run.pc > Len(run.steps) /\ Len(run.steps) = 36 /\ run.pc \in 1..37
    BY <1>1 DEF CLIInv, SetupInv
  <2>2. run.pc = 37
    BY <2>1
  <2>3. \A c \in Chains : DoneOn(c)' = DoneOn(c)
    BY <1>2 DEF DoneOn
  <2> QED
    BY <1>1, <1>2, <2>2, <2>3 DEF CLIInv, SetupInv
<1> QED
  BY <1>2, <1>3, <1>4, <1>5, <1>6 DEF CLIInv


\* A step that is not a transaction, or only prints one, is shown by nothing.
LEMMA SimpleProceeds ==
    ASSUME CLIInv, run.result = "running", run.pc <= Len(run.steps), Proceed, chain' = chain,
           ~Sends(Now) \/ run.prepare
    PROVE  SimpleInv'
<1>1. /\ RunType' /\ run'.pc = run.pc + 1
      /\ run'.cmd = run.cmd /\ run'.prepare = run.prepare /\ run'.result = run.result
      /\ run'.env = run.env /\ run'.start = run.start /\ run'.steps = run.steps
  BY ProceedRun DEF CLIInv
<1> SUFFICES ASSUME run.cmd \notin {"deploy", "local-setup"}
             PROVE  SimpleInv'
  BY <1>1 DEF SimpleInv
<1>2. /\ \A i \in DOMAIN run.steps :
            /\ run.steps[i].do \in {"transact", "deploy"} => i = Len(run.steps)
            /\ run.steps[i].do = "transact" => run.env = NoEnv /\ MintsToken(run.steps[i])
      /\ chain = run.start
  BY DEF CLIInv, SimpleInv, Live
<1>3. run.pc \in Nat /\ Len(run.steps) \in Nat
  BY DEF CLIInv, RunType
<1>4. ASSUME run'.pc > Len(run'.steps), ~run'.prepare
      PROVE  (\A i \in DOMAIN run.steps : Shows(run.steps[i]))'
  <2>1. run.pc = Len(run.steps) /\ ~Sends(Now)
    BY <1>1, <1>3, <1>4
  <2>2. \A i \in DOMAIN run.steps : ~Sends(run.steps[i])
    BY <1>2, <2>1 DEF Now, Sends
  <2> QED
    BY <1>1, <2>2 DEF Shows
<1>5. (\A i \in DOMAIN run.steps : ~Sends(run.steps[i])) => run.cmd \in Quiet
  BY DEF CLIInv, SimpleInv, Live
<1> QED
  BY <1>1, <1>2, <1>4, <1>5 DEF SimpleInv, MintsToken

\* A transaction that was executed shows.
LEMMA SimpleExecuted ==
    ASSUME CLIInv, Executed, run.cmd \notin {"deploy", "local-setup"}
    PROVE  SimpleInv'
<1>1. /\ run.result = "running" /\ run.pc <= Len(run.steps) /\ Now.do = "transact" /\ ~run.prepare
      /\ Proceed /\ Live
  BY DEF Executed, Running, Live
<1>2. /\ RunType' /\ run'.pc = run.pc + 1
      /\ run'.cmd = run.cmd /\ run'.prepare = run.prepare /\ run'.result = run.result
      /\ run'.env = run.env /\ run'.start = run.start /\ run'.steps = run.steps
  BY <1>1, ProceedRun DEF CLIInv
<1>3. /\ \A i \in DOMAIN run.steps :
            /\ run.steps[i].do \in {"transact", "deploy"} => i = Len(run.steps)
            /\ run.steps[i].do = "transact" => run.env = NoEnv /\ MintsToken(run.steps[i])
      /\ chain = run.start
  BY <1>1 DEF CLIInv, SimpleInv
<1>4. run.pc \in DOMAIN run.steps /\ run.pc = Len(run.steps) /\ run.env = NoEnv /\ MintsToken(Now)
  BY <1>1, <1>3, NowType DEF Now
<1>5. /\ Now.chain \in Chains /\ StoreType(Store, chain[Now.chain].nonce)
      /\ Resolved(Now).to = Now.to /\ Resolved(Now).fn = Now.fn
  BY <1>1, <1>4, NowType, NowSent, ResolvedPlain DEF CLIInv
<1> DEFINE m == Now
           r == ResolvedIn(run.env[m.chain], m)
           s == Store
           t == chain'[m.chain].store
<1>6. /\ r = Resolved(Now) /\ r.fn = m.fn /\ r.to = m.to /\ s = run.start[m.chain].store
      /\ StoreType(s, chain[m.chain].nonce)
  BY <1>3, <1>5 DEF Resolved, Store
<1>7. \/ Kind(s, r.to) = "none" /\ \A c \in Chains : chain'[c].store = run.start[c].store
      \/ IF m.fn \in Counted THEN t # s ELSE Applied(t, r) = t
  <2>1. CASE ~Hit /\ Mined(Store)
    <3>1. /\ chain'[Now.chain].store = Store
          /\ \A c \in Chains : c # Now.chain => chain'[c] = chain[c]
      BY <1>1, <1>5, <2>1, NowMined, MinedChain DEF CLIInv
    <3>2. \A c \in Chains : chain'[c].store = run.start[c].store
      BY <1>3, <3>1 DEF Store
    <3> QED
      BY <1>6, <2>1, <3>2 DEF Hit
  <2>2. CASE Hit /\ Accepts(Store, Resolved(Now)) /\ Mined(Applied(Store, Resolved(Now)))
    <3>1. StoreType(Applied(s, r), chain[m.chain].nonce + 1)
      BY <1>1, <1>6, <2>2, NowMined
    <3>2. t = Applied(s, r)
      BY <1>5, <1>6, <2>2, <3>1, MinedChain DEF CLIInv
    <3>3. r.fn \in Methods /\ Sent(r)
      BY <1>1, <1>6, <2>2, NowSent
    <3>4. Accepts(s, r) /\ Kind(s, r.to) # "none"
      BY <1>6, <2>2 DEF Hit
    <3> SUFFICES IF r.fn \in Counted THEN t # s ELSE Applied(t, r) = t
      BY <1>6
    <3> HIDE DEF m, r, s, t
    <3>5. CASE r.fn \in Counted
      <4>1. r.fn = "mint" => Kind(s, r.to) \in {"erc20", "erc721"}
        BY <1>4, <1>6, <3>4 DEF MintsToken, m
      <4> QED
        BY <1>6, <3>2, <3>3, <3>4, <3>5, <4>1, CountedChanges
    <3>6. CASE r.fn \notin Counted
      BY <1>6, <3>2, <3>3, <3>6, AppliedTwice
    <3> QED
      BY <3>5, <3>6
  <2> QED
    BY <2>1, <2>2 DEF Executed
<1>8. ASSUME NEW i \in DOMAIN run.steps, Sends(run.steps[i])
      PROVE  Shows(run.steps[i])'
  <2>1. run'.steps[i] = m
    BY <1>2, <1>3, <1>4, <1>8 DEF Now, Sends
  <2>2. /\ run'.env[m.chain] = run.env[m.chain] /\ run'.start[m.chain].store = s
        /\ run'.start = run.start /\ m.do = "transact"
    BY <1>1, <1>2, <1>6
  <2> HIDE DEF m, s, t
  <2> QED
    BY <1>7, <2>1, <2>2 DEF Shows, Idle, Effective, Resolved, t
<1>9. (\A i \in DOMAIN run.steps : Shows(run.steps[i]))'
  <2>1. \A i \in DOMAIN run'.steps : ~Sends(run'.steps[i]) => Shows(run.steps[i])'
    BY DEF Shows
  <2> QED
    BY <1>2, <1>8, <2>1
<1>10. ~(run'.pc <= Len(run'.steps)) /\ run'.result # "ok"
  BY <1>1, <1>2, <1>4 DEF CLIInv, RunType
<1>11. run'.steps[run.pc].do = "transact" /\ run.pc \in DOMAIN run'.steps
  BY <1>1, <1>2, <1>4 DEF Now
<1> QED
  BY <1>1, <1>2, <1>3, <1>9, <1>10, <1>11 DEF SimpleInv, MintsToken, Sends


\* A contract that was deployed goes by its name on its chain.
LEMMA DeployedRun ==
    ASSUME CLIInv, Deployed
    PROVE  /\ run.result = "running" /\ run.pc <= Len(run.steps) /\ Now.do = "deploy" /\ ~run.prepare
           /\ Live /\ Live' /\ RunType' /\ run'.pc = run.pc + 1
           /\ run'.cmd = run.cmd /\ run'.prepare = run.prepare /\ run'.result = run.result
           /\ run'.start = run.start /\ run'.steps = run.steps
           /\ run'.env[Now.chain] = Put(run.env[Now.chain], Now.to, chain[Now.chain].nonce + 1)
           /\ \A c \in Chains : c # Now.chain => run'.env[c] = run.env[c]
<1>1. /\ run.result = "running" /\ run.pc <= Len(run.steps) /\ Now.do = "deploy" /\ ~run.prepare
      /\ Live
  BY DEF Deployed, Running, Live
<1> DEFINE n == Now.chain
           f == Put(run.env[n], Now.to, chain[n].nonce + 1)
           env == [run.env EXCEPT ![n] = f]
<1>2. n \in Chains
  BY <1>1, NowType
<1>3. run' = [run EXCEPT !.pc = run.pc + 1, !.env = env]
  BY DEF Deployed, CreateAddress
<1> HIDE DEF f, n
<1>4. /\ env = [c \in Chains |-> env[c]] /\ env[n] = f
      /\ \A c \in Chains : c # n => env[c] = run.env[c]
  BY <1>2 DEF CLIInv, RunType
<1> HIDE DEF env
<1>5. run' = [cmd |-> run.cmd, prepare |-> run.prepare, pc |-> run.pc + 1, env |-> env,
              start |-> run.start, steps |-> run.steps, result |-> run.result]
  BY <1>3 DEF CLIInv, RunType
<1>6. run.pc + 1 \in Nat \ {0}
  BY DEF CLIInv, RunType
<1>7. RunType'
  BY <1>4, <1>5, <1>6 DEF CLIInv, RunType
<1> QED
  BY <1>1, <1>4, <1>5, <1>7 DEF Live, f, n

\* And it is there.
LEMMA DeployedChain ==
    ASSUME CLIInv, Deployed
    PROVE  /\ ChainsType' /\ chain'[Now.chain].nonce = chain[Now.chain].nonce + 1
           /\ chain'[Now.chain].store = NewContract
           /\ \A c \in Chains : c # Now.chain => chain'[c] = chain[c]
<1>1. run.result = "running" /\ run.pc <= Len(run.steps) /\ Now.do = "deploy" /\ Mined(NewContract)
  BY DeployedRun DEF Deployed
<1>2. Now.chain \in Chains /\ StoreType(NewContract, chain[Now.chain].nonce + 1)
  BY <1>1, NowType, NowMined
<1> QED
  BY <1>1, <1>2, MinedChain DEF CLIInv

\* A single deployment is the last step and no transaction goes with it.
LEMMA SimpleDeployed ==
    ASSUME CLIInv, Deployed
    PROVE  SimpleInv'
<1>1. /\ run.result = "running" /\ run.pc <= Len(run.steps) /\ Now.do = "deploy" /\ ~run.prepare
      /\ Live /\ Live' /\ RunType' /\ run'.pc = run.pc + 1
      /\ run'.cmd = run.cmd /\ run'.prepare = run.prepare /\ run'.result = run.result
      /\ run'.start = run.start /\ run'.steps = run.steps
  BY DeployedRun
<1> SUFFICES ASSUME run.cmd \notin {"deploy", "local-setup"} PROVE SimpleInv'
  BY <1>1 DEF SimpleInv
<1>2. \A i \in DOMAIN run.steps : run.steps[i].do \in {"transact", "deploy"} => i = Len(run.steps)
  BY <1>1 DEF CLIInv, SimpleInv
<1>3. run.pc = Len(run.steps)
  BY <1>1, <1>2, NowType DEF Now
<1>4. \A i \in DOMAIN run.steps : run.steps[i].do # "transact"
  BY <1>1, <1>2, <1>3 DEF Now
<1>5. ~(run'.pc <= Len(run'.steps)) /\ run'.result # "ok"
  BY <1>1, <1>3 DEF CLIInv, RunType
<1>6. run.pc \in DOMAIN run.steps /\ \A i \in DOMAIN run.steps : Sends(run.steps[i]) => i = run.pc
  BY <1>1, <1>2, <1>3, NowType DEF Sends
<1> DEFINE n == Now.chain
           a == chain[n].nonce + 1
           kind == Now.to
           t == chain'[n].store
           f == run'.env[n]
<1>7. kind \in DOMAIN f /\ Kind(t, f[kind]) = kind
  <2>1. /\ kind \in Kinds /\ t = NewContract /\ f = Put(run.env[n], kind, a)
        /\ NewContract = Created(Store, a, kind, Named(run.env[n], "bridge"), Now.n, Now.args)
    BY <1>1, NowType, DeployedRun, DeployedChain DEF StepType, NewContract, CreateAddress
  <2>2. Adds(Store, t, a, kind, Named(run.env[n], "bridge"), Now.n, Now.args)
    BY <2>1, CreatedAdds
  <2> HIDE DEF t, f, a, kind
  <2>3. Is(t, <<"code", a>>, kind)
    BY <2>2 DEF Adds
  <2>4. kind \in DOMAIN f /\ f[kind] = a
    BY <2>1 DEF Put
  <2> QED
    BY <2>3, <2>4 DEF Is, Kind, Get
<1>8. run'.steps[run.pc].chain = n /\ run'.steps[run.pc].do = "deploy" /\ run'.steps[run.pc].to = kind
  BY <1>1 DEF Now
<1> HIDE DEF n, a, kind
<1>9. (\A i \in DOMAIN run.steps : Shows(run.steps[i]))'
  BY <1>1, <1>6, <1>7, <1>8 DEF Shows, Effective
<1> QED
  BY <1>1, <1>2, <1>4, <1>5, <1>6, <1>8, <1>9 DEF SimpleInv, Sends

\* deploy: the new contract is at an address of its own and answers to the bridge.
LEMMA DeployDeployed ==
    ASSUME CLIInv, Deployed
    PROVE  DeployInv'
<1>1. /\ run.result = "running" /\ run.pc <= Len(run.steps) /\ Now.do = "deploy" /\ ~run.prepare
      /\ Live /\ run'.pc = run.pc + 1
      /\ run'.cmd = run.cmd /\ run'.prepare = run.prepare /\ run'.result = run.result
      /\ run'.start = run.start /\ run'.steps = run.steps
  BY DeployedRun
<1> SUFFICES ASSUME run.cmd = "deploy" PROVE DeployInv'
  BY <1>1 DEF DeployInv
<1>2. PICK c \in Chains : DeployedSo(c)
  BY <1>1 DEF CLIInv, DeployInv
<1> DEFINE s == chain[c].store
           e == run.env[c]
           n == chain[c].nonce
           a == n + 1
           kind == Now.to
           t == chain'[c].store
           f == run'.env[c]
           pc == run.pc
<1>3. /\ pc \in DOMAIN run.steps /\ Now.chain = c /\ kind = run.steps[pc].to
      /\ kind \in Kinds /\ (kind = "bridge" => pc = 1)
      /\ n \in Nat
  BY <1>1, <1>2, NowType DEF DeployedSo, Now
<1>4. "bridge" \in DOMAIN e
  BY <1>2 DEF DeployedSo
<1>5. /\ f = Put(e, kind, a) /\ chain'[c].nonce = a
      /\ t = Created(s, a, kind, Named(e, "bridge"), Now.n, Now.args)
  BY <1>3, DeployedRun, DeployedChain DEF NewContract, CreateAddress, Store
<1>6. Named(e, "bridge") = e["bridge"]
  BY <1>4 DEF Named
<1>7. \A i \in DOMAIN run.steps : i < pc =>
          LET k == run.steps[i].to
          IN  /\ k \in DOMAIN e /\ e[k] \in 1..n
              /\ Is(s, <<"code", e[k]>>, k)
              /\ k \in Handlers => Is(s, <<"bridge", e[k]>>, e["bridge"])
  BY <1>2 DEF DeployedSo
<1> HIDE DEF s, e, n, a, kind, t, f
<1>8. Adds(s, t, a, kind, e["bridge"], Now.n, Now.args)
  BY <1>3, <1>5, <1>6, CreatedAdds
<1>9. /\ DOMAIN f = DOMAIN e \cup {kind} /\ f[kind] = a
      /\ \A k \in DOMAIN e : k # kind => f[k] = e[k]
  BY <1>5 DEF Put
<1>10. /\ Is(t, <<"code", a>>, kind) /\ (kind \in Handlers => Is(t, <<"bridge", a>>, e["bridge"]))
  BY <1>8 DEF Adds
<1>11. \A x, v : x # a => /\ Is(s, <<"code", x>>, v) => Is(t, <<"code", x>>, v)
                          /\ Is(s, <<"bridge", x>>, v) => Is(t, <<"bridge", x>>, v)
  BY <1>8 DEF Adds, Is
<1>12. a \in 1..a /\ a \notin 1..n /\ 1..n \subseteq 1..a
  BY <1>3 DEF a
<1>13. kind # "bridge" => f["bridge"] = e["bridge"]
  BY <1>4, <1>9
<1>14. kind \in Handlers => kind # "bridge"
  BY DEF Handlers
<1>15. ASSUME NEW i \in DOMAIN run.steps, i < pc + 1
       PROVE  LET k == run.steps[i].to
              IN  /\ k \in DOMAIN f /\ f[k] \in 1..a
                  /\ Is(t, <<"code", f[k]>>, k)
                  /\ k \in Handlers => Is(t, <<"bridge", f[k]>>, f["bridge"])
  <2> DEFINE k == run.steps[i].to
  <2>0. i \in Nat /\ pc \in Nat /\ i >= 1
    BY DEF CLIInv, RunType
  <2>1. CASE k = kind
    BY <1>9, <1>10, <1>12, <1>13, <1>14, <2>1
  <2>2. CASE k # kind
    <3>1. i < pc /\ kind # "bridge"
      <4>1. i # pc
        BY <1>3, <2>2
      <4>2. i < pc
        BY <1>15, <2>0, <4>1
      <4> QED
        BY <1>3, <2>0, <4>2
    <3>2. /\ k \in DOMAIN e /\ e[k] \in 1..n /\ Is(s, <<"code", e[k]>>, k)
          /\ k \in Handlers => Is(s, <<"bridge", e[k]>>, e["bridge"])
      BY <1>7, <3>1
    <3> HIDE DEF k, pc
    <3>3. f[k] = e[k] /\ k \in DOMAIN f /\ e[k] # a /\ e[k] \in 1..a /\ f["bridge"] = e["bridge"]
      BY <1>9, <1>12, <1>13, <2>2, <3>1, <3>2
    <3> QED
      BY <1>11, <3>2, <3>3 DEF k
  <2> QED
    BY <2>1, <2>2
<1>16. /\ "bridge" \in DOMAIN f
       /\ \A i \in DOMAIN run.steps :
              /\ run.steps[i].chain = c /\ run.steps[i].do = "deploy"
              /\ run.steps[i].to \in Kinds
              /\ run.steps[i].to = "bridge" => i = 1
       /\ DOMAIN run.steps # {}
  BY <1>2, <1>4, <1>9 DEF DeployedSo
<1>17. DeployedSo(c)'
  BY <1>1, <1>5, <1>15, <1>16 DEF DeployedSo, t, f
<1> QED
  BY <1>1, <1>17 DEF DeployInv


\* One more step is done on the chain it was for.
LEMMA DoneNext ==
    ASSUME CLIInv, run.result = "running", run.cmd = "local-setup", run.pc <= Len(run.steps),
           run'.pc = run.pc + 1, NEW n, n = Now.chain
    PROVE  /\ DoneOn(n)' = DoneOn(n) + 1
           /\ \A c \in Chains : c # n => DoneOn(c)' = DoneOn(c)
           /\ run'.pc \in 1..37
<1> DEFINE pc == run.pc
<1>1. n \in {1, 2} /\ pc \in 1..36 /\ (n = 1 <=> pc <= 18)
  BY SetupNow DEF Chains
<1>2. \A c : /\ DoneOn(c) = IF c = 1 THEN IF pc > 18 THEN 18 ELSE pc - 1
                            ELSE IF pc > 18 THEN pc - 19 ELSE 0
             /\ DoneOn(c)' = IF c = 1 THEN IF pc + 1 > 18 THEN 18 ELSE (pc + 1) - 1
                             ELSE IF pc + 1 > 18 THEN (pc + 1) - 19 ELSE 0
  BY DEF DoneOn
<1>5. run'.pc \in 1..37
  <2>1. pc + 1 \in 1..37
    <3> HIDE DEF pc
    <3> QED
      BY <1>1
  <2> QED
    BY <2>1
<1> HIDE DEF pc
<1>3. (IF n = 1 THEN IF pc + 1 > 18 THEN 18 ELSE (pc + 1) - 1
       ELSE IF pc + 1 > 18 THEN (pc + 1) - 19 ELSE 0)
      = (IF n = 1 THEN IF pc > 18 THEN 18 ELSE pc - 1 ELSE IF pc > 18 THEN pc - 19 ELSE 0) + 1
  BY <1>1
<1>4. \A c \in {1, 2} : c # n =>
         (IF c = 1 THEN IF pc + 1 > 18 THEN 18 ELSE (pc + 1) - 1
          ELSE IF pc + 1 > 18 THEN (pc + 1) - 19 ELSE 0)
         = (IF c = 1 THEN IF pc > 18 THEN 18 ELSE pc - 1 ELSE IF pc > 18 THEN pc - 19 ELSE 0)
  BY <1>1
<1>6. DoneOn(n)' = IF n = 1 THEN IF pc + 1 > 18 THEN 18 ELSE (pc + 1) - 1
                   ELSE IF pc + 1 > 18 THEN (pc + 1) - 19 ELSE 0
  BY <1>2
<1>7. DoneOn(n) = IF n = 1 THEN IF pc > 18 THEN 18 ELSE pc - 1 ELSE IF pc > 18 THEN pc - 19 ELSE 0
  BY <1>2
<1>8. DoneOn(n)' = DoneOn(n) + 1
  BY <1>3, <1>6, <1>7, Zenon
<1>9. \A c \in {1, 2} : c # n => DoneOn(c)' = DoneOn(c)
  BY <1>2, <1>4
<1> QED
  BY <1>5, <1>8, <1>9 DEF Chains

\* What a step of local-setup brings about on its chain.
Reached(s, e, d, c, nonce) ==
    /\ run.start[c].nonce <= nonce
    /\ ContractsUp(s, e, d, run.start[c].nonce, nonce) /\ ResourcesUp(s, e, d)

\* A step that brings its chain one step further keeps SetupInv.
LEMMA SetupStep ==
    ASSUME CLIInv, run.result = "running", run.cmd = "local-setup", run.pc <= Len(run.steps),
           run'.pc = run.pc + 1, run'.cmd = run.cmd, run'.prepare = run.prepare,
           run'.result = run.result, run'.start = run.start, run'.steps = run.steps,
           NEW n \in Chains, n = Now.chain,
           \A c \in Chains : c # n => chain'[c] = chain[c] /\ run'.env[c] = run.env[c],
           Reached(chain'[n].store, run'.env[n], DoneOn(n) + 1, n, chain'[n].nonce)
    PROVE  SetupInv'
<1>1. /\ ~run.prepare /\ Len(run.steps) = 36
      /\ \A i \in 1..18 : /\ run.steps[i] = PrepareLocal(1)[i]
                          /\ run.steps[18 + i] = PrepareLocal(2)[i]
      /\ \A c \in Chains : Reached(chain[c].store, run.env[c], DoneOn(c), c, chain[c].nonce)
  BY DEF CLIInv, SetupInv, Live, Reached
<1>2. /\ DoneOn(n)' = DoneOn(n) + 1
      /\ \A c \in Chains : c # n => DoneOn(c)' = DoneOn(c)
      /\ run'.pc \in 1..37
  BY DoneNext
<1>3. \A s, e, d, c, x : Reached(s, e, d, c, x) =>
          /\ run'.start[c].nonce <= x
          /\ ContractsUp(s, e, d, run'.start[c].nonce, x) /\ ResourcesUp(s, e, d)
  BY DEF Reached
<1>4. ASSUME NEW c \in Chains
      PROVE  Reached(chain'[c].store, run'.env[c], DoneOn(c)', c, chain'[c].nonce)
  <2>1. CASE c = n
    BY <1>2, <2>1
  <2>2. CASE c # n
    BY <1>1, <1>2, <2>2
  <2> QED
    BY <2>1, <2>2
<1>5. (\A c \in Chains :
         /\ run.start[c].nonce <= chain[c].nonce
         /\ ContractsUp(chain[c].store, run.env[c], DoneOn(c), run.start[c].nonce, chain[c].nonce)
         /\ ResourcesUp(chain[c].store, run.env[c], DoneOn(c)))'
  BY <1>3, <1>4
<1> QED
  BY <1>1, <1>2, <1>5 DEF SetupInv


\* Where local-setup stands on the chain of its next step.
LEMMA SetupAt ==
    ASSUME CLIInv, run.result = "running", run.cmd = "local-setup", run.pc <= Len(run.steps)
    PROVE  /\ Reached(Store, run.env[Now.chain], DoneOn(Now.chain), Now.chain,
                      chain[Now.chain].nonce)
           /\ run.start[Now.chain].nonce \in Nat
<1>1. Now.chain \in Chains
  BY NowType
<1> QED
  BY <1>1 DEF CLIInv, SetupInv, RunType, ChainType, Live, Reached, Store

\* Deployments are such steps.
LEMMA SetupDeployed ==
    ASSUME CLIInv, Deployed, run.cmd = "local-setup"
    PROVE  SetupInv'
<1>1. /\ run.result = "running" /\ run.pc <= Len(run.steps) /\ Now.do = "deploy"
      /\ run'.pc = run.pc + 1
      /\ run'.cmd = run.cmd /\ run'.prepare = run.prepare /\ run'.result = run.result
      /\ run'.start = run.start /\ run'.steps = run.steps
  BY DeployedRun
<1> DEFINE n == Now.chain
           d == DoneOn(n)
           nonce == chain[n].nonce
           e == run.env[n]
           low == run.start[n].nonce
<1>2. n \in Chains /\ nonce \in Nat /\ StoreType(Store, nonce)
  BY <1>1, NowType
<1>3. d \in 0..17 /\ LocalStep(Now, n, d + 1)
  BY <1>1, SetupNow
<1>4. Reached(Store, e, d, n, nonce) /\ low \in Nat
  BY <1>1, SetupAt
<1>5. /\ \A c \in Chains : c # n => chain'[c] = chain[c] /\ run'.env[c] = run.env[c]
      /\ chain'[n].nonce = nonce + 1 /\ run'.env[n] = Put(e, Now.to, nonce + 1)
      /\ chain'[n].store = Created(Store, nonce + 1, Now.to, Named(e, "bridge"), Now.n, Now.args)
  BY DeployedRun, DeployedChain DEF NewContract, CreateAddress
<1>6. /\ low <= nonce /\ ContractsUp(Store, e, d, low, nonce)
      /\ \A s, f, x : Reached(s, f, d + 1, n, x) <=>
            low <= x /\ ContractsUp(s, f, d + 1, low, x) /\ ResourcesUp(s, f, d + 1)
  BY <1>4 DEF Reached
<1> HIDE DEF n, d, nonce, e, low
<1>7. /\ d + 1 <= 7 /\ Now.to \in Kinds /\ Place(Now.to) = d + 1
      /\ Now.to = "bridge" => Now.n = 1 /\ Now.args = Relayers
  BY <1>1, <1>3 DEF LocalStep
<1>8. d \in 0..6 /\ low <= nonce + 1
  BY <1>2, <1>3, <1>4, <1>6, <1>7
<1>9. ContractsUp(chain'[n].store, run'.env[n], d + 1, low, nonce + 1)
  <2>1. ContractsUp(Created(Store, nonce + 1, Now.to, Named(e, "bridge"), Now.n, Now.args),
                    Put(e, Now.to, nonce + 1), d + 1, low, nonce + 1)
    <3> DEFINE kind == Now.to
               x == Now.n
               relayers == Now.args
    <3>1. /\ kind \in Kinds /\ Place(kind) = d + 1
          /\ kind = "bridge" => x = 1 /\ relayers = Relayers
      BY <1>7
    <3> HIDE DEF kind, x, relayers
    <3>2. ContractsUp(Created(Store, nonce + 1, kind, Named(e, "bridge"), x, relayers),
                      Put(e, kind, nonce + 1), d + 1, low, nonce + 1)
      BY <1>2, <1>4, <1>6, <1>8, <3>1, ContractsAdd
    <3> QED
      BY <3>2 DEF kind, x, relayers
  <2> QED
    BY <1>5, <2>1
<1>10. \A s, f : ResourcesUp(s, f, d + 1)
  BY <1>8 DEF ResourcesUp
<1>11. Reached(chain'[n].store, run'.env[n], d + 1, n, chain'[n].nonce)
  BY <1>5, <1>6, <1>8, <1>9, <1>10
<1> QED
  BY <1>1, <1>2, <1>5, <1>11, SetupStep DEF n, d

\* The contract a transaction of local-setup is sent to is there, so it is not
\* sent into the void.
LEMMA SetupHits ==
    ASSUME CLIInv, run.result = "running", run.cmd = "local-setup", run.pc <= Len(run.steps),
           Now.do # "deploy"
    PROVE  Hit /\ DoneOn(Now.chain) \in 7..17
<1> DEFINE n == Now.chain
           d == DoneOn(n)
           nonce == chain[n].nonce
           e == run.env[n]
           low == run.start[n].nonce
<1>1. n \in Chains /\ nonce \in Nat
  BY NowType
<1>2. d \in 0..17 /\ LocalStep(Now, n, d + 1)
  BY SetupNow
<1>3. ContractsUp(Store, e, d, low, nonce) /\ low \in Nat
  BY SetupAt DEF Reached
<1>4. Resolved(Now).to = Named(e, Now.to)
  BY DEF Resolved, ResolvedIn
<1> HIDE DEF n, d, nonce, e, low
<1>5. Now.to \in Kinds /\ ~(d + 1 <= 7)
  BY <1>2 DEF LocalStep
<1>6. d \in 7..17 /\ d \in Nat /\ d >= 7
  BY <1>2, <1>5
<1>7. Named(e, Now.to) = e[Now.to] /\ Kind(Store, e[Now.to]) = Now.to
  <2>1. Resolves(e) /\ \A k \in Kinds : Kind(Store, e[k]) = k
    BY <1>1, <1>3, <1>6, AllDeployed
  <2> QED
    BY <1>5, <2>1 DEF Resolves
<1>8. Now.to # "none"
  BY <1>5 DEF Kinds, Handlers
<1> QED
  BY <1>4, <1>6, <1>7, <1>8 DEF Hit, n, d

\* Transactions are such steps.
LEMMA SetupExecuted ==
    ASSUME CLIInv, Executed, run.cmd = "local-setup"
    PROVE  SetupInv'
<1>1. /\ run.result = "running" /\ run.pc <= Len(run.steps) /\ Now.do = "transact" /\ Proceed
  BY DEF Executed, Running
<1>2. /\ run'.pc = run.pc + 1
      /\ run'.cmd = run.cmd /\ run'.prepare = run.prepare /\ run'.result = run.result
      /\ run'.env = run.env /\ run'.start = run.start /\ run'.steps = run.steps
  BY <1>1, ProceedRun DEF CLIInv
<1> DEFINE n == Now.chain
           d == DoneOn(n)
           nonce == chain[n].nonce
           e == run.env[n]
           low == run.start[n].nonce
           L == PrepareLocal(n)
<1>3. n \in Chains /\ nonce \in Nat /\ StoreType(Store, nonce)
  BY <1>1, NowType
<1>4. Hit /\ d \in 7..17
  BY <1>1, SetupHits
<1>5. Local(L, n) /\ Now = L[d + 1]
  BY <1>1, SetupNow
<1>6. Reached(Store, e, d, n, nonce) /\ low \in Nat
  BY <1>1, SetupAt
<1>7. /\ Accepts(Store, Resolved(Now)) /\ Mined(Applied(Store, Resolved(Now)))
  BY <1>4 DEF Executed
<1>8. /\ \A c \in Chains : c # n => chain'[c] = chain[c]
      /\ chain'[n].nonce = nonce + 1
      /\ chain'[n].store = Applied(Store, Resolved(Now))
  <2>1. StoreType(Applied(Store, Resolved(Now)), nonce + 1)
    BY <1>1, <1>4, <1>7, NowMined
  <2> QED
    BY <1>3, <1>7, <2>1, MinedChain DEF CLIInv
<1>9. /\ low <= nonce /\ ContractsUp(Store, e, d, low, nonce) /\ ResourcesUp(Store, e, d)
      /\ \A s, x : Reached(s, e, d + 1, n, x) <=>
            low <= x /\ ContractsUp(s, e, d + 1, low, x) /\ ResourcesUp(s, e, d + 1)
  BY <1>6 DEF Reached
<1>10. Resolved(Now) = ResolvedIn(e, L[d + 1])
  BY <1>5 DEF Resolved
<1>11. L[d + 1].do = "transact"
  BY <1>1, <1>5
<1> HIDE DEF n, d, nonce, e, low, L
<1>12. low <= nonce + 1
  BY <1>3, <1>6, <1>9
<1> DEFINE t == Applied(Store, ResolvedIn(e, L[d + 1]))
<1>13. ContractsUp(t, e, d + 1, low, nonce + 1) /\ ResourcesUp(t, e, d + 1)
  BY <1>3, <1>4, <1>5, <1>6, <1>9, <1>11, LocalExecuted
<1>14. chain'[n].store = t
  BY <1>8, <1>10
<1> HIDE DEF t
<1>15. Reached(chain'[n].store, run'.env[n], d + 1, n, chain'[n].nonce)
  <2>1. run'.env[n] = e
    BY <1>2 DEF e
  <2> QED
    BY <1>8, <1>9, <1>12, <1>13, <1>14, <2>1
<1> QED
  BY <1>1, <1>2, <1>3, <1>8, <1>15, SetupStep DEF n, d

\* Calls are such steps.
LEMMA SetupCalled ==
    ASSUME CLIInv, run.result = "running", run.cmd = "local-setup", run.pc <= Len(run.steps),
           Now.do = "call", Proceed, chain' = chain
    PROVE  SetupInv'
<1>1. /\ run'.pc = run.pc + 1
      /\ run'.cmd = run.cmd /\ run'.prepare = run.prepare /\ run'.result = run.result
      /\ run'.env = run.env /\ run'.start = run.start /\ run'.steps = run.steps
  BY ProceedRun DEF CLIInv
<1> DEFINE n == Now.chain
           d == DoneOn(n)
           nonce == chain[n].nonce
           e == run.env[n]
           low == run.start[n].nonce
<1>2. n \in Chains /\ nonce \in Nat
  BY NowType
<1>3. d \in 7..17 /\ LocalStep(Now, n, d + 1)
  BY SetupHits, SetupNow
<1>4. Reached(Store, e, d, n, nonce) /\ low \in Nat
  BY SetupAt
<1>5. /\ low <= nonce /\ ContractsUp(Store, e, d, low, nonce) /\ ResourcesUp(Store, e, d)
      /\ \A s, x : Reached(s, e, d + 1, n, x) <=>
            low <= x /\ ContractsUp(s, e, d + 1, low, x) /\ ResourcesUp(s, e, d + 1)
  BY <1>4 DEF Reached
<1>6. chain'[n].store = Store /\ chain'[n].nonce = nonce /\ run'.env[n] = e
  BY <1>1 DEF Store
<1> HIDE DEF n, d, nonce, e, low
<1>7. d = 10 \/ d = 14
  <2>1. d + 1 \in {11, 15}
    BY <1>3 DEF LocalStep
  <2> QED
    BY <1>3, <2>1
<1>8. ResourcesUp(Store, e, d + 1)
  BY <1>5, <1>7, Resources11
<1>9. ContractsUp(Store, e, d + 1, low, nonce)
  <2>1. d \in Nat /\ d >= 7
    BY <1>3
  <2> QED
    BY <1>2, <1>4, <1>5, <2>1, AllDeployed
<1>10. Reached(chain'[n].store, run'.env[n], d + 1, n, chain'[n].nonce)
  BY <1>5, <1>6, <1>8, <1>9
<1> QED
  BY <1>1, <1>2, <1>10, SetupStep DEF n, d


\* deploy has no other steps than deployments.
LEMMA DeployOnly ==
    ASSUME CLIInv, run.result = "running", run.pc <= Len(run.steps), run.cmd = "deploy"
    PROVE  Now.do = "deploy"
<1>1. PICK c \in Chains : DeployedSo(c)
  BY DEF CLIInv, DeployInv, Live
<1>2. run.pc \in DOMAIN run.steps
  BY NowType
<1> QED
  BY <1>1, <1>2 DEF DeployedSo, Now

\* The steps after which the command goes on.
LEMMA SucceededSteps ==
    ASSUME CLIInv, Prepared \/ Executed \/ Called \/ Asked \/ Deployed
    PROVE  CLIInv'
<1>1. run.result = "running" /\ run.pc <= Len(run.steps)
  BY DEF Prepared, Executed, Called, Asked, Deployed, Running
<1>2. CASE Deployed
  <2>1. RunType' /\ run'.cmd = run.cmd /\ run'.result = run.result /\ run'.steps = run.steps
    BY <1>2, DeployedRun
  <2>2. ChainsType' /\ SimpleInv' /\ DeployInv'
    BY <1>2, DeployedChain, SimpleDeployed, DeployDeployed
  <2>3. SetupInv'
    BY <1>2, <2>1, SetupDeployed DEF SetupInv
  <2>4. StepsType'
    BY <2>1 DEF CLIInv, StepsType
  <2> QED
    BY <2>1, <2>2, <2>3, <2>4 DEF CLIInv
<1>3. ASSUME Proceed
      PROVE  /\ RunType' /\ StepsType' /\ run'.cmd = run.cmd
             /\ Now.do # "deploy" => DeployInv'
  <2>1. RunType' /\ run'.cmd = run.cmd /\ run'.result = run.result /\ run'.steps = run.steps
    BY <1>3, ProceedRun DEF CLIInv
  <2>2. StepsType'
    BY <2>1 DEF CLIInv, StepsType
  <2>3. Now.do # "deploy" => DeployInv'
    BY <1>1, <2>1, DeployOnly DEF DeployInv
  <2> QED
    BY <2>1, <2>2, <2>3
<1>4. CASE Executed
  <2>1. Proceed /\ Now.do = "transact"
    BY <1>4 DEF Executed, Running
  <2>2. RunType' /\ StepsType' /\ run'.cmd = run.cmd /\ DeployInv'
    BY <1>3, <2>1
  <2>3. ChainsType'
    <3>1. Now.chain \in Chains /\ ChainsType
      BY <1>1, NowType DEF CLIInv
    <3>2. CASE Mined(Store)
      BY <1>1, <3>1, <3>2, NowMined, MinedChain
    <3>3. CASE Hit /\ Accepts(Store, Resolved(Now)) /\ Mined(Applied(Store, Resolved(Now)))
      <4>1. StoreType(Applied(Store, Resolved(Now)), chain[Now.chain].nonce + 1)
        BY <1>1, <2>1, <3>3, NowMined
      <4> QED
        BY <3>1, <3>3, <4>1, MinedChain
    <3> QED
      BY <1>4, <3>2, <3>3 DEF Executed
  <2>4. SimpleInv'
    BY <1>4, <2>2, SimpleExecuted DEF SimpleInv
  <2>5. SetupInv'
    BY <1>4, <2>2, SetupExecuted DEF SetupInv
  <2> QED
    BY <2>2, <2>3, <2>4, <2>5 DEF CLIInv
<1>5. ASSUME Proceed, chain' = chain, Now.do # "deploy", Now.do # "transact" \/ run.prepare
      PROVE  CLIInv'
  <2>1. RunType' /\ StepsType' /\ run'.cmd = run.cmd /\ DeployInv' /\ SimpleInv'
    BY <1>1, <1>3, <1>5, SimpleProceeds DEF Sends
  <2>2. ChainsType'
    BY <1>5 DEF CLIInv, ChainsType
  <2>3. SetupInv'
    <3> SUFFICES ASSUME run.cmd = "local-setup" PROVE SetupInv'
      BY <2>1 DEF SetupInv
    <3>1. ~run.prepare
      BY <1>1 DEF CLIInv, SetupInv, Live
    <3>2. Now.do \in {"deploy", "transact", "call"}
      BY <1>1, SetupNow DEF LocalStep
    <3> QED
      BY <1>1, <1>5, <3>1, <3>2, SetupCalled
  <2> QED
    BY <2>1, <2>2, <2>3 DEF CLIInv
<1>6. CASE Prepared \/ Asked
  BY <1>5, <1>6 DEF Prepared, Asked, Running
<1>7. CASE Called
  <2>1. chain' = chain /\ Now.do = "call" /\ (Proceed \/ End("error"))
    BY <1>7 DEF Called, Running
  <2>2. ChainsType'
    BY <2>1 DEF CLIInv, ChainsType
  <2> QED
    BY <1>5, <2>1, <2>2, ErrorInv
<1> QED
  BY <1>2, <1>4, <1>6, <1>7


-------------------------------------------------------------------------------
(* How the commands begin                                                  *)

\* A new command has done nothing yet; one that is refused has no steps.
LEMMA BeginRun ==
    ASSUME CLIInv, NEW cmd, NEW texts, NEW prepare \in BOOLEAN, NEW steps, NEW env,
           env = [c \in Chains |-> env[c]],
           Bad \notin texts => Len(steps) \in Nat /\ DOMAIN steps = 1..Len(steps),
           Begin(cmd, texts, prepare, steps, env)
    PROVE  /\ RunType' /\ ChainsType' /\ chain' = chain /\ run'.cmd = cmd /\ run'.prepare = prepare
           /\ run'.pc = 1 /\ run'.env = env /\ run'.start = chain
           /\ Bad \in texts => run'.result = "refused"
           /\ Bad \notin texts => run'.result = "running" /\ run'.steps = steps
<1>1. /\ chain' = chain
      /\ run' = [cmd |-> cmd, prepare |-> prepare, pc |-> 1, env |-> env, start |-> chain,
                 steps |-> IF Bad \in texts THEN <<>> ELSE steps,
                 result |-> IF Bad \in texts THEN "refused" ELSE "running"]
  BY DEF Begin
<1>2. /\ run'.cmd = cmd /\ run'.prepare = prepare /\ run'.pc = 1 /\ run'.env = env
      /\ run'.start = chain /\ run'.steps = IF Bad \in texts THEN <<>> ELSE steps
      /\ run'.result = IF Bad \in texts THEN "refused" ELSE "running"
      /\ run' = [cmd |-> run'.cmd, prepare |-> run'.prepare, pc |-> run'.pc, env |-> run'.env,
                 start |-> run'.start, steps |-> run'.steps, result |-> run'.result]
  BY <1>1
<1>3. ChainsType'
  BY <1>1 DEF CLIInv, ChainsType
<1>4. Len(run'.steps) \in Nat /\ DOMAIN run'.steps = 1..Len(run'.steps)
  <2>1. Len(<<>>) \in Nat /\ DOMAIN <<>> = 1..Len(<<>>)
    OBVIOUS
  <2> QED
    BY <1>2, <2>1
<1>5. RunType'
  BY <1>2, <1>4 DEF RunType, CLIInv, ChainsType
<1> QED
  BY <1>1, <1>2, <1>3, <1>5

\* A command that is refused.
LEMMA BeginRefused ==
    ASSUME CLIInv, NEW cmd, NEW texts, NEW prepare \in BOOLEAN, NEW steps, NEW env,
           env = [c \in Chains |-> env[c]], Bad \in texts, Begin(cmd, texts, prepare, steps, env)
    PROVE  CLIInv'
<1>1. RunType' /\ ChainsType' /\ run'.result = "refused"
  BY BeginRun
<1>2. ~Live' /\ StepsType'
  BY <1>1 DEF Live, StepsType
<1> QED
  BY <1>1, <1>2 DEF CLIInv, SimpleInv, DeployInv, SetupInv

\* The steps of a single command: only the last one sends anything.
Mints(m) ==
    m.fn = "mint" => Kind(chain[m.chain].store, m.to) \in {"none", "erc20", "erc721"}
Plan(cmd, steps) ==
    /\ Len(steps) \in Nat /\ DOMAIN steps = 1..Len(steps)
    /\ \A i \in DOMAIN steps : /\ StepType(steps[i]) /\ Mints(steps[i])
                               /\ steps[i].do \in {"transact", "deploy"} => i = Len(steps)
    /\ cmd \in Quiet \/ \E i \in DOMAIN steps : Sends(steps[i])

\* NoEnv is a function of the chains.
LEMMA NoEnvType ==
    NoEnv = [c \in Chains |-> NoEnv[c]]
  BY DEF NoEnv

\* Any command but deploy and local-setup begins.
LEMMA BeginSimple ==
    ASSUME CLIInv, NEW cmd, cmd \notin {"deploy", "local-setup"}, NEW texts, NEW steps,
           Bad \notin texts => Plan(cmd, steps), Command(cmd, texts, steps)
    PROVE  CLIInv'
<1>1. PICK prepare \in BOOLEAN : Begin(cmd, texts, prepare, steps, NoEnv)
  BY DEF Command
<1>2. CASE Bad \in texts
  BY <1>1, <1>2, NoEnvType, BeginRefused
<1>3. CASE Bad \notin texts
  <2>1. /\ RunType' /\ ChainsType' /\ chain' = chain /\ run'.cmd = cmd /\ run'.pc = 1
        /\ run'.env = NoEnv /\ run'.start = chain /\ run'.result = "running" /\ run'.steps = steps
    BY <1>1, <1>3, NoEnvType, BeginRun DEF Plan
  <2>2. Plan(cmd, steps)
    BY <1>3
  <2>3. StepsType'
    BY <2>1, <2>2 DEF StepsType, Plan, StepType
  <2>4. (\A i \in DOMAIN run.steps :
              /\ run.steps[i].do \in {"transact", "deploy"} => i = Len(run.steps)
              /\ run.steps[i].do = "transact" => run.env = NoEnv /\ MintsToken(run.steps[i]))'
    BY <2>1, <2>2 DEF Plan, Mints, MintsToken
  <2>5. (run.pc > Len(run.steps) => \A i \in DOMAIN run.steps : Shows(run.steps[i]))'
    BY <2>1, <2>2 DEF Plan
  <2>6. ((\A i \in DOMAIN run.steps : ~Sends(run.steps[i])) => chain = run.start /\ run.cmd \in Quiet)'
    BY <2>1, <2>2 DEF Plan
  <2>7. SimpleInv'
    BY <2>1, <2>4, <2>5, <2>6 DEF SimpleInv
  <2> QED
    BY <2>1, <2>3, <2>7 DEF CLIInv, DeployInv, SetupInv
<1> QED
  BY <1>2, <1>3

\* Plans of no, one and two steps.
LEMMA EmptyPlan ==
    \A cmd \in Quiet : Plan(cmd, <<>>)
  BY DEF Plan

\* A command of one step.
LEMMA OnePlan ==
    ASSUME NEW cmd, NEW m, StepType(m), Mints(m), cmd \in Quiet \/ Sends(m)
    PROVE  Plan(cmd, <<m>>)
<1>1. Len(<<m>>) = 1 /\ DOMAIN <<m>> = 1..1 /\ <<m>>[1] = m
  OBVIOUS
<1> QED
  BY <1>1 DEF Plan

\* A command that asks first and then sends.
LEMMA TwoPlan ==
    ASSUME NEW cmd, NEW m, StepType(m), Mints(m), m.do \notin {"transact", "deploy"},
           NEW n, StepType(n), Mints(n), cmd \in Quiet \/ Sends(n)
    PROVE  Plan(cmd, <<m, n>>)
<1> DEFINE w == <<m, n>>
<1>1. Len(w) = 2 /\ DOMAIN w = 1..2 /\ w[1] = m /\ w[2] = n
  OBVIOUS
<1> HIDE DEF w
<1> QED
  BY <1>1 DEF Plan, w

\* What the commands are made of.
LEMMA TransactionType ==
    ASSUME NEW c \in Chains, NEW to, NEW args, NEW n,
           NEW fn \in Methods \ {"mint", "approve", "adminSetDepositNonce"}
    PROVE  /\ StepType(Step(c, "transact", to, fn, args, n)) /\ Mints(Step(c, "transact", to, fn, args, n))
           /\ Sends(Step(c, "transact", to, fn, args, n))
<1> DEFINE m == Step(c, "transact", to, fn, args, n)
<1>1. m.chain = c /\ m.do = "transact" /\ m.fn = fn
  BY DEF Step
<1> HIDE DEF m
<1> QED
  BY <1>1 DEF StepType, Mints, Sent, Sends, m

\* Calls and questions send nothing.
LEMMA QuestionType ==
    ASSUME NEW c \in Chains, NEW to, NEW args, NEW n, NEW fn, fn # "mint"
    PROVE  /\ StepType(Step(c, "call", to, fn, args, n)) /\ Mints(Step(c, "call", to, fn, args, n))
           /\ Step(c, "call", to, fn, args, n).do \notin {"transact", "deploy"}
           /\ StepType(Step(c, "ask", to, fn, args, n)) /\ Mints(Step(c, "ask", to, fn, args, n))
           /\ Step(c, "ask", to, fn, args, n).do \notin {"transact", "deploy"}
<1>1. ASSUME NEW do \in {"call", "ask"}
      PROVE  /\ StepType(Step(c, do, to, fn, args, n)) /\ Mints(Step(c, do, to, fn, args, n))
             /\ Step(c, do, to, fn, args, n).do \notin {"transact", "deploy"}
  <2> DEFINE m == Step(c, do, to, fn, args, n)
  <2>1. m.chain = c /\ m.do = do /\ m.fn = fn
    BY DEF Step
  <2> HIDE DEF m
  <2> QED
    BY <2>1 DEF StepType, Mints, m
<1> QED
  BY <1>1


\* Commands of one transaction, of one question, and of nothing.
LEMMA OneTransaction ==
    ASSUME CLIInv, NEW c \in Chains, NEW cmd, cmd \notin {"deploy", "local-setup"}, NEW texts,
           NEW to, NEW fn \in Methods \ {"mint", "approve", "adminSetDepositNonce"},
           NEW args, NEW n, Command(cmd, texts, <<Step(c, "transact", to, fn, args, n)>>)
    PROVE  CLIInv'
<1>1. Plan(cmd, <<Step(c, "transact", to, fn, args, n)>>)
  BY TransactionType, OnePlan
<1> QED
  BY <1>1, BeginSimple

\* A command that only asks a contract.
LEMMA OneQuestion ==
    ASSUME CLIInv, NEW c \in Chains, NEW cmd \in Quiet, cmd \notin {"deploy", "local-setup"}, NEW texts,
           NEW to, Command(cmd, texts, <<View(c, to)>>)
    PROVE  CLIInv'
<1>1. Plan(cmd, <<View(c, to)>>)
  BY QuestionType, OnePlan DEF View
<1> QED
  BY <1>1, BeginSimple

\* A command that only checks its flags.
LEMMA NoStep ==
    ASSUME CLIInv, NEW cmd, cmd \notin {"deploy", "local-setup"}, NEW texts,
           Bad \in texts \/ cmd \in Quiet, Command(cmd, texts, <<>>)
    PROVE  CLIInv'
  BY EmptyPlan, BeginSimple

\* The role is asked before it is granted.
LEMMA MinterAdded ==
    ASSUME CLIInv, NEW c \in Chains, NEW cmd, cmd \notin {"deploy", "local-setup"}, NEW texts,
           NEW t, NEW h, Command(cmd, texts, <<View(c, t), Transaction(c, t, "grantRole", <<h>>)>>)
    PROVE  CLIInv'
<1>1. StepType(View(c, t)) /\ Mints(View(c, t)) /\ View(c, t).do \notin {"transact", "deploy"}
  BY QuestionType DEF View
<1>2. /\ StepType(Transaction(c, t, "grantRole", <<h>>)) /\ Mints(Transaction(c, t, "grantRole", <<h>>))
      /\ Sends(Transaction(c, t, "grantRole", <<h>>))
  BY TransactionType DEF Transaction, Methods
<1>3. Plan(cmd, <<View(c, t), Transaction(c, t, "grantRole", <<h>>)>>)
  BY <1>1, <1>2, TwoPlan
<1> QED
  BY <1>3, BeginSimple

\* The admin and bridge commands.
LEMMA AdminCommands ==
    ASSUME CLIInv, NEW c \in Chains, AdminAndBridge(c)
    PROVE  CLIInv'
<1>0. \A b : IsRelayer(c, b) = View(c, b) /\ GetThreshold(c, b) = View(c, b)
  BY DEF IsRelayer, GetThreshold
<1>1. CASE AddRelayerCmd(c)
  <2>1. PICK b, r : Command("add-relayer", {b, r}, <<AddRelayer(c, b, r)>>)
    BY <1>1 DEF AddRelayerCmd
  <2> QED
    BY <2>1, OneTransaction DEF AddRelayer, Transaction, Methods
<1>2. CASE SetThresholdCmd(c)
  <2>1. PICK b, n : Command("set-threshold", {b}, <<SetThresholdInput(c, b, n)>>)
    BY <1>2 DEF SetThresholdCmd
  <2> QED
    BY <2>1, OneTransaction DEF SetThresholdInput, Methods
<1>3. CASE SetDepositNonceCmd(c)
  <2>1. PICK b, n : /\ n \in 0..2
                    /\ Command("set-deposit-nonce", {b}, <<SetDepositNonce(c, b, 3 - c, n)>>)
    BY <1>3 DEF SetDepositNonceCmd
  <2> DEFINE m == SetDepositNonce(c, b, 3 - c, n)
  <2>2. /\ m.chain = c /\ m.do = "transact" /\ m.fn = "adminSetDepositNonce"
        /\ m.args = <<3 - c, n>>
    BY DEF SetDepositNonce, Transaction, Step
  <2> HIDE DEF m
  <2>3. StepType(m) /\ Mints(m) /\ Sends(m)
    BY <2>1, <2>2 DEF StepType, Sent, Sends, Mints, Methods
  <2> QED
    BY <2>1, <2>3, OnePlan, BeginSimple DEF m
<1>4. CASE PauseCmd(c)
  <2>1. PICK b : Command("pause", {b}, <<Pause(c, b)>>)
    BY <1>4 DEF PauseCmd
  <2> QED
    BY <2>1, OneTransaction DEF Pause, Transaction, Methods
<1>5. CASE UnpauseCmd(c)
  <2>1. PICK b : Command("unpause", {b}, <<Unpause(c, b)>>)
    BY <1>5 DEF UnpauseCmd
  <2> QED
    BY <2>1, OneTransaction DEF Unpause, Transaction, Methods
<1>6. CASE IsRelayerCmd(c)
  BY <1>0, <1>6, OneQuestion DEF IsRelayerCmd, Quiet, Asking
<1>7. CASE GetThresholdCmd(c)
  BY <1>0, <1>7, OneQuestion DEF GetThresholdCmd, Quiet, Asking
<1>8. CASE WithdrawCmd(c)
  <2>1. PICK texts, b, h, t : Command("withdraw", texts, <<Withdraw(c, b, h, t)>>)
    BY <1>8 DEF WithdrawCmd
  <2> QED
    BY <2>1, OneTransaction DEF Withdraw, Transaction, Methods
<1>9. CASE AddAdmin(c) \/ RemoveAdmin(c) \/ RemoveRelayer(c) \/ SetFee(c) \/ CancelProposal(c)
           \/ QueryProposal(c) \/ QueryResource(c)
  BY <1>9, NoStep DEF AddAdmin, RemoveAdmin, RemoveRelayer, SetFee, CancelProposal, QueryProposal,
     QueryResource, Quiet, Stubs
<1>10. CASE RegisterResourceCmd(c)
  <2>1. PICK b, h, rid, t : Command("register-resource", {b, h, t},
                                    <<AdminSetResource(c, b, h, rid, t)>>)
    BY <1>10 DEF RegisterResourceCmd
  <2> QED
    BY <2>1, OneTransaction DEF AdminSetResource, Transaction, Methods
<1>11. CASE RegisterGenericResource(c)
  <2>1. PICK b, h, t : Command("register-generic-resource", {b, h, t},
                               <<AdminSetGenericResource(c, b, h, "r1", t)>>)
    BY <1>11 DEF RegisterGenericResource
  <2> QED
    BY <2>1, OneTransaction DEF AdminSetGenericResource, Transaction, Methods
<1>12. CASE SetBurnCmd(c)
  <2>1. PICK b, h, t : Command("set-burn", {b, h, t}, <<SetBurnableInput(c, b, h, t)>>)
    BY <1>12 DEF SetBurnCmd
  <2> QED
    BY <2>1, OneTransaction DEF SetBurnableInput, Transaction, Methods
<1>13. CASE VoteProposalCmd(c)
  <2>1. PICK b : Command("vote-proposal", {b}, <<SimulateVoteProposal(c, b), VoteProposal(c, b)>>)
    BY <1>13 DEF VoteProposalCmd
  <2>2. /\ StepType(SimulateVoteProposal(c, b)) /\ Mints(SimulateVoteProposal(c, b))
        /\ SimulateVoteProposal(c, b).do \notin {"transact", "deploy"}
    BY QuestionType DEF SimulateVoteProposal
  <2>3. StepType(VoteProposal(c, b)) /\ Mints(VoteProposal(c, b)) /\ Sends(VoteProposal(c, b))
    BY TransactionType DEF VoteProposal, Transaction, Methods
  <2> QED
    BY <2>1, <2>2, <2>3, TwoPlan, BeginSimple
<1> QED
  BY <1>1, <1>2, <1>3, <1>4, <1>5, <1>6, <1>7, <1>8, <1>9, <1>10, <1>11, <1>12, <1>13
  DEF AdminAndBridge


\* A contract that an operator gives is none or of the kind asked for.
LEMMA GivenKind ==
    ASSUME CLIInv, NEW c \in Chains, NEW kind, NEW a \in Given(c, kind), a # Bad
    PROVE  Kind(chain[c].store, a) \in {"none", kind}
<1> DEFINE s == chain[c].store
<1>1. StoreType(s, chain[c].nonce) /\ chain[c].nonce \in Nat
  BY DEF CLIInv, ChainsType, ChainType
<1>2. CASE a = Sender
  <2>1. a \notin Nat
    BY <1>2, CLIAssumption
  <2>2. a \notin 1..chain[c].nonce
    BY <1>1, <2>1
  <2> QED
    BY <1>1, <2>2, KindAddress
<1>3. CASE a # Sender
  <2>1. PICK k \in DOMAIN s : k[1] = "code" /\ s[k] = kind /\ k[2] = a
    BY <1>3 DEF Given
  <2>2. k = <<"code", a>>
    BY <1>1, <2>1 DEF StoreType
  <2> QED
    BY <2>1, <2>2 DEF Kind, Get
<1> QED
  BY <1>2, <1>3

\* A token is minted by the contract of one; approving takes an amount.
LEMMA OneMint ==
    ASSUME CLIInv, NEW c \in Chains, NEW cmd, cmd \notin {"deploy", "local-setup"},
           NEW kind \in {"erc20", "erc721"}, NEW t \in Given(c, kind), NEW to,
           Command(cmd, {t, to}, <<Step(c, "transact", t, "mint", <<to>>, 1)>>)
    PROVE  CLIInv'
<1> DEFINE m == Step(c, "transact", t, "mint", <<to>>, 1)
<1>1. m.chain = c /\ m.do = "transact" /\ m.fn = "mint" /\ m.n = 1 /\ m.to = t
  BY DEF Step
<1> HIDE DEF m
<1>2. ASSUME Bad \notin {t, to}
      PROVE  Plan(cmd, <<m>>)
  <2>1. StepType(m) /\ Sends(m)
    BY <1>1 DEF StepType, Sent, Sends, Methods
  <2>2. Mints(m)
    BY <1>1, <1>2, GivenKind DEF Mints
  <2> QED
    BY <2>1, <2>2, OnePlan
<1> QED
  BY <1>2, BeginSimple DEF m

\* A command that approves one token.
LEMMA OneApproval ==
    ASSUME CLIInv, NEW c \in Chains, NEW cmd, cmd \notin {"deploy", "local-setup"}, NEW texts,
           NEW t, NEW to, Command(cmd, texts, <<Step(c, "transact", t, "approve", <<to>>, 1)>>)
    PROVE  CLIInv'
<1> DEFINE m == Step(c, "transact", t, "approve", <<to>>, 1)
<1>1. m.chain = c /\ m.do = "transact" /\ m.fn = "approve" /\ m.n = 1
  BY DEF Step
<1> HIDE DEF m
<1>2. StepType(m) /\ Mints(m) /\ Sends(m)
  BY <1>1 DEF StepType, Sent, Sends, Methods, Mints
<1> QED
  BY <1>2, OnePlan, BeginSimple DEF m

\* The token commands, the asset store, the account and the utils.
LEMMA TokenCommands ==
    ASSUME CLIInv, NEW c \in Chains, TokensAndOthers(c)
    PROVE  CLIInv'
<1>0. \A b : GetBalance(c, b) = View(c, b) /\ Owner(c, b) = View(c, b)
             /\ IsCentrifugeAssetStored(c, b) = View(c, b)
  BY DEF GetBalance, Owner, IsCentrifugeAssetStored
<1>1. CASE DepositCmd(c)
  <2>1. PICK b, d : Command("erc20 deposit", {b}, <<Deposit(c, b, "r0", d)>>)
    BY <1>1 DEF DepositCmd
  <2> QED
    BY <2>1, OneTransaction DEF Deposit, Transaction, Methods
<1>2. CASE MintCmd(c)
  <2>1. PICK t, to : t \in Given(c, "erc20") /\ Command("erc20 mint", {t, to}, <<MintTokens(c, t, to, 1)>>)
    BY <1>2 DEF MintCmd
  <2> QED
    BY <2>1, OneMint DEF MintTokens
<1>3. CASE ApproveCmd(c)
  <2>1. PICK t, h : Command("erc20 approve", {t, h}, <<ApproveTokens(c, t, h, 1)>>)
    BY <1>3 DEF ApproveCmd
  <2> QED
    BY <2>1, OneApproval DEF ApproveTokens
<1>4. CASE AddMinterCmd(c)
  <2>1. PICK t, h : Command("erc20 add-minter", {t, h}, AddMinter(c, t, h))
    BY <1>4 DEF AddMinterCmd
  <2> QED
    BY <2>1, MinterAdded DEF AddMinter
<1>5. CASE BalanceCmd(c)
  BY <1>0, <1>5, OneQuestion DEF BalanceCmd, Quiet, Asking
<1>6. CASE Deposit721Cmd(c)
  <2>1. PICK b, d : Command("erc721 deposit", {b}, <<Deposit(c, b, "r2", d)>>)
    BY <1>6 DEF Deposit721Cmd
  <2> QED
    BY <2>1, OneTransaction DEF Deposit, Transaction, Methods
<1>7. CASE Mint721Cmd(c)
  <2>1. PICK t, to : t \in Given(c, "erc721") /\ Command("erc721 mint", {t, to}, <<Mint(c, t, to)>>)
    BY <1>7 DEF Mint721Cmd
  <2> QED
    BY <2>1, OneMint DEF Mint
<1>8. CASE Approve721Cmd(c)
  <2>1. PICK t, h : Command("erc721 approve", {t, h}, <<Approve(c, t, h)>>)
    BY <1>8 DEF Approve721Cmd
  <2> QED
    BY <2>1, OneApproval DEF Approve
<1>9. CASE AddMinter721Cmd(c)
  <2>1. PICK t, h : Command("erc721 add-minter", {t, h}, AddMinter721(c, t, h))
    BY <1>9 DEF AddMinter721Cmd
  <2> QED
    BY <2>1, MinterAdded DEF AddMinter721
<1>10. CASE OwnerCmd(c)
  BY <1>0, <1>10, OneQuestion DEF OwnerCmd, Quiet, Asking
<1>11. CASE DeployCentrifugeAssetStoreCmd(c)
  <2> DEFINE m == Deployment(c, "assetStore")
  <2>1. Command("centrifuge deploy", {}, <<m>>)
    BY <1>11 DEF DeployCentrifugeAssetStoreCmd
  <2>2. m.chain = c /\ m.do = "deploy" /\ m.to = "assetStore" /\ m.fn = ""
    BY DEF Deployment, Step
  <2> HIDE DEF m
  <2>3. StepType(m) /\ Mints(m) /\ Sends(m)
    BY <2>2 DEF StepType, Mints, Kinds, Sends
  <2> QED
    BY <2>1, <2>3, OnePlan, BeginSimple
<1>12. CASE GetHashCmd(c)
  BY <1>0, <1>12, OneQuestion DEF GetHashCmd, Quiet, Asking
<1>13. CASE TransferBaseCurrency(c)
  <2>1. PICK to, confirmed : /\ to \in {Bad} \cup Relayers /\ confirmed \in BOOLEAN
                             /\ Command("transfer", {to},
                                   IF confirmed THEN <<Transaction(c, to, "", <<>>)>> ELSE <<>>)
    BY <1>13 DEF TransferBaseCurrency
  <2>2. CASE confirmed
    <3> DEFINE m == Transaction(c, to, "", <<>>)
    <3>1. m.chain = c /\ m.do = "transact" /\ m.to = to /\ m.fn = ""
      BY DEF Transaction, Step
    <3>2. Command("transfer", {to}, <<m>>)
      BY <2>1, <2>2
    <3> HIDE DEF m
    <3>3. ASSUME Bad \notin {to}
          PROVE  Plan("transfer", <<m>>)
      <4>1. StepType(m) /\ Mints(m) /\ Sends(m)
        BY <2>1, <3>1, <3>3 DEF StepType, Sent, Sends, Mints
      <4> QED
        BY <4>1, OnePlan
    <3> QED
      BY <3>2, <3>3, BeginSimple
  <2>3. CASE ~confirmed
    BY <2>1, <2>3, NoStep DEF Quiet
  <2> QED
    BY <2>2, <2>3
<1>14. CASE SimulateCmd(c)
  <2>1. PICK from : Command("simulate", {from}, <<Ask(c), Ask(c)>>)
    BY <1>14 DEF SimulateCmd
  <2>2. StepType(Ask(c)) /\ Mints(Ask(c)) /\ Ask(c).do \notin {"transact", "deploy"}
    BY QuestionType DEF Ask
  <2> QED
    BY <2>1, <2>2, TwoPlan, BeginSimple DEF Quiet, Asking
<1>15. CASE HashListCmd(c)
  <2>1. PICK blocks \in 0..1 : Command("hash-list", {}, [i \in 1..blocks |-> Ask(c)])
    BY <1>15 DEF HashListCmd
  <2>2. StepType(Ask(c)) /\ Mints(Ask(c)) /\ Ask(c).do \notin {"transact", "deploy"}
    BY QuestionType DEF Ask
  <2> DEFINE w == [i \in 1..blocks |-> Ask(c)]
  <2>3. Len(w) = blocks /\ DOMAIN w = 1..blocks /\ \A i \in 1..blocks : w[i] = Ask(c)
    OBVIOUS
  <2>4. Command("hash-list", {}, w)
    BY <2>1
  <2> HIDE DEF w
  <2>5. Plan("hash-list", w)
    BY <2>2, <2>3 DEF Plan, Quiet, Asking
  <2> QED
    BY <2>4, <2>5, BeginSimple
<1> QED
  BY <1>1, <1>2, <1>3, <1>4, <1>5, <1>6, <1>7, <1>8, <1>9, <1>10, <1>11, <1>12, <1>13, <1>14, <1>15
  DEF TokensAndOthers


\* deploy takes the bridge first.
BridgeFirst(w) ==
    /\ w \in Seq(Kinds)
    /\ \A i \in 1..Len(w) : w[i] = "bridge" => i = 1

\* What comes behind a bridge or none is no bridge.
LEMMA OthersLater ==
    ASSUME NEW w, BridgeFirst(w), NEW t \in Seq(Kinds \ {"bridge"})
    PROVE  BridgeFirst(w \o t) /\ Len(w \o t) = Len(w) + Len(t)
<1>1. w \in Seq(Kinds) /\ t \in Seq(Kinds)
  BY DEF BridgeFirst
<1> DEFINE x == w \o t
<1>2. /\ x \in Seq(Kinds) /\ Len(x) = Len(w) + Len(t)
      /\ \A i \in 1..Len(w) : x[i] = w[i]
      /\ \A i \in 1..Len(t) : x[Len(w) + i] = t[i]
  BY <1>1, Appended DEF Follows
<1>3. \A i \in 1..Len(t) : t[i] # "bridge"
  OBVIOUS
<1> HIDE DEF x
<1>4. ASSUME NEW i \in 1..Len(x), x[i] = "bridge"
      PROVE  i = 1
  <2>1. CASE i \in 1..Len(w)
    BY <1>2, <1>4, <2>1 DEF BridgeFirst
  <2>2. CASE i \notin 1..Len(w)
    <3>1. i - Len(w) \in 1..Len(t) /\ i = Len(w) + (i - Len(w))
      BY <1>1, <1>2, <2>2
    <3> QED
      BY <1>2, <1>3, <1>4, <3>1
  <2> QED
    BY <2>1, <2>2
<1> QED
  BY <1>2, <1>4 DEF BridgeFirst, x

\* deploy has the bridge first (ValidateDeployFlags).
LEMMA DeploymentOrder ==
    ASSUME NEW asked
    PROVE  /\ BridgeFirst(Deployments(asked))
           /\ asked \subseteq Kinds \ {"assetStore"} /\ asked # {} => Len(Deployments(asked)) > 0
<1>1. ASSUME NEW k \in Kinds \ {"bridge"}
      PROVE  If(k, asked) \in Seq(Kinds \ {"bridge"})
  <2>1. <<k>> \in Seq(Kinds \ {"bridge"}) /\ <<>> \in Seq(Kinds \ {"bridge"})
    OBVIOUS
  <2> QED
    BY <2>1 DEF If
<1>2. {"erc20Handler", "erc721Handler", "generic", "erc20", "erc721"} \subseteq Kinds \ {"bridge"}
  BY DEF Kinds, Handlers
<1>3. BridgeFirst(If("bridge", asked))
  <2>1. "bridge" \in Kinds
    BY DEF Kinds
  <2> QED
    BY <2>1 DEF BridgeFirst, If
<1> DEFINE w1 == If("bridge", asked) \o If("erc20Handler", asked)
           w2 == w1 \o If("erc721Handler", asked)
           w3 == w2 \o If("generic", asked)
           w4 == w3 \o If("erc20", asked)
           w5 == w4 \o If("erc721", asked)
<1> HIDE DEF w1, w2, w3, w4, w5
<1>4. BridgeFirst(w1) /\ Len(w1) = Len(If("bridge", asked)) + Len(If("erc20Handler", asked))
  BY <1>1, <1>2, <1>3, OthersLater DEF w1
<1>5. BridgeFirst(w2) /\ Len(w2) = Len(w1) + Len(If("erc721Handler", asked))
  BY <1>1, <1>2, <1>4, OthersLater DEF w2
<1>6. BridgeFirst(w3) /\ Len(w3) = Len(w2) + Len(If("generic", asked))
  BY <1>1, <1>2, <1>5, OthersLater DEF w3
<1>7. BridgeFirst(w4) /\ Len(w4) = Len(w3) + Len(If("erc20", asked))
  BY <1>1, <1>2, <1>6, OthersLater DEF w4
<1>8. BridgeFirst(w5) /\ Len(w5) = Len(w4) + Len(If("erc721", asked))
  BY <1>1, <1>2, <1>7, OthersLater DEF w5
<1>9. \A k : Len(If(k, asked)) = IF k \in asked THEN 1 ELSE 0
  BY DEF If
<1>10. ASSUME asked \subseteq Kinds \ {"assetStore"}, asked # {}
       PROVE  Len(w5) > 0
  <2>1. \/ "bridge" \in asked \/ "erc20Handler" \in asked \/ "erc721Handler" \in asked
        \/ "generic" \in asked \/ "erc20" \in asked \/ "erc721" \in asked
    BY <1>10 DEF Kinds, Handlers
  <2> DEFINE n(k) == Len(If(k, asked))
  <2>2. /\ \A k : n(k) \in {0, 1}
        /\ \A k : k \in asked => n(k) = 1
    BY <1>9
  <2> HIDE DEF n
  <2>3. \/ n("bridge") = 1 \/ n("erc20Handler") = 1 \/ n("erc721Handler") = 1
        \/ n("generic") = 1 \/ n("erc20") = 1 \/ n("erc721") = 1
    BY <2>1, <2>2
  <2>4. Len(w5) = n("bridge") + n("erc20Handler") + n("erc721Handler") + n("generic")
                  + n("erc20") + n("erc721")
    BY <1>4, <1>5, <1>6, <1>7, <1>8 DEF n
  <2>5. /\ n("bridge") \in {0, 1} /\ n("erc20Handler") \in {0, 1} /\ n("erc721Handler") \in {0, 1}
        /\ n("generic") \in {0, 1} /\ n("erc20") \in {0, 1} /\ n("erc721") \in {0, 1}
    BY <2>2
  <2> QED
    BY <2>3, <2>4, <2>5
<1> QED
  BY <1>8, <1>10 DEF Deployments, w1, w2, w3, w4, w5

\* deploy begins with the bridge that was given, and nothing deployed.
LEMMA DeployBegins ==
    ASSUME CLIInv, NEW c \in Chains, DeployCLI(c)
    PROVE  CLIInv'
<1>1. PICK asked, relayer, texts, bridge :
         /\ asked \in Requests /\ (asked = {} => Bad \in texts)
         /\ Begin("deploy", texts, FALSE,
                  [i \in DOMAIN Deployments(asked) |->
                      IF Deployments(asked)[i] = "bridge" THEN BridgeDeployment(c, 1, {relayer})
                      ELSE Deployment(c, Deployments(asked)[i])],
                  [NoEnv EXCEPT ![c] = Put(<<>>, "bridge", bridge)])
  <2>1. PICK asked, relayer, given : asked \in Requests /\
          LET refused == \/ asked = {}
                         \/ given = Unset /\ "bridge" \notin asked /\ asked \cap Handlers # {}
          IN  Begin("deploy", {relayer} \cup (IF refused THEN {Bad} ELSE {}), FALSE,
                    [i \in DOMAIN Deployments(asked) |->
                        IF Deployments(asked)[i] = "bridge" THEN BridgeDeployment(c, 1, {relayer})
                        ELSE Deployment(c, Deployments(asked)[i])],
                    [NoEnv EXCEPT ![c] = Put(<<>>, "bridge",
                                             IF given \in {Unset, Bad} THEN Zero ELSE given)])
    BY DEF DeployCLI
  <2> DEFINE refused == \/ asked = {}
                        \/ given = Unset /\ "bridge" \notin asked /\ asked \cap Handlers # {}
             texts == {relayer} \cup (IF refused THEN {Bad} ELSE {})
  <2>2. asked = {} => Bad \in texts
    OBVIOUS
  <2> HIDE DEF texts
  <2> QED
    BY <2>1, <2>2 DEF texts
<1> DEFINE order == Deployments(asked)
           steps == [i \in DOMAIN order |-> IF order[i] = "bridge" THEN BridgeDeployment(c, 1, {relayer})
                                            ELSE Deployment(c, order[i])]
           env == [NoEnv EXCEPT ![c] = Put(<<>>, "bridge", bridge)]
<1>2. Begin("deploy", texts, FALSE, steps, env) /\ BridgeFirst(order)
  BY <1>1, DeploymentOrder
<1>0. Bad \notin texts => Len(order) > 0
  BY <1>1, DeploymentOrder, CLIAssumption
<1> HIDE DEF order
<1>3. Len(order) \in Nat /\ DOMAIN order = 1..Len(order) /\ \A i \in 1..Len(order) : order[i] \in Kinds
  BY <1>2 DEF BridgeFirst
<1>4. \A i \in 1..Len(order) : /\ steps[i].chain = c /\ steps[i].do = "deploy"
                               /\ steps[i].to = order[i]
  <2>1. \A k : /\ Deployment(c, k).chain = c /\ Deployment(c, k).do = "deploy"
               /\ Deployment(c, k).to = k
    BY DEF Deployment, Step
  <2>2. LET m == BridgeDeployment(c, 1, {relayer})
        IN  m.chain = c /\ m.do = "deploy" /\ m.to = "bridge"
    BY DEF BridgeDeployment, Step
  <2> QED
    BY <1>3, <2>1, <2>2
<1>5. DOMAIN steps = 1..Len(order) /\ Len(steps) = Len(order)
  <2>1. steps = [i \in 1..Len(order) |-> IF order[i] = "bridge" THEN BridgeDeployment(c, 1, {relayer})
                                         ELSE Deployment(c, order[i])]
    BY <1>3
  <2> QED
    BY <1>3, <2>1
<1> HIDE DEF steps
<1>6. env = [d \in Chains |-> env[d]] /\ env[c] = Put(<<>>, "bridge", bridge)
  BY DEF NoEnv
<1>7. "bridge" \in DOMAIN env[c]
  BY <1>6 DEF Put
<1> HIDE DEF env
<1>8. CASE Bad \in texts
  BY <1>2, <1>6, <1>8, BeginRefused
<1>9. CASE Bad \notin texts
  <2>1. /\ RunType' /\ ChainsType' /\ run'.cmd = "deploy" /\ run'.prepare = FALSE /\ run'.pc = 1
        /\ run'.env = env /\ run'.result = "running" /\ run'.steps = steps
    BY <1>2, <1>3, <1>5, <1>6, <1>9, BeginRun
  <2>2. StepsType'
    BY <1>3, <1>4, <1>5, <2>1 DEF StepsType, StepType
  <2>3. DeployedSo(c)'
    <3>1. \A i \in DOMAIN steps : /\ steps[i].chain = c /\ steps[i].do = "deploy"
                                  /\ steps[i].to \in Kinds /\ (steps[i].to = "bridge" => i = 1)
      BY <1>2, <1>3, <1>4, <1>5 DEF BridgeFirst
    <3>2. \A i \in DOMAIN steps : ~(i < 1)
      BY <1>3, <1>5
    <3>3. DOMAIN steps # {}
      BY <1>0, <1>3, <1>5, <1>9
    <3> QED
      BY <1>7, <2>1, <3>1, <3>2, <3>3 DEF DeployedSo
  <2>4. DeployInv'
    BY <2>1, <2>3 DEF DeployInv
  <2> QED
    BY <2>1, <2>2, <2>4 DEF CLIInv, SimpleInv, SetupInv
<1> QED
  BY <1>8, <1>9


\* The steps of the setup are well formed.
LEMMA LocalStepType ==
    ASSUME NEW c \in Chains, NEW j, NEW m, LocalStep(m, c, j)
    PROVE  StepType(m)
  BY CLIAssumption DEF LocalStep, StepType, Sent, Plain

\* local-setup begins with nothing done on either chain.
LEMMA SetupBegins ==
    ASSUME CLIInv, LocalSetup
    PROVE  CLIInv'
<1> DEFINE s == PrepareLocal(1)
           t == PrepareLocal(2)
           w == s \o t
<1>1. Begin("local-setup", {}, FALSE, w, NoEnv)
  BY DEF LocalSetup
<1>2. Local(s, 1) /\ Local(t, 2) /\ (\E S : s \in Seq(S)) /\ (\E S : t \in Seq(S))
  BY LocalSteps
<1>3. PICK S : s \in Seq(S)
  BY <1>2
<1>4. PICK T : t \in Seq(T)
  BY <1>2
<1> HIDE DEF s, t
<1>5. s \in Seq(S \cup T) /\ t \in Seq(S \cup T) /\ Len(s) = 18 /\ Len(t) = 18
  BY <1>2, <1>3, <1>4 DEF Local
<1>6. Follows(s, t, w, S \cup T, 18, 18)
  <2>1. 18 \in Nat
    OBVIOUS
  <2> QED
    BY <1>5, <2>1, Appended, Zenon
<1> HIDE DEF w
<1>7. Len(w) = 36 /\ DOMAIN w = 1..36
  BY <1>6 DEF Follows
<1>8. /\ \A i \in 1..18 : w[i] = s[i]
      /\ \A i \in 1..18 : w[18 + i] = t[i]
  BY <1>6 DEF Follows
<1>9. /\ RunType' /\ ChainsType' /\ chain' = chain /\ run'.cmd = "local-setup"
      /\ run'.prepare = FALSE /\ run'.pc = 1 /\ run'.env = NoEnv /\ run'.start = chain
      /\ run'.result = "running" /\ run'.steps = w
  <2>1. Len(w) \in Nat /\ DOMAIN w = 1..Len(w) /\ Bad \notin {}
    BY <1>7
  <2>2. PICK texts : Bad \notin texts /\ Begin("local-setup", texts, FALSE, w, NoEnv)
    BY <1>1
  <2> QED
    BY <2>1, <2>2, NoEnvType, BeginRun
<1>10. ASSUME NEW i \in 1..36
       PROVE  StepType(w[i])
  <2>1. CASE i \in 1..18
    <3>1. LocalStep(s[i], 1, i) /\ 1 \in Chains
      BY <1>2, <2>1, LocalDoes DEF Chains
    <3>2. StepType(s[i])
      BY <3>1, LocalStepType
    <3> QED
      BY <1>8, <2>1, <3>2
  <2>2. CASE i \notin 1..18
    <3> DEFINE j == i - 18
    <3>1. j \in 1..18 /\ i = 18 + j
      BY <2>2
    <3> HIDE DEF j
    <3>2. LocalStep(t[j], 2, j) /\ 2 \in Chains
      BY <1>2, <3>1, LocalDoes DEF Chains
    <3>3. StepType(t[j])
      BY <3>2, LocalStepType
    <3> QED
      BY <1>8, <3>1, <3>3
  <2> QED
    BY <2>1, <2>2
<1>11. StepsType'
  BY <1>7, <1>9, <1>10 DEF StepsType, StepType
<1>12. ASSUME NEW c \in Chains
       PROVE  /\ chain[c].nonce <= chain[c].nonce
              /\ ContractsUp(chain[c].store, NoEnv[c], 0, chain[c].nonce, chain[c].nonce)
              /\ ResourcesUp(chain[c].store, NoEnv[c], 0)
              /\ DoneOn(c)' = 0
  <2>1. chain[c].nonce \in Nat
    BY DEF CLIInv, ChainsType, ChainType
  <2>2. \A k \in Kinds : Place(k) \in 1..7
    BY DEF Place, Kinds, Handlers
  <2>3. NoEnv[c] = <<>> /\ DOMAIN <<>> = {}
    BY DEF NoEnv
  <2>4. {k \in Kinds : Place(k) <= 0} = {}
    BY <2>2
  <2>5. ContractsUp(chain[c].store, NoEnv[c], 0, chain[c].nonce, chain[c].nonce)
    BY <2>3, <2>4 DEF ContractsUp
  <2>6. ResourcesUp(chain[c].store, NoEnv[c], 0)
    BY DEF ResourcesUp
  <2>7. DoneOn(c)' = 0
    BY <1>9 DEF DoneOn
  <2> QED
    BY <2>1, <2>5, <2>6, <2>7
<1>13. SetupInv'
  BY <1>7, <1>8, <1>9, <1>12 DEF SetupInv, s, t
<1> QED
  BY <1>9, <1>11, <1>13 DEF CLIInv, SimpleInv, DeployInv


\* Every step and every new command keeps the invariant.
LEMMA CLINext ==
    ASSUME CLIInv, [Next]_vars
    PROVE  CLIInv'
<1>1. CASE UNCHANGED vars
  <2>1. chain' = chain /\ run' = run
    BY <1>1 DEF vars
  <2>2. ChainsType' /\ RunType' /\ StepsType' /\ DeployInv'
    BY <2>1 DEF CLIInv, ChainsType, RunType, StepsType, DeployInv, DeployedSo, Live
  <2>3. SimpleInv'
    <3>1. \A m : Shows(m)' = Shows(m) /\ MintsToken(m)' = MintsToken(m)
      BY <2>1 DEF Shows, Idle, Effective, Resolved, MintsToken
    <3> QED
      BY <2>1, <3>1 DEF CLIInv, SimpleInv, Live
  <2>4. \A c : DoneOn(c)' = DoneOn(c)
    BY <2>1 DEF DoneOn
  <2>5. SetupInv'
    BY <2>1, <2>4 DEF CLIInv, SetupInv, Live
  <2> QED
    BY <2>2, <2>3, <2>5 DEF CLIInv
<1>2. CASE LocalSetup
  BY <1>2, SetupBegins
<1>3. CASE GetAllowanceCmd
  BY <1>3, NoStep DEF GetAllowanceCmd
<1>4. ASSUME NEW c \in Worked, DeployCLI(c) \/ AdminAndBridge(c) \/ TokensAndOthers(c)
      PROVE  CLIInv'
  <2>1. c \in Chains
    BY CLIAssumption DEF Chains
  <2> QED
    BY <1>4, <2>1, DeployBegins, AdminCommands, TokenCommands
<1>5. CASE Prepared \/ Executed \/ Called \/ Asked \/ Deployed
  BY <1>5, SucceededSteps
<1>6. CASE Reverted \/ DeployPrepared \/ NodeFails \/ MinedUnseen
  BY <1>6, FailedSteps
<1>7. CASE Finish \/ GenericWithoutBridge
  BY <1>7, EndedSteps
<1> QED
  BY <1>1, <1>2, <1>3, <1>4, <1>5, <1>6, <1>7 DEF Next

-------------------------------------------------------------------------------
(* What the invariant says of a command that reports success               *)

\* deploy: every contract is there and every handler answers to the bridge.
LEMMA DeployedBinds == CLIInv => DeployBinds
<1> SUFFICES ASSUME CLIInv, run.cmd = "deploy", run.result = "ok", NEW i \in DOMAIN run.steps
             PROVE  LET m == run.steps[i]
                        e == run.env[m.chain]
                    IN  e["bridge"] # Zero =>
                          /\ m.to \in DOMAIN e /\ Kind(chain[m.chain].store, e[m.to]) = m.to
                          /\ m.to \in Handlers =>
                                 Get(chain[m.chain].store, <<"bridge", e[m.to]>>, Zero) = e["bridge"]
  BY DEF DeployBinds, Succeeded
<1>1. PICK c \in Chains : DeployedSo(c)
  BY DEF CLIInv, DeployInv, Live
<1> DEFINE m == run.steps[i]
           e == run.env[c]
           s == chain[c].store
<1>2. m.chain = c
  BY <1>1 DEF DeployedSo
<1> SUFFICES ASSUME e["bridge"] # Zero
             PROVE  /\ m.to \in DOMAIN e /\ Kind(s, e[m.to]) = m.to
                    /\ m.to \in Handlers => Get(s, <<"bridge", e[m.to]>>, Zero) = e["bridge"]
  BY <1>2
<1>3. i < run.pc
  <2>1. run.pc > Len(run.steps)
    BY <1>1 DEF DeployedSo
  <2> QED
    BY <2>1 DEF CLIInv, RunType
<1>4. /\ m.to \in DOMAIN e /\ Is(s, <<"code", e[m.to]>>, m.to)
      /\ m.to \in Handlers => Is(s, <<"bridge", e[m.to]>>, e["bridge"])
  BY <1>1, <1>3 DEF DeployedSo
<1> HIDE DEF m, e, s
<1> QED
  BY <1>4 DEF Is, Kind, Get

\* What is written there is read.
LEMMA IsGet ==
    ASSUME NEW s, NEW key, NEW value, NEW default, Is(s, key, value)
    PROVE  Get(s, key, default) = value
  BY DEF Is, Get

\* The state local-setup ends in.
SetUpOn(s, e, low, nonce) ==
    /\ ContractsUp(s, e, 18, low, nonce) /\ ResourcesUp(s, e, 18)
    /\ StoreType(s, nonce) /\ low \in Nat /\ nonce \in Nat

\* A setup that ended well did every step on both chains.
LEMMA SetupEnds ==
    ASSUME CLIInv, run.cmd = "local-setup", run.result = "ok", NEW c \in Chains
    PROVE  /\ SetUpOn(chain[c].store, run.env[c], run.start[c].nonce, chain[c].nonce)
           /\ StoreType(run.start[c].store, run.start[c].nonce)
<1>1. run.pc = 37
  BY DEF CLIInv, SetupInv, Live
<1>2. DoneOn(c) = 18
  BY <1>1 DEF DoneOn, Chains
<1> QED
  BY <1>2 DEF CLIInv, SetupInv, ChainsType, ChainType, RunType, Live, SetUpOn

\* One resource that local-setup leaves.
Registered(s, e, handler, target, rid) ==
    /\ handler \in Handlers /\ target \in Kinds
    /\ Is(s, <<"resource", e["bridge"], rid>>, e[handler])
    /\ Is(s, <<"token", e[handler], rid>>, e[target])
    /\ handler \in TokenHandlers => IsSet(s, <<"minter", e[target], e[handler]>>)

Served(s, e, handler, target, rid) ==
    /\ Get(s, <<"resource", e["bridge"], rid>>, Zero) = e[handler]
    /\ Answers(s, e[handler], e["bridge"], {handler})
    /\ TokenOf(s, e["bridge"], rid) = e[target]
    /\ Kind(s, e[target]) = target
    /\ Gives(s, e[handler], e[target])

\* A registered resource is bridged.
LEMMA SetupResource ==
    ASSUME NEW s, NEW e, NEW low, NEW nonce, SetUpOn(s, e, low, nonce),
           NEW handler, NEW target, NEW rid, Registered(s, e, handler, target, rid)
    PROVE  Served(s, e, handler, target, rid)
<1>0. /\ handler \in Handlers /\ target \in Kinds
      /\ Is(s, <<"resource", e["bridge"], rid>>, e[handler])
      /\ Is(s, <<"token", e[handler], rid>>, e[target])
      /\ handler \in TokenHandlers => IsSet(s, <<"minter", e[target], e[handler]>>)
  BY DEF Registered
<1>1. /\ DOMAIN e = Kinds /\ \A k \in Kinds : Kind(s, e[k]) = k
  <2>1. 18 \in Nat /\ 18 >= 7
    OBVIOUS
  <2> QED
    BY <2>1, AllDeployed DEF SetUpOn
<1>2. handler \in Kinds /\ Is(s, <<"bridge", e[handler]>>, e["bridge"])
  BY <1>0, <1>1 DEF SetUpOn, ContractsUp, Kinds
<1>3. Get(s, <<"resource", e["bridge"], rid>>, Zero) = e[handler]
  BY <1>0, IsGet
<1>4. TokenOf(s, e["bridge"], rid) = e[target]
  BY <1>0, <1>3, IsGet DEF TokenOf
<1>5. Get(s, <<"bridge", e[handler]>>, Zero) = e["bridge"]
  BY <1>2, IsGet
<1>6. Gives(s, e[handler], e[target])
  BY <1>0, <1>1, <1>2 DEF Gives, IsSet, Has, Get
<1> QED
  BY <1>0, <1>1, <1>2, <1>3, <1>4, <1>5, <1>6 DEF Answers, Served


\* local-setup: the resources are bridged and a deposit is accepted at once.
LEMMA SetupDone == CLIInv => SetupBridges
<1> SUFFICES ASSUME CLIInv, run.cmd = "local-setup", run.result = "ok", NEW c \in Chains
             PROVE  LET s == chain[c].store
                        b == run.env[c]["bridge"]
                    IN  /\ Bridged(c, "erc20Handler", "erc20", "r0")
                        /\ Bridged(c, "erc721Handler", "erc721", "r2")
                        /\ Bridged(c, "generic", "assetStore", "r1")
                        /\ Accepts(s, Resolved(Deposit(c, "bridge", "r0", "")))
                        /\ s[<<"threshold", b>>] <=
                               Cardinality({r \in Relayers : Has(s, <<"relayer", b, r>>)})
  BY DEF SetupBridges, Succeeded
<1> DEFINE s == chain[c].store
           e == run.env[c]
           low == run.start[c].nonce
           nonce == chain[c].nonce
           m == Resolved(Deposit(c, "bridge", "r0", ""))
<1>1. SetUpOn(s, e, low, nonce)
  BY SetupEnds
<1>2. /\ Resolves(e) /\ \A k \in Kinds : Kind(s, e[k]) = k
  <2>1. 18 \in Nat /\ 18 >= 7
    OBVIOUS
  <2>2. low \in Nat /\ nonce \in Nat /\ ContractsUp(s, e, 18, low, nonce)
    BY <1>1 DEF SetUpOn
  <2> HIDE DEF s, e, low, nonce
  <2> QED
    BY <2>1, <2>2, AllDeployed
<1>3. m.fn = "deposit" /\ m.to = e["bridge"] /\ m.args[1] = "r0"
  <2> DEFINE d == Deposit(c, "bridge", "r0", "")
  <2>1. d.chain = c /\ d.fn = "deposit" /\ d.to = "bridge" /\ d.args = <<"r0", "">>
    BY DEF Deposit, Transaction, Step
  <2> HIDE DEF d
  <2>2. m = ResolvedIn(e, d)
    BY <2>1 DEF Resolved, d
  <2>3. 1 \in DOMAIN d.args /\ d.args[1] = "r0"
    <3>1. 1 \in DOMAIN <<"r0", "">> /\ <<"r0", "">>[1] = "r0"
      OBVIOUS
    <3> QED
      BY <2>1, <3>1
  <2> HIDE DEF m, e
  <2>4. m.fn = d.fn /\ m.to = Named(e, "bridge") /\ m.args[1] = Named(e, "r0")
    BY <2>1, <2>2, <2>3 DEF ResolvedIn
  <2>5. Named(e, "bridge") = e["bridge"] /\ Named(e, "r0") = "r0"
    BY <1>2 DEF Resolves, Kinds
  <2> QED
    BY <2>1, <2>4, <2>5
<1>4. \A h, t, rid : Bridged(c, h, t, rid) <=> Served(s, e, h, t, rid)
  BY DEF Bridged, Served
<1> HIDE DEF s, e, low, nonce, m
<1>5. ResourcesUp(s, e, 18) /\ ContractsUp(s, e, 18, low, nonce)
  BY <1>1 DEF SetUpOn
<1>6. /\ Is(s, <<"resource", e["bridge"], "r0">>, e["erc20Handler"])
      /\ Is(s, <<"token", e["erc20Handler"], "r0">>, e["erc20"])
      /\ IsSet(s, <<"minter", e["erc20"], e["erc20Handler"]>>)
  BY <1>5 DEF ResourcesUp
<1>7. /\ Is(s, <<"resource", e["bridge"], "r2">>, e["erc721Handler"])
      /\ Is(s, <<"token", e["erc721Handler"], "r2">>, e["erc721"])
      /\ IsSet(s, <<"minter", e["erc721"], e["erc721Handler"]>>)
  BY <1>5 DEF ResourcesUp
<1>8. /\ Is(s, <<"resource", e["bridge"], "r1">>, e["generic"])
      /\ Is(s, <<"token", e["generic"], "r1">>, e["assetStore"])
  BY <1>5 DEF ResourcesUp
<1>9. /\ {"erc20Handler", "erc721Handler", "generic"} \subseteq Handlers
      /\ {"erc20Handler", "erc20", "erc721", "assetStore", "bridge"} \subseteq Kinds
      /\ "generic" \notin TokenHandlers
  BY DEF Handlers, Kinds, TokenHandlers
<1>10. Served(s, e, "erc20Handler", "erc20", "r0")
  <2>1. Registered(s, e, "erc20Handler", "erc20", "r0")
    BY <1>6, <1>9 DEF Registered
  <2> QED
    BY <1>1, <2>1, SetupResource
<1>11. Served(s, e, "erc721Handler", "erc721", "r2")
  <2>1. Registered(s, e, "erc721Handler", "erc721", "r2")
    BY <1>7, <1>9 DEF Registered
  <2> QED
    BY <1>1, <2>1, SetupResource
<1>12. Served(s, e, "generic", "assetStore", "r1")
  <2>1. Registered(s, e, "generic", "assetStore", "r1")
    BY <1>8, <1>9 DEF Registered
  <2> QED
    BY <1>1, <2>1, SetupResource
<1>13. Accepts(s, m)
  <2> DEFINE b == e["bridge"]
             h == e["erc20Handler"]
             t == e["erc20"]
  <2>1. Kind(s, b) = "bridge" /\ Kind(s, h) = "erc20Handler" /\ Kind(s, t) = "erc20"
    BY <1>2, <1>9
  <2>2. ~Has(s, <<"paused", b>>)
    <3>1. <<"paused", b>> \notin DOMAIN s
      BY <1>5 DEF ContractsUp
    <3> QED
      BY <3>1 DEF Has, Get
  <2>3. Get(s, <<"resource", b, "r0">>, Zero) = h /\ TokenOf(s, b, "r0") = t
    BY <1>10 DEF Served
  <2>4. Get(s, <<"balance", t, Sender>>, 0) > 0
    BY <1>5 DEF ResourcesUp
  <2>5. Get(s, <<"allowance", t, h>>, 0) = Units
    <3>1. Is(s, <<"allowance", t, h>>, Units)
      BY <1>5 DEF ResourcesUp
    <3> QED
      BY <3>1, IsGet
  <2>6. Units > 0
    BY CLIAssumption
  <2> HIDE DEF b, h, t
  <2>7. Takes(s, h, t)
    BY <2>1, <2>4, <2>5, <2>6 DEF Takes
  <2> QED
    BY <1>3, <2>1, <2>2, <2>3, <2>7 DEF Accepts, b
<1>14. s[<<"threshold", e["bridge"]>>] <= Cardinality({r \in Relayers : Has(s, <<"relayer", e["bridge"], r>>)})
  <2>1. s[<<"threshold", e["bridge"]>>] = 1 /\ \A r \in Relayers : IsSet(s, <<"relayer", e["bridge"], r>>)
    BY <1>5 DEF ContractsUp, Is
  <2>2. \A r \in Relayers : Has(s, <<"relayer", e["bridge"], r>>)
    BY <2>1 DEF IsSet, Has, Get
  <2>3. {r \in Relayers : Has(s, <<"relayer", e["bridge"], r>>)} = Relayers
    BY <2>2
  <2>4. Cardinality(Relayers) \in Nat /\ Cardinality(Relayers) # 0
    BY CLIAssumption, FS_CardinalityType, FS_EmptySet
  <2>5. 1 <= Cardinality(Relayers)
    BY <2>4
  <2> QED
    BY <2>1, <2>3, <2>5
<1> QED
  BY <1>4, <1>10, <1>11, <1>12, <1>13, <1>14 DEF s, e, m


\* Setting what is set changes nothing.
LEMMA SetAgain ==
    ASSUME NEW s, NEW nonce, StoreType(s, nonce), NEW key, IsSet(s, key), NEW v, On(v)
    PROVE  Put(s, key, v) = s
  BY DEF IsSet, On, Put, StoreType

\* A transaction of local-setup still shows at its end.
LEMMA LocalShows ==
    ASSUME NEW c, NEW L, Local(L, c), NEW s, NEW e, NEW low, NEW nonce, SetUpOn(s, e, low, nonce),
           NEW start, StoreType(start, low), NEW j \in 8..18, j \notin {11, 15}
    PROVE  LET r == ResolvedIn(e, L[j])
           IN  IF r.fn \in Counted THEN s # start ELSE Applied(s, r) = s
<1> DEFINE m == L[j]
           r == ResolvedIn(e, m)
<1>1. /\ Resolves(e) /\ DOMAIN e = Kinds /\ Kind(s, e["erc20"]) = "erc20" /\ StoreType(s, nonce)
      /\ ContractsUp(s, e, 18, low, nonce) /\ ResourcesUp(s, e, 18) /\ low \in Nat /\ nonce \in Nat
  <2>1. 18 \in Nat /\ 18 >= 7 /\ "erc20" \in Kinds
    BY DEF Kinds
  <2> QED
    BY <2>1, AllDeployed DEF SetUpOn
<1>2. r.fn = m.fn
  BY DEF ResolvedIn
<1>3. ASSUME NEW key, NEW v, Is(s, key, v), NEW other, NEW x, Is(s, other, x)
      PROVE  Put(Put(s, key, v), other, x) = s
  BY <1>1, <1>3, WrittenAgain
<1> HIDE DEF m, r
<1>4. CASE j = 9
  <2>1. m = MintTokens(c, "erc20", Sender, Units)
    BY <1>4 DEF m, Local
  <2>2. m.fn \in Counted
    BY <2>1 DEF MintTokens, Step, Counted
  <2>3. e["erc20"] \in (low + 1)..nonce /\ <<"code", e["erc20"]>> \in DOMAIN s
    BY <1>1 DEF ContractsUp, Is, Kinds
  <2>4. e["erc20"] \notin 1..low
    BY <1>1, <2>3
  <2>5. <<"code", e["erc20"]>> \notin DOMAIN start
    BY <2>4 DEF StoreType
  <2> QED
    BY <1>2, <2>2, <2>3, <2>5 DEF r, m
<1>5. CASE j = 10
  <2> DEFINE key == <<"allowance", e["erc20"], e["erc20Handler"]>>
  <2>1. m = ApproveTokens(c, "erc20", "erc20Handler", Units)
    BY <1>5 DEF m, Local
  <2>2. TokenCall(m, "approve", "erc20Handler") /\ m.n = Units
    BY <2>1 DEF TokenCall, Kinds, Handlers, ApproveTokens, Step
  <2>3. Named(e, "erc20Handler") = e["erc20Handler"]
    BY <1>1 DEF Resolves, Kinds, Handlers
  <2>4. Applied(s, r) = Put(s, key, Units)
    BY <1>1, <2>2, <2>3, TokenMessage DEF r
  <2>5. Is(s, key, Units)
    BY <1>1 DEF ResourcesUp
  <2> HIDE DEF key
  <2>6. Applied(s, r) = s
    BY <1>1, <2>4, <2>5, WrittenAgain
  <2>7. r.fn \notin Counted
    BY <1>2, <2>2 DEF TokenCall, Counted
  <2> QED
    BY <2>6, <2>7 DEF r, m
<1>6. ASSUME NEW h, NEW rid, NEW t, ResourceCall(m, h, rid, t),
             Is(s, <<"resource", e["bridge"], rid>>, e[h]), Is(s, <<"token", e[h], rid>>, e[t])
      PROVE  r.fn \notin Counted /\ Applied(s, r) = s
  <2>1. Applied(s, r) = Put(Put(s, <<"resource", e["bridge"], rid>>, e[h]), <<"token", e[h], rid>>, e[t])
    BY <1>1, <1>6, ResourceMessage DEF r
  <2>2. Applied(s, r) = s
    BY <1>3, <1>6, <2>1
  <2> QED
    BY <1>2, <1>6, <2>2 DEF ResourceCall, Counted
<1>7. CASE j = 8
  <2>1. m = AdminSetResource(c, "bridge", "erc20Handler", "r0", "erc20")
    BY <1>7 DEF m, Local
  <2>2. ResourceCall(m, "erc20Handler", "r0", "erc20")
    BY <2>1 DEF ResourceCall, Kinds, Handlers, AdminSetResource, Transaction, Step
  <2>3. /\ Is(s, <<"resource", e["bridge"], "r0">>, e["erc20Handler"])
        /\ Is(s, <<"token", e["erc20Handler"], "r0">>, e["erc20"])
    BY <1>1 DEF ResourcesUp
  <2> QED
    BY <1>6, <2>2, <2>3 DEF r, m
<1>8. CASE j = 14
  <2>1. m = AdminSetResource(c, "bridge", "erc721Handler", "r2", "erc721")
    BY <1>8 DEF m, Local
  <2>2. ResourceCall(m, "erc721Handler", "r2", "erc721")
    BY <2>1 DEF ResourceCall, Kinds, Handlers, AdminSetResource, Transaction, Step
  <2>3. /\ Is(s, <<"resource", e["bridge"], "r2">>, e["erc721Handler"])
        /\ Is(s, <<"token", e["erc721Handler"], "r2">>, e["erc721"])
    BY <1>1 DEF ResourcesUp
  <2> QED
    BY <1>6, <2>2, <2>3 DEF r, m
<1>9. CASE j = 18
  <2>1. m = AdminSetGenericResource(c, "bridge", "generic", "r1", "assetStore")
    BY <1>9 DEF m, Local
  <2>2. ResourceCall(m, "generic", "r1", "assetStore")
    BY <2>1 DEF ResourceCall, Kinds, Handlers, AdminSetGenericResource, Transaction, Step
  <2>3. /\ Is(s, <<"resource", e["bridge"], "r1">>, e["generic"])
        /\ Is(s, <<"token", e["generic"], "r1">>, e["assetStore"])
    BY <1>1 DEF ResourcesUp
  <2> QED
    BY <1>6, <2>2, <2>3 DEF r, m
<1>10. ASSUME NEW t, NEW h, GrantCall(m, t, h), IsSet(s, <<"minter", e[t], e[h]>>)
       PROVE  r.fn \notin Counted /\ Applied(s, r) = s
  <2>1. PICK on : On(on) /\ Applied(s, r) = Put(s, <<"minter", e[t], e[h]>>, on)
    BY <1>1, <1>10, GrantMessage DEF r
  <2>2. Applied(s, r) = s
    BY <1>1, <1>10, <2>1, SetAgain
  <2> QED
    BY <1>2, <1>10, <2>2 DEF GrantCall, Counted
<1>11. ASSUME NEW t, NEW h, BurnableCall(m, h, t), IsSet(s, <<"burnable", e[h], e[t]>>)
       PROVE  r.fn \notin Counted /\ Applied(s, r) = s
  <2>1. PICK on : On(on) /\ Applied(s, r) = Put(s, <<"burnable", e[h], e[t]>>, on)
    BY <1>1, <1>11, BurnableMessage DEF r
  <2>2. Applied(s, r) = s
    BY <1>1, <1>11, <2>1, SetAgain
  <2> QED
    BY <1>2, <1>11, <2>2 DEF BurnableCall, Counted
<1>12. CASE j = 12
  <2>1. m = Transaction(c, "erc20", "grantRole", <<"erc20Handler">>)
    BY <1>12 DEF m, Local
  <2>2. GrantCall(m, "erc20", "erc20Handler")
    BY <2>1 DEF GrantCall, Kinds, Handlers, Transaction, Step
  <2>3. IsSet(s, <<"minter", e["erc20"], e["erc20Handler"]>>)
    BY <1>1 DEF ResourcesUp
  <2> QED
    BY <1>10, <2>2, <2>3 DEF r, m
<1>13. CASE j = 16
  <2>1. m = Transaction(c, "erc721", "grantRole", <<"erc721Handler">>)
    BY <1>13 DEF m, Local
  <2>2. GrantCall(m, "erc721", "erc721Handler")
    BY <2>1 DEF GrantCall, Kinds, Handlers, Transaction, Step
  <2>3. IsSet(s, <<"minter", e["erc721"], e["erc721Handler"]>>)
    BY <1>1 DEF ResourcesUp
  <2> QED
    BY <1>10, <2>2, <2>3 DEF r, m
<1>14. CASE j = 13
  <2>1. m = SetBurnableInput(c, "bridge", "erc20Handler", "erc20")
    BY <1>14 DEF m, Local
  <2>2. BurnableCall(m, "erc20Handler", "erc20")
    BY <2>1 DEF BurnableCall, Kinds, Handlers, SetBurnableInput, Transaction, Step
  <2>3. IsSet(s, <<"burnable", e["erc20Handler"], e["erc20"]>>)
    BY <1>1 DEF ResourcesUp
  <2> QED
    BY <1>11, <2>2, <2>3 DEF r, m
<1>15. CASE j = 17
  <2>1. m = SetBurnableInput(c, "bridge", "erc721Handler", "erc721")
    BY <1>15 DEF m, Local
  <2>2. BurnableCall(m, "erc721Handler", "erc721")
    BY <2>1 DEF BurnableCall, Kinds, Handlers, SetBurnableInput, Transaction, Step
  <2>3. IsSet(s, <<"burnable", e["erc721Handler"], e["erc721"]>>)
    BY <1>1 DEF ResourcesUp
  <2> QED
    BY <1>11, <2>2, <2>3 DEF r, m
<1>16. j \in {8, 9, 10, 12, 13, 14, 16, 17, 18}
  OBVIOUS
<1> QED
  BY <1>4, <1>5, <1>7, <1>8, <1>9, <1>12, <1>13, <1>14, <1>15, <1>16

\* What the invariant says of a command that reports success.
LEMMA SuccessShows == CLIInv => Reported
<1> DEFINE Done == \A i \in DOMAIN run.steps : Sends(run.steps[i]) =>
                       Idle(run.steps[i]) \/ CutOff(i) \/ Effective(run.steps[i])
           Unsent == (\A i \in DOMAIN run.steps : ~Sends(run.steps[i])) =>
                         chain = run.start /\ run.cmd \in Asking \cup Stubs \cup {"", "transfer"}
<1> SUFFICES ASSUME CLIInv, run.result = "ok"
             PROVE  IF run.prepare THEN chain = run.start ELSE Done /\ Unsent
  BY DEF Reported
<1>1. Live
  BY DEF Live
<1>2. CASE run.cmd \notin {"deploy", "local-setup"}
  <2>1. run.pc > Len(run.steps)
    BY <1>1, <1>2 DEF CLIInv, SimpleInv
  <2>2. CASE run.prepare
    BY <1>1, <1>2, <2>1, <2>2 DEF CLIInv, SimpleInv
  <2>3. CASE ~run.prepare
    <3>1. \A i \in DOMAIN run.steps : Shows(run.steps[i])
      BY <1>1, <1>2, <2>1, <2>3 DEF CLIInv, SimpleInv
    <3>2. Unsent
      BY <1>1, <1>2 DEF CLIInv, SimpleInv, Quiet
    <3> QED
      BY <2>3, <3>1, <3>2 DEF Shows
  <2> QED
    BY <2>2, <2>3
<1>3. CASE run.cmd = "deploy"
  <2>1. ~run.prepare /\ \E c \in Chains : DeployedSo(c)
    BY <1>1, <1>3 DEF CLIInv, DeployInv
  <2>2. PICK c \in Chains : DeployedSo(c)
    BY <2>1
  <2>3. Unsent
    BY <2>2 DEF DeployedSo, Sends
  <2>4. ASSUME NEW i \in DOMAIN run.steps
        PROVE  CutOff(i) \/ Effective(run.steps[i])
    <3>1. run.steps[i].chain = c /\ run.steps[i].do = "deploy"
      BY <2>2 DEF DeployedSo
    <3>2. i \in Nat /\ i <= Len(run.steps) /\ run.pc \in Nat \ {0} /\ Len(run.steps) \in Nat
      BY DEF CLIInv, RunType
    <3>3. CASE i < run.pc
      <4>1. /\ run.steps[i].to \in DOMAIN run.env[c]
            /\ Is(chain[c].store, <<"code", run.env[c][run.steps[i].to]>>, run.steps[i].to)
        BY <2>2, <3>3 DEF DeployedSo
      <4>2. Kind(chain[c].store, run.env[c][run.steps[i].to]) = run.steps[i].to
        BY <4>1 DEF Is, Kind, Get
      <4> QED
        BY <3>1, <4>1, <4>2 DEF Effective
    <3>4. CASE ~(i < run.pc)
      <4>1. run.env[c]["bridge"] = Zero /\ run.steps[run.pc].to = "generic"
        BY <2>2, <3>2, <3>4 DEF DeployedSo
      <4>2. run.pc \in 1..i
        BY <3>2, <3>4
      <4> QED
        BY <1>3, <3>1, <4>1, <4>2 DEF CutOff
    <3> QED
      BY <3>3, <3>4
  <2> QED
    BY <2>1, <2>3, <2>4
<1>4. CASE run.cmd = "local-setup"
  <2>1. ~run.prepare /\ Len(run.steps) = 36
    BY <1>1, <1>4 DEF CLIInv, SetupInv
  <2>2. /\ \A i \in 1..18 : run.steps[i] = PrepareLocal(1)[i]
        /\ \A i \in 1..18 : run.steps[18 + i] = PrepareLocal(2)[i]
    BY <1>1, <1>4 DEF CLIInv, SetupInv
  <2>3. ASSUME NEW i \in DOMAIN run.steps, Sends(run.steps[i])
        PROVE  Effective(run.steps[i])
    <3>1. i \in 1..36
      BY <2>1 DEF CLIInv, RunType
    <3>2. \E c \in Chains, j \in 1..18 : run.steps[i] = PrepareLocal(c)[j]
      <4>1. CASE i \in 1..18
        BY <2>2, <4>1 DEF Chains
      <4>2. CASE i \notin 1..18
        <5> DEFINE k == i - 18
        <5>1. k \in 1..18 /\ i = 18 + k
          BY <3>1, <4>2
        <5> HIDE DEF k
        <5> QED
          BY <2>2, <5>1 DEF Chains
      <4> QED
        BY <4>1, <4>2
    <3>3. PICK c \in Chains, j \in 1..18 : run.steps[i] = PrepareLocal(c)[j]
      BY <3>2
    <3> DEFINE L == PrepareLocal(c)
               s == chain[c].store
               e == run.env[c]
               low == run.start[c].nonce
               start == run.start[c].store
               nonce == chain[c].nonce
    <3>4. Local(L, c)
      BY LocalSteps
    <3> HIDE DEF L
    <3>5. LocalStep(L[j], c, j)
      BY <3>4, LocalDoes
    <3>6. run.steps[i] = L[j]
      BY <3>3 DEF L
    <3>7. SetUpOn(s, e, low, nonce) /\ StoreType(start, low)
      BY <1>4, SetupEnds
    <3>8. L[j].chain = c /\ Sends(L[j])
      BY <2>3, <3>5, <3>6 DEF LocalStep
    <3>9. Resolved(L[j]) = ResolvedIn(e, L[j]) /\ ResolvedIn(e, L[j]).fn = L[j].fn
      BY <3>8 DEF Resolved, ResolvedIn
    <3>10. /\ chain[L[j].chain].store = s /\ run.start[L[j].chain].store = start
           /\ run.env[L[j].chain] = e
      BY <3>8
    <3> HIDE DEF s, e, low, start, nonce
    <3>11. CASE L[j].do = "deploy"
      <4>1. L[j].to \in Kinds /\ DOMAIN e = Kinds
        <5>1. 18 \in Nat /\ 18 >= 7
          OBVIOUS
        <5> QED
          BY <3>5, <3>7, <5>1, AllDeployed DEF LocalStep, SetUpOn
      <4>2. Is(s, <<"code", e[L[j].to]>>, L[j].to)
        BY <3>7, <4>1 DEF SetUpOn, ContractsUp
      <4>3. Kind(s, e[L[j].to]) = L[j].to
        BY <4>2 DEF Is, Kind, Get
      <4> QED
        BY <3>6, <3>10, <3>11, <4>1, <4>3 DEF Effective
    <3>12. CASE L[j].do # "deploy"
      <4>1. L[j].do = "transact" /\ ~(j <= 7)
        BY <3>5, <3>8, <3>12 DEF LocalStep, Sends
      <4>2. j \notin {11, 15}
        <5>1. View(c, "erc20").do = "call" /\ View(c, "erc721").do = "call"
          BY DEF View, Step
        <5> QED
          BY <3>4, <4>1, <5>1 DEF Local
      <4>3. LET x == ResolvedIn(e, L[j])
            IN  IF x.fn \in Counted THEN s # start ELSE Applied(s, x) = s
        BY <3>4, <3>7, <4>1, <4>2, LocalShows
      <4> QED
        BY <3>6, <3>9, <3>10, <3>12, <4>3 DEF Effective
    <3> QED
      BY <3>11, <3>12
  <2>4. Unsent
    <3>1. 1 \in DOMAIN run.steps /\ run.steps[1] = PrepareLocal(1)[1] /\ 1 \in 1..18
      BY <2>1, <2>2 DEF CLIInv, RunType
    <3>2. Local(PrepareLocal(1), 1)
      BY LocalSteps
    <3>3. run.steps[1].do = "deploy"
      BY <3>1, <3>2, LocalDoes DEF LocalStep
    <3> QED
      BY <3>1, <3>3 DEF Sends
  <2> QED
    BY <2>1, <2>3, <2>4
<1> QED
  BY <1>2, <1>3, <1>4


-------------------------------------------------------------------------------
(* The chains at the start                                                 *)

\* A set of natural numbers has a smallest element.
LEMMA Least ==
    ASSUME NEW T, T \subseteq Nat, T # {}
    PROVE  \E n \in T : \A m \in T : n <= m
<1>1. PICK n \in T : \A m \in T : ~(<<m, n>> \in OpToRel(<, Nat))
  BY NatLessThanWellFounded, WFMin
<1>2. \A m \in T : ~(m < n)
  BY <1>1 DEF OpToRel
<1> QED
  BY <1>2

\* The steps can be performed one after the other.
Results(f, n, steps, env) ==
    f = [i \in 0..n |-> IF i = 0 THEN <<>> ELSE Performed(f[i - 1], i, steps[i], env)]

\* The recursive store of SetUp exists.
LEMMA PerformedAll ==
    ASSUME NEW steps, NEW env, NEW n \in Nat
    PROVE  \E f : Results(f, n, steps, env)
<1> DEFINE Run(f, k) ==
               f = [i \in 0..k |-> IF i = 0 THEN <<>> ELSE Performed(f[i - 1], i, steps[i], env)]
           Stuck == {k \in Nat : ~\E f : Run(f, k)}
<1>1. \E f : Run(f, 0)
  <2> DEFINE f == [i \in 0..0 |-> <<>>]
  <2>1. f = [i \in 0..0 |-> IF i = 0 THEN <<>> ELSE Performed(f[i - 1], i, steps[i], env)]
    OBVIOUS
  <2> QED
    BY <2>1
<1>2. ASSUME NEW k \in Nat, NEW f, Run(f, k)
      PROVE  \E g : Run(g, k + 1)
  <2> DEFINE g == [i \in 0..(k + 1) |-> IF i = k + 1 THEN Performed(f[k], k + 1, steps[k + 1], env)
                                        ELSE f[i]]
  <2>1. DOMAIN g = 0..(k + 1) /\ g = [i \in DOMAIN g |-> g[i]]
    OBVIOUS
  <2>2. \A i \in 0..k : g[i] = f[i] /\ i # k + 1
    OBVIOUS
  <2>3. g[k + 1] = Performed(f[k], k + 1, steps[k + 1], env)
    OBVIOUS
  <2> HIDE DEF g
  <2>4. \A i \in 0..k : f[i] = IF i = 0 THEN <<>> ELSE Performed(f[i - 1], i, steps[i], env)
    BY <1>2
  <2>5. ASSUME NEW i \in 0..(k + 1)
        PROVE  g[i] = IF i = 0 THEN <<>> ELSE Performed(g[i - 1], i, steps[i], env)
    <3>1. CASE i = k + 1
      <4>1. k \in 0..k /\ i - 1 = k /\ i # 0
        BY <3>1
      <4>2. g[i - 1] = f[k]
        BY <2>2, <4>1
      <4> QED
        BY <2>3, <3>1, <4>1, <4>2
    <3>2. CASE i = 0
      <4>1. 0 \in 0..k
        OBVIOUS
      <4> QED
        BY <2>2, <2>4, <3>2, <4>1
    <3>3. CASE i \in 1..k
      <4>1. i \in 0..k /\ i - 1 \in 0..k /\ i # 0
        BY <3>3
      <4> QED
        BY <2>2, <2>4, <4>1
    <3> QED
      BY <3>1, <3>2, <3>3
  <2>6. Run(g, k + 1)
    BY <2>1, <2>5
  <2> QED
    BY <2>6
<1> HIDE DEF Run
<1>3. ASSUME Stuck # {} PROVE FALSE
  <2>1. PICK k \in Stuck : \A l \in Stuck : k <= l
    BY <1>3, Least
  <2>2. k # 0
    BY <1>1
  <2>3. k - 1 \in Nat /\ k - 1 \notin Stuck /\ (k - 1) + 1 = k
    BY <2>1, <2>2
  <2>4. PICK f : Run(f, k - 1)
    BY <2>3
  <2>5. \E g : Run(g, (k - 1) + 1)
    BY <1>2, <2>3, <2>4
  <2> QED
    BY <2>3, <2>5
<1> QED
  BY <1>3 DEF Run, Results


\* The steps that set a chain up: those of local-setup and a mint.
SetUpStep(m, i) ==
    /\ m.do \in {"deploy", "transact", "call"} /\ (m.do = "deploy" <=> i <= 7) /\ m.to \in Kinds
    /\ m.do = "transact" => /\ m.fn \in Plain \ {"adminSetDepositNonce"}
                            /\ m.fn \in {"mint", "approve"} => m.n \in Nat \ {0}

\* The steps of SetUp: those of PrepareLocal and a mint.
LEMMA SetUpSteps ==
    ASSUME NEW c, NEW w, w = PrepareLocal(c) \o <<Mint(c, "erc721", Sender)>>
    PROVE  Len(w) = 19 /\ DOMAIN w = 1..19 /\ \A i \in 1..19 : SetUpStep(w[i], i)
<1> DEFINE L == PrepareLocal(c)
           m == Mint(c, "erc721", Sender)
           t == <<m>>
<1>1. Local(L, c) /\ \E S : L \in Seq(S)
  BY LocalSteps
<1>2. PICK S : L \in Seq(S)
  BY <1>1
<1>3. m.do = "transact" /\ m.fn = "mint" /\ m.n = 1 /\ m.to = "erc721"
  BY DEF Mint, Step
<1> HIDE DEF L, m
<1>4. t \in Seq(S \cup {m}) /\ Len(t) = 1 /\ t[1] = m
  OBVIOUS
<1>5. L \in Seq(S \cup {m}) /\ Len(L) = 18
  BY <1>1, <1>2 DEF Local
<1>6. w = L \o t
  BY DEF L, m
<1> HIDE DEF t
<1>7. Follows(L, t, w, S \cup {m}, 18, 1)
  <2>1. 18 \in Nat /\ 1 \in Nat
    OBVIOUS
  <2>2. Follows(L, t, L \o t, S \cup {m}, 18, 1)
    BY <1>4, <1>5, <2>1, Appended, Zenon
  <2> QED
    BY <1>6, <2>2
<1>8. /\ w \in Seq(S \cup {m}) /\ Len(w) = 18 + 1
      /\ \A i \in 1..18 : w[i] = L[i]
      /\ \A i \in 1..1 : w[18 + i] = t[i]
  BY <1>7 DEF Follows
<1>9. Len(w) = 19 /\ DOMAIN w = 1..19
  <2>1. \A x \in Seq(S \cup {m}) : DOMAIN x = 1..Len(x)
    OBVIOUS
  <2>2. DOMAIN w = 1..Len(w)
    BY <1>8, <2>1
  <2>3. Len(w) = 19
    <3>1. 18 + 1 = 19
      OBVIOUS
    <3> QED
      BY <1>8, <3>1
  <2> QED
    BY <2>2, <2>3
<1>10. w[19] = m
  <2>1. 1 \in 1..1 /\ 18 + 1 = 19
    OBVIOUS
  <2> QED
    BY <1>4, <1>8, <2>1
<1>11. ASSUME NEW i \in 1..18
       PROVE  SetUpStep(w[i], i)
  <2>1. LocalStep(L[i], c, i)
    BY <1>1, LocalDoes
  <2>2. LocalStep(w[i], c, i)
    BY <1>8, <2>1
  <2> QED
    BY <2>2, CLIAssumption DEF LocalStep, SetUpStep
<1>12. SetUpStep(w[19], 19)
  <2>1. SetUpStep(m, 19)
    BY <1>3 DEF SetUpStep, Plain, Methods, Kinds
  <2> QED
    BY <1>10, <2>1
<1>13. \A i \in 1..19 : i \in 1..18 \/ i = 19
  OBVIOUS
<1> QED
  BY <1>9, <1>11, <1>12, <1>13

\* A chain without contracts.
LEMMA EmptyType ==
    StoreType(<<>>, 0)
<1>1. DOMAIN <<>> = {}
  OBVIOUS
<1> QED
  BY <1>1 DEF StoreType

\* What one step leaves.
LEMMA PerformedType ==
    ASSUME NEW s, NEW a \in Nat \ {0}, NEW n \in Nat, StoreType(s, n), NEW env, NEW m,
           NEW i, SetUpStep(m, i), m.do = "deploy" => a = n + 1
    PROVE  StoreType(Performed(s, a, m, env), IF m.do = "deploy" THEN n + 1 ELSE n)
<1>0. /\ m.do \in {"deploy", "transact", "call"} /\ m.to \in Kinds
      /\ m.do = "transact" => /\ m.fn \in Plain \ {"adminSetDepositNonce"}
                              /\ m.fn \in {"mint", "approve"} => m.n \in Nat \ {0}
  BY DEF SetUpStep
<1>1. CASE m.do = "deploy"
  <2>1. Performed(s, a, m, env) = Created(s, n + 1, m.to, env["bridge"], m.n, m.args)
    BY <1>1 DEF Performed
  <2> QED
    BY <1>0, <1>1, <2>1, CreatedType
<1>2. CASE m.do = "transact"
  <2> DEFINE r == ResolvedIn(env, m)
  <2>1. Performed(s, a, m, env) = Applied(s, r)
    BY <1>2 DEF Performed
  <2>2. r.fn = m.fn /\ r.n = m.n
    BY DEF ResolvedIn
  <2> HIDE DEF r
  <2>3. r.fn \in Plain /\ Sent(r)
    BY <1>0, <1>2, <2>2 DEF Sent
  <2> QED
    BY <1>2, <2>1, <2>3, PlainType
<1>3. CASE m.do = "call"
  BY <1>3 DEF Performed
<1> QED
  BY <1>0, <1>1, <1>2, <1>3

\* A chain that was set up before is one a command can find.
LEMMA SetUpType ==
    ASSUME NEW c
    PROVE  ChainType(SetUp(c))
<1> DEFINE steps == PrepareLocal(c) \o <<Mint(c, "erc721", Sender)>>
           creations == {i \in DOMAIN steps : steps[i].do = "deploy"}
           env == [k \in {steps[i].to : i \in creations} |->
                       CHOOSE i \in creations : steps[i].to = k]
           store[i \in 0..Len(steps)] ==
               IF i = 0 THEN <<>> ELSE Performed(store[i - 1], i, steps[i], env)
           sent == {i \in DOMAIN steps : steps[i].do \in {"deploy", "transact"}}
<1>1. SetUp(c) = [nonce |-> Cardinality(sent), store |-> store[Len(steps)]]
  BY Zenon DEF SetUp
<1>2. Len(steps) = 19 /\ DOMAIN steps = 1..19 /\ \A i \in 1..19 : SetUpStep(steps[i], i)
  BY SetUpSteps
<1> HIDE DEF steps, env
<1>3. Len(steps) \in Nat
  BY <1>2
<1>4. PICK f : Results(f, Len(steps), steps, env)
  BY <1>3, PerformedAll
<1>5. store = [i \in 0..Len(steps) |->
                   IF i = 0 THEN <<>> ELSE Performed(store[i - 1], i, steps[i], env)]
  BY <1>4, Zenon DEF Results
<1> HIDE DEF store
<1>6. \A i \in 0..19 : store[i] = IF i = 0 THEN <<>> ELSE Performed(store[i - 1], i, steps[i], env)
  BY <1>2, <1>5
<1> DEFINE Top(i) == IF i <= 7 THEN i ELSE 7
           Wrong == {i \in 0..19 : ~StoreType(store[i], Top(i))}
<1>7. ASSUME Wrong # {} PROVE FALSE
  <2>1. PICK i \in Wrong : \A j \in Wrong : i <= j
    <3>1. Wrong \subseteq Nat
      OBVIOUS
    <3> HIDE DEF Wrong
    <3> QED
      BY <1>7, <3>1, Least
  <2>2. store[0] = <<>> /\ Top(0) = 0
    BY <1>6
  <2>3. i # 0
    BY <2>2, EmptyType
  <2>4. i \in 1..19 /\ i - 1 \in 0..19 /\ i - 1 \notin Wrong
    BY <2>1, <2>3
  <2>5. StoreType(store[i - 1], Top(i - 1)) /\ Top(i - 1) \in Nat
    BY <2>4
  <2>6. store[i] = Performed(store[i - 1], i, steps[i], env)
    BY <1>6, <2>3
  <2>7. /\ steps[i].do = "deploy" => i = Top(i - 1) + 1 /\ Top(i) = Top(i - 1) + 1
        /\ steps[i].do # "deploy" => Top(i) = Top(i - 1)
    <3>1. steps[i].do = "deploy" <=> i <= 7
      BY <1>2, <2>4 DEF SetUpStep
    <3> QED
      BY <2>4, <3>1
  <2> HIDE DEF Top
  <2>8. StoreType(store[i], IF steps[i].do = "deploy" THEN Top(i - 1) + 1 ELSE Top(i - 1))
    BY <1>2, <2>4, <2>5, <2>6, <2>7, PerformedType
  <2>9. StoreType(store[i], Top(i))
    BY <2>7, <2>8
  <2> QED
    BY <2>9
<1>8. StoreType(store[19], 7)
  BY <1>7
<1>9. Cardinality(sent) \in Nat /\ 7 <= Cardinality(sent)
  <2>1. sent \subseteq 1..19 /\ 1..7 \subseteq sent
    BY <1>2 DEF SetUpStep
  <2> HIDE DEF sent
  <2>2. IsFiniteSet(1..19) /\ IsFiniteSet(1..7) /\ Cardinality(1..7) = 7
    <3>1. 1 \in Int /\ 7 \in Int /\ 19 \in Int /\ ~(1 > 7) /\ 7 - 1 + 1 = 7
      OBVIOUS
    <3>2. Cardinality(1..7) = 7 - 1 + 1
      BY <3>1, FS_Interval, Zenon
    <3>3. IsFiniteSet(1..19) /\ IsFiniteSet(1..7)
      BY <3>1, FS_Interval, Zenon
    <3> QED
      BY <3>1, <3>2, <3>3
  <2>3. IsFiniteSet(sent)
    BY <2>1, <2>2, FS_Subset
  <2>4. Cardinality(1..7) <= Cardinality(sent)
    BY <2>1, <2>3, FS_Subset
  <2> QED
    BY <2>2, <2>3, <2>4, FS_CardinalityType
<1> HIDE DEF sent
<1>10. StoreType(store[Len(steps)], Cardinality(sent))
  BY <1>2, <1>8, <1>9, NonceType
<1> QED
  BY <1>1, <1>9, <1>10 DEF ChainType

\* At the start the chains are fresh or were set up, and no command has run.
LEMMA CLIInit == Init => CLIInv
<1> SUFFICES ASSUME Init PROVE CLIInv
  OBVIOUS
<1>1. ChainsType
  <2>1. ChainType([nonce |-> 0, store |-> <<>>])
    BY EmptyType DEF ChainType
  <2>2. CASE chain = [c \in Chains |-> [nonce |-> 0, store |-> <<>>]]
    BY <2>1, <2>2 DEF ChainsType
  <2>3. CASE chain = [c \in Chains |-> SetUp(c)]
    BY <2>3, SetUpType DEF ChainsType
  <2> QED
    BY <2>2, <2>3 DEF Init
<1>2. run = [cmd |-> "", prepare |-> FALSE, steps |-> <<>>, pc |-> 1, env |-> NoEnv,
             result |-> "ok", start |-> chain]
  BY DEF Init
<1>3. /\ run.cmd = "" /\ run.prepare = FALSE /\ run.steps = <<>> /\ run.pc = 1 /\ run.env = NoEnv
      /\ run.result = "ok" /\ run.start = chain
  BY <1>2
<1>8. run = [cmd |-> run.cmd, prepare |-> run.prepare, pc |-> run.pc, env |-> run.env,
             start |-> run.start, steps |-> run.steps, result |-> run.result]
  BY <1>2
<1>4. Len(<<>>) = 0 /\ DOMAIN <<>> = {} /\ 1..0 = {}
  OBVIOUS
<1>5. RunType
  <2>1. run.pc \in Nat \ {0} /\ run.prepare \in BOOLEAN
    <3>1. 1 \in Nat \ {0} /\ FALSE \in BOOLEAN
      OBVIOUS
    <3> QED
      BY <1>3, <3>1
  <2>2. Len(run.steps) \in Nat /\ DOMAIN run.steps = 1..Len(run.steps)
    BY <1>3, <1>4
  <2>3. run.env = [c \in Chains |-> run.env[c]]
    BY <1>3, NoEnvType
  <2>4. run.start = [c \in Chains |-> run.start[c]] /\ \A c \in Chains : ChainType(run.start[c])
    BY <1>1, <1>3 DEF ChainsType
  <2> QED
    BY <1>8, <2>1, <2>2, <2>3, <2>4 DEF RunType
<1>6. StepsType /\ SimpleInv
  <2>1. run.pc > Len(run.steps) /\ DOMAIN run.steps = {}
    <3>1. 1 > 0
      OBVIOUS
    <3> QED
      BY <1>3, <1>4, <3>1
  <2>2. StepsType
    BY <2>1 DEF StepsType
  <2>3. SimpleInv
    BY <1>3, <2>1 DEF SimpleInv, Quiet
  <2> QED
    BY <2>2, <2>3
<1>7. DeployInv /\ SetupInv
  BY <1>3 DEF DeployInv, SetupInv
<1> QED
  BY <1>1, <1>5, <1>6, <1>7 DEF CLIInv

\* The invariant holds throughout, for every number of commands and faults.
THEOREM CommandsInvariant == Spec => []CLIInv
<1>1. Init => CLIInv
  BY CLIInit
<1>2. CLIInv /\ [Next]_vars => CLIInv'
  BY CLINext
<1> QED
  BY <1>1, <1>2, PTL DEF Spec

\* When local-setup reports success, all resources are bridged on both chains.
THEOREM LocalSetupBridges == Spec => []SetupBridges
  BY CommandsInvariant, SetupDone, PTL

\* When deploy reports success, every handler answers to its bridge.
THEOREM DeployCommandBinds == Spec => []DeployBinds
  BY CommandsInvariant, DeployedBinds, PTL

\* What a command that reports success was to send shows at the end, but for a
\* transaction to an address without code and a deployment without a bridge;
\* and which commands report success without sending anything.
THEOREM SuccessIsReal == Spec => []Reported
  BY CommandsInvariant, SuccessShows, PTL

===============================================================================
