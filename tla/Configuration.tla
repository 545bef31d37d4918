---------------------------- MODULE Configuration -----------------------------
(***************************************************************************)
(* config/: what the application makes of its configuration file. A text   *)
(* field is only given or not; an integer that is not given reads as 0.    *)
(***************************************************************************)
EXTENDS Integers

CONSTANTS
    Ids,                    \* domain ids, NoId when not given
    NoId,
    Blocks,                 \* integers a file may give for blocks
    DefaultConfirmations,   \* consts.DefaultBlockConfirmations
    DefaultGas              \* consts.DefaultGasLimit, -Price: one value

ASSUME ConfigurationAssumption ==
    Blocks \subseteq Int /\ DefaultConfirmations \in Nat \ {0}

TextFields == {"endpoint", "name", "from", "bridge"}

VARIABLE conf       \* the parsed file and the configuration made of it

\* Validate of GeneralChainConfig.
ValidGeneral(raw) ==
    raw.id # NoId /\ {"endpoint", "name", "from"} \subseteq raw.given

\* Fault: negative confirmations pass.
ValidEVMUnchecked(raw) == ValidGeneral(raw) /\ "bridge" \in raw.given

\* Validate of RawEVMConfig.
ValidEVM(raw) ==
    /\ ValidGeneral(raw)
    /\ "bridge" \in raw.given
    /\ raw.confirmations # 0 => raw.confirmations >= 1

OrDefault(value, default) == IF value = 0 THEN default ELSE value

\* ParseFlags: a test key goes before the keystore, and is marked insecure.
KeyFrom(raw) == IF raw.testKey THEN "testKey" ELSE "keystore"

\* NewEVMConfig: defaults for what was not given.
NewEVMConfig(raw) ==
    [id |-> raw.id, startBlock |-> raw.startBlock, insecure |-> raw.testKey,
     key |-> KeyFrom(raw),
     confirmations |-> OrDefault(raw.confirmations, DefaultConfirmations),
     gasLimit |-> OrDefault(raw.gas, DefaultGas)]

\* NewSubstrateConfig: nothing but the general fields is checked.
NewSubstrateConfig(raw) ==
    [id |-> raw.id, startBlock |-> raw.startBlock, insecure |-> raw.testKey,
     key |-> KeyFrom(raw)]

\* GetConfig and NewRelayerConfig: the log level must be known and every chain
\* must have a type; which one it is the application decides.
GetConfig(logLevelKnown, raw) == logLevelKnown /\ raw.type # ""

-------------------------------------------------------------------------------
InitConfiguration == conf = [result |-> "none"]

Load(raw, logLevelKnown) ==
    /\ conf.result = "none"
    /\ conf' =
         IF ~GetConfig(logLevelKnown, raw) THEN [result |-> "error"]
         ELSE IF raw.type = "evm" /\ ValidEVM(raw)
              THEN [result |-> "evm", raw |-> raw, config |-> NewEVMConfig(raw)]
         ELSE IF raw.type # "evm" /\ ValidGeneral(raw)
              THEN [result |-> "substrate", raw |-> raw, config |-> NewSubstrateConfig(raw)]
         ELSE [result |-> "error"]

RawConfigs ==
    [id : Ids \cup {NoId}, given : SUBSET TextFields, type : {"", "evm", "substrate"},
     startBlock : Blocks, confirmations : Blocks, gas : Blocks, testKey : BOOLEAN]

NextConfiguration == \E raw \in RawConfigs, known \in BOOLEAN : Load(raw, known)

-------------------------------------------------------------------------------
(* Properties                                                              *)

\* A configuration that is accepted meets what the listeners and the voter
\* assume: an id, and for EVM chains a bridge and at least one confirmation,
\* also when the file leaves confirmations out or gives a negative number.
\* (A negative start block is accepted.)
UsableIfAccepted ==
    conf.result \in {"evm", "substrate"} =>
        /\ conf.config.id \in Ids
        /\ conf.result = "evm" => /\ "bridge" \in conf.raw.given
                                  /\ conf.config.confirmations >= 1

===============================================================================
