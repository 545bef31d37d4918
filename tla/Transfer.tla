------------------------------- MODULE Transfer -------------------------------
(***************************************************************************)
(* The bytes of one transfer on its way through a relayer: the deposit     *)
(* calldata, the event handler that makes a message of it, the message     *)
(* processors, and the handler that makes the proposal of the destination. *)
(* Every handler is selected by the handler contract that the bridge has   *)
(* for the resource, and by what was registered for its address.           *)
(*                                                                         *)
(* A byte string is a sequence over 0..Base-1. Word and Addr are the 32    *)
(* and 20 bytes of the code, scaled down.                                  *)
(***************************************************************************)
EXTENDS Numbers, Sequences

CONSTANTS
    Base,           \* 256
    Word,           \* 32
    Addr,           \* 20
    Ten,            \* 10, the base of token decimals
    Values,         \* amounts and token ids
    Recipients, Metadata,   \* byte strings
    Calldata, Tails,        \* byte strings of deposits made by other programs
    Decimals        \* pairs of a token's decimals, or NoDecimals or NotEVM

NoDecimals == -1    \* not in the map, or its contract cannot be asked
NotEVM     == -2    \* the chain has no EVMConfig

Kinds == {"fungible", "nonFungible", "generic"}
Handlers == Kinds \cup {"none"}
Processors == {"none", "map", "auto"}

VARIABLES
    stage,          \* how far the transfer is, or how it ended
    in,             \* what was deposited, from where to where
    data,           \* calldata of the deposit, later data of the proposal
    msg             \* the relayer's message: its Type and Payload

transferVars == <<stage, in, data, msg>>

-------------------------------------------------------------------------------
(* Bytes                                                                   *)

\* big.Int's Bytes: big endian, no leading zeros, nothing for 0.
Bytes[n \in Nat] == IF n = 0 THEN <<>> ELSE Append(Bytes[n \div Base], n % Base)

Front(s) == SubSeq(s, 1, Len(s) - 1)

\* big.Int's SetBytes.
Number[s \in Seq(Nat)] ==
    IF Len(s) = 0 THEN 0 ELSE Number[Front(s)] * Base + s[Len(s)]

\* LeftPadBytes and PaddedBigBytes: what is too long stays as it is.
LeftPad(s) == [i \in 1..(IF Len(s) < Word THEN Word - Len(s) ELSE 0) |-> 0] \o s

\* s[from:to]
Slice(s, from, to) == SubSeq(s, from + 1, to)

Length(s) == LeftPad(Bytes[Len(s)])

\* Amounts and token ids are unsigned integers of one word, and so are the
\* lengths of byte strings.
ASSUME TransferAssumption ==
    /\ Base \in Nat \ {0, 1} /\ Word \in Nat \ {0} /\ Addr \in Nat /\ Ten \in Nat \ {0}
    /\ Values \subseteq Nat /\ \A v \in Values : v < Power(Base, Word)
    /\ \A s \in Recipients \cup Metadata :
          s \in Seq(0..(Base - 1)) /\ Len(s) < Power(Base, Word)
    /\ Calldata \cup Tails \subseteq Seq(0..(Base - 1))
    /\ \A d \in Decimals : {d[1], d[2]} \subseteq Nat \cup {NoDecimals, NotEVM}

ConstructErc20DepositData(recipient, amount) ==
    LeftPad(Bytes[amount]) \o Length(recipient) \o recipient

ConstructErc721DepositData(recipient, tokenId, metadata) ==
    LeftPad(Bytes[tokenId]) \o Length(recipient) \o recipient
        \o Length(metadata) \o metadata

ConstructGenericDepositData(metadata) == Length(metadata) \o metadata

-------------------------------------------------------------------------------
(* Event handlers. cd is the calldata, tail what follows it in the log:    *)
(* Go slices up to the capacity, so an overrun within the log reads bytes  *)
(* that are not calldata, and panics behind it.                            *)

Made(type, payload) == [result |-> "ok", type |-> type, payload |-> payload]
Refused == [result |-> "refused"]
Panic   == [result |-> "panic"]

\* Fault: the length is not checked.
Erc20EventHandlerUnchecked(cd, tail, response) ==
    IF Len(cd \o tail) < 2 * Word THEN Panic
    ELSE Made("fungible", <<IF Len(response) = Word THEN response ELSE Slice(cd, 0, Word),
                            Slice(cd, 2 * Word, Len(cd))>>)

\* The amount is the handler's response when that is one word (fees).
Erc20EventHandler(cd, tail, response) ==
    IF Len(cd) < 2 * Word + Addr THEN Refused
    ELSE Made("fungible", <<IF Len(response) = Word THEN response ELSE Slice(cd, 0, Word),
                            Slice(cd, 2 * Word, Len(cd))>>)

GenericEventHandler(cd, tail, response) ==
    IF Len(cd) < Word THEN Refused ELSE Made("generic", <<Slice(cd, Word, Len(cd))>>)

\* Fault: the metadata starts with its length.
Erc721EventHandlerEarly(cd, tail, response) ==
    LET log == cd \o tail
        to  == 2 * Word + Number[Slice(cd, Word, 2 * Word)]
        len == Number[Slice(log, to, to + Word)]
    IN  IF Len(cd) < 2 * Word THEN Refused
        ELSE IF to + Word > Len(log) \/ to + len > Len(log) THEN Panic
        ELSE Made("nonFungible", <<Slice(cd, 0, Word), Slice(log, 2 * Word, to),
                                   Slice(log, to, to + len)>>)

\* Lengths found in the calldata are taken at their word. (Int64 keeps the
\* low bits of those beyond 2^63, which no log has room for and no constructor
\* makes: such calldata may then become a message where this is a panic.)
Erc721EventHandler(cd, tail, response) ==
    LET log == cd \o tail
        to  == 2 * Word + Number[Slice(cd, Word, 2 * Word)]   \* end of the recipient
        len == Number[Slice(log, to, to + Word)]              \* metadata length
        end == to + Word + len
    IN  IF Len(cd) < 2 * Word THEN Refused
        ELSE IF to + Word > Len(log) \/ (len > 0 /\ end > Len(log)) THEN Panic
        ELSE Made("nonFungible", <<Slice(cd, 0, Word), Slice(log, 2 * Word, to),
                                   Slice(log, to + Word, end)>>)

\* HandleEvent: by the handler registered for the resource's handler address.
EventHandler(handler, cd, tail, response) ==
    CASE handler = "fungible"    -> Erc20EventHandler(cd, tail, response)
      [] handler = "nonFungible" -> Erc721EventHandler(cd, tail, response)
      [] handler = "generic"     -> GenericEventHandler(cd, tail, response)
      [] OTHER                   -> Refused

\* handlers.go of the Substrate listener: no Type, an amount without padding,
\* and a token id of any bytes, here of up to a word: zeros come first.
SubstrateEvent(kind, value, zeros, recipient, metadata) ==
    CASE kind = "fungible"    -> Made("", <<Bytes[value], recipient>>)
      [] kind = "nonFungible" ->
            Made("", <<[i \in 1..zeros |-> 0] \o Bytes[value], recipient, metadata>>)
      [] OTHER                -> Made("", <<metadata>>)

\* Fault: the remainder is rounded up.
ConvertUp(amount, from, to) ==
    IF from > to THEN (amount + Power(Ten, from - to) - 1) \div Power(Ten, from - to)
    ELSE amount * Power(Ten, to - from)

\* "converts amount for one chain to another ... with floor rounding"
Convert(amount, from, to) ==
    IF from > to THEN amount \div Power(Ten, from - to) ELSE amount * Power(Ten, to - from)

\* The first payload is rewritten only when the decimals differ.
Adjust(m, from, to) ==
    IF from = to THEN m
    ELSE [m EXCEPT !.payload[1] = Bytes[Convert(Number[@], from, to)]]

\* The processor that reads the decimals of the tokens off the chains; only
\* messages marked as fungible are converted. A domain without an EVMConfig is
\* a nil pointer to it.
AutoProcessor(m, from, to) ==
    IF m.type # "fungible" THEN m
    ELSE IF NotEVM \in {from, to} THEN Panic
    ELSE IF NoDecimals \in {from, to} THEN Refused
    ELSE Adjust(m, from, to)

\* The two processors with a map from the configuration. They refuse a message
\* whose decimals are not in the map, and never look at its type.
MapProcessor(m, from, to) ==
    IF {NotEVM, NoDecimals} \cap {from, to} # {} THEN Refused ELSE Adjust(m, from, to)

Processed(m, processor, from, to) ==
    CASE processor = "map"  -> MapProcessor(m, from, to)
      [] processor = "auto" -> AutoProcessor(m, from, to)
      [] OTHER              -> m

\* ERC20-, ERC721- and GenericMessageHandler: only the number of parts tells
\* a message of another kind. <<>> stands for the error.
MessageHandler(handler, p) ==
    CASE handler = "fungible" /\ Len(p) = 2 ->
            LeftPad(p[1]) \o Length(p[2]) \o p[2]
      [] handler = "nonFungible" /\ Len(p) = 3 ->
            LeftPad(p[1]) \o Length(p[2]) \o p[2] \o Length(p[3]) \o p[3]
      [] handler = "generic" /\ Len(p) = 1 ->
            Length(p[1]) \o p[1]
      [] OTHER -> <<>>

-------------------------------------------------------------------------------
(* One transfer                                                            *)

Input(kind, value, recipient, metadata, sender, response, tail) ==
    [kind |-> kind, value |-> value, recipient |-> recipient, metadata |-> metadata,
     sender |-> sender, response |-> response, tail |-> tail,
     processor |-> "none", from |-> 0, to |-> 0, receiver |-> "none"]

InitTransfer == stage = "start" /\ in = <<>> /\ data = <<>> /\ msg = <<>>

\* A deposit made with the constructors of contracts/deposit, to a resource
\* whose handler is registered for sender; response is the handler's.
Deposit(kind, value, recipient, metadata, sender, response) ==
    /\ stage = "start"
    /\ data' = CASE kind = "fungible"    -> ConstructErc20DepositData(recipient, value)
                 [] kind = "nonFungible" ->
                        ConstructErc721DepositData(recipient, value, metadata)
                 [] OTHER                -> ConstructGenericDepositData(metadata)
    /\ in' = Input(kind, value, recipient, metadata, sender, response, <<>>)
    /\ stage' = "deposit"
    /\ UNCHANGED msg

\* A deposit with any calldata.
RawDeposit(cd, tail, sender) ==
    /\ stage = "start"
    /\ data' = cd
    /\ in' = Input("raw", 0, <<>>, <<>>, sender, <<>>, tail)
    /\ stage' = "deposit"
    /\ UNCHANGED msg

Handle(m) ==
    /\ stage' = IF m.result = "ok" THEN "message" ELSE m.result
    /\ msg' = m

HandleEvent ==
    /\ stage = "deposit"
    /\ Handle(EventHandler(in.sender, data, in.tail, in.response))
    /\ UNCHANGED <<in, data>>

\* The same from a Substrate chain.
HandleSubstrateEvent(kind, value, zeros, recipient, metadata) ==
    /\ stage = "start"
    /\ in' = Input(kind, value, recipient, metadata, kind, <<>>, <<>>)
    /\ Handle(SubstrateEvent(kind, value, zeros, recipient, metadata))
    /\ UNCHANGED data

Process(processor, from, to) ==
    /\ stage = "message"
    /\ LET m == Processed(msg, processor, from, to) IN
       /\ msg' = m
       /\ stage' = IF m.result = "ok" THEN "processed" ELSE m.result
    /\ in' = [in EXCEPT !.processor = processor, !.from = from, !.to = to]
    /\ UNCHANGED data

\* HandleMessage of the EVM voter, with what is registered for the handler
\* address that the destination's bridge has for the resource.
HandleMessage(handler) ==
    /\ stage = "processed"
    /\ data' = MessageHandler(handler, msg.payload)
    /\ stage' = IF data' = <<>> THEN "refused" ELSE "proposal"
    /\ in' = [in EXCEPT !.receiver = handler]
    /\ UNCHANGED msg

\* A fixed array of one word: cut, or filled up at its end.
Fixed(s) == [i \in 1..Word |-> IF i <= Len(s) THEN s[i] ELSE 0]

\* handlers.go of the Substrate writer: the arguments of the call.
SubstrateArgs(type, p) ==
    CASE type = "fungible"    -> <<Fixed(p[2]), Number[p[1]]>>
      [] type = "nonFungible" -> <<Fixed(p[2]), Number[p[1]], p[3]>>
      [] OTHER                -> <<Fixed(p[1])>>

\* VoteProposal of the Substrate writer: there is no handler for a message
\* without a type, and no call for an amount of more than half a word (U128).
HandleSubstrateMessage ==
    /\ stage = "processed"
    /\ in' = [in EXCEPT !.receiver = "substrate"]
    /\ \/ /\ \/ msg.type = ""
             \/ /\ msg.type = "fungible"
                /\ Number[msg.payload[1]] >= Power(Base, Word \div 2)
          /\ stage' = "refused"
          /\ UNCHANGED data
       \/ /\ msg.type # ""
          /\ msg.type = "fungible" => Number[msg.payload[1]] < Power(Base, Word \div 2)
          /\ stage' = "call"
          /\ data' = SubstrateArgs(msg.type, msg.payload)
    /\ UNCHANGED msg

NextTransfer ==
    \/ \E kind \in Kinds, v \in Values, r \in Recipients, m \in Metadata :
          \/ \E zeros \in 0..(Word - Len(Bytes[v])) : HandleSubstrateEvent(kind, v, zeros, r, m)
          \/ \E h \in {kind, "none"}, fee \in {<<>>, LeftPad(Bytes[v \div 2])} :
                Deposit(kind, v, r, m, h, fee)
    \/ \E cd \in Calldata, tail \in Tails, h \in Handlers : RawDeposit(cd, tail, h)
    \/ HandleEvent
    \/ \E p \in Processors, d \in Decimals : Process(p, d[1], d[2])
    \/ \E h \in Handlers : HandleMessage(h)
    \/ HandleSubstrateMessage

-------------------------------------------------------------------------------
(* Properties                                                              *)

\* External: what the destination reads off the proposal or the call.
ReadLength(at) == Number[Slice(data, at, at + Word)]
ReadAmount == IF stage = "call" THEN data[2] ELSE Number[Slice(data, 0, Word)]
ReadRecipient ==
    IF stage = "call" THEN data[1] ELSE Slice(data, 2 * Word, 2 * Word + ReadLength(Word))
ReadMetadata(at) ==
    IF stage = "call" THEN data[Len(data)] ELSE Slice(data, at + Word, at + Word + ReadLength(at))

\* Substrate accounts have one word.
Fits(s) == stage = "call" => Len(s) = Word

Converted == in.processor = "map" \/ (in.processor = "auto" /\ msg.type = "fungible")

Constructed == stage \in {"proposal", "call"} /\ in.kind # "raw"

\* The amount the source handler took, after fees.
Sent == IF in.response = <<>> THEN in.value ELSE Number[in.response]

\* A fungible transfer arrives with its recipient, and with no more than was
\* sent at the decimals of both tokens and less than one unit below it, as
\* long as the result fits a word (ERC20 handlers and the processors).
AmountArrives ==
    Constructed /\ in.kind = "fungible" =>
        LET from == IF Converted THEN in.from ELSE 0
            to   == IF Converted THEN in.to ELSE 0
        IN  Sent * Power(Ten, to) < Power(Base, Word) * Power(Ten, from) =>
              /\ Fits(in.recipient) => ReadRecipient = in.recipient
              /\ ReadAmount * Power(Ten, from) <= Sent * Power(Ten, to)
              /\ Sent * Power(Ten, to) < (ReadAmount + 1) * Power(Ten, from)

TokenArrives ==
    Constructed /\ in.kind = "nonFungible" /\ in.processor # "map" =>
        LET at == 2 * Word + Len(in.recipient) IN
        /\ ReadAmount = in.value
        /\ Fits(in.recipient) => ReadRecipient = in.recipient
        /\ ReadMetadata(at) = in.metadata

PayloadArrives ==
    /\ Constructed /\ in.kind = "generic" /\ in.processor # "map"
    /\ Fits(in.metadata)
    => ReadMetadata(0) = in.metadata

\* A token arrives with its id, recipient and metadata and a generic payload
\* as it was sent, from and to any chain, unless a processor with a map
\* rewrote them; and no message is encoded by the handler of another kind,
\* however the resource is mapped on the destination (Erc721EventHandler,
\* GenericEventHandler and the checks of the message handlers).
DataArrives ==
    /\ TokenArrives /\ PayloadArrives
    /\ stage = "proposal" => in.receiver = in.sender

\* Two inputs end the process, and no others: ERC721 calldata that the
\* constructors did not make, with lengths beyond it, and the automatic
\* processor on a fungible transfer to a chain that is not an EVM chain. The
\* length checks of the other handlers suffice.
PanicsOnlyOn ==
    stage = "panic" =>
        \/ in.sender = "nonFungible" /\ in.kind = "raw"
        \/ in.processor = "auto" /\ NotEVM \in {in.from, in.to}

===============================================================================
