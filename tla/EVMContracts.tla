----------------------------- MODULE EVMContracts -----------------------------
(***************************************************************************)
(* The contracts of one EVM chain, as the bindings in src/ use them: the   *)
(* bridge, its handlers, the tokens and the asset store. The storage is a  *)
(* function on keys <<field, contract, ...>>. One account, the sender, is  *)
(* the administrator of everything it deployed; an NFT contract has one    *)
(* token, and an ERC20 transfer moves one unit.                            *)
(***************************************************************************)
EXTENDS Integers

CONSTANTS
    Sender,         \* the account of the key that signs
    Relayers,       \* accounts
    Zero            \* the zero address

Get(s, key, default) == IF key \in DOMAIN s THEN s[key] ELSE default
Put(s, key, value) == [k \in DOMAIN s \cup {key} |-> IF k = key THEN value ELSE s[k]]

Kind(s, a) == Get(s, <<"code", a>>, "none")
Has(s, key) == Get(s, key, FALSE)

\* Handler h takes orders from bridge b.
Answers(s, h, b, kinds) == Kind(s, h) \in kinds /\ Get(s, <<"bridge", h>>, Zero) = b

TokenHandlers == {"erc20Handler", "erc721Handler"}

\* Where the ERC20 or ERC721 handler of resource rid finds its token.
TokenOf(s, b, rid) ==
    LET h == Get(s, <<"resource", b, rid>>, Zero) IN Get(s, <<"token", h, rid>>, Zero)

\* A handler can take what is deposited: it burns or locks what the sender
\* holds and has approved, or calls the contract of a generic resource.
Takes(s, h, t) ==
    CASE Kind(s, h) = "erc20Handler"  -> /\ Kind(s, t) = "erc20"
                                         /\ Get(s, <<"balance", t, Sender>>, 0) > 0
                                         /\ Get(s, <<"allowance", t, h>>, 0) > 0
      [] Kind(s, h) = "erc721Handler" -> /\ Kind(s, t) = "erc721"
                                         /\ Get(s, <<"owner", t>>, Zero) = Sender
                                         /\ Get(s, <<"approved", t>>, Zero) = h
      [] Kind(s, h) = "generic"       -> Kind(s, t) = "assetStore"
      [] OTHER                        -> FALSE

\* What it gives out again when a proposal is executed: a burnt token must be
\* minted anew, which only a minter can.
Gives(s, h, t) ==
    Kind(s, h) \in TokenHandlers /\ Has(s, <<"burnable", h, t>>) => Has(s, <<"minter", t, h>>)

Transferred(s, h, t) ==
    CASE Kind(s, h) = "erc20Handler" ->
            LET paid == Put(Put(s, <<"balance", t, Sender>>, Get(s, <<"balance", t, Sender>>, 0) - 1),
                            <<"allowance", t, h>>, Get(s, <<"allowance", t, h>>, 0) - 1)
            IN  IF Has(s, <<"burnable", h, t>>) THEN paid
                ELSE Put(paid, <<"balance", t, h>>, Get(s, <<"balance", t, h>>, 0) + 1)
      [] Kind(s, h) = "erc721Handler" ->
            Put(s, <<"owner", t>>, IF Has(s, <<"burnable", h, t>>) THEN Zero ELSE h)
      [] OTHER -> s

\* The contract at m.to executes method m.fn; otherwise it reverts.
Accepts(s, m) ==
    LET to == m.to
        a == m.args
        isBridge == Kind(s, to) = "bridge"
    IN
    CASE m.fn = "adminAddRelayer"         -> isBridge /\ ~Has(s, <<"relayer", to, a[1]>>)
      [] m.fn = "adminChangeRelayerThreshold" -> isBridge
      [] m.fn = "adminSetResource"        -> isBridge /\ Answers(s, a[1], to, TokenHandlers)
      [] m.fn = "adminSetGenericResource" -> isBridge /\ Answers(s, a[1], to, {"generic"})
      [] m.fn = "adminSetBurnable"        -> /\ isBridge /\ Answers(s, a[1], to, TokenHandlers)
                                             /\ \E rid \in {"r0", "r2"} :
                                                    Get(s, <<"token", a[1], rid>>, Zero) = a[2]
      [] m.fn = "adminSetDepositNonce"    -> isBridge /\ a[2] > Get(s, <<"deposits", to, a[1]>>, 0)
      [] m.fn = "adminPauseTransfers"     -> isBridge /\ ~Has(s, <<"paused", to>>)
      [] m.fn = "adminUnpauseTransfers"   -> isBridge /\ Has(s, <<"paused", to>>)
      [] m.fn = "adminWithdraw"           -> /\ isBridge /\ Answers(s, a[1], to, {"erc20Handler"})
                                             /\ Get(s, <<"balance", a[2], a[1]>>, 0) > 0
      [] m.fn = "deposit"                 -> /\ isBridge /\ ~Has(s, <<"paused", to>>)
                                             /\ Takes(s, Get(s, <<"resource", to, a[1]>>, Zero),
                                                      TokenOf(s, to, a[1]))
      [] m.fn = "voteProposal"            -> /\ isBridge /\ Has(s, <<"relayer", to, Sender>>)
                                             /\ ~Has(s, <<"voted", to>>)
      [] m.fn = "mint"                    -> /\ Has(s, <<"minter", to, Sender>>)
                                             /\ Kind(s, to) = "erc721" =>
                                                    <<"owner", to>> \notin DOMAIN s
      [] m.fn = "approve"                 -> \/ Kind(s, to) = "erc20"
                                             \/ Get(s, <<"owner", to>>, Zero) = Sender
      [] m.fn = "grantRole"               -> Kind(s, to) \in {"erc20", "erc721"}

Applied(s, m) ==
    LET to == m.to
        a == m.args
    IN
    CASE m.fn = "adminAddRelayer"         -> Put(s, <<"relayer", to, a[1]>>, TRUE)
      [] m.fn = "adminChangeRelayerThreshold" -> Put(s, <<"threshold", to>>, m.n)
      [] m.fn \in {"adminSetResource", "adminSetGenericResource"} ->
            Put(Put(s, <<"resource", to, a[2]>>, a[1]), <<"token", a[1], a[2]>>, a[3])
      [] m.fn = "adminSetBurnable"        -> Put(s, <<"burnable", a[1], a[2]>>, TRUE)
      [] m.fn = "adminSetDepositNonce"    -> Put(s, <<"deposits", to, a[1]>>, a[2])
      [] m.fn = "adminPauseTransfers"     -> Put(s, <<"paused", to>>, TRUE)
      [] m.fn = "adminUnpauseTransfers"   -> Put(s, <<"paused", to>>, FALSE)
      [] m.fn = "adminWithdraw"           ->
            Put(s, <<"balance", a[2], a[1]>>, s[<<"balance", a[2], a[1]>>] - 1)
      [] m.fn = "deposit"                 ->
            Put(Transferred(s, s[<<"resource", to, a[1]>>], TokenOf(s, to, a[1])),
                <<"deposits", to, a[2]>>, Get(s, <<"deposits", to, a[2]>>, 0) + 1)
      [] m.fn = "voteProposal"            -> Put(s, <<"voted", to>>, TRUE)
      [] m.fn = "mint"                    ->
            IF Kind(s, to) = "erc20"
            THEN Put(s, <<"balance", to, a[1]>>, Get(s, <<"balance", to, a[1]>>, 0) + m.n)
            ELSE Put(s, <<"owner", to>>, a[1])
      [] m.fn = "approve"                 ->
            IF Kind(s, to) = "erc20" THEN Put(s, <<"allowance", to, a[1]>>, m.n)
            ELSE Put(s, <<"approved", to>>, a[1])
      [] m.fn = "grantRole"               -> Put(s, <<"minter", to, a[1]>>, TRUE)

\* A new contract of a kind at address a: a bridge knows its relayers and the
\* threshold, a handler its bridge, a token makes who deploys it a minter.
Created(s, a, kind, bridge, threshold, relayers) ==
    LET coded == Put(s, <<"code", a>>, kind)
        known == {<<"relayer", a, r>> : r \in relayers}
    IN
    CASE kind = "bridge" ->
            LET led == Put(coded, <<"threshold", a>>, threshold)
            IN  [k \in DOMAIN led \cup known |-> IF k \in known THEN TRUE ELSE led[k]]
      [] kind \in {"erc20Handler", "erc721Handler", "generic"} -> Put(coded, <<"bridge", a>>, bridge)
      [] kind \in {"erc20", "erc721"} -> Put(coded, <<"minter", a, Sender>>, TRUE)
      [] OTHER -> coded

\* crypto.CreateAddress: the address follows from the sender and the nonce.
CreateAddress(nonce) == nonce + 1

===============================================================================
