-------------------------------- MODULE EVMCLI --------------------------------
(***************************************************************************)
(* The EVM command line: deploy, local-setup, and the admin, bridge,       *)
(* erc20, erc721, centrifuge, account and utils commands. A command checks *)
(* its flags and is then a sequence of steps: a contract deployed, a       *)
(* transaction executed, a contract called, a node asked. It ends at the   *)
(* first step that fails, and nothing is undone. One key signs everything; *)
(* ether is not modelled.                                                  *)
(***************************************************************************)
EXTENDS EVMContracts, Sequences, FiniteSets

CONSTANTS
    Bad,            \* a text that is no hex address
    Unset,          \* a flag that is not given
    Worked,         \* the chains single commands are run on
    Requests,       \* sets of contracts asked of deploy
    Units,          \* tokens that local-setup mints
    Width,          \* domain ids are taken modulo Width (2^8)
    Destinations,   \* integers given as destination
    MaxCommands,    \* bound on the commands run on fresh chains
    MaxLater,       \* bound on the commands run on chains set up before
    MaxFaults       \* bound on requests to a node that fail

Handlers == {"erc20Handler", "erc721Handler", "generic"}
Kinds == Handlers \cup {"bridge", "erc20", "erc721", "assetStore"}

\* An account is neither a contract nor the name of one.
ASSUME CLIAssumption ==
    /\ Zero \notin Relayers /\ Sender # Zero /\ {Bad, Unset} \cap (Relayers \cup {Sender, Zero}) = {}
    /\ \A a \in Relayers \cup {Sender, Zero} : a \notin Nat /\ a \notin Kinds
    /\ IsFiniteSet(Relayers) /\ Relayers # {}
    /\ Units \in Nat \ {0} /\ Width \in Nat \ {0} /\ Destinations \subseteq Nat
    /\ Worked \subseteq {1, 2}
    /\ Requests \subseteq SUBSET (Kinds \ {"assetStore"})
    /\ MaxCommands \in Nat /\ MaxLater \in Nat /\ MaxFaults \in Nat

Chains == {1, 2}

VARIABLES
    chain,      \* per chain: the sender's nonce, and the storage of the contracts
    run,        \* the command that runs or ran last
    used        \* commands left to run, whether local-setup may be one, faults met

vars == <<chain, run, used>>

NoEnv == [c \in Chains |-> <<>>]

-------------------------------------------------------------------------------
(* Steps, and the contract bindings that make them                         *)

Step(c, do, to, fn, args, n) ==
    [chain |-> c, do |-> do, to |-> to, fn |-> fn, args |-> args, n |-> n]

Transaction(c, to, fn, args) == Step(c, "transact", to, fn, args, 0)
Deployment(c, kind) == Step(c, "deploy", kind, "", {}, 0)
BridgeDeployment(c, threshold, relayers) ==
    Step(c, "deploy", "bridge", "", relayers, threshold)
View(c, to) == Step(c, "call", to, "", <<>>, 0)
Ask(c) == Step(c, "ask", "", "", <<>>, 0)

AddRelayer(c, b, r) == Transaction(c, b, "adminAddRelayer", <<r>>)
SetThresholdInput(c, b, n) == Step(c, "transact", b, "adminChangeRelayerThreshold", <<>>, n)
AdminSetResource(c, b, h, rid, t) == Transaction(c, b, "adminSetResource", <<h, rid, t>>)
AdminSetGenericResource(c, b, h, rid, t) ==
    Transaction(c, b, "adminSetGenericResource", <<h, rid, t>>)
SetBurnableInput(c, b, h, t) == Transaction(c, b, "adminSetBurnable", <<h, t>>)
SetDepositNonce(c, b, domain, n) == Transaction(c, b, "adminSetDepositNonce", <<domain, n>>)
Pause(c, b) == Transaction(c, b, "adminPauseTransfers", <<>>)
Unpause(c, b) == Transaction(c, b, "adminUnpauseTransfers", <<>>)
Withdraw(c, b, h, t) == Transaction(c, b, "adminWithdraw", <<h, t>>)
Deposit(c, b, rid, domain) == Transaction(c, b, "deposit", <<rid, domain>>)
VoteProposal(c, b) == Transaction(c, b, "voteProposal", <<>>)
SimulateVoteProposal(c, b) == Step(c, "call", b, "voteProposal", <<>>, 0)
IsRelayer(c, b) == View(c, b)
GetThreshold(c, b) == View(c, b)
\* ERC20: the role is asked of the token before it is granted.
GetBalance(c, t) == View(c, t)
MintTokens(c, t, to, n) == Step(c, "transact", t, "mint", <<to>>, n)
ApproveTokens(c, t, to, n) == Step(c, "transact", t, "approve", <<to>>, n)
AddMinter(c, t, minter) == <<View(c, t), Transaction(c, t, "grantRole", <<minter>>)>>
\* ERC721
Owner(c, t) == View(c, t)
Mint(c, t, to) == Step(c, "transact", t, "mint", <<to>>, 1)
Approve(c, t, to) == Step(c, "transact", t, "approve", <<to>>, 1)
AddMinter721(c, t, minter) == <<View(c, t), Transaction(c, t, "grantRole", <<minter>>)>>
\* Asset store
IsCentrifugeAssetStored(c, a) == View(c, a)

-------------------------------------------------------------------------------
(* Commands begin                                                          *)

\* The flags are checked before anything else: an address that is none
\* refuses the command.
Begin(cmd, texts, prepare, steps, env) ==
    /\ run.result # "running" /\ used.left > 0
    /\ used' = [used EXCEPT !.left = @ - 1]
    /\ run' = [cmd |-> cmd, prepare |-> prepare, pc |-> 1, env |-> env, start |-> chain,
               steps |-> IF Bad \in texts THEN <<>> ELSE steps,
               result |-> IF Bad \in texts THEN "refused" ELSE "running"]
    /\ UNCHANGED chain

Command(cmd, texts, steps) == \E prepare \in BOOLEAN : Begin(cmd, texts, prepare, steps, NoEnv)

\* What an operator gives for a contract of a kind: no address, the address
\* of an account, or such a contract.
Given(c, kind) ==
    {Bad, Sender} \cup {k[2] : k \in {key \in DOMAIN chain[c].store :
                                          key[1] = "code" /\ chain[c].store[key] = kind}}

TokenKinds == {<<"erc20Handler", "erc20", "r0">>, <<"erc721Handler", "erc721", "r2">>}

If(kind, asked) == IF kind \in asked THEN <<kind>> ELSE <<>>

\* Fault: handlers are deployed before the bridge.
DeploymentsHandlersFirst(asked) ==
    If("erc20Handler", asked) \o If("erc721Handler", asked) \o If("generic", asked)
    \o If("bridge", asked) \o If("erc20", asked) \o If("erc721", asked)

\* ValidateDeployFlags: what was asked, in this order.
Deployments(asked) ==
    If("bridge", asked) \o If("erc20Handler", asked) \o If("erc721Handler", asked)
    \o If("generic", asked) \o If("erc20", asked) \o If("erc721", asked)

\* deploy. Nothing asked, an invalid relayer, or a handler asked without a
\* bridge and without --bridge-address refuses it; an invalid bridge address
\* is read as zero. --prepare makes no difference.
DeployCLI(c) ==
    \E asked \in Requests, relayer \in {Bad} \cup Relayers, given \in Given(c, "bridge") \cup {Unset} :
        LET refused == \/ asked = {}
                       \/ given = Unset /\ "bridge" \notin asked /\ asked \cap Handlers # {}
            bridge == IF given \in {Unset, Bad} THEN Zero ELSE given
            order == Deployments(asked)
        IN  Begin("deploy", {relayer} \cup (IF refused THEN {Bad} ELSE {}), FALSE,
                  [i \in DOMAIN order |-> IF order[i] = "bridge" THEN BridgeDeployment(c, 1, {relayer})
                                           ELSE Deployment(c, order[i])],
                  [NoEnv EXCEPT ![c] = Put(<<>>, "bridge", bridge)])

\* PrepareErc20EVME2EEnv; names stand for the addresses deployed before.
PrepareErc20(c) ==
    <<AdminSetResource(c, "bridge", "erc20Handler", "r0", "erc20"),
      MintTokens(c, "erc20", Sender, Units), ApproveTokens(c, "erc20", "erc20Handler", Units)>>
    \o AddMinter(c, "erc20", "erc20Handler")
    \o <<SetBurnableInput(c, "bridge", "erc20Handler", "erc20")>>

\* Fault: the ERC721 handler is made no minter.
PrepareErc721NoMinter(c) ==
    <<AdminSetResource(c, "bridge", "erc721Handler", "r2", "erc721"),
      SetBurnableInput(c, "bridge", "erc721Handler", "erc721")>>

\* PrepareErc721EVME2EEnv.
PrepareErc721(c) ==
    <<AdminSetResource(c, "bridge", "erc721Handler", "r2", "erc721")>>
    \o AddMinter721(c, "erc721", "erc721Handler")
    \o <<SetBurnableInput(c, "bridge", "erc721Handler", "erc721")>>

\* PrepareGenericEVME2EEnv.
PrepareGeneric(c) == <<AdminSetGenericResource(c, "bridge", "generic", "r1", "assetStore")>>

DeployErc721(c) == <<Deployment(c, "erc721"), Deployment(c, "erc721Handler")>>
DeployErc20(c) == <<Deployment(c, "erc20"), Deployment(c, "erc20Handler")>>
DeployGeneric(c) == <<Deployment(c, "assetStore"), Deployment(c, "generic")>>

\* PrepareLocalEVME2EEnv, with threshold 1.
PrepareLocal(c) ==
    <<BridgeDeployment(c, 1, Relayers)>> \o DeployErc721(c) \o DeployErc20(c) \o DeployGeneric(c)
    \o PrepareErc20(c) \o PrepareErc721(c) \o PrepareGeneric(c)

\* local-setup, one chain after the other. (A bound: only where the chains were
\* fresh at the start.)
LocalSetup == used.fresh /\ Begin("local-setup", {}, FALSE, PrepareLocal(1) \o PrepareLocal(2), NoEnv)

\* admin commands
AddRelayerCmd(c) ==
    \E b \in Given(c, "bridge"), r \in {Bad} \cup Relayers : Command("add-relayer", {b, r}, <<AddRelayer(c, b, r)>>)
SetThresholdCmd(c) ==
    \E b \in Given(c, "bridge"), n \in 1..2 : Command("set-threshold", {b}, <<SetThresholdInput(c, b, n)>>)
SetDepositNonceCmd(c) ==
    \E b \in Given(c, "bridge"), n \in 0..2 :
        Command("set-deposit-nonce", {b}, <<SetDepositNonce(c, b, 3 - c, n)>>)
PauseCmd(c) == \E b \in Given(c, "bridge") : Command("pause", {b}, <<Pause(c, b)>>)
UnpauseCmd(c) == \E b \in Given(c, "bridge") : Command("unpause", {b}, <<Unpause(c, b)>>)
IsRelayerCmd(c) == \E b \in Given(c, "bridge") : Command("is-relayer", {b}, <<IsRelayer(c, b)>>)
GetThresholdCmd(c) == \E b \in Given(c, "bridge") : Command("get-threshold", {b}, <<GetThreshold(c, b)>>)
\* withdraw takes an amount; a token id is refused, because no amount is parsed
\* as one all the same.
WithdrawCmd(c) ==
    \E b \in Given(c, "bridge"), h \in Given(c, "erc20Handler"), t \in Given(c, "erc20"),
       amount \in {Unset, 1} :
        Command("withdraw", {b, h, t} \cup (IF amount = Unset THEN {Bad} ELSE {}),
                <<Withdraw(c, b, h, t)>>)
\* These check their flags and do nothing.
AddAdmin(c) == \E b \in Given(c, "bridge") : Command("add-admin", {b}, <<>>)
RemoveAdmin(c) == \E b \in Given(c, "bridge") : Command("remove-admin", {b}, <<>>)
RemoveRelayer(c) == \E b \in Given(c, "bridge") : Command("remove-relayer", {b}, <<>>)
SetFee(c) == \E b \in Given(c, "bridge") : Command("set-fee", {b}, <<>>)
CancelProposal(c) == \E b \in Given(c, "bridge") : Command("cancel-proposal", {b}, <<>>)
QueryProposal(c) == \E b \in Given(c, "bridge") : Command("query-proposal", {b}, <<>>)
QueryResource(c) == \E h \in Given(c, "erc20Handler") : Command("query-resource", {h}, <<>>)

\* bridge commands
RegisterResourceCmd(c) ==
    \E b \in Given(c, "bridge"), k \in TokenKinds :
        \E h \in Given(c, k[1]), t \in Given(c, k[2]) :
            Command("register-resource", {b, h, t}, <<AdminSetResource(c, b, h, k[3], t)>>)
RegisterGenericResource(c) ==
    \E b \in Given(c, "bridge"), h \in Given(c, "generic"), t \in Given(c, "assetStore") :
        Command("register-generic-resource", {b, h, t}, <<AdminSetGenericResource(c, b, h, "r1", t)>>)
SetBurnCmd(c) ==
    \E b \in Given(c, "bridge"), k \in TokenKinds :
        \E h \in Given(c, k[1]), t \in Given(c, k[2]) :
            Command("set-burn", {b, h, t}, <<SetBurnableInput(c, b, h, t)>>)
VoteProposalCmd(c) ==
    \E b \in Given(c, "bridge") :
        Command("vote-proposal", {b}, <<SimulateVoteProposal(c, b), VoteProposal(c, b)>>)

\* erc20 commands
DepositCmd(c) ==
    \E b \in Given(c, "bridge") :
        Command("erc20 deposit", {b}, <<Deposit(c, b, "r0", (3 - c) % Width)>>)
MintCmd(c) ==
    \E t \in Given(c, "erc20"), to \in Given(c, "erc20Handler") :
        Command("erc20 mint", {t, to}, <<MintTokens(c, t, to, 1)>>)
ApproveCmd(c) ==
    \E t \in Given(c, "erc20"), h \in Given(c, "erc20Handler") :
        Command("erc20 approve", {t, h}, <<ApproveTokens(c, t, h, 1)>>)
AddMinterCmd(c) ==
    \E t \in Given(c, "erc20"), h \in Given(c, "erc20Handler") :
        Command("erc20 add-minter", {t, h}, AddMinter(c, t, h))
BalanceCmd(c) == \E t \in Given(c, "erc20") : Command("balance", {t}, <<GetBalance(c, t)>>)

\* erc721 commands; the destination is an integer cut to eight bits.
Deposit721Cmd(c) ==
    \E b \in Given(c, "bridge"), d \in Destinations :
        Command("erc721 deposit", {b}, <<Deposit(c, b, "r2", d % Width)>>)
Mint721Cmd(c) ==
    \E t \in Given(c, "erc721"), to \in Given(c, "erc721Handler") :
        Command("erc721 mint", {t, to}, <<Mint(c, t, to)>>)
Approve721Cmd(c) ==
    \E t \in Given(c, "erc721"), h \in Given(c, "erc721Handler") :
        Command("erc721 approve", {t, h}, <<Approve(c, t, h)>>)
AddMinter721Cmd(c) ==
    \E t \in Given(c, "erc721"), h \in Given(c, "erc721Handler") :
        Command("erc721 add-minter", {t, h}, AddMinter721(c, t, h))
OwnerCmd(c) == \E t \in Given(c, "erc721") : Command("owner", {t}, <<Owner(c, t)>>)

\* get-allowance checks flags it does not have, and so is always refused.
GetAllowanceCmd == Command("get-allowance", {Bad}, <<>>)

\* The asset store, the sender's account, and the utils.
DeployCentrifugeAssetStoreCmd(c) ==
    Command("centrifuge deploy", {}, <<Deployment(c, "assetStore")>>)
GetHashCmd(c) == \E a \in Given(c, "assetStore") : 
    Command("get-hash", {a}, <<IsCentrifugeAssetStored(c, a)>>)
\* transfer asks for confirmation; declined, it ends well.
TransferBaseCurrency(c) ==
    \E to \in {Bad} \cup Relayers, confirmed \in BOOLEAN :
        Command("transfer", {to}, IF confirmed THEN <<Transaction(c, to, "", <<>>)>> ELSE <<>>)
SimulateCmd(c) == \E from \in {Bad, Sender} : Command("simulate", {from}, <<Ask(c), Ask(c)>>)
HashListCmd(c) == \E blocks \in 0..1 : Command("hash-list", {}, [i \in 1..blocks |-> Ask(c)])

-------------------------------------------------------------------------------
(* Commands run                                                            *)

Now == run.steps[run.pc]
Running(do) == run.result = "running" /\ run.pc <= Len(run.steps) /\ Now.do = do

\* Names of contracts the command deployed become their addresses.
Named(e, x) == IF x \in DOMAIN e THEN e[x] ELSE x
ResolvedIn(e, m) ==
    [to |-> Named(e, m.to), fn |-> m.fn, n |-> m.n,
     args |-> [i \in DOMAIN m.args |-> Named(e, m.args[i])]]
Resolved(m) == ResolvedIn(run.env[m.chain], m)

Store == chain[Now.chain].store
Hit == Kind(Store, Resolved(Now).to) # "none"

Proceed == run' = [run EXCEPT !.pc = @ + 1] /\ UNCHANGED used
End(result) == run' = [run EXCEPT !.result = result]
Mined(store) ==
    chain' = [chain EXCEPT ![Now.chain] = [nonce |-> @.nonce + 1, store |-> store]]

\* With --prepare the calldata is printed and counts as sent.
Prepared == Running("transact") /\ run.prepare /\ Proceed /\ UNCHANGED chain

\* ExecuteTransaction: the receipt came and is a success. An address without
\* code accepts anything.
Executed ==
    /\ Running("transact") /\ ~run.prepare
    /\ \/ ~Hit /\ Mined(Store)
       \/ Hit /\ Accepts(Store, Resolved(Now)) /\ Mined(Applied(Store, Resolved(Now)))
    /\ Proceed

\* Fault: a transaction that reverted is taken for executed.
RevertedUnseen ==
    /\ Running("transact") /\ ~run.prepare /\ Hit /\ ~Accepts(Store, Resolved(Now))
    /\ Mined(Store) /\ Proceed

\* The receipt says that the transaction reverted.
Reverted ==
    /\ Running("transact") /\ ~run.prepare /\ Hit /\ ~Accepts(Store, Resolved(Now))
    /\ Mined(Store) /\ End("error") /\ UNCHANGED used

\* CallContract: with no code the answer is empty and an error; a simulated
\* vote fails when the vote would.
Called ==
    /\ Running("call")
    /\ IF Hit /\ (Now.fn = "voteProposal" => Accepts(Store, Resolved(Now)))
       THEN Proceed ELSE End("error") /\ UNCHANGED used
    /\ UNCHANGED chain

Asked == Running("ask") /\ Proceed /\ UNCHANGED chain

NewContract ==
    Created(Store, CreateAddress(chain[Now.chain].nonce), Now.to,
            Named(run.env[Now.chain], "bridge"), Now.n, Now.args)

\* Only deploy can have no bridge; local-setup has deployed one.
NoBridge == run.cmd = "deploy" /\ Now.to = "generic" /\ run.env[Now.chain]["bridge"] = Zero

\* DeployContract: the address is computed from the transaction's nonce.
Deployed ==
    /\ Running("deploy") /\ ~run.prepare /\ ~NoBridge
    /\ Mined(NewContract)
    /\ run' = [run EXCEPT !.pc = @ + 1,
                          !.env[Now.chain] =
                              Put(@, Now.to, CreateAddress(chain[Now.chain].nonce))]
    /\ UNCHANGED used

\* DeployCLI returns a nil error when the generic handler has no bridge.
GenericWithoutBridge == Running("deploy") /\ NoBridge /\ End("ok") /\ UNCHANGED <<chain, used>>

\* With --prepare no transaction is found under the empty hash.
DeployPrepared == Running("deploy") /\ run.prepare /\ End("error") /\ UNCHANGED <<chain, used>>

\* A request to the node fails: nothing was sent.
NodeFails ==
    /\ run.result = "running" /\ run.pc <= Len(run.steps) /\ used.faults < MaxFaults
    /\ ~(run.prepare /\ Now.do = "transact")
    /\ End("error") /\ used' = [used EXCEPT !.faults = @ + 1] /\ UNCHANGED chain

\* The transaction was sent, but its receipt was not seen in time or the
\* deployment not found: an error, and the transaction is mined all the same.
MinedUnseen ==
    /\ run.result = "running" /\ run.pc <= Len(run.steps) /\ used.faults < MaxFaults
    /\ ~run.prepare
    /\ \/ Now.do = "deploy" /\ ~NoBridge /\ Mined(NewContract)
       \/ Now.do = "transact" /\ Hit /\ Accepts(Store, Resolved(Now))
          /\ Mined(Applied(Store, Resolved(Now)))
    /\ End("error") /\ used' = [used EXCEPT !.faults = @ + 1]

Finish ==
    /\ run.result = "running" /\ run.pc > Len(run.steps)
    /\ End("ok") /\ UNCHANGED <<chain, used>>

-------------------------------------------------------------------------------
\* Step m, which succeeds, when the chain's next contract has address a.
Performed(s, a, m, env) ==
    CASE m.do = "deploy"   -> Created(s, a, m.to, env["bridge"], m.n, m.args)
      [] m.do = "transact" -> Applied(s, ResolvedIn(env, m))
      [] m.do = "call"     -> s

\* A chain as local-setup and a mint of the ERC721 token left it: the contracts
\* have the first addresses.
SetUp(c) ==
    LET steps == PrepareLocal(c) \o <<Mint(c, "erc721", Sender)>>
        creations == {i \in DOMAIN steps : steps[i].do = "deploy"}
        env == [k \in {steps[i].to : i \in creations} |->
                    CHOOSE i \in creations : steps[i].to = k]
        store[i \in 0..Len(steps)] ==
            IF i = 0 THEN <<>> ELSE Performed(store[i - 1], i, steps[i], env)
    IN  [nonce |-> Cardinality({i \in DOMAIN steps : steps[i].do \in {"deploy", "transact"}}),
         store |-> store[Len(steps)]]

Init ==
    /\ \/ /\ chain = [c \in Chains |-> [nonce |-> 0, store |-> <<>>]]
          /\ used = [left |-> MaxCommands, fresh |-> TRUE, faults |-> 0]
       \/ /\ chain = [c \in Chains |-> SetUp(c)]
          /\ used = [left |-> MaxLater, fresh |-> FALSE, faults |-> 0]
    /\ run = [cmd |-> "", prepare |-> FALSE, steps |-> <<>>, pc |-> 1, env |-> NoEnv,
              result |-> "ok", start |-> chain]

AdminAndBridge(c) ==
    \/ AddRelayerCmd(c) \/ SetThresholdCmd(c) \/ SetDepositNonceCmd(c) \/ PauseCmd(c)
    \/ UnpauseCmd(c) \/ IsRelayerCmd(c) \/ GetThresholdCmd(c) \/ WithdrawCmd(c)
    \/ AddAdmin(c) \/ RemoveAdmin(c) \/ RemoveRelayer(c) \/ SetFee(c)
    \/ CancelProposal(c) \/ QueryProposal(c) \/ QueryResource(c)
    \/ RegisterResourceCmd(c) \/ RegisterGenericResource(c) \/ SetBurnCmd(c)
    \/ VoteProposalCmd(c)

TokensAndOthers(c) ==
    \/ DepositCmd(c) \/ MintCmd(c) \/ ApproveCmd(c) \/ AddMinterCmd(c) \/ BalanceCmd(c)
    \/ Deposit721Cmd(c) \/ Mint721Cmd(c) \/ Approve721Cmd(c) \/ AddMinter721Cmd(c)
    \/ OwnerCmd(c) \/ DeployCentrifugeAssetStoreCmd(c) \/ GetHashCmd(c)
    \/ TransferBaseCurrency(c) \/ SimulateCmd(c) \/ HashListCmd(c)

Next ==
    \/ LocalSetup \/ GetAllowanceCmd
    \/ \E c \in Worked : DeployCLI(c) \/ AdminAndBridge(c) \/ TokensAndOthers(c)
    \/ Prepared \/ Executed \/ Reverted \/ Called \/ Asked
    \/ Deployed \/ GenericWithoutBridge \/ DeployPrepared
    \/ NodeFails \/ MinedUnseen \/ Finish

Spec == Init /\ [][Next]_vars

-------------------------------------------------------------------------------
(* Properties                                                              *)

Succeeded(cmd) == run.cmd = cmd /\ run.result = "ok"

\* Resource rid leads from the bridge through a handler that answers to it to
\* the contract deployed for it, and what is deposited can be given out again.
Bridged(c, handler, target, rid) ==
    LET s == chain[c].store
        e == run.env[c]
    IN  /\ Get(s, <<"resource", e["bridge"], rid>>, Zero) = e[handler]
        /\ Answers(s, e[handler], e["bridge"], {handler})
        /\ TokenOf(s, e["bridge"], rid) = e[target]
        /\ Kind(s, e[target]) = target
        /\ Gives(s, e[handler], e[target])

\* When local-setup reports success, whatever earlier attempts left behind, all
\* three resources are bridged on both chains under the same ids, the relayers
\* can reach the threshold, and an ERC20 deposit is accepted at once.
SetupBridges ==
    Succeeded("local-setup") => \A c \in Chains :
        LET s == chain[c].store
            b == run.env[c]["bridge"]
        IN  /\ Bridged(c, "erc20Handler", "erc20", "r0")
            /\ Bridged(c, "erc721Handler", "erc721", "r2")
            /\ Bridged(c, "generic", "assetStore", "r1")
            /\ Accepts(s, Resolved(Deposit(c, "bridge", "r0", "")))
            /\ s[<<"threshold", b>>] <= Cardinality({r \in Relayers : Has(s, <<"relayer", b, r>>)})

\* When deploy reports success and has a bridge, its own or a given one, every
\* contract asked for exists and every handler answers to that bridge.
DeployBinds ==
    Succeeded("deploy") => \A i \in DOMAIN run.steps :
        LET m == run.steps[i]
            e == run.env[m.chain]
        IN  e["bridge"] # Zero =>
                /\ m.to \in DOMAIN e /\ Kind(chain[m.chain].store, e[m.to]) = m.to
                /\ m.to \in Handlers =>
                       Get(chain[m.chain].store, <<"bridge", e[m.to]>>, Zero) = e["bridge"]

Counted == {"deposit", "mint", "adminWithdraw"}
Sends(m) == m.do \in {"transact", "deploy"}

\* The storage at the end shows that step m was taken.
Effective(m) ==
    LET r == Resolved(m)
        e == run.env[m.chain]
        s == chain[m.chain].store
    IN  IF m.do = "deploy" THEN m.to \in DOMAIN e /\ Kind(s, e[m.to]) = m.to
        ELSE IF m.fn \in Counted THEN s # run.start[m.chain].store
        ELSE Applied(s, r) = s

\* It is a transaction to an address without code: a success that did nothing.
Idle(m) ==
    /\ m.do = "transact" /\ Kind(run.start[m.chain].store, Resolved(m).to) = "none"
    /\ \A c \in Chains : chain[c].store = run.start[c].store

\* It is a deployment at or behind the generic handler that has no bridge.
CutOff(i) ==
    LET m == run.steps[i] IN
    /\ run.cmd = "deploy" /\ run.env[m.chain]["bridge"] = Zero
    /\ \E j \in 1..i : run.steps[j].to = "generic"

\* Commands that only ask; commands with an empty body, although the help of the
\* first five promises a change ("removes an existing relayer").
Asking == {"is-relayer", "get-threshold", "balance", "owner", "get-hash", "simulate", "hash-list"}
Stubs ==
    {"remove-relayer", "add-admin", "remove-admin", "set-fee", "cancel-proposal",
     "query-proposal", "query-resource"}

\* What a reported success is worth. At the end everything the command was to
\* send shows in the storage of the contracts, with two exceptions: a
\* transaction to an address without code, which leaves all storage as it was
\* (ExecuteTransaction looks at the receipt only), and what deploy was to make
\* from the generic handler on when it has no bridge. A success with nothing sent
\* left the chains as they were, and only commands that ask, the empty ones and
\* a declined transfer report one. With --prepare nothing changed at all.
Reported ==
    run.result = "ok" =>
        IF run.prepare THEN chain = run.start
        ELSE /\ \A i \in DOMAIN run.steps : Sends(run.steps[i]) =>
                    Idle(run.steps[i]) \/ CutOff(i) \/ Effective(run.steps[i])
             /\ (\A i \in DOMAIN run.steps : ~Sends(run.steps[i])) =>
                    chain = run.start /\ run.cmd \in Asking \cup Stubs \cup {"", "transfer"}

===============================================================================
