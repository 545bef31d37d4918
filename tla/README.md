# TLA+ verification of the relayer

This directory holds TLA+ models of the relayer framework in `src/`, the TLC
runs that check them on small instances, and TLAPS proofs of the safety
properties that matter most. `PROJECT.json` is the index: components, runs,
mutants, the map from definitions to source lines, findings, hazards, theorems.

## 1. The system

A relayer process connects several chains ("domains"). A user's deposit on one
chain becomes a `Deposit` log; every relayer reads the log, turns it into a
message and votes for a proposal on the bridge contract of the destination
chain. When enough relayers have voted, the contract executes the proposal.

| Part | State | Operations | Talks to |
|---|---|---|---|
| `relayer/relayer.go` | registry of chains | `Start`, `route`, `addRelayedChain` | chains, through one unbuffered channel and `Write` |
| `chains/evm/chain.go` | none of its own | `PollEvents`, `Write` | listener's channel, relayer's channel, block store, voter |
| `chains/evm/listener` | `startBlock`, the current window | `ListenToEvents` (a goroutine per domain) | node, event handlers, block store |
| `store/blockstore.go`, `lvldb` | last scanned block per domain | `StoreBlock`, `GetLastStoredBlock`, `GetStartBlock` | leveldb |
| `chains/evm/listener/event-handler.go` | handler per resource | `HandleEvent`, three decoders | bridge contract calls |
| `chains/evm/voter/voter.go` | `pendingProposalVotes` (a shared map) | `VoteProposal`, `shouldVoteForProposal`, `repetitiveSimulateVote`, the mempool subscription | bridge contract, transactor, node |
| `chains/evm/voter/message-handler.go` | handler per resource | `HandleMessage`, encoders | bridge contract calls |
| `calls/transactor/signAndSend` | nonce lock in `EVMClient` | `Transact` | node |
| `calls/transactor/itx`, `store/noncestore.go` | nonce in memory and in the store, a mutex | `Transact`, `UnsafeNonce`, `UnlockNonce` | relay service, forwarder contract |
| `calls/evmgaspricer`, `evmtransaction`, `calls/util.go` | none | price and amount arithmetic | node |
| `relayer/messageprocessors` | none | amount arithmetic | token contracts |
| `chains/substrate` | `startBlock`, the client's runtime metadata (shared) | `ListenToEvents`, `handleEvents`; `VoteProposal` | substrate node, block store |
| `config`, `keystore`, `crypto` | files | loading at start-up, `ImportPrivKey` | - |
| `chains/evm/cli` | none | some forty commands, each a sequence of contract calls | contracts |
| `opentelemetry` | counters | metrics | - |

What makes it hard: every domain has a listener goroutine and a `PollEvents`
goroutine, every message a `route` goroutine, every vote seen in the mempool a
goroutine of its own; the channels between them are unbuffered and the stop
channel races with them. Nodes lag, calls fail, transactions are dropped,
answers get lost, and the process may die between any two steps with only the
block and nonce stores surviving. What must hold:

- *listener, block store*: no deposit is passed by, none is handled twice in a
  run, none before its confirmations, and a restart resumes early enough;
- *relayer*: no message disappears between goroutines, none is dropped because
  a chain was registered too late;
- *voter*: holding back because others vote never costs the proposal a vote,
  and everyone waiting for everyone comes to an end;
- *transactors*: concurrent calls share no nonce and leave no gap, and every
  error path releases the lock;
- *Substrate*: as for the EVM listener, block by block; calls are encoded with
  the metadata of the runtime, and a vote that seemed to fail is not lost;
- *computations*: amounts, ids and payloads survive decoding, conversion and
  encoding; fees can be included and keep their limit; accepted configurations
  are usable; imported keys load;
- *command line*: a reported success is worth something, and a setup that
  succeeds leaves a working bridge whatever failed before it.

`PROJECT.json` places these as hazards at their lines.

## 2. Modules

| Module | Models | Extends |
|---|---|---|
| `BlockStore` | `store/blockstore.go` as operators on a stored value | - |
| `EVMListener` | `ListenToEvents`, `FetchDepositLogs`, `LatestBlock` | `BlockStore` |
| `Relayer` | `Start`, `route`, `PollEvents`, the application's stop | `EVMListener` |
| `EVMVoter` | voter, mempool subscription; bridge contract and mempool as external | - |
| `ITXTransactor` | ITX transactor, minimal forwarder, nonce store; relay and contract as external | - |
| `SignAndSend` | sign-and-send transactor, `EVMClient` nonce; pool and chain as external | - |
| `DepositStream` | abstract: what any listener promises the reader of its channel | - |
| `SubstrateChain` | Substrate listener and writer of one relayer, with the metadata they share; node and pallet as external | `BlockStore` |
| `Transfer` | one transfer through event handler, processors and message handler (or Substrate writer) | `Numbers` |
| `Numbers` | external: powers and bit lengths of `math/big` | - |
| `Fees` | gas pricers, transaction type, typed amounts | `Numbers` |
| `Configuration` | validation and defaults of a chain's configuration | - |
| `Keystore` | key files: import and loading | - |
| `EVMContracts` | external: storage of the contracts the commands use | - |
| `EVMCLI` | every command, the transactor steps it is made of, `--prepare` | `EVMContracts` |
| `*Proofs` | theorems about the module of that name | that module, `TLAPS` (`RelayerProofs` also `EVMListenerProofs`, `TransferProofs` also `Fees`) |
| `OperatorProofs` | theorems about what an operator runs and sets | `EVMCLI`, `Keystore`, `Configuration`, `TLAPS` |
| `MC*` | constants for TLC | that module |

**EVMListener.** `lpc` is the program point of the polling goroutine. A deposit
is the number of its log, so log order is number order. `Poll` is one turn of
the loop up to the query: the head `h` is any block up to the true head,
because the node that answers may lag, and the window is
`min(h - BlockDelay, startBlock + MaxRange)`. `FetchDepositLogs` drops logs that
do not unpack; `FetchFails` goes back to the loop with the cursor unchanged;
`HandleEventFails` logs and skips; `Send` is the rendezvous on the unbuffered
channel; `StoreBlock` writes the window's last block, or fails, which is only
logged, and moves the cursor either way. `BlockBytes` keeps that `big.Int.Bytes`
loses the sign. `handed`, `refused` and `last` are history variables. On its own
the listener has a reader that is always ready (`Receive`); in `Relayer` the
reader is `PollEvents`.

**Relayer.** `Boot` is `GetStartBlock` followed by spawning the listener, and
`BootFails` its error path to the application, which closes `stop`. `TakeEvent`
and `Forward` are the two rendezvous. `route` ends in one of four outcomes:
no resolver, a processor's error, a failed write, a write. `Crash` is
the listener's `Restart` with the rest of the memory cleared; it records in
`lost` what was in flight behind the block the next run resumes at. That the
code loses such messages is a fact of the code (the block is stored when a
message is handed over, not when it is written), which `Accounted` and
`EventuallyDecided` state as the only way to lose one.

**EVMVoter.** One `VoteProposal` call per relayer and proposal, split at every
call to the node, since the answers go stale between them. `yes` is the
`YesVotesTotal` that was read, `pending` the shared map as uint8 counters,
`track` one goroutine per relayer and transaction seen. The map is written
without a lock: when another goroutine of the relayer may be writing, `Bump` may
also lose the update. The contract, as the calls use it: a vote is counted
once, the vote that meets the threshold tries to execute, a vote for a passed
proposal executes it, an expired proposal is cancelled.

**ITXTransactor.** `nonce` is nil until first read, then counted in memory;
`stored` is what `UnlockNonce` wrote. A send may fail before the relay accepted
or after it did (lost answer). `UnlockNonce` without a nonce panics inside
`StoreNonce`. The history variable `forgot` records that an accepted nonce is
not counted, or was not stored when the process died.

**SignAndSend.** The nonce is asked from the node for every call: the first
one, counting from the account's nonce, that no pooled transaction has. After
`MaxNonceRetries + 1` failures the function returns no nonce and no error
(the loop's `err` shadows the outer one) and `PreparePanics` follows.

**DepositStream.** The interface between a listener and `PollEvents`: deposits
of a domain are settled (taken off the channel, or reported as failed) in log
order and without a gap; a restart may repeat, never skip. `EVMListener` and
`SubstrateChain` instantiate it with their history variables
(`ImplementsStream`). The Substrate listener promises it only for blocks without
a runtime upgrade, since those may be dropped.

**SubstrateChain.** `Poll` is a turn of the loop with any header up to the true
one. A block whose events do not decode is tried for ever. `HandleEvents` makes
the messages of a block and renews the metadata after an upgrade;
`HandleEventsFails` is the failing renewal, after which the messages of the
block are dropped and the cursor moves on. `handleEvents` gives up a block in
the same way when an event handler fails; the handlers of `handlers.go` never do,
so this is left out. Listener and writer have registrations of their own
(`Registered`, `Handled`). The writer runs one `VoteProposal`
per message: the handler lookup, the call encoded once with the metadata of
that moment, then the loop of validity check and submission. Metadata is the
set of upgrades it includes, so a call is stale when that set is not the
runtime's. `VoteProposal` returns nil after a vote, when nothing is left to do,
and behind its loop when the tries are used up: one result, `"nil"`, as for its
caller. `faults` counts the requests of a call that failed. A failed submission
may be included later (`IncludeLate`). Other
relayers and the pallet are external. `CloseStop` is the application closing
the stop channel because of another chain.

**Transfer.** Payloads are sequences of small digits (`Base`) in words of `Word`
digits, so `LeftPad`, slices, `big.Int` bytes and lengths are what they are in
the code, scaled down. A deposit is built by the constructors of
`contracts/deposit` or is arbitrary calldata (`RawDeposit`), because anyone can
call the contract; with it goes what lies behind the slice in its array
(`tail`), since Go slices up to the capacity. `stage` is where the transfer is,
`in` what was put in. The three processors convert amounts; Substrate events
make messages without a `Type`, which the Substrate writer refuses, and ids of
tokens as they come, with leading zeros (ids of more than a word are left out).
`Bytes`, `Number` and `Power` are recursive functions. `TransferAssumption` says
that amounts, ids and the lengths of byte strings fit in a word, as uint256 and
the ABI have it.

**Fees, Configuration, Keystore.** Pure computations, one step each, and the key
files with overlapping imports. A `big.Float` is a fraction rounded after every
operation, to `Precision` bits in a typed amount and, in `multiplyGasPrice`, to
the bits of the suggested price but at least `MinBits`, with the exponent taken
from the bit lengths of the fraction; `FeesAssumption` has prices, factors and
digits that are not negative, at least two bits of precision, and no more
decimals than `math.Pow10` knows. `ConfigurationAssumption` asks for a default
of at least one confirmation. An import opens its file exclusively and writes it
in a second step that may fail.

**EVMCLI, EVMContracts.** A command checks its flags and becomes a sequence of
steps (deploy, transact, call, ask); each runs against the storage of a chain
and the first failure ends the command. Contracts are a store of keys and values
with what they accept, as far as the calls of the commands tell them apart.
Addresses of new contracts come from the sender's nonce. `Performed` is the
storage after one step that succeeds; `SetUp`, the state of chains that were set
up before, is what the steps of `local-setup` make of an empty one.
`CLIAssumption` keeps accounts, contract addresses, and names of contracts
apart, has at least one relayer and finitely many, and asks of `deploy` only what
it has a flag for. `MinedUnseen` is a
transaction whose receipt comes too late: an error is reported, and the effect
is there. Seven commands check their flags and do nothing; they are actions all
the same. What is printed is left out.

Operators marked `Fault:` are deliberately wrong variants of a definition. They
are not part of any specification; the mutants in `PROJECT.json` substitute them
to show that each property can fail.

## 3. Runs

| Run | Checks | Instance | States |
|---|---|---|---|
| `listener` | `ListenerTypeOK`, `CursorCovered`, `DurableCovered`, `Confirmed`, `InLogOrder`, `ImplementsStream`, `EventuallySettled` | 1 domain, 4 deposits (two in a block, one undecodable), windows of 2 blocks, 6 blocks, 2 restarts | 54 k |
| `relayer` | `Accounted`, `ResolvedIfConfigured`, `OncePerRun`, `EventuallyDecided` | 2 domains, 2 deposits, one to an unconfigured domain, 1 restart, stop | 297 k |
| `voter` | `TypeOK`, `SkipsOnlyFinal`, `VoteReturns`, `EventuallyPassed` | 2 relayers (one subscribed), threshold 1, 1 fault, one restart each | 148 k |
| `voter_pending` (violation) | `DecreasesWhenMined` | 2 relayers, no faults | |
| `voter_id` (violation) | `CountsOwnVotes` | 2 relayers, nonces 1 and 257 | |
| `itx` | `TypeOK`, `GapFree`, `NonceUnique`, `EventuallySettled` | 4 calls, 3 faults | 107 k |
| `itx_unlock` (violation) | `NonceSetOnUnlock` | 2 calls, 1 fault | |
| `itx_nonce` (violation) | `NonceValid` | 2 calls, 1 fault | |
| `sign_and_send` | `TypeOK`, `NoReplacement`, `NoHole`, `TransactReturns` | 4 calls, 3 faults | 221 k |
| `substrate` | `TypeOK`, `LostOnlyAtUpgrade`, `MetadataFollows`, `SettledIfReturned`, `ImplementsStream`, `EventuallyRead`, `EventuallyVoted` | 5 deposits in 3 blocks, an upgrade, an undecodable block, 2 messages (one without a type), 2 tries, 2 faults per message, 1 restart, stop | 389 k |
| `transfer` | `AmountArrives`, `DataArrives`, `PanicsOnlyOn`, `FeeUsable`, `AmountClose`, `UsableIfAccepted`, `ImportedLoads` | words of 2 digits to base 4, all calldata up to 6 binary digits, 3 overlapping imports | 45 k |
| `cli` | `SetupBridges`, `DeployBinds`, `Reported` | 2 commands on fresh chains or on chains set up before, 1 failed or unseen request | 111 k |

What some of them show:

- `substrate`: the only deposits the Substrate listener loses are those in a
  block with a runtime upgrade whose metadata it could not fetch. `VoteProposal`
  can return nil with its vote neither on the chain nor needless
  (`writer.go:83`). `SettledIfReturned` says exactly when: all tries are used
  up, and either each of them failed at the node, or the call was encoded with
  metadata the chain has left behind (it is made in front of the retry loop and
  is not made again). No vote of others, late inclusion, upgrade or crash makes
  it come sooner. The instance has as many faults as tries, so both ways are
  reached. A submission that failed and was included all the same does no harm.
  A block that does not decode stops the listener for good.
- `transfer`: amounts arrive rounded down by less than one unit, ids and
  payloads unchanged, except that the processors with a map of decimals also
  rewrite NFT ids and generic payloads. The process is ended by two inputs only:
  ERC721 calldata with lengths beyond it, and the automatic processor with a
  chain that is not an EVM chain. Fees can always be included, and exceed their
  limit only when the base fee alone does.
- `cli`: `local-setup` deploys everything anew, so whatever an earlier attempt
  left behind, success means a working bridge; `deploy` binds handlers to the
  bridge it deployed or was given. `Reported` says what any reported success is
  worth: at the end, everything the command was to send shows in the storage of
  the contracts, except a transaction to an address without code, which leaves
  all storage as it was, and what `deploy` was to make from the generic handler on
  without a bridge. Commands that send nothing change nothing, and report success
  only if they ask, are empty, or were declined.

*Bounds.* `MaxHead`, `MaxCrashes`, `MaxFaults`, `MaxRestarts`, `MaxCommands`,
`MaxLater` and `used.fresh` exist only in the models; all other constants are
the code's, scaled down. Two-block windows over six blocks give cut windows,
full ones and windows behind a lagging head; a 100-block window adds more of the
same. Two restarts let a crash hit the work of a run that itself resumed. Two
relayers suffice for one to hold back because of the other, with a threshold of
1 that makes the other's vote enough. One retry in each loop of the voter and of
the Substrate writer distinguishes the first try, a repeated one and the last.
In `substrate` two deposits follow the upgrade or share its block, and the
undecodable block comes last, so that everything before it is reached. Words of
two digits over a base of 4 make both overflow of a word and lengths beyond the
calldata short; addresses of one digit are shorter than a word as in the code. A
setup of some forty transactions fails at each of them once and is run again.
The proved properties do not depend on any bound.

*Deadlock* is not checked: in the real program everything may come to rest
(stop, all calls returned) and in the models also because the chain stops
growing. That nothing stays blocked is what the liveness properties show.

*Fairness.* Weak fairness for steps of goroutines, since Go's scheduler runs
what can run, and for calls that return one way or the other. Strong fairness
for a poll that sees the true head and for a query that succeeds: both are
retried for ever, and a node whose failures and lag are temporary answers some
of infinitely many calls. Strong fairness for taking a mutex, which Go hands to
a waiter that starves. A chain grows, and a transaction that stays in the pool
is mined. Nothing is assumed of crashes, of stop, of late inclusion, or of
seeing other relayers' votes. In `voter` every deposit reaches every relayer,
which is what `EventuallyDecided` shows for one process. `transfer` and `cli`
state no fairness and no liveness.

## 4. Findings

1. `voter_pending`: `shouldVoteForProposal` deletes the counter of a proposal
   while `increaseProposalVoteCount` goroutines still wait for receipts; their
   decrement wraps the uint8 from 0 to 255 (`voter.go:241-251`). Liveness is
   saved by `maxShouldVoteChecks`: `EventuallyPassed` and `SkipsOnlyFinal` hold
   all the same, the vote only comes later.
2. `voter_id`: `Proposal.GetID` is called unique and hashes one byte of the
   nonce (`proposal.go:39-41`).
3. `itx_unlock`: when the first nonce cannot be read, the deferred
   `UnlockNonce` dereferences nil and the error becomes a panic
   (`minimalForwarder.go:55-57`).
4. `itx_nonce`: the nonce is stored after the send, so a shutdown in between, or
   a lost answer, makes `UnsafeNonce` return a nonce in use
   (`minimalForwarder.go:65-70`). `GapFree` shows that the opposite error, a
   nonce nobody ever sent, cannot happen.

Met while modelling, without a run of their own, because no text in the
repository promises otherwise or a property states the exception:

- `SetupDefaultEVMChain` makes its gas pricer without options, so `MaxGasPrice`
  and `GasMultiplier` of the configuration have no effect (`chain.go`); when a
  fee is cut to its limit the tip may rise above the suggested one
  (`london.go:72`).
- `UserAmountToWei` computes with 53 bits: "1.1" at 18 decimals becomes
  1100000000000000128 (`util.go:52-66`).
- `SubstrateListener.ListenToEvents` takes the block store by value where the
  chain's interface has a pointer, and `SubstrateChain.Stop` closes a channel
  that is nil; neither is reached by the example application.
- A Substrate listener that starts at the latest block, or at a configured block
  the chain has not reached when it connects, never reads a runtime upgrade in
  between and goes on with the metadata of its connection
  (`substrate/listener/listener.go`); `MetadataFollows` states the exception.
- Two chains with one domain id are not refused; the later one replaces the
  other in the registry.
- The command line: seven commands check their flags, log and return nil.
  `remove-relayer`, `add-admin`, `remove-admin`, `set-fee` and `cancel-proposal`
  do so although their help says that they change the bridge ("removes an existing
  relayer", `admin/remove-relayer.go:17`, against the body at line 52);
  `query-proposal` and `query-resource` are empty too. `Reported` has them by
  name: their success is worth nothing. A transaction to an address without code
  is a success as well (`contract.go:67`); `deploy` ignores `--prepare`, reads an invalid
  `--bridge-address` as zero, and returns nil without deploying a generic
  handler when there is no bridge (`deploy.go:240-244`); `get-allowance` is
  always refused; `withdraw` with a token id always fails; `local-setup` prints
  chain 1's ERC721 addresses for chain 2 (`local.go:97-98`), which is right only
  while the sender's nonces on both chains are equal.
- `keystoreDir`'s error is overwritten, so a key may end up in the root
  directory, where a relayer that is configured with the key directory does not
  find it (`ImportedLoads` reads the path that the import reports); a failed
  import leaves an empty file that refuses every later import of that key
  (`account.go:38-53`).

## 5. Proofs

All theorems hold for every value of the constants that meets the named
assumptions (`NotANumber`, `ListenerAssumption`, `VoterAssumption`,
`TransactorAssumption`, `SignAndSendAssumption`, `SubstrateAssumption`,
`DestAssumption`, `TransferAssumption`, `FeesAssumption`,
`ConfigurationAssumption`, `CLIAssumption`): deposits are numbered in block
order, a listener has at least one confirmation (the configuration refuses
less), the threshold fits in a uint8, relayers and calls are finitely many, and
markers such as `Nil` are no numbers.

**EVMListenerProofs** proves `ListenerTypeCorrect`, `CursorNeverSkips`,
`StoreNeverSkips`, `OnlyConfirmed`, the action property `HandledInLogOrder`, and
`ListenerImplementsStream`: the listener implements `DepositStream`. None of the
properties is inductive: that the cursor skips nothing when it moves behind a
window needs to know that every log of the window was fetched and then settled.
`ListenerInv` adds `CursorSet` (only `LatestBlock` leaves a running listener
without a cursor), `WindowConfirmed` (a window under work is a proper range with
its confirmations), `TodoInWindow` and `WindowCovered` (what waits lies in the
window, and what does not wait is settled) and `LastBehind` (what was handled
lies before everything that waits). One lemma per action. The refinement uses
the same invariant: that a settled deposit has no gap before it follows from
`CursorCovered`, `WindowCovered` and `LastBehind`; every action maps to
`Settle`, to `Resume` or to a stutter.

**RelayerProofs** proves `ConfiguredIsResolved`, `RoutedOncePerRun` and
`NoMessageDisappears` for the composition. `RelayerStepsListen` shows that every
step of the relayer is a step of its listeners or none of theirs, so
`ListenerInv` holds here without a new proof. On top of it `RouteInv` has
`AllRegistered` (routes run only when all chains are registered: the order in
`Start`), `Holding` and `RoutedBehind` (what PollEvents holds or a route has was
handled in this run, so that the next log of the listener is new: this is where
`LastBehind` of the listener is needed). `AccountInv` has `Decoded` and
`ResumeBehind`: a restart begins at or before the cursor, so that what a crash
takes from the listener's memory is ahead of it again; what it takes from the
channels or the routes is ahead again or in `lost`.

**EVMVoterProofs** proves `NeverSkipsAnOpenProposal` and `VoterTypeCorrect` (the
pending votes stay a uint8 through lost updates and decrements below zero).
`VoterInv` adds `MinedCounts`: a mined vote transaction is counted or its
proposal is final. Contract steps only add voters and never leave a final
status, so that a call that has returned stays justified.

**ITXTransactorProofs** proves `TransactorTypeCorrect`, `NoncesHaveNoGap` and
`NoncesAreUnique`. `NonceInv` adds `Exclusive` (a call past the lock holds it),
`NoGap` (every nonce below the counter, the store or the contract's was
accepted) and `CountAbove` (while nothing was forgotten, all accepted nonces are
below the counter).

**SignAndSendProofs** proves `SignAndSendTypeCorrect`, `NeverReplaces` and
`LeavesNoHole`. The invariant says that a call past the lock holds it
(`Exclusive`), that only calls past the send have a transaction (`SentLater`),
and that a nonce that was read and not yet sent is free in the pool, with every
nonce below it pending, mined or dropped (`NonceFits`): the lock is held until
the receipt or the error, so nothing comes between the read and the send.

**SubstrateChainProofs** proves `SubstrateTypeCorrect`, `LosesOnlyAtUpgrades`,
`MetadataIsRenewed`, `ReturnsWhenSettled` and `SubstrateImplementsStream`: the
Substrate listener implements the same `DepositStream`. Its invariant mirrors
the EVM listener's, with a block in place of the window (`BlocksExist`,
`TodoInBlock`, `BlockCovered`, `LastBehind`) and `UpgradeRead`, which ties an
upgrade block that was passed to the metadata or to `dropped`. For the writer
`TriesLeft` bounds the loop, `TriesFailed` ties its turns to failed requests or
to a call that is stale by then, and `CallsKnown` (a call has no upgrade that is
still to come, and the runtime only gains some) makes a stale call stay stale.

**TransferProofs** proves `TransferAmountArrives`, `TransferDataArrives` and
`TransferPanics` for words, bases, byte strings and amounts of any size,
`FeesUsable`, and `AmountsClose` for any precision.
The recursive functions come first. The library's induction theorems take an
operator as a parameter, so they cannot be used here; its `WFMin` does not,
and gives `Smallest`: a set of natural numbers that is not empty has a smallest
element. Each induction is about the smallest counterexample. That a recursive
function equals its right-hand side needs the existence of such a function,
which `Recursion` proves once for recursion over the size of an argument;
`PowerDef`, `BytesDef`, `NumberDef` and `BitLenDef` instantiate it. From these
follow that `Number` undoes `Bytes`, that padding keeps the number, that a number
below `Base^Word` has at most `Word` bytes, and where the slices of joined
strings are. `TransferInv` follows one transfer through its stages:
`MessageType` (the payload has the shape of its kind), `CarriesAmount` and
`CarriesData` (before a processor the message holds what was deposited, after it
what the conversion makes of it), `Delivered` (the proposal or call is the
encoding of the message) and `PanicsOnlyOn` itself. `AmountsClose` rests on
`Exponent` (one of two exponents around the difference of the bit lengths
normalises a fraction), `RoundedClose` (one rounding is off by one part in
`2^Precision`), `ThreeFactors` and `CutClose`; the rest is the estimate that
three factors of `1 + 2^-Precision` stay below `1 + 2^(2 - Precision)`.

**OperatorProofs** proves `ImportsLoad`, `ConfigurationUsable`,
`LocalSetupBridges`, `DeployCommandBinds` and `SuccessIsReal`.
`ImportsLoad` holds for any number of overlapping imports: `SoleWriter` (the
exclusive open gives every file one writer) and `Written` (nobody opens a file
that was written). The three theorems about the command line rest on `CLIInv`
(`CommandsInvariant`), for any relayers, any sequence of commands and any
failures:

- `ChainsType` and `StoreType`: code lies only at addresses made from used
  nonces, so that a new contract meets no storage of an old one;
- `SimpleInv`: in a command other than `deploy` and `local-setup` only the last
  step sends, so that success means the storage shows it, or is as it was when
  there is no code, and commands without such a step are known by name;
- `DeployInv`: the bridge comes first, and each handler deployed so far answers
  to the bridge of the command;
- `SetupInv`: per chain and number of steps done, which contracts
  (`ContractsUp`) and which registrations, roles, balances and flags
  (`ResourcesUp`) are there; one lemma per step of the setup shows that the later
  steps keep what the earlier ones did.

`SuccessIsReal` also needs `AppliedTwice`: a method that counts nothing, applied
again, changes nothing. That the chains set up before satisfy the invariant
is shown from the recursive definition of `SetUp`.

Only model-checked: the liveness properties (`EventuallySettled` of the listener
and of the ITX transactor, `EventuallyDecided`, `VoteReturns`,
`EventuallyPassed`, `TransactReturns`, `EventuallyRead`, `EventuallyVoted`),
because fairness and `ENABLED` are beyond this prover. Every invariant and every
action property of the runs, and both refinements, are theorems.

## 6. Not modelled, and plan

Not modelled: hashing, signing, ciphers and ABI packing (opaque), leveldb, the
parser of configuration files, the built-in test keys and key generation (they
keep no state), the contracts beyond the calls used (`ExecuteProposal` has no
caller), ether, chain reorganisations deeper than the confirmations (the code
does not handle them; the Substrate listener takes the latest header for a
finalized one), metrics, which nothing reads, and logging.

Next:

1. The safety half of the liveness arguments as theorems: that no listener,
   call or lock holder is ever without an enabled step of its own (the lock is
   held only by a call that has a next step, a full channel has a reader).
2. Shorter proofs of the steps of `local-setup`, with one lemma for all methods
   that write a single key.
