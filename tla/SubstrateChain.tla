---------------------------- MODULE SubstrateChain ----------------------------
(***************************************************************************)
(* chains/substrate: the listener goroutine and the writer of one relayer  *)
(* on one Substrate chain. They share the client, whose runtime metadata   *)
(* the listener renews when it reads a block with a runtime upgrade and    *)
(* the writer encodes its calls with.                                      *)
(*                                                                         *)
(* A deposit is numbered by its place in the order handleEvents takes: by  *)
(* block, and in a block fungible, non fungible, generic. Metadata is the  *)
(* set of upgrades it includes.                                            *)
(***************************************************************************)
EXTENDS BlockStore

CONSTANTS
    Deposits,        \* ChainBridge transfer events of the chain
    BlockOf,         \* the block of an event
    KindOf,          \* its message.TransferType
    Registered,      \* kinds with an event handler (RegisterSubscription)
    Handled,         \* kinds with a proposal handler (RegisterHandler)
    Upgrades,        \* blocks with a System_CodeUpdated event
    Opaque,          \* blocks with an event that substrate.Events lacks
    StartBlock,      \* SubstrateConfig.StartBlock
    Latest, Fresh,   \* GeneralChainConfig
    Messages,        \* messages the relayer routes to this chain
    TypeOf,          \* their message.Type; NoType when made by handlers.go
    NoType,
    BlockRetryLimit, \* 5 in the code
    MaxHead,         \* bound: the chain stops growing at this block
    MaxCrashes,      \* bound: the process dies at most this often
    MaxFaults        \* bound: failed requests of one VoteProposal

Kinds == {"fungible", "nonFungible", "generic"}

ASSUME SubstrateAssumption ==
    /\ Deposits \subseteq Nat \ {0}
    /\ BlockOf \in [Deposits -> Nat]
    /\ \A d, e \in Deposits : d < e => BlockOf[d] <= BlockOf[e]
    /\ KindOf \in [Deposits -> Kinds]
    /\ Registered \subseteq Kinds /\ Handled \subseteq Kinds
    /\ Upgrades \subseteq Nat /\ Opaque \subseteq Nat
    /\ StartBlock \in Nat
    /\ Latest \in BOOLEAN /\ Fresh \in BOOLEAN
    /\ NoType \notin Kinds
    /\ TypeOf \in [Messages -> Kinds \cup {NoType}]
    /\ BlockRetryLimit \in Nat \ {0}
    /\ MaxHead \in Nat /\ MaxCrashes \in Nat /\ MaxFaults \in Nat

VARIABLES
    head,           \* the chain's latest block
    db,             \* the stored block, survives a crash
    stop,           \* the stop channel is closed
    crashes,
    lpc,            \* where the listener goroutine is
    startBlock,     \* its startBlock, Nil or a block
    todo,           \* messages of the block not yet sent
    meta,           \* the client's metadata
    handed,         \* history: deposits taken off the channel
    dropped,        \* history: blocks passed after handleEvents failed
    last            \* history: last deposit handed over in this run, or 0

listenerVars == <<head, db, stop, crashes, lpc, startBlock, todo, handed, dropped,
                  last>>

VARIABLES
    wpc,            \* per message: where VoteProposal is
    tries,          \* per message: i of its loop
    call,           \* per message: metadata its call is encoded with
    prop,           \* per message: its proposal on the chain
    votedFor,       \* messages whose proposal has the vote of this relayer
    pooled,         \* messages whose vote failed but may be included yet
    faults          \* per message: requests of its VoteProposal that failed

writerVars == <<wpc, tries, call, prop, votedFor, pooled, faults>>
vars == <<listenerVars, meta, writerVars>>

Runtime == {b \in Upgrades : b <= head}

Init ==
    /\ head = 0 /\ db = NotFound /\ stop = FALSE /\ crashes = 0
    /\ lpc = "off" /\ startBlock = Nil /\ todo = {} /\ meta = Runtime
    /\ handed = {} /\ dropped = {} /\ last = 0
    /\ wpc = [m \in Messages |-> "idle"]
    /\ tries = [m \in Messages |-> 0]
    /\ call = [m \in Messages |-> {}]
    /\ prop = [m \in Messages |-> "none"]
    /\ votedFor = {} /\ pooled = {}
    /\ faults = [m \in Messages |-> 0]

\* External: the chain grows by a block.
Grow ==
    /\ head < MaxHead
    /\ head' = head + 1
    /\ UNCHANGED <<db, stop, crashes, lpc, startBlock, todo, handed, dropped, last,
                   meta, writerVars>>

-------------------------------------------------------------------------------
(* The listener                                                            *)

\* PollEvents asks the block store where to start and spawns the goroutine.
PollEvents ==
    /\ lpc = "off"
    /\ startBlock' = GetStartBlock(db, StartBlock, Latest, Fresh)
    /\ lpc' = "loop"
    /\ UNCHANGED <<head, db, stop, crashes, todo, handed, dropped, last, meta,
                   writerVars>>

\* The store cannot be read: the error ends the application.
PollEventsFails ==
    /\ lpc = "off"
    /\ ~Latest /\ ~Fresh
    /\ stop' = TRUE
    /\ lpc' = "returned"
    /\ UNCHANGED <<head, db, crashes, startBlock, todo, handed, dropped, last, meta,
                   writerVars>>

\* The application closes the stop channel when another chain reports an error.
CloseStop ==
    /\ ~stop
    /\ stop' = TRUE
    /\ UNCHANGED <<head, db, crashes, lpc, startBlock, todo, handed, dropped, last, meta,
                   writerVars>>

\* One turn up to the queries, with h for the latest header: an error or a
\* block that is not there yet only sleep.
Poll(h) ==
    /\ lpc = "loop"
    /\ ~stop
    /\ LET start == IF startBlock = Nil THEN h ELSE startBlock IN
       /\ startBlock' = start
       /\ lpc' = IF start > h THEN "loop" ELSE "query"
    /\ UNCHANGED <<head, db, stop, crashes, todo, handed, dropped, last, meta,
                   writerVars>>

Return ==
    /\ lpc = "loop"
    /\ stop
    /\ lpc' = "returned"
    /\ UNCHANGED <<head, db, stop, crashes, startBlock, todo, handed, dropped, last,
                   meta, writerVars>>

\* Fault: a block that cannot be queried is passed.
QuerySkips ==
    /\ lpc = "query"
    /\ startBlock' = startBlock + 1
    /\ lpc' = "loop"
    /\ UNCHANGED <<head, db, stop, crashes, todo, handed, dropped, last, meta,
                   writerVars>>

\* Fault: a failed query ends the goroutine.
QueryReturns ==
    /\ lpc = "query"
    /\ lpc' = "returned"
    /\ UNCHANGED <<head, db, stop, crashes, startBlock, todo, handed, dropped, last,
                   meta, writerVars>>

\* GetBlockHash or GetBlockEvents fails: the block is tried again.
QueryFails ==
    /\ lpc = "query"
    /\ lpc' = "loop"
    /\ UNCHANGED <<head, db, stop, crashes, startBlock, todo, handed, dropped, last,
                   meta, writerVars>>

\* What decodes into substrate.Events: all of a block or, for an event the
\* struct has no field for, none of it.
Decodes(b) == b \notin Opaque

\* The transfer events of a block that have a handler.
Subscribed(b) == {d \in Deposits : BlockOf[d] = b /\ KindOf[d] \in Registered}

\* Fault: the metadata stays as it was when the client connected.
HandleEventsOnly ==
    /\ lpc = "query"
    /\ Decodes(startBlock)
    /\ todo' = Subscribed(startBlock)
    /\ lpc' = "send"
    /\ UNCHANGED <<head, db, stop, crashes, startBlock, handed, dropped, last, meta,
                   writerVars>>

\* GetBlockEvents and handleEvents: a message for every event with a handler,
\* and new metadata when the block brought an upgrade.
HandleEvents ==
    /\ lpc = "query"
    /\ Decodes(startBlock)
    /\ todo' = Subscribed(startBlock)
    /\ meta' = IF startBlock \in Upgrades THEN Runtime ELSE meta
    /\ lpc' = "send"
    /\ UNCHANGED <<head, db, stop, crashes, startBlock, handed, dropped, last,
                   writerVars>>

\* UpdateMetatdata fails: handleEvents returns no messages at all, the error
\* is logged and the block counts as done. An event handler that fails would
\* drop its block the same way; those of handlers.go return no error.
HandleEventsFails ==
    /\ lpc = "query"
    /\ Decodes(startBlock)
    /\ startBlock \in Upgrades
    /\ todo' = {}
    /\ dropped' = dropped \cup {startBlock}
    /\ lpc' = "send"
    /\ UNCHANGED <<head, db, stop, crashes, startBlock, handed, last, meta, writerVars>>

\* Fault: the messages of a block are sent in any order.
SendAny(d) ==
    /\ lpc = "send"
    /\ d \in todo
    /\ todo' = todo \ {d}
    /\ handed' = handed \cup {d}
    /\ last' = d
    /\ UNCHANGED <<head, db, stop, crashes, lpc, startBlock, dropped, meta, writerVars>>

\* ch <- m, which PollEvents takes and forwards; after a stop its select may
\* still take one.
Send(d) ==
    /\ lpc = "send"
    /\ d \in todo /\ \A e \in todo : d <= e
    /\ todo' = todo \ {d}
    /\ handed' = handed \cup {d}
    /\ last' = d
    /\ UNCHANGED <<head, db, stop, crashes, lpc, startBlock, dropped, meta, writerVars>>

\* The block is stored, or storing it fails and is only logged.
StoreBlock ==
    /\ lpc = "send"
    /\ todo = {}
    /\ db' \in {db, BlockBytes(startBlock)}
    /\ startBlock' = startBlock + 1
    /\ lpc' = "loop"
    /\ UNCHANGED <<head, stop, crashes, todo, handed, dropped, last, meta, writerVars>>

-------------------------------------------------------------------------------
(* The writer, one VoteProposal per message                                *)

\* External: what a vote of this relayer does on the chain. The pallet takes
\* it once, and completes the proposal at the threshold.
Acknowledge(m) ==
    /\ votedFor' = IF prop[m] = "complete" THEN votedFor ELSE votedFor \cup {m}
    /\ \/ prop' = [prop EXCEPT ![m] = IF @ = "none" THEN "active" ELSE @]
       \/ prop' = [prop EXCEPT ![m] = "complete"]

\* External: the other relayers, which run the same code, vote and complete
\* the proposal.
OthersVote(m) ==
    /\ TypeOf[m] \in Handled
    /\ prop[m] # "complete"
    /\ prop' = [prop EXCEPT ![m] = IF @ = "none" THEN "active" ELSE "complete"]
    /\ UNCHANGED <<listenerVars, meta, wpc, tries, call, votedFor, pooled, faults>>

\* External: an extrinsic whose submission failed is included after all.
IncludeLate(m) ==
    /\ m \in pooled
    /\ pooled' = pooled \ {m}
    /\ Acknowledge(m)
    /\ UNCHANGED <<listenerVars, meta, wpc, tries, call, faults>>

\* handler lookup and createProposal: the call is encoded once, with the
\* metadata of now. A message without a handler is refused.
CreateProposal(m) ==
    /\ wpc[m] = "idle"
    /\ \/ /\ TypeOf[m] \in Handled
          /\ wpc' = [wpc EXCEPT ![m] = "check"]
          /\ call' = [call EXCEPT ![m] = meta]
       \/ /\ TypeOf[m] \notin Handled
          /\ wpc' = [wpc EXCEPT ![m] = "error"]
          /\ UNCHANGED call
    /\ UNCHANGED <<listenerVars, meta, tries, prop, votedFor, pooled, faults>>

Fault(m) ==
    /\ faults[m] < MaxFaults
    /\ faults' = [faults EXCEPT ![m] = @ + 1]

\* ResolveResourceId or NewCall fails.
CreateProposalFails(m) ==
    /\ wpc[m] = "idle"
    /\ TypeOf[m] \in Handled
    /\ Fault(m)
    /\ wpc' = [wpc EXCEPT ![m] = "error"]
    /\ UNCHANGED <<listenerVars, meta, tries, call, prop, votedFor, pooled>>

\* The chain looks a proposal up by nonce and call: one encoded with old
\* metadata is not found.
Found(m) == call[m] = Runtime /\ prop[m] # "none"

\* proposalValid: nothing to do for a completed proposal or after the own vote.
ProposalDone(m) ==
    Found(m) /\ (prop[m] = "complete" \/ m \in votedFor)

CheckProposal(m) ==
    /\ wpc[m] = "check"
    /\ wpc' = [wpc EXCEPT ![m] = IF ProposalDone(m) THEN "nil" ELSE "submit"]
    /\ UNCHANGED <<listenerVars, meta, tries, call, prop, votedFor, pooled, faults>>

\* Fault: the loop returns after its first failure.
NoRetry(m) ==
    /\ tries' = [tries EXCEPT ![m] = @ + 1]
    /\ wpc' = [wpc EXCEPT ![m] = "nil"]

\* Fault: one turn too many.
RetryTooOften(m) ==
    /\ tries' = [tries EXCEPT ![m] = @ + 1]
    /\ wpc' = [wpc EXCEPT ![m] = IF tries[m] < BlockRetryLimit
                                 THEN "check" ELSE "nil"]

\* The next turn of the loop, or the return behind it: nil, as after a vote.
Retry(m) ==
    /\ tries' = [tries EXCEPT ![m] = @ + 1]
    /\ wpc' = [wpc EXCEPT ![m] = IF tries[m] + 1 < BlockRetryLimit
                                 THEN "check" ELSE "nil"]

CheckFails(m) ==
    /\ wpc[m] = "check"
    /\ Fault(m)
    /\ Retry(m)
    /\ UNCHANGED <<listenerVars, meta, call, prop, votedFor, pooled>>

SubmitTx(m) ==
    /\ wpc[m] = "submit"
    /\ call[m] = Runtime
    /\ Acknowledge(m)
    /\ wpc' = [wpc EXCEPT ![m] = "nil"]
    /\ UNCHANGED <<listenerVars, meta, tries, call, pooled, faults>>

\* The submission fails, and the extrinsic may still be included; a call that
\* the runtime no longer knows always fails.
SubmitTxFails(m) ==
    /\ wpc[m] = "submit"
    /\ Retry(m)
    /\ \/ /\ call[m] = Runtime
          /\ Fault(m)
          /\ pooled' \in {pooled, pooled \cup {m}}
       \/ /\ call[m] # Runtime
          /\ UNCHANGED <<pooled, faults>>
    /\ UNCHANGED <<listenerVars, meta, call, prop, votedFor>>

VoteProposal(m) ==
    \/ CreateProposal(m) \/ CreateProposalFails(m)
    \/ CheckProposal(m) \/ CheckFails(m)
    \/ SubmitTx(m) \/ SubmitTxFails(m)

-------------------------------------------------------------------------------
(* The process ends and is started again: it connects with the metadata of *)
(* the day, and messages it was writing are gone.                          *)
Crash ==
    /\ crashes < MaxCrashes
    /\ crashes' = crashes + 1
    /\ stop' = FALSE /\ lpc' = "off" /\ startBlock' = Nil /\ todo' = {} /\ last' = 0
    /\ meta' = Runtime
    /\ wpc' = [m \in Messages |-> IF wpc[m] \in {"check", "submit"}
                                  THEN "gone" ELSE wpc[m]]
    /\ UNCHANGED <<head, db, handed, dropped, tries, call, prop, votedFor, pooled,
                   faults>>

Next ==
    \/ Grow \/ Crash
    \/ PollEvents \/ PollEventsFails \/ CloseStop \/ Return
    \/ \E h \in 0..head : Poll(h)
    \/ QueryFails \/ HandleEvents \/ HandleEventsFails
    \/ \E d \in todo : Send(d)
    \/ StoreBlock
    \/ \E m \in Messages : OthersVote(m) \/ IncludeLate(m) \/ VoteProposal(m)

Spec == Init /\ [][Next]_vars

\* The goroutines run, and a node's errors are temporary.
FairSpec ==
    /\ Spec
    /\ WF_vars(Grow)
    /\ WF_vars(PollEvents \/ PollEventsFails)
    /\ SF_vars(Poll(head))
    /\ SF_vars(HandleEvents \/ HandleEventsFails)
    /\ WF_vars(\E d \in todo : Send(d))
    /\ WF_vars(StoreBlock)
    /\ \A m \in Messages : WF_vars(VoteProposal(m))

-------------------------------------------------------------------------------
(* Properties                                                              *)

\* Every variable keeps its type, and the loop of VoteProposal its bound.
TypeOK ==
    /\ head \in 0..MaxHead
    /\ db \in 0..MaxHead \cup {NotFound}
    /\ stop \in BOOLEAN /\ crashes \in 0..MaxCrashes
    /\ lpc \in {"off", "loop", "query", "send", "returned"}
    /\ startBlock \in Nat \cup {Nil}
    /\ todo \in SUBSET Deposits /\ handed \in SUBSET Deposits
    /\ meta \in SUBSET Upgrades /\ dropped \in SUBSET Upgrades
    /\ last \in Deposits \cup {0}
    /\ wpc \in [Messages -> {"idle", "check", "submit", "nil", "error", "gone"}]
    /\ tries \in [Messages -> 0..BlockRetryLimit]
    /\ call \in [Messages -> SUBSET Upgrades]
    /\ prop \in [Messages -> {"none", "active", "complete"}]
    /\ votedFor \in SUBSET Messages /\ pooled \in SUBSET Messages
    /\ faults \in [Messages -> 0..MaxFaults]

\* Deposits the listener is answerable for.
Expected == {d \in Deposits : ~Latest /\ StartBlock <= BlockOf[d]
                              /\ KindOf[d] \in Registered}

\* A deposit that the cursor or the stored block has passed was handed over,
\* or its block had a runtime upgrade after which the metadata could not be
\* fetched: failed queries, undecodable blocks, failed stores and crashes lose
\* none (ListenToEvents, StoreBlock after the sends).
LostOnlyAtUpgrade ==
    \A d \in Expected :
        \/ /\ startBlock # Nil /\ BlockOf[d] < startBlock
        \/ /\ db # NotFound /\ BlockOf[d] <= db
        => d \in handed \/ BlockOf[d] \in dropped

\* The client's metadata is that of the runtime as soon as the listener has
\* read the upgrade, unless fetching it failed: only calls made between the
\* upgrade and the listener's arrival there are encoded with an old one. (A
\* listener passes an upgrade unread when it happens between connecting and the
\* block it starts at, with LatestBlock or a start block to come.)
MetadataFollows ==
    startBlock # Nil /\ ~Latest =>
        \A b \in Runtime \ meta : startBlock <= b \/ b \in dropped \/ b < StartBlock

Stream == INSTANCE DepositStream WITH
    Domains <- {"substrate"},
    Log <- [c \in {"substrate"} |-> Deposits],
    Owed <- [c \in {"substrate"} |-> {d \in Expected : BlockOf[d] \notin Upgrades}],
    settled <- handed,
    cursor <- [c \in {"substrate"} |-> last]

\* Outside the blocks with an upgrade the Substrate listener keeps the same
\* promise to its reader as the EVM listener, block by block: no gap and no
\* disorder through failed queries, failed stores and restarts.
ImplementsStream == Stream!Spec

\* Both ways VoteProposal returns nil, with the vote settled or behind its loop
\* (writer.go:83), look alike to the relayer, which writes the message off. A
\* nil without the own vote on the chain or a complete proposal means that all
\* tries are used up, and that each of them failed at the node, or the call was
\* encoded with metadata the chain has left behind: no interleaving of other
\* relayers' votes, late inclusions and upgrades makes the loop give up a
\* message sooner, or after a try that succeeded.
SettledIfReturned ==
    \A m \in Messages : wpc[m] = "nil" =>
        \/ m \in votedFor \/ prop[m] = "complete"
        \/ /\ tries[m] = BlockRetryLimit
           /\ faults[m] = BlockRetryLimit \/ call[m] # Runtime

\* Every deposit the chain comes to have is handed over or dropped with its
\* block, unless an undecodable block is in front of it, which the listener
\* never passes, or the application stops.
EventuallyRead ==
    \A d \in Expected :
        BlockOf[d] <= MaxHead /\ (\A b \in Opaque : b > BlockOf[d] \/ b < StartBlock)
            => <>(d \in handed \/ BlockOf[d] \in dropped \/ stop)

\* A message of a known kind gets its vote, or the others complete it, unless
\* all its tries fail at the node, its call was encoded with metadata that the
\* chain has left behind (createProposal is in front of the retry loop), no
\* call could be made, or the process died or stops.
EventuallyVoted ==
    \A m \in Messages :
        TypeOf[m] \in Handled =>
            <>(\/ m \in votedFor \/ prop[m] = "complete" \/ stop
               \/ wpc[m] \in {"error", "gone"} \/ faults[m] = BlockRetryLimit
               \/ wpc[m] \in {"check", "submit"} /\ call[m] # Runtime)

===============================================================================
