----------------------------- MODULE EVMListener -----------------------------
(***************************************************************************)
(* chains/evm/listener/listener.go: one polling goroutine per domain. It   *)
(* reads the chain's head, takes a window of confirmed blocks, turns every *)
(* Deposit log in it into a message, hands the messages one by one to an   *)
(* unbuffered channel, stores the window's last block and moves on.        *)
(*                                                                         *)
(* A deposit is the number of its log in the order the chain emitted it,   *)
(* so FetchDepositLogs returns deposits in increasing order.               *)
(***************************************************************************)
EXTENDS BlockStore

CONSTANTS
    Domains,        \* domain IDs of the configured chains
    Deposits,       \* Deposit logs of all chains, as log numbers
    SourceOf,       \* the domain a deposit was made on
    BlockOf,        \* the block its log is in
    Undecodable,    \* deposits whose log data does not unpack
    StartBlock,     \* per domain: EVMConfig.StartBlock
    BlockDelay,     \* EVMConfig.BlockConfirmations
    MaxRange,       \* 99 in the code: a window has at most MaxRange+1 blocks
    Latest,         \* GeneralChainConfig.LatestBlock
    Fresh,          \* GeneralChainConfig.FreshStart
    MaxHead,        \* bound: the chains stop growing at this block
    MaxCrashes      \* bound: the process dies at most this often

ASSUME ListenerAssumption ==
    /\ Deposits \subseteq Nat \ {0}
    /\ SourceOf \in [Deposits -> Domains]
    /\ BlockOf \in [Deposits -> Nat]
    /\ \A d, e \in Deposits :
          SourceOf[d] = SourceOf[e] /\ d < e => BlockOf[d] <= BlockOf[e]
    /\ Undecodable \subseteq Deposits
    /\ StartBlock \in [Domains -> Nat]
    /\ BlockDelay \in Nat \ {0}
    /\ MaxRange \in Nat
    /\ Latest \in BOOLEAN /\ Fresh \in BOOLEAN
    /\ MaxHead \in Nat /\ MaxCrashes \in Nat

VARIABLES
    head,           \* per domain: the chain's latest block
    db,             \* per domain: the stored block, survives a crash
    stop,           \* the stop channel is closed
    crashes,        \* how often the process has died
    lpc,            \* per domain: where the polling goroutine is
    startBlock,     \* per domain: its startBlock, Nil or a block
    endBlock,       \* per domain: the last block of its current window
    todo,           \* per domain: logs of the window not yet handled
    \* history variables
    handed,         \* deposits whose message was taken off the channel
    refused,        \* deposits HandleEvent returned an error for
    last            \* per domain: last deposit handled in this run, or 0

listenerVars == <<head, db, stop, crashes, lpc, startBlock, endBlock, todo,
                  handed, refused, last>>

PollingStates == {"off", "loop", "fetch", "handle", "send", "returned"}

DepositsOf(c) == {d \in Deposits : SourceOf[d] = c}

\* Fault: the upper end of the query is left out.
LogsBefore(c, from, to) ==
    {d \in DepositsOf(c) : from <= BlockOf[d] /\ BlockOf[d] < to}

\* The logs a filter query on blocks from..to returns.
LogsIn(c, from, to) ==
    {d \in DepositsOf(c) : from <= BlockOf[d] /\ BlockOf[d] <= to}

\* Fault: any log of the window may be next.
IsAny(d, S) == d \in S

\* The next log of a window.
IsFirst(d, S) == d \in S /\ \A e \in S : d <= e

------------------------------------------------------------------------------
(* The chains and the process                                             *)

InitListener ==
    /\ head = [c \in Domains |-> 0]
    /\ db = [c \in Domains |-> NotFound]
    /\ stop = FALSE
    /\ crashes = 0
    /\ lpc = [c \in Domains |-> "off"]
    /\ startBlock = [c \in Domains |-> Nil]
    /\ endBlock = [c \in Domains |-> 0]
    /\ todo = [c \in Domains |-> {}]
    /\ handed = {}
    /\ refused = {}
    /\ last = [c \in Domains |-> 0]

\* External: the chain of domain c grows by a block.
Grow(c) ==
    /\ head[c] < MaxHead
    /\ head' = [head EXCEPT ![c] = @ + 1]
    /\ UNCHANGED <<db, stop, crashes, lpc, startBlock, endBlock, todo, handed,
                   refused, last>>

\* The process dies (or exits after stop) and is started again: every
\* goroutine and everything in memory is gone, the store is not.
Restart ==
    /\ crashes < MaxCrashes
    /\ crashes' = crashes + 1
    /\ stop' = FALSE
    /\ lpc' = [c \in Domains |-> "off"]
    /\ startBlock' = [c \in Domains |-> Nil]
    /\ endBlock' = [c \in Domains |-> 0]
    /\ todo' = [c \in Domains |-> {}]
    /\ last' = [c \in Domains |-> 0]
    /\ UNCHANGED <<head, db, handed, refused>>

------------------------------------------------------------------------------
(* The polling goroutine of domain c                                      *)

\* PollEvents asks the block store where to start and ListenToEvents spawns
\* the goroutine.
Listen(c) ==
    /\ lpc[c] = "off"
    /\ startBlock' = [startBlock EXCEPT
                        ![c] = GetStartBlock(db[c], StartBlock[c], Latest, Fresh)]
    /\ lpc' = [lpc EXCEPT ![c] = "loop"]
    /\ UNCHANGED <<head, db, stop, crashes, endBlock, todo, handed, refused, last>>

\* Fault: Sub with its operands swapped.
WindowEndSwapped(h, start) == BlockDelay - h

\* Fault: the confirmations are forgotten when the window is cut.
WindowEndUnconfirmed(h, start) ==
    IF h - start > MaxRange THEN start + MaxRange ELSE h

\* min(latest - BlockDelay, current + MaxRange)
WindowEnd(h, start) ==
    IF (h - BlockDelay) - start > MaxRange THEN start + MaxRange
    ELSE h - BlockDelay

\* The head of the node that serves the call, which may lag behind the chain.
LatestBlock(c) == 0..head[c]

\* One turn of the loop up to the log query, with h for the latest block. An
\* error, like a head that is too close, only goes back to sleep.
Poll(c, h) ==
    /\ lpc[c] = "loop"
    /\ ~stop
    /\ h \in LatestBlock(c)
    /\ LET start == IF startBlock[c] = Nil THEN h ELSE startBlock[c] IN
       /\ startBlock' = [startBlock EXCEPT ![c] = start]
       /\ \/ /\ h - start < BlockDelay
             /\ UNCHANGED <<lpc, endBlock>>
          \/ /\ h - start >= BlockDelay
             /\ endBlock' = [endBlock EXCEPT ![c] = WindowEnd(h, start)]
             /\ lpc' = [lpc EXCEPT ![c] = "fetch"]
    /\ UNCHANGED <<head, db, stop, crashes, todo, handed, refused, last>>

\* The select at the top of the loop sees the closed stop channel.
Return(c) ==
    /\ lpc[c] = "loop"
    /\ stop
    /\ lpc' = [lpc EXCEPT ![c] = "returned"]
    /\ UNCHANGED <<head, db, stop, crashes, startBlock, endBlock, todo, handed,
                   refused, last>>

\* Fault: the block is stored before its deposits are handled.
FetchAndStore(c) ==
    /\ lpc[c] = "fetch"
    /\ todo' = [todo EXCEPT
                  ![c] = LogsIn(c, startBlock[c], endBlock[c]) \ Undecodable]
    /\ db' = [db EXCEPT ![c] = BlockBytes(endBlock[c])]
    /\ lpc' = [lpc EXCEPT ![c] = "handle"]
    /\ UNCHANGED <<head, stop, crashes, startBlock, endBlock, handed, refused, last>>

\* FetchDepositLogs: the logs of the window without those that do not unpack.
FetchDepositLogs(c) ==
    /\ lpc[c] = "fetch"
    /\ todo' = [todo EXCEPT
                  ![c] = LogsIn(c, startBlock[c], endBlock[c]) \ Undecodable]
    /\ lpc' = [lpc EXCEPT ![c] = "handle"]
    /\ UNCHANGED <<head, db, stop, crashes, startBlock, endBlock, handed, refused,
                   last>>

\* Fault: a failed query ends the goroutine.
FetchGivesUp(c) ==
    /\ lpc[c] = "fetch"
    /\ lpc' = [lpc EXCEPT ![c] = "returned"]
    /\ UNCHANGED <<head, db, stop, crashes, startBlock, endBlock, todo, handed,
                   refused, last>>

\* The query fails: the same window is computed anew on the next turn.
FetchFails(c) ==
    /\ lpc[c] = "fetch"
    /\ lpc' = [lpc EXCEPT ![c] = "loop"]
    /\ UNCHANGED <<head, db, stop, crashes, startBlock, endBlock, todo, handed,
                   refused, last>>

\* HandleEvent turned the next log into a message, which now waits on ch.
HandleEvent(c) ==
    /\ lpc[c] = "handle"
    /\ todo[c] # {}
    /\ lpc' = [lpc EXCEPT ![c] = "send"]
    /\ UNCHANGED <<head, db, stop, crashes, startBlock, endBlock, todo, handed,
                   refused, last>>

\* HandleEvent returned an error: it is logged and the next log is next.
HandleEventFails(c) ==
    /\ lpc[c] = "handle"
    /\ \E d \in todo[c] :
          /\ IsFirst(d, todo[c])
          /\ todo' = [todo EXCEPT ![c] = @ \ {d}]
          /\ refused' = refused \cup {d}
          /\ last' = [last EXCEPT ![c] = d]
    /\ UNCHANGED <<head, db, stop, crashes, lpc, startBlock, endBlock, handed>>

\* ch <- m: the reader of the channel takes deposit d's message.
Send(c, d) ==
    /\ lpc[c] = "send"
    /\ IsFirst(d, todo[c])
    /\ todo' = [todo EXCEPT ![c] = @ \ {d}]
    /\ handed' = handed \cup {d}
    /\ last' = [last EXCEPT ![c] = d]
    /\ lpc' = [lpc EXCEPT ![c] = "handle"]
    /\ UNCHANGED <<head, db, stop, crashes, startBlock, endBlock, refused>>

\* Fault: the next window starts with the last block of this one.
StoreBlockOverlaps(c) ==
    /\ lpc[c] = "handle"
    /\ todo[c] = {}
    /\ db' = [db EXCEPT ![c] = BlockBytes(endBlock[c])]
    /\ startBlock' = [startBlock EXCEPT ![c] = endBlock[c]]
    /\ lpc' = [lpc EXCEPT ![c] = "loop"]
    /\ UNCHANGED <<head, stop, crashes, endBlock, todo, handed, refused, last>>

\* The window is done: StoreBlock writes its last block, or fails and is
\* only logged, and startBlock moves behind the window either way.
StoreBlock(c) ==
    /\ lpc[c] = "handle"
    /\ todo[c] = {}
    /\ db' \in {db, [db EXCEPT ![c] = BlockBytes(endBlock[c])]}
    /\ startBlock' = [startBlock EXCEPT ![c] = endBlock[c] + 1]
    /\ lpc' = [lpc EXCEPT ![c] = "loop"]
    /\ UNCHANGED <<head, stop, crashes, endBlock, todo, handed, refused, last>>

------------------------------------------------------------------------------
(* The listener on its own: the reader of its channel is always ready.    *)

\* The application closes the stop channel when a chain reports an error.
CloseStop ==
    /\ ~stop
    /\ stop' = TRUE
    /\ UNCHANGED <<head, db, crashes, lpc, startBlock, endBlock, todo, handed,
                   refused, last>>

Receive(c) == \E d \in todo[c] : Send(c, d)

ListenerStep(c) ==
    \/ Listen(c)
    \/ \E h \in LatestBlock(c) : Poll(c, h)
    \/ Return(c)
    \/ FetchDepositLogs(c)
    \/ FetchFails(c)
    \/ HandleEvent(c)
    \/ HandleEventFails(c)
    \/ StoreBlock(c)

ListenerNext ==
    \/ Restart
    \/ CloseStop
    \/ \E c \in Domains : Grow(c) \/ ListenerStep(c) \/ Receive(c)

ListenerSpec == InitListener /\ [][ListenerNext]_listenerVars

\* Go runs every goroutine that can run. A node's errors and its lag are
\* temporary: of infinitely many calls some give the chain's head and its
\* logs, which is strong fairness. Growth of the chain is the environment's.
ListenerFairness(c) ==
    /\ WF_listenerVars(Grow(c))
    /\ WF_listenerVars(Listen(c))
    /\ SF_listenerVars(Poll(c, head[c]))
    /\ SF_listenerVars(FetchDepositLogs(c))
    /\ WF_listenerVars(HandleEvent(c) \/ HandleEventFails(c))
    /\ WF_listenerVars(StoreBlock(c))

FairListenerSpec ==
    /\ ListenerSpec
    /\ \A c \in Domains : ListenerFairness(c) /\ WF_listenerVars(Receive(c))

------------------------------------------------------------------------------
(* Properties                                                             *)

\* Every variable keeps its type.
ListenerTypeOK ==
    /\ head \in [Domains -> Nat]
    /\ db \in [Domains -> Nat \cup {NotFound}]
    /\ stop \in BOOLEAN
    /\ crashes \in Nat
    /\ lpc \in [Domains -> PollingStates]
    /\ startBlock \in [Domains -> Nat \cup {Nil}]
    /\ endBlock \in [Domains -> Nat]
    /\ todo \in [Domains -> SUBSET Deposits]
    /\ handed \in SUBSET Deposits
    /\ refused \in SUBSET Deposits
    /\ last \in [Domains -> Deposits \cup {0}]

\* Deposits the listener needs not look at again.
Settled == handed \cup refused \cup Undecodable

\* A deposit the listener is answerable for. With LatestBlock set nothing is:
\* what was emitted while the relayer was down is skipped on purpose.
Expected(d) == ~Latest /\ StartBlock[SourceOf[d]] <= BlockOf[d]

\* The cursor of a running listener never passes a deposit it has not handed
\* over or reported, whatever windows, failed queries, lagging heads and
\* restarts came before (startBlock.Add at the end of ListenToEvents).
CursorCovered ==
    \A c \in Domains : \A d \in DepositsOf(c) :
        /\ Expected(d)
        /\ startBlock[c] # Nil
        /\ BlockOf[d] < startBlock[c]
        => d \in Settled

\* A block is in the store only when every deposit up to it, the block
\* included, was handed over: a relayer that dies at any point and resumes at
\* the stored block skips none (StoreBlock after the loop over the logs).
DurableCovered ==
    \A c \in Domains : \A d \in DepositsOf(c) :
        /\ Expected(d)
        /\ db[c] # NotFound
        /\ BlockOf[d] <= db[c]
        => d \in Settled

\* No message leaves the listener before its block has BlockDelay blocks on
\* top of it, also when the window is cut at MaxRange or the head lags.
Confirmed ==
    \A d \in handed : BlockOf[d] + BlockDelay <= head[SourceOf[d]]

\* Within one run of the process the deposits of a domain are handled in the
\* order of their logs and none of them twice, across windows and retries.
InLogOrder ==
    [][crashes' = crashes =>
         \A c \in Domains : \A d \in todo[c] \ todo'[c] : last[c] < d]_listenerVars

\* Unless the application stops, every deposit that the chain comes to
\* confirm is handed over or reported in the end.
EventuallySettled ==
    \A d \in Deposits :
        Expected(d) /\ BlockOf[d] + BlockDelay <= MaxHead
            => <>(d \in Settled \/ stop)

\* The deposits of domain c the reader of the channel has to hear of.
OwedBy(c) == {d \in DepositsOf(c) : Expected(d)} \ Undecodable

Stream == INSTANCE DepositStream WITH
    Log <- [c \in Domains |-> DepositsOf(c)],
    Owed <- [c \in Domains |-> OwedBy(c)],
    settled <- handed \cup refused,
    cursor <- last

\* The polling goroutine keeps the listener's promise: through windows, failed
\* queries, lagging nodes and restarts at the stored block its reader gets the
\* deposits in the order of their logs, and no deposit before the earlier ones
\* it is owed (the loop of ListenToEvents with GetStartBlock and StoreBlock).
ImplementsStream == Stream!Spec

===============================================================================
