------------------------------- MODULE Relayer -------------------------------
(***************************************************************************)
(* relayer/relayer.go composed with the chains it starts: per domain the   *)
(* listener goroutine (EVMListener) and the PollEvents goroutine that      *)
(* forwards its messages to one unbuffered channel (chains/evm/chain.go),  *)
(* the loop of Start that takes messages off that channel, and one route   *)
(* goroutine per message. The application (e2e/evm-evm/example/app) closes *)
(* the stop channel on the first error a chain reports.                    *)
(*                                                                         *)
(* What Write does on the destination is EVMVoter's subject; here it       *)
(* returns with or without an error.                                       *)
(***************************************************************************)
EXTENDS EVMListener

CONSTANT DestOf     \* the destination domain of a deposit, configured or not

ASSUME DestAssumption == DestOf \in [Deposits -> Nat]

VARIABLES
    rpc,            \* where Start is
    registry,       \* domains in r.registry: PollEvents was started for them
    ppc,            \* per domain: where PollEvents is
    held,           \* per domain: the message PollEvents has to forward, or 0
    route,          \* per deposit: its route goroutine in this run
    \* history variables
    outcome,        \* per deposit: how its routes ended, over all runs
    lost            \* in flight at a crash, and behind the block to resume at

relayerVars == <<rpc, registry, ppc, held, route, outcome, lost>>
vars == <<listenerVars, relayerVars>>

StartStates == {"starting", "loop", "returned"}
PollEventsStates == {"off", "boot", "select", "forward", "returned"}
RouteStates == {"none", "lookup", "write", "done"}
Outcomes == {"unresolved", "unprocessed", "unwritten", "written"}

Init ==
    /\ InitListener
    /\ rpc = "starting"
    /\ registry = {}
    /\ ppc = [c \in Domains |-> "off"]
    /\ held = [c \in Domains |-> 0]
    /\ route = [d \in Deposits |-> "none"]
    /\ outcome = [d \in Deposits |-> {}]
    /\ lost = {}

------------------------------------------------------------------------------
(* Start                                                                  *)

\* One turn of the first loop: addRelayedChain and go c.PollEvents.
StartChain(c) ==
    /\ rpc = "starting"
    /\ c \notin registry
    /\ registry' = registry \cup {c}
    /\ ppc' = [ppc EXCEPT ![c] = "boot"]
    /\ UNCHANGED <<listenerVars, rpc, held, route, outcome, lost>>

\* Fault: Start receives while chains are still being added.
EnterLoopEarly ==
    /\ rpc = "starting"
    /\ registry # {}
    /\ rpc' = "loop"
    /\ UNCHANGED <<listenerVars, registry, ppc, held, route, outcome, lost>>

\* All chains run: Start begins to receive.
EnterLoop ==
    /\ rpc = "starting"
    /\ registry = Domains
    /\ rpc' = "loop"
    /\ UNCHANGED <<listenerVars, registry, ppc, held, route, outcome, lost>>

\* Fault: Start returns after its first message.
ForwardOnce(c) ==
    /\ rpc = "loop"
    /\ ppc[c] = "forward"
    /\ route' = [route EXCEPT ![held[c]] = "lookup"]
    /\ held' = [held EXCEPT ![c] = 0]
    /\ ppc' = [ppc EXCEPT ![c] = "select"]
    /\ rpc' = "returned"
    /\ UNCHANGED <<listenerVars, registry, outcome, lost>>

\* m := <-messagesChannel; go r.route(m), together with the eventsChan <- m
\* of the PollEvents goroutine on the other side.
Forward(c) ==
    /\ rpc = "loop"
    /\ ppc[c] = "forward"
    /\ route' = [route EXCEPT ![held[c]] = "lookup"]
    /\ held' = [held EXCEPT ![c] = 0]
    /\ ppc' = [ppc EXCEPT ![c] = "select"]
    /\ UNCHANGED <<listenerVars, rpc, registry, outcome, lost>>

StartReturns ==
    /\ rpc = "loop"
    /\ stop
    /\ rpc' = "returned"
    /\ UNCHANGED <<listenerVars, registry, ppc, held, route, outcome, lost>>

------------------------------------------------------------------------------
(* PollEvents of domain c                                                 *)

\* GetStartBlock succeeds and the listener goroutine is spawned.
Boot(c) ==
    /\ ppc[c] = "boot"
    /\ Listen(c)
    /\ ppc' = [ppc EXCEPT ![c] = "select"]
    /\ UNCHANGED <<rpc, registry, held, route, outcome, lost>>

\* Reading the store fails: the error is sent to the application, which
\* closes the stop channel and takes no second one.
BootFails(c) ==
    /\ ppc[c] = "boot"
    /\ ~Latest /\ ~Fresh
    /\ CloseStop
    /\ ppc' = [ppc EXCEPT ![c] = "returned"]
    /\ UNCHANGED <<rpc, registry, held, route, outcome, lost>>

\* newEvent := <-ech, together with the listener's ch <- m.
TakeEvent(c) ==
    /\ ppc[c] = "select"
    /\ \E d \in todo[c] :
          /\ Send(c, d)
          /\ held' = [held EXCEPT ![c] = d]
    /\ ppc' = [ppc EXCEPT ![c] = "forward"]
    /\ UNCHANGED <<rpc, registry, route, outcome, lost>>

\* Fault: stop is also heeded between the two channels.
PollEventsDrops(c) ==
    /\ ppc[c] \in {"select", "forward"}
    /\ stop
    /\ ppc' = [ppc EXCEPT ![c] = "returned"]
    /\ held' = [held EXCEPT ![c] = 0]
    /\ UNCHANGED <<listenerVars, rpc, registry, route, outcome, lost>>

\* The select sees the closed stop channel; with an event ready as well, Go
\* picks either.
PollEventsReturns(c) ==
    /\ ppc[c] = "select"
    /\ stop
    /\ ppc' = [ppc EXCEPT ![c] = "returned"]
    /\ UNCHANGED <<listenerVars, rpc, registry, held, route, outcome, lost>>

------------------------------------------------------------------------------
(* route of deposit d                                                     *)

RouteEnds(d, result) ==
    /\ route' = [route EXCEPT ![d] = "done"]
    /\ outcome' = [outcome EXCEPT ![d] = @ \cup {result}]

\* No chain is registered for the destination: logged and dropped.
NoResolver(d) ==
    /\ route[d] = "lookup"
    /\ DestOf[d] \notin registry
    /\ RouteEnds(d, "unresolved")
    /\ UNCHANGED <<listenerVars, rpc, registry, ppc, held, lost>>

\* The message processors run in order; an error of one drops the message.
Process(d) ==
    /\ route[d] = "lookup"
    /\ DestOf[d] \in registry
    /\ \/ /\ route' = [route EXCEPT ![d] = "write"]
          /\ UNCHANGED outcome
       \/ RouteEnds(d, "unprocessed")
    /\ UNCHANGED <<listenerVars, rpc, registry, ppc, held, lost>>

\* destChain.Write returns; an error is logged and the message dropped.
WriteReturns(d) ==
    /\ route[d] = "write"
    /\ \E result \in {"unwritten", "written"} : RouteEnds(d, result)
    /\ UNCHANGED <<listenerVars, rpc, registry, ppc, held, lost>>

------------------------------------------------------------------------------
(* The process                                                            *)

InFlight(d) ==
    \/ held[SourceOf[d]] = d
    \/ route[d] \in {"lookup", "write"}

Decided(d) == outcome[d] # {} \/ d \in refused

\* Where a restarted listener of domain c begins.
ResumeBlock(c) == GetStartBlock(db[c], StartBlock[c], FALSE, Fresh)

\* The process ends, by a crash or because the application returned, and is
\* started again.
Crash ==
    /\ Restart
    /\ rpc' = "starting"
    /\ registry' = {}
    /\ ppc' = [c \in Domains |-> "off"]
    /\ held' = [c \in Domains |-> 0]
    /\ route' = [d \in Deposits |-> "none"]
    /\ lost' = lost \cup {d \in Deposits : /\ InFlight(d)
                                           /\ BlockOf[d] < ResumeBlock(SourceOf[d])}
    /\ UNCHANGED outcome

\* Steps of the listener that nothing else takes part in.
Listener(c) ==
    /\ \/ \E h \in LatestBlock(c) : Poll(c, h)
       \/ Return(c)
       \/ FetchDepositLogs(c)
       \/ FetchFails(c)
       \/ HandleEvent(c)
       \/ HandleEventFails(c)
       \/ StoreBlock(c)
    /\ UNCHANGED relayerVars

ChainGrows(c) == Grow(c) /\ UNCHANGED relayerVars

Next ==
    \/ EnterLoop
    \/ StartReturns
    \/ Crash
    \/ \E c \in Domains : \/ StartChain(c) \/ Boot(c) \/ BootFails(c)
                          \/ TakeEvent(c) \/ Forward(c) \/ PollEventsReturns(c)
                          \/ Listener(c) \/ ChainGrows(c)
    \/ \E d \in Deposits : NoResolver(d) \/ Process(d) \/ WriteReturns(d)

Spec == Init /\ [][Next]_vars

\* Goroutines that can run do run, calls return, and errors of a node are
\* temporary. Nothing is assumed of crashes and of stop.
Fairness ==
    /\ WF_vars(EnterLoop)
    /\ \A c \in Domains :
          /\ WF_vars(StartChain(c))
          /\ WF_vars(Boot(c) \/ BootFails(c))
          /\ WF_vars(TakeEvent(c))
          /\ WF_vars(Forward(c))
          /\ WF_vars(ChainGrows(c))
          /\ SF_vars(Poll(c, head[c]) /\ UNCHANGED relayerVars)
          /\ SF_vars(FetchDepositLogs(c) /\ UNCHANGED relayerVars)
          /\ WF_vars((HandleEvent(c) \/ HandleEventFails(c)) /\ UNCHANGED relayerVars)
          /\ WF_vars(StoreBlock(c) /\ UNCHANGED relayerVars)
    /\ \A d \in Deposits :
          /\ WF_vars(NoResolver(d) \/ Process(d))
          /\ WF_vars(WriteReturns(d))

FairSpec == Spec /\ Fairness

------------------------------------------------------------------------------
(* Properties                                                             *)

\* Every variable keeps its type.
TypeOK ==
    /\ ListenerTypeOK
    /\ rpc \in StartStates
    /\ registry \in SUBSET Domains
    /\ ppc \in [Domains -> PollEventsStates]
    /\ held \in [Domains -> Deposits \cup {0}]
    /\ route \in [Deposits -> RouteStates]
    /\ outcome \in [Deposits -> SUBSET Outcomes]
    /\ lost \in SUBSET Deposits

\* The listener will come to deposit d again, or for the first time.
Ahead(d) ==
    LET c == SourceOf[d] IN
    CASE lpc[c] = "off"              -> ResumeBlock(c) <= BlockOf[d]
      [] lpc[c] \in {"handle", "send"} -> d \in todo[c] \/ endBlock[c] < BlockOf[d]
      [] OTHER                         -> startBlock[c] <= BlockOf[d]

\* No message disappears between the listener, the two channels and the
\* route goroutines: a deposit that was ever handed over is on its way, is
\* decided (routed to an end or refused in a later run), is ahead of the
\* listener again after a restart, or was in flight at a crash behind the
\* block to resume at.
Accounted ==
    ~Latest => \A d \in handed : InFlight(d) \/ Decided(d) \/ d \in lost \/ Ahead(d)

\* Start receives its first message only when every configured chain is in
\* the registry, so a message is dropped for want of a resolver only when its
\* destination is not configured at all.
ResolvedIfConfigured ==
    \A d \in Deposits : "unresolved" \in outcome[d] => DestOf[d] \notin Domains

\* One run of the process starts at most one route, hence at most one vote,
\* per deposit, however the listener's windows and retries fell.
OncePerRun ==
    \A c \in Domains : ppc[c] = "forward" => route[held[c]] = "none"

\* Every deposit that becomes confirmed is decided in the end, unless the
\* application stops for good or a crash caught the deposit in flight after
\* its block was stored; one it caught earlier is routed in a later run.
EventuallyDecided ==
    \A d \in Deposits :
        /\ Expected(d)
        /\ d \notin Undecodable
        /\ BlockOf[d] + BlockDelay <= MaxHead
        => <>(Decided(d) \/ d \in lost \/ stop)

===============================================================================
