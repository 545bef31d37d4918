---------------------------- MODULE RelayerProofs ----------------------------
(***************************************************************************)
(* What the relayer guarantees for any set of chains and deposits, any     *)
(* destinations, and any number of crashes. Its listeners take the steps   *)
(* of EVMListener, so their invariant holds here as well.                  *)
(***************************************************************************)
EXTENDS Relayer, EVMListenerProofs

\* The types of the relayer's own variables.
RelayerType ==
    /\ rpc \in StartStates
    /\ registry \in SUBSET Domains
    /\ ppc \in [Domains -> PollEventsStates]
    /\ held \in [Domains -> Deposits \cup {0}]
    /\ route \in [Deposits -> RouteStates]
    /\ outcome \in [Deposits -> SUBSET Outcomes]
    /\ lost \in SUBSET Deposits

\* PollEvents runs for registered chains only; Start receives, and routes run,
\* only once every chain is registered.
AllRegistered ==
    /\ \A c \in Domains : c \notin registry => ppc[c] = "off"
    /\ rpc # "starting" => registry = Domains
    /\ \A d \in Deposits : route[d] # "none" => registry = Domains

\* PollEvents holds a message exactly while it forwards it: one of its own
\* chain, which the listener has handled.
Holding ==
    \A c \in Domains :
        /\ ppc[c] = "forward" =>
              held[c] \in Deposits /\ SourceOf[held[c]] = c /\ held[c] <= last[c]
        /\ ppc[c] # "forward" => held[c] = 0

\* Nothing is routed in this run that its listener has not handled in it.
RoutedBehind ==
    \A d \in Deposits : route[d] # "none" => d <= last[SourceOf[d]]

\* The inductive invariant of Start, PollEvents and the routes.
RouteInv ==
    /\ RelayerType
    /\ AllRegistered
    /\ ResolvedIfConfigured
    /\ Holding
    /\ RoutedBehind
    /\ OncePerRun

\* What the listener holds or has sent was decoded.
Decoded ==
    /\ \A c \in Domains : \A d \in todo[c] : d \notin Undecodable
    /\ \A d \in handed : d \notin Undecodable

\* A restart never begins after the place a running listener is at.
ResumeBehind ==
    ~Latest => \A c \in Domains : lpc[c] # "off" => ResumeBlock(c) <= startBlock[c]

\* The inductive invariant that accounts for every message.
AccountInv ==
    /\ Decoded
    /\ ResumeBehind
    /\ Accounted

------------------------------------------------------------------------------
(* The listener inside the relayer                                        *)

\* Every step of the relayer is a step of the listeners or leaves them alone.
LEMMA RelayerStepsListen == Next => [ListenerNext]_listenerVars
<1> SUFFICES ASSUME Next PROVE [ListenerNext]_listenerVars
  OBVIOUS
<1>1. CASE EnterLoop \/ StartReturns
  BY <1>1 DEF EnterLoop, StartReturns
<1>2. CASE Crash
  BY <1>2 DEF Crash, ListenerNext
<1>3. ASSUME NEW c \in Domains, StartChain(c) \/ Forward(c) \/ PollEventsReturns(c)
      PROVE  [ListenerNext]_listenerVars
  BY <1>3 DEF StartChain, Forward, PollEventsReturns
<1>4. ASSUME NEW c \in Domains, Boot(c) \/ Listener(c) \/ ChainGrows(c)
      PROVE  [ListenerNext]_listenerVars
  BY <1>4 DEF Boot, Listener, ChainGrows, ListenerNext, ListenerStep
<1>5. ASSUME NEW c \in Domains, BootFails(c) PROVE [ListenerNext]_listenerVars
  BY <1>5 DEF BootFails, ListenerNext
<1>6. ASSUME NEW c \in Domains, TakeEvent(c) PROVE [ListenerNext]_listenerVars
  BY <1>6 DEF TakeEvent, ListenerNext, Receive
<1>7. ASSUME NEW d \in Deposits, NoResolver(d) \/ Process(d) \/ WriteReturns(d)
      PROVE  [ListenerNext]_listenerVars
  BY <1>7 DEF NoResolver, Process, WriteReturns
<1> QED
  BY <1>1, <1>2, <1>3, <1>4, <1>5, <1>6, <1>7 DEF Next

\* The last handled deposit is a number.
LEMMA LastIsNumber ==
    ASSUME ListenerTypeOK, NEW e \in Domains
    PROVE  last[e] \in Nat
<1>1. last[e] \in Deposits \cup {0}
  BY DEF ListenerTypeOK
<1>2. \A d \in Deposits : d \in Nat
  BY ListenerAssumption
<1> QED
  BY <1>1, <1>2

\* What is handled next lies behind everything handled in this run.
LEMMA LastAdvances ==
    ASSUME ListenerInv, NEW c \in Domains, NEW d \in todo[c],
           last' = [last EXCEPT ![c] = d]
    PROVE  /\ d \in Deposits /\ SourceOf[d] = c /\ last[c] < d
           /\ \A e \in Domains : last[e] \in Nat /\ last'[e] \in Nat /\ last[e] <= last'[e]
<1>1. /\ d \in Deposits /\ SourceOf[d] = c /\ d \in Nat /\ d # 0
      /\ last \in [Domains -> Deposits \cup {0}]
  BY ListenerAssumption DEF ListenerInv, ListenerTypeOK, TodoInWindow
<1>2. \A e \in Domains : last[e] \in Nat
  BY LastIsNumber DEF ListenerInv
<1>3. last[c] < d
  BY <1>1, <1>2 DEF ListenerInv, LastBehind
<1> QED
  BY <1>1, <1>2, <1>3

------------------------------------------------------------------------------
(* Start, PollEvents and the routes: one lemma per action                 *)

\* Steps of the listener change nothing for the routes but that more may be
\* handled.
LEMMA IdleRoutes ==
    ASSUME RouteInv, UNCHANGED relayerVars,
           \A e \in Domains : last[e] \in Nat /\ last'[e] \in Nat /\ last[e] <= last'[e]
    PROVE  RouteInv'
<1> USE ListenerAssumption DEF RouteInv, relayerVars
<1>1. RelayerType' /\ AllRegistered' /\ ResolvedIfConfigured' /\ OncePerRun'
  BY DEF RelayerType, AllRegistered, ResolvedIfConfigured, OncePerRun
<1>2. Holding'
  <2> SUFFICES ASSUME NEW c \in Domains, ppc[c] = "forward" PROVE held[c] <= last'[c]
    BY DEF Holding
  <2>1. held[c] \in Nat /\ held[c] <= last[c]
    BY DEF Holding
  <2> QED
    BY <2>1
<1>3. RoutedBehind'
  <2> SUFFICES ASSUME NEW d \in Deposits, route[d] # "none" PROVE d <= last'[SourceOf[d]]
    BY DEF RoutedBehind
  <2>1. d \in Nat /\ SourceOf[d] \in Domains /\ d <= last[SourceOf[d]]
    BY DEF RoutedBehind
  <2> QED
    BY <2>1
<1> QED
  BY <1>1, <1>2, <1>3

LEMMA ListenerRoutes ==
    ASSUME ListenerInv, RouteInv, NEW c \in Domains, Listener(c) \/ ChainGrows(c)
    PROVE  RouteInv'
<1>1. UNCHANGED relayerVars
  BY DEF Listener, ChainGrows
<1>2. \A e \in Domains : last[e] \in Nat
  BY LastIsNumber DEF ListenerInv
<1>3. CASE UNCHANGED last
  BY <1>1, <1>2, <1>3, IdleRoutes
<1>4. CASE HandleEventFails(c)
  <2>1. PICK d \in todo[c] : last' = [last EXCEPT ![c] = d]
    BY <1>4 DEF HandleEventFails
  <2> QED
    BY <1>1, <2>1, LastAdvances, IdleRoutes
<1> QED
  BY <1>3, <1>4 DEF Listener, ChainGrows, Grow, Poll, Return, FetchDepositLogs, FetchFails,
     HandleEvent, StoreBlock

\* Chains are registered one by one; Start receives when all are.
LEMMA StartRoutes ==
    ASSUME RouteInv,
           EnterLoop \/ StartReturns \/ \E c \in Domains : StartChain(c)
    PROVE  RouteInv'
<1> USE DEF RouteInv
<1>1. CASE EnterLoop
  BY <1>1 DEF EnterLoop, RelayerType, AllRegistered, ResolvedIfConfigured, Holding,
     RoutedBehind, OncePerRun, StartStates, listenerVars
<1>2. CASE StartReturns
  BY <1>2 DEF StartReturns, RelayerType, AllRegistered, ResolvedIfConfigured, Holding,
     RoutedBehind, OncePerRun, StartStates, listenerVars
<1>3. ASSUME NEW c \in Domains, StartChain(c) PROVE RouteInv'
  <2>1. RelayerType' /\ AllRegistered' /\ ResolvedIfConfigured'
    BY <1>3 DEF StartChain, RelayerType, AllRegistered, ResolvedIfConfigured,
       PollEventsStates
  <2>2. /\ last' = last /\ held' = held /\ route' = route
        /\ ppc' = [ppc EXCEPT ![c] = "boot"] /\ ppc \in [Domains -> PollEventsStates]
    BY <1>3 DEF StartChain, listenerVars, RelayerType
  <2>3. ppc[c] = "off" /\ \A e \in Domains : ppc'[e] = "forward" <=> ppc[e] = "forward"
    BY <1>3, <2>2 DEF StartChain, AllRegistered
  <2>4. RoutedBehind' /\ Holding' /\ OncePerRun'
    BY <2>2, <2>3 DEF RoutedBehind, Holding, OncePerRun
  <2> QED
    BY <2>1, <2>4
<1> QED
  BY <1>1, <1>2, <1>3

\* PollEvents asks the store, spawns the listener or gives up, and returns.
LEMMA PollEventsRoutes ==
    ASSUME RouteInv, NEW c \in Domains, Boot(c) \/ BootFails(c) \/ PollEventsReturns(c)
    PROVE  RouteInv'
<1> USE DEF RouteInv
<1>1. /\ last' = last /\ held' = held /\ route' = route /\ outcome' = outcome
      /\ rpc' = rpc /\ registry' = registry /\ lost' = lost
  BY DEF Boot, BootFails, PollEventsReturns, Listen, CloseStop, listenerVars
<1>2. /\ ppc \in [Domains -> PollEventsStates]
      /\ ppc' = [ppc EXCEPT ![c] = "select"] \/ ppc' = [ppc EXCEPT ![c] = "returned"]
      /\ ppc[c] \in {"boot", "select"}
  BY DEF RelayerType, Boot, BootFails, PollEventsReturns
<1>3. /\ ppc' \in [Domains -> PollEventsStates]
      /\ \A e \in Domains : ppc'[e] = "forward" <=> ppc[e] = "forward"
      /\ \A e \in Domains : ppc[e] = "off" => ppc'[e] = "off"
  BY <1>2 DEF PollEventsStates
<1>4. RelayerType' /\ AllRegistered' /\ ResolvedIfConfigured'
  BY <1>1, <1>3 DEF RelayerType, AllRegistered, ResolvedIfConfigured
<1>5. Holding' /\ RoutedBehind' /\ OncePerRun'
  BY <1>1, <1>3 DEF Holding, RoutedBehind, OncePerRun
<1> QED
  BY <1>4, <1>5

\* PollEvents takes a message nobody has seen in this run.
LEMMA TakeEventRoutes ==
    ASSUME ListenerInv, RouteInv, NEW c \in Domains, TakeEvent(c)
    PROVE  RouteInv'
<1> USE DEF RouteInv
<1>1. PICK d \in todo[c] : Send(c, d) /\ held' = [held EXCEPT ![c] = d]
  BY DEF TakeEvent
<1>2. /\ last' = [last EXCEPT ![c] = d] /\ ppc' = [ppc EXCEPT ![c] = "forward"]
      /\ UNCHANGED <<rpc, registry, route, outcome, lost>> /\ ppc[c] = "select"
      /\ last \in [Domains -> Deposits \cup {0}]
      /\ ppc \in [Domains -> PollEventsStates] /\ held \in [Domains -> Deposits \cup {0}]
  BY <1>1 DEF TakeEvent, Send, ListenerInv, ListenerTypeOK, RelayerType
<1>3. /\ d \in Deposits /\ SourceOf[d] = c /\ last[c] < d
      /\ \A e \in Domains : last[e] \in Nat /\ last'[e] \in Nat /\ last[e] <= last'[e]
  BY <1>2, LastAdvances
<1>4. Deposits \subseteq Nat /\ SourceOf \in [Deposits -> Domains]
  BY ListenerAssumption
<1>5. RelayerType'
  BY <1>1, <1>2, <1>3 DEF RelayerType, PollEventsStates
<1>6. AllRegistered' /\ ResolvedIfConfigured'
  BY <1>2 DEF AllRegistered, ResolvedIfConfigured
<1>7. route[d] = "none"
  BY <1>3, <1>4 DEF RoutedBehind
<1>8. RoutedBehind'
  <2> SUFFICES ASSUME NEW e \in Deposits, route[e] # "none" PROVE e <= last'[SourceOf[e]]
    BY <1>2 DEF RoutedBehind
  <2>1. e \in Nat /\ SourceOf[e] \in Domains /\ e <= last[SourceOf[e]]
    BY <1>4 DEF RoutedBehind
  <2> QED
    BY <2>1, <1>3
<1>9. OncePerRun'
  BY <1>1, <1>2, <1>7 DEF OncePerRun
<1>10. Holding'
  BY <1>1, <1>2, <1>3, <1>4 DEF Holding
<1> QED
  BY <1>5, <1>6, <1>8, <1>9, <1>10

\* Start takes the message off the channel and starts its route.
LEMMA ForwardRoutes ==
    ASSUME ListenerInv, RouteInv, NEW c \in Domains, Forward(c)
    PROVE  RouteInv'
<1> DEFINE d == held[c]
<1> USE DEF RouteInv
<1>1. /\ rpc = "loop" /\ ppc[c] = "forward"
      /\ last' = last /\ rpc' = rpc /\ registry' = registry
      /\ outcome' = outcome /\ lost' = lost
      /\ route' = [route EXCEPT ![d] = "lookup"]
      /\ held' = [held EXCEPT ![c] = 0]
      /\ ppc' = [ppc EXCEPT ![c] = "select"]
      /\ ppc \in [Domains -> PollEventsStates] /\ held \in [Domains -> Deposits \cup {0}]
      /\ route \in [Deposits -> RouteStates]
  BY DEF Forward, listenerVars, RelayerType
<1>2. d \in Deposits /\ SourceOf[d] = c /\ d <= last[c]
  BY <1>1 DEF Holding
<1>3. registry = Domains
  BY <1>1 DEF AllRegistered
<1> HIDE DEF d
<1>4. RelayerType'
  BY <1>1, <1>2 DEF RelayerType, PollEventsStates, RouteStates
<1>5. AllRegistered' /\ ResolvedIfConfigured'
  BY <1>1, <1>3 DEF AllRegistered, ResolvedIfConfigured
<1>6. Holding'
  BY <1>1 DEF Holding
<1>7. RoutedBehind'
  BY <1>1, <1>2 DEF RoutedBehind
<1>8. OncePerRun'
  <2> SUFFICES ASSUME NEW e \in Domains, ppc'[e] = "forward" PROVE route'[held'[e]] = "none"
    BY DEF OncePerRun
  <2>1. e # c /\ ppc[e] = "forward" /\ held'[e] = held[e]
    BY <1>1
  <2>2. held[e] \in Deposits /\ SourceOf[held[e]] = e /\ route[held[e]] = "none"
    BY <2>1 DEF Holding, OncePerRun
  <2> QED
    BY <1>1, <1>2, <2>1, <2>2
<1> QED
  BY <1>4, <1>5, <1>6, <1>7, <1>8

\* A route that runs goes on, and ends unresolved only for want of a chain.
LEMMA RouteRoutes ==
    ASSUME RouteInv, NEW d \in Deposits, NoResolver(d) \/ Process(d) \/ WriteReturns(d)
    PROVE  RouteInv'
<1> USE DEF RouteInv
<1>1. /\ route[d] # "none"
      /\ last' = last /\ rpc' = rpc /\ registry' = registry /\ ppc' = ppc
      /\ held' = held /\ lost' = lost
      /\ ppc \in [Domains -> PollEventsStates] /\ held \in [Domains -> Deposits \cup {0}]
      /\ route \in [Deposits -> RouteStates] /\ outcome \in [Deposits -> SUBSET Outcomes]
  BY DEF NoResolver, Process, WriteReturns, listenerVars, RelayerType
<1>2. PICK r \in {"write", "done"} : route' = [route EXCEPT ![d] = r]
  BY DEF NoResolver, Process, WriteReturns, RouteEnds
<1>3. PICK R \in SUBSET Outcomes :
        /\ outcome' = [outcome EXCEPT ![d] = @ \cup R]
        /\ "unresolved" \in R => DestOf[d] \notin registry
  <2>1. CASE UNCHANGED outcome
    <3>1. outcome' = [outcome EXCEPT ![d] = @ \cup {}]
      BY <2>1, <1>1
    <3>2. {} \in SUBSET Outcomes /\ ("unresolved" \in {} => DestOf[d] \notin registry)
      OBVIOUS
    <3> QED
      BY <3>1, <3>2, Zenon
  <2>2. ASSUME NEW result \in Outcomes, RouteEnds(d, result),
               result = "unresolved" => DestOf[d] \notin registry
        PROVE  \E R \in SUBSET Outcomes :
                  /\ outcome' = [outcome EXCEPT ![d] = @ \cup R]
                  /\ "unresolved" \in R => DestOf[d] \notin registry
    <3>1. {result} \in SUBSET Outcomes /\ outcome' = [outcome EXCEPT ![d] = @ \cup {result}]
      BY <2>2 DEF RouteEnds
    <3>2. "unresolved" \in {result} => DestOf[d] \notin registry
      BY <2>2
    <3> QED
      BY <3>1, <3>2
  <2> QED
    BY <2>1, <2>2 DEF NoResolver, Process, WriteReturns, Outcomes
<1>4. registry = Domains
  BY <1>1 DEF AllRegistered
<1>5. RelayerType'
  BY <1>1, <1>2, <1>3 DEF RelayerType, RouteStates
<1>6. AllRegistered'
  BY <1>1, <1>4 DEF AllRegistered
<1>7. ResolvedIfConfigured'
  BY <1>1, <1>3, <1>4 DEF ResolvedIfConfigured
<1>8. Holding'
  BY <1>1 DEF Holding
<1>9. RoutedBehind'
  BY <1>1, <1>2 DEF RoutedBehind
<1>10. OncePerRun'
  BY <1>1, <1>2 DEF OncePerRun, Holding
<1> QED
  BY <1>5, <1>6, <1>7, <1>8, <1>9, <1>10

\* A restarted process has routed nothing yet.
LEMMA CrashRoutes ==
    ASSUME RouteInv, Crash
    PROVE  RouteInv'
<1> USE DEF RouteInv
<1>1. RelayerType'
  BY DEF Crash, RelayerType, StartStates, PollEventsStates, RouteStates
<1>2. AllRegistered' /\ ResolvedIfConfigured' /\ RoutedBehind' /\ Holding' /\ OncePerRun'
  BY DEF Crash, AllRegistered, ResolvedIfConfigured, RoutedBehind, Holding, OncePerRun
<1> QED
  BY <1>1, <1>2

------------------------------------------------------------------------------
(* The account of every message: one lemma per group of actions           *)

\* A restart begins at a block, at the configured or at the stored one, and
\* never before the configured one.
LEMMA ResumeBound ==
    ASSUME ListenerTypeOK, NEW c \in Domains
    PROVE  /\ ResumeBlock(c) \in Nat
           /\ StartBlock[c] <= ResumeBlock(c)
           /\ ResumeBlock(c) = StartBlock[c]
                \/ (db[c] # NotFound /\ ResumeBlock(c) = db[c])
<1>1. StartBlock[c] \in Nat /\ db[c] \in Nat \cup {NotFound} /\ Fresh \in BOOLEAN
  BY ListenerAssumption DEF ListenerTypeOK
<1>2. CASE db[c] = NotFound
  BY <1>1, <1>2, NotANumber DEF ResumeBlock, GetStartBlock, GetLastStoredBlock
<1>3. CASE db[c] # NotFound
  BY <1>1, <1>3, NotANumber DEF ResumeBlock, GetStartBlock, GetLastStoredBlock
<1> QED
  BY <1>2, <1>3

\* Only what was decoded is ever held or sent.
LEMMA NextDecoded ==
    ASSUME ListenerTypeOK, Decoded, [Next]_vars
    PROVE  Decoded'
<1> USE DEF Decoded
<1>1. CASE UNCHANGED <<todo, handed>>
  BY <1>1
<1>2. CASE Crash
  BY <1>2 DEF Crash, Restart
<1>3. ASSUME NEW c \in Domains, FetchDepositLogs(c) PROVE Decoded'
  BY <1>3 DEF FetchDepositLogs, ListenerTypeOK
<1>4. ASSUME NEW c \in Domains, HandleEventFails(c) PROVE Decoded'
  BY <1>4 DEF HandleEventFails, ListenerTypeOK
<1>5. ASSUME NEW c \in Domains, TakeEvent(c) PROVE Decoded'
  BY <1>5 DEF TakeEvent, Send, ListenerTypeOK
<1>6. CASE EnterLoop \/ StartReturns
  BY <1>6, <1>1 DEF EnterLoop, StartReturns, listenerVars
<1>7. ASSUME NEW c \in Domains,
             \/ StartChain(c) \/ Boot(c) \/ BootFails(c) \/ Forward(c)
             \/ PollEventsReturns(c) \/ ChainGrows(c)
      PROVE  Decoded'
  BY <1>7, <1>1 DEF StartChain, Boot, BootFails, Forward, PollEventsReturns, ChainGrows,
     Grow, Listen, CloseStop, listenerVars
<1>8. ASSUME NEW c \in Domains, Listener(c) PROVE Decoded'
  BY <1>8, <1>1, <1>3, <1>4 DEF Listener, Poll, Return, FetchFails, HandleEvent, StoreBlock
<1>9. ASSUME NEW d \in Deposits, NoResolver(d) \/ Process(d) \/ WriteReturns(d)
      PROVE  Decoded'
  BY <1>9, <1>1 DEF NoResolver, Process, WriteReturns, listenerVars
<1>10. CASE UNCHANGED vars
  BY <1>10, <1>1 DEF vars, listenerVars
<1> QED
  BY <1>2, <1>5, <1>6, <1>7, <1>8, <1>9, <1>10 DEF Next

\* Windows, retries and restarts never put the place to resume at in front of
\* the cursor.
LEMMA ListenerResumes ==
    ASSUME ListenerInv, ResumeBehind, [ListenerNext]_listenerVars
    PROVE  ResumeBehind'
<1> SUFFICES ASSUME ~Latest, NEW e \in Domains, lpc'[e] # "off"
             PROVE  ResumeBlock(e)' <= startBlock'[e]
  BY DEF ResumeBehind
<1>2. ListenerTypeOK /\ CursorSet /\ WindowConfirmed /\ Latest = FALSE
  BY ListenerAssumption DEF ListenerInv
<1>3. /\ ResumeBlock(e) \in Nat /\ StartBlock[e] \in Nat /\ StartBlock[e] <= ResumeBlock(e)
      /\ lpc \in [Domains -> PollingStates] /\ startBlock \in [Domains -> Nat \cup {Nil}]
      /\ endBlock \in [Domains -> Nat] /\ db \in [Domains -> Nat \cup {NotFound}]
  BY <1>2, ResumeBound, ListenerAssumption DEF ListenerTypeOK
<1>4. CASE Restart
  BY <1>4 DEF Restart
<1>5. CASE lpc[e] # "off" /\ startBlock'[e] = startBlock[e] /\ db'[e] = db[e]
  BY <1>2, <1>5 DEF ResumeBehind, ResumeBlock
<1>6. CASE CloseStop \/ UNCHANGED listenerVars
  BY <1>5, <1>6 DEF CloseStop, listenerVars
<1>7. ASSUME NEW c \in Domains, Grow(c) \/ Receive(c)
      PROVE  ResumeBlock(e)' <= startBlock'[e]
  BY <1>3, <1>5, <1>7 DEF Grow, Receive, Send
<1>8. ASSUME NEW c \in Domains, Listen(c) PROVE ResumeBlock(e)' <= startBlock'[e]
  <2>1. CASE c = e
    <3>1. ResumeBlock(e)' = ResumeBlock(e) /\ startBlock'[e] = ResumeBlock(e)
      BY <1>2, <1>3, <1>8, <2>1 DEF Listen, ResumeBlock
    <3> QED
      BY <1>3, <3>1
  <2> QED
    BY <1>3, <1>5, <1>8, <2>1 DEF Listen
<1>9. ASSUME NEW c \in Domains, StoreBlock(c) PROVE ResumeBlock(e)' <= startBlock'[e]
  <2>1. CASE c = e
    <3>1. /\ startBlock[e] \in Nat /\ ResumeBlock(e) <= startBlock[e]
          /\ startBlock[e] <= endBlock[e] /\ startBlock'[e] = endBlock[e] + 1
          /\ db'[e] = db[e] \/ db'[e] = endBlock[e]
          /\ endBlock[e] \in Nat
      BY <1>2, <1>3, <1>9, <2>1
         DEF StoreBlock, CursorSet, WindowConfirmed, ResumeBehind, BlockBytes
    <3>2. CASE db'[e] = db[e]
      <4>1. ResumeBlock(e)' = ResumeBlock(e)
        BY <3>2 DEF ResumeBlock
      <4> QED
        BY <1>3, <3>1, <4>1
    <3>3. CASE db'[e] = endBlock[e]
      <4>1. ResumeBlock(e)' = StartBlock[e] \/ ResumeBlock(e)' = endBlock[e]
        BY <3>1, <3>3, NotANumber, <1>3 DEF ResumeBlock, GetStartBlock, GetLastStoredBlock
      <4> QED
        BY <1>3, <3>1, <4>1
    <3> QED
      BY <3>1, <3>2, <3>3
  <2> QED
    BY <1>3, <1>5, <1>9, <2>1 DEF StoreBlock
<1>10. ASSUME NEW c \in Domains, NEW h \in LatestBlock(c), Poll(c, h)
       PROVE  ResumeBlock(e)' <= startBlock'[e]
  <2>1. startBlock'[e] = startBlock[e] /\ lpc[e] # "off"
    BY <1>2, <1>3, <1>10 DEF Poll, CursorSet
  <2> QED
    BY <1>5, <1>10, <2>1 DEF Poll
<1>11. ASSUME NEW c \in Domains,
              \/ Return(c) \/ FetchDepositLogs(c) \/ FetchFails(c)
              \/ HandleEvent(c) \/ HandleEventFails(c)
       PROVE  ResumeBlock(e)' <= startBlock'[e]
  BY <1>3, <1>5, <1>11 DEF Return, FetchDepositLogs, FetchFails, HandleEvent,
     HandleEventFails
<1> QED
  BY <1>4, <1>6, <1>7, <1>8, <1>9, <1>10, <1>11 DEF ListenerNext, ListenerStep

\* Where a deposit stands depends on its own listener only.
LEMMA AheadLocal ==
    ASSUME NEW d \in Deposits, NEW s \in Domains, s = SourceOf[d],
           lpc'[s] = lpc[s], todo'[s] = todo[s], endBlock'[s] = endBlock[s],
           startBlock'[s] = startBlock[s], db'[s] = db[s], Ahead(d)
    PROVE  Ahead(d)'
  BY DEF Ahead, ResumeBlock

\* A listener comes by what is ahead of it: it stays ahead until it is sent or
\* refused.
LEMMA AheadStays ==
    ASSUME ListenerInv, Decoded, ~Latest, NEW d \in handed, Ahead(d),
           NEW c \in Domains,
           Grow(c) \/ ListenerStep(c) \/ (\E e \in todo[c] : e # d /\ Send(c, e))
    PROVE  Ahead(d)' \/ d \in refused'
<1> DEFINE s == SourceOf[d]
<1>1. /\ d \in Deposits /\ d \notin Undecodable /\ s \in Domains
      /\ BlockOf[d] \in Nat /\ Latest = FALSE
  BY ListenerAssumption DEF ListenerInv, ListenerTypeOK, Decoded
<1>2. /\ lpc \in [Domains -> PollingStates] /\ startBlock \in [Domains -> Nat \cup {Nil}]
      /\ endBlock \in [Domains -> Nat] /\ db \in [Domains -> Nat \cup {NotFound}]
      /\ todo \in [Domains -> SUBSET Deposits] /\ CursorSet
  BY DEF ListenerInv, ListenerTypeOK
<1>3. CASE s # c
  BY <1>1, <1>2, <1>3, AheadLocal DEF Grow, ListenerStep, Listen, Poll, Return,
     FetchDepositLogs, FetchFails, HandleEvent, HandleEventFails, Send, StoreBlock
<1>4. CASE Grow(c)
  BY <1>1, <1>4, AheadLocal DEF Grow
<1>5. CASE s = c /\ Listen(c)
  BY <1>1, <1>2, <1>5 DEF Listen, Ahead, ResumeBlock
<1>6. CASE s = c /\ \E h \in LatestBlock(c) : Poll(c, h)
  <2>1. PICK h \in LatestBlock(c) : Poll(c, h)
    BY <1>6
  <2>2. startBlock' = startBlock /\ lpc[c] = "loop" /\ lpc'[c] \in {"loop", "fetch"}
    BY <1>1, <1>2, <2>1 DEF Poll, CursorSet
  <2> QED
    BY <1>6, <2>2 DEF Ahead
<1>7. CASE s = c /\ (Return(c) \/ FetchFails(c))
  BY <1>2, <1>7 DEF Return, FetchFails, Ahead
<1>8. CASE s = c /\ FetchDepositLogs(c)
  BY <1>1, <1>2, <1>8 DEF FetchDepositLogs, LogsIn, DepositsOf, Ahead
<1>9. CASE s = c /\ HandleEvent(c)
  BY <1>2, <1>9 DEF HandleEvent, Ahead
<1>10. CASE s = c /\ HandleEventFails(c)
  BY <1>2, <1>10 DEF HandleEventFails, Ahead
<1>11. CASE s = c /\ StoreBlock(c)
  BY <1>1, <1>2, <1>11 DEF StoreBlock, Ahead
<1>12. CASE s = c /\ \E e \in todo[c] : e # d /\ Send(c, e)
  BY <1>2, <1>12 DEF Send, Ahead
<1> QED
  BY <1>3, <1>4, <1>5, <1>6, <1>7, <1>8, <1>9, <1>10, <1>11, <1>12 DEF ListenerStep

\* The places a message that was handed over can be in.
Accounts(d) == InFlight(d) \/ Decided(d) \/ d \in lost \/ Ahead(d)

\* Steps of the listeners lose no message that is accounted for.
LEMMA ListenerAccounts ==
    ASSUME ListenerInv, Decoded, ~Latest, NEW d \in handed, Accounts(d),
           NEW c \in Domains, UNCHANGED <<held, route, outcome, lost>>,
           Grow(c) \/ ListenerStep(c)
    PROVE  Accounts(d)'
<1>1. refused \subseteq refused'
  BY DEF Grow, ListenerStep, Listen, Poll, Return, FetchDepositLogs, FetchFails,
     HandleEvent, HandleEventFails, StoreBlock
<1>2. CASE InFlight(d) \/ Decided(d) \/ d \in lost
  BY <1>1, <1>2 DEF Accounts, InFlight, Decided
<1>3. CASE Ahead(d)
  BY <1>3, AheadStays DEF Accounts, Decided
<1> QED
  BY <1>2, <1>3 DEF Accounts

\* Nor do steps of the process that the listeners take no part in.
LEMMA UnlistenedAccounts ==
    ASSUME ListenerInv, NEW d \in Deposits, Accounts(d),
           UNCHANGED <<db, lpc, startBlock, endBlock, todo, refused, lost>>,
           InFlight(d) => (InFlight(d) \/ Decided(d))',
           outcome[d] \subseteq outcome'[d]
    PROVE  Accounts(d)'
<1>1. CASE InFlight(d) \/ Decided(d) \/ d \in lost
  BY <1>1 DEF Accounts, Decided
<1>2. CASE Ahead(d)
  BY <1>2, AheadLocal, ListenerAssumption DEF Accounts
<1> QED
  BY <1>1, <1>2 DEF Accounts

\* Every step keeps the account.
LEMMA NextAccounted ==
    ASSUME ListenerInv, RouteInv, AccountInv, [Next]_vars
    PROVE  Accounted'
<1> SUFFICES ASSUME ~Latest, NEW d \in handed' PROVE Accounts(d)'
  BY DEF Accounted, Accounts
<1>1. \A e \in handed : Accounts(e)
  BY DEF AccountInv, Accounted, Accounts
<1>2. /\ handed \subseteq Deposits /\ \A e \in Deposits : e # 0 /\ SourceOf[e] \in Domains
      /\ RelayerType /\ Decoded
  BY ListenerAssumption DEF ListenerInv, ListenerTypeOK, RouteInv, AccountInv
<1>3. CASE EnterLoop \/ StartReturns \/ UNCHANGED vars
  BY <1>1, <1>2, <1>3, UnlistenedAccounts
     DEF EnterLoop, StartReturns, vars, relayerVars, listenerVars, InFlight
<1>4. ASSUME NEW c \in Domains, StartChain(c) \/ PollEventsReturns(c) \/ BootFails(c)
      PROVE  Accounts(d)'
  BY <1>1, <1>2, <1>4, UnlistenedAccounts
     DEF StartChain, PollEventsReturns, BootFails, CloseStop, listenerVars, InFlight
<1>5. ASSUME NEW c \in Domains, Boot(c) \/ Listener(c) \/ ChainGrows(c)
      PROVE  Accounts(d)'
  <2>1. d \in handed
    BY <1>5 DEF Boot, Listener, ChainGrows, Grow, Listen, Poll, Return, FetchDepositLogs,
       FetchFails, HandleEvent, HandleEventFails, StoreBlock
  <2>2. UNCHANGED <<held, route, outcome, lost>> /\ (Grow(c) \/ ListenerStep(c))
    BY <1>5 DEF Boot, Listener, ChainGrows, ListenerStep, relayerVars
  <2> QED
    BY <1>1, <1>2, <2>1, <2>2, ListenerAccounts
<1>6. ASSUME NEW c \in Domains, TakeEvent(c) PROVE Accounts(d)'
  <2>1. PICK e \in todo[c] : Send(c, e) /\ held' = [held EXCEPT ![c] = e]
    BY <1>6 DEF TakeEvent
  <2>2. /\ handed' = handed \cup {e} /\ refused' = refused /\ e \in Deposits
        /\ SourceOf[e] = c /\ held[c] = 0
        /\ held \in [Domains -> Deposits \cup {0}]
        /\ UNCHANGED <<route, outcome, lost>>
    BY <1>6, <2>1 DEF TakeEvent, Send, ListenerInv, ListenerTypeOK, TodoInWindow,
       RouteInv, Holding, RelayerType
  <2>3. CASE d = e
    BY <2>1, <2>2, <2>3 DEF Accounts, InFlight
  <2>4. CASE d # e /\ (InFlight(d) \/ Decided(d) \/ d \in lost)
    BY <1>2, <2>1, <2>2, <2>4 DEF Accounts, InFlight, Decided
  <2>5. CASE d # e /\ Ahead(d)
    <3>1. d \in handed
      BY <2>2, <2>5
    <3>2. Ahead(d)' \/ d \in refused'
      BY <1>2, <2>1, <2>5, <3>1, AheadStays
    <3> QED
      BY <3>2 DEF Accounts, Decided
  <2> QED
    BY <1>1, <2>2, <2>3, <2>4, <2>5 DEF Accounts
<1>7. ASSUME NEW c \in Domains, Forward(c) PROVE Accounts(d)'
  <2>1. d \in handed /\ d \in Deposits /\ UNCHANGED <<listenerVars, outcome, lost>>
    BY <1>2, <1>7 DEF Forward, listenerVars
  <2>2. /\ route' = [route EXCEPT ![held[c]] = "lookup"] /\ held' = [held EXCEPT ![c] = 0]
        /\ route \in [Deposits -> RouteStates] /\ held \in [Domains -> Deposits \cup {0}]
    BY <1>2, <1>7 DEF Forward, RelayerType
  <2>3. InFlight(d) => InFlight(d)'
    BY <1>2, <2>1, <2>2 DEF InFlight
  <2> QED
    BY <1>1, <2>1, <2>3, UnlistenedAccounts DEF listenerVars
<1>8. ASSUME NEW e \in Deposits, NoResolver(e) \/ Process(e) \/ WriteReturns(e)
      PROVE  Accounts(d)'
  <2>1. d \in handed /\ d \in Deposits /\ UNCHANGED <<listenerVars, held, lost>>
    BY <1>2, <1>8 DEF NoResolver, Process, WriteReturns, listenerVars
  <2>2. /\ route \in [Deposits -> RouteStates] /\ outcome \in [Deposits -> SUBSET Outcomes]
        /\ \/ route' = [route EXCEPT ![e] = "write"] /\ outcome' = outcome
           \/ \E r \in Outcomes : outcome' = [outcome EXCEPT ![e] = @ \cup {r}]
                                /\ route' = [route EXCEPT ![e] = "done"]
    BY <1>2, <1>8 DEF NoResolver, Process, WriteReturns, RouteEnds, RelayerType, Outcomes
  <2>3. outcome[d] \subseteq outcome'[d]
    BY <2>1, <2>2
  <2>4. InFlight(d) => (InFlight(d) \/ Decided(d))'
    BY <2>1, <2>2 DEF InFlight, Decided
  <2> QED
    BY <1>1, <2>1, <2>3, <2>4, UnlistenedAccounts DEF listenerVars
<1>9. CASE Crash
  <2> DEFINE s == SourceOf[d]
  <2>1. /\ d \in handed /\ d \in Deposits /\ s \in Domains
        /\ db' = db /\ refused' = refused /\ outcome' = outcome /\ lpc'[s] = "off"
        /\ lost' = lost \cup {e \in Deposits : /\ InFlight(e)
                                              /\ BlockOf[e] < ResumeBlock(SourceOf[e])}
    BY <1>2, <1>9 DEF Crash, Restart
  <2>2. BlockOf[d] \in Nat /\ ResumeBlock(s) \in Nat
    BY <2>1, ResumeBound, ListenerAssumption DEF ListenerInv
  <2>3. Ahead(d)' <=> ResumeBlock(s) <= BlockOf[d]
    BY <2>1 DEF Ahead, ResumeBlock
  <2>4. CASE InFlight(d)
    BY <2>1, <2>2, <2>3, <2>4 DEF Accounts
  <2>5. CASE Decided(d) \/ d \in lost
    BY <2>1, <2>5 DEF Accounts, Decided
  <2>6. CASE Ahead(d)
    <3>1. CASE lpc[s] = "off"
      BY <2>3, <2>6, <3>1 DEF Accounts, Ahead
    <3>2. CASE lpc[s] # "off"
      <4>1. /\ startBlock[s] \in Nat /\ ResumeBlock(s) <= startBlock[s]
            /\ endBlock[s] \in Nat
        BY <2>1, <3>2 DEF ListenerInv, ListenerTypeOK, CursorSet, AccountInv, ResumeBehind
      <4>2. startBlock[s] <= BlockOf[d]
        BY <2>1, <2>2, <2>6, <3>2, <4>1 DEF Ahead, ListenerInv, TodoInWindow, WindowConfirmed
      <4> QED
        BY <2>2, <2>3, <4>1, <4>2 DEF Accounts
    <3> QED
      BY <3>1, <3>2
  <2> QED
    BY <1>1, <2>1, <2>4, <2>5, <2>6 DEF Accounts
<1> QED
  BY <1>3, <1>4, <1>5, <1>6, <1>7, <1>8, <1>9 DEF Next

------------------------------------------------------------------------------
(* The theorems                                                           *)

\* The inductive invariant of the whole relayer.
RelayerInv == ListenerInv /\ RouteInv /\ AccountInv

LEMMA InitRelayerInv == Init => RelayerInv
<1> SUFFICES ASSUME Init PROVE RelayerInv
  OBVIOUS
<1>1. ListenerInv
  BY InitListenerInv DEF Init
<1>2. RouteInv
  BY DEF Init, RouteInv, RelayerType, AllRegistered, ResolvedIfConfigured, Holding,
     RoutedBehind, OncePerRun, StartStates, PollEventsStates, RouteStates
<1>3. AccountInv
  BY DEF Init, InitListener, AccountInv, Decoded, ResumeBehind, Accounted
<1> QED
  BY <1>1, <1>2, <1>3 DEF RelayerInv

LEMMA NextRelayerInv == RelayerInv /\ [Next]_vars => RelayerInv'
<1> SUFFICES ASSUME RelayerInv, [Next]_vars PROVE RelayerInv'
  OBVIOUS
<1>1. ListenerInv /\ RouteInv /\ AccountInv
  BY DEF RelayerInv
<1>2. [ListenerNext]_listenerVars
  BY RelayerStepsListen DEF vars
<1>3. ListenerInv'
  BY <1>1, <1>2, NextListenerInv
<1>4. RouteInv'
  <2>1. CASE UNCHANGED vars
    BY <1>1, <2>1 DEF vars, relayerVars, listenerVars, RouteInv, RelayerType,
       AllRegistered, ResolvedIfConfigured, Holding, RoutedBehind, OncePerRun
  <2>2. CASE Next
    BY <1>1, <2>2, StartRoutes, CrashRoutes, PollEventsRoutes, TakeEventRoutes,
       ForwardRoutes, ListenerRoutes, RouteRoutes DEF Next
  <2> QED
    BY <2>1, <2>2
<1>5. AccountInv'
  <2>1. Decoded' /\ ResumeBehind'
    BY <1>1, <1>2, NextDecoded, ListenerResumes DEF ListenerInv, AccountInv
  <2> QED
    BY <1>1, <2>1, NextAccounted DEF AccountInv
<1> QED
  BY <1>3, <1>4, <1>5 DEF RelayerInv

\* The invariant holds in every reachable state.
THEOREM RelayerInvariance == Spec => []RelayerInv
  BY InitRelayerInv, NextRelayerInv, PTL DEF Spec

\* Type correctness of the relayer and its listeners.
THEOREM RelayerTypeCorrect == Spec => []TypeOK
<1>1. RelayerInv => TypeOK
  BY DEF RelayerInv, ListenerInv, RouteInv, RelayerType, TypeOK
<1> QED
  BY <1>1, RelayerInvariance, PTL

\* A message is dropped for want of a resolver only when its destination is
\* no configured chain, however Start and the chains it starts interleave.
THEOREM ConfiguredIsResolved == Spec => []ResolvedIfConfigured
<1>1. RelayerInv => ResolvedIfConfigured
  BY DEF RelayerInv, RouteInv
<1> QED
  BY <1>1, RelayerInvariance, PTL

\* No run of the process routes a deposit twice.
THEOREM RoutedOncePerRun == Spec => []OncePerRun
<1>1. RelayerInv => OncePerRun
  BY DEF RelayerInv, RouteInv
<1> QED
  BY <1>1, RelayerInvariance, PTL

\* No message disappears between listener, channels and routes, except those
\* in flight at a crash whose block the store already claims.
THEOREM NoMessageDisappears == Spec => []Accounted
<1>1. RelayerInv => Accounted
  BY DEF RelayerInv, AccountInv
<1> QED
  BY <1>1, RelayerInvariance, PTL

===============================================================================
