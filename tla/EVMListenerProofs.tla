-------------------------- MODULE EVMListenerProofs --------------------------
(***************************************************************************)
(* What the listener guarantees for any number of domains and deposits,    *)
(* any window size, any confirmation depth and any number of crashes.      *)
(***************************************************************************)
EXTENDS EVMListener, TLAPS

\* While a window is being worked on it is a proper range of blocks with
\* BlockDelay blocks on top of it.
WindowConfirmed ==
    \A c \in Domains : lpc[c] \in {"fetch", "handle", "send"} =>
        /\ startBlock[c] # Nil
        /\ startBlock[c] <= endBlock[c]
        /\ endBlock[c] + BlockDelay <= head[c]

\* Logs wait to be handled only inside the window they were fetched for.
TodoInWindow ==
    \A c \in Domains : \A d \in todo[c] :
        /\ lpc[c] \in {"handle", "send"}
        /\ SourceOf[d] = c
        /\ startBlock[c] <= BlockOf[d]
        /\ BlockOf[d] <= endBlock[c]

\* Once fetched, every log of the window is settled or still waits.
WindowCovered ==
    \A c \in Domains : lpc[c] \in {"handle", "send"} =>
        \A d \in DepositsOf(c) :
            startBlock[c] <= BlockOf[d] /\ BlockOf[d] <= endBlock[c]
                => d \in todo[c] \/ d \in Settled

\* The last handled deposit lies behind the cursor or in the current window,
\* and before everything that waits.
LastBehind ==
    \A c \in Domains : last[c] # 0 =>
        /\ SourceOf[last[c]] = c
        /\ startBlock[c] # Nil
        /\ lpc[c] \in {"loop", "fetch", "returned"} => BlockOf[last[c]] < startBlock[c]
        /\ lpc[c] \in {"handle", "send"} => BlockOf[last[c]] <= endBlock[c]
        /\ lpc[c] # "off"
        /\ \A d \in todo[c] : last[c] < d

\* Only LatestBlock leaves a running listener without a cursor.
CursorSet ==
    \A c \in Domains : lpc[c] # "off" /\ ~Latest => startBlock[c] # Nil

\* The inductive invariant.
ListenerInv ==
    /\ ListenerTypeOK
    /\ CursorSet
    /\ WindowConfirmed
    /\ TodoInWindow
    /\ WindowCovered
    /\ LastBehind
    /\ CursorCovered
    /\ DurableCovered
    /\ Confirmed

-----------------------------------------------------------------------------
(* Every action preserves the invariant                                    *)

\* Log numbers follow block numbers.
LEMMA LaterBlockLaterLog ==
    ASSUME NEW d \in Deposits, NEW e \in Deposits,
           SourceOf[d] = SourceOf[e], BlockOf[d] < BlockOf[e]
    PROVE  d < e
<1>1. d \in Nat /\ e \in Nat /\ BlockOf[d] \in Nat /\ BlockOf[e] \in Nat
  BY ListenerAssumption
<1>2. e < d => BlockOf[e] <= BlockOf[d]
  BY ListenerAssumption
<1> QED
  BY <1>1, <1>2

\* GetStartBlock gives a number unless LatestBlock is set, and passes at most
\* the blocks before the stored one.
LEMMA StartBlockBound ==
    ASSUME NEW stored \in Nat \cup {NotFound}, NEW start \in Nat, ~Latest
    PROVE  LET b == GetStartBlock(stored, start, Latest, Fresh) IN
           /\ b \in Nat
           /\ b = start \/ (stored # NotFound /\ b = stored)
<1>1. GetLastStoredBlock(stored) \in Nat
  BY DEF GetLastStoredBlock
<1>2. CASE stored = NotFound
  BY <1>2 DEF GetStartBlock, GetLastStoredBlock
<1>3. CASE stored # NotFound
  BY <1>3 DEF GetStartBlock, GetLastStoredBlock
<1> QED
  BY <1>2, <1>3

\* A new block confirms more and unsettles nothing.
LEMMA GrowInv ==
    ASSUME NEW c \in Domains, ListenerInv, Grow(c)
    PROVE  ListenerInv'
<1> USE ListenerAssumption, NotANumber DEF ListenerInv
<1>1. ListenerTypeOK'
  BY DEF ListenerTypeOK, PollingStates, Grow
<1>2. WindowConfirmed'
  BY DEF ListenerTypeOK, WindowConfirmed, PollingStates, Grow
<1>3. TodoInWindow'
  BY DEF ListenerTypeOK, TodoInWindow, Grow
<1>4. WindowCovered'
  BY DEF ListenerTypeOK, WindowCovered, DepositsOf, Settled, Grow
<1>5. LastBehind'
  BY DEF ListenerTypeOK, LastBehind, Grow
<1>6. CursorCovered'
  BY DEF ListenerTypeOK, CursorCovered, DepositsOf, Settled, Expected, Grow
<1>7. DurableCovered'
  BY DEF ListenerTypeOK, DurableCovered, DepositsOf, Settled, Expected, Grow
<1>8. Confirmed'
  BY DEF ListenerTypeOK, Confirmed, Grow
<1>9. CursorSet'
  BY DEF ListenerTypeOK, CursorSet, Grow
<1> QED
  BY <1>1, <1>2, <1>3, <1>4, <1>5, <1>6, <1>7, <1>8, <1>9

\* A restart leaves the store and what was handed over as they were.
LEMMA RestartInv ==
    ASSUME ListenerInv, Restart
    PROVE  ListenerInv'
<1> USE ListenerAssumption, NotANumber DEF ListenerInv
<1>1. ListenerTypeOK'
  <2>1. /\ todo' = [c \in Domains |-> {}]
        /\ last' = [c \in Domains |-> 0]
    BY DEF Restart
  <2>2. /\ todo' \in [Domains -> SUBSET Deposits]
        /\ last' \in [Domains -> Deposits \cup {0}]
    BY <2>1
  <2>3. /\ lpc' \in [Domains -> PollingStates]
        /\ startBlock' \in [Domains -> Nat \cup {Nil}]
        /\ endBlock' \in [Domains -> Nat]
    BY DEF PollingStates, Restart
  <2>4. /\ crashes' \in Nat
        /\ UNCHANGED <<head, db, handed, refused>>
    BY DEF ListenerTypeOK, Restart
  <2>5. stop' \in BOOLEAN
    BY DEF Restart
  <2> QED
    BY <2>2, <2>3, <2>4, <2>5 DEF ListenerTypeOK
<1>2. WindowConfirmed'
  BY DEF ListenerTypeOK, WindowConfirmed, PollingStates, Restart
<1>3. TodoInWindow'
  BY DEF ListenerTypeOK, TodoInWindow, Restart
<1>4. WindowCovered'
  BY DEF ListenerTypeOK, WindowCovered, DepositsOf, Settled, Restart
<1>5. LastBehind'
  BY DEF ListenerTypeOK, LastBehind, Restart
<1>6. CursorCovered'
  BY DEF ListenerTypeOK, CursorCovered, DepositsOf, Settled, Expected, Restart
<1>7. DurableCovered'
  BY DEF ListenerTypeOK, DurableCovered, DepositsOf, Settled, Expected, Restart
<1>8. Confirmed'
  BY DEF ListenerTypeOK, Confirmed, Restart
<1>9. CursorSet'
  BY DEF ListenerTypeOK, CursorSet, Restart
<1> QED
  BY <1>1, <1>2, <1>3, <1>4, <1>5, <1>6, <1>7, <1>8, <1>9

\* Closing the stop channel touches no listener state.
LEMMA CloseStopInv ==
    ASSUME ListenerInv, CloseStop
    PROVE  ListenerInv'
<1> USE ListenerAssumption, NotANumber DEF ListenerInv
<1>1. ListenerTypeOK'
  BY DEF ListenerTypeOK, PollingStates, CloseStop
<1>2. WindowConfirmed'
  BY DEF ListenerTypeOK, WindowConfirmed, PollingStates, CloseStop
<1>3. TodoInWindow'
  BY DEF ListenerTypeOK, TodoInWindow, CloseStop
<1>4. WindowCovered'
  BY DEF ListenerTypeOK, WindowCovered, DepositsOf, Settled, CloseStop
<1>5. LastBehind'
  BY DEF ListenerTypeOK, LastBehind, CloseStop
<1>6. CursorCovered'
  BY DEF ListenerTypeOK, CursorCovered, DepositsOf, Settled, Expected, CloseStop
<1>7. DurableCovered'
  BY DEF ListenerTypeOK, DurableCovered, DepositsOf, Settled, Expected, CloseStop
<1>8. Confirmed'
  BY DEF ListenerTypeOK, Confirmed, CloseStop
<1>9. CursorSet'
  BY DEF ListenerTypeOK, CursorSet, CloseStop
<1> QED
  BY <1>1, <1>2, <1>3, <1>4, <1>5, <1>6, <1>7, <1>8, <1>9

\* A new listener starts at or before the first block that is not settled.
LEMMA ListenInv ==
    ASSUME NEW c \in Domains, ListenerInv, Listen(c)
    PROVE  ListenerInv'
<1> USE ListenerAssumption, NotANumber DEF ListenerInv
<1>1. ListenerTypeOK'
  BY DEF ListenerTypeOK, PollingStates, Listen, GetStartBlock, GetLastStoredBlock
<1>2. WindowConfirmed'
  BY DEF ListenerTypeOK, WindowConfirmed, PollingStates, Listen, GetStartBlock, GetLastStoredBlock
<1>3. TodoInWindow'
  BY DEF ListenerTypeOK, TodoInWindow, Listen, GetStartBlock, GetLastStoredBlock
<1>4. WindowCovered'
  BY DEF ListenerTypeOK, WindowCovered, DepositsOf, Settled, Listen, GetStartBlock, GetLastStoredBlock
<1>5. LastBehind'
  BY DEF ListenerTypeOK, LastBehind, Listen, GetStartBlock, GetLastStoredBlock
<1>0. ~Latest => /\ startBlock'[c] \in Nat
                 /\ \/ startBlock'[c] = StartBlock[c]
                    \/ db[c] # NotFound /\ startBlock'[c] = db[c]
  BY StartBlockBound DEF ListenerTypeOK, Listen
<1>6. CursorCovered'
  BY <1>0 DEF ListenerTypeOK, CursorCovered, DurableCovered, DepositsOf, Settled, Expected, Listen
<1>7. DurableCovered'
  BY DEF ListenerTypeOK, DurableCovered, DepositsOf, Settled, Expected, Listen, GetStartBlock, GetLastStoredBlock
<1>8. Confirmed'
  BY DEF ListenerTypeOK, Confirmed, Listen, GetStartBlock, GetLastStoredBlock
<1>9. CursorSet'
  BY <1>0 DEF ListenerTypeOK, CursorSet, Listen
<1> QED
  BY <1>1, <1>2, <1>3, <1>4, <1>5, <1>6, <1>7, <1>8, <1>9

\* A window starts at the cursor and ends below the confirmation depth.
LEMMA PollInv ==
    ASSUME NEW c \in Domains, NEW h \in LatestBlock(c), ListenerInv, Poll(c, h)
    PROVE  ListenerInv'
<1> USE ListenerAssumption, NotANumber DEF ListenerInv
<1>1. ListenerTypeOK'
  BY DEF ListenerTypeOK, PollingStates, Poll, LatestBlock, WindowEnd
<1>2. WindowConfirmed'
  BY DEF ListenerTypeOK, WindowConfirmed, PollingStates, Poll, LatestBlock, WindowEnd
<1>3. TodoInWindow'
  BY DEF ListenerTypeOK, TodoInWindow, Poll, LatestBlock, WindowEnd
<1>4. WindowCovered'
  BY DEF ListenerTypeOK, WindowCovered, DepositsOf, Settled, Poll, LatestBlock, WindowEnd
<1>5. LastBehind'
  BY DEF ListenerTypeOK, LastBehind, Poll, LatestBlock, WindowEnd
<1>6. CursorCovered'
  BY DEF ListenerTypeOK, CursorSet, CursorCovered, DepositsOf, Settled, Expected, Poll, LatestBlock, WindowEnd
<1>7. DurableCovered'
  BY DEF ListenerTypeOK, DurableCovered, DepositsOf, Settled, Expected, Poll, LatestBlock, WindowEnd
<1>8. Confirmed'
  BY DEF ListenerTypeOK, Confirmed, Poll, LatestBlock, WindowEnd
<1>9. CursorSet'
  BY DEF ListenerTypeOK, CursorSet, Poll, LatestBlock, WindowEnd
<1> QED
  BY <1>1, <1>2, <1>3, <1>4, <1>5, <1>6, <1>7, <1>8, <1>9

\* A listener that returns keeps its cursor.
LEMMA ReturnInv ==
    ASSUME NEW c \in Domains, ListenerInv, Return(c)
    PROVE  ListenerInv'
<1> USE ListenerAssumption, NotANumber DEF ListenerInv
<1>1. ListenerTypeOK'
  BY DEF ListenerTypeOK, PollingStates, Return
<1>2. WindowConfirmed'
  BY DEF ListenerTypeOK, WindowConfirmed, PollingStates, Return
<1>3. TodoInWindow'
  BY DEF ListenerTypeOK, TodoInWindow, Return
<1>4. WindowCovered'
  BY DEF ListenerTypeOK, WindowCovered, DepositsOf, Settled, Return
<1>5. LastBehind'
  BY DEF ListenerTypeOK, LastBehind, Return
<1>6. CursorCovered'
  BY DEF ListenerTypeOK, CursorCovered, DepositsOf, Settled, Expected, Return
<1>7. DurableCovered'
  BY DEF ListenerTypeOK, DurableCovered, DepositsOf, Settled, Expected, Return
<1>8. Confirmed'
  BY DEF ListenerTypeOK, Confirmed, Return
<1>9. CursorSet'
  BY DEF ListenerTypeOK, CursorSet, Return
<1> QED
  BY <1>1, <1>2, <1>3, <1>4, <1>5, <1>6, <1>7, <1>8, <1>9

\* The fetched logs are all the logs of the window.
LEMMA FetchInv ==
    ASSUME NEW c \in Domains, ListenerInv, FetchDepositLogs(c)
    PROVE  ListenerInv'
<1> USE ListenerAssumption, NotANumber DEF ListenerInv
<1>1. ListenerTypeOK'
  BY DEF ListenerTypeOK, PollingStates, FetchDepositLogs, LogsIn, DepositsOf, Settled
<1>2. WindowConfirmed'
  BY DEF ListenerTypeOK, WindowConfirmed, PollingStates, FetchDepositLogs, LogsIn, DepositsOf, Settled
<1>3. TodoInWindow'
  BY DEF ListenerTypeOK, TodoInWindow, WindowConfirmed, FetchDepositLogs, LogsIn, DepositsOf, Settled
<1>4. WindowCovered'
  BY DEF ListenerTypeOK, WindowCovered, DepositsOf, Settled, FetchDepositLogs, LogsIn
<1>5. LastBehind'
  <2> SUFFICES ASSUME NEW e \in Domains, last'[e] # 0
               PROVE  /\ SourceOf[last'[e]] = e
                      /\ startBlock'[e] # Nil
                      /\ lpc'[e] \in {"loop", "fetch", "returned"}
                            => BlockOf[last'[e]] < startBlock'[e]
                      /\ lpc'[e] \in {"handle", "send"}
                            => BlockOf[last'[e]] <= endBlock'[e]
                      /\ lpc'[e] # "off"
                      /\ \A d \in todo'[e] : last'[e] < d
    BY DEF LastBehind
  <2>1. CASE e # c
    BY <2>1 DEF ListenerTypeOK, LastBehind, FetchDepositLogs
  <2>2. CASE e = c
    <3>1. /\ last[c] # 0 /\ last'[c] = last[c] /\ SourceOf[last[c]] = c
          /\ startBlock[c] # Nil /\ startBlock' = startBlock
          /\ BlockOf[last[c]] < startBlock[c]
          /\ lpc'[c] = "handle" /\ endBlock' = endBlock
      BY <2>2 DEF ListenerTypeOK, LastBehind, FetchDepositLogs
    <3>2. startBlock[c] <= endBlock[c]
      BY DEF WindowConfirmed, FetchDepositLogs
    <3>3. \A d \in todo'[c] : d \in Deposits /\ SourceOf[d] = c /\ startBlock[c] <= BlockOf[d]
      BY DEF ListenerTypeOK, FetchDepositLogs, LogsIn, DepositsOf
    <3>4. last[c] \in Deposits /\ startBlock[c] \in Nat /\ endBlock[c] \in Nat
      BY <3>1 DEF ListenerTypeOK
    <3>5. \A d \in todo'[c] : last[c] < d
      <4> TAKE d \in todo'[c]
      <4>1. BlockOf[last[c]] \in Nat /\ BlockOf[d] \in Nat
        BY <3>3, <3>4
      <4>2. BlockOf[last[c]] < BlockOf[d]
        BY <3>1, <3>3, <3>4, <4>1
      <4> QED
        BY <3>1, <3>3, <3>4, <4>2, LaterBlockLaterLog
    <3>6. BlockOf[last[c]] <= endBlock[c]
      <4>1. BlockOf[last[c]] \in Nat
        BY <3>4
      <4> QED
        BY <3>1, <3>2, <3>4, <4>1
    <3> QED
      BY <2>2, <3>1, <3>5, <3>6
  <2> QED
    BY <2>1, <2>2
<1>6. CursorCovered'
  BY DEF ListenerTypeOK, CursorCovered, DepositsOf, Settled, Expected, FetchDepositLogs, LogsIn
<1>7. DurableCovered'
  BY DEF ListenerTypeOK, DurableCovered, DepositsOf, Settled, Expected, FetchDepositLogs, LogsIn
<1>8. Confirmed'
  BY DEF ListenerTypeOK, Confirmed, FetchDepositLogs, LogsIn, DepositsOf, Settled
<1>9. CursorSet'
  BY DEF ListenerTypeOK, CursorSet, FetchDepositLogs, LogsIn, DepositsOf, Settled
<1> QED
  BY <1>1, <1>2, <1>3, <1>4, <1>5, <1>6, <1>7, <1>8, <1>9

\* A failed query keeps the cursor.
LEMMA FetchFailsInv ==
    ASSUME NEW c \in Domains, ListenerInv, FetchFails(c)
    PROVE  ListenerInv'
<1> USE ListenerAssumption, NotANumber DEF ListenerInv
<1>1. ListenerTypeOK'
  BY DEF ListenerTypeOK, PollingStates, FetchFails
<1>2. WindowConfirmed'
  BY DEF ListenerTypeOK, WindowConfirmed, PollingStates, FetchFails
<1>3. TodoInWindow'
  BY DEF ListenerTypeOK, TodoInWindow, FetchFails
<1>4. WindowCovered'
  BY DEF ListenerTypeOK, WindowCovered, DepositsOf, Settled, FetchFails
<1>5. LastBehind'
  BY DEF ListenerTypeOK, LastBehind, TodoInWindow, FetchFails
<1>6. CursorCovered'
  BY DEF ListenerTypeOK, CursorCovered, DepositsOf, Settled, Expected, FetchFails
<1>7. DurableCovered'
  BY DEF ListenerTypeOK, DurableCovered, DepositsOf, Settled, Expected, FetchFails
<1>8. Confirmed'
  BY DEF ListenerTypeOK, Confirmed, FetchFails
<1>9. CursorSet'
  BY DEF ListenerTypeOK, CursorSet, FetchFails
<1> QED
  BY <1>1, <1>2, <1>3, <1>4, <1>5, <1>6, <1>7, <1>8, <1>9

\* A decoded log still waits.
LEMMA HandleEventInv ==
    ASSUME NEW c \in Domains, ListenerInv, HandleEvent(c)
    PROVE  ListenerInv'
<1> USE ListenerAssumption, NotANumber DEF ListenerInv
<1>1. ListenerTypeOK'
  BY DEF ListenerTypeOK, PollingStates, HandleEvent
<1>2. WindowConfirmed'
  BY DEF ListenerTypeOK, WindowConfirmed, PollingStates, HandleEvent
<1>3. TodoInWindow'
  BY DEF ListenerTypeOK, TodoInWindow, HandleEvent
<1>4. WindowCovered'
  BY DEF ListenerTypeOK, WindowCovered, DepositsOf, Settled, HandleEvent
<1>5. LastBehind'
  BY DEF ListenerTypeOK, LastBehind, HandleEvent
<1>6. CursorCovered'
  BY DEF ListenerTypeOK, CursorCovered, DepositsOf, Settled, Expected, HandleEvent
<1>7. DurableCovered'
  BY DEF ListenerTypeOK, DurableCovered, DepositsOf, Settled, Expected, HandleEvent
<1>8. Confirmed'
  BY DEF ListenerTypeOK, Confirmed, HandleEvent
<1>9. CursorSet'
  BY DEF ListenerTypeOK, CursorSet, HandleEvent
<1> QED
  BY <1>1, <1>2, <1>3, <1>4, <1>5, <1>6, <1>7, <1>8, <1>9

\* A reported deposit is settled.
LEMMA HandleEventFailsInv ==
    ASSUME NEW c \in Domains, ListenerInv, HandleEventFails(c)
    PROVE  ListenerInv'
<1> USE ListenerAssumption, NotANumber DEF ListenerInv
<1> PICK d \in todo[c] :
          /\ IsFirst(d, todo[c])
          /\ todo' = [todo EXCEPT ![c] = @ \ {d}]
          /\ refused' = refused \cup {d}
          /\ last' = [last EXCEPT ![c] = d]
  BY DEF HandleEventFails
<1>1. ListenerTypeOK'
  BY DEF ListenerTypeOK, PollingStates, HandleEventFails, IsFirst
<1>2. WindowConfirmed'
  BY DEF ListenerTypeOK, WindowConfirmed, PollingStates, HandleEventFails, IsFirst
<1>3. TodoInWindow'
  BY DEF ListenerTypeOK, TodoInWindow, HandleEventFails, IsFirst
<1>4. WindowCovered'
  BY DEF ListenerTypeOK, WindowCovered, DepositsOf, Settled, HandleEventFails, IsFirst
<1>5. LastBehind'
  BY DEF ListenerTypeOK, LastBehind, TodoInWindow, WindowConfirmed, HandleEventFails, IsFirst
<1>6. CursorCovered'
  BY DEF ListenerTypeOK, CursorCovered, DepositsOf, Settled, Expected, HandleEventFails, IsFirst
<1>7. DurableCovered'
  BY DEF ListenerTypeOK, DurableCovered, DepositsOf, Settled, Expected, HandleEventFails, IsFirst
<1>8. Confirmed'
  BY DEF ListenerTypeOK, Confirmed, HandleEventFails, IsFirst
<1>9. CursorSet'
  BY DEF ListenerTypeOK, CursorSet, HandleEventFails, IsFirst
<1> QED
  BY <1>1, <1>2, <1>3, <1>4, <1>5, <1>6, <1>7, <1>8, <1>9

\* A deposit that was handed over is settled and confirmed.
LEMMA SendInv ==
    ASSUME NEW c \in Domains, NEW d \in Deposits, ListenerInv, Send(c, d)
    PROVE  ListenerInv'
<1> USE ListenerAssumption, NotANumber DEF ListenerInv
<1>1. ListenerTypeOK'
  BY DEF ListenerTypeOK, PollingStates, Send, IsFirst
<1>2. WindowConfirmed'
  BY DEF ListenerTypeOK, WindowConfirmed, PollingStates, Send, IsFirst
<1>3. TodoInWindow'
  BY DEF ListenerTypeOK, TodoInWindow, Send, IsFirst
<1>4. WindowCovered'
  BY DEF ListenerTypeOK, WindowCovered, DepositsOf, Settled, Send, IsFirst
<1>5. LastBehind'
  BY DEF ListenerTypeOK, LastBehind, TodoInWindow, WindowConfirmed, Send, IsFirst
<1>6. CursorCovered'
  BY DEF ListenerTypeOK, CursorCovered, DepositsOf, Settled, Expected, Send, IsFirst
<1>7. DurableCovered'
  BY DEF ListenerTypeOK, DurableCovered, DepositsOf, Settled, Expected, Send, IsFirst
<1>8. Confirmed'
  BY DEF ListenerTypeOK, Confirmed, TodoInWindow, WindowConfirmed, Send, IsFirst
<1>9. CursorSet'
  BY DEF ListenerTypeOK, CursorSet, TodoInWindow, Send, IsFirst
<1> QED
  BY <1>1, <1>2, <1>3, <1>4, <1>5, <1>6, <1>7, <1>8, <1>9

\* Behind a finished window everything is settled.
LEMMA StoreBlockInv ==
    ASSUME NEW c \in Domains, ListenerInv, StoreBlock(c)
    PROVE  ListenerInv'
<1> USE ListenerAssumption, NotANumber DEF ListenerInv
<1>1. ListenerTypeOK'
  BY DEF ListenerTypeOK, PollingStates, StoreBlock, BlockBytes
<1>2. WindowConfirmed'
  BY DEF ListenerTypeOK, WindowConfirmed, PollingStates, StoreBlock, BlockBytes
<1>3. TodoInWindow'
  BY DEF ListenerTypeOK, TodoInWindow, StoreBlock, BlockBytes
<1>4. WindowCovered'
  BY DEF ListenerTypeOK, WindowCovered, DepositsOf, Settled, StoreBlock, BlockBytes
<1>5. LastBehind'
  <2>1. /\ startBlock' = [startBlock EXCEPT ![c] = endBlock[c] + 1]
        /\ lpc' = [lpc EXCEPT ![c] = "loop"]
        /\ lpc[c] = "handle"
        /\ todo' = todo /\ last' = last /\ endBlock' = endBlock
    BY DEF StoreBlock
  <2>2. endBlock[c] + 1 # Nil
    BY DEF ListenerTypeOK
  <2>3. last[c] # 0 => BlockOf[last[c]] < endBlock[c] + 1
    <3>1. last[c] # 0 => BlockOf[last[c]] \in Nat /\ BlockOf[last[c]] <= endBlock[c]
      BY <2>1 DEF ListenerTypeOK, LastBehind
    <3> QED
      BY <3>1 DEF ListenerTypeOK
  <2> QED
    BY <2>1, <2>2, <2>3 DEF ListenerTypeOK, LastBehind
<1>6. CursorCovered'
  BY DEF ListenerTypeOK, CursorCovered, WindowCovered, WindowConfirmed, DepositsOf, Settled, Expected, StoreBlock, BlockBytes
<1>7. DurableCovered'
  BY DEF ListenerTypeOK, DurableCovered, WindowCovered, CursorCovered, WindowConfirmed, DepositsOf, Settled, Expected, StoreBlock, BlockBytes
<1>8. Confirmed'
  BY DEF ListenerTypeOK, Confirmed, StoreBlock, BlockBytes
<1>9. CursorSet'
  BY DEF ListenerTypeOK, CursorSet, StoreBlock, BlockBytes
<1> QED
  BY <1>1, <1>2, <1>3, <1>4, <1>5, <1>6, <1>7, <1>8, <1>9

-----------------------------------------------------------------------------
(* The theorems                                                            *)

\* The invariant holds before the first poll.
LEMMA InitListenerInv == InitListener => ListenerInv
<1> SUFFICES ASSUME InitListener PROVE ListenerInv
  OBVIOUS
<1> USE ListenerAssumption, NotANumber
<1>1. ListenerTypeOK
  <2>1. todo = [c \in Domains |-> {}] /\ last = [c \in Domains |-> 0]
    BY DEF InitListener
  <2>2. todo \in [Domains -> SUBSET Deposits] /\ last \in [Domains -> Deposits \cup {0}]
    BY <2>1
  <2>3. stop \in BOOLEAN
    BY DEF InitListener
  <2> QED
    BY <2>2, <2>3 DEF ListenerTypeOK, InitListener, PollingStates
<1>2. CursorSet /\ WindowConfirmed /\ TodoInWindow /\ WindowCovered /\ LastBehind
  BY DEF InitListener, CursorSet, WindowConfirmed, TodoInWindow, WindowCovered, LastBehind
<1>3. CursorCovered /\ DurableCovered /\ Confirmed
  BY DEF InitListener, CursorCovered, DurableCovered, Confirmed
<1> QED
  BY <1>1, <1>2, <1>3 DEF ListenerInv

\* Every step of the listener, the chain and the process preserves it.
LEMMA NextListenerInv == ListenerInv /\ [ListenerNext]_listenerVars => ListenerInv'
<1> SUFFICES ASSUME ListenerInv, [ListenerNext]_listenerVars PROVE ListenerInv'
  OBVIOUS
<1>1. CASE Restart
  BY <1>1, RestartInv
<1>2. CASE CloseStop
  BY <1>2, CloseStopInv
<1>3. ASSUME NEW c \in Domains, Grow(c) PROVE ListenerInv'
  BY <1>3, GrowInv
<1>4. ASSUME NEW c \in Domains, Receive(c) PROVE ListenerInv'
  <2>1. PICK d \in todo[c] : Send(c, d)
    BY <1>4 DEF Receive
  <2>2. d \in Deposits
    BY DEF ListenerInv, ListenerTypeOK
  <2> QED
    BY <2>1, <2>2, SendInv
<1>5. ASSUME NEW c \in Domains, ListenerStep(c) PROVE ListenerInv'
  BY <1>5, ListenInv, PollInv, ReturnInv, FetchInv, FetchFailsInv, HandleEventInv,
     HandleEventFailsInv, StoreBlockInv DEF ListenerStep
<1>6. CASE UNCHANGED listenerVars
  BY <1>6 DEF listenerVars, ListenerInv, ListenerTypeOK, CursorSet, WindowConfirmed,
     TodoInWindow, WindowCovered, LastBehind, CursorCovered, DurableCovered, Confirmed,
     Settled
<1> QED
  BY <1>1, <1>2, <1>3, <1>4, <1>5, <1>6 DEF ListenerNext

\* The invariant holds in every reachable state.
THEOREM ListenerInvariance == ListenerSpec => []ListenerInv
  BY InitListenerInv, NextListenerInv, PTL DEF ListenerSpec

\* Type correctness of the listener.
THEOREM ListenerTypeCorrect == ListenerSpec => []ListenerTypeOK
<1>1. ListenerInv => ListenerTypeOK
  BY DEF ListenerInv
<1> QED
  BY <1>1, ListenerInvariance, PTL

\* ListenToEvents never moves its cursor past a deposit it did not handle.
THEOREM CursorNeverSkips == ListenerSpec => []CursorCovered
<1>1. ListenerInv => CursorCovered
  BY DEF ListenerInv
<1> QED
  BY <1>1, ListenerInvariance, PTL

\* The block store never claims a block whose deposits were not all handed
\* over, so that a crash at any point makes the listener skip nothing.
THEOREM StoreNeverSkips == ListenerSpec => []DurableCovered
<1>1. ListenerInv => DurableCovered
  BY DEF ListenerInv
<1> QED
  BY <1>1, ListenerInvariance, PTL

\* Only deposits under BlockDelay blocks are handed over.
THEOREM OnlyConfirmed == ListenerSpec => []Confirmed
<1>1. ListenerInv => Confirmed
  BY DEF ListenerInv
<1> QED
  BY <1>1, ListenerInvariance, PTL

\* Deposits of a domain are handled in log order and at most once per run.
THEOREM HandledInLogOrder == ListenerSpec => InLogOrder
<1>1. ASSUME ListenerInv, [ListenerNext]_listenerVars, crashes' = crashes,
             NEW c \in Domains, NEW d \in todo[c] \ todo'[c]
      PROVE  last[c] < d
  <2>1. CASE last[c] # 0
    BY <1>1, <2>1 DEF ListenerInv, LastBehind
  <2>2. CASE last[c] = 0
    <3>1. d \in Deposits
      BY <1>1 DEF ListenerInv, ListenerTypeOK
    <3>2. d \in Nat \ {0}
      BY <3>1, ListenerAssumption
    <3> QED
      BY <2>2, <3>2
  <2> QED
    BY <2>1, <2>2
<1>2. ListenerInv /\ [ListenerNext]_listenerVars =>
        [crashes' = crashes =>
           \A c \in Domains : \A d \in todo[c] \ todo'[c] : last[c] < d]_listenerVars
  BY <1>1
<1> QED
  BY <1>2, ListenerInvariance, PTL DEF ListenerSpec, InLogOrder

-----------------------------------------------------------------------------
(* Refinement of the stream of deposits                                    *)

\* The first waiting log of a window is the next deposit of the stream: what
\* is owed before it lies behind the cursor or was settled in this window.
LEMMA FirstIsNext ==
    ASSUME ListenerInv, NEW c \in Domains, NEW d \in todo[c], IsFirst(d, todo[c]),
           lpc[c] \in {"handle", "send"},
           handed' \cup refused' = (handed \cup refused) \cup {d},
           last' = [last EXCEPT ![c] = d]
    PROVE  Stream!Next
<1>1. /\ d \in Deposits /\ d \in Nat \ {0} /\ SourceOf[d] = c
      /\ BlockOf[d] \in Nat /\ BlockOf[d] <= endBlock[c]
  <2>1. d \in Deposits
    BY DEF ListenerInv, ListenerTypeOK
  <2> QED
    BY <2>1, ListenerAssumption DEF ListenerInv, TodoInWindow
<1>2. last[c] < d
  <2>1. CASE last[c] # 0
    BY <2>1 DEF ListenerInv, LastBehind
  <2>2. CASE last[c] = 0
    BY <1>1, <2>2
  <2> QED
    BY <2>1, <2>2
<1>3. ASSUME NEW e \in OwedBy(c), e < d PROVE e \in handed \cup refused
  <2>1. e \in Deposits /\ SourceOf[e] = c /\ Expected(e) /\ e \notin Undecodable
    BY <1>3 DEF OwedBy, DepositsOf
  <2>2. BlockOf[e] \in Nat /\ BlockOf[e] <= BlockOf[d]
    BY <1>1, <1>3, <2>1, ListenerAssumption
  <2>3. /\ startBlock[c] # Nil /\ startBlock[c] \in Nat /\ endBlock[c] \in Nat
    BY DEF ListenerInv, ListenerTypeOK, WindowConfirmed
  <2>4. e \in Settled
    <3>1. CASE BlockOf[e] < startBlock[c]
      BY <2>1, <2>3, <3>1 DEF ListenerInv, CursorCovered, DepositsOf
    <3>2. CASE ~(BlockOf[e] < startBlock[c])
      <4>1. startBlock[c] <= BlockOf[e] /\ BlockOf[e] <= endBlock[c]
        BY <1>1, <2>2, <2>3, <3>2
      <4>2. e \in todo[c] \/ e \in Settled
        BY <2>1, <4>1 DEF ListenerInv, WindowCovered, DepositsOf
      <4>3. e \notin todo[c]
        <5>1. e \in Nat
          BY <2>1, ListenerAssumption
        <5> QED
          BY <1>1, <1>3, <5>1 DEF IsFirst
      <4> QED
        BY <4>2, <4>3
    <3> QED
      BY <3>1, <3>2
  <2> QED
    BY <2>1, <2>4 DEF Settled
<1>4. Stream!Settle(c, d)
  BY <1>2, <1>3 DEF Stream!Settle
<1>5. d \in [k \in Domains |-> DepositsOf(k)][c]
  BY <1>1 DEF DepositsOf
<1> QED
  BY <1>4, <1>5 DEF Stream!Next

\* Every step of the listener is a step of the stream or leaves it alone.
LEMMA ListenerStepStreams ==
    ListenerInv /\ [ListenerNext]_listenerVars => [Stream!Next]_(Stream!streamVars)
<1> SUFFICES ASSUME ListenerInv, [ListenerNext]_listenerVars
             PROVE  Stream!Next \/ UNCHANGED Stream!streamVars
  OBVIOUS
<1>1. CASE Restart
  <2>1. last' = [c \in Domains |-> 0] /\ UNCHANGED <<handed, refused>>
    BY <1>1 DEF Restart
  <2>2. Stream!Resume
    BY <2>1 DEF Stream!Resume
  <2> QED
    BY <2>2 DEF Stream!Next
<1>2. CASE CloseStop
  BY <1>2 DEF CloseStop, Stream!streamVars
<1>3. ASSUME NEW c \in Domains, Grow(c) PROVE UNCHANGED Stream!streamVars
  BY <1>3 DEF Grow, Stream!streamVars
<1>4. ASSUME NEW c \in Domains, Receive(c) PROVE Stream!Next
  <2>1. PICK d \in todo[c] : Send(c, d)
    BY <1>4 DEF Receive
  <2> QED
    BY <2>1, FirstIsNext DEF Send
<1>5. ASSUME NEW c \in Domains, HandleEventFails(c) PROVE Stream!Next
  <2>1. PICK d \in todo[c] : /\ IsFirst(d, todo[c])
                            /\ refused' = refused \cup {d}
                            /\ last' = [last EXCEPT ![c] = d]
    BY <1>5 DEF HandleEventFails
  <2> QED
    BY <1>5, <2>1, FirstIsNext DEF HandleEventFails
<1>6. ASSUME NEW c \in Domains, ListenerStep(c), ~HandleEventFails(c)
      PROVE  UNCHANGED Stream!streamVars
  BY <1>6 DEF ListenerStep, Listen, Poll, Return, FetchDepositLogs, FetchFails,
     HandleEvent, StoreBlock, Stream!streamVars
<1>7. CASE UNCHANGED listenerVars
  BY <1>7 DEF listenerVars, Stream!streamVars
<1> QED
  BY <1>1, <1>2, <1>3, <1>4, <1>5, <1>6, <1>7 DEF ListenerNext

\* ListenToEvents implements the stream of deposits its reader relies on.
THEOREM ListenerImplementsStream == ListenerSpec => ImplementsStream
<1>1. InitListener => Stream!Init
  BY DEF InitListener, Stream!Init
<1> QED
  BY <1>1, ListenerStepStreams, ListenerInvariance, PTL
     DEF ListenerSpec, ImplementsStream, Stream!Spec

===============================================================================
