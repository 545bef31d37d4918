------------------------- MODULE SubstrateChainProofs -------------------------
(***************************************************************************)
(* What the Substrate listener and writer guarantee for any chain, any     *)
(* upgrades and undecodable blocks, and any number of failures and crashes.*)
(***************************************************************************)
EXTENDS SubstrateChain, TLAPS

\* The two halves of the type invariant.
ListenerType ==
    /\ head \in 0..MaxHead
    /\ db \in 0..MaxHead \cup {NotFound}
    /\ stop \in BOOLEAN /\ crashes \in 0..MaxCrashes
    /\ lpc \in {"off", "loop", "query", "send", "returned"}
    /\ startBlock \in Nat \cup {Nil}
    /\ todo \in SUBSET Deposits /\ handed \in SUBSET Deposits
    /\ meta \in SUBSET Upgrades /\ dropped \in SUBSET Upgrades
    /\ last \in Deposits \cup {0}

WriterType ==
    /\ wpc \in [Messages -> {"idle", "check", "submit", "nil", "error", "gone"}]
    /\ tries \in [Messages -> 0..BlockRetryLimit]
    /\ call \in [Messages -> SUBSET Upgrades]
    /\ prop \in [Messages -> {"none", "active", "complete"}]
    /\ votedFor \in SUBSET Messages /\ pooled \in SUBSET Messages
    /\ faults \in [Messages -> 0..MaxFaults]

\* A running listener has a cursor unless LatestBlock is set, and a block under
\* work is one the chain has.
CursorSet ==
    /\ lpc \in {"loop", "query", "send"} /\ ~Latest => startBlock # Nil
    /\ lpc \in {"query", "send"} => startBlock # Nil /\ startBlock <= head

\* Only blocks of the chain are stored, and the cursor is at most one block
\* ahead of the chain unless it is configured so.
BlocksExist ==
    /\ db # NotFound => db <= head
    /\ startBlock # Nil => startBlock <= head + 1 \/ startBlock <= StartBlock

\* Messages wait only while their block is being sent.
TodoInBlock ==
    \A d \in todo : lpc = "send" /\ d \in Subscribed(startBlock)

\* What does not wait any more was handed over, or the block was dropped.
BlockCovered ==
    lpc = "send" =>
        \/ startBlock \in dropped
        \/ \A d \in Subscribed(startBlock) : d \in todo \/ d \in handed

\* The last deposit handed over lies behind the cursor or in the block being
\* sent, and before everything that waits.
LastBehind ==
    last # 0 =>
        /\ lpc # "off" /\ startBlock # Nil
        /\ lpc = "send" => BlockOf[last] <= startBlock
        /\ lpc # "send" => BlockOf[last] < startBlock
        /\ \A d \in todo : last < d

\* Before the listener starts only upgrades behind the stored block can be
\* missing; once the block of an upgrade is handled, it is not.
UpgradeRead ==
    /\ lpc = "off" /\ db # NotFound => \A b \in Runtime \ meta : db < b
    /\ lpc = "send" /\ startBlock \in Upgrades => startBlock \in meta \/ startBlock \in dropped

\* The inductive invariant of the listener.
ListenerInv ==
    /\ ListenerType /\ CursorSet /\ BlocksExist /\ TodoInBlock /\ BlockCovered
    /\ LastBehind /\ UpgradeRead /\ LostOnlyAtUpgrade /\ MetadataFollows

\* A call under way has tries left.
TriesLeft ==
    \A m \in Messages : wpc[m] \in {"idle", "check", "submit"} => tries[m] < BlockRetryLimit

\* Calls are encoded with metadata of the chain's past or present, so that one
\* that is not the runtime's now never will be.
CallsKnown ==
    /\ meta \subseteq Runtime
    /\ \A m \in Messages : call[m] \subseteq Runtime

\* A try is a failed request, or the call is one the chain has left behind.
TriesFailed ==
    \A m \in Messages :
        /\ wpc[m] = "idle" => tries[m] = 0
        /\ wpc[m] # "error" => faults[m] <= tries[m]
        /\ call[m] = Runtime => tries[m] <= faults[m]

\* A call returns nil with the vote settled or its tries used up.
NilReturned ==
    \A m \in Messages : wpc[m] = "nil" =>
        m \in votedFor \/ prop[m] = "complete" \/ tries[m] = BlockRetryLimit

\* The inductive invariant of the writer.
WriterInv == WriterType /\ TriesLeft /\ CallsKnown /\ TriesFailed /\ NilReturned

-------------------------------------------------------------------------------
(* The listener                                                            *)

LEMMA Constants ==
    /\ MaxHead \in Nat /\ StartBlock \in Nat /\ Upgrades \subseteq Nat
    /\ \A d \in Deposits : d \in Nat /\ d # 0 /\ BlockOf[d] \in Nat
    /\ \A d, e \in Deposits : BlockOf[d] < BlockOf[e] => d < e
<1>1. \A d \in Deposits : d \in Nat /\ d # 0 /\ BlockOf[d] \in Nat
  BY SubstrateAssumption
<1>2. \A d, e \in Deposits : e < d => BlockOf[e] <= BlockOf[d]
  BY SubstrateAssumption
<1>3. \A d, e \in Deposits : BlockOf[d] < BlockOf[e] => d < e
  BY <1>1, <1>2
<1> QED
  BY <1>1, <1>3, SubstrateAssumption

\* Steps of the writer and of the application do not touch the listener.
LEMMA ListenerUntouched ==
    ASSUME ListenerInv,
           UNCHANGED <<head, db, crashes, lpc, startBlock, todo, handed, dropped, last, meta>>,
           stop' \in BOOLEAN
    PROVE  ListenerInv'
BY DEF ListenerInv, ListenerType, CursorSet, BlocksExist, TodoInBlock, BlockCovered,
   LastBehind, UpgradeRead, LostOnlyAtUpgrade, MetadataFollows, Expected, Subscribed, Runtime

\* A new block may bring an upgrade, which lies in front of the listener.
LEMMA GrowInv ==
    ASSUME ListenerInv, Grow PROVE ListenerInv'
<1> USE Constants, NotANumber DEF ListenerInv
<1>1. /\ head \in Nat /\ head' = head + 1
      /\ UNCHANGED <<db, stop, crashes, lpc, startBlock, todo, handed, dropped, last, meta>>
  BY DEF Grow, ListenerType
<1>2. ListenerType'
  BY <1>1 DEF ListenerType, Grow
<1>3. CursorSet'
  BY <1>1 DEF CursorSet, ListenerType
<1>4. BlocksExist'
  BY <1>1 DEF BlocksExist, ListenerType
<1>5. \A b \in Runtime' \ meta' : b \in Runtime \ meta \/ b = head + 1
  BY <1>1 DEF Runtime
<1>6. UpgradeRead'
  BY <1>1, <1>5 DEF UpgradeRead, BlocksExist, ListenerType
<1>7. MetadataFollows'
  <2> SUFFICES ASSUME startBlock # Nil, ~Latest, NEW b \in Runtime' \ meta'
               PROVE  startBlock <= b \/ b \in dropped \/ b < StartBlock
    BY <1>1 DEF MetadataFollows
  <2>1. CASE b \in Runtime \ meta
    BY <2>1 DEF MetadataFollows
  <2>2. CASE b = head + 1
    BY <1>1, <2>2 DEF BlocksExist, ListenerType
  <2> QED
    BY <1>5, <2>1, <2>2
<1>8. TodoInBlock' /\ BlockCovered' /\ LastBehind' /\ LostOnlyAtUpgrade'
  BY <1>1 DEF TodoInBlock, BlockCovered, LastBehind, LostOnlyAtUpgrade, Subscribed, Expected
<1> QED
  BY <1>2, <1>3, <1>4, <1>6, <1>7, <1>8

\* A restarted process has the metadata of the day.
LEMMA CrashInv ==
    ASSUME ListenerInv, Crash PROVE ListenerInv'
<1> USE Constants, NotANumber DEF ListenerInv
<1>1. /\ lpc' = "off" /\ startBlock' = Nil /\ todo' = {} /\ last' = 0 /\ meta' = Runtime
      /\ stop' = FALSE /\ crashes' = crashes + 1 /\ crashes < MaxCrashes
      /\ UNCHANGED <<head, db, handed, dropped>>
  BY DEF Crash
<1>2. ListenerType'
  <2>1. meta' \in SUBSET Upgrades
    BY <1>1 DEF Runtime
  <2>2. crashes' \in 0..MaxCrashes
    BY <1>1, SubstrateAssumption DEF ListenerType
  <2>3. todo' \in SUBSET Deposits /\ last' \in Deposits \cup {0}
    BY <1>1
  <2>4. stop' \in BOOLEAN
    BY <1>1
  <2>5. head' = head /\ db' = db /\ handed' = handed /\ dropped' = dropped
    BY <1>1
  <2>6. /\ lpc' \in {"off", "loop", "query", "send", "returned"}
        /\ startBlock' \in Nat \cup {Nil}
    BY <1>1
  <2> QED
    BY <2>1, <2>2, <2>3, <2>4, <2>5, <2>6 DEF ListenerType
<1>3. Runtime' \ meta' = {}
  BY <1>1 DEF Runtime
<1>4. UpgradeRead' /\ MetadataFollows'
  BY <1>1, <1>3 DEF UpgradeRead, MetadataFollows
<1>5. CursorSet' /\ BlocksExist' /\ TodoInBlock' /\ BlockCovered' /\ LastBehind'
  BY <1>1 DEF CursorSet, BlocksExist, TodoInBlock, BlockCovered, LastBehind
<1>6. LostOnlyAtUpgrade'
  BY <1>1 DEF LostOnlyAtUpgrade, Expected
<1> QED
  BY <1>2, <1>4, <1>5, <1>6

\* The listener starts at the configured block or at the stored one, in front
\* of which everything was handed over or dropped.
LEMMA PollEventsInv ==
    ASSUME ListenerInv, PollEvents PROVE ListenerInv'
<1> USE Constants, NotANumber DEF ListenerInv
<1>1. /\ lpc = "off" /\ lpc' = "loop"
      /\ startBlock' = GetStartBlock(db, StartBlock, Latest, Fresh)
      /\ UNCHANGED <<head, db, stop, crashes, todo, handed, dropped, last, meta>>
  BY DEF PollEvents
<1>2. \/ startBlock' = Nil /\ Latest
      \/ startBlock' = StartBlock /\ ~Latest
      \/ startBlock' = db /\ db # NotFound /\ ~Latest
  <2>1. CASE db = NotFound
    BY <1>1, <2>1 DEF GetStartBlock, GetLastStoredBlock
  <2>2. CASE db # NotFound
    BY <1>1, <2>2 DEF GetStartBlock, GetLastStoredBlock
  <2> QED
    BY <2>1, <2>2
<1>3. startBlock' \in Nat \cup {Nil} /\ (~Latest => startBlock' # Nil)
  BY <1>2 DEF ListenerType
<1>4. ListenerType'
  BY <1>1, <1>3 DEF ListenerType
<1>5. last = 0 /\ todo = {}
  BY <1>1 DEF LastBehind, TodoInBlock
<1>6. CursorSet' /\ TodoInBlock' /\ BlockCovered' /\ LastBehind' /\ UpgradeRead'
  BY <1>1, <1>3, <1>5 DEF CursorSet, TodoInBlock, BlockCovered, LastBehind, UpgradeRead
<1>7. BlocksExist'
  BY <1>1, <1>2 DEF BlocksExist, ListenerType
<1>8. LostOnlyAtUpgrade'
  <2> SUFFICES ASSUME NEW d \in Expected,
                      \/ startBlock' # Nil /\ BlockOf[d] < startBlock'
                      \/ db # NotFound /\ BlockOf[d] <= db
               PROVE  d \in handed \/ BlockOf[d] \in dropped
    BY <1>1 DEF LostOnlyAtUpgrade, Expected
  <2>1. d \in Deposits /\ StartBlock <= BlockOf[d] /\ ~Latest
    BY DEF Expected
  <2>2. db # NotFound /\ BlockOf[d] <= db
    BY <1>2, <2>1 DEF ListenerType
  <2> QED
    BY <2>2 DEF LostOnlyAtUpgrade
<1>9. MetadataFollows'
  <2> SUFFICES ASSUME ~Latest, NEW b \in Runtime \ meta
               PROVE  startBlock' <= b \/ b < StartBlock
    BY <1>1 DEF MetadataFollows, Runtime
  <2>1. b \in Nat
    BY DEF Runtime
  <2>2. CASE startBlock' = StartBlock
    BY <2>1, <2>2
  <2>3. CASE startBlock' = db /\ db # NotFound
    BY <1>1, <2>1, <2>3 DEF UpgradeRead, ListenerType
  <2> QED
    BY <1>2, <2>2, <2>3
<1> QED
  BY <1>4, <1>6, <1>7, <1>8, <1>9

\* Steps that only move the goroutine.
LEMMA MoveInv ==
    ASSUME ListenerInv, PollEventsFails \/ Return \/ QueryFails PROVE ListenerInv'
<1> USE Constants, NotANumber DEF ListenerInv
<1>1. /\ lpc \in {"off", "loop", "query"} /\ lpc' \in {"loop", "returned"}
      /\ lpc' = "loop" => lpc = "query"
      /\ lpc = "off" => lpc' = "returned"
      /\ stop' \in BOOLEAN
      /\ UNCHANGED <<head, db, crashes, startBlock, todo, handed, dropped, last, meta>>
  BY DEF PollEventsFails, Return, QueryFails, ListenerType
<1>2. ListenerType'
  BY <1>1 DEF ListenerType
<1>3. CursorSet' /\ BlocksExist' /\ TodoInBlock' /\ BlockCovered' /\ LastBehind' /\ UpgradeRead'
  BY <1>1 DEF CursorSet, BlocksExist, TodoInBlock, BlockCovered, LastBehind, UpgradeRead,
     Subscribed, Runtime
<1>4. LostOnlyAtUpgrade' /\ MetadataFollows'
  BY <1>1 DEF LostOnlyAtUpgrade, MetadataFollows, Expected, Runtime
<1> QED
  BY <1>2, <1>3, <1>4

\* A turn of the loop sets the cursor only with LatestBlock.
LEMMA PollInv ==
    ASSUME ListenerInv, NEW h \in 0..head, Poll(h) PROVE ListenerInv'
<1> USE Constants, NotANumber DEF ListenerInv
<1>1. /\ lpc = "loop" /\ lpc' \in {"loop", "query"}
      /\ startBlock' = IF startBlock = Nil THEN h ELSE startBlock
      /\ lpc' = IF startBlock' > h THEN "loop" ELSE "query"
      /\ UNCHANGED <<head, db, stop, crashes, todo, handed, dropped, last, meta>>
  BY DEF Poll
<1>2. head \in Nat /\ h \in Nat /\ h <= head /\ startBlock' \in Nat
  BY <1>1 DEF ListenerType
<1>3. ListenerType'
  BY <1>1, <1>2 DEF ListenerType
<1>4. CursorSet'
  BY <1>1, <1>2 DEF CursorSet
<1>5. BlocksExist'
  <2>1. CASE startBlock = Nil
    BY <1>1, <1>2, <2>1 DEF BlocksExist
  <2>2. CASE startBlock # Nil
    BY <1>1, <2>2 DEF BlocksExist
  <2> QED
    BY <2>1, <2>2
<1>6. ~Latest => startBlock' = startBlock
  BY <1>1 DEF CursorSet
<1>7. todo = {}
  BY <1>1 DEF TodoInBlock
<1>8. TodoInBlock' /\ BlockCovered' /\ UpgradeRead'
  BY <1>1, <1>7 DEF TodoInBlock, BlockCovered, UpgradeRead
<1>9. LastBehind'
  BY <1>1, <1>7 DEF LastBehind
<1>10. LostOnlyAtUpgrade' /\ MetadataFollows'
  BY <1>1, <1>6 DEF LostOnlyAtUpgrade, MetadataFollows, Expected, Runtime
<1> QED
  BY <1>3, <1>4, <1>5, <1>8, <1>9, <1>10

\* The messages of the block at the cursor wait, and an upgrade is known.
LEMMA HandleEventsInv ==
    ASSUME ListenerInv, HandleEvents PROVE ListenerInv'
<1> USE Constants, NotANumber DEF ListenerInv
<1>1. /\ lpc = "query" /\ lpc' = "send"
      /\ todo' = Subscribed(startBlock)
      /\ meta' = IF startBlock \in Upgrades THEN Runtime ELSE meta
      /\ UNCHANGED <<head, db, stop, crashes, startBlock, handed, dropped, last>>
  BY DEF HandleEvents
<1>2. startBlock \in Nat /\ startBlock <= head /\ head \in Nat
  BY <1>1 DEF CursorSet, ListenerType
<1>3. todo' \in SUBSET Deposits /\ \A d \in todo' : BlockOf[d] = startBlock
  BY <1>1 DEF Subscribed
<1>4. ListenerType'
  <2>1. meta' \in SUBSET Upgrades
    BY <1>1 DEF Runtime, ListenerType
  <2> QED
    BY <1>1, <1>3, <2>1 DEF ListenerType
<1>5. CursorSet' /\ BlocksExist' /\ TodoInBlock' /\ BlockCovered'
  BY <1>1, <1>2 DEF CursorSet, BlocksExist, TodoInBlock, BlockCovered, Subscribed
<1>6. LastBehind'
  <2> SUFFICES ASSUME last # 0
               PROVE  /\ BlockOf[last] <= startBlock
                      /\ \A d \in todo' : last < d
    BY <1>1, <1>2 DEF LastBehind
  <2>1. last \in Deposits /\ BlockOf[last] \in Nat /\ BlockOf[last] < startBlock
    BY <1>1 DEF LastBehind, ListenerType
  <2> QED
    BY <1>2, <1>3, <2>1
<1>7. UpgradeRead'
  BY <1>1, <1>2 DEF UpgradeRead, Runtime
<1>8. LostOnlyAtUpgrade'
  BY <1>1 DEF LostOnlyAtUpgrade, Expected
<1>9. MetadataFollows'
  <2>1. Runtime' = Runtime
    BY <1>1 DEF Runtime
  <2>2. Runtime' \ meta' \subseteq Runtime \ meta
    BY <1>1, <2>1
  <2> QED
    BY <1>1, <2>2 DEF MetadataFollows
<1> QED
  BY <1>4, <1>5, <1>6, <1>7, <1>8, <1>9

\* Without the metadata the block of the upgrade is dropped.
LEMMA HandleEventsFailsInv ==
    ASSUME ListenerInv, HandleEventsFails PROVE ListenerInv'
<1> USE Constants, NotANumber DEF ListenerInv
<1>1. /\ lpc = "query" /\ lpc' = "send" /\ todo' = {} /\ startBlock \in Upgrades
      /\ dropped' = dropped \cup {startBlock}
      /\ UNCHANGED <<head, db, stop, crashes, startBlock, handed, last, meta>>
  BY DEF HandleEventsFails
<1>2. startBlock \in Nat /\ startBlock <= head /\ head \in Nat
  BY <1>1 DEF CursorSet, ListenerType
<1>3. ListenerType'
  <2>1. todo' \in SUBSET Deposits /\ dropped' \in SUBSET Upgrades
    BY <1>1 DEF ListenerType
  <2> QED
    BY <1>1, <2>1 DEF ListenerType
<1>4. CursorSet' /\ BlocksExist' /\ TodoInBlock' /\ BlockCovered' /\ UpgradeRead'
  BY <1>1, <1>2 DEF CursorSet, BlocksExist, TodoInBlock, BlockCovered, UpgradeRead
<1>5. LastBehind'
  <2> SUFFICES ASSUME last # 0 PROVE BlockOf[last] <= startBlock
    BY <1>1, <1>2 DEF LastBehind
  <2> QED
    BY <1>1, <1>2 DEF LastBehind, ListenerType
<1>6. LostOnlyAtUpgrade' /\ MetadataFollows'
  BY <1>1 DEF LostOnlyAtUpgrade, MetadataFollows, Expected, Runtime
<1> QED
  BY <1>3, <1>4, <1>5, <1>6

\* The first waiting message is handed over.
LEMMA SendInv ==
    ASSUME ListenerInv, NEW d \in todo, Send(d) PROVE ListenerInv'
<1> USE Constants, NotANumber DEF ListenerInv
<1>1. /\ lpc = "send" /\ \A e \in todo : d <= e
      /\ todo' = todo \ {d} /\ handed' = handed \cup {d} /\ last' = d
      /\ UNCHANGED <<head, db, stop, crashes, lpc, startBlock, dropped, meta>>
  BY DEF Send
<1>2. d \in Deposits /\ BlockOf[d] = startBlock /\ startBlock \in Nat
  BY <1>1 DEF TodoInBlock, Subscribed, CursorSet, ListenerType
<1>3. ListenerType'
  <2>1. todo' \in SUBSET Deposits /\ handed' \in SUBSET Deposits /\ last' \in Deposits \cup {0}
    BY <1>1, <1>2 DEF ListenerType
  <2> QED
    BY <1>1, <2>1 DEF ListenerType
<1>4. CursorSet' /\ BlocksExist' /\ TodoInBlock' /\ BlockCovered' /\ UpgradeRead'
  BY <1>1 DEF CursorSet, BlocksExist, TodoInBlock, BlockCovered, UpgradeRead, Subscribed, Runtime
<1>5. LastBehind'
  <2>1. \A e \in todo' : d < e
    BY <1>1, <1>2 DEF ListenerType
  <2> QED
    BY <1>1, <1>2, <2>1 DEF LastBehind
<1>6. LostOnlyAtUpgrade' /\ MetadataFollows'
  BY <1>1 DEF LostOnlyAtUpgrade, MetadataFollows, Expected, Runtime
<1> QED
  BY <1>3, <1>4, <1>5, <1>6

\* The cursor moves on when nothing of the block waits.
LEMMA StoreBlockInv ==
    ASSUME ListenerInv, StoreBlock PROVE ListenerInv'
<1> USE Constants, NotANumber DEF ListenerInv
<1>1. /\ lpc = "send" /\ lpc' = "loop" /\ todo = {} /\ startBlock' = startBlock + 1
      /\ db' \in {db, BlockBytes(startBlock)}
      /\ UNCHANGED <<head, stop, crashes, todo, handed, dropped, last, meta>>
  BY DEF StoreBlock
<1>2. startBlock \in Nat /\ startBlock <= head /\ head \in 0..MaxHead
  BY <1>1 DEF CursorSet, ListenerType
<1>3. db' = db \/ db' = startBlock
  BY <1>1, <1>2 DEF BlockBytes
<1>4. ListenerType'
  <2>1. db' \in 0..MaxHead \cup {NotFound}
    BY <1>2, <1>3 DEF ListenerType
  <2> QED
    BY <1>1, <1>2, <2>1 DEF ListenerType
<1>5. CursorSet' /\ TodoInBlock' /\ BlockCovered' /\ UpgradeRead'
  BY <1>1, <1>2 DEF CursorSet, TodoInBlock, BlockCovered, UpgradeRead
<1>6. BlocksExist'
  BY <1>1, <1>2, <1>3 DEF BlocksExist
<1>7. LastBehind'
  BY <1>1, <1>2 DEF LastBehind, ListenerType
<1>8. LostOnlyAtUpgrade'
  <2> SUFFICES ASSUME NEW d \in Expected,
                      \/ BlockOf[d] < startBlock + 1
                      \/ db' # NotFound /\ BlockOf[d] <= db'
               PROVE  d \in handed \/ BlockOf[d] \in dropped
    BY <1>1 DEF LostOnlyAtUpgrade, Expected
  <2>1. d \in Deposits /\ BlockOf[d] \in Nat /\ KindOf[d] \in Registered
    BY DEF Expected
  <2>2. CASE BlockOf[d] = startBlock
    BY <1>1, <2>1, <2>2 DEF BlockCovered, Subscribed
  <2>3. CASE BlockOf[d] < startBlock
    BY <1>2, <2>3 DEF LostOnlyAtUpgrade
  <2>4. CASE db' = db /\ db # NotFound /\ BlockOf[d] <= db
    BY <2>4 DEF LostOnlyAtUpgrade
  <2> QED
    BY <1>2, <1>3, <2>1, <2>2, <2>3, <2>4
<1>9. MetadataFollows'
  <2> SUFFICES ASSUME ~Latest, NEW b \in Runtime \ meta
               PROVE  startBlock + 1 <= b \/ b \in dropped \/ b < StartBlock
    BY <1>1 DEF MetadataFollows, Runtime
  <2>1. b \in Nat /\ b \in Upgrades
    BY DEF Runtime
  <2>2. startBlock <= b \/ b \in dropped \/ b < StartBlock
    BY <1>2 DEF MetadataFollows
  <2>3. b = startBlock => b \in dropped
    BY <1>1, <2>1 DEF UpgradeRead
  <2> QED
    BY <1>2, <2>1, <2>2, <2>3
<1> QED
  BY <1>4, <1>5, <1>6, <1>7, <1>8, <1>9

-------------------------------------------------------------------------------
(* The writer                                                              *)

\* Upgrades are never taken back.
LEMMA RuntimeGrows ==
    ASSUME head \in Nat, head' = head \/ head' = head + 1
    PROVE  Runtime \subseteq Runtime' /\ (head' = head => Runtime' = Runtime)
<1>1. \A b \in Upgrades : b \in Nat
  BY SubstrateAssumption
<1> QED
  BY <1>1 DEF Runtime

\* Steps of the listener leave the writer alone, and a call that the chain
\* leaves behind stays behind.
LEMMA WriterUntouched ==
    ASSUME WriterInv, UNCHANGED writerVars, head \in Nat, head' = head \/ head' = head + 1,
           meta' \in {meta, Runtime}
    PROVE  WriterInv'
<1> USE DEF WriterInv
<1>1. UNCHANGED <<wpc, tries, call, prop, votedFor, pooled, faults>>
  BY DEF writerVars
<1>2. CallsKnown'
  BY <1>1, RuntimeGrows DEF CallsKnown
<1>3. \A m \in Messages : call[m] = Runtime' => call[m] = Runtime
  BY RuntimeGrows DEF CallsKnown
<1>4. TriesFailed'
  BY <1>1, <1>3 DEF TriesFailed
<1> QED
  BY <1>1, <1>2, <1>4 DEF WriterType, TriesLeft, NilReturned

\* A vote on the chain keeps the types, and settles its own message without
\* unsettling another.
LEMMA AcknowledgeSettles ==
    ASSUME WriterType, NEW m \in Messages, Acknowledge(m)
    PROVE  /\ prop' \in [Messages -> {"none", "active", "complete"}]
           /\ votedFor' \in SUBSET Messages
           /\ m \in votedFor' \/ prop'[m] = "complete"
           /\ \A k \in Messages : k \in votedFor \/ prop[k] = "complete"
                                  => k \in votedFor' \/ prop'[k] = "complete"
<1>1. votedFor \subseteq votedFor' /\ votedFor' \in SUBSET Messages
  BY DEF Acknowledge, WriterType
<1>2. prop' \in [Messages -> {"none", "active", "complete"}]
  BY DEF Acknowledge, WriterType
<1>3. \A k \in Messages : prop[k] = "complete" => prop'[k] = "complete"
  BY DEF Acknowledge, WriterType
<1>4. m \in votedFor' \/ prop'[m] = "complete"
  BY <1>3 DEF Acknowledge
<1> QED
  BY <1>1, <1>2, <1>3, <1>4

LEMMA OthersVoteInv ==
    ASSUME WriterInv, NEW m \in Messages, OthersVote(m) PROVE WriterInv'
<1> USE DEF WriterInv
<1>1. UNCHANGED <<wpc, tries, call, votedFor, pooled, faults, meta, head>>
  BY DEF OthersVote, listenerVars
<1>2. /\ prop' \in [Messages -> {"none", "active", "complete"}]
      /\ \A k \in Messages : prop[k] = "complete" => prop'[k] = "complete"
  BY DEF OthersVote, WriterType
<1>3. CallsKnown' /\ TriesFailed'
  BY <1>1 DEF CallsKnown, TriesFailed, Runtime
<1> QED
  BY <1>1, <1>2, <1>3 DEF WriterType, TriesLeft, NilReturned

LEMMA IncludeLateInv ==
    ASSUME WriterInv, NEW m \in Messages, IncludeLate(m) PROVE WriterInv'
<1> USE DEF WriterInv
<1>1. /\ UNCHANGED <<wpc, tries, call, faults, meta, head>> /\ Acknowledge(m)
      /\ pooled' \in SUBSET Messages
  BY DEF IncludeLate, WriterType, listenerVars
<1>2. CallsKnown' /\ TriesFailed'
  BY <1>1 DEF CallsKnown, TriesFailed, Runtime
<1> QED
  BY <1>1, <1>2, AcknowledgeSettles DEF WriterType, TriesLeft, NilReturned

\* A failed turn leaves the loop, or one try less; the try was a failed request
\* unless the call is stale.
LEMMA RetryInv ==
    ASSUME WriterInv, NEW m \in Messages, wpc[m] \in {"check", "submit"}, Retry(m),
           UNCHANGED <<call, prop, votedFor, meta, head>>, pooled' \in SUBSET Messages,
           Fault(m) \/ (faults' = faults /\ call[m] # Runtime)
    PROVE  WriterInv'
<1> USE SubstrateAssumption DEF WriterInv
<1>1. tries[m] \in Nat /\ tries[m] < BlockRetryLimit /\ BlockRetryLimit \in Nat
  BY DEF TriesLeft, WriterType
<1>2. tries' = [tries EXCEPT ![m] = tries[m] + 1]
  BY DEF Retry
<1>3. tries' \in [Messages -> 0..BlockRetryLimit]
  BY <1>1, <1>2 DEF WriterType
<1>4. /\ wpc' \in [Messages -> {"idle", "check", "submit", "nil", "error", "gone"}]
      /\ \A k \in Messages : k # m => wpc'[k] = wpc[k] /\ tries'[k] = tries[k]
      /\ wpc'[m] \in {"check", "nil"}
      /\ wpc'[m] = "check" => tries'[m] < BlockRetryLimit
      /\ wpc'[m] = "nil" => tries'[m] = BlockRetryLimit
  BY <1>1, <1>2 DEF Retry, WriterType
<1>5. /\ faults' \in [Messages -> 0..MaxFaults]
      /\ \A k \in Messages : k # m => faults'[k] = faults[k]
      /\ faults'[m] = faults[m] + 1 \/ (faults'[m] = faults[m] /\ call[m] # Runtime)
  BY DEF Fault, WriterType
<1>6. WriterType'
  BY <1>3, <1>4, <1>5 DEF WriterType
<1>7. TriesLeft'
  BY <1>4 DEF TriesLeft
<1>8. CallsKnown' /\ Runtime' = Runtime
  BY DEF CallsKnown, Runtime
<1>9. TriesFailed'
  <2> SUFFICES ASSUME NEW k \in Messages
               PROVE  /\ wpc'[k] = "idle" => tries'[k] = 0
                      /\ wpc'[k] # "error" => faults'[k] <= tries'[k]
                      /\ call[k] = Runtime => tries'[k] <= faults'[k]
    BY <1>8 DEF TriesFailed
  <2>1. CASE k # m
    BY <1>4, <1>5, <2>1 DEF TriesFailed
  <2>2. CASE k = m
    <3>1. tries'[m] = tries[m] + 1 /\ faults[m] \in Nat
      BY <1>2 DEF WriterType
    <3>2. /\ faults[m] <= tries[m]
          /\ call[m] = Runtime => tries[m] <= faults[m]
      BY DEF TriesFailed
    <3> QED
      BY <1>1, <1>4, <1>5, <2>2, <3>1, <3>2
  <2> QED
    BY <2>1, <2>2
<1>10. NilReturned'
  BY <1>4 DEF NilReturned
<1> QED
  BY <1>6, <1>7, <1>8, <1>9, <1>10

\* Every step of VoteProposal keeps the invariant.
LEMMA VoteProposalInv ==
    ASSUME WriterInv, NEW m \in Messages, VoteProposal(m)
    PROVE  WriterInv'
<1> USE SubstrateAssumption DEF WriterInv
<1>1. CASE CreateProposal(m)
  <2>1. /\ wpc[m] = "idle" /\ UNCHANGED <<tries, prop, votedFor, pooled, faults, head, meta>>
        /\ \/ wpc' = [wpc EXCEPT ![m] = "check"] /\ call' = [call EXCEPT ![m] = meta]
           \/ wpc' = [wpc EXCEPT ![m] = "error"] /\ call' = call
    BY <1>1 DEF CreateProposal, listenerVars
  <2>2. meta \in SUBSET Upgrades /\ Runtime' = Runtime
    BY <2>1 DEF CallsKnown, Runtime
  <2>3. WriterType'
    BY <2>1, <2>2 DEF WriterType
  <2>4. CallsKnown'
    BY <2>1, <2>2 DEF CallsKnown, WriterType
  <2>5. TriesFailed'
    <3>1. tries[m] = 0 /\ faults[m] \in Nat
      BY <2>1 DEF TriesFailed, WriterType
    <3>2. \A k \in Messages : k # m => wpc'[k] = wpc[k] /\ call'[k] = call[k]
      BY <2>1 DEF WriterType
    <3>3. wpc'[m] # "idle"
      BY <2>1 DEF WriterType
    <3> QED
      BY <2>1, <2>2, <3>1, <3>2, <3>3 DEF TriesFailed
  <2> QED
    BY <2>1, <2>3, <2>4, <2>5 DEF WriterType, TriesLeft, NilReturned
<1>2. CASE CreateProposalFails(m)
  <2>1. /\ wpc' = [wpc EXCEPT ![m] = "error"] /\ faults' = [faults EXCEPT ![m] = @ + 1]
        /\ faults[m] < MaxFaults
        /\ UNCHANGED <<tries, call, prop, votedFor, pooled, head, meta>>
    BY <1>2 DEF CreateProposalFails, Fault, listenerVars
  <2>2. WriterType'
    BY <2>1 DEF WriterType
  <2>3. CallsKnown' /\ Runtime' = Runtime
    BY <2>1 DEF CallsKnown, Runtime
  <2>4. /\ \A k \in Messages : k # m => wpc'[k] = wpc[k] /\ faults'[k] = faults[k]
        /\ wpc'[m] = "error" /\ faults'[m] = faults[m] + 1
        /\ faults[m] \in Nat /\ tries[m] \in Nat
    BY <2>1 DEF WriterType
  <2>5. TriesFailed'
    BY <2>1, <2>3, <2>4 DEF TriesFailed
  <2> QED
    BY <2>1, <2>2, <2>3, <2>4, <2>5 DEF TriesLeft, NilReturned
<1>3. CASE CheckProposal(m)
  <2>1. /\ wpc[m] = "check"
        /\ UNCHANGED <<tries, call, prop, votedFor, pooled, faults, head, meta>>
        /\ wpc' = [wpc EXCEPT ![m] = IF ProposalDone(m) THEN "nil" ELSE "submit"]
    BY <1>3 DEF CheckProposal, listenerVars
  <2>2. ProposalDone(m) => m \in votedFor \/ prop[m] = "complete"
    BY DEF ProposalDone
  <2>3. CallsKnown' /\ Runtime' = Runtime
    BY <2>1 DEF CallsKnown, Runtime
  <2>4. TriesFailed'
    BY <2>1, <2>3 DEF TriesFailed, WriterType
  <2> QED
    BY <2>1, <2>2, <2>3, <2>4 DEF WriterType, TriesLeft, NilReturned
<1>4. CASE CheckFails(m)
  BY <1>4, RetryInv DEF CheckFails, WriterType, listenerVars
<1>5. CASE SubmitTx(m)
  <2>1. /\ wpc[m] = "submit" /\ wpc' = [wpc EXCEPT ![m] = "nil"]
        /\ UNCHANGED <<tries, call, pooled, faults, head, meta>>
        /\ Acknowledge(m)
    BY <1>5 DEF SubmitTx, listenerVars
  <2>2. CallsKnown' /\ Runtime' = Runtime
    BY <2>1 DEF CallsKnown, Runtime
  <2>3. TriesFailed'
    BY <2>1, <2>2 DEF TriesFailed, WriterType
  <2> QED
    BY <2>1, <2>2, <2>3, AcknowledgeSettles DEF WriterType, TriesLeft, NilReturned
<1>6. CASE SubmitTxFails(m)
  <2>1. /\ pooled' \in SUBSET Messages /\ UNCHANGED <<call, prop, votedFor, meta, head>>
        /\ wpc[m] = "submit" /\ Retry(m)
        /\ Fault(m) \/ (faults' = faults /\ call[m] # Runtime)
    BY <1>6 DEF SubmitTxFails, WriterType, listenerVars
  <2> QED
    BY <2>1, RetryInv
<1> QED
  BY <1>1, <1>2, <1>3, <1>4, <1>5, <1>6 DEF VoteProposal

\* A crash ends the calls under way.
LEMMA CrashWriterInv ==
    ASSUME WriterInv, Crash PROVE WriterInv'
<1> USE DEF WriterInv
<1>1. /\ wpc' = [m \in Messages |-> IF wpc[m] \in {"check", "submit"} THEN "gone" ELSE wpc[m]]
      /\ UNCHANGED <<tries, call, prop, votedFor, pooled, faults, head>> /\ meta' = Runtime
  BY DEF Crash
<1>2. CallsKnown' /\ Runtime' = Runtime
  BY <1>1 DEF CallsKnown, Runtime
<1>3. TriesFailed'
  BY <1>1, <1>2 DEF TriesFailed
<1> QED
  BY <1>1, <1>2, <1>3 DEF WriterType, TriesLeft, NilReturned

-------------------------------------------------------------------------------
(* Theorems                                                                *)

SubstrateInv == ListenerInv /\ WriterInv

LEMMA InitInv == Init => SubstrateInv
<1> SUFFICES ASSUME Init PROVE SubstrateInv
  OBVIOUS
<1> USE SubstrateAssumption, NotANumber
<1>1. ListenerType
  <2>1. head \in 0..MaxHead /\ crashes \in 0..MaxCrashes
    BY DEF Init
  <2>2. meta \in SUBSET Upgrades /\ dropped \in SUBSET Upgrades
    BY DEF Init, Runtime
  <2>3. todo \in SUBSET Deposits /\ handed \in SUBSET Deposits /\ last \in Deposits \cup {0}
    BY DEF Init
  <2>4. stop \in BOOLEAN
    BY DEF Init
  <2>5. /\ db \in 0..MaxHead \cup {NotFound} /\ startBlock \in Nat \cup {Nil}
        /\ lpc \in {"off", "loop", "query", "send", "returned"}
    BY DEF Init
  <2> QED
    BY <2>1, <2>2, <2>3, <2>4, <2>5 DEF ListenerType
<1>2. /\ CursorSet /\ BlocksExist /\ TodoInBlock /\ BlockCovered /\ LastBehind /\ UpgradeRead
      /\ LostOnlyAtUpgrade /\ MetadataFollows
  BY DEF Init, CursorSet, BlocksExist, TodoInBlock, BlockCovered, LastBehind, UpgradeRead,
     LostOnlyAtUpgrade, MetadataFollows
<1>3. WriterInv
  <2>1. WriterType /\ TriesLeft /\ NilReturned
    BY DEF Init, WriterType, TriesLeft, NilReturned
  <2>2. CallsKnown /\ TriesFailed
    BY DEF Init, CallsKnown, TriesFailed
  <2> QED
    BY <2>1, <2>2 DEF WriterInv
<1> QED
  BY <1>1, <1>2, <1>3 DEF SubstrateInv, ListenerInv

LEMMA NextInv == SubstrateInv /\ [Next]_vars => SubstrateInv'
<1> SUFFICES ASSUME ListenerInv, WriterInv, [Next]_vars PROVE ListenerInv' /\ WriterInv'
  BY DEF SubstrateInv
<1> head \in Nat
  BY SubstrateAssumption DEF ListenerInv, ListenerType
<1>1. CASE Grow
  BY <1>1, GrowInv, WriterUntouched DEF Grow
<1>2. CASE Crash
  BY <1>2, CrashInv, CrashWriterInv
<1>3. CASE PollEvents
  BY <1>3, PollEventsInv, WriterUntouched DEF PollEvents
<1>4. CASE PollEventsFails \/ Return \/ QueryFails
  BY <1>4, MoveInv, WriterUntouched DEF PollEventsFails, Return, QueryFails
<1>5. CASE CloseStop
  BY <1>5, ListenerUntouched, WriterUntouched DEF CloseStop
<1>6. ASSUME NEW h \in 0..head, Poll(h) PROVE ListenerInv' /\ WriterInv'
  BY <1>6, PollInv, WriterUntouched DEF Poll
<1>7. CASE HandleEvents
  BY <1>7, HandleEventsInv, WriterUntouched DEF HandleEvents
<1>8. CASE HandleEventsFails
  BY <1>8, HandleEventsFailsInv, WriterUntouched DEF HandleEventsFails
<1>9. ASSUME NEW d \in todo, Send(d) PROVE ListenerInv' /\ WriterInv'
  BY <1>9, SendInv, WriterUntouched DEF Send
<1>10. CASE StoreBlock
  BY <1>10, StoreBlockInv, WriterUntouched DEF StoreBlock
<1>11. ASSUME NEW m \in Messages, OthersVote(m) \/ IncludeLate(m) \/ VoteProposal(m)
       PROVE  ListenerInv' /\ WriterInv'
  <2>1. UNCHANGED <<listenerVars, meta>>
    BY <1>11 DEF OthersVote, IncludeLate, VoteProposal, CreateProposal, CreateProposalFails,
       CheckProposal, CheckFails, SubmitTx, SubmitTxFails
  <2>2. ListenerInv'
    BY <2>1, ListenerUntouched DEF listenerVars, ListenerInv, ListenerType
  <2> QED
    BY <1>11, <2>2, OthersVoteInv, IncludeLateInv, VoteProposalInv
<1>12. CASE UNCHANGED vars
  <2>1. UNCHANGED writerVars /\ UNCHANGED listenerVars /\ UNCHANGED meta
    BY <1>12 DEF vars
  <2> QED
    BY <2>1, ListenerUntouched, WriterUntouched DEF listenerVars, ListenerInv, ListenerType
<1> QED
  BY <1>1, <1>2, <1>3, <1>4, <1>5, <1>6, <1>7, <1>8, <1>9, <1>10, <1>11, <1>12 DEF Next

LEMMA Invariance == Spec => []SubstrateInv
BY InitInv, NextInv, PTL DEF Spec

\* Type correctness, and the bound on the tries of VoteProposal.
THEOREM SubstrateTypeCorrect == Spec => []TypeOK
<1>1. SubstrateInv => TypeOK
  BY DEF SubstrateInv, ListenerInv, WriterInv, ListenerType, WriterType, TypeOK
<1> QED
  BY <1>1, Invariance, PTL

\* Failed queries, undecodable blocks, failed stores and crashes lose no
\* deposit: only an upgrade whose metadata could not be fetched does.
THEOREM LosesOnlyAtUpgrades == Spec => []LostOnlyAtUpgrade
<1>1. SubstrateInv => LostOnlyAtUpgrade
  BY DEF SubstrateInv, ListenerInv
<1> QED
  BY <1>1, Invariance, PTL

\* The listener has renewed the metadata for every upgrade it has passed.
THEOREM MetadataIsRenewed == Spec => []MetadataFollows
<1>1. SubstrateInv => MetadataFollows
  BY DEF SubstrateInv, ListenerInv
<1> QED
  BY <1>1, Invariance, PTL

\* Whenever VoteProposal returns nil, behind its loop too, its vote is on the
\* chain, the proposal is complete, or all its tries failed at the node or were
\* made with a call that the chain has left behind.
THEOREM ReturnsWhenSettled == Spec => []SettledIfReturned
<1>1. SubstrateInv => SettledIfReturned
  <2> SUFFICES ASSUME WriterInv, NEW m \in Messages, wpc[m] = "nil",
                      ~(m \in votedFor \/ prop[m] = "complete"), call[m] = Runtime
               PROVE  tries[m] = BlockRetryLimit /\ faults[m] = BlockRetryLimit
    BY DEF SubstrateInv, WriterInv, NilReturned, SettledIfReturned
  <2>1. tries[m] = BlockRetryLimit
    BY DEF WriterInv, NilReturned
  <2>2. faults[m] <= tries[m] /\ tries[m] <= faults[m]
    BY DEF WriterInv, TriesFailed
  <2>3. tries[m] \in Nat /\ faults[m] \in Nat
    BY DEF WriterInv, WriterType
  <2> QED
    BY <2>1, <2>2, <2>3
<1> QED
  BY <1>1, Invariance, PTL

-------------------------------------------------------------------------------
(* Refinement of the stream of deposits                                    *)

\* The message that is handed over is the next deposit of the stream.
LEMMA SendIsNext ==
    ASSUME ListenerInv, NEW d \in todo, Send(d) PROVE Stream!Next
<1> USE Constants, NotANumber DEF ListenerInv
<1>1. /\ lpc = "send" /\ \A e \in todo : d <= e
      /\ handed' = handed \cup {d} /\ last' = d
  BY DEF Send
<1>2. /\ d \in Deposits /\ BlockOf[d] = startBlock
      /\ startBlock \in Nat /\ startBlock # Nil
  BY <1>1 DEF TodoInBlock, Subscribed, CursorSet, ListenerType
<1>3. last < d
  BY <1>2 DEF LastBehind
<1>4. ASSUME NEW e \in Expected, BlockOf[e] \notin Upgrades, e < d PROVE e \in handed
  <2>1. e \in Deposits /\ KindOf[e] \in Registered /\ BlockOf[e] \in Nat
    BY DEF Expected
  <2>2. BlockOf[e] \notin dropped
    BY <1>4 DEF ListenerType
  <2>3. BlockOf[e] <= startBlock
    BY <1>2, <1>4, <2>1
  <2>4. CASE BlockOf[e] < startBlock
    BY <1>2, <2>2, <2>4 DEF LostOnlyAtUpgrade
  <2>5. CASE BlockOf[e] = startBlock
    <3>1. e \in todo \/ e \in handed
      BY <1>1, <2>1, <2>2, <2>5 DEF BlockCovered, Subscribed
    <3>2. e \notin todo
      BY <1>1, <1>2, <1>4, <2>1
    <3> QED
      BY <3>1, <3>2
  <2> QED
    BY <1>2, <2>1, <2>3, <2>4, <2>5
<1>5. Stream!Settle("substrate", d)
  BY <1>1, <1>3, <1>4 DEF Stream!Settle
<1> QED
  BY <1>2, <1>5 DEF Stream!Next

LEMMA StepStreams == SubstrateInv /\ [Next]_vars => [Stream!Next]_(Stream!streamVars)
<1> SUFFICES ASSUME ListenerInv, [Next]_vars
             PROVE  Stream!Next \/ UNCHANGED Stream!streamVars
  BY DEF SubstrateInv
<1>1. CASE Crash
  <2>1. last' = 0 /\ UNCHANGED handed
    BY <1>1 DEF Crash
  <2>2. Stream!Resume
    BY <2>1 DEF Stream!Resume
  <2> QED
    BY <2>2 DEF Stream!Next
<1>2. ASSUME NEW d \in todo, Send(d) PROVE Stream!Next
  BY <1>2, SendIsNext
<1>3. ASSUME UNCHANGED <<handed, last>> PROVE UNCHANGED Stream!streamVars
  BY <1>3 DEF Stream!streamVars
<1>4. ASSUME NEW m \in Messages, OthersVote(m) \/ IncludeLate(m) \/ VoteProposal(m)
      PROVE  UNCHANGED <<handed, last>>
  BY <1>4 DEF OthersVote, IncludeLate, VoteProposal, CreateProposal, CreateProposalFails,
     CheckProposal, CheckFails, SubmitTx, SubmitTxFails, listenerVars
<1>5. ASSUME \/ Grow \/ PollEvents \/ PollEventsFails \/ CloseStop \/ Return \/ QueryFails
             \/ HandleEvents \/ HandleEventsFails \/ StoreBlock \/ \E h \in 0..head : Poll(h)
             \/ UNCHANGED vars
      PROVE  UNCHANGED <<handed, last>>
  BY <1>5 DEF Grow, PollEvents, PollEventsFails, CloseStop, Return, QueryFails,
     HandleEvents, HandleEventsFails, StoreBlock, Poll, vars, listenerVars
<1> QED
  BY <1>1, <1>2, <1>3, <1>4, <1>5 DEF Next

\* The Substrate listener implements the stream of deposits, as the EVM
\* listener does, for all blocks without an upgrade.
THEOREM SubstrateImplementsStream == Spec => ImplementsStream
<1>1. Init => Stream!Init
  BY DEF Init, Stream!Init
<1> QED
  BY <1>1, StepStreams, Invariance, PTL DEF Spec, ImplementsStream, Stream!Spec

===============================================================================
