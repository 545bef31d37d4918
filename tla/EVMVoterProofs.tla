---------------------------- MODULE EVMVoterProofs ----------------------------
(***************************************************************************)
(* That VoteProposal gives up its vote only when the proposal needs none,  *)
(* for any number of relayers, proposals, faults and restarts.             *)
(***************************************************************************)
EXTENDS EVMVoter, FiniteSetTheorems, TLAPS

\* The part of the type invariant the argument needs: what indexes what.
Shape ==
    /\ status \in [Proposals -> Statuses]
    /\ voters \in [Proposals -> SUBSET Relayers]
    /\ txs \in [Txs -> TxStates]
    /\ run \in [Relayers -> 0..MaxRestarts]
    /\ vpc \in [Relayers -> [Proposals -> VoteStates]]

\* A vote that was mined successfully has counted, or the proposal was
\* executed or cancelled by it or before its voter looks again.
MinedCounts ==
    \A t \in Txs : txs[t] = "mined" => t[1] \in voters[t[2]] \/ Final(t[2])

\* The inductive invariant.
VoterInv == Shape /\ MinedCounts /\ SkipsOnlyFinal

\* What no step of the contract takes back.
Monotone ==
    \A p \in Proposals : /\ voters[p] \subseteq voters'[p]
                         /\ Final(p) => Final(p)'

-------------------------------------------------------------------------------
(* Steps of VoteProposal                                                      *)

\* A step that leaves the chain alone and moves only relayer r's call for p,
\* to "done" only with its vote counted or the proposal final.
LEMMA VoteMoves ==
    ASSUME NEW r \in Relayers, NEW p \in Proposals, NEW l \in VoteStates,
           VoterInv, UNCHANGED <<status, voters, txs, run>>,
           vpc' = [vpc EXCEPT ![r][p] = l],
           l = "done" => r \in voters[p] \/ Final(p)
    PROVE  VoterInv'
<1>1. Shape'
  BY DEF VoterInv, Shape
<1>2. MinedCounts'
  BY DEF VoterInv, MinedCounts, Final
<1>3. SkipsOnlyFinal'
  BY DEF VoterInv, Shape, SkipsOnlyFinal, Final
<1> QED
  BY <1>1, <1>2, <1>3 DEF VoterInv

\* A vote that enters the mempool, answered or not (SignAndSendTransaction),
\* is not mined yet and its sender has not returned nil.
LEMMA VotePooled ==
    ASSUME NEW r \in Relayers, NEW p \in Proposals, NEW l \in VoteStates \ {"done"},
           VoterInv,
           txs' = [txs EXCEPT ![<<r, p, run[r]>>] = "pending"],
           vpc' = [vpc EXCEPT ![r][p] = l],
           UNCHANGED <<status, voters, run>>
    PROVE  VoterInv'
<1>1. <<r, p, run[r]>> \in Txs
  BY DEF VoterInv, Shape, Txs
<1>2. Shape'
  BY <1>1 DEF VoterInv, Shape, TxStates
<1>3. MinedCounts'
  BY <1>1 DEF VoterInv, Shape, MinedCounts, Final
<1>4. SkipsOnlyFinal'
  BY DEF VoterInv, Shape, SkipsOnlyFinal, Final
<1> QED
  BY <1>2, <1>3, <1>4 DEF VoterInv

\* Every step of VoteProposal preserves the invariant.
LEMMA VoteStepInv ==
    ASSUME NEW r \in Relayers, NEW p \in Proposals, VoterInv,
           Write(r, p) \/ VoteStep(r, p)
    PROVE  VoterInv'
<1> USE DEF VoteStates, Goto, chainVars
<1>1. CASE Write(r, p)
  BY <1>1, VoteMoves DEF Write
<1>2. CASE HandleMessage(r, p)
  BY <1>2, VoteMoves DEF HandleMessage
<1>3. CASE CallFails(r, p)
  BY <1>3, VoteMoves DEF CallFails
<1>4. CASE IsProposalVotedBy(r, p)
  BY <1>4, VoteMoves DEF IsProposalVotedBy
<1>5. CASE ProposalStatus(r, p)
  BY <1>5, VoteMoves DEF ProposalStatus
<1>6. CASE CheckFails(r, p)
  BY <1>6, VoteMoves DEF CheckFails
<1>7. CASE GetThreshold(r, p)
  BY <1>7, VoteMoves DEF GetThreshold
<1>8. CASE SimulateVoteProposal(r, p)
  BY <1>8, VoteMoves DEF SimulateVoteProposal
<1>9. CASE SimulateFails(r, p)
  <2>1. CASE vpc' = vpc
    BY <1>9, <2>1 DEF SimulateFails, VoterInv, Shape, MinedCounts, SkipsOnlyFinal, Final
  <2>2. CASE Goto(r, p, "failed")
    BY <1>9, <2>2, VoteMoves DEF SimulateFails
  <2> QED
    BY <1>9, <2>1, <2>2 DEF SimulateFails
<1>10. CASE SendVote(r, p)
  BY <1>10, VotePooled DEF SendVote
<1>11. CASE SendFails(r, p)
  <2>1. CASE UNCHANGED txs
    BY <1>11, <2>1, VoteMoves DEF SendFails
  <2>2. CASE txs' = [txs EXCEPT ![<<r, p, run[r]>>] = "pending"]
    BY <1>11, <2>2, VotePooled DEF SendFails
  <2> QED
    BY <1>11, <2>1, <2>2 DEF SendFails
<1>12. CASE Receipt(r, p)
  <2>1. <<r, p, run[r]>> \in Txs
    BY DEF VoterInv, Shape, Txs
  <2>2. txs[<<r, p, run[r]>>] = "mined" => r \in voters[p] \/ Final(p)
    BY <2>1 DEF VoterInv, MinedCounts
  <2>3. CASE txs[<<r, p, run[r]>>] = "mined"
    BY <1>12, <2>2, <2>3, VoteMoves DEF Receipt
  <2>4. CASE txs[<<r, p, run[r]>>] # "mined"
    BY <1>12, <2>4, VoteMoves DEF Receipt
  <2> QED
    BY <2>3, <2>4
<1> QED
  BY <1>1, <1>2, <1>3, <1>4, <1>5, <1>6, <1>7, <1>8, <1>9, <1>10, <1>11, <1>12
  DEF VoteStep

-------------------------------------------------------------------------------
(* Steps of the chain, the subscription and the process                       *)

\* voteProposal only adds voters, and leaves final proposals alone.
LEMMA ContractVoteMonotone ==
    ASSUME NEW r \in Relayers, NEW p \in Proposals, Shape, ContractVote(r, p)
    PROVE  /\ status' \in [Proposals -> Statuses]
           /\ voters' \in [Proposals -> SUBSET Relayers]
           /\ Monotone
           /\ r \in voters'[p] \/ Final(p)'
<1>1. CASE status[p] = "Passed" /\ status' = [status EXCEPT ![p] = "Executed"]
           /\ voters' = voters
  BY <1>1 DEF Shape, Statuses, Monotone, Final
<1>2. CASE /\ status[p] \in {"Inactive", "Active"}
           /\ voters' = [voters EXCEPT ![p] = @ \cup {r}]
           /\ \E s \in {"Passed", "Executed", "Active"} : status' = [status EXCEPT ![p] = s]
  BY <1>2 DEF Shape, Statuses, Monotone, Final
<1>3. CASE status[p] = "Active" /\ status' = [status EXCEPT ![p] = "Canceled"]
           /\ voters' = voters
  BY <1>3 DEF Shape, Statuses, Monotone, Final
<1> QED
  BY <1>1, <1>2, <1>3 DEF ContractVote

\* Mining a vote preserves the invariant.
LEMMA MineInv ==
    ASSUME NEW t \in Txs, VoterInv, Mine(t)
    PROVE  VoterInv'
<1>0. t[1] \in Relayers /\ t[2] \in Proposals
  BY DEF Txs
<1>1. CASE ContractVote(t[1], t[2]) /\ txs' = [txs EXCEPT ![t] = "mined"]
  <2>1. /\ status' \in [Proposals -> Statuses]
        /\ voters' \in [Proposals -> SUBSET Relayers]
        /\ Monotone
        /\ t[1] \in voters'[t[2]] \/ Final(t[2])'
    BY <1>0, <1>1, ContractVoteMonotone DEF VoterInv
  <2>2. run' = run /\ vpc' = vpc
    BY DEF Mine
  <2>3. Shape'
    BY <1>1, <2>1, <2>2 DEF VoterInv, Shape, TxStates
  <2>4. MinedCounts'
    <3> SUFFICES ASSUME NEW u \in Txs, txs'[u] = "mined"
                 PROVE  u[1] \in voters'[u[2]] \/ Final(u[2])'
      BY DEF MinedCounts
    <3>1. CASE u = t
      BY <2>1, <3>1
    <3>2. CASE u # t
      <4>1. u[2] \in Proposals
        BY DEF Txs
      <4>2. txs[u] = "mined"
        BY <1>1, <3>2 DEF VoterInv, Shape
      <4> QED
        BY <2>1, <4>1, <4>2 DEF VoterInv, MinedCounts, Monotone
    <3> QED
      BY <3>1, <3>2
  <2>5. SkipsOnlyFinal'
    BY <2>1, <2>2 DEF VoterInv, SkipsOnlyFinal, Monotone
  <2> QED
    BY <2>3, <2>4, <2>5 DEF VoterInv
<1>2. CASE txs' = [txs EXCEPT ![t] = "reverted"] /\ UNCHANGED <<status, voters>>
  BY <1>2 DEF Mine, VoterInv, Shape, TxStates, MinedCounts, SkipsOnlyFinal, Final
<1> QED
  BY <1>1, <1>2 DEF Mine

\* A restart keeps of the calls only those that were done.
LEMMA CrashInv ==
    ASSUME NEW r \in Relayers, VoterInv, Crash(r)
    PROVE  VoterInv'
<1>1. PICK again \in SUBSET Proposals :
        vpc' = [vpc EXCEPT ![r] = [p \in Proposals |->
                    IF p \in again \/ @[p] = "idle" THEN "idle"
                    ELSE IF @[p] = "done" THEN "done" ELSE "failed"]]
  BY DEF Crash
<1>2. /\ UNCHANGED <<status, voters, txs>>
      /\ run[r] < MaxRestarts
      /\ run' = [run EXCEPT ![r] = @ + 1]
  BY DEF Crash, chainVars
<1>3. \A s \in Relayers : \A p \in Proposals : vpc'[s][p] = "done" => vpc[s][p] = "done"
  BY <1>1 DEF VoterInv, Shape
<1>4. vpc' \in [Relayers -> [Proposals -> VoteStates]]
  BY <1>1 DEF VoterInv, Shape, VoteStates
<1>5. run' \in [Relayers -> 0..MaxRestarts]
  BY <1>2, VoterAssumption DEF VoterInv, Shape
<1> QED
  BY <1>2, <1>3, <1>4, <1>5 DEF VoterInv, Shape, MinedCounts, SkipsOnlyFinal, Final

-------------------------------------------------------------------------------
(* The theorem                                                                *)

\* Before any vote the invariant holds.
LEMMA VoterInit == Init => VoterInv
<1> SUFFICES ASSUME Init PROVE VoterInv
  OBVIOUS
<1>1. Shape
  <2>1. voters \in [Proposals -> SUBSET Relayers]
    BY DEF Init
  <2>2. run \in [Relayers -> 0..MaxRestarts]
    BY VoterAssumption DEF Init
  <2> QED
    BY <2>1, <2>2 DEF Init, Shape, Statuses, TxStates, VoteStates
<1>2. MinedCounts /\ SkipsOnlyFinal
  BY DEF Init, MinedCounts, SkipsOnlyFinal
<1> QED
  BY <1>1, <1>2 DEF VoterInv

\* Every step preserves the invariant.
LEMMA VoterNext == VoterInv /\ [Next]_vars => VoterInv'
<1> SUFFICES ASSUME VoterInv, [Next]_vars PROVE VoterInv'
  OBVIOUS
<1>1. ASSUME NEW r \in Relayers, NEW p \in Proposals, Write(r, p) \/ VoteStep(r, p)
      PROVE  VoterInv'
  BY <1>1, VoteStepInv
<1>2. ASSUME NEW r \in Relayers, NEW t \in Txs, Track(r, t) \/ Untrack(r, t)
      PROVE  VoterInv'
  BY <1>2 DEF Track, Untrack, chainVars, VoterInv, Shape, MinedCounts, SkipsOnlyFinal, Final
<1>3. ASSUME NEW r \in Relayers, Crash(r) PROVE VoterInv'
  BY <1>3, CrashInv
<1>4. ASSUME NEW t \in Txs, Mine(t) PROVE VoterInv'
  BY <1>4, MineInv
<1>5. ASSUME NEW t \in Txs, Drop(t) PROVE VoterInv'
  BY <1>5 DEF Drop, VoterInv, Shape, TxStates, MinedCounts, SkipsOnlyFinal, Final
<1>6. CASE UNCHANGED vars
  BY <1>6 DEF vars, VoterInv, Shape, MinedCounts, SkipsOnlyFinal, Final
<1> QED
  BY <1>1, <1>2, <1>3, <1>4, <1>5, <1>6 DEF Next

\* VoteProposal returns nil only when the relayer's vote is counted or the
\* proposal is executed or cancelled.
THEOREM NeverSkipsAnOpenProposal == Spec => []SkipsOnlyFinal
<1>1. VoterInv => SkipsOnlyFinal
  BY DEF VoterInv
<1> QED
  BY <1>1, VoterInit, VoterNext, PTL DEF Spec

-------------------------------------------------------------------------------
(* Type correctness                                                           *)

\* The rest of the type invariant: the counters and the goroutines.
Counters ==
    /\ faults \in 0..MaxFaults
    /\ tries \in [Relayers -> [Proposals -> Nat]]
    /\ yes \in [Relayers -> [Proposals -> Nat]]
    /\ pending \in [Relayers -> [Ids -> 0..255]]
    /\ track \in [Relayers -> [Txs -> TrackStates]]

\* A table of tables keeps its type when one entry is replaced.
LEMMA EntryReplaced ==
    ASSUME NEW A, NEW B, NEW S, NEW f \in [A -> [B -> S]],
           NEW a \in A, NEW b \in B, NEW v \in S
    PROVE  [f EXCEPT ![a][b] = v] \in [A -> [B -> S]]
<1>1. [f[a] EXCEPT ![b] = v] \in [B -> S]
  OBVIOUS
<1> QED
  BY <1>1

\* A fault stays within the budget.
LEMMA FaultType ==
    ASSUME Counters, Fault
    PROVE  faults' \in 0..MaxFaults
  BY VoterAssumption DEF Counters, Fault

\* The count read from the contract is a number.
LEMMA VotesCounted ==
    ASSUME Shape, NEW p \in Proposals
    PROVE  Cardinality(voters[p]) \in Nat
<1>1. voters[p] \subseteq Relayers /\ IsFiniteSet(Relayers)
  BY VoterAssumption DEF Shape
<1> QED
  BY <1>1, FS_Subset, FS_CardinalityType

\* One more try, or the first.
LEMMA TriesType ==
    ASSUME Counters, NEW r \in Relayers, NEW p \in Proposals,
           \/ tries' = [tries EXCEPT ![r][p] = @ + 1]
           \/ tries' = [tries EXCEPT ![r][p] = 0]
           \/ tries' = tries
    PROVE  tries' \in [Relayers -> [Proposals -> Nat]]
<1>1. tries[r][p] + 1 \in Nat /\ 0 \in Nat /\ tries \in [Relayers -> [Proposals -> Nat]]
  BY DEF Counters
<1>2. CASE tries' = [tries EXCEPT ![r][p] = tries[r][p] + 1]
  BY <1>1, <1>2, EntryReplaced
<1>3. CASE tries' = [tries EXCEPT ![r][p] = 0]
  BY <1>1, <1>3, EntryReplaced
<1> QED
  BY <1>1, <1>2, <1>3

\* Deleting the counter of a proposal leaves the map a map.
LEMMA ForgetType ==
    ASSUME Counters, NEW r \in Relayers, NEW p \in Proposals, Forget(r, p)
    PROVE  pending' \in [Relayers -> [Ids -> 0..255]]
<1>1. GetID(p) \in Ids
  BY DEF Ids
<1> QED
  BY <1>1 DEF Counters, Forget

\* The uint8 arithmetic of the map stays in range, also below zero.
LEMMA BumpType ==
    ASSUME Counters, NEW r \in Relayers, NEW t \in Txs, NEW n \in Int, Bump(r, t, n)
    PROVE  pending' \in [Relayers -> [Ids -> 0..255]]
<1>1. GetID(t[2]) \in Ids
  BY DEF Ids, Txs
<1>2. pending[r][GetID(t[2])] \in 0..255
  BY <1>1 DEF Counters
<1>3. \A x \in Int : x % 256 \in 0..255
  OBVIOUS
<1>4. pending[r][GetID(t[2])] + n \in Int
  BY <1>2
<1>5. CASE UNCHANGED pending
  BY <1>5 DEF Counters
<1>6. ASSUME NEW k \in 0..255, NEW i \in Ids, pending' = [pending EXCEPT ![r][i] = k]
      PROVE  pending' \in [Relayers -> [Ids -> 0..255]]
  BY <1>6 DEF Counters
<1> QED
  BY <1>1, <1>3, <1>4, <1>5, <1>6 DEF Bump

\* Every step of VoteProposal keeps the types.
LEMMA VoteStepCounters ==
    ASSUME Shape, Counters, NEW r \in Relayers, NEW p \in Proposals,
           Write(r, p) \/ VoteStep(r, p)
    PROVE  Counters'
<1> USE DEF Counters
<1>1. CASE Write(r, p) \/ HandleMessage(r, p) \/ SimulateVoteProposal(r, p)
           \/ SendVote(r, p) \/ Receipt(r, p)
  BY <1>1 DEF Write, HandleMessage, SimulateVoteProposal, SendVote, Receipt
<1>2. CASE CallFails(r, p) \/ SendFails(r, p)
  BY <1>2, FaultType DEF CallFails, SendFails
<1>3. CASE IsProposalVotedBy(r, p)
  BY <1>3 DEF IsProposalVotedBy
<1>4. CASE ProposalStatus(r, p)
  <2>1. yes' \in [Relayers -> [Proposals -> Nat]]
    <3>1. Cardinality(voters[p]) \in Nat /\ yes \in [Relayers -> [Proposals -> Nat]]
      BY VotesCounted
    <3>2. yes' = yes \/ yes' = [yes EXCEPT ![r][p] = Cardinality(voters[p])]
      BY <1>4 DEF ProposalStatus
    <3>3. [yes EXCEPT ![r][p] = Cardinality(voters[p])] \in [Relayers -> [Proposals -> Nat]]
      BY <3>1, EntryReplaced
    <3> QED
      BY <3>1, <3>2, <3>3
  <2>2. pending' \in [Relayers -> [Ids -> 0..255]]
    BY <1>4, ForgetType DEF ProposalStatus
  <2> QED
    BY <1>4, <2>1, <2>2 DEF ProposalStatus
<1>5. CASE CheckFails(r, p)
  BY <1>5, FaultType, ForgetType DEF CheckFails
<1>6. CASE GetThreshold(r, p)
  <2>1. pending' \in [Relayers -> [Ids -> 0..255]]
    BY <1>6, ForgetType DEF GetThreshold
  <2>2. tries' \in [Relayers -> [Proposals -> Nat]]
    BY <1>6, TriesType DEF GetThreshold
  <2>3. yes' \in [Relayers -> [Proposals -> Nat]]
    BY <1>6 DEF GetThreshold
  <2> QED
    BY <1>6, <2>1, <2>2, <2>3 DEF GetThreshold
<1>7. CASE SimulateFails(r, p)
  <2>1. faults' \in 0..MaxFaults
    BY <1>7, FaultType DEF SimulateFails
  <2>2. tries' \in [Relayers -> [Proposals -> Nat]]
    BY <1>7, TriesType DEF SimulateFails
  <2> QED
    BY <1>7, <2>1, <2>2 DEF SimulateFails
<1> QED
  BY <1>1, <1>2, <1>3, <1>4, <1>5, <1>6, <1>7 DEF VoteStep

\* Every step keeps the types.
LEMMA NextCounters == Shape /\ Counters /\ [Next]_vars => Counters'
<1> SUFFICES ASSUME Shape, Counters, [Next]_vars PROVE Counters'
  OBVIOUS
<1>1. ASSUME NEW r \in Relayers, NEW p \in Proposals, Write(r, p) \/ VoteStep(r, p)
      PROVE  Counters'
  BY <1>1, VoteStepCounters
<1>2. ASSUME NEW r \in Relayers, NEW t \in Txs, Track(r, t) \/ Untrack(r, t)
      PROVE  Counters'
  <2>1. pending' \in [Relayers -> [Ids -> 0..255]]
    BY <1>2, BumpType DEF Track, Untrack
  <2>2. track' \in [Relayers -> [Txs -> TrackStates]]
    <3>1. "waiting" \in TrackStates /\ "ended" \in TrackStates
          /\ track \in [Relayers -> [Txs -> TrackStates]]
      BY DEF Counters, TrackStates
    <3>2. \/ track' = [track EXCEPT ![r][t] = "waiting"]
          \/ track' = [track EXCEPT ![r][t] = "ended"]
      BY <1>2 DEF Track, Untrack
    <3>3. [track EXCEPT ![r][t] = "waiting"] \in [Relayers -> [Txs -> TrackStates]]
      BY <3>1, EntryReplaced
    <3>4. [track EXCEPT ![r][t] = "ended"] \in [Relayers -> [Txs -> TrackStates]]
      BY <3>1, EntryReplaced
    <3> QED
      BY <3>2, <3>3, <3>4
  <2>3. UNCHANGED <<faults, tries, yes>>
    BY <1>2 DEF Track, Untrack
  <2> QED
    BY <2>1, <2>2, <2>3 DEF Counters
<1>3. ASSUME NEW r \in Relayers, Crash(r) PROVE Counters'
  <2>1. faults' \in 0..MaxFaults
    BY <1>3, FaultType DEF Crash
  <2>2. tries' \in [Relayers -> [Proposals -> Nat]] /\ yes' \in [Relayers -> [Proposals -> Nat]]
    BY <1>3 DEF Crash, Counters
  <2>3. pending' \in [Relayers -> [Ids -> 0..255]]
    BY <1>3 DEF Crash, Counters
  <2>4. track' \in [Relayers -> [Txs -> TrackStates]]
    BY <1>3 DEF Crash, Counters, TrackStates
  <2> QED
    BY <2>1, <2>2, <2>3, <2>4 DEF Counters
<1>4. ASSUME NEW t \in Txs, Mine(t) PROVE Counters'
  BY <1>4 DEF Mine, Counters
<1>5. ASSUME NEW t \in Txs, Drop(t) PROVE Counters'
  BY <1>5, FaultType DEF Drop, Counters
<1>6. CASE UNCHANGED vars
  BY <1>6 DEF vars, Counters
<1> QED
  BY <1>1, <1>2, <1>3, <1>4, <1>5, <1>6 DEF Next

\* Type correctness of the voters; the pending votes stay a uint8 through
\* racing updates, deletions and decrements below zero.
THEOREM VoterTypeCorrect == Spec => []TypeOK
<1>1. Init => Counters
  BY VoterAssumption DEF Init, Counters, TrackStates
<1>2. VoterInv => Shape
  BY DEF VoterInv
<1>3. Shape /\ Counters => TypeOK
  BY DEF Shape, Counters, TypeOK
<1> QED
  BY <1>1, <1>2, <1>3, VoterInit, VoterNext, NextCounters, PTL DEF Spec

===============================================================================
