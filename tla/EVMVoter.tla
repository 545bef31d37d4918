------------------------------- MODULE EVMVoter -------------------------------
(***************************************************************************)
(* chains/evm/voter: several relayers vote for proposals on the bridge     *)
(* contract of one destination chain. Every relayer runs one VoteProposal  *)
(* call per proposal, and counts other relayers' vote transactions that it *)
(* sees in the mempool in order not to send a vote nobody needs.           *)
(*                                                                         *)
(* External: the bridge contract and the mempool, as the code uses them.   *)
(***************************************************************************)
EXTENDS Integers, FiniteSets

CONSTANTS
    Relayers,
    Subscribed,             \* those made by NewVoterWithSubscription
    Proposals,              \* <<source domain, deposit nonce>>
    Threshold,              \* _relayerThreshold of the bridge contract
    MaxShouldVoteChecks,    \* maxShouldVoteChecks, 40 in the code
    MaxSimulateVoteChecks,  \* maxSimulateVoteChecks, 5 in the code
    MaxFaults,              \* bound: failed calls, dropped txs and crashes
    MaxRestarts             \* bound: restarts of one relayer

ASSUME VoterAssumption ==
    /\ IsFiniteSet(Relayers) /\ Subscribed \subseteq Relayers
    /\ Proposals \subseteq Nat \X Nat
    /\ Threshold \in 1..255
    /\ MaxShouldVoteChecks \in Nat
    /\ MaxSimulateVoteChecks \in Nat
    /\ MaxFaults \in Nat /\ MaxRestarts \in Nat

VARIABLES
    status,     \* contract, per proposal: its status
    voters,     \* contract, per proposal: who voted yes
    txs,        \* mempool and chain, per vote transaction: what became of it
    faults,     \* how much of MaxFaults is used up
    run,        \* per relayer: how often its process was restarted
    vpc,        \* per relayer and proposal: where VoteProposal is
    tries,      \* per relayer and proposal: tries of the current check
    yes,        \* per relayer and proposal: YesVotesTotal as read, 0 when not in use
    pending,    \* per relayer: the map pendingProposalVotes
    track       \* per relayer and tx: its increaseProposalVoteCount goroutine

chainVars == <<status, voters, txs>>
vars == <<status, voters, txs, faults, run, vpc, tries, yes, pending, track>>

\* A relayer sends at most one vote per proposal and run of its process.
Txs == Relayers \X Proposals \X (0..MaxRestarts)

Statuses == {"Inactive", "Active", "Passed", "Executed", "Canceled"}
TxStates == {"none", "pending", "mined", "reverted", "dropped"}
VoteStates == {"idle", "handle", "voted", "status", "compare", "simulate",
               "send", "receipt", "done", "failed"}
TrackStates == {"none", "waiting", "ended"}

Final(p) == status[p] \in {"Executed", "Canceled"}

\* Proposal.GetID: of the nonce only the low byte goes into the hash.
GetID(p) == <<p[1], p[2] % 256>>

Ids == {GetID(p) : p \in Proposals}

Init ==
    /\ status = [p \in Proposals |-> "Inactive"]
    /\ voters = [p \in Proposals |-> {}]
    /\ txs = [t \in Txs |-> "none"]
    /\ faults = 0
    /\ run = [r \in Relayers |-> 0]
    /\ vpc = [r \in Relayers |-> [p \in Proposals |-> "idle"]]
    /\ tries = [r \in Relayers |-> [p \in Proposals |-> 0]]
    /\ yes = [r \in Relayers |-> [p \in Proposals |-> 0]]
    /\ pending = [r \in Relayers |-> [i \in Ids |-> 0]]
    /\ track = [r \in Relayers |-> [t \in Txs |-> "none"]]

\* One unit of the fault budget.
Fault == faults < MaxFaults /\ faults' = faults + 1

------------------------------------------------------------------------------
(* The destination chain (external)                                       *)

\* voteProposal of the contract, called by r. A passed proposal is executed;
\* otherwise the vote is counted unless the proposal has expired, and the
\* vote that meets the threshold also tries to execute.
ContractVote(r, p) ==
    \/ /\ status[p] = "Passed"
       /\ status' = [status EXCEPT ![p] = "Executed"]
       /\ UNCHANGED voters
    \/ /\ status[p] \in {"Inactive", "Active"}
       /\ r \notin voters[p]
       /\ voters' = [voters EXCEPT ![p] = @ \cup {r}]
       /\ status' \in {[status EXCEPT ![p] = s] :
                          s \in IF Cardinality(voters[p]) + 1 >= Threshold
                                THEN {"Passed", "Executed"} ELSE {"Active"}}
    \/ /\ status[p] = "Active"
       /\ r \notin voters[p]
       /\ status' = [status EXCEPT ![p] = "Canceled"]
       /\ UNCHANGED voters

\* The contract reverts: final, voted already, or a handler that fails again.
ContractReverts(r, p) ==
    \/ Final(p)
    \/ status[p] = "Passed"
    \/ r \in voters[p]

\* A pending vote is mined.
Mine(t) ==
    /\ txs[t] = "pending"
    /\ \/ /\ ContractVote(t[1], t[2])
          /\ txs' = [txs EXCEPT ![t] = "mined"]
       \/ /\ ContractReverts(t[1], t[2])
          /\ txs' = [txs EXCEPT ![t] = "reverted"]
          /\ UNCHANGED <<status, voters>>
    /\ UNCHANGED <<faults, run, vpc, tries, yes, pending, track>>

\* A pending vote falls out of the mempool.
Drop(t) ==
    /\ txs[t] = "pending"
    /\ Fault
    /\ txs' = [txs EXCEPT ![t] = "dropped"]
    /\ UNCHANGED <<status, voters, run, vpc, tries, yes, pending, track>>

------------------------------------------------------------------------------
(* VoteProposal of relayer r for proposal p                               *)

Goto(r, p, label) == vpc' = [vpc EXCEPT ![r][p] = label]

\* delete(v.pendingProposalVotes, propID), deferred by shouldVoteForProposal:
\* a missing key reads as 0.
Forget(r, p) == pending' = [pending EXCEPT ![r][GetID(p)] = 0]

\* The relayer's route goroutine calls Write for the deposit's message.
Write(r, p) ==
    /\ vpc[r][p] = "idle"
    /\ Goto(r, p, "handle")
    /\ UNCHANGED <<chainVars, faults, run, tries, yes, pending, track>>

\* HandleMessage made the proposal.
HandleMessage(r, p) ==
    /\ vpc[r][p] = "handle"
    /\ Goto(r, p, "voted")
    /\ UNCHANGED <<chainVars, faults, run, tries, yes, pending, track>>

\* A call to the node returned an error before the proposal was looked at.
CallFails(r, p) ==
    /\ vpc[r][p] \in {"handle", "voted"}
    /\ Fault
    /\ Goto(r, p, "failed")
    /\ UNCHANGED <<chainVars, run, tries, yes, pending, track>>

\* votedByTheRelayer: nothing to do, also after a restart.
IsProposalVotedBy(r, p) ==
    /\ vpc[r][p] = "voted"
    /\ IF r \in voters[p] THEN Goto(r, p, "done") ELSE Goto(r, p, "status")
    /\ tries' = [tries EXCEPT ![r][p] = 0]
    /\ UNCHANGED <<chainVars, faults, run, yes, pending, track>>

\* shouldVoteForProposal up to the status read.
ProposalStatus(r, p) ==
    /\ vpc[r][p] = "status"
    /\ \/ /\ Final(p)
          /\ Goto(r, p, "done")
          /\ Forget(r, p)
          /\ UNCHANGED yes
       \/ /\ ~Final(p)
          /\ Goto(r, p, "compare")
          /\ yes' = [yes EXCEPT ![r][p] = Cardinality(voters[p])]
          /\ UNCHANGED pending
    /\ UNCHANGED <<chainVars, faults, run, tries, track>>

\* ProposalStatus or GetThreshold failed; the deferred delete still runs.
CheckFails(r, p) ==
    /\ vpc[r][p] \in {"status", "compare"}
    /\ Fault
    /\ Goto(r, p, "failed")
    /\ Forget(r, p)
    /\ yes' = [yes EXCEPT ![r][p] = 0]
    /\ UNCHANGED <<chainVars, run, tries, track>>

\* Both operands are uint8.
EnoughVotes(r, p) == (yes[r][p] + pending[r][GetID(p)]) % 256 >= Threshold

\* Fault: votes that are only pending are taken for votes.
GetThresholdSkips(r, p) ==
    /\ vpc[r][p] = "compare"
    /\ yes' = [yes EXCEPT ![r][p] = 0]
    /\ IF EnoughVotes(r, p) THEN Goto(r, p, "done") ELSE Goto(r, p, "simulate")
    /\ Forget(r, p)
    /\ UNCHANGED <<chainVars, faults, run, tries, track>>

\* GetThreshold answered: check again while the votes at hand would do and
\* tries are left, else go on to vote.
GetThreshold(r, p) ==
    /\ vpc[r][p] = "compare"
    /\ yes' = [yes EXCEPT ![r][p] = 0]
    /\ \/ /\ EnoughVotes(r, p) /\ tries[r][p] < MaxShouldVoteChecks
          /\ tries' = [tries EXCEPT ![r][p] = @ + 1]
          /\ Goto(r, p, "status")
          /\ UNCHANGED pending
       \/ /\ ~EnoughVotes(r, p) \/ tries[r][p] >= MaxShouldVoteChecks
          /\ tries' = [tries EXCEPT ![r][p] = 0]
          /\ Goto(r, p, "simulate")
          /\ Forget(r, p)
    /\ UNCHANGED <<chainVars, faults, run, track>>

\* repetitiveSimulateVote: the call succeeds where a vote would.
SimulateVoteProposal(r, p) ==
    /\ vpc[r][p] = "simulate"
    /\ ~Final(p)
    /\ status[p] = "Passed" \/ r \notin voters[p]
    /\ Goto(r, p, "send")
    /\ UNCHANGED <<chainVars, faults, run, tries, yes, pending, track>>

\* Fault: the retries are not counted.
SimulateForever(r, p) ==
    /\ vpc[r][p] = "simulate"
    /\ \/ ContractReverts(r, p) /\ UNCHANGED faults
       \/ Fault
    /\ UNCHANGED <<chainVars, run, vpc, tries, yes, pending, track>>

\* The call reverts, or the node fails: up to MaxSimulateVoteChecks retries.
SimulateFails(r, p) ==
    /\ vpc[r][p] = "simulate"
    /\ \/ ContractReverts(r, p) /\ UNCHANGED faults
       \/ Fault
    /\ IF tries[r][p] < MaxSimulateVoteChecks
       THEN tries' = [tries EXCEPT ![r][p] = @ + 1] /\ UNCHANGED vpc
       ELSE Goto(r, p, "failed") /\ UNCHANGED tries
    /\ UNCHANGED <<chainVars, run, yes, pending, track>>

\* BridgeContract.VoteProposal through signAndSend.Transact: the nonce lock is
\* held until the receipt is there.
SendVote(r, p) ==
    /\ vpc[r][p] = "send"
    /\ \A q \in Proposals : vpc[r][q] # "receipt"
    /\ txs' = [txs EXCEPT ![<<r, p, run[r]>>] = "pending"]
    /\ Goto(r, p, "receipt")
    /\ UNCHANGED <<status, voters, faults, run, tries, yes, pending, track>>

\* The vote is not sent, or it is and the node's answer is lost.
SendFails(r, p) ==
    /\ vpc[r][p] = "send"
    /\ \A q \in Proposals : vpc[r][q] # "receipt"
    /\ Fault
    /\ txs' \in {txs, [txs EXCEPT ![<<r, p, run[r]>>] = "pending"]}
    /\ Goto(r, p, "failed")
    /\ UNCHANGED <<status, voters, run, tries, yes, pending, track>>

\* Fault: the status of the receipt is not looked at.
ReceiptUnchecked(r, p) ==
    /\ vpc[r][p] = "receipt"
    /\ Goto(r, p, IF txs[<<r, p, run[r]>>] \in {"mined", "reverted"}
                  THEN "done" ELSE "failed")
    /\ UNCHANGED <<chainVars, faults, run, tries, yes, pending, track>>

\* WaitAndReturnTxReceipt: a receipt of a successful transaction ends the
\* call; one that reverted, or none after 50 tries, is an error.
Receipt(r, p) ==
    /\ vpc[r][p] = "receipt"
    /\ IF txs[<<r, p, run[r]>>] = "mined" THEN Goto(r, p, "done")
                                          ELSE Goto(r, p, "failed")
    /\ UNCHANGED <<chainVars, faults, run, tries, yes, pending, track>>

------------------------------------------------------------------------------
(* The subscription to pending transactions, and the process              *)

\* Another goroutine of r is about to update the map as well. Nothing
\* synchronises them, so one of the updates may get lost.
Racing(r, t) ==
    \E u \in Txs \ {t} :
        \/ txs[u] # "none" /\ track[r][u] = "none"
        \/ track[r][u] = "waiting"

\* Fault: a counter that does not wrap.
BumpSigned(r, t, n) ==
    pending' = [pending EXCEPT ![r][GetID(t[2])] = @ + n]

\* v.pendingProposalVotes[propID] + n, in uint8
Bump(r, t, n) ==
    LET i == GetID(t[2]) IN
    \/ pending' = [pending EXCEPT ![r][i] = (@ + n) % 256]
    \/ Racing(r, t) /\ UNCHANGED pending

\* trackProposalPendingVotes sees a vote and increaseProposalVoteCount counts
\* it. When TransactionByHash fails it never does.
Track(r, t) ==
    /\ r \in Subscribed
    /\ txs[t] # "none"
    /\ track[r][t] = "none"
    /\ Bump(r, t, 1)
    /\ track' = [track EXCEPT ![r][t] = "waiting"]
    /\ UNCHANGED <<chainVars, faults, run, vpc, tries, yes>>

\* The receipt is there, or WaitAndReturnTxReceipt gave up.
Untrack(r, t) ==
    /\ track[r][t] = "waiting"
    /\ Bump(r, t, -1)
    /\ track' = [track EXCEPT ![r][t] = "ended"]
    /\ UNCHANGED <<chainVars, faults, run, vpc, tries, yes>>

\* The process of r dies (for Go's map checker may also end it) and restarts:
\* some messages are delivered again, the others that were under way are lost.
Crash(r) ==
    /\ Fault
    /\ run[r] < MaxRestarts
    /\ run' = [run EXCEPT ![r] = @ + 1]
    /\ \E again \in SUBSET Proposals :
          vpc' = [vpc EXCEPT ![r] = [p \in Proposals |->
                    IF p \in again \/ @[p] = "idle" THEN "idle"
                    ELSE IF @[p] = "done" THEN "done" ELSE "failed"]]
    /\ tries' = [tries EXCEPT ![r] = [p \in Proposals |-> 0]]
    /\ yes' = [yes EXCEPT ![r] = [p \in Proposals |-> 0]]
    /\ pending' = [pending EXCEPT ![r] = [i \in Ids |-> 0]]
    /\ track' = [track EXCEPT ![r] = [t \in Txs |->
                    IF txs[t] = "none" THEN "none" ELSE "ended"]]
    /\ UNCHANGED chainVars

VoteStep(r, p) ==
    \/ HandleMessage(r, p) \/ CallFails(r, p)
    \/ IsProposalVotedBy(r, p)
    \/ ProposalStatus(r, p) \/ GetThreshold(r, p) \/ CheckFails(r, p)
    \/ SimulateVoteProposal(r, p) \/ SimulateFails(r, p)
    \/ SendVote(r, p) \/ SendFails(r, p)
    \/ Receipt(r, p)

Next ==
    \/ \E r \in Relayers : \E p \in Proposals : Write(r, p) \/ VoteStep(r, p)
    \/ \E r \in Relayers : \E t \in Txs : Track(r, t) \/ Untrack(r, t)
    \/ \E r \in Relayers : Crash(r)
    \/ \E t \in Txs : Mine(t) \/ Drop(t)

Spec == Init /\ [][Next]_vars

\* Every goroutine that can run does, every deposit reaches every relayer,
\* and a vote that stays in the mempool is mined. Nothing obliges a
\* relayer to see other votes.
FairSpec ==
    /\ Spec
    /\ \A r \in Relayers : \A p \in Proposals :
          WF_vars(Write(r, p)) /\ WF_vars(VoteStep(r, p))
    /\ \A r \in Relayers : \A t \in Txs : WF_vars(Untrack(r, t))
    /\ \A t \in Txs : WF_vars(Mine(t))

------------------------------------------------------------------------------
(* Properties                                                             *)

\* Every variable keeps its type.
TypeOK ==
    /\ status \in [Proposals -> Statuses]
    /\ voters \in [Proposals -> SUBSET Relayers]
    /\ txs \in [Txs -> TxStates]
    /\ faults \in 0..MaxFaults
    /\ run \in [Relayers -> 0..MaxRestarts]
    /\ vpc \in [Relayers -> [Proposals -> VoteStates]]
    /\ tries \in [Relayers -> [Proposals -> Nat]]
    /\ yes \in [Relayers -> [Proposals -> Nat]]
    /\ pending \in [Relayers -> [Ids -> 0..255]]
    /\ track \in [Relayers -> [Txs -> TrackStates]]

\* VoteProposal returns without an error only for a proposal that needs no
\* vote of this relayer any more: its vote is counted, or the proposal is
\* executed or cancelled. Pending votes of others, which may yet be dropped,
\* are never a reason to return ("prevent missing votes in case of dropped
\* txs").
SkipsOnlyFinal ==
    \A r \in Relayers : \A p \in Proposals :
        vpc[r][p] = "done" => r \in voters[p] \/ Final(p)

\* VoteProposal returns: the waits for other relayers' votes, for a
\* simulation that succeeds and for a receipt are all bounded.
VoteReturns ==
    \A r \in Relayers : \A p \in Proposals :
        vpc[r][p] = "handle" ~> vpc[r][p] \in {"done", "failed", "idle"}

\* With no more faults than relayers to spare, every proposal gets the votes
\* it needs, although relayers hold back for votes that they believe pending.
EventuallyPassed ==
    MaxFaults <= Cardinality(Relayers) - Threshold =>
        \A p \in Proposals :
            <>(status[p] \in {"Passed", "Executed", "Canceled"})

\* "increases pending proposal vote for target proposal and decreases it when
\* transaction is mined": the count goes up only when a vote is first seen.
DecreasesWhenMined ==
    [][\A r \in Relayers : \A i \in Ids :
         pending'[r][i] > pending[r][i] =>
             \E t \in Txs : track[r][t] = "none" /\ track'[r][t] = "waiting"]_vars

\* "proposal unique identifier": the pending votes found under a proposal's
\* identifier are votes for that proposal.
CountsOwnVotes ==
    \A r \in Relayers : \A p \in Proposals :
        (\A t \in Txs : t[2] = p => txs[t] = "none") => pending[r][GetID(p)] = 0

===============================================================================
