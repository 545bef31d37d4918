---------------------------- MODULE ITXTransactor ----------------------------
(***************************************************************************)
(* chains/evm/calls/transactor/itx with store/noncestore.go: concurrent    *)
(* Transact calls of one relayer send forwarded transactions through a     *)
(* relay service. The nonce of the forwarder contract is counted in        *)
(* memory, under a mutex, and stored whenever the mutex is released.       *)
(*                                                                         *)
(* External: the relay service (relay_sendTransaction) and the forwarder   *)
(* contract, which executes a request only when its nonce is the next one. *)
(***************************************************************************)
EXTENDS Integers

CONSTANTS
    Calls,          \* Transact calls
    None,           \* no caller holds the mutex
    Nil,            \* the nonce was not read yet
    NotFound,       \* no nonce is stored
    MaxFaults       \* bound: errors, lost answers and crashes

ASSUME TransactorAssumption ==
    /\ None \notin Calls
    /\ Nil \notin Int /\ NotFound \notin Int
    /\ MaxFaults \in Nat

VARIABLES
    tpc,            \* per call: where Transact is
    nonceLock,      \* the caller that holds the mutex, or None
    nonce,          \* MinimalForwarder.nonce
    stored,         \* the nonce store
    carried,        \* per call: opts.Nonce
    relay,          \* per call: what became of its relay transaction
    contractNonce,  \* getNonce of the forwarder contract
    faults,         \* how much of MaxFaults is used up
    panicked,       \* the process died of a nil dereference
    \* history variable
    forgot          \* an accepted nonce was not counted, or not durably

vars == <<tpc, nonceLock, nonce, stored, carried, relay, contractNonce, faults,
          panicked, forgot>>

CallStates == {"idle", "nonce", "send", "unlock", "returned"}
RelayStates == {"none", "accepted", "executed", "reverted"}

Accepted(k) == relay[k] # "none"

Init ==
    /\ tpc = [k \in Calls |-> "idle"]
    /\ nonceLock = None
    /\ nonce = Nil
    /\ stored = NotFound
    /\ carried = [k \in Calls |-> 0]
    /\ relay = [k \in Calls |-> "none"]
    /\ contractNonce = 0
    /\ faults = 0
    /\ panicked = FALSE
    /\ forgot = FALSE

Fault == faults < MaxFaults /\ faults' = faults + 1

Goto(k, label) == tpc' = [tpc EXCEPT ![k] = label]

------------------------------------------------------------------------------
(* Transact                                                               *)

\* Fault: the mutex does not exclude.
LockShared(k) ==
    /\ tpc[k] = "idle"
    /\ ~panicked
    /\ nonceLock' = k
    /\ Goto(k, "nonce")
    /\ UNCHANGED <<nonce, stored, carried, relay, contractNonce, faults, panicked,
                   forgot>>

\* The mutex is taken before the nonce is read.
LockNonce(k) ==
    /\ tpc[k] = "idle"
    /\ ~panicked
    /\ nonceLock = None
    /\ nonceLock' = k
    /\ Goto(k, "nonce")
    /\ UNCHANGED <<nonce, stored, carried, relay, contractNonce, faults, panicked,
                   forgot>>

\* NonceStore.GetNonce: a nonce that was never stored reads as 0.
GetNonce == IF stored = NotFound THEN 0 ELSE stored

\* The higher of stored and contract nonce, read once per process.
FirstNonce == IF GetNonce >= contractNonce THEN GetNonce ELSE contractNonce

UnsafeNonce(k) ==
    /\ tpc[k] = "nonce"
    /\ ~panicked
    /\ nonce' = IF nonce = Nil THEN FirstNonce ELSE nonce
    /\ carried' = [carried EXCEPT ![k] = nonce']
    /\ Goto(k, "send")
    /\ UNCHANGED <<nonceLock, stored, relay, contractNonce, faults, panicked, forgot>>

\* The store or the contract does not answer; Transact returns the error
\* through the deferred UnlockNonce.
UnsafeNonceFails(k) ==
    /\ tpc[k] = "nonce"
    /\ ~panicked
    /\ nonce = Nil
    /\ Fault
    /\ Goto(k, "unlock")
    /\ UNCHANGED <<nonceLock, nonce, stored, carried, relay, contractNonce, panicked,
                   forgot>>

\* relay_sendTransaction is answered: UnsafeIncreaseNonce.
SendTransaction(k) ==
    /\ tpc[k] = "send"
    /\ ~panicked
    /\ relay' = [relay EXCEPT ![k] = "accepted"]
    /\ nonce' = nonce + 1
    /\ Goto(k, "unlock")
    /\ UNCHANGED <<nonceLock, stored, carried, contractNonce, faults, panicked, forgot>>

\* Fault: the nonce is counted although nothing was sent.
SendFailsCounted(k) ==
    /\ tpc[k] = "send"
    /\ ~panicked
    /\ Fault
    /\ nonce' = nonce + 1
    /\ Goto(k, "unlock")
    /\ UNCHANGED <<nonceLock, stored, carried, relay, contractNonce, panicked, forgot>>

\* Packing or signing fails, or the relay refuses, or its answer is lost
\* although it accepted: an error either way, and the nonce stays.
SendFails(k) ==
    /\ tpc[k] = "send"
    /\ ~panicked
    /\ Fault
    /\ \/ UNCHANGED <<relay, forgot>>
       \/ /\ relay' = [relay EXCEPT ![k] = "accepted"]
          /\ forgot' = TRUE
    /\ Goto(k, "unlock")
    /\ UNCHANGED <<nonceLock, nonce, stored, carried, contractNonce, panicked>>

\* Fault: whatever the nonce is, it is stored.
UnlockUnchecked(k) ==
    /\ tpc[k] = "unlock"
    /\ ~panicked
    /\ stored' = nonce
    /\ nonceLock' = None
    /\ Goto(k, "returned")
    /\ UNCHANGED <<nonce, carried, relay, contractNonce, faults, panicked, forgot>>

\* Fault: a failed store leaves the mutex locked.
UnlockForgotten(k) ==
    /\ tpc[k] = "unlock"
    /\ ~panicked
    /\ nonce # Nil
    /\ \/ stored' = nonce /\ nonceLock' = None /\ UNCHANGED faults
       \/ Fault /\ UNCHANGED <<stored, nonceLock>>
    /\ Goto(k, "returned")
    /\ UNCHANGED <<nonce, carried, relay, contractNonce, panicked, forgot>>

\* UnlockNonce: StoreNonce writes the magnitude of the nonce, or fails and is
\* only logged.
UnlockNonce(k) ==
    /\ tpc[k] = "unlock"
    /\ ~panicked
    /\ nonce # Nil
    /\ \/ stored' = nonce /\ UNCHANGED faults
       \/ Fault /\ UNCHANGED stored
    /\ nonceLock' = None
    /\ Goto(k, "returned")
    /\ UNCHANGED <<nonce, carried, relay, contractNonce, panicked, forgot>>

\* UnlockNonce with no nonce: StoreNonce dereferences nil before the mutex is
\* released, and the panic ends the process.
UnlockNoncePanics(k) ==
    /\ tpc[k] = "unlock"
    /\ ~panicked
    /\ nonce = Nil
    /\ panicked' = TRUE
    /\ UNCHANGED <<tpc, nonceLock, nonce, stored, carried, relay, contractNonce,
                   faults, forgot>>

------------------------------------------------------------------------------
(* The process and the chain                                              *)

\* The process dies, unless it has already, and is started again. The calls
\* under way are gone with it.
Restart ==
    /\ IF panicked THEN UNCHANGED faults ELSE Fault
    /\ panicked' = FALSE
    /\ tpc' = [k \in Calls |-> IF tpc[k] = "idle" THEN "idle" ELSE "returned"]
    /\ nonceLock' = None
    /\ nonce' = Nil
    /\ forgot' = (forgot \/ (nonce # Nil /\ GetNonce < nonce))
    /\ UNCHANGED <<stored, carried, relay, contractNonce>>

\* The contract executes an accepted request whose nonce is the next one.
Execute(k) ==
    /\ relay[k] = "accepted"
    /\ carried[k] = contractNonce
    /\ relay' = [relay EXCEPT ![k] = "executed"]
    /\ contractNonce' = contractNonce + 1
    /\ UNCHANGED <<tpc, nonceLock, nonce, stored, carried, faults, panicked, forgot>>

\* It rejects a request whose nonce is used up.
Revert(k) ==
    /\ relay[k] = "accepted"
    /\ carried[k] < contractNonce
    /\ relay' = [relay EXCEPT ![k] = "reverted"]
    /\ UNCHANGED <<tpc, nonceLock, nonce, stored, carried, contractNonce, faults,
                   panicked, forgot>>

Transact(k) ==
    \/ UnsafeNonce(k) \/ UnsafeNonceFails(k)
    \/ SendTransaction(k) \/ SendFails(k)
    \/ UnlockNonce(k) \/ UnlockNoncePanics(k)

Next ==
    \/ Restart
    \/ \E k \in Calls : LockNonce(k) \/ Transact(k) \/ Execute(k) \/ Revert(k)

Spec == Init /\ [][Next]_vars

\* Calls that can run do, the relay settles what it accepted when it can, and
\* a process that died of a panic is started again.
FairSpec ==
    /\ Spec
    /\ WF_vars(panicked /\ Restart)
    /\ \A k \in Calls : /\ SF_vars(LockNonce(k))
                        /\ WF_vars(Transact(k))
                        /\ WF_vars(Execute(k))
                        /\ WF_vars(Revert(k))

------------------------------------------------------------------------------
(* Properties                                                             *)

\* Every variable keeps its type.
TypeOK ==
    /\ tpc \in [Calls -> CallStates]
    /\ nonceLock \in Calls \cup {None}
    /\ nonce \in Nat \cup {Nil}
    /\ stored \in Nat \cup {NotFound}
    /\ carried \in [Calls -> Nat]
    /\ relay \in [Calls -> RelayStates]
    /\ contractNonce \in Nat
    /\ faults \in 0..MaxFaults
    /\ panicked \in BOOLEAN
    /\ forgot \in BOOLEAN

\* Every nonce below the one in use, in memory or in the store, was accepted
\* by the relay. A nonce nobody sent would block every later request of the
\* relayer at the contract for good; no error, lost answer or crash makes one.
GapFree ==
    LET next == IF nonce = Nil THEN GetNonce ELSE nonce IN
    \A n \in 0..(next - 1) : \E k \in Calls : Accepted(k) /\ carried[k] = n

\* Two accepted requests carry the same nonce only after the count was lost:
\* a relay answer that never arrived, or a process that died before
\* UnlockNonce had stored what it sent. Concurrent calls alone never do it
\* ("prevent nonce duplication").
NonceUnique ==
    ~forgot => \A k, l \in Calls :
        k # l /\ Accepted(k) /\ Accepted(l) => carried[k] # carried[l]

\* Every call returns and everything the relay accepted is settled, which
\* takes a released mutex on every path and a sequence of nonces without gap.
EventuallySettled ==
    \A k \in Calls : <>(tpc[k] = "returned" /\ relay[k] # "accepted")

\* "current nonce should always be the correct one when unlocking": there is
\* one to store.
NonceSetOnUnlock == \A k \in Calls : tpc[k] = "unlock" => nonce # Nil

\* UnsafeNonce "returns current valid nonce for a forwarded transaction", also
\* "after relayer has been manually shutdown": no accepted request has it.
NonceValid ==
    \A k, l \in Calls :
        tpc[k] = "send" /\ l # k /\ Accepted(l) => carried[k] # carried[l]

===============================================================================
