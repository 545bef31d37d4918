----------------------------- MODULE SignAndSend -----------------------------
(***************************************************************************)
(* chains/evm/calls/transactor/signAndSend with EVMClient's nonce: the     *)
(* concurrent Transact calls of one account. Every call asks the node for  *)
(* the account's pending nonce and keeps the nonce lock until it has the   *)
(* receipt of its transaction or gives up.                                 *)
(*                                                                         *)
(* External: the node's transaction pool and the chain.                    *)
(***************************************************************************)
EXTENDS Integers, FiniteSets

CONSTANTS
    Calls,              \* Transact calls
    None,               \* nobody holds the lock
    Nil,                \* Go's nil *big.Int
    MaxNonceRetries,    \* 10 in the code: UnsafeNonce asks once more than this
    MaxFaults           \* bound: failed calls and dropped transactions

ASSUME SignAndSendAssumption ==
    /\ IsFiniteSet(Calls) /\ None \notin Calls
    /\ Nil \notin Int
    /\ MaxNonceRetries \in Nat /\ MaxFaults \in Nat

VARIABLES
    tpc,            \* per call: where Transact is
    nonceLock,      \* the caller that holds EVMClient.nonceLock, or None
    asked,          \* failed PendingNonceAt calls of the current UnsafeNonce
    carried,        \* per call: the nonce of its transaction, or Nil
    tx,             \* per call: what became of its transaction
    accountNonce,   \* transactions of the account that are on chain
    faults,         \* how much of MaxFaults is used up
    panicked        \* the process died of a nil dereference

vars == <<tpc, nonceLock, asked, carried, tx, accountNonce, faults, panicked>>

CallStates == {"idle", "nonce", "prepare", "send", "receipt", "unlock", "returned"}
TxStates == {"none", "pending", "mined", "reverted", "dropped"}

Init ==
    /\ tpc = [k \in Calls |-> "idle"]
    /\ nonceLock = None
    /\ asked = 0
    /\ carried = [k \in Calls |-> Nil]
    /\ tx = [k \in Calls |-> "none"]
    /\ accountNonce = 0
    /\ faults = 0
    /\ panicked = FALSE

Fault == faults < MaxFaults /\ faults' = faults + 1

Goto(k, label) == tpc' = [tpc EXCEPT ![k] = label]

At(k, label) == tpc[k] = label /\ ~panicked

Pending(n) == \E k \in Calls : tx[k] = "pending" /\ carried[k] = n

\* External: the first nonce from the account's on that no pooled transaction
\* has.
IsPendingNonce(n) ==
    /\ n >= accountNonce
    /\ ~Pending(n)
    /\ \A m \in accountNonce..(n - 1) : Pending(m)

------------------------------------------------------------------------------
(* Transact                                                               *)

\* Fault: the lock does not exclude.
LockShared(k) ==
    /\ At(k, "idle")
    /\ nonceLock' = k
    /\ asked' = 0
    /\ Goto(k, "nonce")
    /\ UNCHANGED <<carried, tx, accountNonce, faults, panicked>>

\* Taken before the nonce is read; the unlock is deferred.
LockNonce(k) ==
    /\ At(k, "idle")
    /\ nonceLock = None
    /\ nonceLock' = k
    /\ asked' = 0
    /\ Goto(k, "nonce")
    /\ UNCHANGED <<carried, tx, accountNonce, faults, panicked>>

\* Fault: the client counts the nonces it took instead of asking the node.
UnsafeNonceCounted(k) ==
    /\ At(k, "nonce")
    /\ carried' = [carried EXCEPT
                     ![k] = Cardinality({l \in Calls : carried[l] # Nil})]
    /\ Goto(k, "prepare")
    /\ UNCHANGED <<nonceLock, asked, tx, accountNonce, faults, panicked>>

\* UnsafeNonce: PendingNonceAt answers.
UnsafeNonce(k) ==
    /\ At(k, "nonce")
    /\ \E n \in accountNonce..(accountNonce + Cardinality(Calls)) :
          /\ IsPendingNonce(n)
          /\ carried' = [carried EXCEPT ![k] = n]
    /\ Goto(k, "prepare")
    /\ UNCHANGED <<nonceLock, asked, tx, accountNonce, faults, panicked>>

\* Fault: PendingNonceAt is asked for ever.
UnsafeNonceRetries(k) ==
    /\ At(k, "nonce")
    /\ Fault
    /\ asked' = asked + 1
    /\ UNCHANGED <<tpc, nonceLock, carried, tx, accountNonce, panicked>>

\* PendingNonceAt fails and is asked again. After the last retry the outer
\* err, which the loop's own err shadows, is returned: no nonce and no error.
UnsafeNonceFails(k) ==
    /\ At(k, "nonce")
    /\ Fault
    /\ asked' = asked + 1
    /\ IF asked < MaxNonceRetries THEN UNCHANGED tpc ELSE Goto(k, "prepare")
    /\ UNCHANGED <<nonceLock, carried, tx, accountNonce, panicked>>

\* The gas price is there and the transaction is built.
Prepare(k) ==
    /\ At(k, "prepare")
    /\ carried[k] # Nil
    /\ Goto(k, "send")
    /\ UNCHANGED <<nonceLock, asked, carried, tx, accountNonce, faults, panicked>>

\* n.Uint64() without a nonce.
PreparePanics(k) ==
    /\ At(k, "prepare")
    /\ carried[k] = Nil
    /\ panicked' = TRUE
    /\ UNCHANGED <<tpc, nonceLock, asked, carried, tx, accountNonce, faults>>

\* Merging the options, the gas price or the transaction factory fails.
PrepareFails(k) ==
    /\ At(k, "prepare")
    /\ Fault
    /\ Goto(k, "unlock")
    /\ UNCHANGED <<nonceLock, asked, carried, tx, accountNonce, panicked>>

SendTransaction(k) ==
    /\ At(k, "send")
    /\ tx' = [tx EXCEPT ![k] = "pending"]
    /\ Goto(k, "receipt")
    /\ UNCHANGED <<nonceLock, asked, carried, accountNonce, faults, panicked>>

\* Fault: a failed send returns without releasing the lock.
SendFailsLocked(k) ==
    /\ At(k, "send")
    /\ Fault
    /\ Goto(k, "returned")
    /\ UNCHANGED <<nonceLock, asked, carried, tx, accountNonce, panicked>>

\* The node refuses the transaction, or takes it and its answer is lost.
SendFails(k) ==
    /\ At(k, "send")
    /\ Fault
    /\ tx' \in {tx, [tx EXCEPT ![k] = "pending"]}
    /\ Goto(k, "unlock")
    /\ UNCHANGED <<nonceLock, asked, carried, accountNonce, panicked>>

\* WaitAndReturnTxReceipt ends: with a receipt, or without one after 50 tries
\* while the transaction is still pending or was dropped.
WaitAndReturnTxReceipt(k) ==
    /\ At(k, "receipt")
    /\ Goto(k, "unlock")
    /\ UNCHANGED <<nonceLock, asked, carried, tx, accountNonce, faults, panicked>>

\* The deferred UnlockNonce of every return.
UnlockNonce(k) ==
    /\ At(k, "unlock")
    /\ nonceLock' = None
    /\ Goto(k, "returned")
    /\ UNCHANGED <<asked, carried, tx, accountNonce, faults, panicked>>

------------------------------------------------------------------------------
(* The chain (external)                                                   *)

\* The account's next transaction is mined, successfully or not; others with
\* its nonce are worthless now.
Mine(k) ==
    /\ tx[k] = "pending"
    /\ carried[k] = accountNonce
    /\ \E result \in {"mined", "reverted"} :
          tx' = [l \in Calls |->
                   IF l = k THEN result
                   ELSE IF tx[l] = "pending" /\ carried[l] = carried[k] THEN "dropped"
                   ELSE tx[l]]
    /\ accountNonce' = accountNonce + 1
    /\ UNCHANGED <<tpc, nonceLock, asked, carried, faults, panicked>>

\* A transaction falls out of the pool.
Drop(k) ==
    /\ tx[k] = "pending"
    /\ Fault
    /\ tx' = [tx EXCEPT ![k] = "dropped"]
    /\ UNCHANGED <<tpc, nonceLock, asked, carried, accountNonce, panicked>>

Transact(k) ==
    \/ UnsafeNonce(k) \/ UnsafeNonceFails(k)
    \/ Prepare(k) \/ PreparePanics(k) \/ PrepareFails(k)
    \/ SendTransaction(k) \/ SendFails(k)
    \/ WaitAndReturnTxReceipt(k)
    \/ UnlockNonce(k)

Next == \E k \in Calls : LockNonce(k) \/ Transact(k) \/ Mine(k) \/ Drop(k)

Spec == Init /\ [][Next]_vars

\* Calls that can run do; a mutex that is released again and again is given
\* to every caller in the end.
FairSpec ==
    /\ Spec
    /\ \A k \in Calls : SF_vars(LockNonce(k)) /\ WF_vars(Transact(k))

------------------------------------------------------------------------------
(* Properties                                                             *)

\* Every variable keeps its type.
TypeOK ==
    /\ tpc \in [Calls -> CallStates]
    /\ nonceLock \in Calls \cup {None}
    /\ asked \in 0..(MaxNonceRetries + 1)
    /\ carried \in [Calls -> Nat \cup {Nil}]
    /\ tx \in [Calls -> TxStates]
    /\ accountNonce \in Nat
    /\ faults \in 0..MaxFaults
    /\ panicked \in BOOLEAN

\* No transaction of the relayer replaces another that is still in the pool,
\* although the nonce is read from the node, transactions outlive the call
\* that gave up on them, and answers of the node get lost.
NoReplacement ==
    \A k, l \in Calls :
        k # l /\ tx[k] = "pending" /\ tx[l] = "pending" => carried[k] # carried[l]

\* A transaction waits behind a missing nonce only if that nonce's own
\* transaction was dropped: no failed call leaves a hole of its own.
NoHole ==
    \A k \in Calls : tx[k] = "pending" =>
        \A m \in accountNonce..(carried[k] - 1) :
            \/ Pending(m)
            \/ \E l \in Calls : tx[l] = "dropped" /\ carried[l] = m

\* Every Transact call returns, whatever fails before or in it, unless the
\* node failed so often that the nonce is nil and the process panics.
TransactReturns ==
    \A k \in Calls : <>(tpc[k] = "returned" \/ panicked)

===============================================================================
