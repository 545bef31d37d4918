-------------------------- MODULE SignAndSendProofs --------------------------
(***************************************************************************)
(* What the transactor guarantees for the nonces of one account, for any   *)
(* number of calls, retries and faults.                                    *)
(***************************************************************************)
EXTENDS SignAndSend, TLAPS

Working == {"nonce", "prepare", "send", "receipt", "unlock"}

\* A call at work holds the lock.
Exclusive == \A k \in Calls : tpc[k] \in Working => nonceLock = k

\* The node is asked at most once more than MaxNonceRetries.
AskedBound == \A k \in Calls : tpc[k] = "nonce" => asked <= MaxNonceRetries

\* A call has no nonce before it asks for one, and sends only with one; there
\* is a transaction only behind its send.
SentLater ==
    \A k \in Calls :
        /\ tx[k] # "none" => tpc[k] \in {"receipt", "unlock", "returned"} /\ carried[k] # Nil
        /\ tpc[k] = "send" => carried[k] # Nil
        /\ tpc[k] \in {"idle", "nonce"} => carried[k] = Nil

\* Below the nonce of k every one has a transaction, in the pool or dropped.
Gapless(k) ==
    \A m \in accountNonce..(carried[k] - 1) :
        \/ Pending(m)
        \/ \E l \in Calls : tx[l] = "dropped" /\ carried[l] = m

\* The nonce a call has read is not in the pool until the call sends, and
\* leaves no hole.
NonceFits ==
    \A k \in Calls : tpc[k] \in {"prepare", "send"} /\ carried[k] # Nil =>
        ~Pending(carried[k]) /\ Gapless(k)

\* The inductive invariant.
Inv ==
    /\ TypeOK /\ Exclusive /\ AskedBound /\ SentLater /\ NonceFits
    /\ NoReplacement /\ NoHole

-----------------------------------------------------------------------------
(* Every action preserves the invariant                                    *)

\* A step that leaves nonces and transactions alone and takes call k from one
\* point to another.
LEMMA MoveInv ==
    ASSUME Inv, NEW k \in Calls, NEW from \in CallStates, NEW to \in CallStates,
           tpc[k] = from, tpc' = [tpc EXCEPT ![k] = to],
           UNCHANGED <<carried, tx, accountNonce>>,
           asked' \in 0..(MaxNonceRetries + 1), faults' \in 0..MaxFaults,
           nonceLock' \in Calls \cup {None}, panicked' \in BOOLEAN,
           \A l \in Calls \ {k} : tpc[l] \in Working => nonceLock' = l /\ asked' = asked,
           to \in Working => nonceLock' = k,
           to = "nonce" => asked' <= MaxNonceRetries,
           to = "send" => carried[k] # Nil, to # "idle", to = "nonce" => carried[k] = Nil,
           to \in {"prepare", "send"} => carried[k] = Nil \/ from \in {"prepare", "send"},
           tx[k] = "none" \/ to \in {"receipt", "unlock", "returned"}
    PROVE  Inv'
<1> USE DEF Inv
<1>1. TypeOK'
  BY DEF TypeOK
<1>2. tpc'[k] = to /\ \A l \in Calls \ {k} : tpc'[l] = tpc[l]
  BY DEF TypeOK
<1>3. Exclusive'
  BY <1>2 DEF Exclusive
<1>4. AskedBound'
  BY <1>2 DEF AskedBound, Working
<1>5. SentLater'
  BY <1>2 DEF SentLater
<1>6. NonceFits'
  BY <1>2 DEF NonceFits, Gapless, Pending
<1>7. NoReplacement' /\ NoHole'
  BY DEF NoReplacement, NoHole, Pending
<1> QED
  BY <1>1, <1>3, <1>4, <1>5, <1>6, <1>7

\* While one call works no other does.
LEMMA Alone ==
    ASSUME Inv, NEW k \in Calls, NEW l \in Calls, tpc[k] \in Working, l # k
    PROVE  tpc[l] \notin Working
BY DEF Inv, Exclusive

\* The call takes the nonce the node gave.
LEMMA UnsafeNonceInv ==
    ASSUME Inv, NEW k \in Calls, UnsafeNonce(k) PROVE Inv'
<1> USE SignAndSendAssumption DEF Inv
<1>1. /\ tpc[k] = "nonce" /\ tpc' = [tpc EXCEPT ![k] = "prepare"]
      /\ UNCHANGED <<nonceLock, asked, tx, accountNonce, faults, panicked>>
  BY DEF UnsafeNonce, At, Goto
<1>2. PICK n \in accountNonce..(accountNonce + Cardinality(Calls)) :
         IsPendingNonce(n) /\ carried' = [carried EXCEPT ![k] = n]
  BY DEF UnsafeNonce
<1>3. n \in Nat /\ accountNonce \in Nat
  BY <1>2 DEF TypeOK
<1>4. tx[k] = "none" /\ \A l \in Calls \ {k} : tpc[l] \notin Working
  BY <1>1, Alone DEF SentLater, Working, TypeOK
<1>5. /\ tpc'[k] = "prepare" /\ carried'[k] = n
      /\ \A l \in Calls \ {k} : tpc'[l] = tpc[l] /\ carried'[l] = carried[l]
  BY <1>1, <1>2 DEF TypeOK
<1>6. \A l \in Calls : tx[l] # "none" => carried'[l] = carried[l]
  BY <1>4, <1>5
<1>7. \A m : Pending(m)' <=> Pending(m)
  BY <1>1, <1>6 DEF Pending
<1>8. TypeOK'
  BY <1>1, <1>2, <1>3 DEF TypeOK, CallStates
<1>9. Exclusive' /\ AskedBound' /\ SentLater'
  BY <1>1, <1>4, <1>5, <1>6 DEF Exclusive, AskedBound, SentLater, Working
<1>10. NonceFits'
  BY <1>1, <1>2, <1>3, <1>4, <1>5, <1>7 DEF NonceFits, Gapless, IsPendingNonce, Working
<1>11. NoReplacement'
  BY <1>1, <1>6 DEF NoReplacement
<1>12. NoHole'
  <2> SUFFICES ASSUME NEW l \in Calls, tx[l] = "pending",
                      NEW m \in accountNonce..(carried[l] - 1)
               PROVE  Pending(m)' \/ \E j \in Calls : tx'[j] = "dropped" /\ carried'[j] = m
    BY <1>1, <1>6 DEF NoHole
  <2>1. Pending(m) \/ \E j \in Calls : tx[j] = "dropped" /\ carried[j] = m
    BY DEF NoHole
  <2> QED
    BY <1>1, <1>6, <1>7, <2>1
<1> QED
  BY <1>8, <1>9, <1>10, <1>11, <1>12

\* The transaction enters the pool with a nonce nobody has there.
LEMMA EnterPoolInv ==
    ASSUME Inv, NEW k \in Calls, NEW to \in {"receipt", "unlock"}, tpc[k] = "send",
           tpc' = [tpc EXCEPT ![k] = to], tx' = [tx EXCEPT ![k] = "pending"],
           UNCHANGED <<nonceLock, asked, carried, accountNonce, panicked>>,
           faults' \in 0..MaxFaults
    PROVE  Inv'
<1> USE DEF Inv
<1>1. tx[k] = "none" /\ carried[k] # Nil /\ \A l \in Calls \ {k} : tpc[l] \notin Working
  BY Alone DEF SentLater, Working, TypeOK
<1>2. /\ tpc'[k] = to /\ tx'[k] = "pending"
      /\ \A l \in Calls \ {k} : tpc'[l] = tpc[l] /\ tx'[l] = tx[l]
  BY DEF TypeOK
<1>3. ~Pending(carried[k]) /\ Gapless(k)
  BY <1>1 DEF NonceFits
<1>4. \A m : Pending(m) => Pending(m)'
  BY <1>1, <1>2 DEF Pending
<1>5. \A l \in Calls : tx[l] = "dropped" => tx'[l] = "dropped"
  BY <1>1, <1>2
<1>6. TypeOK'
  BY DEF TypeOK, CallStates, TxStates
<1>7. Exclusive' /\ AskedBound' /\ SentLater'
  BY <1>1, <1>2 DEF Exclusive, AskedBound, SentLater, Working
<1>8. NonceFits'
  BY <1>1, <1>2 DEF NonceFits, Working
<1>9. NoReplacement'
  BY <1>2, <1>3 DEF NoReplacement, Pending
<1>10. NoHole'
  <2> SUFFICES ASSUME NEW l \in Calls, tx'[l] = "pending",
                      NEW m \in accountNonce..(carried[l] - 1)
               PROVE  Pending(m)' \/ \E j \in Calls : tx'[j] = "dropped" /\ carried'[j] = m
    BY DEF NoHole
  <2>1. Pending(m) \/ \E j \in Calls : tx[j] = "dropped" /\ carried[j] = m
    BY <1>2, <1>3 DEF NoHole, Gapless
  <2> QED
    BY <1>4, <1>5, <2>1
<1> QED
  BY <1>6, <1>7, <1>8, <1>9, <1>10

\* Transactions leave the pool: by the nonce of the account, or dropped.
LEMMA LeavePoolInv ==
    ASSUME Inv, tx' \in [Calls -> TxStates], accountNonce' \in Nat,
           UNCHANGED <<tpc, nonceLock, asked, carried, panicked>>, faults' \in 0..MaxFaults,
           accountNonce' >= accountNonce,
           \A l \in Calls : tx[l] = "none" => tx'[l] = "none",
           \A l \in Calls : tx'[l] = "pending" => tx[l] = "pending",
           \A l \in Calls : tx[l] = "dropped" => tx'[l] = "dropped",
           \A l \in Calls : tx[l] = "pending" =>
               tx'[l] \in {"pending", "dropped"} \/ carried[l] < accountNonce',
           \A l \in Calls : tx[l] # "none" => tx'[l] # "none"
    PROVE  Inv'
<1> USE DEF Inv
<1>1. TypeOK'
  BY DEF TypeOK
<1>2. Exclusive' /\ AskedBound' /\ SentLater'
  BY DEF Exclusive, AskedBound, SentLater, TypeOK
<1>3. \A m : Pending(m)' => Pending(m)
  BY DEF Pending
<1>4. ASSUME NEW m \in Nat, m >= accountNonce',
             Pending(m) \/ \E j \in Calls : tx[j] = "dropped" /\ carried[j] = m
      PROVE  Pending(m)' \/ \E j \in Calls : tx'[j] = "dropped" /\ carried'[j] = m
  BY <1>4 DEF Pending, TypeOK
<1>5. accountNonce \in Nat /\ \A l \in Calls : carried[l] # Nil => carried[l] \in Nat
  BY DEF TypeOK
<1>6. NonceFits'
  <2> SUFFICES ASSUME NEW l \in Calls, tpc[l] \in {"prepare", "send"}, carried[l] # Nil
               PROVE  ~Pending(carried[l])' /\ Gapless(l)'
    BY DEF NonceFits
  <2>1. ~Pending(carried[l]) /\ Gapless(l)
    BY DEF NonceFits
  <2>2. ~Pending(carried[l])'
    BY <2>1 DEF Pending
  <2> QED
    BY <1>4, <1>5, <2>1, <2>2 DEF Gapless
<1>7. NoReplacement'
  BY DEF NoReplacement
<1>8. NoHole'
  <2> SUFFICES ASSUME NEW l \in Calls, tx[l] = "pending",
                      NEW m \in accountNonce'..(carried[l] - 1)
               PROVE  Pending(m)' \/ \E j \in Calls : tx'[j] = "dropped" /\ carried'[j] = m
    BY DEF NoHole
  <2>1. carried[l] \in Nat
    BY <1>5 DEF SentLater, TxStates
  <2>2. m \in Nat /\ m >= accountNonce' /\ m \in accountNonce..(carried[l] - 1)
    BY <1>5, <2>1
  <2> QED
    BY <1>4, <2>2 DEF NoHole
<1> QED
  BY <1>1, <1>2, <1>6, <1>7, <1>8

LEMMA MineInv ==
    ASSUME Inv, NEW k \in Calls, Mine(k) PROVE Inv'
<1>1. PICK result \in {"mined", "reverted"} :
        tx' = [l \in Calls |->
                 IF l = k THEN result
                 ELSE IF tx[l] = "pending" /\ carried[l] = carried[k] THEN "dropped"
                 ELSE tx[l]]
  BY DEF Mine
<1>2. /\ tx[k] = "pending" /\ carried[k] = accountNonce /\ accountNonce' = accountNonce + 1
      /\ accountNonce \in Nat
      /\ UNCHANGED <<tpc, nonceLock, asked, carried, faults, panicked>>
  BY DEF Mine, Inv, TypeOK
<1>3. tx' \in [Calls -> TxStates] /\ faults' \in 0..MaxFaults
  BY <1>1, <1>2 DEF Inv, TypeOK, TxStates
<1>4. /\ tx'[k] = result
      /\ \A l \in Calls \ {k} : tx'[l] = tx[l] \/ (tx[l] = "pending" /\ tx'[l] = "dropped")
  BY <1>1
<1> QED
  BY <1>2, <1>3, <1>4, LeavePoolInv

LEMMA DropInv ==
    ASSUME Inv, NEW k \in Calls, Drop(k) PROVE Inv'
<1>1. /\ tx[k] = "pending" /\ tx' = [tx EXCEPT ![k] = "dropped"]
      /\ UNCHANGED <<tpc, nonceLock, asked, carried, accountNonce, panicked>>
  BY DEF Drop
<1>2. /\ tx' \in [Calls -> TxStates] /\ faults' \in 0..MaxFaults /\ accountNonce \in Nat
      /\ tx'[k] = "dropped" /\ \A l \in Calls \ {k} : tx'[l] = tx[l]
  BY <1>1, SignAndSendAssumption DEF Drop, Fault, Inv, TypeOK, TxStates
<1> QED
  BY <1>1, <1>2, LeavePoolInv

-----------------------------------------------------------------------------
(* Theorems                                                                *)

LEMMA InitInv == Init => Inv
<1> SUFFICES ASSUME Init PROVE Inv
  OBVIOUS
<1> USE SignAndSendAssumption DEF Init
<1>1. TypeOK
  <2>1. tpc \in [Calls -> CallStates] /\ tx \in [Calls -> TxStates]
    BY DEF CallStates, TxStates
  <2>2. panicked \in BOOLEAN
    OBVIOUS
  <2> QED
    BY <2>1, <2>2 DEF TypeOK
<1>2. Exclusive /\ AskedBound /\ SentLater /\ NonceFits /\ NoReplacement /\ NoHole
  BY DEF Exclusive, AskedBound, SentLater, NonceFits, NoReplacement, NoHole, Working
<1> QED
  BY <1>1, <1>2 DEF Inv

LEMMA NextInv == Inv /\ [Next]_vars => Inv'
<1> SUFFICES ASSUME Inv, [Next]_vars PROVE Inv'
  OBVIOUS
<1> USE SignAndSendAssumption
<1>1. ASSUME NEW k \in Calls, LockNonce(k) PROVE Inv'
  <2>1. \A l \in Calls : tpc[l] \notin Working
    BY <1>1 DEF LockNonce, Inv, Exclusive
  <2>2. tpc[k] = "idle" /\ tx[k] = "none" /\ carried[k] = Nil
    BY <1>1 DEF LockNonce, At, Inv, SentLater
  <2>3. /\ tpc' = [tpc EXCEPT ![k] = "nonce"] /\ nonceLock' = k /\ asked' = 0
        /\ UNCHANGED <<carried, tx, accountNonce, faults, panicked>>
    BY <1>1 DEF LockNonce, Goto
  <2>4. /\ asked' \in 0..(MaxNonceRetries + 1) /\ asked' <= MaxNonceRetries
        /\ nonceLock' \in Calls \cup {None}
    BY <2>3
  <2>5. faults' \in 0..MaxFaults /\ panicked' \in BOOLEAN
    BY <2>3 DEF Inv, TypeOK
  <2>6. {"idle", "nonce"} \subseteq CallStates
    BY DEF CallStates
  <2> QED
    BY <2>1, <2>2, <2>3, <2>4, <2>5, <2>6, MoveInv
<1>2. ASSUME NEW k \in Calls, UnsafeNonceFails(k) PROVE Inv'
  <2>1. /\ tpc[k] = "nonce" /\ nonceLock = k /\ asked <= MaxNonceRetries /\ asked \in Nat
        /\ tx[k] = "none" /\ carried[k] = Nil
    BY <1>2 DEF UnsafeNonceFails, At, Inv, Exclusive, AskedBound, SentLater, TypeOK, Working
  <2>2. \A l \in Calls \ {k} : tpc[l] \notin Working
    BY <2>1, Alone DEF Working
  <2>3. /\ asked' = asked + 1 /\ faults' \in 0..MaxFaults
        /\ UNCHANGED <<nonceLock, carried, tx, accountNonce, panicked>>
    BY <1>2 DEF UnsafeNonceFails, Fault, Inv, TypeOK
  <2>4. asked' \in 0..(MaxNonceRetries + 1) /\ nonceLock' \in Calls \cup {None}
    BY <2>1, <2>3
  <2>5. panicked' \in BOOLEAN
    BY <2>3 DEF Inv, TypeOK
  <2>6. {"nonce", "prepare"} \subseteq CallStates
    BY DEF CallStates
  <2>7. CASE asked < MaxNonceRetries
    <3>1. tpc' = [tpc EXCEPT ![k] = "nonce"]
      BY <1>2, <2>1, <2>7 DEF UnsafeNonceFails, Inv, TypeOK
    <3>2. asked' <= MaxNonceRetries
      BY <2>1, <2>3, <2>7
    <3> QED
      BY <2>1, <2>2, <2>3, <2>4, <2>5, <2>6, <3>1, <3>2, MoveInv
  <2>8. CASE ~(asked < MaxNonceRetries)
    <3>1. tpc' = [tpc EXCEPT ![k] = "prepare"]
      BY <1>2, <2>8 DEF UnsafeNonceFails, Goto
    <3> QED
      BY <2>1, <2>2, <2>3, <2>4, <2>5, <2>6, <3>1, MoveInv
  <2> QED
    BY <2>7, <2>8
<1>3. ASSUME NEW k \in Calls, UnsafeNonce(k) PROVE Inv'
  BY <1>3, UnsafeNonceInv
<1>4. ASSUME NEW k \in Calls, SendTransaction(k) PROVE Inv'
  BY <1>4, EnterPoolInv DEF SendTransaction, At, Goto, Inv, TypeOK
<1>5. ASSUME NEW k \in Calls, Mine(k) \/ Drop(k) PROVE Inv'
  BY <1>5, MineInv, DropInv
<1>6. ASSUME NEW k \in Calls, NEW from \in {"prepare", "send", "receipt"},
             NEW to \in {"send", "unlock"}, tpc[k] = from,
             tpc' = [tpc EXCEPT ![k] = to], to = "send" => from = "prepare" /\ carried[k] # Nil,
             UNCHANGED <<nonceLock, asked, carried, tx, accountNonce, panicked>>,
             faults' \in 0..MaxFaults
      PROVE  Inv'
  <2>1. /\ nonceLock = k
        /\ \A l \in Calls \ {k} : tpc[l] \notin Working
    BY <1>6, Alone DEF Inv, Exclusive, Working
  <2>2. tx[k] = "none" \/ to = "unlock"
    BY <1>6 DEF Inv, SentLater
  <2>3. /\ asked' \in 0..(MaxNonceRetries + 1) /\ nonceLock' \in Calls \cup {None}
        /\ from \in CallStates /\ to \in CallStates
    BY <1>6 DEF Inv, TypeOK, CallStates
  <2>4. panicked' \in BOOLEAN
    BY <1>6 DEF Inv, TypeOK
  <2> QED
    BY <1>6, <2>1, <2>2, <2>3, <2>4, MoveInv
<1>7. ASSUME NEW k \in Calls,
             \/ Prepare(k) \/ PrepareFails(k) \/ WaitAndReturnTxReceipt(k)
             \/ (SendFails(k) /\ tx' = tx)
      PROVE  Inv'
  <2>1. faults' \in 0..MaxFaults
    BY <1>7 DEF Prepare, PrepareFails, WaitAndReturnTxReceipt, SendFails, Fault, Inv, TypeOK
  <2> QED
    BY <1>6, <1>7, <2>1 DEF Prepare, PrepareFails, WaitAndReturnTxReceipt, SendFails, At, Goto
<1>8. ASSUME NEW k \in Calls, SendFails(k), tx' # tx PROVE Inv'
  <2>1. tx' = [tx EXCEPT ![k] = "pending"] /\ faults' \in 0..MaxFaults
    BY <1>8 DEF SendFails, Fault, Inv, TypeOK
  <2> QED
    BY <1>8, <2>1, EnterPoolInv DEF SendFails, At, Goto
<1>9. ASSUME NEW k \in Calls, PreparePanics(k) PROVE Inv'
  <2>1. panicked' \in BOOLEAN /\ UNCHANGED <<tpc, nonceLock, asked, carried, tx, accountNonce, faults>>
    BY <1>9 DEF PreparePanics
  <2> QED
    BY <2>1 DEF Inv, TypeOK, Exclusive, AskedBound, SentLater, NonceFits, Gapless,
       NoReplacement, NoHole, Pending
<1>10. ASSUME NEW k \in Calls, UnlockNonce(k) PROVE Inv'
  <2>1. /\ tpc[k] = "unlock" /\ tpc' = [tpc EXCEPT ![k] = "returned"] /\ nonceLock' = None
        /\ UNCHANGED <<asked, carried, tx, accountNonce, faults, panicked>>
    BY <1>10 DEF UnlockNonce, At, Goto
  <2>2. \A l \in Calls \ {k} : tpc[l] \notin Working
    BY <2>1, Alone DEF Working
  <2>3. /\ asked' \in 0..(MaxNonceRetries + 1) /\ faults' \in 0..MaxFaults
        /\ {"unlock", "returned"} \subseteq CallStates
    BY <2>1 DEF Inv, TypeOK, CallStates
  <2>4. panicked' \in BOOLEAN
    BY <2>1 DEF Inv, TypeOK
  <2>5. "returned" \notin Working
    BY DEF Working
  <2> QED
    BY <2>1, <2>2, <2>3, <2>4, <2>5, MoveInv
<1>11. CASE UNCHANGED vars
  BY <1>11 DEF vars, Inv, TypeOK, Exclusive, AskedBound, SentLater, NonceFits, Gapless,
     NoReplacement, NoHole, Pending
<1> QED
  BY <1>1, <1>2, <1>3, <1>4, <1>5, <1>7, <1>8, <1>9, <1>10, <1>11 DEF Next, Transact

LEMMA Invariance == Spec => []Inv
BY InitInv, NextInv, PTL DEF Spec

\* Type correctness, and the bound on the questions for a nonce.
THEOREM SignAndSendTypeCorrect == Spec => []TypeOK
<1>1. Inv => TypeOK
  BY DEF Inv
<1> QED
  BY <1>1, Invariance, PTL

\* Concurrent calls, calls that gave up and lost answers never make one
\* transaction replace another that is still in the pool.
THEOREM NeverReplaces == Spec => []NoReplacement
<1>1. Inv => NoReplacement
  BY DEF Inv
<1> QED
  BY <1>1, Invariance, PTL

\* No failed call leaves a hole in front of a pooled transaction.
THEOREM LeavesNoHole == Spec => []NoHole
<1>1. Inv => NoHole
  BY DEF Inv
<1> QED
  BY <1>1, Invariance, PTL

==============================================================================
