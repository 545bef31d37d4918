------------------------- MODULE ITXTransactorProofs -------------------------
(***************************************************************************)
(* The nonces of forwarded requests have no gap, and repeat only after the *)
(* count was lost, for any number of calls, errors and restarts.           *)
(***************************************************************************)
EXTENDS ITXTransactor, TLAPS

\* Some request the relay accepted carries n.
Used(n) == \E k \in Calls : Accepted(k) /\ carried[k] = n

UsedBelow(m) == \A n \in 0..(m - 1) : Used(n)

\* Wherever a nonce may be taken from next, all smaller ones are used.
NoGap ==
    /\ UsedBelow(contractNonce)
    /\ UsedBelow(GetNonce)
    /\ nonce # Nil => UsedBelow(nonce)

\* The mutex: only its holder is inside Transact, a request is sent once, and
\* the nonce it carries is the current one.
Exclusive ==
    \A k \in Calls :
        /\ tpc[k] \in {"nonce", "send", "unlock"} => nonceLock = k
        /\ tpc[k] \in {"idle", "nonce", "send"} => relay[k] = "none"
        /\ tpc[k] = "send" => nonce # Nil /\ carried[k] = nonce

\* As long as the count is right, it is above every nonce that was accepted.
CountAbove ==
    ~forgot => \A k \in Calls : Accepted(k) =>
        IF nonce = Nil THEN carried[k] < GetNonce ELSE carried[k] < nonce

\* The inductive invariant.
NonceInv == TypeOK /\ Exclusive /\ NoGap /\ CountAbove /\ NonceUnique

-------------------------------------------------------------------------------
(* Steps                                                                      *)

\* Taking the mutex touches no nonce.
LEMMA LockInv ==
    ASSUME NEW k \in Calls, NonceInv, LockNonce(k)
    PROVE  NonceInv'
<1> USE TransactorAssumption DEF NonceInv
<1>1. TypeOK'
  BY DEF TypeOK, LockNonce, Goto, CallStates
<1>2. Exclusive'
  BY DEF TypeOK, Exclusive, LockNonce, Goto
<1>3. NoGap'
  BY DEF NoGap, UsedBelow, Used, Accepted, GetNonce, LockNonce
<1>4. CountAbove' /\ NonceUnique'
  BY DEF CountAbove, NonceUnique, Accepted, GetNonce, LockNonce
<1> QED
  BY <1>1, <1>2, <1>3, <1>4

\* The nonce a call gets is above all that were accepted.
LEMMA UnsafeNonceInv ==
    ASSUME NEW k \in Calls, NonceInv, UnsafeNonce(k)
    PROVE  NonceInv'
<1> USE TransactorAssumption DEF NonceInv
<1>1. GetNonce \in Nat /\ FirstNonce \in Nat /\ nonce' \in Nat
  BY DEF TypeOK, GetNonce, FirstNonce, UnsafeNonce
<1>2. TypeOK'
  BY <1>1 DEF TypeOK, UnsafeNonce, Goto, CallStates
<1>3. Exclusive'
  BY <1>1 DEF TypeOK, Exclusive, UnsafeNonce, Goto
<1>4. \A l \in Calls : Accepted(l) => Accepted(l)' /\ carried'[l] = carried[l]
  BY DEF TypeOK, Exclusive, Accepted, UnsafeNonce
<1>5. UsedBelow(nonce')
  BY <1>1 DEF NoGap, UnsafeNonce, FirstNonce
<1>6. NoGap'
  <2>1. UsedBelow(contractNonce)' /\ UsedBelow(GetNonce)'
    BY <1>1, <1>4 DEF TypeOK, NoGap, UsedBelow, Used, GetNonce, UnsafeNonce
  <2>2. UsedBelow(nonce)'
    BY <1>4, <1>5 DEF UsedBelow, Used
  <2> QED
    BY <2>1, <2>2 DEF NoGap
<1>7. CountAbove'
  <2> SUFFICES ASSUME ~forgot', NEW l \in Calls, Accepted(l)'
               PROVE  carried'[l] < nonce'
    BY <1>1 DEF CountAbove
  <2>1. Accepted(l) /\ carried'[l] = carried[l] /\ ~forgot
    BY <1>4 DEF Accepted, UnsafeNonce
  <2>2. CASE nonce = Nil
    <3>1. carried[l] < GetNonce /\ nonce' = FirstNonce
      BY <2>1, <2>2 DEF CountAbove, UnsafeNonce
    <3> QED
      BY <1>1, <2>1, <3>1 DEF TypeOK, FirstNonce
  <2>3. CASE nonce # Nil
    BY <2>1, <2>3 DEF CountAbove, UnsafeNonce
  <2> QED
    BY <2>2, <2>3
<1>8. NonceUnique'
  BY <1>4 DEF NonceUnique, Accepted, UnsafeNonce
<1> QED
  BY <1>2, <1>3, <1>6, <1>7, <1>8

\* A nonce that could not be read is not used.
LEMMA UnsafeNonceFailsInv ==
    ASSUME NEW k \in Calls, NonceInv, UnsafeNonceFails(k)
    PROVE  NonceInv'
<1> USE TransactorAssumption DEF NonceInv
<1>1. TypeOK'
  BY DEF TypeOK, UnsafeNonceFails, Fault, Goto, CallStates
<1>2. Exclusive'
  BY DEF TypeOK, Exclusive, UnsafeNonceFails, Goto
<1>3. NoGap'
  BY DEF NoGap, UsedBelow, Used, Accepted, GetNonce, UnsafeNonceFails
<1>4. CountAbove' /\ NonceUnique'
  BY DEF CountAbove, NonceUnique, Accepted, GetNonce, UnsafeNonceFails
<1> QED
  BY <1>1, <1>2, <1>3, <1>4

\* A request that was answered for is counted.
LEMMA SendInv ==
    ASSUME NEW k \in Calls, NonceInv, SendTransaction(k)
    PROVE  NonceInv'
<1> USE TransactorAssumption DEF NonceInv
<1>1. nonce \in Nat /\ carried[k] = nonce /\ nonce' = nonce + 1 /\ relay[k] = "none"
  BY DEF TypeOK, Exclusive, SendTransaction
<1>2. TypeOK'
  BY <1>1 DEF TypeOK, SendTransaction, Goto, CallStates, RelayStates
<1>3. Exclusive'
  BY <1>1 DEF TypeOK, Exclusive, SendTransaction, Goto
<1>4. \A l \in Calls : Accepted(l)' <=> Accepted(l) \/ l = k
  BY DEF TypeOK, Accepted, SendTransaction
<1>5. carried' = carried
  BY DEF SendTransaction
<1>6. NoGap'
  <2>1. \A n : Used(n) => Used(n)'
    BY <1>4, <1>5 DEF Used
  <2>2. ASSUME NEW n, n = nonce PROVE Used(n)'
    BY <1>1, <1>4, <1>5, <2>2 DEF Used
  <2>3. UsedBelow(contractNonce)' /\ UsedBelow(GetNonce)'
    BY <2>1 DEF NoGap, UsedBelow, GetNonce, SendTransaction
  <2>4. UsedBelow(nonce)'
    <3> SUFFICES ASSUME NEW n \in 0..(nonce' - 1) PROVE Used(n)'
      BY DEF UsedBelow
    <3>1. n \in 0..(nonce - 1) \/ n = nonce
      BY <1>1
    <3> QED
      BY <1>1, <2>1, <2>2, <3>1 DEF NoGap, UsedBelow
  <2> QED
    BY <2>3, <2>4 DEF NoGap
<1>7. \A l \in Calls : ~forgot /\ Accepted(l) => carried[l] < nonce
  BY <1>1 DEF CountAbove
<1>8. CountAbove'
  BY <1>1, <1>4, <1>5, <1>7 DEF TypeOK, CountAbove, SendTransaction
<1>9. NonceUnique'
  BY <1>1, <1>4, <1>5, <1>7 DEF TypeOK, NonceUnique, SendTransaction
<1> QED
  BY <1>2, <1>3, <1>6, <1>8, <1>9

\* A request whose answer is lost sets forgot.
LEMMA SendFailsInv ==
    ASSUME NEW k \in Calls, NonceInv, SendFails(k)
    PROVE  NonceInv'
<1> USE TransactorAssumption DEF NonceInv
<1>0. forgot' \in BOOLEAN
  BY DEF TypeOK, SendFails
<1>1. TypeOK'
  BY <1>0 DEF TypeOK, SendFails, Fault, Goto, CallStates, RelayStates
<1>2. Exclusive'
  BY DEF TypeOK, Exclusive, SendFails, Goto
<1>3. \A l \in Calls : Accepted(l) => Accepted(l)'
  BY DEF TypeOK, Accepted, SendFails
<1>4. NoGap'
  BY <1>3 DEF NoGap, UsedBelow, Used, GetNonce, SendFails
<1>5. CountAbove' /\ NonceUnique'
  BY DEF TypeOK, CountAbove, NonceUnique, Accepted, GetNonce, SendFails
<1> QED
  BY <1>1, <1>2, <1>4, <1>5

\* The store takes over a nonce without gap.
LEMMA UnlockInv ==
    ASSUME NEW k \in Calls, NonceInv, UnlockNonce(k)
    PROVE  NonceInv'
<1> USE TransactorAssumption DEF NonceInv
<1>1. TypeOK'
  BY DEF TypeOK, UnlockNonce, Fault, Goto, CallStates
<1>2. Exclusive'
  BY DEF TypeOK, Exclusive, UnlockNonce, Goto
<1>3. nonce \in Nat /\ GetNonce \in Nat /\ GetNonce' \in {GetNonce, nonce}
  BY DEF TypeOK, GetNonce, UnlockNonce
<1>4. NoGap'
  BY <1>3 DEF NoGap, UsedBelow, Used, Accepted, UnlockNonce
<1>5. CountAbove' /\ NonceUnique'
  BY <1>3 DEF TypeOK, CountAbove, NonceUnique, Accepted, UnlockNonce
<1> QED
  BY <1>1, <1>2, <1>4, <1>5

\* A panic changes nothing but the process.
LEMMA PanicInv ==
    ASSUME NEW k \in Calls, NonceInv, UnlockNoncePanics(k)
    PROVE  NonceInv'
  BY DEF UnlockNoncePanics, NonceInv, TypeOK, Exclusive, NoGap, UsedBelow, Used,
         Accepted, GetNonce, CountAbove, NonceUnique

\* After a restart the count is the store's or the contract's.
LEMMA RestartInv ==
    ASSUME NonceInv, Restart
    PROVE  NonceInv'
<1> USE TransactorAssumption DEF NonceInv
<1>1. panicked' \in BOOLEAN /\ forgot' \in BOOLEAN
  BY DEF Restart
<1>2. faults' \in 0..MaxFaults
  BY DEF TypeOK, Restart, Fault
<1>3. tpc' \in [Calls -> CallStates]
  BY DEF Restart, CallStates
<1>4. TypeOK'
  BY <1>1, <1>2, <1>3 DEF TypeOK, Restart
<1>5. Exclusive'
  BY DEF TypeOK, Exclusive, Restart
<1>6. NoGap'
  BY DEF NoGap, UsedBelow, Used, Accepted, GetNonce, Restart
<1>7. CountAbove'
  <2> SUFFICES ASSUME ~forgot', NEW l \in Calls, Accepted(l)
               PROVE  carried[l] < GetNonce
    BY DEF CountAbove, Accepted, GetNonce, Restart
  <2>1. ~forgot /\ (nonce = Nil \/ ~(GetNonce < nonce))
    BY DEF Restart
  <2>2. GetNonce \in Nat /\ carried[l] \in Nat
    BY DEF TypeOK, GetNonce
  <2> QED
    BY <2>1, <2>2 DEF TypeOK, CountAbove
<1>8. NonceUnique'
  BY DEF NonceUnique, Accepted, Restart
<1> QED
  BY <1>4, <1>5, <1>6, <1>7, <1>8

\* The contract moves on by a nonce that was accepted.
LEMMA ExecuteInv ==
    ASSUME NEW k \in Calls, NonceInv, Execute(k)
    PROVE  NonceInv'
<1> USE TransactorAssumption DEF NonceInv
<1>1. TypeOK'
  BY DEF TypeOK, Execute, RelayStates
<1>2. Exclusive'
  BY DEF TypeOK, Exclusive, Execute
<1>3. \A l \in Calls : Accepted(l)' <=> Accepted(l)
  BY DEF TypeOK, Accepted, Execute
<1>4. NoGap'
  <2>1. \A n : Used(n)' <=> Used(n)
    BY <1>3 DEF Used, Execute
  <2>2. Used(contractNonce)
    BY DEF Used, Accepted, Execute
  <2>3. UsedBelow(contractNonce)'
    <3> SUFFICES ASSUME NEW n \in 0..(contractNonce' - 1) PROVE Used(n)'
      BY DEF UsedBelow
    <3>1. n \in 0..(contractNonce - 1) \/ n = contractNonce
      BY DEF TypeOK, Execute
    <3> QED
      BY <2>1, <2>2, <3>1 DEF NoGap, UsedBelow
  <2>4. UsedBelow(GetNonce)' /\ (nonce' # Nil => UsedBelow(nonce)')
    BY <2>1 DEF NoGap, UsedBelow, GetNonce, Execute
  <2> QED
    BY <2>3, <2>4 DEF NoGap
<1>5. CountAbove' /\ NonceUnique'
  BY <1>3 DEF CountAbove, NonceUnique, GetNonce, Execute
<1> QED
  BY <1>1, <1>2, <1>4, <1>5

\* A request that is rejected stays accepted by the relay.
LEMMA RevertInv ==
    ASSUME NEW k \in Calls, NonceInv, Revert(k)
    PROVE  NonceInv'
<1> USE TransactorAssumption DEF NonceInv
<1>1. TypeOK'
  BY DEF TypeOK, Revert, RelayStates
<1>2. Exclusive'
  BY DEF TypeOK, Exclusive, Revert
<1>3. \A l \in Calls : Accepted(l)' <=> Accepted(l)
  BY DEF TypeOK, Accepted, Revert
<1>4. NoGap'
  BY <1>3 DEF NoGap, UsedBelow, Used, GetNonce, Revert
<1>5. CountAbove' /\ NonceUnique'
  BY <1>3 DEF CountAbove, NonceUnique, GetNonce, Revert
<1> QED
  BY <1>1, <1>2, <1>4, <1>5

-------------------------------------------------------------------------------
(* The theorems                                                               *)

\* No nonce is used at first.
LEMMA NonceInit == Init => NonceInv
<1> SUFFICES ASSUME Init PROVE NonceInv
  OBVIOUS
<1> USE TransactorAssumption
<1>1. panicked \in BOOLEAN /\ forgot \in BOOLEAN
  BY DEF Init
<1>2. TypeOK
  BY <1>1 DEF Init, TypeOK, CallStates, RelayStates
<1>3. Exclusive /\ CountAbove /\ NonceUnique
  BY DEF Init, Exclusive, CountAbove, NonceUnique, Accepted
<1>4. NoGap
  BY DEF Init, NoGap, UsedBelow, GetNonce
<1> QED
  BY <1>2, <1>3, <1>4 DEF NonceInv

\* Every step preserves the invariant.
LEMMA NonceNext == NonceInv /\ [Next]_vars => NonceInv'
<1> SUFFICES ASSUME NonceInv, [Next]_vars PROVE NonceInv'
  OBVIOUS
<1>1. CASE Restart
  BY <1>1, RestartInv
<1>2. ASSUME NEW k \in Calls, LockNonce(k) PROVE NonceInv'
  BY <1>2, LockInv
<1>3. ASSUME NEW k \in Calls, Transact(k) PROVE NonceInv'
  BY <1>3, UnsafeNonceInv, UnsafeNonceFailsInv, SendInv, SendFailsInv, UnlockInv, PanicInv
  DEF Transact
<1>4. ASSUME NEW k \in Calls, Execute(k) \/ Revert(k) PROVE NonceInv'
  BY <1>4, ExecuteInv, RevertInv
<1>5. CASE UNCHANGED vars
  BY <1>5 DEF vars, NonceInv, TypeOK, Exclusive, NoGap, UsedBelow, Used, Accepted,
     GetNonce, CountAbove, NonceUnique
<1> QED
  BY <1>1, <1>2, <1>3, <1>4, <1>5 DEF Next

\* The invariant holds in every reachable state.
THEOREM NonceInvariance == Spec => []NonceInv
  BY NonceInit, NonceNext, PTL DEF Spec

\* Type correctness of the transactor.
THEOREM TransactorTypeCorrect == Spec => []TypeOK
<1>1. NonceInv => TypeOK
  BY DEF NonceInv
<1> QED
  BY <1>1, NonceInvariance, PTL

\* No nonce below the one in use was left out, whatever fails.
THEOREM NoncesHaveNoGap == Spec => []GapFree
<1>1. NonceInv => GapFree
  BY DEF NonceInv, NoGap, UsedBelow, Used, GapFree
<1> QED
  BY <1>1, NonceInvariance, PTL

\* Concurrent Transact calls never send one nonce twice; only a lost answer
\* or a crash before the store was written can.
THEOREM NoncesAreUnique == Spec => []NonceUnique
<1>1. NonceInv => NonceUnique
  BY DEF NonceInv
<1> QED
  BY <1>1, NonceInvariance, PTL

===============================================================================
