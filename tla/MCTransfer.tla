------------------------------ MODULE MCTransfer ------------------------------
(***************************************************************************)
(* The computations of one relayer over bounded inputs: a transfer, a fee  *)
(* or an amount, a configuration, imports of keys. Words have two bytes of *)
(* two bits, addresses one byte, floats six bits.                          *)
(***************************************************************************)
EXTENDS Transfer, Fees, Configuration, Keystore

MCRecipients == {<<1>>, <<3, 0>>}
MCMetadata   == {<<>>, <<2, 0, 1>>, <<1, 2>>}
MCCalldata   == UNION {[1..n -> {0, 1}] : n \in 0..6}
MCTails      == {<<>>, <<0, 3>>}
MCDecimals   == {<<1, 1>>, <<0, 1>>, <<2, 0>>, <<0, NoDecimals>>, <<0, NotEVM>>}
MCFactors    == {<<1, 1>>, <<3, 4>>, <<2, 1>>}
MCBlocks     == {-1, 0, 2}

NoImport == \A p \in Processes : import[p].state = "idle"
Idle == stage = "start" /\ fee.op = "none" /\ conf.result = "none" /\ NoImport

Init == InitTransfer /\ InitFees /\ InitConfiguration /\ InitKeystore

Next ==
    \/ /\ conf.result = "none" /\ fee.op = "none" /\ NoImport
       /\ NextTransfer /\ UNCHANGED <<fee, conf, keystoreVars>>
    \/ Idle /\ NextFees /\ UNCHANGED <<transferVars, conf, keystoreVars>>
    \/ Idle /\ NextConfiguration /\ UNCHANGED <<transferVars, fee, keystoreVars>>
    \/ /\ conf.result = "none" /\ fee.op = "none" /\ stage = "start"
       /\ NextKeystore /\ UNCHANGED <<transferVars, fee, conf>>

Spec == Init /\ [][Next]_<<transferVars, fee, conf, keystoreVars>>

===============================================================================
