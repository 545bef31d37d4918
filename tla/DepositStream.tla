---------------------------- MODULE DepositStream ----------------------------
(***************************************************************************)
(* What a listener promises to the reader of its channel, whatever chain   *)
(* it polls: the deposits of a domain come in the order of their logs and  *)
(* without a gap. A deposit is settled when its message was taken off the  *)
(* channel or its failure was reported. A restart may repeat deposits, it  *)
(* never skips one.                                                        *)
(***************************************************************************)
EXTENDS Naturals

CONSTANTS
    Domains,        \* domains that are listened to
    Log,            \* per domain: its deposits, as log numbers
    Owed            \* per domain: those the listener has to settle

VARIABLES
    settled,        \* deposits that were handed over or reported
    cursor          \* per domain: last deposit settled in this run, or 0

streamVars == <<settled, cursor>>

Init ==
    /\ settled = {}
    /\ cursor = [c \in Domains |-> 0]

\* Deposit d is next: it is behind the cursor, and all that is owed before it
\* was settled, in this run or an earlier one.
Settle(c, d) ==
    /\ cursor[c] < d
    /\ \A e \in Owed[c] : e < d => e \in settled
    /\ settled' = settled \cup {d}
    /\ cursor' = [cursor EXCEPT ![c] = d]

\* The process was started again and may repeat what it settled.
Resume ==
    /\ cursor' = [c \in Domains |-> 0]
    /\ UNCHANGED settled

Next ==
    \/ Resume
    \/ \E c \in Domains : \E d \in Log[c] : Settle(c, d)

Spec == Init /\ [][Next]_streamVars

===============================================================================
