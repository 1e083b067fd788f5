------------------------------ MODULE EpochLedger ------------------------------
(***************************************************************************)
(* What an external-context epoch promises, whatever tables it keeps: a    *)
(* log of delivered turns in which no event occurs twice, in which an      *)
(* event whose reply was withheld never occurs, and of which a growing     *)
(* prefix has been summarised.  Every change has a revision of its own.    *)
(***************************************************************************)
EXTENDS Naturals, Sequences

CONSTANT Events

VARIABLES log, fate, covered, revision

ledgerVars == <<log, fate, covered, revision>>

Init ==
    /\ log = <<>>
    /\ fate = [e \in Events |-> "open"]
    /\ covered = 0
    /\ revision = 0

\* The owner was shown the reply to e, and the turn is recorded.
Deliver(e) ==
    /\ fate[e] = "open"
    /\ fate' = [fate EXCEPT ![e] = "delivered"]
    /\ log' = Append(log, e)
    /\ revision' = revision + 1
    /\ UNCHANGED covered

\* The replies to the events of S are given up: cancelled, or lost in a restart.
Withhold(S) ==
    /\ \A e \in S : fate[e] = "open"
    /\ fate' = [e \in Events |-> IF e \in S THEN "withheld" ELSE fate[e]]
    /\ UNCHANGED <<log, covered, revision>>

\* The log up to n now has a summary.
Summarise(n) ==
    /\ covered < n
    /\ covered' = n
    /\ revision' = revision + 1
    /\ UNCHANGED <<log, fate>>

Next ==
    \/ \E e \in Events : Deliver(e)
    \/ \E S \in SUBSET Events : Withhold(S)
    \/ \E n \in 1..Len(log) : Summarise(n)

Spec == Init /\ [][Next]_ledgerVars
================================================================================
