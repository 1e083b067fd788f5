------------------------------ MODULE DeliveryLog ------------------------------
(***************************************************************************)
(* What the owner's lossless archive promises, whatever tables it keeps:   *)
(* a log of the turns whose reply was delivered, each of them once, in the *)
(* order in which the deliveries were reported.  A reply given up may      *)
(* still turn out to have been delivered; a delivery is never taken back.  *)
(***************************************************************************)
EXTENDS Sequences

CONSTANT Turns

VARIABLES log, fate

logVars == <<log, fate>>

Init ==
    /\ log = <<>>
    /\ fate = [t \in Turns |-> "none"]

Offer(t) ==
    /\ fate[t] = "none"
    /\ fate' = [fate EXCEPT ![t] = "open"]
    /\ UNCHANGED log

Withhold(t) ==
    /\ fate[t] = "open"
    /\ fate' = [fate EXCEPT ![t] = "withheld"]
    /\ UNCHANGED log

Deliver(t) ==
    /\ fate[t] \in {"open", "withheld"}
    /\ fate' = [fate EXCEPT ![t] = "delivered"]
    /\ log' = Append(log, t)

Next == \E t \in Turns : Offer(t) \/ Withhold(t) \/ Deliver(t)

Spec == Init /\ [][Next]_logVars
================================================================================
