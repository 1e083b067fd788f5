---------------------------- MODULE ActivationAdapter ----------------------------
(***************************************************************************)
(* The host a P08 activation works on, and the role child that works on it *)
(* (p08_activation_production_adapter_v1.py): the public selection, the    *)
(* two coupled units, the trusted time the Core provider keeps, the boot   *)
(* recovery gate, and the action's own durable records -- the journal and  *)
(* its continuity state, the recovery obligation, the protected binding.   *)
(*                                                                         *)
(* A role child is a list of operations it still has to do.  It can be     *)
(* refused at any of them (AdapterError), or lost after any of them:       *)
(* killed at a deadline, or ended without a result the launcher accepts.   *)
(* Every such event is a fault, and MaxFaults bounds them.                 *)
(***************************************************************************)
EXTENDS ActivationEngine, SequencesExt

CONSTANT MaxFaults
ASSUME MaxFaultsAssumption == MaxFaults \in Nat

VARIABLES
    journal,     \* JOURNAL.json: the events, in order
    continuity,  \* its continuity_state
    nextFile,    \* a JOURNAL.NEXT.json is on disk
    obligation,  \* the recovery obligation is durable
    binding,     \* CONTINUITY.PRIVATE.json is durable
    gate,        \* boot recovery infrastructure: "absent", "building", "armed"
    public,      \* selector, environment and units: "predecessor", "mixed", "target"
    up,          \* both units active (they are coupled)
    moved,       \* the provider's trusted time took the forward transition
    child,       \* the role child the supervisor waits for
    faults

hostVars == <<journal, continuity, nextFile, obligation, binding, gate, public, up, moved>>

HostInit ==
    /\ journal = <<>> /\ continuity = "none" /\ nextFile = FALSE
    /\ obligation = FALSE /\ binding = FALSE /\ gate = "absent"
    /\ public = "predecessor" /\ up = TRUE /\ moved = FALSE

\* The events a crash may leave behind before the product was entered.
InfrastructurePrefix == <<"claim", "backup", "stage", "recovery_install", "recovery_arm">>
InfrastructureOnly == obligation /\ IsPrefix(journal, InfrastructurePrefix)

\* Only a committed transition counts as forward state.
Mutant_ForwardStateCommitted ==
    continuity \in {"transition_committed", "reconciled_committed"}

ForwardStatePossible ==
    continuity \in {"transition_ambiguous", "transition_committed", "reconciled_committed"}

Happened(event) == event \in Range(journal)

\* _replace_journal writes JOURNAL.NEXT.json exclusively and renames it.
Advance(event) == <<<<"next", event>>, <<"rename", event>>>>
Check == <<"check", "none">>
Do(op) == <<op, "none">>

InfrastructureProgram ==
    [converge |-> <<Check, Do("remove_arm"), Do("remove_gate"), Check>>,
     recover |-> <<Check>>, postflight |-> <<Check>>]

\* _converge, up to the decision it takes once the units are down, and after it.
ConvergeProgram == <<Do("stop"), Do("choose")>>
RestoreProgram ==
    <<Do("mix"), Do("restore")>>
        \o (IF ForwardStatePossible THEN <<>> ELSE <<Do("restore_opaque")>>)
        \o <<Do("start")>> \o Advance("converge")

\* _payload, once the role has been admitted.
Steps(role) ==
    IF role \in ReadinessRoles THEN <<Check>>
    ELSE IF role = "claim" THEN <<Check, Do("claim")>>
    ELSE IF role = "recovery_install" THEN <<Check, Do("oblige"), Do("build")>> \o Advance(role)
    ELSE IF role = "recovery_arm" THEN <<Check, Do("arm")>> \o Advance(role)
    ELSE IF role = "stop_socket"
      THEN <<Check>> \o Advance("stop_socket_started") \o <<Do("stop")>> \o Advance(role)
    ELSE IF role = "stop_service" THEN <<Do("stop")>> \o Advance(role)
    ELSE IF role = "select" THEN <<Check, Do("mix"), Do("select")>> \o Advance(role)
    ELSE IF role = "continuity_assessment" THEN <<Do("assess")>> \o Advance(role)
    ELSE IF role = "continuity_transition"
      THEN Advance("continuity_transition_started") \o <<Do("bind"), Do("transition")>>
    ELSE IF role = "continuity_reconcile"
      THEN <<Do("read_binding"), Do("reconcile")>> \o Advance(role)
    ELSE IF role \in {"start_service", "start_socket"} THEN <<Do("start")>> \o Advance(role)
    ELSE IF role = "converge" THEN ConvergeProgram
    ELSE IF role = "postflight"
      THEN <<Check>> \o Advance(IF Happened("converge") THEN "convergence_postflight" ELSE role)
    ELSE <<Check>> \o Advance(role)  \* backup, stage, install, accept_status, recover

Hazardous == HardRoles \cup ContinuityRoles \cup ConvergenceRoles \cup {"accept_status"}

Program(role) ==
    IF role \in ConvergenceRoles /\ InfrastructureOnly THEN InfrastructureProgram[role]
    ELSE (IF role \in Hazardous THEN <<Do("verify_arm")>> ELSE <<>>) \o Steps(role)

NoChild == [role |-> "none", todo |-> <<>>, ends |-> "none", infra |-> FALSE, state |-> "none",
            restore |-> "none", identity |-> "none", forward |-> FALSE, product |-> FALSE]

NewChild(role) ==
    [NoChild EXCEPT !.role = role, !.todo = Program(role), !.ends = "no",
                    !.infra = InfrastructureOnly,
                    !.restore = IF InfrastructureOnly THEN "infrastructure_only" ELSE "none",
                    !.identity = IF InfrastructureOnly \/ Happened("converge")
                                 THEN "predecessor" ELSE "target"]

--------------------------------------------------------------------------------
(* One operation of the child. *)

At(op) == child.ends = "no" /\ child.todo # <<>> /\ Head(child.todo)[1] = op
Event == Head(child.todo)[2]
Proceed == child' = [child EXCEPT !.todo = Tail(@)]
ProceedAs(state, more) == child' = [child EXCEPT !.state = state, !.todo = more]

\* What the host must look like for the role to go on.
Verified ==
    IF child.role \in {"claim", "backup", "stage", "recovery_install", "recovery_arm",
                       "stop_socket", "select"} THEN public = "predecessor"
    ELSE IF child.role = "accept_status" THEN public = "target" /\ up
    ELSE IF child.role \in ConvergenceRoles /\ child.infra
      THEN public = "predecessor" /\ up /\ (child.role # "converge" => gate = "absent")
    ELSE IF child.role = "recover" THEN public = "predecessor" /\ up
    ELSE IF child.role = "postflight" THEN public = child.identity /\ up
    ELSE TRUE

\* The operation's own condition, false where the code raises.
Admissible ==
    /\ At("check") => Verified
    /\ At("verify_arm") => gate = "armed"
    /\ At("next") => ~nextFile /\ ~Happened(Event)
    /\ At("bind") => ~binding
    /\ At("read_binding") => binding

Looks ==
    /\ At("check") \/ At("verify_arm") \/ At("read_binding")
    /\ Admissible /\ Proceed
    /\ UNCHANGED <<hostVars, faults>>

ClaimIncident ==
    /\ At("claim") /\ Proceed /\ journal' = <<"claim">>
    /\ UNCHANGED <<continuity, nextFile, obligation, binding, gate, public, up, moved, faults>>

WriteNext ==
    /\ At("next") /\ Admissible /\ Proceed /\ nextFile' = TRUE
    /\ UNCHANGED <<journal, continuity, obligation, binding, gate, public, up, moved, faults>>

RenameNext ==
    /\ At("rename") /\ Proceed
    /\ journal' = Append(journal, Event) /\ nextFile' = FALSE
    /\ continuity' =
          IF Event = "continuity_transition_started" THEN "transition_ambiguous"
          ELSE IF Event = "continuity_transition_precommit_rejected" THEN "transition_required"
          ELSE IF Event \in ContinuityRoles THEN child.state ELSE continuity
    /\ UNCHANGED <<obligation, binding, gate, public, up, moved, faults>>

WriteObligation ==
    /\ At("oblige") /\ Proceed /\ obligation' = TRUE
    /\ UNCHANGED <<journal, continuity, nextFile, binding, gate, public, up, moved, faults>>

MoveGate ==
    /\ \/ At("build") /\ gate' = "building"
       \/ At("arm") /\ gate' = "armed"
       \/ At("remove_arm") /\ gate' = IF gate = "armed" THEN "building" ELSE gate
       \/ At("remove_gate") /\ gate' = "absent"
    /\ Proceed
    /\ UNCHANGED <<journal, continuity, nextFile, obligation, binding, public, up, moved, faults>>

MoveUnits ==
    /\ \/ At("stop") /\ up' = FALSE
       \/ At("start") /\ up' = TRUE
    /\ Proceed
    /\ UNCHANGED <<journal, continuity, nextFile, obligation, binding, gate, public, moved, faults>>

MovePublic ==
    /\ \/ At("mix") /\ public' = IF child.role = "converge" /\ public = "predecessor"
                                THEN public ELSE "mixed"
       \/ At("select") /\ public' = "target"
       \/ At("restore") /\ public' = "predecessor"
    /\ Proceed
    /\ UNCHANGED <<journal, continuity, nextFile, obligation, binding, gate, up, moved, faults>>

ChooseRestore ==
    /\ At("choose")
    /\ child' = [child EXCEPT !.restore = IF ForwardStatePossible THEN "code_public_only"
                                                        ELSE "p08_state_and_public",
                              !.todo = RestoreProgram]
    /\ UNCHANGED <<hostVars, faults>>

\* The action's own backup holds the time as it was before the transition.
RestoreOpaque ==
    /\ At("restore_opaque") /\ Proceed /\ moved' = FALSE
    /\ UNCHANGED <<journal, continuity, nextFile, obligation, binding, gate, public, up, faults>>

Assess ==
    /\ At("assess")
    /\ \E state \in Outcomes.continuity_assessment : ProceedAs(state, Tail(child.todo))
    /\ UNCHANGED <<hostVars, faults>>

WriteBinding ==
    /\ At("bind") /\ Admissible /\ Proceed /\ binding' = TRUE
    /\ UNCHANGED <<journal, continuity, nextFile, obligation, gate, public, up, moved, faults>>

\* transition_forward: committed, unclear either way, or refused before commit.
Transition ==
    /\ At("transition")
    /\ \/ moved' = TRUE /\ ProceedAs("transition_committed", Advance(child.role))
       \/ moved' \in BOOLEAN /\ ProceedAs("transition_ambiguous", Advance(child.role))
       \/ /\ moved' = moved
          /\ ProceedAs("none", Advance("continuity_transition_precommit_rejected")
                                   \o <<Do("refuse")>>)
    /\ UNCHANGED <<journal, continuity, nextFile, obligation, binding, gate, public, up, faults>>

Reconcile ==
    /\ At("reconcile")
    /\ ProceedAs(IF moved THEN "reconciled_committed" ELSE "reconciled_not_committed",
                 Tail(child.todo))
    /\ UNCHANGED <<hostVars, faults>>

--------------------------------------------------------------------------------
(* How a child ends, and what the launcher makes of it. *)

Refuses(forward, product) ==
    child' = [child EXCEPT !.ends = "rejected", !.todo = <<>>,
                           !.forward = forward, !.product = product]

\* The flags an AdapterError carries where it is raised.
FlagsForward ==
    \/ child.role = "continuity_reconcile" /\ (At("reconcile") \/ At("next") \/ At("rename"))
    \/ child.role = "continuity_transition" /\ At("transition")
    \/ child.role = "continuity_transition" /\ (At("next") \/ At("rename"))
          /\ Event = "continuity_transition"

FlagsProduct ==
    IF At("stop") \/ At("start") THEN BOOLEAN
    ELSE {(At("next") \/ At("rename")) /\ child.role \in HardRoles
              /\ Event # "stop_socket_started"}

\* The operation's condition is false, or the provider refused: no fault.
ChildRefused ==
    /\ child.ends = "no" /\ child.todo # <<>>
    /\ At("refuse") \/ ~Admissible
    /\ \E product \in FlagsProduct : Refuses(FlagsForward, product)
    /\ UNCHANGED <<hostVars, faults>>

\* An I/O or verification error at this operation, which then has no effect;
\* only the exclusive write of JOURNAL.NEXT.json may leave its file behind.
ChildFails ==
    /\ faults < MaxFaults /\ faults' = faults + 1
    /\ child.ends = "no" /\ child.todo # <<>> /\ ~At("refuse")
    /\ \E product \in FlagsProduct : Refuses(FlagsForward, product)
    /\ nextFile' = nextFile \/ nextFile' = (nextFile \/ At("next"))
    /\ UNCHANGED <<journal, continuity, obligation, binding, gate, public, up, moved>>

\* A unit that did stop or start, but whose state could not be read back.
UnitUnread ==
    /\ faults < MaxFaults /\ faults' = faults + 1
    /\ \/ At("stop") /\ up' = FALSE
       \/ At("start") /\ up' = TRUE
    /\ \E product \in BOOLEAN : Refuses(FALSE, product)
    /\ UNCHANGED <<journal, continuity, nextFile, obligation, binding, gate, public, moved>>

ChildSucceeds ==
    /\ child.ends = "no" /\ child.todo = <<>>
    /\ child' = [child EXCEPT !.ends = "success"]
    /\ UNCHANGED <<hostVars, faults>>

\* Killed, timed out, or ended without an acceptable result.
ChildLost ==
    /\ faults < MaxFaults /\ faults' = faults + 1
    /\ child.ends = "no" /\ child' = [child EXCEPT !.ends = "lost", !.todo = <<>>]
    /\ UNCHANGED hostVars

ChildStep ==
    \/ Looks \/ ClaimIncident \/ WriteNext \/ RenameNext \/ WriteObligation \/ MoveGate
    \/ MoveUnits \/ MovePublic \/ ChooseRestore \/ RestoreOpaque \/ Assess \/ WriteBinding
    \/ Transition \/ Reconcile \/ ChildRefused \/ ChildSucceeds

ChildFault == ChildFails \/ UnitUnread \/ ChildLost

\* build_role_result: the scope a result declares.
ResultScope ==
    IF child.ends = "rejected"
      THEN IF child.role \in {"recovery_install", "recovery_arm"} /\ obligation
             THEN "recovery_infrastructure"
           ELSE IF child.product THEN "product" ELSE "none"
    ELSE IF child.role \in {"recovery_install", "recovery_arm"} THEN "recovery_infrastructure"
    ELSE IF child.role \in {"converge", "recover"}
      THEN IF child.infra THEN "recovery_infrastructure" ELSE "product"
    ELSE IF child.role \in HardRoles \/ child.state = "transition_committed" THEN "product"
    ELSE "none"

Result ==
    IF child.ends = "rejected"
      THEN Refusal(child.role, ResultScope, child.forward)
      ELSE [role |-> child.role, ok |-> TRUE, scope |-> ResultScope, state |-> child.state,
            forward |-> FALSE, restore |-> child.restore, identity |-> child.identity]

\* A capture whose canonical_result is null.
Unseen(role) == [Refusal(role, "none", FALSE) EXCEPT !.identity = "unseen"]

=================================================================================
