---------------------------- MODULE ActivationEngine ----------------------------
(***************************************************************************)
(* The phase engine of the P08 activation (p08_activation_engine_v1.py): a *)
(* pure value that is fed one role result at a time.  Nothing here touches *)
(* the host; the supervisor holds the engine in memory and rebuilds it     *)
(* from the durable role evidence after a crash.                           *)
(*                                                                         *)
(* A result keeps what the engine distinguishes: whether it is a success   *)
(* (ok), the mutation scope it declares, its continuity state, its         *)
(* forward_state_possible flag, and for converge and postflight the        *)
(* restore scope and the selected identity it claims.                      *)
(***************************************************************************)
EXTENDS Naturals, Sequences

ReadinessRoles == {"construct", "prepare", "formal1", "formal2", "exact_two", "drift"}
HardRoles == {"stop_socket", "stop_service", "install", "select", "start_service", "start_socket"}
ContinuityRoles == {"continuity_assessment", "continuity_transition", "continuity_reconcile"}
ConvergenceRoles == {"converge", "recover", "postflight"}
Roles == ReadinessRoles \cup HardRoles \cup ContinuityRoles \cup ConvergenceRoles
             \cup {"claim", "backup", "stage", "recovery_install", "recovery_arm", "accept_status"}

\* A refused recovery_arm closes the action without convergence.
Mutant_FailureToConvergeNoArm ==
    {"recovery_install", "accept_status", "postflight"} \cup HardRoles \cup ContinuityRoles

\* A refused accept_status closes the action without convergence.
Mutant_FailureToConvergeNoAccept ==
    {"recovery_install", "recovery_arm", "postflight"} \cup HardRoles \cup ContinuityRoles

FailureToConverge ==
    {"recovery_install", "recovery_arm", "accept_status", "postflight"} \cup HardRoles \cup ContinuityRoles

\* The successor of every role whose successor does not depend on continuity.
PhaseSuccessor ==
    [construct |-> "prepare", prepare |-> "formal1", formal1 |-> "formal2", formal2 |-> "exact_two",
     exact_two |-> "drift", drift |-> "claim", claim |-> "backup", backup |-> "stage",
     stage |-> "recovery_install", recovery_install |-> "recovery_arm",
     recovery_arm |-> "stop_socket", stop_socket |-> "stop_service", stop_service |-> "install",
     install |-> "select", select |-> "continuity_assessment", start_service |-> "start_socket",
     start_socket |-> "accept_status", accept_status |-> "postflight", converge |-> "recover",
     recover |-> "postflight"]

\* An ambiguous transition goes on without a reconcile.
Mutant_ContinuityUnreconciled ==
    [no_transition_required |-> "start_service", transition_required |-> "continuity_transition",
     transition_committed |-> "start_service", transition_ambiguous |-> "start_service",
     reconciled_committed |-> "start_service", reconciled_not_committed |-> "converge"]

ContinuitySuccessor ==
    [no_transition_required |-> "start_service", transition_required |-> "continuity_transition",
     transition_committed |-> "start_service", transition_ambiguous |-> "continuity_reconcile",
     reconciled_committed |-> "start_service", reconciled_not_committed |-> "converge"]

Outcomes ==
    [continuity_assessment |-> {"no_transition_required", "transition_required"},
     continuity_transition |-> {"transition_committed", "transition_ambiguous"},
     continuity_reconcile |-> {"reconciled_committed", "reconciled_not_committed"}]

ProductScopes == {"product", "recovery_infrastructure_and_product"}
InfraScopes == {"recovery_infrastructure", "recovery_infrastructure_and_product"}

NewEngine ==
    [role |-> "none", status |-> "running", claimed |-> FALSE, product |-> FALSE, infra |-> FALSE,
     scope |-> "none", transition |-> "none", forward |-> FALSE, converging |-> FALSE,
     calls |-> [r \in Roles |-> 0]]

Running(e) == e.status = "running"

\* The one role that may run next; "none" once the engine is terminal.
NextRole(e) ==
    IF ~Running(e) THEN "none"
    ELSE IF e.role = "none" THEN "construct"
    ELSE IF e.converging
      THEN IF e.role \in {"converge", "recover"} THEN PhaseSuccessor[e.role] ELSE "converge"
    ELSE IF e.role \in ContinuityRoles THEN ContinuitySuccessor[e.transition]
    ELSE PhaseSuccessor[e.role]

NextCall(e) == <<NextRole(e), e.calls[NextRole(e)] + 1>>

RestoreScope(e) ==
    IF e.scope # "none" THEN e.scope
    ELSE IF e.forward THEN "code_public_only" ELSE "p08_state_and_public"

\* _validate_role_semantics: what a success must claim to be believed.
Believable(e, r) ==
    /\ r.role \in ContinuityRoles => r.state \in Outcomes[r.role]
    /\ r.role = "continuity_reconcile" => e.transition = "transition_ambiguous"
    /\ r.role = "converge" => r.restore = RestoreScope(e)
    /\ r.role = "postflight" => r.identity = IF e.converging THEN "predecessor" ELSE "target"

Accepts(e, r) == Running(e) /\ r.role = NextRole(e) /\ (r.ok => Believable(e, r))

Record(e, r) ==
    [e EXCEPT !.role = r.role, !.calls[r.role] = @ + 1,
              !.product = @ \/ r.scope \in ProductScopes,
              !.infra = @ \/ r.scope \in InfraScopes]

\* A refused role (apply, status neither ready nor success).
Refused(e, r) ==
    LET told == r.role \in {"continuity_transition", "continuity_reconcile"}
        n == [Record(e, r) EXCEPT !.forward = IF told THEN r.forward ELSE @]
    IN IF r.role = "continuity_transition" /\ r.forward
         THEN [n EXCEPT !.transition = "transition_ambiguous"]
       ELSE IF n.converging /\ r.role \in ConvergenceRoles
         THEN [n EXCEPT !.status = "convergence_failed"]
       ELSE IF (n.product \/ n.infra) /\ r.role \in FailureToConverge
         THEN [n EXCEPT !.converging = TRUE,
                        !.scope = IF n.infra /\ ~n.product THEN "infrastructure_only" ELSE @]
       ELSE [n EXCEPT !.status = "premutation"]

Succeeded(e, r) ==
    LET n == [Record(e, r) EXCEPT !.claimed = @ \/ r.role = "claim",
                                  !.product = @ \/ r.role \in HardRoles]
    IN IF r.role \in ContinuityRoles
         THEN [n EXCEPT !.transition = r.state,
                        !.forward = \/ r.state \in {"transition_committed", "reconciled_committed"}
                                    \/ @ /\ r.state # "reconciled_not_committed",
                        !.converging = @ \/ r.state = "reconciled_not_committed"]
       ELSE IF r.role = "converge"
         THEN [n EXCEPT !.product = @ \/ e.scope # "infrastructure_only"]
       ELSE IF r.role = "recover"
         THEN [n EXCEPT !.product = FALSE, !.infra = @ /\ e.scope # "infrastructure_only"]
       ELSE IF r.role = "postflight"
         THEN [n EXCEPT !.status = IF e.converging THEN "converged" ELSE "accepted"]
       ELSE n

Applied(e, r) == IF r.ok THEN Succeeded(e, r) ELSE Refused(e, r)

Refusal(role, scope, forward) ==
    [role |-> role, ok |-> FALSE, scope |-> scope, state |-> "none", forward |-> forward,
     restore |-> "none", identity |-> "none"]

\* fail(role, result_class="indeterminate", mutation_scope): a result nobody
\* has seen.  Without a proven scope the worst one is assumed.
Failed(e, role, proven) ==
    LET inferred == IF ~e.claimed \/ role \notin FailureToConverge THEN "none"
                    ELSE IF role \in {"recovery_install", "recovery_arm"}
                      THEN "recovery_infrastructure" ELSE "product"
    IN Refused(e, Refusal(role, IF proven # "none" THEN proven ELSE inferred, TRUE))

\* abort_for_recovery: forward progress is over; what was done decides how.
Aborted(e) ==
    IF e.transition = "transition_ambiguous" THEN e
    ELSE IF e.claimed /\ e.product THEN [e EXCEPT !.scope = "none", !.converging = TRUE]
    ELSE IF e.claimed /\ e.infra
      THEN [e EXCEPT !.scope = "infrastructure_only", !.converging = TRUE]
    ELSE [e EXCEPT !.status = "premutation"]

\* bind_durable_infrastructure_obligation, for an engine still running.
Bound(e) == [e EXCEPT !.infra = TRUE, !.scope = "infrastructure_only"]

\* An acceptance stands, discharged or not.
Mutant_ReopenedNever(e) == e

\* require_guardian_convergence: an accepted target that was not discharged.
Reopened(e) == [e EXCEPT !.status = "running", !.scope = "none", !.converging = TRUE]

\* receipt(): what the terminal record says.
Receipt(e) == [kind |-> "valid", status |-> e.status, restore |-> RestoreScope(e)]

=================================================================================
