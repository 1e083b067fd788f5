--------------------------- MODULE Activation_proofs ---------------------------
(***************************************************************************)
(* What holds of the activation for every number of faults: the types of   *)
(* its records, that no role call is made twice, that a committed trusted  *)
(* time is never taken back, and that what the terminals and the strategy  *)
(* index say is true of the host.  The invariants the proofs need stand in *)
(* ActivationInvariant.                                                    *)
(***************************************************************************)
EXTENDS ActivationInvariant, SequenceTheorems, TLAPS

--------------------------------------------------------------------------------
(* The rows of the engine, of a result and of a child. *)

\* The engine counts the call of every result it is given.
LEMMA RecordRow ==
  ASSUME NEW e \in EngineRow, NEW r \in ResultRow
  PROVE  /\ Record(e, r) \in EngineRow
         /\ Record(e, r).role = r.role
         /\ Record(e, r).calls = [e.calls EXCEPT ![r.role] = @ + 1]
         /\ Record(e, r).status = e.status /\ Record(e, r).converging = e.converging
         /\ Record(e, r).transition = e.transition
  <1>1. [e.calls EXCEPT ![r.role] = @ + 1] \in [Roles -> Nat]
    <2>1. PICK c \in [Roles -> Nat] : c = e.calls
      BY DEF EngineRow
    <2>2. [c EXCEPT ![r.role] = @ + 1] \in [Roles -> Nat]
      <3>1. CASE r.role \in Roles
        BY <3>1
      <3>2. CASE r.role \notin Roles
        BY <3>2
      <3> QED BY <3>1, <3>2
    <2> QED BY <2>1, <2>2
  <1>2. PICK c \in [Roles -> Nat], p \in BOOLEAN, i \in BOOLEAN :
           /\ Record(e, r) = [e EXCEPT !.role = r.role, !.calls = c, !.product = p, !.infra = i]
           /\ c = [e.calls EXCEPT ![r.role] = @ + 1]
    <2> DEFINE p == e.product \/ r.scope \in ProductScopes
               i == e.infra \/ r.scope \in InfraScopes
    <2>1. p \in BOOLEAN /\ i \in BOOLEAN
      BY DEF EngineRow
    <2>2. Record(e, r) = [e EXCEPT !.role = r.role, !.calls = [e.calls EXCEPT ![r.role] = @ + 1],
                                   !.product = p, !.infra = i]
      BY DEF Record, EngineRow
    <2> QED BY <1>1, <2>1, <2>2
  <1> QED BY <1>2 DEF EngineRow, ResultRow

\* After a refusal the engine converges, is over, or has an ambiguous transition.
LEMMA RefusedRow ==
  ASSUME NEW e \in EngineRow, NEW r \in ResultRow
  PROVE  /\ Refused(e, r) \in EngineRow
         /\ Refused(e, r).role = r.role
         /\ Refused(e, r).calls = [e.calls EXCEPT ![r.role] = @ + 1]
         /\ e.converging => Refused(e, r).converging
         /\ Running(Refused(e, r)) =>
               \/ Refused(e, r).converging
               \/ r.role = "continuity_transition"
                     /\ Refused(e, r).transition = "transition_ambiguous"
  <1> DEFINE told == r.role \in {"continuity_transition", "continuity_reconcile"}
             n == [Record(e, r) EXCEPT !.forward = IF told THEN r.forward ELSE @]
  <1>1. /\ n \in EngineRow /\ n.role = r.role /\ n.calls = [e.calls EXCEPT ![r.role] = @ + 1]
        /\ n.converging = e.converging /\ n.status = e.status
    BY RecordRow DEF EngineRow, ResultRow
  <1> HIDE DEF n
  <1>2. Refused(e, r) =
          IF r.role = "continuity_transition" /\ r.forward
            THEN [n EXCEPT !.transition = "transition_ambiguous"]
          ELSE IF n.converging /\ r.role \in ConvergenceRoles
            THEN [n EXCEPT !.status = "convergence_failed"]
          ELSE IF (n.product \/ n.infra) /\ r.role \in FailureToConverge
            THEN [n EXCEPT !.converging = TRUE,
                           !.scope = IF n.infra /\ ~n.product THEN "infrastructure_only" ELSE @]
          ELSE [n EXCEPT !.status = "premutation"]
    BY DEF Refused, n
  <1>3. CASE r.role = "continuity_transition" /\ r.forward
    <2>1. Refused(e, r) = [n EXCEPT !.transition = "transition_ambiguous"]
      BY <1>2, <1>3
    <2> QED BY <1>1, <1>3, <2>1 DEF EngineRow, States
  <1>4. CASE ~(r.role = "continuity_transition" /\ r.forward)
             /\ n.converging /\ r.role \in ConvergenceRoles
    <2>1. Refused(e, r) = [n EXCEPT !.status = "convergence_failed"]
      BY <1>2, <1>4
    <2> QED BY <1>1, <2>1 DEF EngineRow, Statuses, Running
  <1>5. CASE ~(r.role = "continuity_transition" /\ r.forward)
             /\ ~(n.converging /\ r.role \in ConvergenceRoles)
             /\ (n.product \/ n.infra) /\ r.role \in FailureToConverge
    <2>1. PICK s \in {"none", "infrastructure_only"} :
             Refused(e, r) = [n EXCEPT !.converging = TRUE, !.scope = s]
      BY <1>1, <1>2, <1>5 DEF EngineRow
    <2> QED BY <1>1, <2>1 DEF EngineRow
  <1>6. CASE ~(r.role = "continuity_transition" /\ r.forward)
             /\ ~(n.converging /\ r.role \in ConvergenceRoles)
             /\ ~((n.product \/ n.infra) /\ r.role \in FailureToConverge)
    <2>1. Refused(e, r) = [n EXCEPT !.status = "premutation"]
      BY <1>2, <1>6
    <2> QED BY <1>1, <2>1 DEF EngineRow, Statuses, Running
  <1> QED BY <1>3, <1>4, <1>5, <1>6

\* A success that is believed says which state a continuity role found.
LEMMA SucceededRow ==
  ASSUME NEW e \in EngineRow, NEW r \in ResultRow, Believable(e, r)
  PROVE  /\ Succeeded(e, r) \in EngineRow
         /\ Succeeded(e, r).role = r.role
         /\ Succeeded(e, r).calls = [e.calls EXCEPT ![r.role] = @ + 1]
         /\ e.converging => Succeeded(e, r).converging
         /\ r.role \in ContinuityRoles =>
               r.state \in Outcomes[r.role] /\ Succeeded(e, r).transition = r.state
         /\ r.role = "postflight" => ~Running(Succeeded(e, r))
  <1> DEFINE n == [Record(e, r) EXCEPT !.claimed = @ \/ r.role = "claim",
                                       !.product = @ \/ r.role \in HardRoles]
  <1>1. /\ n \in EngineRow /\ n.role = r.role /\ n.calls = [e.calls EXCEPT ![r.role] = @ + 1]
        /\ n.converging = e.converging /\ n.status = e.status
    <2>1. PICK k \in EngineRow : k = Record(e, r)
      BY RecordRow
    <2>2. PICK c \in BOOLEAN, p \in BOOLEAN : n = [k EXCEPT !.claimed = c, !.product = p]
      <3> DEFINE c == k.claimed \/ r.role = "claim"
                 p == k.product \/ r.role \in HardRoles
      <3>1. c \in BOOLEAN /\ p \in BOOLEAN
        BY DEF EngineRow
      <3>2. n = [k EXCEPT !.claimed = c, !.product = p]
        BY <2>1 DEF EngineRow
      <3> QED BY <3>1, <3>2
    <2>3. /\ k.role = r.role /\ k.calls = [e.calls EXCEPT ![r.role] = @ + 1]
          /\ k.converging = e.converging /\ k.status = e.status
      BY <2>1, RecordRow
    <2> QED BY <2>2, <2>3 DEF EngineRow
  <1> HIDE DEF n
  <1>2. Succeeded(e, r) =
          IF r.role \in ContinuityRoles
            THEN [n EXCEPT !.transition = r.state,
                           !.forward = \/ r.state \in {"transition_committed", "reconciled_committed"}
                                       \/ @ /\ r.state # "reconciled_not_committed",
                           !.converging = @ \/ r.state = "reconciled_not_committed"]
          ELSE IF r.role = "converge"
            THEN [n EXCEPT !.product = @ \/ e.scope # "infrastructure_only"]
          ELSE IF r.role = "recover"
            THEN [n EXCEPT !.product = FALSE, !.infra = @ /\ e.scope # "infrastructure_only"]
          ELSE IF r.role = "postflight"
            THEN [n EXCEPT !.status = IF e.converging THEN "converged" ELSE "accepted"]
          ELSE n
    BY DEF Succeeded, n
  <1>3. CASE r.role \in ContinuityRoles
    <2>1. r.state \in Outcomes[r.role] /\ r.state \in States
      BY <1>3 DEF Believable, Outcomes, ContinuityRoles, States
    <2>2. PICK f \in BOOLEAN, c \in BOOLEAN :
             /\ Succeeded(e, r) = [n EXCEPT !.transition = r.state, !.forward = f, !.converging = c]
             /\ n.converging => c
      <3> DEFINE f == \/ r.state \in {"transition_committed", "reconciled_committed"}
                      \/ n.forward /\ r.state # "reconciled_not_committed"
                 c == n.converging \/ r.state = "reconciled_not_committed"
      <3>1. f \in BOOLEAN /\ c \in BOOLEAN
        BY <1>1 DEF EngineRow
      <3>2. Succeeded(e, r) = [n EXCEPT !.transition = r.state, !.forward = f, !.converging = c]
        BY <1>1, <1>2, <1>3 DEF EngineRow
      <3> QED BY <3>1, <3>2
    <2> QED BY <1>1, <1>3, <2>1, <2>2 DEF EngineRow, ContinuityRoles
  <1>4. CASE r.role = "converge"
    <2>1. PICK b \in BOOLEAN : Succeeded(e, r) = [n EXCEPT !.product = b]
      BY <1>1, <1>2, <1>4 DEF EngineRow, ContinuityRoles
    <2> QED BY <1>1, <1>4, <2>1 DEF EngineRow, ContinuityRoles
  <1>5. CASE r.role = "recover"
    <2>1. PICK b \in BOOLEAN : Succeeded(e, r) = [n EXCEPT !.product = FALSE, !.infra = b]
      BY <1>1, <1>2, <1>5 DEF EngineRow, ContinuityRoles
    <2> QED BY <1>1, <1>5, <2>1 DEF EngineRow, ContinuityRoles
  <1>6. CASE r.role = "postflight"
    <2>1. PICK s \in {"converged", "accepted"} : Succeeded(e, r) = [n EXCEPT !.status = s]
      BY <1>2, <1>6 DEF ContinuityRoles
    <2> QED BY <1>1, <1>6, <2>1 DEF EngineRow, ContinuityRoles, Statuses, Running
  <1>7. CASE r.role \notin ContinuityRoles \cup {"converge", "recover", "postflight"}
    <2>1. Succeeded(e, r) = n
      BY <1>2, <1>7
    <2> QED BY <1>1, <1>7, <2>1
  <1> QED BY <1>3, <1>4, <1>5, <1>6, <1>7

\* The role after a convergence role, or after any role but a continuity role.
LEMMA PhaseSuccessors ==
  /\ \A x \in Roles \ (ContinuityRoles \cup {"postflight"}) : PhaseSuccessor[x] \in Roles
  /\ \A x \in {"converge", "recover"} : PhaseSuccessor[x] \in ConvergenceRoles
  /\ \A x \in Roles \ (ContinuityRoles \cup {"postflight"}) :
        /\ PhaseSuccessor[x] \in EarlyRoles \cup {"continuity_assessment"} => x \in EarlyRoles
        /\ PhaseSuccessor[x] # "continuity_transition"
  BY DEF PhaseSuccessor, Roles, ReadinessRoles, HardRoles, ContinuityRoles, ConvergenceRoles,
         EarlyRoles

\* The next role of a running engine: it follows an earlier one, and a converging
\* engine goes on to converge.
LEMMA NextRoles ==
  ASSUME NEW e, EngineSound(e), Running(e)
  PROVE  /\ NextRole(e) \in Roles
         /\ e.converging /\ e.role # "none" => NextRole(e) \in ConvergenceRoles
         /\ NextRole(e) \in EarlyRoles \cup {"continuity_assessment"} => e.role \in EarlyRoles
         /\ NextRole(e) = "continuity_transition" =>
               e.role = "continuity_assessment" /\ ~e.converging
  <1>1. CASE e.role = "none"
    BY <1>1 DEF NextRole, Roles, ReadinessRoles, EarlyRoles
  <1>2. CASE e.role # "none" /\ e.converging
    <2>1. CASE e.role \in {"converge", "recover"}
      BY <1>2, <2>1, PhaseSuccessors
         DEF NextRole, Roles, ConvergenceRoles, EarlyRoles, ReadinessRoles
    <2>2. CASE e.role \notin {"converge", "recover"}
      BY <1>2, <2>2 DEF NextRole, Roles, ConvergenceRoles, EarlyRoles, ReadinessRoles
    <2> QED BY <2>1, <2>2
  <1>3. CASE e.role \in ContinuityRoles /\ ~e.converging
    <2>1. NextRole(e) = ContinuitySuccessor[e.transition]
      BY <1>3 DEF NextRole, ContinuityRoles
    <2>2. e.transition \in Outcomes[e.role]
      BY <1>3 DEF EngineSound
    <2> QED
      BY <1>3, <2>1, <2>2
         DEF ContinuityRoles, Outcomes, ContinuitySuccessor, Roles, ReadinessRoles, HardRoles,
             ConvergenceRoles, EarlyRoles
  <1>4. CASE e.role \notin ContinuityRoles \cup {"none"} /\ ~e.converging
    <2>1. e.role \in Roles \ (ContinuityRoles \cup {"postflight"})
      BY <1>4 DEF EngineSound, EngineRow
    <2>2. NextRole(e) = PhaseSuccessor[e.role]
      BY <1>4 DEF NextRole
    <2> QED BY <1>4, <2>1, <2>2, PhaseSuccessors
  <1> QED BY <1>1, <1>2, <1>3, <1>4

\* A sound engine stays sound whatever result its next role leaves, provided the
\* engine it leaves is running only if it converges or knows its continuity state.
LEMMA NextEngineSound ==
  ASSUME NEW e, EngineSound(e), Running(e), NEW f \in EngineRow,
         f.role = NextRole(e), f.calls = [e.calls EXCEPT ![NextRole(e)] = @ + 1],
         e.converging => f.converging,
         Running(f) /\ ~f.converging /\ f.role \in ContinuityRoles =>
            f.transition \in Outcomes[f.role],
         Running(f) /\ f.role = "postflight" => f.converging
  PROVE  EngineSound(f)
  <1>1. PICK c \in [Roles -> Nat] : c = e.calls
    BY DEF EngineSound, EngineRow
  <1>2. /\ {"continuity_assessment", "continuity_transition"} \subseteq Roles
        /\ {"continuity_assessment", "continuity_transition"} \cap EarlyRoles = {}
    BY DEF Roles, ContinuityRoles, EarlyRoles, ReadinessRoles
  <1>3. ASSUME ~f.converging, f.role \in EarlyRoles
        PROVE  f.calls["continuity_assessment"] = 0 /\ f.calls["continuity_transition"] = 0
    <2>1. c["continuity_assessment"] = 0 /\ c["continuity_transition"] = 0
      BY <1>1, <1>3, NextRoles DEF EngineSound
    <2>2. f.calls = [c EXCEPT ![f.role] = @ + 1]
      BY <1>1
    <2> QED BY <1>2, <1>3, <2>1, <2>2
  <1>4. ASSUME ~f.converging, f.role = "continuity_assessment"
        PROVE  f.calls["continuity_transition"] = 0
    <2>1. c["continuity_transition"] = 0
      BY <1>1, <1>4, NextRoles DEF EngineSound
    <2>2. f.calls = [c EXCEPT ![f.role] = @ + 1]
      BY <1>1
    <2> QED BY <1>2, <1>4, <2>1, <2>2
  <1> QED BY <1>3, <1>4 DEF EngineSound

\* A sound engine stays sound under a result it accepts.
LEMMA AppliedSound ==
  ASSUME NEW e, EngineSound(e), NEW r \in ResultRow, Accepts(e, r)
  PROVE  EngineSound(Applied(e, r))
  <1>1. e \in EngineRow /\ Running(e) /\ r.role = NextRole(e)
    BY DEF EngineSound, Accepts
  <1>2. CASE r.ok
    <2>1. PICK f : f = Succeeded(e, r)
      OBVIOUS
    <2>2. Believable(e, r)
      BY <1>2 DEF Accepts
    <2>3. /\ f \in EngineRow /\ f.role = r.role /\ f.calls = [e.calls EXCEPT ![r.role] = @ + 1]
          /\ e.converging => f.converging
          /\ r.role \in ContinuityRoles => f.transition \in Outcomes[r.role]
          /\ r.role = "postflight" => ~Running(f)
      BY <1>1, <2>1, <2>2, SucceededRow
    <2>4. EngineSound(f)
      BY <1>1, <2>3, NextEngineSound
    <2> QED BY <1>2, <2>1, <2>4 DEF Applied
  <1>3. CASE ~r.ok
    <2>1. PICK f : f = Refused(e, r)
      OBVIOUS
    <2>2. /\ f \in EngineRow /\ f.role = r.role /\ f.calls = [e.calls EXCEPT ![r.role] = @ + 1]
          /\ e.converging => f.converging
          /\ Running(f) =>
                \/ f.converging
                \/ r.role = "continuity_transition" /\ f.transition = "transition_ambiguous"
      BY <1>1, <2>1, RefusedRow
    <2>3. "transition_ambiguous" \in Outcomes["continuity_transition"]
      BY DEF Outcomes
    <2>4. EngineSound(f)
      BY <1>1, <2>2, <2>3, NextEngineSound
    <2> QED BY <1>3, <2>1, <2>4 DEF Applied
  <1> QED BY <1>2, <1>3

\* A refusal is a result, and a running engine that is failed at its next role
\* accepts it as one.
LEMMA RefusalRow ==
  ASSUME NEW role \in Roles \cup {"none"}, NEW scope \in ResultScopes, NEW forward \in BOOLEAN
  PROVE  /\ Refusal(role, scope, forward) \in ResultRow
         /\ Refusal(role, scope, forward).role = role
         /\ ~Refusal(role, scope, forward).ok
  BY DEF Refusal, ResultRow, Restores

\* A failure told from the evidence keeps the engine sound.
LEMMA FailedSound ==
  ASSUME NEW e, EngineSound(e), Running(e), NEW proven \in ResultScopes
  PROVE  EngineSound(Failed(e, NextRole(e), proven))
  <1>1. NextRole(e) \in Roles
    BY NextRoles
  <1>2. PICK s \in ResultScopes :
           Failed(e, NextRole(e), proven) = Refused(e, Refusal(NextRole(e), s, TRUE))
    BY DEF Failed, ResultScopes
  <1>3. PICK r \in ResultRow : r = Refusal(NextRole(e), s, TRUE) /\ r.role = NextRole(e) /\ ~r.ok
    BY <1>1, RefusalRow
  <1>4. Accepts(e, r)
    BY <1>3 DEF Accepts
  <1>5. Applied(e, r) = Failed(e, NextRole(e), proven)
    BY <1>2, <1>3 DEF Applied
  <1> QED BY <1>4, <1>5, AppliedSound

\* So it does under what a recovery does to it.
LEMMA RecoveredSound ==
  ASSUME NEW e, EngineSound(e)
  PROVE  /\ EngineSound(Aborted(e))
         /\ EngineSound(Bound(e))
         /\ EngineSound(Reopened(e))
  <1>1. e \in EngineRow
    BY DEF EngineSound
  <1>2. EngineSound(Bound(e))
    <2>1. Bound(e) = [e EXCEPT !.infra = TRUE, !.scope = "infrastructure_only"]
      BY DEF Bound
    <2> QED BY <1>1, <2>1 DEF EngineSound, EngineRow, Running
  <1>3. EngineSound(Reopened(e))
    <2>1. Reopened(e) = [e EXCEPT !.status = "running", !.scope = "none", !.converging = TRUE]
      BY DEF Reopened
    <2> QED BY <1>1, <2>1 DEF EngineSound, EngineRow, Running, Statuses
  <1>4. EngineSound(Aborted(e))
    <2>1. \/ Aborted(e) = e
          \/ \E s \in {"none", "infrastructure_only"} :
                Aborted(e) = [e EXCEPT !.scope = s, !.converging = TRUE]
          \/ Aborted(e) = [e EXCEPT !.status = "premutation"]
      BY DEF Aborted
    <2>2. CASE Aborted(e) = e
      BY <2>2
    <2>3. ASSUME NEW s \in {"none", "infrastructure_only"},
                 Aborted(e) = [e EXCEPT !.scope = s, !.converging = TRUE]
          PROVE  EngineSound(Aborted(e))
      BY <1>1, <2>3 DEF EngineSound, EngineRow, Running
    <2>4. CASE Aborted(e) = [e EXCEPT !.status = "premutation"]
      BY <1>1, <2>4 DEF EngineSound, EngineRow, Running, Statuses
    <2> QED BY <2>1, <2>2, <2>3, <2>4
  <1> QED BY <1>2, <1>3, <1>4

\* The engine of a fresh sequence is sound.
LEMMA NewEngineSound == EngineSound(NewEngine)
  <1>1. {"continuity_assessment", "continuity_transition"} \subseteq Roles
    BY DEF Roles, ContinuityRoles
  <1>2. NewEngine \in EngineRow
    BY DEF NewEngine, EngineRow, Statuses
  <1> QED BY <1>1, <1>2 DEF NewEngine, EngineSound, Running, ContinuityRoles

--------------------------------------------------------------------------------
(* The operations of a role child. *)

\* The operations of a role are operations, written as a pair.
LEMMA OpsAreOps ==
  ASSUME NEW role \in Roles \cup {"none"}
  PROVE  /\ OpsOf(role) \subseteq OpNames \X Events
         /\ <<"check", "none">> \in OpsOf(role) /\ <<"verify_arm", "none">> \in OpsOf(role)
         /\ \A op \in OwnOps(role) : Do(op) \in OpsOf(role)
         /\ \A event \in OwnEvents(role) :
               <<"next", event>> \in OpsOf(role) /\ <<"rename", event>> \in OpsOf(role)
         /\ role \in OwnEvents(role)
  <1>1. OwnOps(role) \subseteq OpNames
    BY DEF OwnOps, OpNames
  <1>2. OwnEvents(role) \subseteq Events /\ role \in OwnEvents(role)
    BY DEF OwnEvents, Events
  <1>3. {"check", "verify_arm", "next", "rename"} \subseteq OpNames /\ "none" \in Events
    BY DEF OpNames, Events
  <1> QED BY <1>1, <1>2, <1>3 DEF OpsOf, Do

\* An event is written in two operations.
LEMMA AdvanceOps ==
  ASSUME NEW role \in Roles, NEW event \in OwnEvents(role)
  PROVE  /\ Advance(event) \in Seq(OpsOf(role))
         /\ Len(Advance(event)) = 2
         /\ Advance(event)[1] = <<"next", event>> /\ Advance(event)[2] = <<"rename", event>>
  <1>1. <<"next", event>> \in OpsOf(role) /\ <<"rename", event>> \in OpsOf(role)
    BY OpsAreOps
  <1> QED BY <1>1 DEF Advance

\* The two programs in full.
LEMMA ContinuityPrograms ==
  /\ Program("continuity_transition") =
        <<Do("verify_arm"), <<"next", Started>>, <<"rename", Started>>, Do("bind"), Do("transition")>>
  /\ Program("continuity_reconcile") =
        <<Do("verify_arm"), Do("read_binding"), Do("reconcile"),
          <<"next", "continuity_reconcile">>, <<"rename", "continuity_reconcile">>>>
  <1>1. /\ Program("continuity_transition") =
             <<Do("verify_arm")>> \o (Advance(Started) \o <<Do("bind"), Do("transition")>>)
        /\ Program("continuity_reconcile") =
             <<Do("verify_arm")>> \o (<<Do("read_binding"), Do("reconcile")>>
                                         \o Advance("continuity_reconcile"))
    BY DEF Program, Steps, Hazardous, ConvergenceRoles, ContinuityRoles, ReadinessRoles, Started
  <1> QED BY <1>1 DEF Advance

\* The operations that must not come first.
Followers ==
    {Do("transition"), Do("bind"), <<"next", "continuity_reconcile">>,
     <<"rename", "continuity_reconcile">>}

\* Only the children of the transition and of the reconcile have any of them, and
\* only that of converge restores the old time.
LEMMA FollowersOf ==
  ASSUME NEW role \in Roles \cup {"none"}
  PROVE  /\ role \notin {"continuity_transition", "continuity_reconcile"} =>
               OpsOf(role) \cap Followers = {}
         /\ role # "converge" => Do("restore_opaque") \notin OpsOf(role)
  BY DEF OpsOf, OwnOps, OwnEvents, Followers, Do

\* Without any of them there is nothing to follow.
LEMMA AdjacentFree ==
  ASSUME NEW S, S \cap Followers = {}, NEW s \in Seq(S)
  PROVE  Adjacent(s)
  <1>1. ASSUME NEW i \in 2..Len(s)
        PROVE  s[i] \notin Followers
    <2>1. i \in 1..Len(s)
      BY <1>1
    <2>2. s[i] \in S
      BY <2>1, ElementOfSeq
    <2> QED BY <2>2
  <1> QED BY <1>1 DEF Adjacent, Followers

\* A role starts with operations of its own; none of them restores the old time, and
\* what may only follow another operation does.
LEMMA ProgramSound ==
  ASSUME NEW role \in Roles
  PROVE  /\ Program(role) \in Seq(OpsOf(role))
         /\ \A i \in 1..Len(Program(role)) : Program(role)[i] # Do("restore_opaque")
         /\ Adjacent(Program(role))
         /\ Program(role) # <<>> => Program(role)[1] \notin Followers
  <1>1. PICK S : S = OpsOf(role)
    OBVIOUS
  <1>2. /\ Check \in S /\ Do("verify_arm") \in S
        /\ \A op \in OwnOps(role) : Do(op) \in S
        /\ \A event \in OwnEvents(role) : Advance(event) \in Seq(S)
        /\ role \in OwnEvents(role)
    BY <1>1, OpsAreOps, AdvanceOps DEF Check, Do
  <1>3. CASE role = "continuity_transition"
    <2>1. /\ <<"next", Started>> \in S /\ <<"rename", Started>> \in S
          /\ Do("bind") \in S /\ Do("transition") \in S
      BY <1>1, <1>3, OpsAreOps DEF OwnOps, OwnEvents
    <2>2. PICK p : p = Program(role)
      OBVIOUS
    <2>3. p = <<Do("verify_arm"), <<"next", Started>>, <<"rename", Started>>, Do("bind"),
                Do("transition")>>
      BY <1>3, <2>2, ContinuityPrograms
    <2>4. p \in Seq(S)
      BY <1>2, <2>1, <2>3
    <2>5. Adjacent(p)
      <3>1. ASSUME NEW i \in 2..Len(p)
            PROVE  i \in {2, 3, 4, 5}
        BY <2>3, <3>1
      <3> QED BY <2>3, <3>1 DEF Adjacent, Do, Started
    <2>6. p[1] \notin Followers /\ \A i \in 1..Len(p) : p[i] # Do("restore_opaque")
      BY <2>3 DEF Followers, Do
    <2> QED BY <1>1, <2>2, <2>4, <2>5, <2>6
  <1>4. CASE role = "continuity_reconcile"
    <2>1. /\ <<"next", role>> \in S /\ <<"rename", role>> \in S
          /\ Do("read_binding") \in S /\ Do("reconcile") \in S
      BY <1>1, <1>4, OpsAreOps DEF OwnOps, OwnEvents
    <2>2. PICK p : p = Program(role)
      OBVIOUS
    <2>3. p = <<Do("verify_arm"), Do("read_binding"), Do("reconcile"),
                <<"next", role>>, <<"rename", role>>>>
      BY <1>4, <2>2, ContinuityPrograms
    <2>4. p \in Seq(S)
      BY <1>2, <2>1, <2>3
    <2>5. Adjacent(p)
      <3>1. ASSUME NEW i \in 2..Len(p)
            PROVE  i \in {2, 3, 4, 5}
        BY <2>3, <3>1
      <3> QED BY <1>4, <2>3, <3>1 DEF Adjacent, Do, Started
    <2>6. p[1] \notin Followers /\ \A i \in 1..Len(p) : p[i] # Do("restore_opaque")
      BY <2>3 DEF Followers, Do
    <2> QED BY <1>1, <2>2, <2>4, <2>5, <2>6
  <1>5. CASE role = "converge"
    <2>1. \A op \in {"stop", "choose", "remove_arm", "remove_gate"} : Do(op) \in S
      BY <1>2, <1>5 DEF OwnOps
    <2>2. PICK p : p = Program(role)
      OBVIOUS
    <2>3. \/ p = <<Check, Do("remove_arm"), Do("remove_gate"), Check>>
          \/ p = <<Do("verify_arm"), Do("stop"), Do("choose")>>
      <3>1. \/ p = InfrastructureProgram["converge"]
            \/ p = <<Do("verify_arm")>> \o ConvergeProgram
        BY <1>5, <2>2
           DEF Program, Steps, Hazardous, ConvergenceRoles, ContinuityRoles, ReadinessRoles
      <3>2. InfrastructureProgram["converge"] = <<Check, Do("remove_arm"), Do("remove_gate"), Check>>
        BY DEF InfrastructureProgram
      <3> QED BY <3>1, <3>2 DEF ConvergeProgram
    <2>4. p \in Seq(S)
      <3>1. CASE p = <<Check, Do("remove_arm"), Do("remove_gate"), Check>>
        BY <1>2, <2>1, <3>1
      <3>2. CASE p = <<Do("verify_arm"), Do("stop"), Do("choose")>>
        BY <1>2, <2>1, <3>2
      <3> QED BY <2>3, <3>1, <3>2
    <2>5. Adjacent(p)
      BY <1>1, <1>5, <2>4, FollowersOf, AdjacentFree
    <2>6. p[1] \notin Followers /\ \A i \in 1..Len(p) : p[i] # Do("restore_opaque")
      BY <2>3 DEF Followers, Do, Check
    <2> QED BY <1>1, <2>2, <2>4, <2>5, <2>6
  <1>6. CASE role \notin ContinuityRoles \cup {"converge"} \/ role = "continuity_assessment"
    <2>0. /\ \A x \in S : <<x>> \in Seq(S)
          /\ \A x, y \in S : <<x, y>> \in Seq(S)
          /\ \A x, y, z \in S : <<x, y, z>> \in Seq(S)
      OBVIOUS
    <2>1. PICK p : p = Program(role)
      OBVIOUS
    <2>2. p \in Seq(S)
      <3>1. Steps(role) \in Seq(S)
        <4>1. PICK c \in Seq(S), a \in Seq(S) : c = <<Check>> /\ a = Advance(role)
          BY <1>2, <2>0
        <4>2. ASSUME NEW x \in Seq(S), NEW y \in Seq(S)
              PROVE  x \o y \in Seq(S)
          OBVIOUS
        <4>3. CASE role = "stop_socket"
          <5>1. PICK b \in Seq(S), d \in Seq(S) :
                   b = Advance("stop_socket_started") /\ d = <<Do("stop")>>
            <6>1. "stop" \in OwnOps(role) /\ "stop_socket_started" \in OwnEvents(role)
              BY <4>3 DEF OwnOps, OwnEvents
            <6> QED BY <1>2, <2>0, <6>1
          <5>2. Steps(role) = c \o b \o d \o a
            BY <4>1, <4>3, <5>1 DEF Steps, ReadinessRoles
          <5> QED BY <4>2, <5>2
        <4>4. CASE role = "postflight"
          <5>1. PICK b \in Seq(S) :
                   b = Advance(IF Happened("converge") THEN "convergence_postflight" ELSE role)
            BY <1>2, <4>4 DEF OwnEvents
          <5>2. Steps(role) = c \o b
            BY <4>1, <4>4, <5>1 DEF Steps, ReadinessRoles
          <5> QED BY <4>2, <5>2
        <4>5. CASE role \in ReadinessRoles \cup {"claim"}
          <5>1. Do("claim") \in S
            BY <1>2, <4>5 DEF OwnOps, ReadinessRoles
          <5> QED BY <1>2, <4>5, <5>1 DEF Steps, ReadinessRoles
        <4>6. CASE role = "continuity_assessment"
          <5>1. PICK b \in Seq(S) : b = <<Do("assess")>>
            <6>1. "assess" \in OwnOps(role)
              BY <4>6 DEF OwnOps
            <6> QED BY <1>2, <2>0, <6>1
          <5>2. Steps(role) = b \o a
            BY <4>1, <4>6, <5>1 DEF Steps, ReadinessRoles
          <5> QED BY <4>2, <5>2
        <4>7. CASE role \in {"recovery_install", "recovery_arm", "select", "stop_service",
                             "start_service", "start_socket"}
          <5>1. PICK b \in Seq(S) :
                   b = IF role = "recovery_install" THEN <<Check, Do("oblige"), Do("build")>>
                       ELSE IF role = "recovery_arm" THEN <<Check, Do("arm")>>
                       ELSE IF role = "select" THEN <<Check, Do("mix"), Do("select")>>
                       ELSE IF role = "stop_service" THEN <<Do("stop")>> ELSE <<Do("start")>>
            <6>1. \A op \in {"oblige", "build", "arm", "mix", "select", "stop", "start"} : Do(op) \in S
              BY <1>2, <4>7 DEF OwnOps
            <6> QED BY <1>2, <2>0, <6>1, <4>7
          <5>2. Steps(role) = b \o a
            BY <4>1, <4>7, <5>1 DEF Steps, ReadinessRoles
          <5> QED BY <4>2, <5>2
        <4>8. CASE role \in {"backup", "stage", "install", "accept_status", "recover"}
          <5>1. Steps(role) = c \o a
            BY <4>1, <4>8 DEF Steps, ReadinessRoles
          <5> QED BY <4>2, <5>1
        <4> QED
          BY <1>6, <4>3, <4>4, <4>5, <4>6, <4>7, <4>8
             DEF Roles, ReadinessRoles, HardRoles, ContinuityRoles, ConvergenceRoles
      <3>2. PICK t \in Seq(S) : t = Steps(role)
        BY <3>1
      <3>3. \/ p = t
            \/ p = <<Do("verify_arm")>> \o t
            \/ p = <<Check>>
        <4>1. InfrastructureProgram["recover"] = <<Check>> /\ InfrastructureProgram["postflight"] = <<Check>>
          BY DEF InfrastructureProgram
        <4>2. <<>> \o t = t
          OBVIOUS
        <4> QED BY <1>6, <2>1, <3>2, <4>1, <4>2 DEF Program, ConvergenceRoles, ContinuityRoles
      <3>4. <<Check>> \in Seq(S) /\ <<Do("verify_arm")>> \o t \in Seq(S)
        <4>1. PICK x \in Seq(S) : x = <<Do("verify_arm")>>
          BY <1>2, <2>0
        <4> QED BY <1>2, <2>0, <4>1
      <3> QED BY <3>2, <3>3, <3>4
    <2>3. /\ \A i \in 1..Len(p) : p[i] \in S
          /\ S \cap Followers = {} /\ Do("restore_opaque") \notin S
      BY <1>1, <1>6, <2>2, FollowersOf DEF ContinuityRoles
    <2>4. Adjacent(p)
      BY <2>2, <2>3, AdjacentFree
    <2> QED BY <1>1, <2>1, <2>2, <2>3, <2>4
  <1> QED BY <1>3, <1>4, <1>5, <1>6 DEF ContinuityRoles

--------------------------------------------------------------------------------
(* Types: what every record may hold. *)

\* The proved types imply those the run checks.
LEMMA TypeInvImpliesTypeOK == TypeInv => TypeOK
  BY DEF TypeInv, TypeOK, EngineTyped, EngineSound, EngineRow, Statuses, ChildrenTyped, ChildSound,
         ChildRow, HostTyped, ProcessesTyped

\* The steps, for the lemmas on who changes what.
USE DEF ActivationNext, RoleSteps, SupervisorSteps, SupervisorFaults, ManagerSteps,
        ManagerFaults, PreparePlan, StartRole, CallConsumed, TakeCapture, WriteTerminal,
        BeginRecovery, Keep, KeepEvidence, ReplayFailure, ReplayRejected, ReplayInterrupted,
        ReplayCapture, ReplayEnds, Resolve, PlanRejected, RoleNotStarted, ChildNotCreated,
        CaptureNotPersisted, TerminalNotPersisted, SupervisorDies, Switch, ManagerStarts,
        ForwardEnds, Discharge, IndexWritten, IndexRefused, CloseSettled, CloseRecovers,
        CloseRefused, RecoveryEnds, HardStopWritten, HardStopRefused, LastLook,
        ForwardCaptureLost, DischargeFails, IndexNotPersisted, HardStopNotPersisted, ManagerDies

\* Who changes what.
LEMMA HostFrame == ASSUME ActivationNext PROVE RoleSteps \/ UNCHANGED hostVars
  OBVIOUS

\* The steps that change the engine.
LEMMA EngineFrame ==
  ASSUME ActivationNext
  PROVE  \/ engine' = engine
         \/ PreparePlan \/ CallConsumed \/ RoleNotStarted \/ TakeCapture \/ CaptureNotPersisted
         \/ BeginRecovery \/ ReplayFailure \/ ReplayInterrupted \/ ReplayCapture \/ Resolve
  OBVIOUS

\* The steps that change a role child.
LEMMA ChildFrame ==
  ASSUME ActivationNext
  PROVE  \/ UNCHANGED <<child, orphan>>
         \/ RoleSteps \/ StartRole \/ TakeCapture \/ CaptureNotPersisted
         \/ SupervisorDies \/ Switch \/ ManagerDies
  BY DEF orphanVars

\* The steps that write an intent or a capture, or that launch a role.
LEMMA EvidenceFrame ==
  ASSUME ActivationNext
  PROVE  /\ intents' = intents \/ StartRole \/ RoleNotStarted \/ ChildNotCreated
         /\ captures' = captures \/ TakeCapture
         /\ launched' = launched \/ StartRole
  BY DEF evidenceVars, orphanVars

\* The supervisor waits for the child it has started.
LEMMA WaitingFrame ==
  ASSUME ActivationNext
  PROVE  /\ sup' = "waiting" => sup = "waiting" \/ StartRole
         /\ TakeCapture \/ CaptureNotPersisted => sup' = "drive"
  BY DEF Raised

HIDE DEF ActivationNext, RoleSteps, SupervisorSteps, SupervisorFaults, ManagerSteps,
         ManagerFaults, PreparePlan, StartRole, CallConsumed, TakeCapture, WriteTerminal,
         BeginRecovery, Keep, KeepEvidence, ReplayFailure, ReplayRejected, ReplayInterrupted,
         ReplayCapture, ReplayEnds, Resolve, PlanRejected, RoleNotStarted, ChildNotCreated,
         CaptureNotPersisted, TerminalNotPersisted, SupervisorDies, Switch, ManagerStarts,
         ForwardEnds, Discharge, IndexWritten, IndexRefused, CloseSettled, CloseRecovers,
         CloseRefused, RecoveryEnds, HardStopWritten, HardStopRefused, LastLook,
         ForwardCaptureLost, DischargeFails, IndexNotPersisted, HardStopNotPersisted,
         ManagerDies

\* The result of a child, and that of a child nobody heard of.
LEMMA ResultIsResult ==
  ASSUME ChildSound(child)
  PROVE  Result \in ResultRow /\ Unseen(child.role) \in ResultRow
  <1>1. child \in ChildRow
    BY DEF ChildSound
  <1>2. ResultScope \in ResultScopes
    BY DEF ResultScope, ResultScopes
  <1>3. Result \in ResultRow
    <2>1. CASE child.ends = "rejected"
      <3>1. child.role \in Roles \cup {"none"} /\ child.forward \in BOOLEAN
        BY <1>1 DEF ChildRow
      <3> QED BY <1>2, <2>1, <3>1, RefusalRow DEF Result
    <2>2. CASE child.ends # "rejected"
      BY <1>1, <1>2, <2>2 DEF Result, ChildRow, ResultRow
    <2> QED BY <2>1, <2>2
  <1>4. Unseen(child.role) \in ResultRow
    <2>1. PICK r \in ResultRow : r = Refusal(child.role, "none", FALSE)
      BY <1>1, RefusalRow DEF ChildRow, ResultScopes
    <2> QED BY <2>1 DEF Unseen, ResultRow
  <1> QED BY <1>3, <1>4

\* The next call of a running engine is a call, and failing it is sound.
LEMMA NextCallSound ==
  ASSUME EngineSound(engine), Running(engine)
  PROVE  /\ Role \in Roles /\ Key \in Roles \X Nat
         /\ Key[1] = Role /\ Key[2] = engine.calls[Role] + 1
         /\ EngineSound(FailedFromEvidence)
  <1>1. Role \in Roles
    BY NextRoles DEF Role
  <1>2. engine.calls[Role] \in Nat
    BY <1>1 DEF EngineSound, EngineRow
  <1>3. EngineSound(FailedFromEvidence)
    BY FailedSound DEF FailedFromEvidence, Role, ResultScopes
  <1> QED BY <1>1, <1>2, <1>3 DEF Key, NextCall, Role

\* What a recovery makes of a reconcile is sound.
LEMMA AfterRoleSound ==
  ASSUME NEW e, EngineSound(e)
  PROVE  EngineSound(AfterRole(e))
  BY RecoveredSound DEF AfterRole

\* What a capture of the next role makes of the engine.
LEMMA CaptureSound ==
  ASSUME EngineSound(engine), Running(engine), NEW r \in ResultRow
  PROVE  EngineSound(IF r.identity # "unseen" /\ Accepts(engine, r)
                       THEN Applied(engine, r) ELSE FailedFromEvidence)
  BY AppliedSound, NextCallSound

\* Every step keeps the engine sound.
LEMMA EngineStaysTyped ==
  ASSUME TypeInv, ActivationNext
  PROVE  EngineTyped'
  <1>1. EngineSound(engine) /\ (sup = "waiting" => Running(engine)) /\ ChildSound(child)
    BY DEF TypeInv, EngineTyped, ChildrenTyped
  <1>2. EngineSound(engine')
    <2>1. CASE engine' = engine
      BY <1>1, <2>1
    <2>2. CASE PreparePlan \/ BeginRecovery
      BY <2>2, NewEngineSound DEF PreparePlan, BeginRecovery
    <2>3. CASE CallConsumed \/ RoleNotStarted
      <3>1. Running(engine) /\ engine' = AfterRole(FailedFromEvidence)
        BY <2>3 DEF CallConsumed, RoleNotStarted, Driving
      <3> QED BY <1>1, <3>1, NextCallSound, AfterRoleSound
    <2>4. CASE TakeCapture
      <3>1. PICK f : /\ f = IF child.ends # "lost" /\ Accepts(engine, Result)
                              THEN Applied(engine, Result) ELSE FailedFromEvidence
                     /\ engine' = AfterRole(f)
        BY <2>4 DEF TakeCapture
      <3>2. Running(engine)
        BY <1>1, <2>4 DEF TakeCapture, Reported
      <3>3. EngineSound(f)
        BY <1>1, <3>1, <3>2, ResultIsResult, AppliedSound, NextCallSound
      <3> QED BY <3>1, <3>3, AfterRoleSound
    <2>5. CASE CaptureNotPersisted
      <3>1. Running(engine) /\ engine' = AfterRole(FailedFromEvidence)
        BY <1>1, <2>5 DEF CaptureNotPersisted, Reported
      <3> QED BY <1>1, <3>1, NextCallSound, AfterRoleSound
    <2>6. CASE ReplayFailure \/ ReplayInterrupted
      BY <1>1, <2>6, NextCallSound DEF ReplayFailure, ReplayInterrupted, Replaying
    <2>7. CASE ReplayCapture
      <3>1. PICK r \in ResultRow :
               engine' = IF r.identity # "unseen" /\ Accepts(engine, r)
                           THEN Applied(engine, r) ELSE FailedFromEvidence
        BY <2>7 DEF ReplayCapture, TypeInv, EvidenceTyped
      <3>2. Running(engine)
        BY <2>7 DEF ReplayCapture, Replaying
      <3> QED BY <1>1, <3>1, <3>2, CaptureSound
    <2>8. CASE Resolve
      <3>1. PICK bound, open :
               /\ bound = IF Running(engine) /\ ~engine.product /\ obligation
                            THEN Bound(engine) ELSE engine
               /\ open = IF mode = "forced" /\ bound.status = "accepted" THEN Reopened(bound) ELSE bound
               /\ engine' = IF Running(open) THEN Aborted(open) ELSE open
        BY <2>8 DEF Resolve
      <3>2. EngineSound(bound)
        BY <1>1, <3>1, RecoveredSound
      <3>3. EngineSound(open)
        BY <3>1, <3>2, RecoveredSound
      <3> QED BY <3>1, <3>3, RecoveredSound
    <2> QED BY <2>1, <2>2, <2>3, <2>4, <2>5, <2>6, <2>7, <2>8, EngineFrame
  <1>3. sup' = "waiting" => Running(engine')
    <2>1. CASE StartRole
      BY <2>1 DEF StartRole, Driving
    <2>2. ASSUME sup' = "waiting", ~StartRole
          PROVE  Running(engine')
      <3>1. sup = "waiting" /\ Running(engine)
        BY <1>1, <2>2, WaitingFrame
      <3>2. engine' = engine
        BY <2>2, <3>1, EngineFrame, WaitingFrame
           DEF PreparePlan, CallConsumed, RoleNotStarted, Driving, BeginRecovery, ReplayFailure,
               ReplayInterrupted, ReplayCapture, Replaying, Resolve
      <3> QED BY <3>1, <3>2
    <2> QED BY <2>1, <2>2
  <1> QED BY <1>2, <1>3 DEF EngineTyped

\* A child that has done its first operation, and one that has ended.
Gone(c, state) == [c EXCEPT !.state = state, !.todo = Tail(@)]
Ended(c, ends, d) ==
    \E forward \in BOOLEAN, product \in BOOLEAN :
        d = [c EXCEPT !.ends = ends, !.todo = <<>>, !.forward = forward, !.product = product]

\* A child that goes on has one operation less.
LEMMA ProceedSound ==
  ASSUME NEW c, ChildSound(c), c.todo # <<>>, NEW state \in States \cup {"none"}, NEW d,
         d = Gone(c, state)
  PROVE  /\ ChildSound(d) /\ d.role = c.role /\ d.state = state /\ d.ends = c.ends
         /\ Len(c.todo) \in Nat \ {0} /\ Len(d.todo) = Len(c.todo) - 1
         /\ \A i \in 1..Len(d.todo) : d.todo[i] = c.todo[i + 1] /\ i + 1 \in 1..Len(c.todo)
         /\ Head(c.todo) = c.todo[1] /\ c.todo[1] \in OpsOf(c.role)
  <1>1. PICK S, T : S = OpsOf(c.role) /\ T = OpNames \X Events
    OBVIOUS
  <1>2. PICK s : s = c.todo
    OBVIOUS
  <1>3. s \in Seq(S) /\ s \in Seq(T) /\ s # <<>> /\ c \in ChildRow
    BY <1>1, <1>2 DEF ChildSound, ChildRow
  <1>4. /\ Tail(s) \in Seq(S) /\ Tail(s) \in Seq(T)
        /\ Len(s) \in Nat \ {0} /\ Len(Tail(s)) = Len(s) - 1
        /\ Head(s) = s[1] /\ s[1] \in S
        /\ \A i \in 1..Len(Tail(s)) : Tail(s)[i] = s[i + 1] /\ i + 1 \in 1..Len(s)
    BY <1>3, HeadTailProperties, EmptySeq, LenProperties, ElementOfSeq
  <1>5. d = [c EXCEPT !.state = state, !.todo = Tail(s)]
    BY <1>2 DEF Gone
  <1>6. d \in ChildRow /\ d.role = c.role /\ d.state = state /\ d.todo = Tail(s) /\ d.ends = c.ends
    BY <1>1, <1>3, <1>4, <1>5 DEF ChildRow
  <1> QED BY <1>1, <1>2, <1>4, <1>6 DEF ChildSound

\* A child that has ended has none.
LEMMA DoneSound ==
  ASSUME NEW c, ChildSound(c), NEW ends \in {"success", "rejected", "lost"}, NEW d,
         Ended(c, ends, d)
  PROVE  ChildSound(d) /\ d.todo = <<>> /\ d.role = c.role /\ d.state = c.state /\ d.ends = ends
  <1>1. c \in ChildRow /\ <<>> \in Seq(OpNames \X Events) /\ <<>> \in Seq(OpsOf(c.role))
    BY DEF ChildSound
  <1>2. d \in ChildRow /\ d.todo = <<>> /\ d.role = c.role /\ d.state = c.state /\ d.ends = ends
    BY <1>1 DEF ChildRow, Ended
  <1> QED BY <1>1, <1>2 DEF ChildSound

\* The ways a role child moves.
ChildEnds(ends) == Ended(child, ends, child')
ChildGoes(state) == child.todo # <<>> /\ child' = Gone(child, state)

\* The two ways a child goes on.
LEMMA ProceedGoes ==
  ASSUME ChildSound(child), child.todo # <<>>
  PROVE  /\ Proceed => ChildGoes(child.state)
         /\ \A state : ProceedAs(state, Tail(child.todo)) => ChildGoes(state)
  BY DEF ChildSound, ChildRow, Proceed, ProceedAs, ChildGoes, Gone

\* The ways a step of the child changes it.
LEMMA ChildMoves ==
  ASSUME ChildSound(child), ChildStep \/ ChildFault
  PROVE  /\ child.ends = "no"
         /\ \/ ChildEnds("rejected") \/ ChildEnds("success") \/ ChildEnds("lost")
            \/ ChildGoes(child.state) \/ Assess \/ Transition \/ Reconcile
            \/ ChooseRestore
  <1>1. child \in ChildRow
    BY DEF ChildSound
  <1>2. CASE Looks \/ ClaimIncident \/ WriteNext \/ RenameNext \/ WriteObligation \/ MoveGate
             \/ MoveUnits \/ MovePublic \/ RestoreOpaque \/ WriteBinding
    <2>1. child.ends = "no" /\ child.todo # <<>> /\ Proceed
      BY <1>2 DEF Looks, ClaimIncident, WriteNext, RenameNext, WriteObligation, MoveGate, MoveUnits,
                  MovePublic, RestoreOpaque, WriteBinding, At
    <2>2. ChildGoes(child.state)
      BY <2>1, ProceedGoes
    <2> QED BY <2>1, <2>2
  <1>3. CASE ChooseRestore \/ Assess \/ Transition \/ Reconcile
    BY <1>3 DEF ChooseRestore, Assess, Transition, Reconcile, At
  <1>4. FlagsForward \in BOOLEAN /\ FlagsProduct \subseteq BOOLEAN
    BY DEF FlagsForward, FlagsProduct
  <1>5. CASE ChildRefused \/ ChildFails \/ UnitUnread
    <2>1. child.ends = "no" /\ \E forward \in BOOLEAN, product \in BOOLEAN : Refuses(forward, product)
      BY <1>4, <1>5 DEF ChildRefused, ChildFails, UnitUnread, At
    <2> QED BY <2>1 DEF Refuses, ChildEnds, Ended
  <1>6. CASE ChildSucceeds
    <2>1. child' = [child EXCEPT !.ends = "success", !.todo = <<>>, !.forward = child.forward,
                                 !.product = child.product]
      BY <1>1, <1>6 DEF ChildSucceeds, ChildRow
    <2> QED BY <1>1, <1>6, <2>1 DEF ChildSucceeds, ChildEnds, ChildRow, Ended
  <1>7. CASE ChildLost
    <2>1. child' = [child EXCEPT !.ends = "lost", !.todo = <<>>, !.forward = child.forward,
                                 !.product = child.product]
      BY <1>1, <1>7 DEF ChildLost, ChildRow
    <2> QED BY <1>1, <1>7, <2>1 DEF ChildLost, ChildEnds, ChildRow, Ended
  <1> QED BY <1>2, <1>3, <1>5, <1>6, <1>7 DEF ChildStep, ChildFault

\* The operations a converge goes on with once the units are down.
LEMMA RestoreSound ==
  /\ RestoreProgram \in Seq(OpsOf("converge"))
  /\ ForwardStatePossible =>
        \A i \in 1..Len(RestoreProgram) : RestoreProgram[i] # Do("restore_opaque")
  <1>1. PICK S : S = OpsOf("converge")
    OBVIOUS
  <1>2. /\ Do("mix") \in S /\ Do("restore") \in S /\ Do("restore_opaque") \in S /\ Do("start") \in S
        /\ <<"next", "converge">> \in S /\ <<"rename", "converge">> \in S
    BY <1>1 DEF OpsOf, OwnOps, OwnEvents, Do
  <1>3. ASSUME NEW T, {Do("mix"), Do("restore"), Do("start"), <<"next", "converge">>,
                       <<"rename", "converge">>} \subseteq T,
               ForwardStatePossible \/ Do("restore_opaque") \in T
        PROVE  RestoreProgram \in Seq(T)
    <2>1. PICK a \in Seq(T), b \in Seq(T), c \in Seq(T), d \in Seq(T) :
             /\ a = <<Do("mix"), Do("restore")>>
             /\ b = IF ForwardStatePossible THEN <<>> ELSE <<Do("restore_opaque")>>
             /\ c = <<Do("start")>> /\ d = Advance("converge")
      <3>1. /\ \A x \in T : <<x>> \in Seq(T)
            /\ \A x, y \in T : <<x, y>> \in Seq(T)
            /\ <<>> \in Seq(T)
        OBVIOUS
      <3> QED BY <1>3, <3>1 DEF Advance
    <2>2. RestoreProgram = a \o b \o c \o d
      BY <2>1 DEF RestoreProgram
    <2>3. \A x, y \in Seq(T) : x \o y \in Seq(T)
      OBVIOUS
    <2> QED BY <2>2, <2>3
  <1>4. ASSUME ForwardStatePossible, NEW i \in 1..Len(RestoreProgram)
        PROVE  RestoreProgram[i] # Do("restore_opaque")
    <2>1. PICK T : T = S \ {Do("restore_opaque")}
      OBVIOUS
    <2>2. {Do("mix"), Do("restore"), Do("start"), <<"next", "converge">>,
           <<"rename", "converge">>} \subseteq T
      BY <1>2, <2>1 DEF Do
    <2>3. RestoreProgram \in Seq(T)
      BY <1>3, <1>4, <2>2
    <2> QED BY <1>4, <2>1, <2>3, ElementOfSeq
  <1> QED BY <1>1, <1>2, <1>3, <1>4

\* Which role is at which operation.
LEMMA RoleAt ==
  ASSUME ChildSound(child)
  PROVE  /\ child.todo # <<>> => Head(child.todo) \in OpsOf(child.role) /\ Event \in Events
         /\ At("assess") => child.role = "continuity_assessment"
         /\ At("transition") => child.role = "continuity_transition" /\ Head(child.todo) = Do("transition")
         /\ At("reconcile") => child.role = "continuity_reconcile" /\ Head(child.todo) = Do("reconcile")
         /\ At("choose") \/ At("restore_opaque") => child.role = "converge"
  <1>1. child.role \in Roles \cup {"none"} /\ child.todo \in Seq(OpsOf(child.role))
    BY DEF ChildSound, ChildRow
  <1>2. SUFFICES ASSUME child.todo # <<>>, NEW h, h = Head(child.todo), h \in OpsOf(child.role)
                 PROVE  /\ h[2] \in Events
                        /\ h[1] = "assess" => child.role = "continuity_assessment"
                        /\ h[1] = "transition" =>
                              child.role = "continuity_transition" /\ h = Do("transition")
                        /\ h[1] = "reconcile" =>
                              child.role = "continuity_reconcile" /\ h = Do("reconcile")
                        /\ h[1] \in {"choose", "restore_opaque"} => child.role = "converge"
    <2>1. child.todo # <<>> => Head(child.todo) \in OpsOf(child.role)
      BY <1>1, HeadTailProperties
    <2> QED BY <2>1 DEF At, Event
  <1>3. h[2] \in Events
    <2>1. h \in OpNames \X Events
      BY <1>1, <1>2, OpsAreOps
    <2> QED BY <2>1
  <1>4. PICK o, v : h = <<o, v>>
    BY <1>2 DEF OpsOf
  <1>5. \/ o \in {"check", "verify_arm", "next", "rename"}
        \/ o \in OwnOps(child.role) /\ v = "none"
    BY <1>2, <1>4 DEF OpsOf
  <1> QED BY <1>1, <1>3, <1>4, <1>5 DEF OwnOps, Do

\* The child there is none of is sound.
LEMMA NoChildSound == ChildSound(NoChild)
  <1>1. <<>> \in Seq(OpNames \X Events) /\ <<>> \in Seq(OpsOf("none"))
    OBVIOUS
  <1> QED BY <1>1 DEF NoChild, ChildSound, ChildRow, Restores

\* So is a new one.
LEMMA NewChildSound ==
  ASSUME NEW role \in Roles
  PROVE  /\ ChildSound(NewChild(role))
         /\ NewChild(role).role = role /\ NewChild(role).todo = Program(role)
         /\ NewChild(role).ends = "no" /\ NewChild(role).state = "none"
  <1>1. Program(role) \in Seq(OpsOf(role)) /\ Program(role) \in Seq(OpNames \X Events)
    BY ProgramSound, OpsAreOps
  <1>2. PICK b \in BOOLEAN, s \in Restores, i \in {"predecessor", "target"} :
           NewChild(role) = [NoChild EXCEPT !.role = role, !.todo = Program(role), !.ends = "no",
                                            !.infra = b, !.restore = s, !.identity = i]
    BY DEF NewChild, Restores, InfrastructureOnly
  <1> QED BY <1>1, <1>2 DEF NoChild, ChildSound, ChildRow

\* The child after a step of its own.
LEMMA RoleStepChild ==
  ASSUME ChildSound(child), ChildStep \/ ChildFault
  PROVE  ChildSound(child') /\ child'.role = child.role
  <1>1. CASE \E ends \in {"rejected", "success", "lost"} : ChildEnds(ends)
    <2>1. PICK ends \in {"rejected", "success", "lost"} : ChildEnds(ends)
      BY <1>1
    <2>2. PICK d : d = child'
      OBVIOUS
    <2>3. ChildSound(d) /\ d.role = child.role
      BY <2>1, <2>2, DoneSound DEF ChildEnds
    <2> QED BY <2>2, <2>3
  <1>2. ASSUME NEW state \in States \cup {"none"}, ChildGoes(state)
        PROVE  ChildSound(child') /\ child'.role = child.role
    <2>1. PICK d : d = child'
      OBVIOUS
    <2>2. child.todo # <<>> /\ d = Gone(child, state)
      BY <1>2, <2>1 DEF ChildGoes
    <2>3. ChildSound(d) /\ d.role = child.role
      BY <2>2, ProceedSound
    <2> QED BY <2>1, <2>3
  <1>3. CASE ChildGoes(child.state)
    <2>1. child.state \in States \cup {"none"}
      BY DEF ChildSound, ChildRow
    <2> QED BY <1>2, <1>3, <2>1
  <1>4. CASE Assess \/ Reconcile
    <2>1. PICK state \in States : ProceedAs(state, Tail(child.todo)) /\ child.todo # <<>>
      <3>1. CASE Assess
        BY <3>1 DEF Assess, Outcomes, States, At
      <3>2. CASE Reconcile
        <4>1. {"reconciled_committed", "reconciled_not_committed"} \subseteq States
          BY DEF States
        <4> QED BY <3>2, <4>1 DEF Reconcile, At
      <3> QED BY <1>4, <3>1, <3>2
    <2>2. ChildGoes(state)
      BY <2>1, ProceedGoes
    <2> QED BY <1>2, <2>2
  <1>5. CASE ChooseRestore
    <2>1. child.role = "converge"
      BY <1>5, RoleAt DEF ChooseRestore
    <2>2. RestoreProgram \in Seq(OpsOf("converge")) /\ RestoreProgram \in Seq(OpNames \X Events)
      <3>1. OpsOf("converge") \subseteq OpNames \X Events
        BY OpsAreOps DEF Roles, ConvergenceRoles
      <3> QED BY <3>1, RestoreSound
    <2>3. PICK s \in Restores :
             child' = [child EXCEPT !.restore = s, !.todo = RestoreProgram]
      BY <1>5 DEF ChooseRestore, Restores
    <2> QED BY <2>1, <2>2, <2>3 DEF ChildSound, ChildRow
  <1>6. CASE Transition
    <2>1. child.role = "continuity_transition" /\ child \in ChildRow
      BY <1>6, RoleAt DEF Transition, ChildSound
    <2>2. PICK S : S = OpsOf("continuity_transition")
      OBVIOUS
    <2>3. Advance("continuity_transition") \in Seq(S) /\ Advance(Rejected) \o <<Do("refuse")>> \in Seq(S)
      <3>1. Advance("continuity_transition") \in Seq(S) /\ Advance(Rejected) \in Seq(S)
        BY <2>2, AdvanceOps DEF OwnEvents, Roles, ContinuityRoles
      <3>2. PICK a \in Seq(S), b \in Seq(S) : a = Advance(Rejected) /\ b = <<Do("refuse")>>
        <4>1. Do("refuse") \in S
          BY <2>2 DEF OpsOf, OwnOps, Do
        <4>2. <<Do("refuse")>> \in Seq(S)
          BY <4>1
        <4> QED BY <3>1, <4>2
      <3> QED BY <3>1, <3>2
    <2>4. S \subseteq OpNames \X Events
      BY <2>2, OpsAreOps DEF Roles, ContinuityRoles
    <2>5. PICK state \in States \cup {"none"}, more \in Seq(S) : ProceedAs(state, more)
      BY <1>6, <2>1, <2>3 DEF Transition, States, Rejected
    <2>6. child' = [child EXCEPT !.state = state, !.todo = more] /\ more \in Seq(OpNames \X Events)
      BY <2>4, <2>5 DEF ProceedAs
    <2> QED BY <2>1, <2>2, <2>5, <2>6 DEF ChildSound, ChildRow
  <1> QED BY <1>1, <1>3, <1>4, <1>5, <1>6, ChildMoves

\* Every step keeps the types of the host.
LEMMA HostStaysTyped ==
  ASSUME TypeInv, ActivationNext
  PROVE  HostTyped'
  <1>1. HostTyped /\ ChildSound(child) /\ child \in ChildRow
    BY DEF TypeInv, ChildrenTyped, ChildSound
  <1>2. CASE UNCHANGED hostVars
    BY <1>1, <1>2 DEF hostVars, HostTyped
  <1>3. CASE RenameNext
    <2>1. Event \in Events /\ child.state \in States \cup {"none"}
      BY <1>1, <1>3, RoleAt DEF RenameNext, At, ChildRow
    <2>2. Append(journal, Event) \in Seq(Events)
      BY <1>1, <2>1, AppendProperties DEF HostTyped
    <2>3. continuity' \in States \cup {"none"}
      BY <1>1, <1>3, <2>1 DEF RenameNext, HostTyped, States
    <2> QED BY <1>1, <1>3, <2>2, <2>3 DEF RenameNext, HostTyped
  <1>4. CASE ClaimIncident
    <2>1. <<"claim">> \in Seq(Events)
      BY DEF Events, Roles
    <2> QED BY <1>1, <1>4, <2>1 DEF ClaimIncident, HostTyped
  <1>5. CASE WriteNext \/ ChildFails
    <2>1. nextFile' \in BOOLEAN
      BY <1>1, <1>5 DEF WriteNext, ChildFails, HostTyped, At
    <2> QED BY <1>1, <1>5, <2>1 DEF WriteNext, ChildFails, HostTyped
  <1>6. CASE WriteObligation \/ MoveGate \/ MovePublic
    BY <1>1, <1>6 DEF WriteObligation, MoveGate, MovePublic, HostTyped
  <1>7. CASE MoveUnits \/ UnitUnread \/ RestoreOpaque \/ WriteBinding
    BY <1>1, <1>7 DEF MoveUnits, UnitUnread, RestoreOpaque, WriteBinding, HostTyped
  <1>8. CASE Transition
    <2>1. moved' \in BOOLEAN
      BY <1>1, <1>8 DEF Transition, HostTyped
    <2> QED BY <1>1, <1>8, <2>1 DEF Transition, HostTyped
  <1>9. CASE Looks \/ ChooseRestore \/ Assess \/ Reconcile \/ ChildRefused \/ ChildSucceeds \/ ChildLost
    <2>1. UNCHANGED hostVars
      BY <1>9 DEF Looks, ChooseRestore, Assess, Reconcile, ChildRefused, ChildSucceeds, ChildLost
    <2> QED BY <1>2, <2>1
  <1> QED
    BY <1>2, <1>3, <1>4, <1>5, <1>6, <1>7, <1>8, <1>9, HostFrame DEF RoleSteps, ChildStep, ChildFault

\* Every step keeps the types of both children.
LEMMA ChildrenStayTyped ==
  ASSUME TypeInv, ActivationNext
  PROVE  ChildrenTyped'
  <1>1. ChildSound(child) /\ ChildSound(orphan) /\ EngineSound(engine)
    BY DEF TypeInv, ChildrenTyped, EngineTyped
  <1>2. CASE UNCHANGED <<child, orphan>>
    BY <1>1, <1>2 DEF ChildrenTyped
  <1>3. CASE RoleSteps
    BY <1>1, <1>3, RoleStepChild DEF RoleSteps, orphanVars, ChildrenTyped
  <1>4. CASE StartRole
    <2>1. child' = NewChild(Role) /\ orphan' = orphan /\ Role \in Roles
      BY <1>1, <1>4, NextCallSound DEF StartRole, Driving, orphanVars
    <2> QED BY <1>1, <2>1, NewChildSound DEF ChildrenTyped
  <1>5. CASE TakeCapture \/ CaptureNotPersisted \/ SupervisorDies \/ ManagerDies
    <2>1. child' = NoChild /\ orphan' \in {orphan, child, NoChild}
      BY <1>5 DEF TakeCapture, CaptureNotPersisted, SupervisorDies, ManagerDies, orphanVars
    <2> QED BY <1>1, <2>1, NoChildSound DEF ChildrenTyped
  <1>6. CASE Switch
    BY <1>1, <1>6 DEF Switch, ChildrenTyped
  <1> QED BY <1>2, <1>3, <1>4, <1>5, <1>6, ChildFrame

\* Every step keeps the types of the evidence.
LEMMA EvidenceStaysTyped ==
  ASSUME TypeInv, ActivationNext
  PROVE  EvidenceTyped'
  <1>1. EvidenceTyped /\ EngineSound(engine) /\ (sup = "waiting" => Running(engine)) /\ ChildSound(child)
    BY DEF TypeInv, EngineTyped, ChildrenTyped
  <1>2. intents' \subseteq Roles \X Nat
    <2>1. CASE intents' = intents
      BY <1>1, <2>1 DEF EvidenceTyped
    <2>2. CASE StartRole \/ ChildNotCreated
      <3>1. Running(engine) /\ intents' = intents \cup {Key}
        BY <2>2 DEF StartRole, ChildNotCreated, Driving
      <3> QED BY <1>1, <3>1, NextCallSound DEF EvidenceTyped
    <2>3. CASE RoleNotStarted
      <3>1. Running(engine) /\ intents' \subseteq intents \cup {Key}
        BY <2>3 DEF RoleNotStarted, Driving
      <3> QED BY <1>1, <3>1, NextCallSound DEF EvidenceTyped
    <2> QED BY <2>1, <2>2, <2>3, EvidenceFrame
  <1>3. \A k \in DOMAIN captures' : captures'[k] \in ResultRow
    <2>1. CASE captures' = captures
      BY <1>1, <2>1 DEF EvidenceTyped
    <2>2. CASE TakeCapture
      <3>1. PICK r \in ResultRow : captures' = [k \in DOMAIN captures \cup {Key} |-> IF k # Key THEN captures[k] ELSE r]
        BY <1>1, <2>2, ResultIsResult DEF TakeCapture
      <3> QED BY <1>1, <3>1 DEF EvidenceTyped
    <2> QED BY <2>1, <2>2, EvidenceFrame
  <1> QED BY <1>2, <1>3 DEF EvidenceTyped

\* Faults and starts are only counted where the bound allows.
LEMMA CounterFrame ==
  ASSUME ActivationNext
  PROVE  /\ faults' = faults \/ (faults < MaxFaults /\ faults' = faults + 1)
         /\ starts' = starts \/ (manager = "off" /\ starts' = starts + 1 /\ manager' # "off")
         /\ manager' = "off" => starts' = starts /\ (manager = "off" \/ starts < 2)
         /\ orphansRun' = orphansRun /\ aside' \in {aside, ~aside}
  <1>1. CASE RoleSteps
    <2>1. faults' = faults \/ (faults < MaxFaults /\ faults' = faults + 1)
      BY <1>1 DEF RoleSteps, ChildStep, ChildFault, Looks, ClaimIncident, WriteNext, RenameNext,
                  WriteObligation, MoveGate, MoveUnits, MovePublic, ChooseRestore, RestoreOpaque,
                  Assess, WriteBinding, Transition, Reconcile, ChildRefused, ChildSucceeds,
                  ChildFails, UnitUnread, ChildLost
    <2> QED BY <1>1, <2>1 DEF RoleSteps, orphanVars, guardianVars
  <1>2. CASE SupervisorSteps
    BY <1>2 DEF SupervisorSteps, NoFault, orphanVars, guardianVars, PreparePlan, StartRole,
                CallConsumed, TakeCapture, WriteTerminal, BeginRecovery, KeepEvidence, Replaying,
                ReplayFailure, ReplayRejected, ReplayInterrupted, ReplayCapture, ReplayEnds, Resolve
  <1>3. CASE SupervisorFaults \/ Switch
    BY <1>3 DEF SupervisorFaults, Fault, NoFault, orphanVars, guardianVars, PlanRejected,
                RoleNotStarted, ChildNotCreated, CaptureNotPersisted, TerminalNotPersisted,
                SupervisorDies, Switch
  <1>4. CASE ManagerSteps
    <2>1. faults' = faults /\ orphansRun' = orphansRun /\ aside' = aside
      BY <1>4 DEF ManagerSteps, NoFault, Keep, orphanVars, Closing, ManagerStarts, ForwardEnds,
                  Discharge, IndexWritten, IndexRefused, CloseSettled, CloseRecovers, CloseRefused,
                  RecoveryEnds, HardStopWritten, HardStopRefused, LastLook
    <2>2. CASE ManagerStarts
      BY <2>1, <2>2 DEF ManagerStarts
    <2>3. CASE ForwardEnds \/ Discharge \/ IndexWritten \/ CloseSettled \/ CloseRecovers \/ HardStopWritten
      BY <2>1, <2>3 DEF ForwardEnds, Discharge, IndexWritten, CloseSettled, CloseRecovers,
                        HardStopWritten
    <2>4. CASE IndexRefused \/ CloseRefused \/ RecoveryEnds \/ HardStopRefused \/ LastLook
      BY <2>1, <2>4 DEF IndexRefused, CloseRefused, RecoveryEnds, HardStopRefused, LastLook, Lapse,
                        CloseRaises, IndexRaises
    <2> QED BY <1>4, <2>2, <2>3, <2>4 DEF ManagerSteps
  <1>5. CASE ManagerFaults
    <2>1. faults < MaxFaults /\ faults' = faults + 1 /\ orphansRun' = orphansRun /\ aside' = aside
      BY <1>5 DEF ManagerFaults, Fault, Keep, orphanVars, ForwardCaptureLost, DischargeFails,
                  IndexNotPersisted, HardStopNotPersisted, ManagerDies
    <2>2. starts' = starts /\ (manager' = "off" => starts < 2)
      BY <1>5 DEF ManagerFaults, ForwardCaptureLost, DischargeFails, IndexNotPersisted,
                  HardStopNotPersisted, ManagerDies, Lapse, CloseRaises, IndexRaises
    <2> QED BY <2>1, <2>2
  <1> QED BY <1>1, <1>2, <1>3, <1>4, <1>5 DEF ActivationNext

\* Every step keeps the counters in their bounds.
LEMMA ProcessesStayTyped ==
  ASSUME TypeInv, ActivationNext
  PROVE  ProcessesTyped'
  <1>1. starts \in 0..2 /\ faults \in 0..MaxFaults /\ (manager = "off" => starts < 2)
    BY DEF TypeInv, ProcessesTyped
  <1>2. faults' \in 0..MaxFaults
    BY <1>1, CounterFrame, MaxFaultsAssumption
  <1>3. starts' \in 0..2 /\ (manager' = "off" => starts' < 2)
    BY <1>1, CounterFrame
  <1>4. orphansRun' \in BOOLEAN /\ aside' \in BOOLEAN
    BY CounterFrame DEF TypeInv, ProcessesTyped
  <1> QED BY <1>2, <1>3, <1>4 DEF ProcessesTyped

\* The types hold at the start, at every step, and so always.
LEMMA TypeInvInit == ActivationInit => TypeInv
  <1> SUFFICES ASSUME ActivationInit PROVE TypeInv
    OBVIOUS
  <1>1. EngineTyped
    <2>1. engine = NewEngine /\ sup = "off"
      BY DEF ActivationInit
    <2> QED BY <2>1, NewEngineSound DEF EngineTyped
  <1>2. ChildrenTyped
    BY NoChildSound DEF ActivationInit, ChildrenTyped
  <1>3. HostTyped
    <2>1. <<>> \in Seq(Events)
      OBVIOUS
    <2> QED BY <2>1 DEF ActivationInit, HostInit, HostTyped
  <1>4. EvidenceTyped
    BY DEF ActivationInit, EvidenceTyped
  <1>5. ProcessesTyped
    <2>1. faults \in {MaxFaults - OrphanFaults, 0}
      BY DEF ActivationInit
    <2>2. faults \in 0..MaxFaults
      BY <2>1, MaxFaultsAssumption, OrphanFaultsAssumption
    <2>3. starts = 0 /\ orphansRun \in BOOLEAN /\ aside \in BOOLEAN
      BY DEF ActivationInit
    <2> QED BY <2>2, <2>3 DEF ProcessesTyped
  <1> QED BY <1>1, <1>2, <1>3, <1>4, <1>5 DEF TypeInv

\* Every step keeps the types.
LEMMA TypeInvStep == TypeInv /\ [ActivationNext]_vars => TypeInv'
  <1> SUFFICES ASSUME TypeInv, [ActivationNext]_vars PROVE TypeInv'
    OBVIOUS
  <1>1. CASE ActivationNext
    BY <1>1, EngineStaysTyped, ChildrenStayTyped, HostStaysTyped, EvidenceStaysTyped,
       ProcessesStayTyped DEF TypeInv
  <1>2. CASE UNCHANGED vars
    BY <1>2 DEF vars, hostVars, evidenceVars, orphanVars, guardianVars, TypeInv, EngineTyped,
                ChildrenTyped, HostTyped, EvidenceTyped, ProcessesTyped
  <1> QED BY <1>1, <1>2

\* The types hold always.
LEMMA AlwaysTypeInv == ActivationSpec => []TypeInv
  BY TypeInvInit, TypeInvStep, PTL DEF ActivationSpec

\* Every field keeps to its values, and the service manager never starts a third
\* guardian (p08_activation_engine_v1.py:47-65, p08_activation_contract_v1.py:787-795).
THEOREM ActivationTypeCorrect == ActivationSpec => []TypeOK
  BY AlwaysTypeInv, TypeInvImpliesTypeOK, PTL

--------------------------------------------------------------------------------
(* The trusted time is never taken back. *)

\* The steps, for the lemmas on who changes what.
USE DEF ActivationNext, RoleSteps, SupervisorSteps, SupervisorFaults, ManagerSteps,
        ManagerFaults, PreparePlan, StartRole, CallConsumed, TakeCapture, WriteTerminal,
        BeginRecovery, Keep, KeepEvidence, ReplayFailure, ReplayRejected, ReplayInterrupted,
        ReplayCapture, ReplayEnds, Resolve, PlanRejected, RoleNotStarted, ChildNotCreated,
        CaptureNotPersisted, TerminalNotPersisted, SupervisorDies, Switch, ManagerStarts,
        ForwardEnds, Discharge, IndexWritten, IndexRefused, CloseSettled, CloseRecovers,
        CloseRefused, RecoveryEnds, HardStopWritten, HardStopRefused, LastLook,
        ForwardCaptureLost, DischargeFails, IndexNotPersisted, HardStopNotPersisted, ManagerDies

\* Who moves the supervisor, and in which mode.
LEMMA IdleFrame ==
  ASSUME ActivationNext, manager = "off", sup = "off"
  PROVE  ManagerStarts \/ UNCHANGED <<manager, sup, intents>>
  BY DEF evidenceVars, guardianVars, Driving, Reported, Finished, Replaying, SupervisorOver,
         Closing

\* Where a supervisor that plans, recovers or drives forward comes from.
LEMMA SupervisorFrame ==
  ASSUME ActivationNext
  PROVE  /\ sup' = "planning" => intents' = intents /\ (sup = "planning" \/ (ManagerStarts /\ starts = 0))
         /\ sup' \in {"begin", "replay", "resolve"} =>
               (sup \in {"begin", "replay", "resolve"} /\ mode' = mode) \/ mode' # "forward"
         /\ mode' = "forward" /\ sup' \in {"drive", "waiting"} =>
               PreparePlan \/ (mode = "forward" /\ sup \in {"drive", "waiting", "resolve"})
  BY DEF evidenceVars, guardianVars, Driving, Reported, Finished, Replaying, SupervisorOver,
         Closing, Raised

\* What may happen while the supervisor drives.
LEMMA DrivenFrame ==
  ASSUME ActivationNext, sup \in {"drive", "waiting"}, sup' \in {"drive", "waiting"}
  PROVE  \/ StartRole \/ CallConsumed \/ RoleNotStarted \/ TakeCapture \/ CaptureNotPersisted
         \/ UNCHANGED <<sup, engine, intents>>
  BY DEF evidenceVars, guardianVars, SupervisorOver, Replaying, Raised

\* Without orphans there is never one.
LEMMA AloneStep ==
  ASSUME ActivationNext, ~orphansRun, Alone
  PROVE  Alone'
  BY DEF Alone, orphanVars

HIDE DEF ActivationNext, RoleSteps, SupervisorSteps, SupervisorFaults, ManagerSteps,
         ManagerFaults, PreparePlan, StartRole, CallConsumed, TakeCapture, WriteTerminal,
         BeginRecovery, Keep, KeepEvidence, ReplayFailure, ReplayRejected, ReplayInterrupted,
         ReplayCapture, ReplayEnds, Resolve, PlanRejected, RoleNotStarted, ChildNotCreated,
         CaptureNotPersisted, TerminalNotPersisted, SupervisorDies, Switch, ManagerStarts,
         ForwardEnds, Discharge, IndexWritten, IndexRefused, CloseSettled, CloseRecovers,
         CloseRefused, RecoveryEnds, HardStopWritten, HardStopRefused, LastLook,
         ForwardCaptureLost, DischargeFails, IndexNotPersisted, HardStopNotPersisted,
         ManagerDies

\* Who moves the trusted time, and who writes what the journal says of it.
LEMMA TimeFrame ==
  ASSUME ActivationNext
  PROVE  /\ moved' = moved \/ (RoleSteps /\ (RestoreOpaque \/ Transition))
         /\ continuity' = continuity \/ (RoleSteps /\ RenameNext)
  <1>1. CASE RoleSteps
    BY <1>1 DEF RoleSteps, ChildStep, ChildFault, hostVars, Looks, ClaimIncident, WriteNext,
                RenameNext, WriteObligation, MoveGate, MoveUnits, MovePublic, ChooseRestore,
                RestoreOpaque, Assess, WriteBinding, Transition, Reconcile, ChildRefused,
                ChildSucceeds, ChildFails, UnitUnread, ChildLost
  <1>2. CASE UNCHANGED hostVars
    BY <1>2 DEF hostVars
  <1> QED BY <1>1, <1>2, HostFrame
\* The engine counts the call of whatever result the supervisor lets it see.
LEMMA CallCounted ==
  ASSUME TypeInv, mode = "forward",
         CallConsumed \/ RoleNotStarted \/ TakeCapture \/ CaptureNotPersisted
  PROVE  engine'.calls = [engine.calls EXCEPT ![Role] = @ + 1]
  <1>1. EngineSound(engine) /\ engine \in EngineRow /\ ChildSound(child) /\ Running(engine)
    BY DEF TypeInv, EngineTyped, ChildrenTyped, EngineSound, CallConsumed, RoleNotStarted,
           TakeCapture, CaptureNotPersisted, Driving, Reported
  <1>2. Role \in Roles /\ Role = NextRole(engine)
    BY <1>1, NextCallSound DEF Role
  <1>3. \A r \in ResultRow : Accepts(engine, r) =>
           Applied(engine, r).calls = [engine.calls EXCEPT ![Role] = @ + 1]
    BY <1>1, <1>2, RefusedRow, SucceededRow DEF Applied, Accepts
  <1>4. FailedFromEvidence.calls = [engine.calls EXCEPT ![Role] = @ + 1]
    <2>1. PICK s \in ResultScopes : FailedFromEvidence = Refused(engine, Refusal(Role, s, TRUE))
      BY DEF FailedFromEvidence, Failed, ResultScopes
    <2>2. PICK r \in ResultRow : r = Refusal(Role, s, TRUE) /\ r.role = Role
      BY <1>2, RefusalRow
    <2>3. Refused(engine, r).calls = [engine.calls EXCEPT ![r.role] = @ + 1]
      BY <1>1, RefusedRow
    <2>4. r.role = Role /\ FailedFromEvidence = Refused(engine, r)
      BY <2>1, <2>2
    <2> QED BY <2>3, <2>4
  <1>5. \A e : AfterRole(e) = e
    BY DEF AfterRole
  <1>6. CASE CallConsumed \/ RoleNotStarted \/ CaptureNotPersisted
    BY <1>4, <1>5, <1>6 DEF CallConsumed, RoleNotStarted, CaptureNotPersisted
  <1>7. CASE TakeCapture
    <2>1. PICK f : /\ f = IF child.ends # "lost" /\ Accepts(engine, Result)
                            THEN Applied(engine, Result) ELSE FailedFromEvidence
                   /\ engine' = AfterRole(f)
      BY <1>7 DEF TakeCapture
    <2> QED BY <1>1, <1>3, <1>4, <1>5, <2>1, ResultIsResult
  <1> QED BY <1>6, <1>7

\* An intent stays, and only the call that is made next leaves a new one.
LEMMA IntentsStep ==
  ASSUME TypeInv, ActivationNext
  PROVE  /\ intents \subseteq intents' /\ intents' \subseteq intents \cup {Key}
         /\ StartRole \/ RoleNotStarted \/ ChildNotCreated => Key[1] = Role
         /\ StartRole => Key \in intents'
  <1>1. intents' = intents \/ StartRole \/ RoleNotStarted \/ ChildNotCreated
    BY EvidenceFrame
  <1>2. StartRole \/ RoleNotStarted \/ ChildNotCreated => EngineSound(engine) /\ Running(engine)
    BY DEF StartRole, RoleNotStarted, ChildNotCreated, Driving, TypeInv, EngineTyped
  <1>3. StartRole \/ RoleNotStarted \/ ChildNotCreated => Key[1] = Role
    BY <1>2, NextCallSound
  <1> QED BY <1>1, <1>3 DEF StartRole, RoleNotStarted, ChildNotCreated

\* The engine goes on counting the transition once it is called.
LEMMA CalledStaysKnown ==
  ASSUME TypeInv, TransitionKnown, ActivationNext, mode' = "forward", sup' \in {"drive", "waiting"},
         TransitionCalled'
  PROVE  \/ engine'.calls["continuity_transition"] > 0
         \/ sup' = "waiting" /\ Role' = "continuity_transition"
  <1>1. EngineSound(engine) /\ engine.calls \in [Roles -> Nat] /\ "continuity_transition" \in Roles
    BY DEF TypeInv, EngineTyped, EngineSound, EngineRow, Roles, ContinuityRoles
  <1>2. ~PreparePlan
    BY DEF PreparePlan, evidenceVars, TransitionKnown, TransitionCalled
  <1>3. mode = "forward" /\ sup \in {"drive", "waiting"}
    BY <1>2, SupervisorFrame DEF TransitionKnown
  <1>4. CASE StartRole
    <2>1. engine' = engine /\ sup = "drive" /\ sup' = "waiting"
      BY <1>4 DEF StartRole, Driving
    <2>2. Role' = Role
      BY <2>1 DEF Role
    <2>3. CASE Role = "continuity_transition"
      BY <2>1, <2>2, <2>3
    <2>4. CASE Role # "continuity_transition"
      <3>1. TransitionCalled
        BY <1>4, <2>4, IntentsStep DEF TransitionCalled
      <3> QED BY <1>3, <2>1, <3>1 DEF TransitionKnown
    <2> QED BY <2>3, <2>4
  <1>5. CASE UNCHANGED <<sup, engine, intents>>
    <2>1. Role' = Role
      BY <1>5 DEF Role
    <2> QED BY <1>3, <1>5, <2>1 DEF TransitionKnown, TransitionCalled
  <1>6. CASE CallConsumed \/ RoleNotStarted \/ TakeCapture \/ CaptureNotPersisted
    <2>1. engine'.calls = [engine.calls EXCEPT ![Role] = @ + 1]
      BY <1>3, <1>6, CallCounted
    <2>2. CASE Role = "continuity_transition"
      BY <1>1, <2>1, <2>2
    <2>3. CASE Role # "continuity_transition"
      <3>1. TransitionCalled
        <4>1. CASE RoleNotStarted
          BY <2>3, <4>1, IntentsStep DEF TransitionCalled
        <4>2. CASE ~RoleNotStarted
          <5>1. intents' = intents
            BY <1>6, <4>2, EvidenceFrame
               DEF CallConsumed, TakeCapture, CaptureNotPersisted
          <5> QED BY <5>1 DEF TransitionCalled
        <4> QED BY <4>1, <4>2
      <3>2. engine.calls["continuity_transition"] > 0
        BY <1>3, <2>3, <3>1 DEF TransitionKnown
      <3> QED BY <1>1, <2>1, <2>3, <3>2
    <2> QED BY <2>2, <2>3
  <1> QED BY <1>3, <1>4, <1>5, <1>6, DrivenFrame

\* Every step keeps what is known of the calls of the transition.
LEMMA TransitionStaysKnown ==
  ASSUME TypeInv, TransitionKnown, ActivationNext
  PROVE  TransitionKnown'
  <1>1. starts' = 0 => manager' = "off" /\ sup' = "off" /\ intents' = {}
    <2> SUFFICES ASSUME starts' = 0 PROVE manager' = "off" /\ sup' = "off" /\ intents' = {}
      OBVIOUS
    <2>1. starts \in 0..2
      BY DEF TypeInv, ProcessesTyped
    <2>2. starts = 0 /\ ~ManagerStarts
      BY <2>1, CounterFrame DEF ManagerStarts
    <2>3. manager = "off" /\ sup = "off" /\ intents = {}
      BY <2>2 DEF TransitionKnown
    <2> QED BY <2>2, <2>3, IdleFrame
  <1>2. sup' = "planning" => ~TransitionCalled'
    BY SupervisorFrame DEF TransitionKnown, TransitionCalled
  <1>3. sup' \in {"begin", "replay", "resolve"} => mode' # "forward"
    BY SupervisorFrame DEF TransitionKnown
  <1>4. moved' \/ TransitionChild' => TransitionCalled'
    <2>1. TransitionCalled => TransitionCalled'
      BY IntentsStep DEF TransitionCalled
    <2>2. ChildSound(child)
      BY DEF TypeInv, ChildrenTyped
    <2>3. moved' => moved \/ TransitionChild
      BY <2>2, TimeFrame, RoleAt DEF RestoreOpaque, Transition, TransitionChild
    <2>4. TransitionChild' => TransitionChild \/ TransitionCalled'
      <3>1. CASE RoleSteps
        BY <2>2, <3>1, RoleStepChild DEF RoleSteps, orphanVars, TransitionChild
      <3>2. CASE StartRole
        <4>1. child' = NewChild(Role) /\ orphan' = orphan /\ Role \in Roles
          BY <3>2, NextCallSound DEF StartRole, Driving, orphanVars, TypeInv, EngineTyped
        <4>2. child'.role = Role
          BY <4>1, NewChildSound
        <4>3. Role = "continuity_transition" => TransitionCalled'
          BY <3>2, IntentsStep DEF TransitionCalled
        <4> QED BY <4>1, <4>2, <4>3 DEF TransitionChild
      <3>3. CASE TakeCapture \/ CaptureNotPersisted \/ SupervisorDies \/ ManagerDies
        <4>1. child' = NoChild /\ orphan' \in {orphan, child, NoChild}
          BY <3>3 DEF TakeCapture, CaptureNotPersisted, SupervisorDies, ManagerDies, orphanVars
        <4>2. NoChild.role = "none"
          BY DEF NoChild
        <4> QED BY <4>1, <4>2 DEF TransitionChild
      <3>4. CASE Switch \/ UNCHANGED <<child, orphan>>
        BY <3>4 DEF Switch, TransitionChild
      <3> QED BY <3>1, <3>2, <3>3, <3>4, ChildFrame
    <2> QED BY <2>1, <2>3, <2>4 DEF TransitionKnown
  <1> QED BY <1>1, <1>2, <1>3, <1>4, CalledStaysKnown DEF TransitionKnown

\* The supervisor calls the assessment and the transition before any transition.
LEMMA CalledBeforeMoved ==
  ASSUME TypeInv, TransitionKnown, StartRole,
         Role \in {"continuity_assessment", "continuity_transition"}
  PROVE  ~moved
  <1>1. EngineSound(engine) /\ Running(engine) /\ sup = "drive"
    BY DEF TypeInv, EngineTyped, StartRole, Driving
  <1>2. mode = "forward"
    BY DEF StartRole, MayRun, ConvergenceRoles
  <1>3. engine.role \in EarlyRoles \cup {"continuity_assessment"} /\ ~engine.converging
    <2>1. /\ engine.converging /\ engine.role # "none" => Role \in ConvergenceRoles
          /\ Role = "continuity_assessment" => engine.role \in EarlyRoles
          /\ Role = "continuity_transition" => engine.role = "continuity_assessment"
      BY <1>1, NextRoles DEF Role
    <2>2. engine.role = "none" => Role = "construct"
      BY <1>1 DEF Role, NextRole
    <2> QED BY <2>1, <2>2 DEF ConvergenceRoles
  <1>4. ~(engine.calls["continuity_transition"] > 0)
    BY <1>1, <1>3 DEF EngineSound
  <1> QED BY <1>1, <1>2, <1>4 DEF TransitionKnown
\* An operation of a child is a name and an event.
LEMMA OpsArePairs ==
  ASSUME NEW role \in Roles \cup {"none"}, NEW op \in OpsOf(role)
  PROVE  /\ op = <<op[1], op[2]>>
         /\ op[1] \in {"next", "rename"} => op[2] \in OwnEvents(role)
         /\ op[1] \notin {"next", "rename"} => op[2] = "none" /\ op = Do(op[1])
         /\ op[2] = "continuity_transition" => role = "continuity_transition"
         /\ NotAfterCommit(op) =>
               role \in {"continuity_transition", "continuity_assessment"} \/ op = Do("restore_opaque")
  <1>1. PICK o, v : op = <<o, v>>
    BY DEF OpsOf
  <1>2. \/ o \in {"check", "verify_arm"} \cup OwnOps(role) /\ v = "none"
        \/ o \in {"next", "rename"} /\ v \in OwnEvents(role)
    BY <1>1 DEF OpsOf
  <1>3. OwnOps(role) \cap {"next", "rename"} = {}
    BY DEF OwnOps
  <1>4. "transition" \in OwnOps(role) => role = "continuity_transition"
    BY DEF OwnOps
  <1>5. v \in {Rejected, "continuity_assessment", "continuity_transition"} /\ v \in OwnEvents(role) =>
           role \in {"continuity_transition", "continuity_assessment"}
    BY DEF OwnEvents, Rejected, Started, Roles, ReadinessRoles, HardRoles, ContinuityRoles,
           ConvergenceRoles
  <1>6. v = "continuity_transition" /\ v \in OwnEvents(role) => role = "continuity_transition"
    BY DEF OwnEvents, Rejected, Started
  <1>7. op[1] = o /\ op[2] = v /\ op = <<op[1], op[2]>>
    BY <1>1
  <1>8. CASE o \in {"next", "rename"} /\ v \in OwnEvents(role)
    <2>1. op[1] \in {"next", "rename"} /\ op[2] \in OwnEvents(role)
      BY <1>7, <1>8
    <2>2. op \notin {Do("transition"), Do("restore_opaque")}
      BY <1>1, <1>8 DEF Do
    <2> QED BY <1>5, <1>6, <1>7, <1>8, <2>1, <2>2 DEF NotAfterCommit
  <1>9. CASE o \in {"check", "verify_arm"} \cup OwnOps(role) /\ v = "none"
    <2>1. op[1] \notin {"next", "rename"} /\ op[2] = "none" /\ op = Do(op[1])
      BY <1>1, <1>3, <1>7, <1>9 DEF Do
    <2>2. op = Do("transition") => o = "transition"
      BY <1>1 DEF Do
    <2> QED BY <1>4, <1>7, <1>9, <2>1, <2>2 DEF NotAfterCommit, Rejected
  <1> QED BY <1>2, <1>8, <1>9

\* A child that is done is honest, and so is one that has nothing to do with the
\* transition and does not restore the old time.
LEMMA DoneHonest ==
  ASSUME NEW c, c.todo = <<>>, NEW m, NEW k
  PROVE  Honest(c, m, k)
  <1>1. PICK s : s = c.todo
    OBVIOUS
  <1>2. s = <<>> /\ Len(s) = 0
    BY <1>1
  <1> QED BY <1>1, <1>2 DEF Honest, Adjacent

\* Honest is a child of no continuity role in which nothing needs the old time.
LEMMA FreeHonest ==
  ASSUME NEW c, ChildSound(c), c.role \notin {"continuity_transition", "continuity_reconcile"},
         NEW m, NEW k, \A i \in 1..Len(c.todo) : NotAfterCommit(c.todo[i]) => ~m
  PROVE  Honest(c, m, k)
  <1>1. c.role \in Roles \cup {"none"} /\ c.todo \in Seq(OpsOf(c.role))
    BY DEF ChildSound, ChildRow
  <1>2. OpsOf(c.role) \cap Followers = {}
    BY <1>1, FollowersOf
  <1>3. Adjacent(c.todo)
    BY <1>1, <1>2, AdjacentFree
  <1>4. \A i \in 1..Len(c.todo) : c.todo[i] \in OpsOf(c.role)
    BY <1>1, ElementOfSeq
  <1>5. ASSUME NEW i \in 1..Len(c.todo)
        PROVE  c.todo[i][2] # "continuity_transition"
    BY <1>1, <1>4, OpsArePairs
  <1>6. c.todo # <<>> => c.todo[1] \notin Followers
    <2>1. c.todo # <<>> => 1 \in 1..Len(c.todo)
      BY <1>1, EmptySeq, LenProperties
    <2> QED BY <1>2, <1>4, <2>1
  <1> QED BY <1>3, <1>5, <1>6 DEF Honest, Followers

\* What follows what survives the first operation.
LEMMA AdjacentTail ==
  ASSUME NEW s, NEW t, Adjacent(s), Len(s) \in Nat \ {0}, Len(t) = Len(s) - 1,
         \A i \in 1..Len(t) : t[i] = s[i + 1] /\ i + 1 \in 1..Len(s)
  PROVE  Adjacent(t)
  <1>1. ASSUME NEW i \in 2..Len(t)
        PROVE  t[i] = s[i + 1] /\ i + 1 \in 2..Len(s) /\ t[i - 1] = s[(i + 1) - 1]
    OBVIOUS
  <1> QED BY <1>1 DEF Adjacent

\* A child stays honest over an operation that tells it nothing.
LEMMA GoneHonest ==
  ASSUME NEW c, ChildSound(c), c.todo # <<>>, NEW m, NEW k, Honest(c, m, k),
         NEW d, d = Gone(c, c.state), NEW n, n => m, NEW l,
         c.todo[1] # Do("reconcile"),
         c.todo[1] = <<"rename", Started>> => l = "transition_ambiguous",
         c.todo[1] = Do("bind") => l = k
  PROVE  Honest(d, n, l)
  <1>1. c.state \in States \cup {"none"}
    BY DEF ChildSound, ChildRow
  <1>2. /\ d.state = c.state /\ Len(c.todo) \in Nat \ {0} /\ Len(d.todo) = Len(c.todo) - 1
        /\ \A i \in 1..Len(d.todo) : d.todo[i] = c.todo[i + 1] /\ i + 1 \in 1..Len(c.todo)
        /\ ChildSound(d)
    BY <1>1, ProceedSound
  <1>3. d.todo # <<>> => 1 \in 1..Len(d.todo) /\ d.todo[1] = c.todo[2] /\ 2 \in 2..Len(c.todo)
    <2>1. d.todo \in Seq(OpsOf(d.role))
      BY <1>2 DEF ChildSound
    <2>2. d.todo # <<>> => 1 \in 1..Len(d.todo)
      BY <2>1, EmptySeq, LenProperties
    <2> QED BY <1>2, <2>2
  <1>4. Adjacent(d.todo)
    <2>1. Adjacent(c.todo)
      BY DEF Honest
    <2> QED BY <1>2, <2>1, AdjacentTail
  <1>5. \A i \in 1..Len(d.todo) :
           /\ NotAfterCommit(d.todo[i]) => ~n
           /\ d.todo[i][2] = "continuity_transition" =>
                 d.state \in {"transition_committed", "transition_ambiguous"}
    BY <1>2 DEF Honest
  <1>6. ASSUME d.todo # <<>>
        PROVE  /\ d.todo[1] \in {Do("bind"), Do("transition")} => l = "transition_ambiguous"
               /\ d.todo[1] \in {<<"next", "continuity_reconcile">>,
                                 <<"rename", "continuity_reconcile">>} =>
                     d.state = "reconciled_committed" \/ (d.state = "reconciled_not_committed" /\ ~n)
    <2>1. PICK h, g : h = c.todo[1] /\ g = c.todo[2] /\ g = d.todo[1]
      BY <1>3, <1>6
    <2>2. /\ g = Do("transition") => h = Do("bind")
          /\ g = Do("bind") => h = <<"rename", Started>>
          /\ g = <<"next", "continuity_reconcile">> => h = Do("reconcile")
          /\ g = <<"rename", "continuity_reconcile">> => h = <<"next", "continuity_reconcile">>
      <3>1. Adjacent(c.todo) /\ 2 \in 2..Len(c.todo) /\ 2 - 1 = 1
        BY <1>3, <1>6 DEF Honest
      <3>2. /\ c.todo[2] = Do("transition") => c.todo[2 - 1] = Do("bind")
            /\ c.todo[2] = Do("bind") => c.todo[2 - 1] = <<"rename", Started>>
            /\ c.todo[2] = <<"next", "continuity_reconcile">> => c.todo[2 - 1] = Do("reconcile")
            /\ c.todo[2] = <<"rename", "continuity_reconcile">> =>
                  c.todo[2 - 1] = <<"next", "continuity_reconcile">>
        BY <3>1 DEF Adjacent
      <3> QED BY <2>1, <3>1, <3>2
    <2>3. /\ c.todo[1] \in {Do("bind"), Do("transition")} => k = "transition_ambiguous"
          /\ c.todo[1] \in {<<"next", "continuity_reconcile">>,
                            <<"rename", "continuity_reconcile">>} =>
                c.state = "reconciled_committed" \/ (c.state = "reconciled_not_committed" /\ ~m)
      BY DEF Honest
    <2> QED BY <1>2, <2>1, <2>2, <2>3
  <1> QED BY <1>4, <1>5, <1>6 DEF Honest
\* The child of a role starts honest: the assessment and the transition are only
\* called before there was a transition.
LEMMA NewChildHonest ==
  ASSUME NEW role \in Roles, NEW m, NEW k,
         role \in {"continuity_assessment", "continuity_transition"} => ~m
  PROVE  Honest(NewChild(role), m, k)
  <1>1. PICK c : c = NewChild(role)
    OBVIOUS
  <1>2. ChildSound(c) /\ c.role = role /\ c.todo = Program(role)
    BY <1>1, NewChildSound
  <1>3. /\ c.todo \in Seq(OpsOf(role)) /\ Adjacent(c.todo)
        /\ \A i \in 1..Len(c.todo) : c.todo[i] # Do("restore_opaque") /\ c.todo[i] \in OpsOf(role)
        /\ c.todo # <<>> => c.todo[1] \notin Followers
    BY <1>2, ProgramSound, ElementOfSeq
  <1>4. ASSUME NEW i \in 1..Len(c.todo)
        PROVE  NotAfterCommit(c.todo[i]) => ~m
    BY <1>3, OpsArePairs
  <1>5. \A i \in 1..Len(c.todo) : c.todo[i][2] # "continuity_transition"
    <2>1. CASE role = "continuity_transition"
      <3>1. PICK p : p = c.todo
        OBVIOUS
      <3>2. p = <<Do("verify_arm"), <<"next", Started>>, <<"rename", Started>>, Do("bind"),
                  Do("transition")>>
        BY <1>2, <2>1, <3>1, ContinuityPrograms
      <3>3. ASSUME NEW i \in 1..Len(p)
            PROVE  i \in {1, 2, 3, 4, 5}
        BY <3>2, <3>3
      <3>4. \A i \in 1..Len(p) : p[i][2] # "continuity_transition"
        BY <3>2, <3>3 DEF Do, Started
      <3> QED BY <3>1, <3>4
    <2>2. CASE role # "continuity_transition"
      BY <1>3, <2>2, OpsArePairs
    <2> QED BY <2>1, <2>2
  <1>6. Honest(c, m, k)
    BY <1>3, <1>4, <1>5 DEF Honest, Followers
  <1> QED BY <1>1, <1>6

\* The operation a child is at.
LEMMA HeadOp ==
  ASSUME ChildSound(child), child.todo # <<>>
  PROVE  /\ Head(child.todo) = child.todo[1] /\ child.todo[1] \in OpsOf(child.role)
         /\ 1 \in 1..Len(child.todo)
         /\ \A op \in {"rename", "next"} : At(op) => child.todo[1] = <<op, Event>>
         /\ \A op : At(op) /\ op \notin {"next", "rename"} => child.todo[1] = Do(op)
  <1>1. child.role \in Roles \cup {"none"} /\ child.todo \in Seq(OpsOf(child.role))
    BY DEF ChildSound, ChildRow
  <1>2. Head(child.todo) = child.todo[1] /\ 1 \in 1..Len(child.todo)
    BY <1>1, HeadTailProperties, EmptySeq, LenProperties
  <1>3. child.todo[1] \in OpsOf(child.role)
    BY <1>1, <1>2, ElementOfSeq
  <1>4. /\ child.todo[1] = <<child.todo[1][1], child.todo[1][2]>>
        /\ child.todo[1][1] \notin {"next", "rename"} => child.todo[1] = Do(child.todo[1][1])
    BY <1>1, <1>3, OpsArePairs
  <1> QED BY <1>2, <1>3, <1>4 DEF At, Event

\* The child that asks the provider learns whether the time was moved.
LEMMA ReconcileHonest ==
  ASSUME ChildSound(child), TodoHonest, Reconcile
  PROVE  TodoHonest'
  <1>1. PICK c, d, s : /\ c = child /\ d = child'
                       /\ s = IF moved THEN "reconciled_committed" ELSE "reconciled_not_committed"
    OBVIOUS
  <1>2. /\ c.role = "continuity_reconcile" /\ c.todo # <<>> /\ ChildSound(c)
        /\ c.todo[1] = Do("reconcile")
    BY <1>1, RoleAt, HeadOp DEF Reconcile, At
  <1>3. d = Gone(c, s) /\ s \in States
    BY <1>1, <1>2, ProceedGoes DEF Reconcile, ChildGoes, States
  <1>4. /\ ChildSound(d) /\ d.role = c.role /\ d.state = s
        /\ Len(c.todo) \in Nat \ {0} /\ Len(d.todo) = Len(c.todo) - 1
        /\ \A i \in 1..Len(d.todo) : d.todo[i] = c.todo[i + 1] /\ i + 1 \in 1..Len(c.todo)
    BY <1>2, <1>3, ProceedSound
  <1>5. d.todo \in Seq(OpsOf("continuity_reconcile")) /\ "continuity_reconcile" \in Roles
    BY <1>2, <1>4 DEF ChildSound, Roles, ContinuityRoles
  <1>6. \A i \in 1..Len(d.todo) : d.todo[i] \in OpsOf("continuity_reconcile")
    BY <1>5, ElementOfSeq
  <1>7. /\ Do("bind") \notin OpsOf("continuity_reconcile")
        /\ Do("transition") \notin OpsOf("continuity_reconcile")
        /\ Do("restore_opaque") \notin OpsOf("continuity_reconcile")
    BY DEF OpsOf, OwnOps, OwnEvents, Do
  <1>8. \A i \in 1..Len(d.todo) : ~NotAfterCommit(d.todo[i]) /\ d.todo[i][2] # "continuity_transition"
    BY <1>5, <1>6, <1>7, OpsArePairs
  <1>9. Adjacent(d.todo)
    <2>1. Adjacent(c.todo)
      BY <1>1 DEF TodoHonest, Honest
    <2> QED BY <1>4, <2>1, AdjacentTail
  <1>10. ASSUME d.todo # <<>>
         PROVE  d.todo[1] \notin {Do("bind"), Do("transition"), <<"rename", "continuity_reconcile">>}
    <2>1. 1 \in 1..Len(d.todo)
      BY <1>5, <1>10, EmptySeq, LenProperties
    <2>2. d.todo[1] = c.todo[2] /\ 2 \in 2..Len(c.todo)
      BY <1>4, <2>1
    <2>3. c.todo[2] = <<"rename", "continuity_reconcile">> => c.todo[2 - 1] = <<"next", "continuity_reconcile">>
      BY <1>1, <2>2 DEF TodoHonest, Honest, Adjacent
    <2>4. c.todo[2 - 1] = Do("reconcile") /\ Do("reconcile") # <<"next", "continuity_reconcile">>
      BY <1>2 DEF Do
    <2> QED BY <1>6, <1>7, <2>1, <2>2, <2>3, <2>4
  <1>11. moved' = moved /\ continuity' = continuity
    BY DEF Reconcile, hostVars
  <1>12. Honest(d, moved, continuity)
    BY <1>1, <1>4, <1>8, <1>9, <1>10 DEF Honest
  <1> QED BY <1>1, <1>11, <1>12 DEF TodoHonest
\* A child that calls the transition says afterwards what it knows of it.
LEMMA TransitionHonest ==
  ASSUME ChildSound(child), ChildSound(child'), TodoHonest, Transition
  PROVE  TodoHonest'
  <1>1. PICK c, d, m : c = child /\ d = child' /\ m = moved'
    OBVIOUS
  <1>2. c.todo # <<>> /\ c.todo[1] = Do("transition") /\ 1 \in 1..Len(c.todo)
    BY <1>1, HeadOp DEF Transition, At
  <1>3. ~moved
    BY <1>1, <1>2 DEF TodoHonest, Honest, NotAfterCommit
  <1>4. c.role = "continuity_transition" /\ c \in ChildRow
    BY <1>1, RoleAt DEF Transition, ChildSound
  <1>5. \/ \E state \in {"transition_committed", "transition_ambiguous"} :
              d = [c EXCEPT !.state = state, !.todo = Advance("continuity_transition")]
        \/ ~m /\ d = [c EXCEPT !.state = "none", !.todo = Advance(Rejected) \o <<Do("refuse")>>]
    BY <1>1, <1>3, <1>4 DEF Transition, ProceedAs, Rejected
  <1>6. CASE \E state \in {"transition_committed", "transition_ambiguous"} :
                d = [c EXCEPT !.state = state, !.todo = Advance("continuity_transition")]
    <2>1. PICK p : p = Advance("continuity_transition")
      OBVIOUS
    <2>2. /\ d.state \in {"transition_committed", "transition_ambiguous"} /\ d.todo = p
      BY <1>4, <1>6, <2>1 DEF ChildRow
    <2>3. p = <<<<"next", "continuity_transition">>, <<"rename", "continuity_transition">>>>
      BY <2>1 DEF Advance
    <2>4. Adjacent(p)
      BY <2>3 DEF Adjacent, Do, Started
    <2>5. \A i \in 1..Len(p) : ~NotAfterCommit(p[i])
      BY <2>3 DEF NotAfterCommit, Do, Rejected
    <2>6. p[1] \notin {Do("bind"), Do("transition"), <<"next", "continuity_reconcile">>,
                       <<"rename", "continuity_reconcile">>}
      BY <2>3 DEF Do
    <2>7. Honest(d, m, continuity')
      BY <2>2, <2>4, <2>5, <2>6 DEF Honest
    <2> QED BY <1>1, <2>7 DEF TodoHonest
  <1>7. CASE ~m /\ d = [c EXCEPT !.state = "none", !.todo = Advance(Rejected) \o <<Do("refuse")>>]
    <2>1. PICK p : p = Advance(Rejected) \o <<Do("refuse")>>
      OBVIOUS
    <2>2. d.todo = p
      BY <1>4, <1>7, <2>1 DEF ChildRow
    <2>3. /\ Len(p) = 3 /\ p[1] = <<"next", Rejected>> /\ p[2] = <<"rename", Rejected>>
          /\ p[3] = Do("refuse")
      <3>1. PICK a, b : a = Advance(Rejected) /\ b = <<Do("refuse")>> /\ p = a \o b
        BY <2>1
      <3>2. PICK S : S = {<<"next", Rejected>>, <<"rename", Rejected>>, Do("refuse")}
        OBVIOUS
      <3>3. a \in Seq(S) /\ b \in Seq(S) /\ Len(a) = 2 /\ Len(b) = 1
        BY <3>1, <3>2 DEF Advance
      <3>4. p[1] = a[1] /\ p[2] = a[2] /\ p[3] = b[1] /\ Len(p) = 3
        BY <3>1, <3>3, ConcatProperties
      <3> QED BY <3>1, <3>4 DEF Advance
    <2>4. \A i \in 2..Len(p) : i \in {2, 3}
      BY <2>3
    <2>5. Adjacent(p)
      BY <2>3, <2>4 DEF Adjacent, Do, Started, Rejected
    <2>6. \A i \in 1..Len(p) : i \in {1, 2, 3}
      BY <2>3
    <2>7. \A i \in 1..Len(p) : p[i][2] # "continuity_transition"
      BY <2>3, <2>6 DEF Do, Rejected
    <2>8. p[1] \notin {Do("bind"), Do("transition"), <<"next", "continuity_reconcile">>,
                       <<"rename", "continuity_reconcile">>}
      BY <2>3 DEF Do, Rejected
    <2>9. Honest(d, m, continuity')
      BY <1>7, <2>2, <2>5, <2>7, <2>8 DEF Honest
    <2> QED BY <1>1, <2>9 DEF TodoHonest
  <1> QED BY <1>5, <1>6, <1>7

\* A child stays honest over every step of its own.
LEMMA RoleStepHonest ==
  ASSUME TypeInv, TodoHonest, CommitRecorded, ChildStep \/ ChildFault
  PROVE  TodoHonest'
  <1>1. ChildSound(child) /\ ChildSound(child') /\ child'.role = child.role /\ moved \in BOOLEAN
    BY RoleStepChild DEF TypeInv, ChildrenTyped, HostTyped
  <1>2. PICK c, d, l, n : c = child /\ d = child' /\ l = continuity' /\ n = moved'
    OBVIOUS
  <1>3. SUFFICES Honest(d, n, l)
    BY <1>2 DEF TodoHonest
  <1>4. Honest(c, moved, continuity)
    BY <1>2 DEF TodoHonest
  <1>5. CASE Looks \/ ClaimIncident \/ WriteNext \/ RenameNext \/ WriteObligation \/ MoveGate
             \/ MoveUnits \/ MovePublic \/ RestoreOpaque \/ WriteBinding
    <2>1. c.todo # <<>> /\ Proceed /\ (n => moved)
      BY <1>2, <1>5
         DEF hostVars, Looks, ClaimIncident, WriteNext, RenameNext, WriteObligation, MoveGate,
             MoveUnits, MovePublic, RestoreOpaque, WriteBinding, At
    <2>2. d = Gone(c, c.state)
      BY <1>1, <1>2, <2>1, ProceedGoes DEF ChildGoes
    <2>3. c.todo[1][1] # "reconcile" /\ (c.todo[1][1] # "rename" => l = continuity)
      BY <1>1, <1>2, <1>5, <2>1, HeadOp
         DEF hostVars, Looks, ClaimIncident, WriteNext, RenameNext, WriteObligation, MoveGate,
             MoveUnits, MovePublic, RestoreOpaque, WriteBinding, At
    <2>4. c.todo[1] = <<"rename", Started>> => l = "transition_ambiguous"
      <3> SUFFICES ASSUME c.todo[1] = <<"rename", Started>> PROVE l = "transition_ambiguous"
        OBVIOUS
      <3>1. Head(c.todo) = <<"rename", Started>>
        BY <1>1, <1>2, <2>1, HeadOp
      <3>2. RenameNext /\ Event = Started
        BY <1>2, <1>5, <3>1
           DEF Event, Looks, ClaimIncident, WriteNext, RenameNext, WriteObligation, MoveGate,
               MoveUnits, MovePublic, RestoreOpaque, WriteBinding, At
      <3> QED BY <1>2, <3>2 DEF RenameNext, Started
    <2>5. c.todo[1] # Do("reconcile") /\ (c.todo[1] = Do("bind") => l = continuity)
      BY <2>3 DEF Do
    <2> QED BY <1>1, <1>2, <1>4, <2>1, <2>2, <2>4, <2>5, GoneHonest
  <1>6. CASE Assess
    <2>1. c.role = "continuity_assessment" /\ c.todo # <<>> /\ n = moved
      BY <1>1, <1>2, <1>6, RoleAt DEF Assess, At, hostVars
    <2>2. PICK state \in States : d = Gone(c, state)
      <3>1. PICK state \in States : ProceedAs(state, Tail(child.todo))
        BY <1>6 DEF Assess, Outcomes, States
      <3>2. ChildGoes(state)
        BY <1>1, <1>2, <2>1, <3>1, ProceedGoes
      <3> QED BY <1>2, <3>2 DEF ChildGoes
    <2>3. \A i \in 1..Len(d.todo) : d.todo[i] = c.todo[i + 1] /\ i + 1 \in 1..Len(c.todo)
      <3>1. ChildSound(c) /\ c.todo # <<>> /\ state \in States \cup {"none"}
        BY <1>1, <1>2, <2>1
      <3> QED BY <2>2, <3>1, ProceedSound
    <2>4. \A i \in 1..Len(d.todo) : NotAfterCommit(d.todo[i]) => ~n
      BY <1>4, <2>1, <2>3 DEF Honest
    <2> QED BY <1>1, <1>2, <2>1, <2>4, FreeHonest
  <1>7. CASE ChooseRestore
    <2>1. c.role = "converge" /\ n = moved /\ d.role = "converge"
      BY <1>1, <1>2, <1>7, RoleAt DEF ChooseRestore, hostVars
    <2>2. d.todo = RestoreProgram
      BY <1>1, <1>2, <1>7 DEF ChooseRestore, ChildSound, ChildRow
    <2>3. ASSUME NEW i \in 1..Len(d.todo)
          PROVE  NotAfterCommit(d.todo[i]) => ~n
      <3>1. d.todo[i] \in OpsOf("converge") /\ "converge" \in Roles
        BY <2>2, RestoreSound, ElementOfSeq DEF Roles, ConvergenceRoles
      <3>2. NotAfterCommit(d.todo[i]) => d.todo[i] = Do("restore_opaque")
        BY <3>1, OpsArePairs
      <3>3. d.todo[i] = Do("restore_opaque") => ~ForwardStatePossible
        BY <2>2, <2>3, RestoreSound
      <3> QED BY <2>1, <3>2, <3>3 DEF CommitRecorded
    <2> QED BY <1>1, <1>2, <2>1, <2>3, FreeHonest
  <1>8. CASE Reconcile
    BY <1>1, <1>2, <1>8, ReconcileHonest DEF TodoHonest
  <1>9. CASE Transition
    BY <1>1, <1>2, <1>9, TransitionHonest DEF TodoHonest
  <1>10. CASE ChildRefused \/ ChildFails \/ UnitUnread \/ ChildLost
    <2>1. d.todo = <<>>
      BY <1>1, <1>2, <1>10 DEF ChildRefused, ChildFails, UnitUnread, ChildLost, Refuses, ChildSound, ChildRow
    <2> QED BY <2>1, DoneHonest
  <1>11. CASE ChildSucceeds
    <2>1. d.todo = <<>>
      BY <1>1, <1>2, <1>11 DEF ChildSucceeds, ChildSound, ChildRow
    <2> QED BY <2>1, DoneHonest
  <1> QED BY <1>5, <1>6, <1>7, <1>8, <1>9, <1>10, <1>11 DEF ChildStep, ChildFault

\* The journal names a transition that was made: before it, when it is made and
\* whatever is written of it later.
LEMMA RoleStepRecorded ==
  ASSUME TypeInv, TodoHonest, CommitRecorded, ActivationNext
  PROVE  CommitRecorded'
  <1>1. ChildSound(child) /\ moved \in BOOLEAN
    BY DEF TypeInv, ChildrenTyped, HostTyped
  <1>2. CASE RenameNext
    <2>1. child.todo # <<>> /\ child.todo[1] = <<"rename", Event>> /\ 1 \in 1..Len(child.todo)
      BY <1>1, <1>2, HeadOp DEF RenameNext, At
    <2>2. /\ Event \in {Rejected, "continuity_assessment"} => ~moved
          /\ Event = "continuity_transition" => child.state \in {"transition_committed", "transition_ambiguous"}
      BY <2>1 DEF TodoHonest, Honest, NotAfterCommit
    <2>3. Event = "continuity_reconcile" => child.state = "reconciled_committed" \/ ~moved
      BY <2>1 DEF TodoHonest, Honest
    <2>4. moved' = moved
      BY <1>2 DEF RenameNext
    <2>5. moved /\ ForwardStatePossible => ForwardStatePossible'
      BY <1>2, <2>2, <2>3 DEF RenameNext, ForwardStatePossible, Rejected, ContinuityRoles
    <2> QED BY <2>4, <2>5 DEF CommitRecorded
  <1>3. CASE Transition
    <2>1. child.todo # <<>> /\ child.todo[1] = Do("transition")
      BY <1>1, <1>3, HeadOp DEF Transition, At
    <2>2. continuity = "transition_ambiguous"
      BY <2>1 DEF TodoHonest, Honest
    <2>3. continuity' = continuity
      BY <1>3 DEF Transition
    <2> QED BY <2>2, <2>3 DEF CommitRecorded, ForwardStatePossible
  <1>4. CASE RestoreOpaque
    BY <1>4 DEF RestoreOpaque, CommitRecorded
  <1>5. CASE moved' = moved /\ continuity' = continuity
    BY <1>5 DEF CommitRecorded, ForwardStatePossible
  <1> QED
    BY <1>2, <1>3, <1>4, <1>5, TimeFrame
\* The child the supervisor waits for stays honest, and no other has a turn.
LEMMA TodoStaysHonest ==
  ASSUME TypeInv, TransitionKnown, Alone, TodoHonest, CommitRecorded, ActivationNext
  PROVE  TodoHonest'
  <1>1. CASE RoleSteps
    BY <1>1, RoleStepHonest DEF RoleSteps
  <1>2. CASE UNCHANGED hostVars /\ UNCHANGED <<child, orphan>>
    BY <1>2 DEF hostVars, TodoHonest
  <1>3. CASE StartRole
    <2>0. PICK m, k : m = moved' /\ k = continuity'
      OBVIOUS
    <2>1. PICK role \in Roles : role = Role
      BY <1>3, NextCallSound DEF StartRole, Driving, TypeInv, EngineTyped
    <2>2. child' = NewChild(role) /\ m = moved
      BY <1>3, <2>0, <2>1 DEF StartRole, hostVars
    <2>3. role \in {"continuity_assessment", "continuity_transition"} => ~m
      BY <1>3, <2>1, <2>2, CalledBeforeMoved
    <2>4. Honest(NewChild(role), m, k)
      BY <2>3, NewChildHonest
    <2> QED BY <2>0, <2>2, <2>4 DEF TodoHonest
  <1>4. CASE TakeCapture \/ CaptureNotPersisted \/ SupervisorDies \/ ManagerDies
    <2>1. child' = NoChild
      BY <1>4 DEF TakeCapture, CaptureNotPersisted, SupervisorDies, ManagerDies
    <2>2. PICK d, m, k : d = child' /\ m = moved' /\ k = continuity'
      OBVIOUS
    <2>3. d.todo = <<>>
      BY <2>1, <2>2 DEF NoChild
    <2> QED BY <2>2, <2>3, DoneHonest DEF TodoHonest
  <1>5. CASE Switch
    BY <1>5 DEF Switch, Alone
  <1> QED BY <1>1, <1>2, <1>3, <1>4, <1>5, ChildFrame, HostFrame

\* A step that takes the trusted time back is not taken.
LEMMA TimeStays ==
  ASSUME TypeInv, TodoHonest, ActivationNext, moved
  PROVE  moved'
  <1>1. ChildSound(child)
    BY DEF TypeInv, ChildrenTyped
  <1>2. ~RestoreOpaque /\ ~Transition
    <2>1. ASSUME NEW op \in {"restore_opaque", "transition"}, At(op)
          PROVE  FALSE
      <3>1. child.todo[1] = Do(op) /\ 1 \in 1..Len(child.todo)
        BY <1>1, <2>1, HeadOp DEF At
      <3>2. NotAfterCommit(child.todo[1])
        BY <3>1 DEF NotAfterCommit
      <3> QED BY <3>1, <3>2 DEF TodoHonest, Honest
    <2> QED BY <2>1 DEF RestoreOpaque, Transition
  <1> QED BY <1>2, TimeFrame

\* What is known of the trusted time holds at the start.
LEMMA TimeInvInit == ActivationInit => TimeInv
  <1> SUFFICES ASSUME ActivationInit PROVE TimeInv
    OBVIOUS
  <1>1. /\ child = NoChild /\ orphan = NoChild /\ aside = FALSE /\ moved = FALSE
        /\ sup = "off" /\ manager = "off" /\ intents = {}
    BY DEF ActivationInit, HostInit
  <1>2. NoChild.role = "none" /\ NoChild.todo = <<>>
    BY DEF NoChild
  <1>3. TransitionKnown
    BY <1>1, <1>2 DEF TransitionKnown, TransitionChild
  <1>4. Honest(child, moved, continuity)
    BY <1>1, <1>2, DoneHonest
  <1> QED BY <1>1, <1>3, <1>4 DEF TimeInv, Alone, TodoHonest, CommitRecorded

\* Every step keeps what is known of the trusted time.
LEMMA TimeInvStep == TypeInv /\ TimeInv /\ [ActivationNext]_vars => TimeInv'
  <1> SUFFICES ASSUME TypeInv, TimeInv, [ActivationNext]_vars PROVE TimeInv'
    OBVIOUS
  <1>1. CASE ActivationNext
    <2>1. orphansRun' = orphansRun
      BY <1>1, CounterFrame
    <2>2. TransitionKnown'
      BY <1>1, TransitionStaysKnown DEF TimeInv
    <2>3. CASE orphansRun
      BY <2>1, <2>2, <2>3 DEF TimeInv
    <2>4. CASE ~orphansRun
      <3>1. TransitionKnown /\ Alone /\ TodoHonest /\ CommitRecorded
        BY <2>4 DEF TimeInv
      <3> QED BY <1>1, <2>2, <2>4, <3>1, AloneStep, TodoStaysHonest, RoleStepRecorded DEF TimeInv
    <2> QED BY <2>3, <2>4
  <1>2. CASE UNCHANGED vars
    <2>1. UNCHANGED <<child, orphan, aside, moved, continuity, engine, sup, mode, intents, manager,
                      starts, orphansRun>>
      BY <1>2 DEF vars, hostVars, evidenceVars, orphanVars, guardianVars
    <2> QED
      BY <2>1 DEF TimeInv, TransitionKnown, TransitionCalled, TransitionChild, Role, Alone,
                  TodoHonest, CommitRecorded, ForwardStatePossible
  <1> QED BY <1>1, <1>2

\* Without orphans, once the provider committed the forward transition no path --
\* reconcile, lost result, second generation -- restores the old trusted-time
\* history, however many faults there are
\* (p08_activation_production_adapter_v1.py:6390-6413).
THEOREM CommittedTimeStays == ActivationSpec => TimeNeverRewound
  <1>1. TypeInv /\ TimeInv /\ [ActivationNext]_vars => [~orphansRun /\ moved => moved']_vars
    <2> SUFFICES ASSUME TypeInv, TimeInv, [ActivationNext]_vars
                 PROVE  [~orphansRun /\ moved => moved']_vars
      OBVIOUS
    <2>1. CASE ActivationNext
      BY <2>1, TimeStays DEF TimeInv
    <2>2. CASE UNCHANGED vars
      BY <2>2
    <2> QED BY <2>1, <2>2
  <1> QED BY <1>1, AlwaysTypeInv, TimeInvInit, TimeInvStep, PTL DEF ActivationSpec, TimeNeverRewound
--------------------------------------------------------------------------------
(* What the terminals and the strategy index say is true.  The engine first: *)
(* what its fields tell of the calls it has been through.                   *)

\* What a success of the installation and of a converge say of what they did.
TrueScope(r) ==
    r.ok => /\ r.role = "recovery_install" => r.scope = "recovery_infrastructure"
            /\ r.role = "converge" /\ r.restore = "infrastructure_only" => r.scope # "product"

\* The fields of an engine that was given a result.
LEMMA RecordFields ==
  ASSUME NEW e \in EngineRow, NEW r \in ResultRow
  PROVE  /\ Record(e, r) \in EngineRow /\ Record(e, r).role = r.role
         /\ Record(e, r).calls = [e.calls EXCEPT ![r.role] = @ + 1]
         /\ Record(e, r).status = e.status /\ Record(e, r).converging = e.converging
         /\ Record(e, r).transition = e.transition /\ Record(e, r).claimed = e.claimed
         /\ Record(e, r).scope = e.scope /\ Record(e, r).forward = e.forward
         /\ Record(e, r).product <=> (e.product \/ r.scope = "product")
         /\ Record(e, r).infra <=> (e.infra \/ r.scope = "recovery_infrastructure")
  <1>1. Record(e, r) \in EngineRow
    BY RecordRow
  <1>2. r.scope \in ResultScopes
    BY DEF ResultRow
  <1>3. /\ r.scope \in ProductScopes <=> r.scope = "product"
        /\ r.scope \in InfraScopes <=> r.scope = "recovery_infrastructure"
    BY <1>2 DEF ResultScopes, ProductScopes, InfraScopes
  <1>4. PICK c \in [Roles -> Nat], p \in BOOLEAN, i \in BOOLEAN :
           /\ Record(e, r) = [e EXCEPT !.role = r.role, !.calls = c, !.product = p, !.infra = i]
           /\ c = [e.calls EXCEPT ![r.role] = @ + 1]
           /\ p <=> (e.product \/ r.scope \in ProductScopes)
           /\ i <=> (e.infra \/ r.scope \in InfraScopes)
    <2> DEFINE p == e.product \/ r.scope \in ProductScopes
               i == e.infra \/ r.scope \in InfraScopes
    <2>1. p \in BOOLEAN /\ i \in BOOLEAN
      BY DEF EngineRow
    <2>2. Record(e, r) = [e EXCEPT !.role = r.role, !.calls = [e.calls EXCEPT ![r.role] = @ + 1],
                                   !.product = p, !.infra = i]
      BY DEF Record, EngineRow
    <2>3. [e.calls EXCEPT ![r.role] = @ + 1] \in [Roles -> Nat]
      BY <1>1, RecordRow DEF EngineRow
    <2> QED BY <2>1, <2>2, <2>3
  <1> QED BY <1>1, <1>3, <1>4 DEF EngineRow

\* The fields of an engine after a refusal, by the branch that is taken.
LEMMA RefusedFields ==
  ASSUME NEW e \in EngineRow, NEW r \in ResultRow, NEW f, f = Refused(e, r)
  PROVE  /\ f \in EngineRow /\ f.role = r.role /\ f.calls = [e.calls EXCEPT ![r.role] = @ + 1]
         /\ f.claimed = e.claimed
         /\ f.product <=> (e.product \/ r.scope = "product")
         /\ f.infra <=> (e.infra \/ r.scope = "recovery_infrastructure")
         /\ \/ /\ r.role = "continuity_transition" /\ r.forward
               /\ f.status = e.status /\ f.converging = e.converging /\ f.scope = e.scope
               /\ f.transition = "transition_ambiguous"
            \/ /\ e.converging /\ r.role \in ConvergenceRoles
               /\ f.status = "convergence_failed" /\ f.converging
               /\ f.scope = e.scope /\ f.transition = e.transition
            \/ /\ f.product \/ f.infra
               /\ r.role \in FailureToConverge /\ ~(e.converging /\ r.role \in ConvergenceRoles)
               /\ f.status = e.status /\ f.converging
               /\ f.scope = IF f.infra /\ ~f.product THEN "infrastructure_only" ELSE e.scope
               /\ f.transition = e.transition
            \/ /\ ~(e.converging /\ r.role \in ConvergenceRoles)
               /\ ~((f.product \/ f.infra) /\ r.role \in FailureToConverge)
               /\ f.status = "premutation" /\ f.converging = e.converging
               /\ f.scope = e.scope /\ f.transition = e.transition
  <1> DEFINE told == r.role \in {"continuity_transition", "continuity_reconcile"}
             n == [Record(e, r) EXCEPT !.forward = IF told THEN r.forward ELSE @]
  <1>1. /\ n \in EngineRow /\ n.role = r.role /\ n.calls = [e.calls EXCEPT ![r.role] = @ + 1]
        /\ n.status = e.status /\ n.converging = e.converging /\ n.transition = e.transition
        /\ n.claimed = e.claimed /\ n.scope = e.scope
        /\ n.product <=> (e.product \/ r.scope = "product")
        /\ n.infra <=> (e.infra \/ r.scope = "recovery_infrastructure")
    <2>1. PICK k \in EngineRow : k = Record(e, r)
      BY RecordFields
    <2>2. PICK b \in BOOLEAN : n = [k EXCEPT !.forward = b]
      BY <2>1 DEF EngineRow, ResultRow
    <2>3. /\ k.role = r.role /\ k.calls = [e.calls EXCEPT ![r.role] = @ + 1]
          /\ k.status = e.status /\ k.converging = e.converging /\ k.transition = e.transition
          /\ k.claimed = e.claimed /\ k.scope = e.scope
          /\ k.product <=> (e.product \/ r.scope = "product")
          /\ k.infra <=> (e.infra \/ r.scope = "recovery_infrastructure")
      BY <2>1, RecordFields
    <2> QED BY <2>2, <2>3 DEF EngineRow
  <1>2. f =
          IF r.role = "continuity_transition" /\ r.forward
            THEN [n EXCEPT !.transition = "transition_ambiguous"]
          ELSE IF n.converging /\ r.role \in ConvergenceRoles
            THEN [n EXCEPT !.status = "convergence_failed"]
          ELSE IF (n.product \/ n.infra) /\ r.role \in FailureToConverge
            THEN [n EXCEPT !.converging = TRUE,
                           !.scope = IF n.infra /\ ~n.product THEN "infrastructure_only" ELSE @]
          ELSE [n EXCEPT !.status = "premutation"]
    BY DEF Refused, n
  <1> HIDE DEF n
  <1>3. f \in EngineRow
    BY RefusedRow
  <1>4. CASE r.role = "continuity_transition" /\ r.forward
    <2>1. f = [n EXCEPT !.transition = "transition_ambiguous"]
      BY <1>2, <1>4
    <2> QED BY <1>1, <1>3, <1>4, <2>1 DEF EngineRow
  <1>5. CASE ~(r.role = "continuity_transition" /\ r.forward)
             /\ n.converging /\ r.role \in ConvergenceRoles
    <2>1. f = [n EXCEPT !.status = "convergence_failed"]
      BY <1>2, <1>5
    <2> QED BY <1>1, <1>3, <1>5, <2>1 DEF EngineRow
  <1>6. CASE ~(r.role = "continuity_transition" /\ r.forward)
             /\ ~(n.converging /\ r.role \in ConvergenceRoles)
             /\ (n.product \/ n.infra) /\ r.role \in FailureToConverge
    <2>1. PICK s : /\ s = IF n.infra /\ ~n.product THEN "infrastructure_only" ELSE n.scope
                   /\ f = [n EXCEPT !.converging = TRUE, !.scope = s]
      BY <1>1, <1>2, <1>6 DEF EngineRow
    <2>2. f.role = n.role /\ f.calls = n.calls /\ f.claimed = n.claimed /\ f.product = n.product
          /\ f.infra = n.infra /\ f.status = n.status /\ f.converging = TRUE /\ f.scope = s
          /\ f.transition = n.transition
      BY <1>1, <2>1 DEF EngineRow
    <2>3. f.scope = IF f.infra /\ ~f.product THEN "infrastructure_only" ELSE e.scope
      BY <1>1, <2>1, <2>2
    <2> QED BY <1>1, <1>3, <1>6, <2>2, <2>3
  <1>7. CASE ~(r.role = "continuity_transition" /\ r.forward)
             /\ ~(n.converging /\ r.role \in ConvergenceRoles)
             /\ ~((n.product \/ n.infra) /\ r.role \in FailureToConverge)
    <2>1. f = [n EXCEPT !.status = "premutation"]
      BY <1>2, <1>7
    <2>2. f.role = n.role /\ f.calls = n.calls /\ f.claimed = n.claimed /\ f.product = n.product
          /\ f.infra = n.infra /\ f.status = "premutation" /\ f.converging = n.converging
          /\ f.scope = n.scope /\ f.transition = n.transition
      BY <1>1, <2>1 DEF EngineRow
    <2> QED BY <1>1, <1>3, <1>7, <2>2
  <1> QED BY <1>4, <1>5, <1>6, <1>7

\* The fields of an engine after a success.
LEMMA SucceededFields ==
  ASSUME NEW e \in EngineRow, NEW r \in ResultRow, Believable(e, r), NEW f, f = Succeeded(e, r)
  PROVE  /\ f \in EngineRow /\ f.role = r.role /\ f.calls = [e.calls EXCEPT ![r.role] = @ + 1]
         /\ f.claimed <=> (e.claimed \/ r.role = "claim")
         /\ f.scope = e.scope
         /\ r.role \notin {"converge", "recover"} =>
               (f.product <=> (e.product \/ r.scope = "product" \/ r.role \in HardRoles))
         /\ r.role = "converge" =>
               (f.product <=> (e.product \/ r.scope = "product" \/ e.scope # "infrastructure_only"))
         /\ r.role = "recover" => ~f.product
         /\ r.role # "recover" => (f.infra <=> (e.infra \/ r.scope = "recovery_infrastructure"))
         /\ f.status = IF r.role # "postflight" THEN e.status
                       ELSE IF e.converging THEN "converged" ELSE "accepted"
         /\ r.role \notin ContinuityRoles =>
               f.transition = e.transition /\ f.converging = e.converging /\ f.forward = e.forward
         /\ r.role \in ContinuityRoles =>
               /\ f.transition = r.state /\ r.state \in Outcomes[r.role]
               /\ f.converging <=> (e.converging \/ r.state = "reconciled_not_committed")
  <1> DEFINE n == [Record(e, r) EXCEPT !.claimed = @ \/ r.role = "claim",
                                       !.product = @ \/ r.role \in HardRoles]
  <1>1. /\ n \in EngineRow /\ n.role = r.role /\ n.calls = [e.calls EXCEPT ![r.role] = @ + 1]
        /\ n.status = e.status /\ n.converging = e.converging /\ n.transition = e.transition
        /\ n.scope = e.scope /\ n.forward = e.forward
        /\ n.claimed <=> (e.claimed \/ r.role = "claim")
        /\ n.product <=> (e.product \/ r.scope = "product" \/ r.role \in HardRoles)
        /\ n.infra <=> (e.infra \/ r.scope = "recovery_infrastructure")
    <2>1. PICK k \in EngineRow : k = Record(e, r)
      BY RecordFields
    <2>2. PICK c \in BOOLEAN, p \in BOOLEAN :
             /\ n = [k EXCEPT !.claimed = c, !.product = p]
             /\ c <=> (k.claimed \/ r.role = "claim")
             /\ p <=> (k.product \/ r.role \in HardRoles)
      <3> DEFINE c == k.claimed \/ r.role = "claim"
                 p == k.product \/ r.role \in HardRoles
      <3>1. c \in BOOLEAN /\ p \in BOOLEAN
        BY DEF EngineRow
      <3>2. n = [k EXCEPT !.claimed = c, !.product = p]
        BY <2>1 DEF EngineRow
      <3> QED BY <3>1, <3>2
    <2>3. /\ k.role = r.role /\ k.calls = [e.calls EXCEPT ![r.role] = @ + 1]
          /\ k.status = e.status /\ k.converging = e.converging /\ k.transition = e.transition
          /\ k.claimed = e.claimed /\ k.scope = e.scope /\ k.forward = e.forward
          /\ k.product <=> (e.product \/ r.scope = "product")
          /\ k.infra <=> (e.infra \/ r.scope = "recovery_infrastructure")
      BY <2>1, RecordFields
    <2>4. /\ n \in EngineRow /\ n.role = k.role /\ n.calls = k.calls /\ n.status = k.status
          /\ n.converging = k.converging /\ n.transition = k.transition /\ n.scope = k.scope
          /\ n.forward = k.forward /\ n.claimed = c /\ n.product = p /\ n.infra = k.infra
      BY <2>2 DEF EngineRow
    <2>5. /\ n.claimed <=> (e.claimed \/ r.role = "claim")
          /\ n.product <=> (e.product \/ r.scope = "product" \/ r.role \in HardRoles)
      BY <2>2, <2>3, <2>4
    <2> QED BY <2>3, <2>4, <2>5
  <1>2. f =
          IF r.role \in ContinuityRoles
            THEN [n EXCEPT !.transition = r.state,
                           !.forward = \/ r.state \in {"transition_committed", "reconciled_committed"}
                                       \/ @ /\ r.state # "reconciled_not_committed",
                           !.converging = @ \/ r.state = "reconciled_not_committed"]
          ELSE IF r.role = "converge"
            THEN [n EXCEPT !.product = @ \/ e.scope # "infrastructure_only"]
          ELSE IF r.role = "recover"
            THEN [n EXCEPT !.product = FALSE, !.infra = @ /\ e.scope # "infrastructure_only"]
          ELSE IF r.role = "postflight"
            THEN [n EXCEPT !.status = IF e.converging THEN "converged" ELSE "accepted"]
          ELSE n
    BY DEF Succeeded, n
  <1> HIDE DEF n
  <1>3. f \in EngineRow
    BY SucceededRow
  <1>4. CASE r.role \in ContinuityRoles
    <2>1. r.state \in Outcomes[r.role]
      BY <1>4 DEF Believable
    <2>2. PICK b \in BOOLEAN, c \in BOOLEAN :
             /\ f = [n EXCEPT !.transition = r.state, !.forward = b, !.converging = c]
             /\ c <=> (n.converging \/ r.state = "reconciled_not_committed")
      <3> DEFINE b == \/ r.state \in {"transition_committed", "reconciled_committed"}
                      \/ n.forward /\ r.state # "reconciled_not_committed"
                 c == n.converging \/ r.state = "reconciled_not_committed"
      <3>1. b \in BOOLEAN /\ c \in BOOLEAN
        BY <1>1 DEF EngineRow
      <3>2. f = [n EXCEPT !.transition = r.state, !.forward = b, !.converging = c]
        BY <1>1, <1>2, <1>4 DEF EngineRow
      <3> QED BY <3>1, <3>2
    <2>3. r.role \notin {"converge", "recover", "postflight"}
      BY <1>4 DEF ContinuityRoles
    <2>4. /\ f.role = n.role /\ f.calls = n.calls /\ f.claimed = n.claimed /\ f.product = n.product
          /\ f.infra = n.infra /\ f.status = n.status /\ f.scope = n.scope
          /\ f.transition = r.state /\ f.converging = c
      BY <1>1, <2>2 DEF EngineRow
    <2> QED BY <1>1, <1>3, <1>4, <2>1, <2>2, <2>3, <2>4
  <1>5. CASE r.role = "converge"
    <2>1. PICK b \in BOOLEAN : f = [n EXCEPT !.product = b] /\ (b <=> (n.product \/ e.scope # "infrastructure_only"))
      <3> DEFINE b == n.product \/ e.scope # "infrastructure_only"
      <3>1. b \in BOOLEAN
        BY <1>1 DEF EngineRow
      <3>2. f = [n EXCEPT !.product = b]
        BY <1>1, <1>2, <1>5 DEF EngineRow, ContinuityRoles
      <3> QED BY <3>1, <3>2
    <2>2. /\ f.role = n.role /\ f.calls = n.calls /\ f.claimed = n.claimed /\ f.product = b
          /\ f.infra = n.infra /\ f.status = n.status /\ f.scope = n.scope /\ f.forward = n.forward
          /\ f.transition = n.transition /\ f.converging = n.converging
      BY <1>1, <2>1 DEF EngineRow
    <2>3. "converge" \notin HardRoles \cup ContinuityRoles
      BY DEF HardRoles, ContinuityRoles
    <2> QED BY <1>1, <1>3, <1>5, <2>1, <2>2, <2>3
  <1>6. CASE r.role = "recover"
    <2>1. PICK b : f = [n EXCEPT !.product = FALSE, !.infra = b]
      BY <1>1, <1>2, <1>6 DEF EngineRow, ContinuityRoles
    <2>2. /\ f.role = n.role /\ f.calls = n.calls /\ f.claimed = n.claimed /\ f.product = FALSE
          /\ f.status = n.status /\ f.scope = n.scope /\ f.forward = n.forward
          /\ f.transition = n.transition /\ f.converging = n.converging
      BY <1>1, <2>1 DEF EngineRow
    <2>3. "recover" \notin HardRoles \cup ContinuityRoles
      BY DEF HardRoles, ContinuityRoles
    <2> QED BY <1>1, <1>3, <1>6, <2>2, <2>3
  <1>7. CASE r.role = "postflight"
    <2>1. PICK s : f = [n EXCEPT !.status = s] /\ s = IF e.converging THEN "converged" ELSE "accepted"
      BY <1>2, <1>7 DEF ContinuityRoles
    <2>2. /\ f.role = n.role /\ f.calls = n.calls /\ f.claimed = n.claimed /\ f.product = n.product
          /\ f.infra = n.infra /\ f.status = s /\ f.scope = n.scope /\ f.forward = n.forward
          /\ f.transition = n.transition /\ f.converging = n.converging
      BY <1>1, <2>1 DEF EngineRow
    <2>3. "postflight" \notin HardRoles \cup ContinuityRoles
      BY DEF HardRoles, ContinuityRoles
    <2> QED BY <1>1, <1>3, <1>7, <2>1, <2>2, <2>3
  <1>8. CASE r.role \notin ContinuityRoles \cup {"converge", "recover", "postflight"}
    <2>1. f = n
      BY <1>2, <1>8
    <2> QED BY <1>1, <1>3, <1>8, <2>1
  <1> QED BY <1>4, <1>5, <1>6, <1>7, <1>8

\* What comes next in an engine that keeps to its order.
LEMMA NextKept ==
  ASSUME NEW e, EngineSound(e), EngineKept(e), Running(e), NEW x, x = NextRole(e)
  PROVE  /\ x \in Roles
         /\ e.converging => x = IF e.role = "converge" THEN "recover"
                                ELSE IF e.role = "recover" THEN "postflight" ELSE "converge"
         /\ ~e.converging =>
              /\ e.role \notin {"converge", "recover", "postflight"}
              /\ ~Reached(e.role) => /\ x \in Shallow \cup {"recovery_install"}
                                     /\ Rank[x] = Rank[e.role] + 1 /\ Rank[e.role] \in 0..9
              /\ Reached(e.role) => x \in FailureToConverge \ {"recovery_install"}
              /\ e.role = "recovery_install" <=> x = "recovery_arm"
              /\ e.role = "recovery_arm" <=> x = "stop_socket"
              /\ e.role \in ReadinessRoles \cup {"none"} => x \in ReadinessRoles \cup {"claim"}
              /\ x \in LateRoles => e.role \in LateRoles \/ e.transition \in FinalStates
              /\ x = "continuity_assessment" => e.role = "select"
              /\ x = "continuity_transition" => e.role = "continuity_assessment"
              /\ x = "continuity_reconcile" =>
                    e.role = "continuity_transition" /\ e.transition = "transition_ambiguous"
  <1>1. e.converging => e.role # "none"
    BY DEF EngineKept, ScopeKept
  <1>2. CASE e.converging
    <2>1. PhaseSuccessor["converge"] = "recover" /\ PhaseSuccessor["recover"] = "postflight"
      BY DEF PhaseSuccessor
    <2> QED BY <1>1, <1>2, <2>1 DEF NextRole, Roles, ConvergenceRoles
  <1>3. CASE ~e.converging
    <2>1. e.role \notin {"converge", "recover", "postflight"} /\ e.role \in Roles \cup {"none"}
      BY <1>3 DEF EngineKept, CountKept, EngineSound, EngineRow
    <2>2. CASE e.role = "none"
      BY <1>3, <2>2 DEF NextRole, Roles, ReadinessRoles, Reached, Shallow, Rank, LateRoles
    <2>3. CASE e.role \in Shallow
      <3>1. x = PhaseSuccessor[e.role]
        BY <1>3, <2>3 DEF NextRole, Shallow, ReadinessRoles, ContinuityRoles
      <3> QED
        BY <1>3, <2>3, <3>1 DEF PhaseSuccessor, Roles, ReadinessRoles, Reached, Shallow, Rank, LateRoles
    <2>4. CASE e.role \in ContinuityRoles
      <3>1. x = ContinuitySuccessor[e.transition]
        BY <1>3, <2>4 DEF NextRole, ContinuityRoles
      <3>2. e.transition \in Outcomes[e.role] /\ e.transition # "reconciled_not_committed"
        BY <1>3, <2>4 DEF EngineSound, EngineKept, CountKept
      <3>3. x \in {"start_service", "continuity_transition", "continuity_reconcile"}
        BY <2>4, <3>1, <3>2 DEF ContinuityRoles, Outcomes, ContinuitySuccessor
      <3>4. /\ x = "start_service" => e.transition \in FinalStates
            /\ x = "continuity_transition" => e.role = "continuity_assessment"
            /\ x = "continuity_reconcile" =>
                    e.role = "continuity_transition" /\ e.transition = "transition_ambiguous"
        BY <2>4, <3>1, <3>2 DEF ContinuityRoles, Outcomes, ContinuitySuccessor, FinalStates
      <3> QED
        BY <1>3, <2>1, <2>4, <3>3, <3>4
           DEF Roles, ReadinessRoles, HardRoles, ContinuityRoles, Reached, Shallow, LateRoles, FailureToConverge
    <2>5. CASE e.role \notin {"none"} \cup Shallow \cup ContinuityRoles
      <3>1. x = PhaseSuccessor[e.role]
        BY <1>3, <2>5 DEF NextRole
      <3>2. e.role \in {"recovery_install", "recovery_arm", "stop_socket", "stop_service", "install",
                        "select", "start_service", "start_socket", "accept_status"}
        BY <2>1, <2>5 DEF Roles, HardRoles, ConvergenceRoles, Shallow
      <3>3. /\ x \in {"recovery_arm", "stop_socket", "stop_service", "install", "select",
                      "continuity_assessment", "start_socket", "accept_status", "postflight"}
            /\ x = "recovery_arm" <=> e.role = "recovery_install"
            /\ x = "stop_socket" <=> e.role = "recovery_arm"
            /\ x = "continuity_assessment" <=> e.role = "select"
            /\ x \in LateRoles => e.role \in LateRoles
        BY <3>1, <3>2 DEF PhaseSuccessor, LateRoles
      <3>4. /\ e.role \notin ReadinessRoles \cup {"none"} /\ Reached(e.role)
            /\ x \notin {"continuity_transition", "continuity_reconcile"}
        BY <3>2, <3>3 DEF Reached, Shallow, ReadinessRoles
      <3>5. x \in Roles /\ x \in FailureToConverge \ {"recovery_install"}
        BY <3>3 DEF Roles, HardRoles, ContinuityRoles, ConvergenceRoles, FailureToConverge
      <3> QED BY <1>3, <2>1, <3>3, <3>4, <3>5
    <2> QED BY <2>2, <2>3, <2>4, <2>5
  <1> QED BY <1>2, <1>3

\* The order is one of roles.
LEMMA PlacesAreRoles == DOMAIN Place \subseteq Roles /\ "postflight" \in DOMAIN Place
  BY DEF Place, Roles, HardRoles, ContinuityRoles, ConvergenceRoles

\* Going forward, the next role is later in the order than the last.
LEMMA NextPlace ==
  ASSUME NEW e, EngineSound(e), EngineKept(e), Running(e), ~e.converging, NEW x, x = NextRole(e)
  PROVE  PlaceOf(e.role) = 0 \/ PlaceOf(e.role) < PlaceOf(x)
  <1>1. e.role \notin {"converge", "recover", "postflight"} /\ e.role \in Roles \cup {"none"}
    BY DEF EngineKept, CountKept, EngineSound, EngineRow
  <1>2. CASE e.role \notin DOMAIN Place
    BY <1>2 DEF PlaceOf
  <1>3. CASE e.role \in ContinuityRoles
    <2>1. x = ContinuitySuccessor[e.transition]
      BY <1>3 DEF NextRole, ContinuityRoles
    <2>2. e.transition \in Outcomes[e.role] /\ e.transition # "reconciled_not_committed"
      BY <1>3 DEF EngineSound, EngineKept, CountKept
    <2> QED BY <1>3, <2>1, <2>2 DEF ContinuityRoles, Outcomes, ContinuitySuccessor, PlaceOf, Place
  <1>4. CASE e.role \in DOMAIN Place \ ContinuityRoles
    <2>1. e.role \in {"recovery_arm", "stop_socket", "stop_service", "install", "select", "start_service",
                      "start_socket", "accept_status"}
      BY <1>1, <1>4 DEF Place, ContinuityRoles
    <2>2. x = PhaseSuccessor[e.role]
      BY <1>4, <2>1 DEF NextRole
    <2> QED BY <2>1, <2>2 DEF PhaseSuccessor, PlaceOf, Place
  <1> QED BY <1>2, <1>3, <1>4

\* Counting the call of the next role keeps to that order.
LEMMA CalledNext ==
  ASSUME NEW e, EngineSound(e), EngineKept(e), Running(e), NEW x, x = NextRole(e), NEW f,
         f.role = x, f.calls = [e.calls EXCEPT ![x] = @ + 1],
         Running(f) /\ ~f.converging => ~e.converging,
         Going(f) /\ x = "postflight" => ~e.converging
  PROVE  CalledKept(f)
  <1>1. PICK c \in [Roles -> Nat] : c = e.calls
    BY DEF EngineSound, EngineRow
  <1>2. x \in Roles /\ \A s \in Roles : f.calls[s] = IF s = x THEN c[s] + 1 ELSE c[s]
    BY <1>1, NextRoles
  <1>3. c["postflight"] <= 1 /\ (~e.converging => c["postflight"] = 0)
    BY <1>1 DEF EngineKept, CalledKept, CountKept, Going, Running
  <1>4. Going(f) => f.calls["postflight"] <= 1
    BY <1>1, <1>2, <1>3, PlacesAreRoles
  <1>5. ASSUME ~e.converging, NEW s \in DOMAIN Place, PlaceOf(s) > PlaceOf(x)
        PROVE  f.calls[s] = 0
    <2>1. PlaceOf(s) \in Nat /\ PlaceOf(x) \in Nat /\ PlaceOf(e.role) \in Nat
      BY DEF PlaceOf, Place
    <2>2. PlaceOf(s) > PlaceOf(e.role) /\ s # x
      BY <1>5, <2>1, NextPlace
    <2>3. c[s] = 0
      BY <1>1, <1>5, <2>2 DEF EngineKept, CalledKept
    <2> QED BY <1>2, <2>2, <2>3, PlacesAreRoles
  <1> QED BY <1>4, <1>5 DEF CalledKept

\* The roles in the order they are called in, and those that are called late.
LEMMA RoleClasses ==
  /\ Shallow \cap FailureToConverge = {} /\ Shallow \cap ConvergenceRoles = {}
  /\ Shallow \cap ContinuityRoles = {} /\ Shallow \cap HardRoles = {}
  /\ Shallow \cup {"recovery_install"} \subseteq Roles /\ "none" \notin Roles
  /\ \A x \in Shallow \cup {"recovery_install"} : x \in EarlyRoles
  /\ {"converge", "recover", "postflight", "continuity_transition"} \subseteq Roles
  /\ LateRoles \cap EarlyRoles = {} /\ LateRoles \cap ContinuityRoles = {}
  /\ EarlyRoles \cap ContinuityRoles = {}
  /\ "postflight" \notin Shallow \cup {"recovery_install"}
  BY DEF Shallow, ReadinessRoles, FailureToConverge, HardRoles, ContinuityRoles, ConvergenceRoles,
         Roles, EarlyRoles, LateRoles

\* An engine keeps to its order under a refusal of its next role, whatever it says.
LEMMA RefusedKept ==
  ASSUME NEW e, EngineSound(e), EngineKept(e), Running(e), NEW r \in ResultRow, r.role = NextRole(e)
  PROVE  EngineKept(Refused(e, r))
  <1>1. PICK f, x : f = Refused(e, r) /\ x = NextRole(e)
    OBVIOUS
  <1>2. e \in EngineRow /\ e.role \in Roles \cup {"none"}
    BY DEF EngineSound, EngineRow
  <1>3. PICK c \in [Roles -> Nat] : c = e.calls
    BY <1>2 DEF EngineRow
  <1>4. /\ f.role = x /\ f.calls = [c EXCEPT ![x] = @ + 1] /\ f.claimed = e.claimed
        /\ f.product <=> (e.product \/ r.scope = "product")
        /\ \/ /\ x = "continuity_transition"
              /\ f.status = e.status /\ f.converging = e.converging /\ f.scope = e.scope
              /\ f.transition = "transition_ambiguous"
           \/ /\ e.converging /\ f.status = "convergence_failed" /\ f.converging
              /\ f.scope = e.scope /\ f.transition = e.transition
           \/ /\ x \in FailureToConverge /\ ~(e.converging /\ x \in ConvergenceRoles)
              /\ f.status = e.status /\ f.converging
              /\ f.scope = IF f.infra /\ ~f.product THEN "infrastructure_only" ELSE e.scope
              /\ f.transition = e.transition
           \/ /\ f.status = "premutation" /\ f.converging = e.converging
              /\ f.transition = e.transition
    BY <1>1, <1>2, <1>3, RefusedFields
  <1>5. /\ x \in Roles
        /\ e.converging => x \in ConvergenceRoles
        /\ x \in {"converge", "recover"} => e.converging
        /\ x = "continuity_transition" => e.role = "continuity_assessment"
        /\ ~e.converging /\ x \in FailureToConverge => e.role \notin ReadinessRoles \cup {"none"}
        /\ ~e.converging => e.role \notin {"converge", "recover", "postflight"}
    BY <1>1, NextKept, RoleClasses DEF ConvergenceRoles, FailureToConverge, HardRoles, ReadinessRoles,
       ContinuityRoles
  <1>6. ScopeKept(f)
    <2>1. /\ e.converging => e.claimed
          /\ e.role \notin ReadinessRoles \cup {"none"} => e.claimed
          /\ ~e.converging /\ e.role = "continuity_assessment" => e.product
          /\ e.scope = "infrastructure_only" => e.converging
      BY RoleClasses DEF EngineKept, ScopeKept, Going, Running, Reached, ContinuityRoles
    <2>2. /\ f.role # "none"
          /\ x = "continuity_transition" => ~e.converging
      BY <1>4, <1>5, RoleClasses DEF ConvergenceRoles
    <2>3. CASE x = "continuity_transition" /\ f.status = e.status /\ f.converging = e.converging
               /\ f.scope = e.scope
      BY <1>4, <1>5, <2>1, <2>2, <2>3 DEF ScopeKept, Going, Running, ReadinessRoles
    <2>4. CASE f.status \in {"premutation", "convergence_failed"} /\ (f.converging => e.converging)
      BY <1>4, <2>1, <2>2, <2>4 DEF ScopeKept, Going, Running
    <2>5. CASE /\ x \in FailureToConverge /\ ~(e.converging /\ x \in ConvergenceRoles) /\ f.converging
               /\ f.scope = IF f.infra /\ ~f.product THEN "infrastructure_only" ELSE e.scope
      BY <1>4, <1>5, <2>1, <2>2, <2>5 DEF ScopeKept
    <2> QED BY <1>4, <2>3, <2>4, <2>5
  <1>7. CountKept(f)
    <2>1. \A s \in Roles : s # x => f.calls[s] = c[s]
      BY <1>4
    <2>2. ~Reached(f.role) => \A s \in Shallow \cup {"recovery_install"} : Rank[s] > Rank[f.role] => f.calls[s] = 0
      <3> SUFFICES ASSUME ~Reached(x), NEW s \in Shallow \cup {"recovery_install"}, Rank[s] > Rank[x]
                   PROVE  f.calls[s] = 0
        BY <1>4
      <3>1. ~e.converging /\ ~Reached(e.role)
        BY <1>1, <1>5, NextKept, RoleClasses DEF Reached, Shallow, ReadinessRoles
      <3>2. Rank[x] = Rank[e.role] + 1 /\ Rank[e.role] \in 0..9 /\ Rank[s] \in 0..10
        BY <1>1, <3>1, NextKept DEF Rank, Shallow, ReadinessRoles
      <3>3. c[s] = 0 /\ s # x
        BY <1>3, <3>1, <3>2 DEF EngineKept, CountKept
      <3> QED BY <2>1, <3>3, RoleClasses
    <2>3. /\ f.role \in {"converge", "recover"} \/ f.transition = "reconciled_not_committed" => f.converging
          /\ f.status # "accepted"
      BY <1>4, <1>5 DEF EngineKept, CountKept, Running
    <2>4. /\ Going(f) /\ f.role \notin {"converge", "recover"} => f.calls["converge"] = 0
          /\ Going(f) /\ f.role # "recover" => f.calls["recover"] = 0
          /\ Running(f) /\ ~f.converging => f.calls["postflight"] = 0
      <3>1. /\ e.converging => f.status = "convergence_failed" \/ f.status = "premutation"
        BY <1>4, <1>5 DEF ConvergenceRoles
      <3>2. ~e.converging => c["converge"] = 0 /\ c["recover"] = 0 /\ c["postflight"] = 0
        BY <1>3, <1>5 DEF EngineKept, CountKept, Going, Running
      <3>3. Running(f) /\ ~f.converging => x = "continuity_transition"
        BY <1>4, <3>1 DEF Running
      <3>4. ~e.converging => x \notin {"converge", "recover"}
        BY <1>5
      <3> QED BY <1>4, <2>1, <3>1, <3>2, <3>3, <3>4, RoleClasses DEF Going, Running
    <2> QED BY <2>2, <2>3, <2>4 DEF CountKept
  <1>8. TransitionKept(f)
    BY <1>4, <1>5, RoleClasses DEF TransitionKept, EarlyRoles, ReadinessRoles, LateRoles, Going, Running
  <1>9. CalledKept(f)
    <2>1. f.calls = [e.calls EXCEPT ![x] = @ + 1]
      BY <1>3, <1>4
    <2>2. (Running(f) /\ ~f.converging => ~e.converging) /\ (Going(f) /\ x = "postflight" => ~e.converging)
      BY <1>4 DEF Going, Running, ConvergenceRoles
    <2> QED BY <1>1, <1>4, <2>1, <2>2, CalledNext
  <1> QED BY <1>1, <1>6, <1>7, <1>8, <1>9 DEF EngineKept

\* So it does under a success that is believed and says truly what it worked on.
LEMMA SucceededKept ==
  ASSUME NEW e, EngineSound(e), EngineKept(e), Running(e), NEW r \in ResultRow, r.role = NextRole(e),
         r.ok, Believable(e, r), TrueScope(r)
  PROVE  EngineKept(Succeeded(e, r))
  <1>1. PICK f, x : f = Succeeded(e, r) /\ x = NextRole(e)
    OBVIOUS
  <1>2. e \in EngineRow /\ e.role \in Roles \cup {"none"} /\ e.status = "running"
    BY DEF EngineSound, EngineRow, Running
  <1>3. PICK c \in [Roles -> Nat] : c = e.calls
    BY <1>2 DEF EngineRow
  <1>4. /\ f.role = x /\ f.calls = [c EXCEPT ![x] = @ + 1]
        /\ f.claimed <=> (e.claimed \/ x = "claim")
        /\ f.scope = e.scope
        /\ x \notin {"converge", "recover"} => (f.product <=> (e.product \/ r.scope = "product" \/ x \in HardRoles))
        /\ x = "converge" => (f.product <=> (e.product \/ r.scope = "product" \/ e.scope # "infrastructure_only"))
        /\ x = "recover" => ~f.product
        /\ x # "recover" => (f.infra <=> (e.infra \/ r.scope = "recovery_infrastructure"))
        /\ f.status = IF x # "postflight" THEN "running" ELSE IF e.converging THEN "converged" ELSE "accepted"
        /\ x \notin ContinuityRoles => f.transition = e.transition /\ f.converging = e.converging
        /\ x \in ContinuityRoles =>
              /\ f.transition = r.state /\ r.state \in Outcomes[x]
              /\ f.converging <=> (e.converging \/ r.state = "reconciled_not_committed")
    BY <1>1, <1>2, <1>3, SucceededFields
  <1>5. /\ x \in Roles /\ x # "none"
        /\ e.converging => x \in ConvergenceRoles /\ x = IF e.role = "converge" THEN "recover"
                                ELSE IF e.role = "recover" THEN "postflight" ELSE "converge"
        /\ x \in {"converge", "recover"} => e.converging
        /\ ~e.converging => e.role \notin {"converge", "recover", "postflight"}
    BY <1>1, NextKept, RoleClasses DEF ConvergenceRoles, FailureToConverge, HardRoles, ReadinessRoles,
       ContinuityRoles, Shallow
  <1>6. /\ x \in ContinuityRoles => ~e.converging /\ x \notin ConvergenceRoles
        /\ e.converging => f.converging
        /\ f.converging => e.converging \/ x = "continuity_reconcile"
        /\ x \in HardRoles => f.product
    BY <1>4, <1>5 DEF ContinuityRoles, ConvergenceRoles, Outcomes, HardRoles
  <1>7. ScopeKept(f)
    <2>1. /\ e.converging => e.claimed
          /\ e.role \notin ReadinessRoles \cup {"none"} => e.claimed
          /\ e.scope = "infrastructure_only" => e.converging /\ ~e.product
          /\ ~e.converging /\ Reached(e.role) =>
                IF e.role \in {"recovery_install", "recovery_arm"} THEN e.infra \/ e.product ELSE e.product
      BY <1>2 DEF EngineKept, ScopeKept, Going, Running
    <2>2. f.converging \/ (Going(f) /\ f.role \notin ReadinessRoles \cup {"none"}) => f.claimed
      <3>1. ~e.converging /\ x \notin ReadinessRoles \cup {"claim"} => e.role \notin ReadinessRoles \cup {"none"}
        BY <1>1, NextKept
      <3>2. "continuity_reconcile" \notin ReadinessRoles \cup {"claim"}
        BY DEF ReadinessRoles
      <3> QED BY <1>4, <1>6, <2>1, <3>1, <3>2
    <2>3. ASSUME ~f.converging, Reached(f.role)
          PROVE  IF f.role \in {"recovery_install", "recovery_arm"} THEN f.infra \/ f.product ELSE f.product
      <3>0. ~e.converging /\ x \notin {"converge", "recover"}
        BY <1>5, <1>6, <2>3
      <3>1. CASE x = "recovery_install"
        <4>1. r.scope = "recovery_infrastructure"
          BY <1>1, <3>1 DEF TrueScope
        <4> QED BY <1>4, <3>1, <4>1
      <3>2. CASE x = "recovery_arm"
        <4>1. e.role = "recovery_install" /\ Reached(e.role)
          BY <1>1, <3>0, <3>2, NextKept DEF Reached, Shallow, ReadinessRoles
        <4>2. e.infra \/ e.product
          BY <2>1, <3>0, <4>1
        <4>3. (e.infra => f.infra) /\ (e.product => f.product)
          BY <1>4, <3>0
        <4> QED BY <1>4, <3>2, <4>2, <4>3
      <3>3. CASE x \notin {"recovery_install", "recovery_arm"}
        <4>1. CASE x = "stop_socket"
          BY <1>4, <1>6, <4>1 DEF HardRoles
        <4>2. CASE x # "stop_socket"
          <5>1. Reached(e.role) /\ e.role \notin {"recovery_install", "recovery_arm"}
            BY <1>1, <1>4, <2>3, <3>0, <3>3, <4>2, NextKept DEF Reached
          <5>2. e.product
            BY <2>1, <3>0, <5>1
          <5> QED BY <1>4, <3>0, <3>3, <5>2
        <4> QED BY <4>1, <4>2
      <3> QED BY <3>1, <3>2, <3>3
    <2>4. ASSUME Running(f), f.scope = "infrastructure_only"
          PROVE  f.converging /\ ~f.product
      <3>1. e.converging /\ ~e.product /\ x \in ConvergenceRoles /\ x # "postflight" /\ f.converging
        BY <1>4, <1>5, <1>6, <2>1, <2>4 DEF Running
      <3>2. x = "converge" => r.scope # "product"
        <4>1. x = "converge" => r.restore = "infrastructure_only"
          BY <1>1, <1>4, <2>4 DEF Believable, RestoreScope
        <4> QED BY <1>1, <4>1 DEF TrueScope
      <3>3. CASE x = "converge"
        BY <1>4, <2>4, <3>1, <3>2, <3>3
      <3>4. CASE x = "recover"
        BY <1>4, <3>1, <3>4
      <3> QED BY <3>1, <3>3, <3>4 DEF ConvergenceRoles
    <2> QED BY <1>4, <1>5, <2>2, <2>3, <2>4 DEF ScopeKept
  <1>8. CountKept(f)
    <2>1. \A s \in Roles : s # x => f.calls[s] = c[s]
      BY <1>4
    <2>2. ~Reached(f.role) => \A s \in Shallow \cup {"recovery_install"} : Rank[s] > Rank[f.role] => f.calls[s] = 0
      <3> SUFFICES ASSUME ~Reached(x), NEW s \in Shallow \cup {"recovery_install"}, Rank[s] > Rank[x]
                   PROVE  f.calls[s] = 0
        BY <1>4
      <3>1. ~e.converging /\ ~Reached(e.role)
        BY <1>1, <1>5, NextKept, RoleClasses DEF Reached, Shallow, ReadinessRoles
      <3>2. Rank[x] = Rank[e.role] + 1 /\ Rank[e.role] \in 0..9 /\ Rank[s] \in 0..10
        BY <1>1, <3>1, NextKept DEF Rank, Shallow, ReadinessRoles
      <3>3. c[s] = 0 /\ s # x
        BY <1>3, <3>1, <3>2 DEF EngineKept, CountKept
      <3> QED BY <2>1, <3>3, RoleClasses
    <2>3. /\ f.role \in {"converge", "recover"} \/ f.transition = "reconciled_not_committed" => f.converging
          /\ f.status = "accepted" => ~f.converging /\ f.role = "postflight"
      <3>1. e.transition = "reconciled_not_committed" => e.converging
        BY DEF EngineKept, CountKept
      <3>2. "postflight" \notin ContinuityRoles /\ "running" # "accepted"
        BY DEF ContinuityRoles
      <3> QED BY <1>4, <1>5, <1>6, <3>1, <3>2
    <2>4. /\ Going(f) /\ f.role \notin {"converge", "recover"} => f.calls["converge"] = 0
          /\ Going(f) /\ f.role # "recover" => f.calls["recover"] = 0
          /\ Running(f) /\ ~f.converging => f.calls["postflight"] = 0
      <3>1. /\ e.role \notin {"converge", "recover"} => c["converge"] = 0
            /\ e.role # "recover" => c["recover"] = 0
            /\ ~e.converging => c["postflight"] = 0
        BY <1>2, <1>3 DEF EngineKept, CountKept, Going, Running
      <3>2. Going(f) /\ x \notin {"converge", "recover"} => e.role \notin {"converge", "recover"}
        BY <1>4, <1>5 DEF Going
      <3>3. Going(f) /\ x # "recover" => e.role # "recover"
        BY <1>4, <1>5 DEF Going
      <3>4. Running(f) => x # "postflight"
        BY <1>4 DEF Running
      <3> QED BY <1>4, <1>6, <2>1, <3>1, <3>2, <3>3, <3>4, RoleClasses
    <2> QED BY <2>2, <2>3, <2>4 DEF CountKept
  <1>9. TransitionKept(f)
    <2> SUFFICES ASSUME Going(f), ~f.converging
                 PROVE  /\ x \in EarlyRoles => f.transition = "none"
                        /\ x \in LateRoles => f.transition \in FinalStates
                        /\ f.transition = "no_transition_required" => f.calls["continuity_transition"] = 0
      BY <1>4 DEF TransitionKept
    <2>1. /\ ~e.converging
          /\ e.role \in EarlyRoles => e.transition = "none"
          /\ e.role \in LateRoles => e.transition \in FinalStates
          /\ e.transition = "no_transition_required" => c["continuity_transition"] = 0
      BY <1>2, <1>3, <1>6 DEF EngineKept, TransitionKept, Going
    <2>2. x \in EarlyRoles => f.transition = "none"
      <3>1. x \in EarlyRoles => e.role \in EarlyRoles
        BY <1>1, NextRoles
      <3> QED BY <1>4, <2>1, <3>1, RoleClasses
    <2>3. x \in LateRoles => f.transition \in FinalStates
      <3>1. x \in LateRoles => e.role \in LateRoles \/ e.transition \in FinalStates
        BY <1>1, <2>1, NextKept
      <3> QED BY <1>4, <2>1, <3>1, RoleClasses
    <2>4. f.transition = "no_transition_required" => f.calls["continuity_transition"] = 0
      <3> SUFFICES ASSUME f.transition = "no_transition_required"
                   PROVE  f.calls["continuity_transition"] = 0
        OBVIOUS
      <3>1. CASE x \in ContinuityRoles
        <4>1. x = "continuity_assessment"
          BY <1>4, <3>1 DEF Outcomes, ContinuityRoles
        <4>2. e.role = "select"
          BY <1>1, <2>1, <4>1, NextKept
        <4>3. c["continuity_transition"] = 0
          BY <1>3, <2>1, <4>2 DEF EngineSound, EarlyRoles
        <4> QED BY <1>4, <4>1, <4>3, RoleClasses
      <3>2. CASE x \notin ContinuityRoles
        BY <1>4, <2>1, <3>2, RoleClasses DEF ContinuityRoles
      <3> QED BY <3>1, <3>2
    <2> QED BY <2>2, <2>3, <2>4
  <1>10. CalledKept(f)
    <2>1. f.calls = [e.calls EXCEPT ![x] = @ + 1]
      BY <1>3, <1>4
    <2>2. (Running(f) /\ ~f.converging => ~e.converging) /\ (Going(f) /\ x = "postflight" => ~e.converging)
      BY <1>4, <1>6 DEF Going
    <2> QED BY <1>1, <1>4, <2>1, <2>2, CalledNext
  <1> QED BY <1>1, <1>7, <1>8, <1>9, <1>10 DEF EngineKept

\* So it does under whatever result the supervisor lets it see.
LEMMA AppliedKept ==
  ASSUME NEW e, EngineSound(e), EngineKept(e), NEW r \in ResultRow, Accepts(e, r), TrueScope(r)
  PROVE  EngineKept(Applied(e, r))
  <1>1. Running(e) /\ r.role = NextRole(e) /\ (r.ok => Believable(e, r))
    BY DEF Accepts
  <1>2. CASE r.ok
    BY <1>1, <1>2, SucceededKept DEF Applied
  <1>3. CASE ~r.ok
    BY <1>1, <1>3, RefusedKept DEF Applied
  <1> QED BY <1>2, <1>3

\* So it does under a call that failed without a result.
LEMMA FailedKept ==
  ASSUME NEW e, EngineSound(e), EngineKept(e), Running(e), NEW proven \in ResultScopes
  PROVE  EngineKept(Failed(e, NextRole(e), proven))
  <1>1. NextRole(e) \in Roles
    BY NextRoles
  <1>2. PICK s \in ResultScopes :
           Failed(e, NextRole(e), proven) = Refused(e, Refusal(NextRole(e), s, TRUE))
    BY DEF Failed, ResultScopes
  <1>3. PICK r \in ResultRow : r = Refusal(NextRole(e), s, TRUE) /\ r.role = NextRole(e)
    BY <1>1, RefusalRow
  <1>4. EngineKept(Refused(e, r))
    BY <1>3, RefusedKept
  <1> QED BY <1>2, <1>3, <1>4

\* An ambiguous transition nobody has reconciled is one of an engine with a product.
LEMMA AmbiguousProduct ==
  ASSUME NEW e, EngineSound(e), EngineKept(e), Running(e), e.transition = "transition_ambiguous",
         ~e.converging
  PROVE  e.role = "continuity_transition" /\ e.product
  <1>1. e.role \in Roles \cup {"none"} /\ Going(e)
    BY DEF EngineSound, EngineRow, Going, Running
  <1>2. e.role \notin EarlyRoles /\ e.role \notin LateRoles
    BY <1>1 DEF EngineKept, TransitionKept, FinalStates
  <1>3. e.role \notin {"continuity_assessment", "continuity_reconcile"}
    BY DEF EngineSound, ContinuityRoles, Outcomes
  <1>4. e.role \notin {"converge", "recover"}
    BY DEF EngineKept, CountKept
  <1>5. e.role = "continuity_transition"
    BY <1>1, <1>2, <1>3, <1>4
       DEF Roles, EarlyRoles, LateRoles, HardRoles, ContinuityRoles, ConvergenceRoles, ReadinessRoles
  <1> QED BY <1>1, <1>5, RoleClasses DEF EngineKept, ScopeKept, Reached, ContinuityRoles

\* An engine that was set to converge, or closed.
LEMMA ConvergingKept ==
  ASSUME NEW e, EngineSound(e), EngineKept(e), NEW f, f.claimed, f.converging, Running(f), Going(e),
         f.role = e.role, f.calls = e.calls, e.claimed,
         f.scope = "infrastructure_only" => ~f.product
  PROVE  EngineKept(f)
  <1>1. ~Reached(f.role) =>
           \A s \in Shallow \cup {"recovery_install"} : Rank[s] > Rank[f.role] => f.calls[s] = 0
    BY DEF EngineKept, CountKept
  <1>2. /\ f.role # "none"
        /\ f.role \notin {"converge", "recover"} => f.calls["converge"] = 0
        /\ f.role # "recover" => f.calls["recover"] = 0
    BY DEF EngineKept, CountKept, ScopeKept
  <1> QED BY <1>1, <1>2 DEF EngineKept, ScopeKept, CountKept, TransitionKept, CalledKept, Running

\* Closing before a mutation disturbs nothing.
LEMMA ClosedKept ==
  ASSUME NEW e, EngineSound(e), EngineKept(e), NEW f, f = [e EXCEPT !.status = "premutation"]
  PROVE  EngineKept(f)
  <1>1. /\ f.status = "premutation" /\ f.role = e.role /\ f.calls = e.calls /\ f.claimed = e.claimed
        /\ f.converging = e.converging /\ f.transition = e.transition
    BY DEF EngineSound, EngineRow
  <1>2. ~Reached(f.role) =>
           \A s \in Shallow \cup {"recovery_install"} : Rank[s] > Rank[f.role] => f.calls[s] = 0
    BY <1>1 DEF EngineKept, CountKept
  <1> QED BY <1>1, <1>2 DEF EngineKept, ScopeKept, CountKept, TransitionKept, CalledKept, Going, Running

\* An engine that gives up its forward progress keeps to its order.
LEMMA AbortedKept ==
  ASSUME NEW e, EngineSound(e), EngineKept(e), Running(e)
  PROVE  EngineKept(Aborted(e))
  <1>1. PICK f : f = Aborted(e)
    OBVIOUS
  <1>2. e \in EngineRow /\ Going(e)
    BY DEF EngineSound, Going, Running
  <1>3. CASE e.transition = "transition_ambiguous"
    BY <1>1, <1>3 DEF Aborted
  <1>4. CASE e.transition # "transition_ambiguous" /\ e.claimed /\ e.product
    <2>1. f = [e EXCEPT !.scope = "none", !.converging = TRUE]
      BY <1>1, <1>4 DEF Aborted
    <2>2. f.claimed /\ f.converging /\ Running(f) /\ f.role = e.role /\ f.calls = e.calls /\ f.scope = "none"
      BY <1>2, <1>4, <2>1 DEF EngineRow, Running
    <2> QED BY <1>1, <1>2, <1>4, <2>2, ConvergingKept
  <1>5. CASE e.transition # "transition_ambiguous" /\ e.claimed /\ ~e.product /\ e.infra
    <2>1. f = [e EXCEPT !.scope = "infrastructure_only", !.converging = TRUE]
      BY <1>1, <1>5 DEF Aborted
    <2>2. f.claimed /\ f.converging /\ Running(f) /\ f.role = e.role /\ f.calls = e.calls /\ ~f.product
      BY <1>2, <1>5, <2>1 DEF EngineRow, Running
    <2> QED BY <1>1, <1>2, <1>5, <2>2, ConvergingKept
  <1>6. CASE e.transition # "transition_ambiguous" /\ ~(e.claimed /\ e.product) /\ ~(e.claimed /\ e.infra)
    <2>1. f = [e EXCEPT !.status = "premutation"]
      BY <1>1, <1>6 DEF Aborted
    <2> QED BY <1>1, <2>1, ClosedKept
  <1> QED BY <1>3, <1>4, <1>5, <1>6

\* What a recovery makes of the engine it has replayed: the obligation is bound to it, an
\* acceptance is reopened, the rest is aborted.
Resolved(e, forced) ==
    LET bound == IF Running(e) /\ ~e.product /\ obligation THEN Bound(e) ELSE e
        open == IF forced /\ bound.status = "accepted" THEN Reopened(bound) ELSE bound
    IN IF Running(open) THEN Aborted(open) ELSE open

\* An engine with a durable obligation and no product converges the infrastructure only.
LEMMA BoundAborted ==
  ASSUME NEW e, EngineSound(e), EngineKept(e), Running(e), ~e.product, NEW f, f = Aborted(Bound(e))
  PROVE  /\ f.role = e.role /\ f.calls = e.calls /\ f.claimed = e.claimed /\ f.transition = e.transition
         /\ ~f.product /\ f.infra /\ f.forward = e.forward /\ f.scope = "infrastructure_only"
         /\ \/ e.converging /\ Running(f) /\ f.converging
            \/ e.claimed /\ Running(f) /\ f.converging
            \/ ~e.claimed /\ ~e.converging /\ f.status = "premutation"
  <1>1. e \in EngineRow
    BY DEF EngineSound
  <1>2. PICK b : b = Bound(e)
    OBVIOUS
  <1>3. /\ b.role = e.role /\ b.calls = e.calls /\ b.claimed = e.claimed /\ b.transition = e.transition
        /\ ~b.product /\ b.infra /\ b.forward = e.forward /\ b.scope = "infrastructure_only"
        /\ b.status = "running" /\ b.converging = e.converging /\ b \in EngineRow
    BY <1>1, <1>2 DEF EngineRow, Bound, Running
  <1>4. /\ e.transition = "transition_ambiguous" => e.converging
        /\ e.converging => e.claimed
    BY AmbiguousProduct DEF EngineKept, ScopeKept
  <1>5. CASE b.transition = "transition_ambiguous"
    BY <1>2, <1>3, <1>4, <1>5 DEF Aborted, Running
  <1>6. CASE b.transition # "transition_ambiguous" /\ b.claimed
    <2>1. f = [b EXCEPT !.scope = "infrastructure_only", !.converging = TRUE]
      BY <1>2, <1>3, <1>6 DEF Aborted
    <2> QED BY <1>3, <1>6, <2>1 DEF EngineRow, Running
  <1>7. CASE b.transition # "transition_ambiguous" /\ ~b.claimed
    <2>1. f = [b EXCEPT !.status = "premutation"]
      BY <1>2, <1>3, <1>7 DEF Aborted
    <2>2. f.role = b.role /\ f.calls = b.calls /\ f.claimed = b.claimed /\ f.transition = b.transition
          /\ f.product = b.product /\ f.infra = b.infra /\ f.forward = b.forward /\ f.scope = b.scope
          /\ f.status = "premutation"
      BY <1>3, <2>1 DEF EngineRow
    <2> QED BY <1>3, <1>4, <1>7, <2>2
  <1> QED BY <1>5, <1>6, <1>7

\* A reopened acceptance converges, from the postflight and with an open scope.
LEMMA ReopenedAborted ==
  ASSUME NEW e, EngineSound(e), EngineKept(e), e.status = "accepted", NEW f, f = Aborted(Reopened(e))
  PROVE  /\ Running(f) /\ f.converging /\ f.role = "postflight" /\ f.calls = e.calls
         /\ f.scope = "none" /\ f.claimed /\ e.claimed /\ f.transition = e.transition /\ f.forward = e.forward
  <1>1. e \in EngineRow /\ Going(e)
    BY DEF EngineSound, Going
  <1>2. ~e.converging /\ e.role = "postflight"
    BY DEF EngineKept, CountKept
  <1>3. e.claimed /\ e.product /\ e.transition \in FinalStates
    BY <1>1, <1>2, RoleClasses DEF EngineKept, ScopeKept, TransitionKept, Reached, ReadinessRoles, LateRoles
  <1>4. PICK b : b = Reopened(e)
    OBVIOUS
  <1>5. /\ b.role = e.role /\ b.calls = e.calls /\ b.claimed /\ b.transition = e.transition
        /\ b.product /\ b.forward = e.forward /\ b.scope = "none"
        /\ b.status = "running" /\ b.converging /\ b \in EngineRow
    BY <1>1, <1>3, <1>4 DEF EngineRow, Reopened, Statuses
  <1>6. f = [b EXCEPT !.scope = "none", !.converging = TRUE]
    BY <1>3, <1>4, <1>5 DEF Aborted, FinalStates
  <1> QED BY <1>2, <1>3, <1>5, <1>6 DEF EngineRow, Running

\* What a recovery resolves an engine to, in one of four ways.
LEMMA ResolvedCases ==
  ASSUME NEW e, EngineSound(e), EngineKept(e), NEW forced \in BOOLEAN, NEW f, f = Resolved(e, forced)
  PROVE  \/ Running(e) /\ ~e.product /\ obligation /\ f = Aborted(Bound(e))
         \/ Running(e) /\ ~(~e.product /\ obligation) /\ f = Aborted(e)
         \/ e.status = "accepted" /\ forced /\ f = Aborted(Reopened(e))
         \/ ~Running(e) /\ ~(e.status = "accepted" /\ forced) /\ f = e
  <1>1. e \in EngineRow
    BY DEF EngineSound
  <1>2. Bound(e).status = e.status
    BY <1>1 DEF EngineRow, Bound
  <1>3. Reopened(e).status = "running"
    BY <1>1 DEF EngineRow, Reopened
  <1> QED BY <1>2, <1>3 DEF Resolved, Running

\* What a recovery resolves keeps to the order.
LEMMA ResolvedKept ==
  ASSUME NEW e, EngineSound(e), EngineKept(e), NEW forced \in BOOLEAN
  PROVE  EngineKept(Resolved(e, forced))
  <1>1. PICK f : f = Resolved(e, forced)
    OBVIOUS
  <1>2. CASE Running(e) /\ ~e.product /\ obligation /\ f = Aborted(Bound(e))
    <2>1. /\ f.role = e.role /\ f.calls = e.calls /\ f.claimed = e.claimed /\ f.transition = e.transition
          /\ ~f.product /\ f.scope = "infrastructure_only"
          /\ \/ e.converging /\ Running(f) /\ f.converging
             \/ e.claimed /\ Running(f) /\ f.converging
             \/ ~e.claimed /\ ~e.converging /\ f.status = "premutation"
      BY <1>2, BoundAborted
    <2>2. (e.converging => e.claimed) /\ Going(e)
      BY <1>2 DEF EngineKept, ScopeKept, Going, Running
    <2>3. CASE Running(f) /\ f.converging /\ e.claimed
      BY <1>1, <2>1, <2>2, <2>3, ConvergingKept
    <2>4. CASE ~e.claimed /\ ~e.converging /\ f.status = "premutation"
      <3>1. ~Reached(f.role) =>
               \A s \in Shallow \cup {"recovery_install"} : Rank[s] > Rank[f.role] => f.calls[s] = 0
        BY <2>1 DEF EngineKept, CountKept
      <3>2. e.role \notin {"converge", "recover"} /\ e.transition # "reconciled_not_committed"
        BY <2>4 DEF EngineKept, CountKept
      <3>3. ~Going(f) /\ ~Running(f) /\ f.status # "accepted"
        BY <2>4 DEF Going, Running
      <3>4. ~e.claimed
        BY <2>4
      <3>5. CountKept(f)
        BY <2>1, <3>1, <3>2, <3>3 DEF CountKept
      <3>6. Aborted(Bound(e)) \in EngineRow /\ f.converging = e.converging
        <4>1. PICK b : b = Bound(e) /\ b = [e EXCEPT !.infra = TRUE, !.scope = "infrastructure_only"]
          BY DEF Bound
        <4>2. b \in EngineRow /\ b.claimed = e.claimed /\ b.transition = e.transition /\ b.converging = e.converging
          BY <4>1 DEF EngineSound, EngineRow
        <4>3. e.transition # "transition_ambiguous"
          BY <1>2, <2>4, AmbiguousProduct
        <4>4. f = [b EXCEPT !.status = "premutation"]
          BY <1>2, <2>4, <4>1, <4>2, <4>3 DEF Aborted
        <4> QED BY <1>2, <4>2, <4>4 DEF EngineRow, Statuses
      <3>7. ScopeKept(f)
        BY <2>1, <2>4, <3>3, <3>6 DEF ScopeKept
      <3>8. TransitionKept(f) /\ CalledKept(f)
        BY <3>3 DEF TransitionKept, CalledKept
      <3> QED BY <1>1, <3>5, <3>7, <3>8 DEF EngineKept
    <2> QED BY <2>1, <2>2, <2>3, <2>4
  <1>3. CASE Running(e) /\ f = Aborted(e)
    BY <1>1, <1>3, AbortedKept
  <1>4. CASE e.status = "accepted" /\ f = Aborted(Reopened(e))
    <2>1. e.role = "postflight" /\ Going(e)
      BY <1>4 DEF EngineKept, CountKept, Going
    <2>2. /\ Running(f) /\ f.converging /\ f.role = "postflight" /\ f.calls = e.calls
          /\ f.scope = "none" /\ f.claimed /\ e.claimed
      BY <1>4, ReopenedAborted
    <2> QED BY <1>1, <2>1, <2>2, ConvergingKept
  <1>5. CASE f = e
    BY <1>1, <1>5
  <1> QED BY <1>1, <1>2, <1>3, <1>4, <1>5, ResolvedCases

\* A new engine keeps to the order.
LEMMA NewEngineKept == EngineKept(NewEngine)
  <1>1. /\ NewEngine.role = "none" /\ NewEngine.status = "running" /\ ~NewEngine.claimed
        /\ ~NewEngine.converging /\ NewEngine.scope = "none" /\ NewEngine.transition = "none"
        /\ \A s \in Roles : NewEngine.calls[s] = 0
    BY DEF NewEngine
  <1> QED
    BY <1>1, RoleClasses, PlacesAreRoles
       DEF EngineKept, ScopeKept, CountKept, TransitionKept, CalledKept, Reached, Going, Running, LateRoles

--------------------------------------------------------------------------------
(* What the terminals and the strategy index say is true: the evidence.  *)

\* The steps, for the lemmas on who changes what.
USE DEF ActivationNext, RoleSteps, SupervisorSteps, SupervisorFaults, ManagerSteps,
        ManagerFaults, PreparePlan, StartRole, CallConsumed, TakeCapture, WriteTerminal,
        BeginRecovery, Keep, KeepEvidence, ReplayFailure, ReplayRejected, ReplayInterrupted,
        ReplayCapture, ReplayEnds, Resolve, PlanRejected, RoleNotStarted, ChildNotCreated,
        CaptureNotPersisted, TerminalNotPersisted, SupervisorDies, Switch, ManagerStarts,
        ForwardEnds, Discharge, IndexWritten, IndexRefused, CloseSettled, CloseRecovers,
        CloseRefused, RecoveryEnds, HardStopWritten, HardStopRefused, LastLook,
        ForwardCaptureLost, DischargeFails, IndexNotPersisted, HardStopNotPersisted, ManagerDies

\* Who writes what, and where the supervisor goes from where.
LEMMA FilesFrame ==
  ASSUME ActivationNext
  PROVE  \/ files' = files
         \/ WriteTerminal \/ TerminalNotPersisted \/ Discharge \/ DischargeFails \/ IndexWritten
         \/ IndexNotPersisted \/ CloseSettled \/ HardStopWritten \/ HardStopNotPersisted
  OBVIOUS

\* Who changes the mode.
LEMMA ModeFrame ==
  ASSUME ActivationNext
  PROVE  \/ mode' = mode
         \/ PreparePlan
         \/ (ChildNotCreated \/ TerminalNotPersisted) /\ sup' = "begin" /\ mode = "forward" /\ mode' = "recovery"
         \/ CloseRecovers
  BY DEF Raised

\* Who writes failures, torn calls, the plan and the generations.
LEMMA MarksFrame ==
  ASSUME ActivationNext
  PROVE  /\ failures' = failures \/ CallConsumed \/ RoleNotStarted
         /\ torn' = torn \/ RoleNotStarted \/ CaptureNotPersisted
         /\ planned' = planned \/ PreparePlan
         /\ entries' = entries \/ CloseRecovers
  BY DEF evidenceVars, guardianVars

\* Before anything has run only the manager starts.
LEMMA FirstFrame ==
  ASSUME ActivationNext, ~RoleSteps, Alone, manager = "off", sup = "off"
  PROVE  ManagerStarts
  BY DEF Driving, Reported, Finished, Replaying, SupervisorOver, Closing, Alone

\* What an active supervisor does, and leaves alone, when it stays active.
LEMMA ActiveFrame ==
  ASSUME ActivationNext, sup \notin {"off", "ended", "failed"}, manager \in {"forward", "recover"},
         sup' \notin {"off", "ended", "failed", "begin"}
  PROVE  /\ UNCHANGED <<files, manager, starts, entries>>
         /\ mode' = mode \/ PreparePlan
         /\ \/ RoleSteps \/ Switch \/ PreparePlan \/ StartRole \/ CallConsumed \/ RoleNotStarted
            \/ TakeCapture \/ CaptureNotPersisted \/ BeginRecovery \/ ReplayFailure
            \/ ReplayInterrupted \/ ReplayCapture \/ ReplayEnds \/ Resolve
  BY DEF orphanVars, guardianVars, SupervisorOver, Closing, Raised

\* From where the supervisor comes to each of its stages.
LEMMA StageFrame ==
  ASSUME ActivationNext
  PROVE  /\ sup' \notin {"off", "ended", "failed"} =>
               \/ sup \notin {"off", "ended", "failed"}
               \/ (ManagerStarts /\ sup' = "planning") \/ (CloseRecovers /\ sup' = "begin")
         /\ sup' = "waiting" => (sup = "waiting" /\ (RoleSteps \/ Switch \/ UNCHANGED <<engine, mode, captures, child, orphan, aside>>)) \/ StartRole
         /\ sup' = "drive" => sup \in {"drive", "waiting", "planning", "resolve"}
         /\ sup' = "replay" => sup = "replay" \/ BeginRecovery
         /\ sup' = "resolve" => (sup = "resolve" /\ engine' = engine) \/ ReplayEnds \/ ReplayInterrupted
         /\ sup' = "begin" => sup = "begin" \/ CloseRecovers \/ ChildNotCreated \/ TerminalNotPersisted
  BY DEF evidenceVars, orphanVars, guardianVars, Driving, Reported, Finished, Replaying, Raised

\* The manager waits as long as there is a supervisor.
LEMMA ManagerFrame ==
  ASSUME ActivationNext, sup # "off" => manager \in {"forward", "recover"}
  PROVE  sup' # "off" => manager' \in {"forward", "recover"}
  BY DEF evidenceVars, orphanVars, guardianVars, Driving, Reported, Finished, Replaying,
         SupervisorOver, Closing, Raised

HIDE DEF ActivationNext, RoleSteps, SupervisorSteps, SupervisorFaults, ManagerSteps,
         ManagerFaults, PreparePlan, StartRole, CallConsumed, TakeCapture, WriteTerminal,
         BeginRecovery, Keep, KeepEvidence, ReplayFailure, ReplayRejected, ReplayInterrupted,
         ReplayCapture, ReplayEnds, Resolve, PlanRejected, RoleNotStarted, ChildNotCreated,
         CaptureNotPersisted, TerminalNotPersisted, SupervisorDies, Switch, ManagerStarts,
         ForwardEnds, Discharge, IndexWritten, IndexRefused, CloseSettled, CloseRecovers,
         CloseRefused, RecoveryEnds, HardStopWritten, HardStopRefused, LastLook,
         ForwardCaptureLost, DischargeFails, IndexNotPersisted, HardStopNotPersisted,
         ManagerDies

\* The program of a role that changes neither the selection nor the units.
LEMMA MeekProgram ==
  ASSUME NEW role \in Meek
  PROVE  \A i \in 1..Len(Program(role)) : Program(role)[i][1] \in MeekOps
  <1>1. PICK M : M = MeekOps \X Events
    OBVIOUS
  <1>2. role \in Roles /\ role \notin ContinuityRoles
    BY DEF Meek, Shallow, Roles, ConvergenceRoles, ContinuityRoles, ReadinessRoles
  <1>3. Check \in M /\ Do("verify_arm") \in M /\ Do("claim") \in M
    BY <1>1 DEF MeekOps, Events, Check, Do
  <1>4. \A event \in Events : <<"next", event>> \in M /\ <<"rename", event>> \in M
    BY <1>1 DEF MeekOps
  <1>5. PICK a \in Seq(M) : a = Advance(IF role = "postflight" /\ Happened("converge")
                                          THEN "convergence_postflight" ELSE role)
    <2>1. PICK event \in Events : event = IF role = "postflight" /\ Happened("converge")
                                             THEN "convergence_postflight" ELSE role
      BY <1>2 DEF Events
    <2>2. PICK x \in M, y \in M : x = <<"next", event>> /\ y = <<"rename", event>>
      BY <1>4
    <2>3. <<x, y>> \in Seq(M)
      OBVIOUS
    <2>4. Advance(event) = <<x, y>>
      BY <2>2 DEF Advance
    <2> QED BY <2>1, <2>3, <2>4
  <1>6. PICK c \in Seq(M), v \in Seq(M), k \in Seq(M) :
           c = <<Check>> /\ v = <<Do("verify_arm")>> /\ k = <<Check, Do("claim")>>
    <2>1. \A x, y \in M : <<x>> \in Seq(M) /\ <<x, y>> \in Seq(M)
      OBVIOUS
    <2>2. <<Check>> \in Seq(M) /\ <<Do("verify_arm")>> \in Seq(M) /\ <<Check, Do("claim")>> \in Seq(M)
      BY <1>3, <2>1
    <2> QED BY <2>2
  <1>7. Steps(role) \in {c, k, c \o a}
    BY <1>2, <1>5, <1>6 DEF Steps, Meek, Shallow, ReadinessRoles
  <1>8. \A x, y \in Seq(M) : x \o y \in Seq(M)
    OBVIOUS
  <1>9. PICK t \in Seq(M) : t = Steps(role)
    BY <1>5, <1>6, <1>7, <1>8
  <1>10. InfrastructureProgram["recover"] = c /\ InfrastructureProgram["postflight"] = c
    BY <1>6 DEF InfrastructureProgram
  <1>11. Program(role) \in {c, v \o t, t}
    <2>1. role \in ConvergenceRoles => role \in {"recover", "postflight"}
      BY DEF Meek, Shallow, ReadinessRoles, ConvergenceRoles
    <2>2. <<>> \o t = t
      OBVIOUS
    <2> QED BY <1>6, <1>9, <1>10, <2>1, <2>2 DEF Program
  <1>12. Program(role) \in Seq(M)
    BY <1>6, <1>8, <1>9, <1>11
  <1> QED BY <1>1, <1>12, ElementOfSeq

\* How a new child is made, and what it has to do.
LEMMA NewChildFields ==
  ASSUME NEW role \in Roles, NEW c, c = NewChild(role)
  PROVE  /\ ChildSound(c) /\ c.role = role /\ c.todo = Program(role) /\ c.ends = "no" /\ c.state = "none"
         /\ c.infra <=> InfrastructureOnly
         /\ c.restore = IF InfrastructureOnly THEN "infrastructure_only" ELSE "none"
         /\ c.identity = IF InfrastructureOnly \/ Happened("converge") THEN "predecessor" ELSE "target"
  <1>1. PICK b \in BOOLEAN, s \in Restores, i \in {"predecessor", "target"} :
           /\ c = [NoChild EXCEPT !.role = role, !.todo = Program(role), !.ends = "no",
                                            !.infra = b, !.restore = s, !.identity = i]
           /\ b <=> InfrastructureOnly
           /\ s = IF InfrastructureOnly THEN "infrastructure_only" ELSE "none"
           /\ i = IF InfrastructureOnly \/ Happened("converge") THEN "predecessor" ELSE "target"
    BY DEF NewChild, Restores, InfrastructureOnly
  <1>2. c.infra = b /\ c.restore = s /\ c.identity = i
    BY <1>1 DEF NoChild
  <1>3. ChildSound(c) /\ c.role = role /\ c.todo = Program(role) /\ c.ends = "no" /\ c.state = "none"
    BY NewChildSound
  <1>4. c.infra <=> InfrastructureOnly
    BY <1>1, <1>2
  <1>5. /\ c.restore = IF InfrastructureOnly THEN "infrastructure_only" ELSE "none"
        /\ c.identity = IF InfrastructureOnly \/ Happened("converge") THEN "predecessor" ELSE "target"
    BY <1>1, <1>2
  <1> QED BY <1>3, <1>4, <1>5

\* What a step of the child leaves of it.
LEMMA ChildStays ==
  ASSUME ChildSound(child), ChildStep \/ ChildFault, NEW d, d = child'
  PROVE  /\ ChildSound(d) /\ d.role = child.role /\ d.identity = child.identity /\ (d.infra <=> child.infra)
         /\ child.ends = "no" /\ d.ends # "none"
         /\ \/ child.todo # <<>> /\ d.ends = "no" /\ d.todo = Tail(child.todo) /\ d.restore = child.restore
            \/ Transition /\ d.ends = "no" /\ d.restore = child.restore
            \/ ChooseRestore /\ d.ends = "no" /\ d.restore # "infrastructure_only"
            \/ d.todo = <<>> /\ d.ends \in {"rejected", "lost"} /\ d.restore = child.restore
            \/ child.todo = <<>> /\ d.todo = <<>> /\ d.ends = "success" /\ d.restore = child.restore
                 /\ d.state = child.state /\ ChildSucceeds
  <1>1. child \in ChildRow
    BY DEF ChildSound
  <1>2. ChildSound(d) /\ d.role = child.role /\ child.ends = "no"
    BY RoleStepChild, ChildMoves
  <1>3. ASSUME NEW state, child' = Gone(child, state)
        PROVE  /\ d.identity = child.identity /\ d.infra = child.infra /\ d.ends = child.ends
               /\ d.todo = Tail(child.todo) /\ d.restore = child.restore
    BY <1>1, <1>3 DEF Gone, ChildRow
  <1>4. CASE Looks \/ ClaimIncident \/ WriteNext \/ RenameNext \/ WriteObligation \/ MoveGate
             \/ MoveUnits \/ MovePublic \/ RestoreOpaque \/ WriteBinding
    <2>1. child.todo # <<>> /\ Proceed
      BY <1>4 DEF Looks, ClaimIncident, WriteNext, RenameNext, WriteObligation, MoveGate, MoveUnits,
                  MovePublic, RestoreOpaque, WriteBinding, At
    <2>2. child' = Gone(child, child.state)
      BY <2>1, ProceedGoes DEF ChildGoes
    <2> QED BY <1>2, <1>3, <2>1, <2>2
  <1>5. CASE Assess \/ Reconcile
    <2>1. child.todo # <<>> /\ \E state : ProceedAs(state, Tail(child.todo))
      BY <1>5 DEF Assess, Reconcile, At
    <2>2. PICK state : child' = Gone(child, state)
      BY <2>1, ProceedGoes DEF ChildGoes
    <2> QED BY <1>2, <1>3, <2>1, <2>2
  <1>6. CASE Transition
    <2>1. PICK state, more : child' = [child EXCEPT !.state = state, !.todo = more]
      BY <1>6 DEF Transition, ProceedAs
    <2>2. d.identity = child.identity /\ d.infra = child.infra /\ d.ends = child.ends /\ d.restore = child.restore
      BY <1>1, <2>1 DEF ChildRow
    <2> QED BY <1>2, <1>6, <2>2
  <1>7. CASE ChooseRestore
    <2>1. PICK s, more : /\ child' = [child EXCEPT !.restore = s, !.todo = more]
                         /\ s \in {"code_public_only", "p08_state_and_public"}
      BY <1>7 DEF ChooseRestore
    <2>2. d.identity = child.identity /\ d.infra = child.infra /\ d.ends = child.ends /\ d.restore = s
      BY <1>1, <2>1 DEF ChildRow
    <2> QED BY <1>2, <1>7, <2>1, <2>2
  <1>8. CASE ChildRefused \/ ChildFails \/ UnitUnread
    <2>1. PICK forward, product : child' = [child EXCEPT !.ends = "rejected", !.todo = <<>>,
                           !.forward = forward, !.product = product]
      BY <1>8 DEF ChildRefused, ChildFails, UnitUnread, Refuses
    <2>2. /\ d.identity = child.identity /\ d.infra = child.infra /\ d.ends = "rejected" /\ d.todo = <<>>
          /\ d.restore = child.restore
      BY <1>1, <2>1 DEF ChildRow
    <2> QED BY <1>2, <2>2
  <1>9. CASE ChildLost
    <2>1. child' = [child EXCEPT !.ends = "lost", !.todo = <<>>]
      BY <1>9 DEF ChildLost
    <2>2. /\ d.identity = child.identity /\ d.infra = child.infra /\ d.ends = "lost" /\ d.todo = <<>>
          /\ d.restore = child.restore
      BY <1>1, <2>1 DEF ChildRow
    <2> QED BY <1>2, <2>2
  <1>10. CASE ChildSucceeds
    <2>1. child' = [child EXCEPT !.ends = "success"] /\ child.todo = <<>>
      BY <1>10 DEF ChildSucceeds
    <2>2. /\ d.identity = child.identity /\ d.infra = child.infra /\ d.ends = "success" /\ d.todo = <<>>
          /\ d.restore = child.restore /\ d.state = child.state
      BY <1>1, <2>1 DEF ChildRow
    <2> QED BY <1>2, <1>10, <2>1, <2>2
  <1> QED BY <1>4, <1>5, <1>6, <1>7, <1>8, <1>9, <1>10 DEF ChildStep, ChildFault

\* What the first operation of a child lets it do to the host.
LEMMA HostMoves ==
  ASSUME ChildStep \/ ChildFault
  PROVE  /\ obligation' = obligation \/ (At("oblige") /\ obligation' = TRUE)
         /\ gate' = gate \/ At("build") \/ At("arm") \/ At("remove_arm") \/ At("remove_gate")
         /\ public' = public \/ At("mix") \/ At("select") \/ At("restore")
         /\ up' = up \/ At("stop") \/ At("start")
         /\ moved' = moved \/ At("transition") \/ At("restore_opaque")
         /\ binding' = binding \/ (At("bind") /\ binding' = TRUE)
         /\ continuity' = continuity \/ RenameNext
         /\ \/ journal' = journal
            \/ At("claim") /\ journal' = <<"claim">>
            \/ RenameNext /\ journal' = Append(journal, Event)
  BY DEF ChildStep, ChildFault, hostVars, Looks, ClaimIncident, WriteNext, RenameNext, WriteObligation,
         MoveGate, MoveUnits, MovePublic, ChooseRestore, RestoreOpaque, Assess, WriteBinding,
         Transition, Reconcile, ChildRefused, ChildSucceeds, ChildFails, UnitUnread, ChildLost

\* The operations of a meek child, and those it still has after one of them.
LEMMA MeekHead ==
  ASSUME ChildSound(child), MeekChild(child), child.role \in Meek
  PROVE  /\ \A op : At(op) => op \in MeekOps
         /\ \A i \in 1..Len(Tail(child.todo)) : child.todo # <<>> => Tail(child.todo)[i][1] \in MeekOps
  <1>1. PICK s, S : s = child.todo /\ S = OpNames \X Events
    OBVIOUS
  <1>2. s \in Seq(S) /\ \A i \in 1..Len(s) : s[i][1] \in MeekOps
    BY <1>1 DEF ChildSound, ChildRow, MeekChild
  <1>3. CASE s = <<>>
    BY <1>1, <1>3 DEF At
  <1>4. CASE s # <<>>
    <2>1. /\ Head(s) = s[1] /\ 1 \in 1..Len(s)
          /\ Len(Tail(s)) = Len(s) - 1 /\ Len(s) \in Nat
          /\ \A i \in 1..Len(Tail(s)) : Tail(s)[i] = s[i + 1]
      BY <1>2, <1>4, HeadTailProperties, EmptySeq, LenProperties
    <2>2. \A i \in 1..Len(Tail(s)) : i + 1 \in 1..Len(s)
      BY <2>1
    <2> QED BY <1>1, <1>2, <2>1, <2>2 DEF At
  <1> QED BY <1>3, <1>4

\* What a child keeps to, it keeps to at every step.
LEMMA ChildStaysKept ==
  ASSUME ChildSound(child), ChildKept(child), ChildStep \/ ChildFault, NEW d, d = child'
  PROVE  ChildKept(d)
  <1>1. /\ d.role = child.role /\ d.identity = child.identity /\ (d.infra <=> child.infra) /\ d.ends # "none"
        /\ d.restore = child.restore \/ d.restore # "infrastructure_only"
    BY ChildStays
  <1>2. MeekChild(d)
    <2> SUFFICES ASSUME child.role \in Meek, NEW i \in 1..Len(d.todo) PROVE d.todo[i][1] \in MeekOps
      BY <1>1 DEF MeekChild
    <2>1. ~Transition /\ ~ChooseRestore
      BY MeekHead DEF ChildKept, Transition, ChooseRestore, MeekOps
    <2>2. d.todo = <<>> \/ (child.todo # <<>> /\ d.todo = Tail(child.todo))
      BY <2>1, ChildStays
    <2>3. CASE d.todo = <<>>
      <3>1. Len(<<>>) = 0
        OBVIOUS
      <3> QED BY <2>3, <3>1
    <2> QED BY <2>2, <2>3, MeekHead DEF ChildKept
  <1> QED BY <1>1, <1>2 DEF ChildKept

\* A new child keeps to it.
LEMMA NewChildKept ==
  ASSUME NEW role \in Roles, NEW c, c = NewChild(role)
  PROVE  ChildKept(c)
  <1>1. /\ c.role = role /\ c.todo = Program(role) /\ c.ends = "no"
        /\ c.infra <=> InfrastructureOnly
        /\ c.restore = IF InfrastructureOnly THEN "infrastructure_only" ELSE "none"
        /\ c.identity = IF InfrastructureOnly \/ Happened("converge") THEN "predecessor" ELSE "target"
    BY NewChildFields
  <1>2. MeekChild(c)
    BY <1>1, MeekProgram DEF MeekChild
  <1> QED BY <1>1, <1>2 DEF ChildKept

\* Three operations and two make five.
LEMMA Joined ==
  ASSUME NEW x, NEW y, NEW z, NEW u, NEW v
  PROVE  <<x, y, z>> \o <<u, v>> = <<x, y, z, u, v>>
  <1>1. PICK M : M = {x, y, z, u, v}
    OBVIOUS
  <1>2. PICK s \in Seq(M), t \in Seq(M), p \in Seq(M) :
           s = <<x, y, z>> /\ t = <<u, v>> /\ p = <<x, y, z, u, v>>
    <2>1. x \in M /\ y \in M /\ z \in M /\ u \in M /\ v \in M
      BY <1>1
    <2>2. \A a, b, c, d, e \in M :
             <<a, b>> \in Seq(M) /\ <<a, b, c>> \in Seq(M) /\ <<a, b, c, d, e>> \in Seq(M)
      OBVIOUS
    <2>3. <<x, y, z>> \in Seq(M) /\ <<u, v>> \in Seq(M) /\ <<x, y, z, u, v>> \in Seq(M)
      BY <2>1, <2>2
    <2> QED BY <2>3
  <1>3. /\ Len(s) = 3 /\ Len(t) = 2 /\ Len(p) = 5
        /\ s[1] = p[1] /\ s[2] = p[2] /\ s[3] = p[3] /\ t[1] = p[4] /\ t[2] = p[5]
    BY <1>2
  <1>4. /\ s \o t \in Seq(M) /\ Len(s \o t) = Len(s) + Len(t)
        /\ \A i \in 1..(Len(s) + Len(t)) :
              (s \o t)[i] = IF i <= Len(s) THEN s[i] ELSE t[i - Len(s)]
    BY ConcatProperties
  <1>5. \A i \in 1..5 : i \in {1, 2, 3, 4, 5}
    OBVIOUS
  <1>6. \A i \in 1..5 : (s \o t)[i] = p[i]
    BY <1>3, <1>4, <1>5
  <1>7. s \o t = p
    BY <1>3, <1>4, <1>6, SeqEqual
  <1> QED BY <1>2, <1>7

\* What the admission of a role turns into operations, when nothing is obliged yet.
LEMMA UnobligedProgram ==
  ASSUME NEW role \in Roles, ~obligation
  PROVE  /\ role = "recovery_install" => Program(role) = InstallProgram
         /\ role \notin Shallow \cup {"recovery_install", "recovery_arm"} =>
               Program(role) # <<>> /\ Program(role)[1] = Do("verify_arm")
  <1>1. ~InfrastructureOnly
    BY DEF InfrastructureOnly
  <1>2. CASE role = "recovery_install"
    <2>1. Program(role) = <<>> \o (<<Check, Do("oblige"), Do("build")>> \o Advance(role))
      BY <1>1, <1>2 DEF Program, Steps, Hazardous, HardRoles, ContinuityRoles, ConvergenceRoles,
                        ReadinessRoles
    <2>2. <<Check, Do("oblige"), Do("build")>> \o Advance(role) = InstallProgram
      BY <1>2, Joined DEF Advance, InstallProgram
    <2>3. <<>> \o InstallProgram = InstallProgram
      BY DEF InstallProgram
    <2> QED BY <1>2, <2>1, <2>2, <2>3
  <1>3. CASE role \notin Shallow \cup {"recovery_install", "recovery_arm"}
    <2>1. role \in Hazardous /\ role # "recovery_install"
      BY <1>3 DEF Roles, Shallow, Hazardous
    <2>2. PICK M : M = OpNames \X Events
      OBVIOUS
    <2>3. \A op \in OpNames : Do(op) \in M
      BY <2>2 DEF Do, Events
    <2>4. Check \in M
      BY <2>2 DEF Check, OpNames, Events
    <2>5. \A x, y, z \in M : <<x>> \in Seq(M) /\ <<x, y>> \in Seq(M) /\ <<x, y, z>> \in Seq(M)
      OBVIOUS
    <2>6. \A event \in Events : Advance(event) \in Seq(M)
      <3> SUFFICES ASSUME NEW event \in Events PROVE Advance(event) \in Seq(M)
        OBVIOUS
      <3>1. <<"next", event>> \in M /\ <<"rename", event>> \in M
        BY <2>2 DEF OpNames
      <3> QED BY <2>5, <3>1 DEF Advance
    <2>7. \A s, t \in Seq(M) : s \o t \in Seq(M)
      OBVIOUS
    <2>8. /\ \A op \in OpNames : <<Do(op)>> \in Seq(M)
          /\ \A op, o \in OpNames : <<Do(op), Do(o)>> \in Seq(M)
          /\ <<Check>> \in Seq(M)
          /\ \A op, o \in OpNames : <<Check, Do(op), Do(o)>> \in Seq(M)
      BY <2>3, <2>4, <2>5
    <2>9. Steps(role) \in Seq(M)
      <3>1. role \in Events /\ Started \in Events /\ "stop_socket_started" \in Events
              /\ "convergence_postflight" \in Events
        BY DEF Events
      <3>2. role = "stop_socket" => Steps(role) \in Seq(M)
        <4>1. role = "stop_socket" => 
                Steps(role) = <<Check>> \o Advance("stop_socket_started") \o <<Do("stop")>> \o Advance(role)
          BY DEF Steps, ReadinessRoles
        <4>2. "stop" \in OpNames
          BY DEF OpNames
        <4> QED BY <2>6, <2>7, <2>8, <3>1, <4>1, <4>2
      <3>3. role \in {"stop_service", "start_service", "start_socket", "continuity_assessment"} =>
              \E op \in OpNames : Steps(role) = <<Do(op)>> \o Advance(role)
        BY DEF Steps, ReadinessRoles, OpNames
      <3>4. role = "select" => Steps(role) = <<Check, Do("mix"), Do("select")>> \o Advance(role)
        BY DEF Steps, ReadinessRoles
      <3>5. role = "continuity_transition" => 
              Steps(role) = Advance("continuity_transition_started") \o <<Do("bind"), Do("transition")>>
        BY DEF Steps, ReadinessRoles
      <3>6. role = "continuity_reconcile" => 
              Steps(role) = <<Do("read_binding"), Do("reconcile")>> \o Advance(role)
        BY DEF Steps, ReadinessRoles
      <3>7. role = "converge" => Steps(role) = <<Do("stop"), Do("choose")>>
        BY DEF Steps, ReadinessRoles, ConvergeProgram
      <3>8. role \in {"install", "accept_status", "recover", "postflight"} =>
              \E event \in Events : Steps(role) = <<Check>> \o Advance(event)
        BY <3>1 DEF Steps, ReadinessRoles
      <3>9. {"stop", "choose", "mix", "select", "bind", "transition", "read_binding", "reconcile"}
               \subseteq OpNames
        BY DEF OpNames
      <3>10. role \in {"stop_socket", "stop_service", "start_service", "start_socket",
                       "continuity_assessment", "select", "continuity_transition",
                       "continuity_reconcile", "converge", "install", "accept_status", "recover",
                       "postflight"}
        BY <2>1 DEF Hazardous, HardRoles, ContinuityRoles, ConvergenceRoles
      <3>11. CASE role \in {"stop_service", "start_service", "start_socket", "continuity_assessment"}
        BY <2>6, <2>7, <2>8, <3>1, <3>3, <3>11
      <3>12. CASE role \in {"install", "accept_status", "recover", "postflight"}
        BY <2>6, <2>7, <2>8, <3>8, <3>12
      <3>13. CASE role \in {"select", "converge"}
        <4>1. <<Check, Do("mix"), Do("select")>> \in Seq(M) /\ <<Do("stop"), Do("choose")>> \in Seq(M)
          BY <2>8, <3>9
        <4> QED BY <2>6, <2>7, <3>1, <3>4, <3>7, <3>13, <4>1
      <3>14. CASE role \in {"continuity_transition", "continuity_reconcile"}
        <4>1. /\ <<Do("bind"), Do("transition")>> \in Seq(M)
              /\ <<Do("read_binding"), Do("reconcile")>> \in Seq(M)
          BY <2>8, <3>9
        <4>2. Advance(role) \in Seq(M) /\ Advance("continuity_transition_started") \in Seq(M)
          BY <2>6, <3>1 DEF Started
        <4> QED BY <2>7, <3>5, <3>6, <3>14, <4>1, <4>2
      <3> QED BY <3>2, <3>10, <3>11, <3>12, <3>13, <3>14
    <2>10. Program(role) = <<Do("verify_arm")>> \o Steps(role)
      BY <1>1, <2>1 DEF Program
    <2>11. \A x, t : t \in Seq(M) => <<x>> \o t # <<>> /\ (<<x>> \o t)[1] = x
      OBVIOUS
    <2> QED BY <2>1, <2>9, <2>10, <2>11
  <1> QED BY <1>2, <1>3

\* The child of a role the supervisor may start is as harmless as the host is untouched.
LEMMA NewChildHarmless ==
  ASSUME EngineSound(engine), EngineKept(engine), Running(engine), HostKept,
         NEW c, c = NewChild(Role)
  PROVE  Harmless(c)
  <1>1. Role \in Roles
    BY NextKept DEF Role
  <1>2. c.role = Role /\ c.todo = Program(Role) /\ c.ends = "no"
    BY <1>1, NewChildFields
  <1>3. Role = "recovery_arm" => obligation
    BY NextKept DEF Role, HostKept
  <1> QED BY <1>1, <1>2, <1>3, UnobligedProgram DEF Harmless

\* A product step the journal did not tell of is told only by the child that makes it.
LEMMA ProductStays ==
  ASSUME HostTyped, ~ProductEntered,
         \/ journal' = journal \/ journal' = <<"claim">>
         \/ \E event \in Events : event # "stop_socket_started" /\ journal' = Append(journal, event)
  PROVE  ~ProductEntered'
  <1>1. journal \in Seq(Events)
    BY DEF HostTyped
  <1>2. \A i \in DOMAIN journal : journal[i] # "stop_socket_started"
    BY DEF ProductEntered, Happened, Range
  <1>3. \A i \in DOMAIN journal' : journal'[i] # "stop_socket_started"
    <2>1. CASE journal' = journal
      BY <1>2, <2>1
    <2>2. CASE journal' = <<"claim">>
      BY <2>2
    <2>3. CASE \E event \in Events : event # "stop_socket_started" /\ journal' = Append(journal, event)
      BY <1>1, <1>2, <2>3
    <2> QED BY <2>1, <2>2, <2>3
  <1> QED BY <1>3 DEF ProductEntered, Happened, Range

\* A step of the child: what has not been obliged stays untouched.
LEMMA ObligedOrStopped ==
  ASSUME ChildSound(child), ChildStep \/ ChildFault, NEW d, d = child'
  PROVE  /\ At("oblige") => obligation' \/ d.ends # "no"
         /\ At("verify_arm") /\ gate # "armed" => d.ends # "no"
  <1>1. child \in ChildRow
    BY DEF ChildSound
  <1>2. ASSUME At("oblige") \/ (At("verify_arm") /\ gate # "armed")
        PROVE  WriteObligation \/ ChildRefused \/ ChildFails \/ ChildLost
    BY <1>2 DEF ChildStep, ChildFault, At, Looks, Admissible, ClaimIncident, WriteNext, RenameNext,
         MoveGate, MoveUnits, MovePublic, ChooseRestore, RestoreOpaque, Assess, WriteBinding,
         Transition, Reconcile, ChildSucceeds, UnitUnread
  <1>3. ChildRefused \/ ChildFails \/ ChildLost => d.ends # "no"
    BY <1>1 DEF ChildRefused, ChildFails, ChildLost, Refuses, ChildRow
  <1>4. WriteObligation => obligation' /\ At("oblige")
    BY DEF WriteObligation
  <1>5. ~(At("oblige") /\ At("verify_arm"))
    BY DEF At
  <1> QED BY <1>2, <1>3, <1>4, <1>5

\* A step of a harmless child leaves the host untouched until there is an obligation.
LEMMA HarmlessStep ==
  ASSUME ChildSound(child), HostTyped, HostKept, ChildStep \/ ChildFault, NEW d, d = child'
  PROVE  /\ ~obligation' => Untouched'
         /\ d.role = "recovery_install" /\ d.ends = "success" => obligation'
         /\ d.ends = "no" /\ ~obligation' =>
               \/ d.role \in Shallow
               \/ d.role = "recovery_install" /\ d.todo \in {InstallProgram, Tail(InstallProgram)}
               \/ /\ d.role \notin {"recovery_install", "recovery_arm"}
                  /\ d.todo # <<>> /\ d.todo[1] = Do("verify_arm")
  <1>1. CASE obligation \/ obligation'
    BY <1>1, HostMoves
  <1>2. CASE ~obligation /\ ~obligation'
    <2>1. /\ ChildKept(child) /\ child.ends = "no" /\ Untouched
          /\ \/ child.role \in Shallow
             \/ child.role = "recovery_install" /\ child.todo \in {InstallProgram, Tail(InstallProgram)}
             \/ /\ child.role \notin {"recovery_install", "recovery_arm"}
                /\ child.todo # <<>> /\ child.todo[1] = Do("verify_arm")
      BY <1>2, ChildMoves DEF HostKept, Harmless
    <2>2. d.role = child.role
      BY ChildStays
    <2>3. CASE child.role \in Shallow
      <3>1. \A op : At(op) => op \in MeekOps
        BY <2>1, <2>3, MeekHead DEF ChildKept, Meek
      <3>2. gate' = gate /\ public' = public /\ up' = up
        <4>1. \A op \in {"build", "arm", "remove_arm", "remove_gate", "mix", "select", "restore",
                          "stop", "start"} : ~At(op)
          BY <3>1 DEF MeekOps
        <4> QED BY <4>1, HostMoves
      <3>3. RenameNext => Event \in Events /\ Event # "stop_socket_started"
        <4> SUFFICES ASSUME RenameNext PROVE Event \in Events /\ Event # "stop_socket_started"
          OBVIOUS
        <4>1. child.todo # <<>> /\ At("rename")
          BY DEF RenameNext, At
        <4>2. child.todo[1] = <<"rename", Event>> /\ child.todo[1] \in OpsOf(child.role) /\ Event \in Events
          BY <4>1, HeadOp, RoleAt
        <4>3. Event \in OwnEvents(child.role)
          BY <2>1, <2>3, <4>2, OpsArePairs DEF ChildSound, ChildRow
        <4> QED BY <2>3, <4>2, <4>3 DEF OwnEvents, Shallow, ReadinessRoles, Started, Rejected
      <3>4. ~ProductEntered'
        BY <2>1, <3>3, HostMoves, ProductStays DEF Untouched
      <3>5. d.role # "recovery_install"
        BY <2>2, <2>3 DEF Shallow, ReadinessRoles
      <3> QED BY <2>1, <2>2, <2>3, <3>2, <3>4, <3>5 DEF Untouched
    <2>4. CASE child.role = "recovery_install" /\ child.todo \in {InstallProgram, Tail(InstallProgram)}
      <3>1. /\ child.todo # <<>>
            /\ child.todo = InstallProgram => Head(child.todo) = Check
            /\ child.todo = Tail(InstallProgram) => Head(child.todo) = Do("oblige")
        BY <2>4 DEF InstallProgram
      <3>2. \A op : At(op) => op \in {"check", "oblige"}
        BY <2>4, <3>1 DEF At, Check, Do
      <3>3. UNCHANGED <<gate, public, up, journal>>
        <4>1. \A op \in {"build", "arm", "remove_arm", "remove_gate", "mix", "select", "restore",
                          "stop", "start", "claim", "rename"} : ~At(op)
          BY <3>2
        <4> QED BY <4>1, HostMoves DEF RenameNext
      <3>4. child.todo = Tail(InstallProgram) => d.ends # "no"
        BY <1>2, <2>1, <3>1, ObligedOrStopped DEF At, Do
      <3>5. d.ends # "success" /\ (d.ends = "no" => d.todo = Tail(child.todo))
        <4>1. ~Transition /\ ~ChooseRestore
          BY <3>2 DEF Transition, ChooseRestore
        <4> QED BY <3>1, <4>1, ChildStays
      <3> QED BY <2>1, <2>2, <2>4, <3>3, <3>4, <3>5 DEF Untouched, ProductEntered, Happened
    <2>5. CASE /\ child.role \notin {"recovery_install", "recovery_arm"}
               /\ child.todo # <<>> /\ child.todo[1] = Do("verify_arm")
      <3>1. \A op : At(op) => op = "verify_arm"
        BY <2>5, HeadOp DEF At, Do
      <3>2. At("verify_arm")
        BY <2>1, <2>5, HeadOp DEF At, Do
      <3>3. UNCHANGED <<gate, public, up, journal>>
        BY <3>1, HostMoves DEF RenameNext
      <3>4. d.ends # "no"
        BY <2>1, <3>2, ObligedOrStopped DEF Untouched
      <3> QED BY <2>1, <2>2, <2>5, <3>3, <3>4 DEF Untouched, ProductEntered, Happened
    <2> QED BY <2>1, <2>3, <2>4, <2>5
  <1> QED BY <1>1, <1>2 DEF HostTyped

\* What the supervisor makes of a capture, of a call it did not see the end of, and of
\* the result of its own child.
Replayed(r) ==
    IF r.identity # "unseen" /\ Accepts(engine, r) THEN Applied(engine, r) ELSE FailedFromEvidence

\* The result the supervisor takes is that of the role it called.
LEMMA OwnResult ==
  ASSUME TypeInv, OrderKept, HostKept, Reported
  PROVE  /\ child.role = Role /\ child.ends \in {"success", "rejected", "lost"}
         /\ Running(engine) /\ Key \in intents \ DOMAIN captures /\ Key[1] = Role /\ Role \in Roles
  <1>1. ChildSound(child) /\ EngineSound(engine) /\ ChildKept(child)
    BY DEF TypeInv, EngineTyped, ChildrenTyped, HostKept
  <1>2. child.role = Role /\ Running(engine) /\ Key \in intents \ DOMAIN captures
    BY DEF Reported, Own, OrderKept, ChildAwaited, OwnChild
  <1>3. Role \in Roles /\ Key[1] = Role
    BY <1>1, <1>2, NextCallSound
  <1>4. child.ends \in {"none", "no", "success", "rejected", "lost"} /\ child.ends # "no"
    BY <1>1 DEF ChildSound, ChildRow, Reported
  <1>5. child.ends # "none"
    BY <1>1, <1>2, <1>3 DEF ChildKept, Roles, ReadinessRoles, HardRoles, ContinuityRoles, ConvergenceRoles
  <1> QED BY <1>2, <1>3, <1>4, <1>5

\* The capture of a call, and what it is taken for.
LEMMA Captured ==
  ASSUME TypeInv, OrderKept, HostKept, TakeCapture
  PROVE  \E r \in ResultRow :
            /\ captures' = [k \in DOMAIN captures \cup {Key} |-> IF k = Key THEN r ELSE captures[k]]
            /\ r.role = Role /\ engine' = AfterRole(Replayed(r)) /\ TrueScope(r)
            /\ r.ok => /\ child.ends = "success" /\ r = Result /\ r.identity # "unseen"
                       /\ r.identity = child.identity /\ r.restore = child.restore /\ r.state = child.state
            /\ child.ends = "success" => r.ok
            /\ ~r.ok => Told(r) \/ r.role # "recovery_install" \/ ~obligation
  <1>1. /\ child.role = Role /\ child.ends \in {"success", "rejected", "lost"}
        /\ Running(engine) /\ Role \in Roles /\ child \in ChildRow /\ ChildKept(child) /\ ChildSound(child)
    BY OwnResult DEF TakeCapture, TypeInv, ChildrenTyped, ChildSound, HostKept
  <1>2. PICK r \in ResultRow : r = IF child.ends = "lost" THEN Unseen(child.role) ELSE Result
    BY <1>1, ResultIsResult
  <1>3. captures' = [k \in DOMAIN captures \cup {Key} |-> IF k = Key THEN r ELSE captures[k]]
    BY <1>2 DEF TakeCapture
  <1>4. CASE child.ends = "lost"
    <2>1. r.role = Role /\ ~r.ok /\ r.identity = "unseen"
      BY <1>1, <1>2, <1>4 DEF Unseen, Refusal
    <2> QED BY <1>2, <1>3, <1>4, <2>1 DEF TakeCapture, Replayed, TrueScope, Told
  <1>5. CASE child.ends = "rejected"
    <2>1. r.role = Role /\ ~r.ok /\ r.identity = "none" /\ r = Result /\ r.scope = ResultScope
      BY <1>1, <1>2, <1>5 DEF Result, Refusal
    <2>2. Role = "recovery_install" /\ obligation => r.scope = "recovery_infrastructure"
      BY <1>1, <1>5, <2>1 DEF ResultScope
    <2> QED BY <1>3, <1>5, <2>1, <2>2 DEF TakeCapture, Replayed, TrueScope, Told
  <1>6. CASE child.ends = "success"
    <2>1. /\ r.role = Role /\ r.ok /\ r = Result /\ r.scope = ResultScope
          /\ r.identity = child.identity /\ r.restore = child.restore /\ r.state = child.state
      BY <1>1, <1>2, <1>6 DEF Result
    <2>2. r.identity # "unseen"
      BY <1>1, <2>1 DEF ChildRow
    <2>3. TrueScope(r)
      BY <1>1, <1>6, <2>1 DEF TrueScope, ResultScope, ChildKept
    <2> QED BY <1>3, <1>6, <2>1, <2>2, <2>3 DEF TakeCapture, Replayed
  <1> QED BY <1>1, <1>4, <1>5, <1>6

\* An engine that is given a result keeps to its order.
LEMMA ReplayedKept ==
  ASSUME EngineSound(engine), EngineKept(engine), Running(engine), NEW r \in ResultRow, TrueScope(r)
  PROVE  EngineKept(Replayed(r)) /\ EngineSound(Replayed(r))
  <1>1. EngineSound(Replayed(r))
    BY CaptureSound DEF Replayed
  <1>2. EngineKept(FailedFromEvidence)
    BY FailedKept DEF FailedFromEvidence, Role, ResultScopes
  <1> QED BY <1>1, <1>2, AppliedKept DEF Replayed

\* So does one whose recovery aborts after a reconcile.
LEMMA AfterRoleKept ==
  ASSUME NEW e, EngineSound(e), EngineKept(e)
  PROVE  EngineKept(AfterRole(e))
  BY AbortedKept DEF AfterRole

\* Every step keeps the engine to its order.
LEMMA EngineStaysKept ==
  ASSUME TypeInv, InstallInv, ActivationNext
  PROVE  EngineKept(engine')
  <1>1. EngineSound(engine) /\ EngineKept(engine) /\ OrderKept /\ HostKept /\ CapturesKept
    BY DEF TypeInv, EngineTyped, InstallInv
  <1>2. CASE engine' = engine
    BY <1>1, <1>2
  <1>3. CASE PreparePlan \/ BeginRecovery
    BY <1>3, NewEngineKept DEF PreparePlan, BeginRecovery
  <1>4. CASE CallConsumed \/ RoleNotStarted \/ CaptureNotPersisted
    <2>1. Running(engine) /\ engine' = AfterRole(FailedFromEvidence)
      BY <1>4, OwnResult, <1>1 DEF CallConsumed, RoleNotStarted, CaptureNotPersisted, Driving
    <2>2. EngineKept(FailedFromEvidence)
      BY <1>1, <2>1, FailedKept DEF FailedFromEvidence, Role, ResultScopes
    <2> QED BY <1>1, <2>1, <2>2, NextCallSound, AfterRoleKept
  <1>5. CASE TakeCapture
    BY <1>1, <1>5, OwnResult, Captured, ReplayedKept, AfterRoleKept DEF TakeCapture
  <1>6. CASE ReplayFailure \/ ReplayInterrupted
    BY <1>1, <1>6, FailedKept
       DEF FailedFromEvidence, Role, ResultScopes, ReplayFailure, ReplayInterrupted, Replaying
  <1>7. CASE ReplayCapture
    <2>1. PICK r \in ResultRow : r = captures[Key] /\ Key \in DOMAIN captures /\ engine' = Replayed(r)
      BY <1>7 DEF ReplayCapture, TypeInv, EvidenceTyped, Replayed
    <2>2. TrueScope(r)
      BY <1>1, <2>1 DEF CapturesKept, TrueScope
    <2> QED BY <1>1, <1>7, <2>1, <2>2, ReplayedKept DEF ReplayCapture, Replaying
  <1>8. CASE Resolve
    <2>1. engine' = Resolved(engine, mode = "forced")
      BY <1>8 DEF Resolve, Resolved
    <2>2. (mode = "forced") \in BOOLEAN
      OBVIOUS
    <2> QED BY <1>1, <2>1, <2>2, ResolvedKept
  <1> QED BY <1>2, <1>3, <1>4, <1>5, <1>6, <1>7, <1>8, EngineFrame

\* The evidence of the calls: a capture that is taken is true of its call.
LEMMA ObligationStays == ASSUME ActivationNext, obligation PROVE obligation'
  BY HostFrame, HostMoves DEF RoleSteps, hostVars

\* Every step keeps the captures true of their calls.
LEMMA CapturesStayKept ==
  ASSUME TypeInv, CapturesKept, OrderKept, HostKept, ActivationNext
  PROVE  CapturesKept'
  <1>1. intents \subseteq intents' /\ (obligation => obligation')
    BY IntentsStep, ObligationStays
  <1>2. CASE captures' = captures
    BY <1>1, <1>2 DEF CapturesKept
  <1>3. CASE TakeCapture
    <2>1. PICK r \in ResultRow :
             /\ captures' = [k \in DOMAIN captures \cup {Key} |-> IF k = Key THEN r ELSE captures[k]]
             /\ r.role = Role /\ TrueScope(r)
             /\ r.ok => child.ends = "success" /\ r.identity # "unseen"
      BY <1>3, Captured
    <2>2. Key[1] = Role /\ child.role = Role /\ Key \in intents
      BY <1>3, OwnResult DEF TakeCapture
    <2>3. r.ok /\ Role = "recovery_install" => obligation
      BY <2>1, <2>2 DEF HostKept, Harmless
    <2>4. \A call \in DOMAIN captures : captures'[call] = captures[call] \/ call = Key
      BY <2>1
    <2>5. DOMAIN captures' = DOMAIN captures \cup {Key} /\ captures'[Key] = r
      BY <2>1
    <2> SUFFICES ASSUME NEW call \in DOMAIN captures'
                 PROVE  /\ call \in intents' /\ captures'[call].role = call[1]
                        /\ captures'[call].ok =>
                              /\ captures'[call].identity # "unseen"
                              /\ call[1] = "recovery_install" =>
                                    captures'[call].scope = "recovery_infrastructure" /\ obligation'
                              /\ call[1] = "converge" /\ captures'[call].restore = "infrastructure_only" =>
                                    captures'[call].scope # "product"
      BY DEF CapturesKept
    <2>6. CASE call = Key
      BY <1>1, <2>1, <2>2, <2>3, <2>5, <2>6 DEF TrueScope
    <2>7. CASE call # Key
      <3>1. call \in DOMAIN captures /\ captures'[call] = captures[call]
        BY <2>4, <2>5, <2>7
      <3> QED BY <1>1, <3>1 DEF CapturesKept
    <2> QED BY <2>6, <2>7
  <1> QED BY <1>2, <1>3, EvidenceFrame

\* The order of a generation.
LEMMA ForwardStep ==
  ASSUME TransitionKnown, ActivationNext, Forwarding'
  PROVE  Forwarding \/ (ManagerStarts /\ starts = 0)
  BY SupervisorFrame DEF Forwarding, TransitionKnown, PreparePlan

\* What the start of a manager leaves alone.
LEMMA StartsFrame ==
  ASSUME ManagerStarts
  PROVE  /\ UNCHANGED <<files, orphanVars, child, entries, engine, mode, evidenceVars>>
         /\ sup' = sup \/ sup' = "planning"
  BY DEF ManagerStarts, Keep

\* What a forward sequence leaves alone.
LEMMA ForwardFrame ==
  ASSUME ActivationNext, sup \notin {"off", "ended", "failed"}, manager \in {"forward", "recover"},
         sup' \notin {"off", "ended", "failed", "begin"}, Alone
  PROVE  UNCHANGED <<orphan, aside, files>>
  BY ActiveFrame DEF orphanVars, Alone, RoleSteps, Switch, PreparePlan, StartRole, CallConsumed,
     RoleNotStarted, TakeCapture, CaptureNotPersisted, BeginRecovery, ReplayFailure, ReplayInterrupted,
     ReplayCapture, ReplayEnds, Resolve, KeepEvidence

\* The steps, for the lemmas on who changes what.
USE DEF ActivationNext, RoleSteps, SupervisorSteps, SupervisorFaults, ManagerSteps,
        ManagerFaults, PreparePlan, StartRole, CallConsumed, TakeCapture, WriteTerminal,
        BeginRecovery, Keep, KeepEvidence, ReplayFailure, ReplayRejected, ReplayInterrupted,
        ReplayCapture, ReplayEnds, Resolve, PlanRejected, RoleNotStarted, ChildNotCreated,
        CaptureNotPersisted, TerminalNotPersisted, SupervisorDies, Switch, ManagerStarts,
        ForwardEnds, Discharge, IndexWritten, IndexRefused, CloseSettled, CloseRecovers,
        CloseRefused, RecoveryEnds, HardStopWritten, HardStopRefused, LastLook,
        ForwardCaptureLost, DischargeFails, IndexNotPersisted, HardStopNotPersisted, ManagerDies

\* What happens while the plan is prepared.
LEMMA PlanningFrame ==
  ASSUME ActivationNext, sup = "planning", sup' = "planning"
  PROVE  UNCHANGED <<mode, intents, failures, torn>>
  BY DEF evidenceVars, Driving, Reported, Finished, Replaying, SupervisorOver, Closing, Raised

\* Who ends the wait for a child.
LEMMA OwnFrame ==
  ASSUME ActivationNext, sup # "off" => manager \in {"forward", "recover"}
  PROVE  /\ sup = "waiting" /\ sup' # "waiting" => ~aside /\ aside' = aside /\ child' = NoChild
         /\ aside' = aside \/ Switch
         /\ (SupervisorDies \/ ManagerDies \/ TakeCapture \/ CaptureNotPersisted) =>
               ~aside /\ child' = NoChild
  BY DEF orphanVars, Driving, Reported, Finished, Replaying, SupervisorOver, Closing, Raised,
         CloseRaises, IndexRaises, Own

\* Where a sequence without a plan may go.
LEMMA PlanFrame ==
  ASSUME ActivationNext, sup \in {"off", "planning", "failed"}
  PROVE  /\ sup' \in {"off", "planning", "failed"} \/ PreparePlan \/ (CloseRecovers /\ NeedsRecovery)
         /\ intents' = intents
  BY DEF evidenceVars, Driving, Reported, Finished, Replaying, SupervisorOver, Closing, Raised

HIDE DEF ActivationNext, RoleSteps, SupervisorSteps, SupervisorFaults, ManagerSteps,
         ManagerFaults, PreparePlan, StartRole, CallConsumed, TakeCapture, WriteTerminal,
         BeginRecovery, Keep, KeepEvidence, ReplayFailure, ReplayRejected, ReplayInterrupted,
         ReplayCapture, ReplayEnds, Resolve, PlanRejected, RoleNotStarted, ChildNotCreated,
         CaptureNotPersisted, TerminalNotPersisted, SupervisorDies, Switch, ManagerStarts,
         ForwardEnds, Discharge, IndexWritten, IndexRefused, CloseSettled, CloseRecovers,
         CloseRefused, RecoveryEnds, HardStopWritten, HardStopRefused, LastLook,
         ForwardCaptureLost, DischargeFails, IndexNotPersisted, HardStopNotPersisted,
         ManagerDies

\* Before the first start there is nothing on disk.
LEMMA UnstartedStays ==
  ASSUME TypeInv, OrderKept, ActivationNext
  PROVE  Unstarted'
  <1> SUFFICES ASSUME starts' = 0 PROVE FALSE
    BY DEF Unstarted
  <1>1. starts \in 0..2
    BY DEF TypeInv, ProcessesTyped
  <1>2. starts = 0
    BY <1>1, CounterFrame
  <1>3. child = NoChild /\ Alone /\ manager = "off" /\ sup = "off"
    BY <1>2 DEF OrderKept, Unstarted
  <1>4. ~RoleSteps
    BY <1>3, ChildMoves DEF RoleSteps, NoChild, TypeInv, ChildrenTyped
  <1>5. ManagerStarts
    BY <1>3, <1>4, FirstFrame
  <1> QED BY <1>2, <1>5 DEF ManagerStarts

\* A forward sequence has no orphans and no files.
LEMMA ForwardStaysAlone ==
  ASSUME TypeInv, TransitionKnown, OrderKept, ActivationNext
  PROVE  ForwardAlone' /\ PlanningFresh'
  <1>1. CASE ManagerStarts /\ starts = 0
    <2>1. Alone /\ files = NoFiles /\ mode = "forward" /\ Fresh
      BY <1>1 DEF OrderKept, Unstarted
    <2>2. UNCHANGED <<files, orphanVars, mode, evidenceVars>>
      BY <1>1, StartsFrame
    <2> QED BY <2>1, <2>2 DEF ForwardAlone, PlanningFresh, Alone, orphanVars, Fresh, evidenceVars
  <1>2. ForwardAlone'
    <2> SUFFICES ASSUME Forwarding', ~(ManagerStarts /\ starts = 0) PROVE Alone' /\ files' = NoFiles
      BY <1>1 DEF ForwardAlone
    <2>1. Forwarding /\ Alone /\ files = NoFiles
      BY ForwardStep DEF OrderKept, ForwardAlone
    <2>2. sup \in {"planning", "drive", "waiting"} /\ sup' \in {"planning", "drive", "waiting"}
      BY <2>1 DEF Forwarding
    <2>3. manager \in {"forward", "recover"}
      BY <2>2 DEF OrderKept, ManagerAwaits
    <2>4. UNCHANGED <<orphan, aside, files>>
      BY <2>1, <2>2, <2>3, ForwardFrame
    <2> QED BY <2>1, <2>4 DEF Alone
  <1>3. PlanningFresh'
    <2> SUFFICES ASSUME sup' = "planning", ~(ManagerStarts /\ starts = 0) PROVE mode' = "forward" /\ Fresh'
      BY <1>1 DEF PlanningFresh
    <2>1. sup = "planning"
      BY SupervisorFrame
    <2> QED BY <2>1, PlanningFrame DEF OrderKept, PlanningFresh, Fresh
  <1> QED BY <1>2, <1>3

\* Only a waiting supervisor has a child.
LEMMA ChildStaysOwned ==
  ASSUME TypeInv, OrderKept, ActivationNext
  PROVE  ChildOwned'
  <1> SUFFICES ASSUME sup' # "waiting" PROVE OwnChild' = NoChild
    BY DEF ChildOwned
  <1>0. sup # "off" => manager \in {"forward", "recover"}
    BY DEF OrderKept, ManagerAwaits
  <1>1. CASE sup = "waiting"
    BY <1>0, <1>1, OwnFrame DEF OwnChild
  <1>2. CASE sup # "waiting"
    <2>1. OwnChild = NoChild
      BY <1>2 DEF OrderKept, ChildOwned
    <2>2. CASE RoleSteps
      <3>1. UNCHANGED <<orphan, aside>>
        BY <2>2 DEF RoleSteps, orphanVars
      <3>2. child.ends = "no"
        BY <2>2, ChildMoves DEF RoleSteps, TypeInv, ChildrenTyped
      <3>3. aside
        BY <2>1, <3>2 DEF OwnChild, NoChild
      <3> QED BY <2>1, <3>1, <3>3 DEF OwnChild
    <2>3. CASE Switch
      BY <2>1, <2>3 DEF Switch, OwnChild
    <2>4. CASE SupervisorDies \/ ManagerDies \/ TakeCapture \/ CaptureNotPersisted
      <3>1. ~aside /\ child' = NoChild /\ (aside' = aside \/ Switch)
        BY <1>0, <2>4, OwnFrame
      <3> QED BY <2>3, <3>1 DEF OwnChild
    <2>5. CASE UNCHANGED <<child, orphan>>
      BY <2>1, <2>3, <2>5, <1>0, OwnFrame DEF OwnChild
    <2>6. ~StartRole
      BY DEF StartRole
    <2> QED BY <2>2, <2>3, <2>4, <2>5, <2>6, ChildFrame
  <1> QED BY <1>1, <1>2

\* The child that is waited for is that of the next call.
LEMMA ChildStaysAwaited ==
  ASSUME TypeInv, CapturesKept, OrderKept, ActivationNext
  PROVE  ChildAwaited'
  <1> SUFFICES ASSUME sup' = "waiting"
               PROVE  MayRun' /\ Running(engine)' /\ Key' \in intents' \ DOMAIN captures' /\ OwnChild'.role = Role'
    BY DEF ChildAwaited
  <1>1. intents \subseteq intents'
    BY IntentsStep
  <1>2. CASE StartRole
    <2>1. /\ UNCHANGED <<engine, mode, captures, aside>> /\ aside = FALSE /\ MayRun /\ Running(engine)
          /\ Key \in intents' /\ Key \notin intents /\ child' = NewChild(Role)
      BY <1>2 DEF StartRole, Driving, Own, TypeInv, ProcessesTyped
    <2>2. MayRun' /\ Running(engine)' /\ Key' = Key /\ Role' = Role
      BY <2>1 DEF MayRun, Running, Key, Role
    <2>3. Key \notin DOMAIN captures
      BY <2>1 DEF CapturesKept
    <2>4. child'.role = Role
      BY <2>1, NextCallSound, NewChildSound DEF TypeInv, EngineTyped
    <2> QED BY <2>1, <2>2, <2>3, <2>4 DEF OwnChild
  <1>3. CASE sup = "waiting" /\ (RoleSteps \/ Switch \/ UNCHANGED <<engine, mode, captures, child, orphan, aside>>)
    <2>1. UNCHANGED <<engine, mode, captures>>
      BY <1>3 DEF RoleSteps, Switch, evidenceVars
    <2>2. MayRun /\ Running(engine) /\ Key \in intents \ DOMAIN captures /\ OwnChild.role = Role
      BY <1>3 DEF OrderKept, ChildAwaited
    <2>3. MayRun' /\ Running(engine)' /\ Key' = Key /\ Role' = Role
      BY <2>1, <2>2 DEF MayRun, Running, Key, Role
    <2>4. OwnChild'.role = OwnChild.role
      <3>1. CASE RoleSteps
        <4>1. child'.role = child.role
          BY <3>1, RoleStepChild DEF RoleSteps, TypeInv, ChildrenTyped
        <4> QED BY <3>1, <4>1 DEF RoleSteps, orphanVars, OwnChild
      <3>2. CASE Switch
        BY <3>2 DEF Switch, OwnChild
      <3>3. CASE UNCHANGED <<child, orphan, aside>>
        BY <3>3 DEF OwnChild
      <3> QED BY <1>3, <3>1, <3>2, <3>3
    <2> QED BY <1>1, <2>1, <2>2, <2>3, <2>4
  <1> QED BY <1>2, <1>3, StageFrame

\* A sequence that runs has no terminal yet, and a manager that waits for it.
LEMMA TerminalStaysOpen ==
  ASSUME TypeInv, TransitionKnown, OrderKept, ActivationNext
  PROVE  TerminalOpen' /\ ForcedEntered' /\ ManagerAwaits' /\ PlannedFirst'
  <1>1. ForcedEntered'
    <2>1. ForcedEntered
      BY DEF OrderKept
    <2>2. CASE CloseRecovers
      BY <2>2 DEF CloseRecovers, ForcedEntered
    <2>3. CASE entries' = entries
      BY <2>1, <2>2, <2>3, ModeFrame DEF ForcedEntered, PreparePlan
    <2> QED BY <2>2, <2>3, MarksFrame
  <1>2. ManagerAwaits'
    BY ManagerFrame DEF OrderKept, ManagerAwaits
  <1>3. PlannedFirst'
    <2> SUFFICES ASSUME ~planned' PROVE intents' = {} /\ sup' \in {"off", "planning", "failed"}
      BY DEF PlannedFirst
    <2>1. ~planned /\ ~PreparePlan
      <3>1. ~PreparePlan
        BY DEF PreparePlan
      <3> QED BY <3>1, MarksFrame
    <2>2. intents = {} /\ sup \in {"off", "planning", "failed"}
      BY <2>1 DEF OrderKept, PlannedFirst
    <2> QED BY <2>1, <2>2, PlanFrame DEF NeedsRecovery
  <1>4. TerminalOpen'
    <2> SUFFICES ASSUME sup' \in {"replay", "resolve", "drive", "waiting"} PROVE files'[TerminalName'] = Absent
      BY DEF TerminalOpen
    <2>1. sup \notin {"off", "ended", "failed"}
      BY StageFrame
    <2>2. manager \in {"forward", "recover"}
      BY <2>1 DEF OrderKept, ManagerAwaits
    <2>3. files' = files /\ (mode' = mode \/ PreparePlan)
      BY <2>1, <2>2, ActiveFrame
    <2>4. CASE sup = "planning"
      <3>1. files = NoFiles
        BY <2>4 DEF OrderKept, ForwardAlone, Forwarding
      <3> QED BY <2>3, <3>1 DEF NoFiles, TerminalName
    <2>5. CASE sup # "planning" /\ sup # "begin"
      <3>1. sup \in {"replay", "resolve", "drive", "waiting"} /\ mode' = mode
        <4>1. ~PreparePlan
          BY <2>5 DEF PreparePlan
        <4>2. sup' \in {"drive", "waiting", "replay", "resolve"} =>
                 sup \in {"replay", "resolve", "drive", "waiting", "planning", "begin"}
          BY StageFrame DEF StartRole, Driving, BeginRecovery, ReplayEnds, ReplayInterrupted, Replaying
        <4> QED BY <2>3, <2>5, <4>1, <4>2
      <3> QED BY <2>3, <3>1 DEF OrderKept, TerminalOpen, TerminalName
    <2>6. CASE sup = "begin"
      <3>1. BeginRecovery /\ sup' = "replay"
        BY <2>6, StageFrame DEF StartRole, Driving, ReplayEnds, ReplayInterrupted, Replaying
      <3>2. mode' = mode /\ mode \in {"recovery", "forced"}
        BY <2>6, <3>1 DEF BeginRecovery, KeepEvidence, TransitionKnown, OrderKept, ForcedEntered
      <3> QED BY <2>3, <3>1, <3>2 DEF BeginRecovery, TerminalName
    <2> QED BY <2>4, <2>5, <2>6
  <1> QED BY <1>1, <1>2, <1>3, <1>4

\* Every step keeps the types of the files.
LEMMA FilesStayTyped ==
  ASSUME TypeInv, FilesTyped, ActivationNext
  PROVE  FilesTyped'
  <1> DEFINE Names == {"terminal", "recovery", "discharge", "hardstop", "strategy"}
  <1>1. /\ Absent \in FileRow /\ TornFile \in FileRow
        /\ \A s \in Statuses \cup {"none", "target_accepted", "unmodified", "predecessor_converged", "unknown"} :
              Valid(s) \in FileRow
    BY DEF Absent, TornFile, Valid, FileRow, Restores, Statuses
  <1>2. Receipt(engine) \in FileRow
    <2>1. engine \in EngineRow
      BY DEF TypeInv, EngineTyped, EngineSound
    <2>2. RestoreScope(engine) \in Restores /\ engine.status \in Statuses
      BY <2>1 DEF RestoreScope, Restores, EngineRow
    <2> QED BY <2>2 DEF Receipt, FileRow
  <1>3. ASSUME NEW n \in Names, NEW v \in FileRow, files' = [files EXCEPT ![n] = v]
        PROVE  FilesTyped'
    BY <1>3 DEF FilesTyped
  <1>4. CASE WriteTerminal
    <2>1. TerminalName \in Names
      BY DEF TerminalName
    <2> QED BY <1>2, <1>3, <1>4, <2>1 DEF WriteTerminal
  <1>5. CASE TerminalNotPersisted
    <2>1. TerminalName \in Names
      BY DEF TerminalName
    <2> QED BY <1>1, <1>3, <1>5, <2>1 DEF TerminalNotPersisted
  <1>6. CASE Discharge
    <2>1. "accepted" \in Statuses /\ files' = [files EXCEPT !["discharge"] = Valid("accepted")]
      BY <1>6 DEF Discharge, Statuses
    <2> QED BY <1>1, <1>3, <2>1
  <1>7. CASE DischargeFails \/ IndexNotPersisted \/ HardStopNotPersisted
    <2>1. \E n \in Names, v \in {Absent, TornFile} : files' = [files EXCEPT ![n] = v]
      BY <1>7 DEF DischargeFails, IndexNotPersisted, HardStopNotPersisted
    <2> QED BY <1>1, <1>3, <2>1
  <1>8. CASE IndexWritten
    <2>1. Indexed \in {"target_accepted", "unmodified", "predecessor_converged", "unknown"}
      BY DEF Indexed, ProductState
    <2>2. files' = [files EXCEPT !["strategy"] = Valid(Indexed)]
      BY <1>8 DEF IndexWritten
    <2> QED BY <1>1, <1>3, <2>1, <2>2
  <1>9. CASE CloseSettled
    <2>1. files.recovery \in FileRow /\ Valid("premutation") \in FileRow
      BY <1>1 DEF FilesTyped, Statuses
    <2>2. \E v \in FileRow : files' = [files EXCEPT !["recovery"] = v]
      BY <1>9, <2>1 DEF CloseSettled
    <2> QED BY <1>3, <2>2
  <1>10. CASE HardStopWritten
    <2>1. SequenceTerminal \in FileRow
      BY <1>1 DEF FilesTyped, SequenceTerminal
    <2>2. HardStop \in FileRow
      <3>1. SequenceTerminal.status \in Statuses \cup {"none", "target_accepted", "unmodified", "predecessor_converged", "unknown"}
        BY <2>1 DEF FileRow
      <3> QED BY <1>1, <3>1 DEF HardStop, Statuses
    <2>3. files' = [files EXCEPT !["hardstop"] = HardStop]
      BY <1>10 DEF HardStopWritten
    <2> QED BY <1>3, <2>2, <2>3
  <1>11. CASE files' = files
    BY <1>11 DEF FilesTyped
  <1> QED BY <1>4, <1>5, <1>6, <1>7, <1>8, <1>9, <1>10, <1>11, FilesFrame

\* Every step keeps the order of the processes.
LEMMA OrderStaysKept ==
  ASSUME TypeInv, TransitionKnown, CapturesKept, OrderKept, ActivationNext
  PROVE  OrderKept'
  BY UnstartedStays, ForwardStaysAlone, ChildStaysOwned, ChildStaysAwaited, TerminalStaysOpen, FilesStayTyped
  DEF OrderKept

\* A role that failed without a result is a refused one, of the scope that is feared.
LEMMA FailedForm ==
  ASSUME EngineSound(engine), Running(engine)
  PROVE  \E q \in ResultRow :
            /\ ~q.ok /\ q.role = Role /\ q.forward /\ FailedFromEvidence = Refused(engine, q)
            /\ Role = "recovery_install" /\ engine.claimed => q.scope = "recovery_infrastructure"
  <1>1. Role \in Roles
    BY NextRoles DEF Role
  <1>2. PICK s \in ResultScopes :
           /\ FailedFromEvidence = Refused(engine, Refusal(Role, s, TRUE))
           /\ Role = "recovery_install" /\ engine.claimed => s = "recovery_infrastructure"
    <2>1. PICK p \in {"recovery_infrastructure", "none"} : FailedFromEvidence = Failed(engine, Role, p)
      BY DEF FailedFromEvidence
    <2>2. "recovery_install" \in FailureToConverge
      BY DEF FailureToConverge
    <2> QED BY <2>1, <2>2 DEF Failed, ResultScopes
  <1>3. PICK q : q = Refusal(Role, s, TRUE)
    OBVIOUS
  <1>4. q \in ResultRow /\ q.role = Role /\ ~q.ok
    BY <1>1, <1>3, RefusalRow
  <1>5. q.forward /\ q.scope = s
    BY <1>3 DEF Refusal
  <1> QED BY <1>2, <1>3, <1>4, <1>5

\* What a result makes of the engine: believed, refused, or as good as none.
LEMMA ReplayedCases ==
  ASSUME EngineSound(engine), Running(engine), NEW r \in ResultRow
  PROVE  \/ /\ r.ok /\ r.role = Role /\ Believable(engine, r) /\ r.identity # "unseen"
            /\ Replayed(r) = Succeeded(engine, r)
         \/ /\ ~r.ok /\ r.role = Role /\ r.identity # "unseen" /\ Replayed(r) = Refused(engine, r)
         \/ /\ r.identity = "unseen" \/ ~Accepts(engine, r)
            /\ Replayed(r) = FailedFromEvidence
  BY DEF Replayed, Accepts, Applied, Role

\* What is left of an engine after a role that was refused it, and what aborting leaves.
LEMMA RefusedRuns ==
  ASSUME EngineSound(engine), NEW r \in ResultRow, NEW f, f = Refused(engine, r), Running(f), ~f.converging
  PROVE  f.role = "continuity_transition"
  BY RefusedRow DEF EngineSound

\* What the abort after a reconcile may change.
LEMMA AfterRoleFields ==
  ASSUME NEW e, EngineSound(e), EngineKept(e), NEW f, f = AfterRole(e)
  PROVE  /\ f.role = e.role /\ f.calls = e.calls
         /\ mode = "forward" \/ Role # "continuity_reconcile" \/ ~Running(e) => f = e
         /\ ~Running(e) => f = e
         /\ Running(f) /\ ~f.converging => f = e
         /\ f.status = e.status \/ f.status = "premutation"
  <1>1. CASE mode # "forward" /\ Role = "continuity_reconcile" /\ Running(e)
    <2>1. f = Aborted(e) /\ e \in EngineRow /\ e.status = "running"
      BY <1>1 DEF AfterRole, EngineSound, Running
    <2>2. CASE e.transition = "transition_ambiguous"
      BY <1>1, <2>1, <2>2 DEF Aborted
    <2>3. CASE e.transition # "transition_ambiguous" /\ e.claimed /\ e.product
      <3>1. f = [e EXCEPT !.scope = "none", !.converging = TRUE]
        BY <2>1, <2>3 DEF Aborted
      <3> QED BY <1>1, <2>1, <3>1 DEF EngineRow
    <2>4. CASE e.transition # "transition_ambiguous" /\ e.claimed /\ ~e.product /\ e.infra
      <3>1. f = [e EXCEPT !.scope = "infrastructure_only", !.converging = TRUE]
        BY <2>1, <2>4 DEF Aborted
      <3> QED BY <1>1, <2>1, <3>1 DEF EngineRow
    <2>5. CASE e.transition # "transition_ambiguous" /\ ~(e.claimed /\ e.product) /\ ~(e.claimed /\ e.infra)
      <3>1. f = [e EXCEPT !.status = "premutation"]
        BY <2>1, <2>5 DEF Aborted
      <3> QED BY <1>1, <2>1, <3>1 DEF EngineRow, Running
    <2> QED BY <2>2, <2>3, <2>4, <2>5
  <1>2. CASE ~(mode # "forward" /\ Role = "continuity_reconcile" /\ Running(e))
    BY <1>2 DEF AfterRole
  <1> QED BY <1>1, <1>2

\* A recovery resolves no engine to one that still goes forward, but for an ambiguous
\* transition it has to reconcile.
LEMMA ResolvedRuns ==
  ASSUME NEW e, EngineSound(e), EngineKept(e), NEW forced \in BOOLEAN, NEW f, f = Resolved(e, forced),
         Running(f), ~f.converging
  PROVE  f = e /\ e.role = "continuity_transition" /\ e.transition = "transition_ambiguous"
  <1>1. CASE Running(e) /\ ~e.product /\ obligation /\ f = Aborted(Bound(e))
    <2>1. f.status # "premutation"
      BY DEF Running
    <2> QED BY <1>1, <2>1, BoundAborted DEF EngineKept, ScopeKept, Running
  <1>2. CASE Running(e) /\ ~(~e.product /\ obligation) /\ f = Aborted(e)
    <2>1. e \in EngineRow
      BY DEF EngineSound
    <2>2. CASE e.transition = "transition_ambiguous"
      BY <1>2, <2>2, AmbiguousProduct DEF Aborted
    <2>3. CASE e.transition # "transition_ambiguous"
      BY <1>2, <2>1, <2>3 DEF Aborted, EngineRow, Running
    <2> QED BY <2>2, <2>3
  <1>3. CASE e.status = "accepted" /\ forced /\ f = Aborted(Reopened(e))
    BY <1>3, ReopenedAborted
  <1>4. CASE ~Running(e) /\ f = e
    BY <1>4
  <1> QED BY <1>1, <1>2, <1>3, <1>4, ResolvedCases

\* The engine only comes past the installation after a success of it.
LEMMA InstalledBy ==
  ASSUME TypeInv, InstallInv, ActivationNext, NEW f, f = engine', Running(f), ~f.converging,
         f.role = "recovery_install"
  PROVE  engine' = engine \/ obligation
  <1>1. EngineSound(engine) /\ EngineKept(engine) /\ OrderKept /\ HostKept /\ CapturesKept
    BY DEF TypeInv, EngineTyped, InstallInv
  <1>2. CASE PreparePlan \/ BeginRecovery
    BY <1>2 DEF PreparePlan, BeginRecovery, NewEngine
  <1>3. ASSUME Running(engine), NEW e, NEW q \in ResultRow, e = Refused(engine, q),
               EngineSound(e), EngineKept(e), f = e \/ f = AfterRole(e)
        PROVE  FALSE
    <2>1. f = e
      BY <1>3, AfterRoleFields
    <2> QED BY <1>1, <1>3, <2>1, RefusedRuns
  <1>4. ASSUME Running(engine) PROVE EngineSound(FailedFromEvidence) /\ EngineKept(FailedFromEvidence)
    BY <1>1, <1>4, FailedKept, NextCallSound DEF FailedFromEvidence, Role, ResultScopes
  <1>5. ASSUME Running(engine), f = FailedFromEvidence \/ f = AfterRole(FailedFromEvidence)
        PROVE  FALSE
    BY <1>1, <1>3, <1>4, <1>5, FailedForm
  <1>6. ASSUME Running(engine), NEW r \in ResultRow, TrueScope(r),
               f = Replayed(r) \/ f = AfterRole(Replayed(r))
        PROVE  r.ok /\ r.role = "recovery_install" /\ Role = "recovery_install"
    <2>1. PICK e : e = Replayed(r)
      OBVIOUS
    <2>2. EngineSound(e) /\ EngineKept(e)
      BY <1>1, <1>6, <2>1, ReplayedKept
    <2>3. f = e
      BY <1>6, <2>1, <2>2, AfterRoleFields
    <2>4. r.ok /\ r.role = Role /\ e = Succeeded(engine, r) /\ Believable(engine, r)
      BY <1>1, <1>3, <1>5, <1>6, <2>1, <2>2, <2>3, ReplayedCases
    <2>5. e.role = r.role
      BY <1>1, <2>4, SucceededRow DEF EngineSound
    <2> QED BY <2>3, <2>4, <2>5
  <1>7. CASE CallConsumed \/ RoleNotStarted \/ CaptureNotPersisted
    <2>1. Running(engine) /\ engine' = AfterRole(FailedFromEvidence)
      BY <1>1, <1>7, OwnResult DEF CallConsumed, RoleNotStarted, CaptureNotPersisted, Driving
    <2> QED BY <1>5, <2>1
  <1>8. CASE TakeCapture
    <2>1. PICK r \in ResultRow : /\ engine' = AfterRole(Replayed(r)) /\ TrueScope(r)
                                 /\ r.ok => child.ends = "success"
      BY <1>1, <1>8, Captured
    <2>2. Running(engine) /\ child.role = Role
      BY <1>1, <1>8, OwnResult DEF TakeCapture
    <2>3. r.ok /\ Role = "recovery_install"
      BY <1>6, <2>1, <2>2
    <2> QED BY <1>1, <2>1, <2>2, <2>3 DEF HostKept, Harmless
  <1>9. CASE ReplayFailure \/ ReplayInterrupted
    BY <1>5, <1>9 DEF ReplayFailure, ReplayInterrupted, Replaying
  <1>10. CASE ReplayCapture
    <2>1. PICK r \in ResultRow : r = captures[Key] /\ Key \in DOMAIN captures /\ engine' = Replayed(r)
      BY <1>10 DEF ReplayCapture, TypeInv, EvidenceTyped, Replayed
    <2>2. Running(engine) /\ TrueScope(r)
      BY <1>1, <1>10, <2>1 DEF CapturesKept, TrueScope, ReplayCapture, Replaying
    <2>3. r.ok /\ Key[1] = "recovery_install"
      BY <1>1, <1>6, <2>1, <2>2, NextCallSound
    <2> QED BY <1>1, <2>1, <2>3 DEF CapturesKept
  <1>11. CASE Resolve
    <2>1. f = Resolved(engine, mode = "forced")
      BY <1>11 DEF Resolve, Resolved
    <2>2. (mode = "forced") \in BOOLEAN
      OBVIOUS
    <2> QED BY <1>1, <2>1, <2>2, ResolvedRuns
  <1> QED BY <1>2, <1>7, <1>8, <1>9, <1>10, <1>11, EngineFrame

\* What is not obliged stays untouched, whoever steps.
LEMMA ChildrenAre ==
  ASSUME TypeInv, HostKept, ActivationNext, ~RoleSteps, NEW c \in {child', orphan'}
  PROVE  c \in {child, orphan, NoChild} \/ (StartRole /\ c = NewChild(Role))
  BY ChildFrame DEF StartRole, TakeCapture, CaptureNotPersisted, SupervisorDies, Switch, ManagerDies, orphanVars

\* Every step keeps what the host and its children are known to be.
LEMMA HostStaysKept ==
  ASSUME TypeInv, InstallInv, ActivationNext
  PROVE  HostKept'
  <1>1. EngineSound(engine) /\ EngineKept(engine) /\ OrderKept /\ HostKept /\ ChildSound(child) /\ HostTyped
    BY DEF TypeInv, EngineTyped, InstallInv, ChildrenTyped
  <1>2. (Running(engine) /\ ~engine.converging /\ engine.role = "recovery_install" => obligation)'
    <2> SUFFICES ASSUME Running(engine'), ~engine'.converging, engine'.role = "recovery_install"
                 PROVE  obligation'
      BY DEF Running
    <2>1. engine' = engine \/ obligation
      BY InstalledBy
    <2> QED BY <1>1, <2>1, ObligationStays DEF HostKept
  <1>3. CASE RoleSteps
    <2>1. PICK d : d = child'
      OBVIOUS
    <2>2. (~obligation' => Untouched') /\ Harmless(child)'
      BY <1>1, <1>3, HarmlessStep DEF RoleSteps, Harmless
    <2>3. orphan' = orphan
      BY <1>3 DEF RoleSteps, orphanVars
    <2>4. Harmless(orphan)'
      BY <1>1, <2>3, ObligationStays DEF HostKept, Harmless
    <2>5. ChildKept(d)
      BY <1>1, <1>3, <2>1, ChildStaysKept DEF HostKept, RoleSteps
    <2>6. ChildKept(child)' /\ ChildKept(orphan)'
      BY <1>1, <2>1, <2>3, <2>5 DEF HostKept
    <2> QED BY <1>2, <2>2, <2>4, <2>6 DEF HostKept
  <1>4. CASE ~RoleSteps
    <2>1. UNCHANGED hostVars
      BY <1>4, HostFrame
    <2>2. ~obligation' => Untouched'
      BY <1>1, <2>1 DEF HostKept, hostVars, Untouched, ProductEntered, Happened
    <2>3. Harmless(NoChild) /\ ChildKept(NoChild)
      <3>1. Len(NoChild.todo) = 0
        BY DEF NoChild
      <3> QED BY <3>1 DEF NoChild, Harmless, ChildKept, MeekChild
    <2>4. StartRole => Harmless(NewChild(Role)) /\ ChildKept(NewChild(Role))
      BY <1>1, NewChildHarmless, NewChildKept, NextCallSound DEF StartRole, Driving
    <2>5. \A c \in {child', orphan'} : Harmless(c) /\ ChildKept(c)
      BY <1>1, <1>4, <2>3, <2>4, ChildrenAre DEF HostKept
    <2>6. Harmless(child)' /\ Harmless(orphan)'
      BY <2>1, <2>5 DEF Harmless, hostVars
    <2>7. ChildKept(child)' /\ ChildKept(orphan)'
      BY <2>5
    <2> QED BY <1>2, <2>2, <2>6, <2>7 DEF HostKept
  <1> QED BY <1>3, <1>4

\* The part of it that says what follows.
LEMMA RefusedStatus ==
  ASSUME NEW e \in EngineRow, NEW r \in ResultRow, NEW f, f = Refused(e, r)
  PROVE  \/ r.role = "continuity_transition" /\ f.status = e.status /\ f.converging = e.converging
         \/ e.converging /\ r.role \in ConvergenceRoles /\ f.status = "convergence_failed" /\ f.converging
         \/ (f.product \/ f.infra) /\ r.role \in FailureToConverge /\ f.status = e.status /\ f.converging
         \/ /\ ~(e.converging /\ r.role \in ConvergenceRoles)
            /\ ~((f.product \/ f.infra) /\ r.role \in FailureToConverge)
            /\ f.status = "premutation" /\ f.converging = e.converging
  <1>1.  /\ f \in EngineRow /\ f.role = r.role /\ f.calls = [e.calls EXCEPT ![r.role] = @ + 1]
         /\ f.claimed = e.claimed
         /\ f.product <=> (e.product \/ r.scope = "product")
         /\ f.infra <=> (e.infra \/ r.scope = "recovery_infrastructure")
         /\ \/ /\ r.role = "continuity_transition" /\ r.forward
               /\ f.status = e.status /\ f.converging = e.converging /\ f.scope = e.scope
               /\ f.transition = "transition_ambiguous"
            \/ /\ e.converging /\ r.role \in ConvergenceRoles
               /\ f.status = "convergence_failed" /\ f.converging
               /\ f.scope = e.scope /\ f.transition = e.transition
            \/ /\ f.product \/ f.infra
               /\ r.role \in FailureToConverge /\ ~(e.converging /\ r.role \in ConvergenceRoles)
               /\ f.status = e.status /\ f.converging
               /\ f.scope = IF f.infra /\ ~f.product THEN "infrastructure_only" ELSE e.scope
               /\ f.transition = e.transition
            \/ /\ ~(e.converging /\ r.role \in ConvergenceRoles)
               /\ ~((f.product \/ f.infra) /\ r.role \in FailureToConverge)
               /\ f.status = "premutation" /\ f.converging = e.converging
               /\ f.scope = e.scope /\ f.transition = e.transition
    BY RefusedFields
  <1> QED BY <1>1

\* A refusal takes back no scope.
LEMMA RefusedKeeps ==
  ASSUME NEW e \in EngineRow, NEW r \in ResultRow, NEW f, f = Refused(e, r)
  PROVE  /\ e.product => f.product
         /\ e.infra => f.infra
         /\ r.scope = "recovery_infrastructure" => f.infra
  <1>1.  /\ f \in EngineRow /\ f.role = r.role /\ f.calls = [e.calls EXCEPT ![r.role] = @ + 1]
         /\ f.claimed = e.claimed
         /\ f.product <=> (e.product \/ r.scope = "product")
         /\ f.infra <=> (e.infra \/ r.scope = "recovery_infrastructure")
         /\ \/ /\ r.role = "continuity_transition" /\ r.forward
               /\ f.status = e.status /\ f.converging = e.converging /\ f.scope = e.scope
               /\ f.transition = "transition_ambiguous"
            \/ /\ e.converging /\ r.role \in ConvergenceRoles
               /\ f.status = "convergence_failed" /\ f.converging
               /\ f.scope = e.scope /\ f.transition = e.transition
            \/ /\ f.product \/ f.infra
               /\ r.role \in FailureToConverge /\ ~(e.converging /\ r.role \in ConvergenceRoles)
               /\ f.status = e.status /\ f.converging
               /\ f.scope = IF f.infra /\ ~f.product THEN "infrastructure_only" ELSE e.scope
               /\ f.transition = e.transition
            \/ /\ ~(e.converging /\ r.role \in ConvergenceRoles)
               /\ ~((f.product \/ f.infra) /\ r.role \in FailureToConverge)
               /\ f.status = "premutation" /\ f.converging = e.converging
               /\ f.scope = e.scope /\ f.transition = e.transition
    BY RefusedFields
  <1> QED BY <1>1

\* The status after a success.
LEMMA SucceededStatus ==
  ASSUME NEW e \in EngineRow, NEW r \in ResultRow, Believable(e, r), NEW f, f = Succeeded(e, r)
  PROVE  /\ f.role = r.role
         /\ f.status = IF r.role # "postflight" THEN e.status
                       ELSE IF e.converging THEN "converged" ELSE "accepted"
         /\ r.role \notin ContinuityRoles => f.converging = e.converging
  <1>1.  /\ f \in EngineRow /\ f.role = r.role /\ f.calls = [e.calls EXCEPT ![r.role] = @ + 1]
         /\ f.claimed <=> (e.claimed \/ r.role = "claim")
         /\ f.scope = e.scope
         /\ r.role \notin {"converge", "recover"} =>
               (f.product <=> (e.product \/ r.scope = "product" \/ r.role \in HardRoles))
         /\ r.role = "converge" =>
               (f.product <=> (e.product \/ r.scope = "product" \/ e.scope # "infrastructure_only"))
         /\ r.role = "recover" => ~f.product
         /\ r.role # "recover" => (f.infra <=> (e.infra \/ r.scope = "recovery_infrastructure"))
         /\ f.status = IF r.role # "postflight" THEN e.status
                       ELSE IF e.converging THEN "converged" ELSE "accepted"
         /\ r.role \notin ContinuityRoles =>
               f.transition = e.transition /\ f.converging = e.converging /\ f.forward = e.forward
         /\ r.role \in ContinuityRoles =>
               /\ f.transition = r.state /\ r.state \in Outcomes[r.role]
               /\ f.converging <=> (e.converging \/ r.state = "reconciled_not_committed")
    BY SucceededFields
  <1> QED BY <1>1

\* The calls before the product, and what a refusal makes of each of them.
LEMMA RankOf ==
  \A x, y \in Shallow \cup {"recovery_install"} :
     /\ Rank[x] \in 1..10 /\ (Rank[x] = Rank[y] => x = y) /\ (Rank[x] <= 9 <=> x \in Shallow)
     /\ Rank[x] = 9 => x = "stage"
  BY DEF Rank, Shallow, ReadinessRoles

\* The next call of an engine before the installation.
LEMMA EarlyCall ==
  ASSUME EngineSound(engine), EngineKept(engine), Running(engine), ~engine.converging, ~Reached(engine.role)
  PROVE  /\ Role \in Shallow \cup {"recovery_install"} /\ Key = <<Role, 1>>
         /\ Rank[Role] = Rank[engine.role] + 1 /\ Rank[engine.role] \in 0..9
         /\ Role = "recovery_install" => engine.claimed /\ Rank[engine.role] = 9
         /\ Role \notin ConvergenceRoles /\ Role \notin ContinuityRoles
  <1>1. /\ Role \in Shallow \cup {"recovery_install"}
        /\ Rank[Role] = Rank[engine.role] + 1 /\ Rank[engine.role] \in 0..9
    BY NextKept DEF Role
  <1>2. engine.calls[Role] = 0
    BY <1>1 DEF EngineKept, CountKept
  <1>3. Key = <<Role, 1>>
    BY <1>2 DEF Key, NextCall, Role
  <1>4. Role = "recovery_install" => engine.role = "stage"
    <2>1. engine.role \in Shallow \cup {"none"}
      BY DEF Reached
    <2>2. Rank["recovery_install"] = 10 /\ Rank["none"] = 0
      BY DEF Rank
    <2>3. Role = "recovery_install" => Rank[engine.role] = 9
      BY <1>1, <2>2
    <2> QED BY <2>1, <2>2, <2>3, RankOf
  <1>5. engine.role = "stage" => engine.claimed /\ Rank[engine.role] = 9
    BY DEF EngineKept, ScopeKept, Going, Running, ReadinessRoles, Rank
  <1>6. Role \notin ConvergenceRoles /\ Role \notin ContinuityRoles
    BY <1>1, RoleClasses DEF ConvergenceRoles, ContinuityRoles
  <1> QED BY <1>1, <1>3, <1>4, <1>5, <1>6

\* The roles before the installation are those of an engine that has not reached it.
LEMMA EarlyRole ==
  ASSUME EngineSound(engine), EngineKept(engine), Running(engine)
  PROVE  /\ Role \in Shallow \cup {"recovery_install"} <=> ~engine.converging /\ ~Reached(engine.role)
         /\ Role \in Roles
         /\ Role \notin Shallow => Reached(Role)
  <1>1. Role \in Roles /\ Role # "none"
    BY NextKept, RoleClasses DEF Role
  <1>2. engine.converging => Role \in {"converge", "recover", "postflight"}
    BY NextKept DEF Role
  <1>3. ~engine.converging /\ Reached(engine.role) => Role \in FailureToConverge \ {"recovery_install"}
    BY NextKept DEF Role
  <1>4. ~engine.converging /\ ~Reached(engine.role) => Role \in Shallow \cup {"recovery_install"}
    BY NextKept DEF Role
  <1>5. {"converge", "recover", "postflight"} \cap (Shallow \cup {"recovery_install"}) = {}
    BY DEF Shallow, ReadinessRoles
  <1> QED BY <1>1, <1>2, <1>3, <1>4, <1>5, RoleClasses DEF Reached

\* Past the installation a refusal never closes as if nothing was touched.
LEMMA ReachedNever ==
  ASSUME EngineSound(engine), EngineKept(engine), Running(engine),
         engine.converging \/ Reached(engine.role),
         NEW q \in ResultRow, q.role = Role, NEW f, f = Refused(engine, q)
  PROVE  f.status # "premutation"
  <1>1. engine \in EngineRow
    BY DEF EngineSound
  <1>2. engine.converging => Role \in ConvergenceRoles
    BY NextKept DEF Role, ConvergenceRoles
  <1>3. ~engine.converging => Role \in FailureToConverge /\ (engine.product \/ engine.infra)
    <2>1. Going(engine)
      BY DEF Going, Running
    <2> QED BY <2>1, NextKept DEF Role, EngineKept, ScopeKept
  <1>8. /\ engine.product => f.product
        /\ engine.infra => f.infra
        /\ q.scope = "recovery_infrastructure" => f.infra
    BY <1>1, RefusedKeeps
  <1>9. \/ Role = "continuity_transition" /\ f.status = engine.status /\ f.converging = engine.converging
        \/ engine.converging /\ Role \in ConvergenceRoles /\ f.status = "convergence_failed" /\ f.converging
        \/ (f.product \/ f.infra) /\ Role \in FailureToConverge /\ f.status = engine.status /\ f.converging
        \/ /\ ~(engine.converging /\ Role \in ConvergenceRoles)
           /\ ~((f.product \/ f.infra) /\ Role \in FailureToConverge)
           /\ f.status = "premutation" /\ f.converging = engine.converging
    BY <1>1, RefusedStatus
  <1> QED BY <1>1, <1>2, <1>3, <1>8, <1>9 DEF Running

\* Before it a refusal does.
LEMMA ShallowRefused ==
  ASSUME EngineSound(engine), EngineKept(engine), Running(engine), Role \in Shallow,
         NEW q \in ResultRow, q.role = Role, NEW f, f = Refused(engine, q)
  PROVE  f.status = "premutation" /\ ~f.converging
  <1>1. engine \in EngineRow /\ ~engine.converging
    BY EarlyRole DEF EngineSound
  <1>2. Role \notin FailureToConverge /\ Role # "continuity_transition"
    BY RoleClasses DEF ContinuityRoles
  <1>8. /\ engine.product => f.product
        /\ engine.infra => f.infra
        /\ q.scope = "recovery_infrastructure" => f.infra
    BY <1>1, RefusedKeeps
  <1>9. \/ Role = "continuity_transition" /\ f.status = engine.status /\ f.converging = engine.converging
        \/ engine.converging /\ Role \in ConvergenceRoles /\ f.status = "convergence_failed" /\ f.converging
        \/ (f.product \/ f.infra) /\ Role \in FailureToConverge /\ f.status = engine.status /\ f.converging
        \/ /\ ~(engine.converging /\ Role \in ConvergenceRoles)
           /\ ~((f.product \/ f.infra) /\ Role \in FailureToConverge)
           /\ f.status = "premutation" /\ f.converging = engine.converging
    BY <1>1, RefusedStatus
  <1> QED BY <1>1, <1>2, <1>9, RoleClasses

\* A refused installation that may have begun is taken back.
LEMMA InstallRefused ==
  ASSUME EngineSound(engine), EngineKept(engine), Running(engine), Role = "recovery_install",
         NEW q \in ResultRow, q.role = Role, q.scope = "recovery_infrastructure",
         NEW f, f = Refused(engine, q)
  PROVE  Running(f) /\ f.converging /\ f.infra
  <1>1. engine \in EngineRow /\ ~engine.converging
    BY EarlyRole DEF EngineSound
  <1>8. /\ engine.product => f.product
        /\ engine.infra => f.infra
        /\ q.scope = "recovery_infrastructure" => f.infra
    BY <1>1, RefusedKeeps
  <1>9. \/ Role = "continuity_transition" /\ f.status = engine.status /\ f.converging = engine.converging
        \/ engine.converging /\ Role \in ConvergenceRoles /\ f.status = "convergence_failed" /\ f.converging
        \/ (f.product \/ f.infra) /\ Role \in FailureToConverge /\ f.status = engine.status /\ f.converging
        \/ /\ ~(engine.converging /\ Role \in ConvergenceRoles)
           /\ ~((f.product \/ f.infra) /\ Role \in FailureToConverge)
           /\ f.status = "premutation" /\ f.converging = engine.converging
    BY <1>1, RefusedStatus
  <1> QED BY <1>1, <1>8, <1>9 DEF Running, FailureToConverge

\* A success before the installation lets the engine run on.
LEMMA SuccessRuns ==
  ASSUME EngineSound(engine), EngineKept(engine), Running(engine), NEW r \in ResultRow, r.role = Role,
         Believable(engine, r), NEW f, f = Succeeded(engine, r)
  PROVE  /\ f.role = Role /\ f.status # "premutation"
         /\ Role \in Shallow => Running(f) /\ ~f.converging
  <1>1. engine \in EngineRow
    BY DEF EngineSound
  <1>2. Role \in Shallow => ~engine.converging /\ Role # "postflight" /\ Role \notin ContinuityRoles
    BY EarlyRole, RoleClasses
  <1>3. /\ f.role = Role
        /\ f.status = IF Role # "postflight" THEN engine.status
                      ELSE IF engine.converging THEN "converged" ELSE "accepted"
        /\ Role \notin ContinuityRoles => f.converging = engine.converging
    BY <1>1, SucceededStatus
  <1> QED BY <1>2, <1>3 DEF Running

\* What a result of each kind of role makes of the engine.
LEMMA ReplayedRole ==
  ASSUME EngineSound(engine), EngineKept(engine), Running(engine), NEW r \in ResultRow, r.role = Role
  PROVE  /\ Replayed(r).role = Role /\ FailedFromEvidence.role = Role
         /\ Replayed(r).status = "premutation" \/ FailedFromEvidence.status = "premutation" =>
               ~engine.converging /\ ~Reached(engine.role)
         /\ Role \in Shallow => ~Replayed(r).converging /\ FailedFromEvidence.status = "premutation"
                                  /\ ~FailedFromEvidence.converging
         /\ Role \in Shallow /\ Running(Replayed(r)) => r.ok /\ Replayed(r) = Succeeded(engine, r)
         /\ Role \in Shallow /\ r.ok /\ r.identity # "unseen" =>
               Replayed(r) = Succeeded(engine, r) /\ Running(Replayed(r))
         /\ Role = "recovery_install" /\ engine.claimed =>
               /\ Running(FailedFromEvidence) /\ FailedFromEvidence.infra
               /\ Told(r) \/ r.ok => Replayed(r).status # "premutation"
  <1>1. engine \in EngineRow
    BY DEF EngineSound
  <1>2. PICK q \in ResultRow :
           /\ ~q.ok /\ q.role = Role /\ q.forward /\ FailedFromEvidence = Refused(engine, q)
           /\ Role = "recovery_install" /\ engine.claimed => q.scope = "recovery_infrastructure"
    BY FailedForm
  <1>3. /\ FailedFromEvidence.role = Role
        /\ FailedFromEvidence.status = "premutation" => ~engine.converging /\ ~Reached(engine.role)
        /\ Role \in Shallow => FailedFromEvidence.status = "premutation" /\ ~FailedFromEvidence.converging
        /\ Role = "recovery_install" /\ engine.claimed =>
              Running(FailedFromEvidence) /\ FailedFromEvidence.infra
    BY <1>1, <1>2, RefusedRow, ReachedNever, ShallowRefused, InstallRefused
  <1>4. CASE r.ok /\ Believable(engine, r) /\ Replayed(r) = Succeeded(engine, r)
    BY <1>3, <1>4, SuccessRuns
  <1>5. CASE ~r.ok /\ r.identity # "unseen" /\ Replayed(r) = Refused(engine, r)
    <2>1. /\ Replayed(r).role = Role
          /\ Replayed(r).status = "premutation" => ~engine.converging /\ ~Reached(engine.role)
          /\ Role \in Shallow => Replayed(r).status = "premutation" /\ ~Replayed(r).converging
      BY <1>1, <1>5, RefusedRow, ReachedNever, ShallowRefused
    <2>2. Role = "recovery_install" /\ Told(r) => Replayed(r).status # "premutation"
      BY <1>5, InstallRefused DEF Told, Running
    <2> QED BY <1>3, <1>5, <2>1, <2>2 DEF Running
  <1>6. CASE (r.identity = "unseen" \/ ~Accepts(engine, r)) /\ Replayed(r) = FailedFromEvidence
    <2>1. Role \in Shallow => r.identity = "unseen" \/ ~r.ok
      <3>1. Role \in Shallow => Believable(engine, r)
        <4>1. Role \in Shallow => Role \notin ContinuityRoles /\ Role \notin ConvergenceRoles
          BY RoleClasses
        <4> QED BY <4>1 DEF Believable, ContinuityRoles, ConvergenceRoles
      <3> QED BY <1>6, <3>1 DEF Accepts, Role
    <2> QED BY <1>3, <1>6, <2>1 DEF Running
  <1> QED BY <1>4, <1>5, <1>6, ReplayedCases

\* Who may write the obligation was called to do so.
LEMMA InstallStart ==
  ASSUME TypeInv, InstallInv, StartRole, Role = "recovery_install"
  PROVE  /\ Key = Install /\ Install \notin intents /\ \A s \in Shallow : Good(<<s, 1>>)
         /\ Forwarding /\ failures = {} /\ torn = {}
  <1>1. /\ EngineSound(engine) /\ EngineKept(engine) /\ Running(engine) /\ sup = "drive" /\ MayRun
        /\ Key \notin intents
    BY DEF TypeInv, EngineTyped, InstallInv, StartRole, Driving
  <1>2. mode = "forward"
    BY <1>1 DEF MayRun, ConvergenceRoles
  <1>3. ~engine.converging /\ ~Reached(engine.role)
    BY <1>1, EarlyRole
  <1>4. Key = Install /\ Rank[engine.role] = 9
    BY <1>1, <1>3, EarlyCall DEF Install
  <1>5. /\ failures = {} /\ torn = {}
        /\ \A s \in Shallow : Rank[s] <= Rank[engine.role] => Good(<<s, 1>>)
    BY <1>1, <1>2, <1>3 DEF InstallInv, InstallKnown, InstallAhead, Forwarding
  <1> QED BY <1>1, <1>2, <1>4, <1>5, RankOf DEF Forwarding

\* An installation is begun by the start of its role.
LEMMA InstallingStep ==
  ASSUME TypeInv, InstallInv, ActivationNext
  PROVE  /\ Installing' => Installing \/ (StartRole /\ Role = "recovery_install")
         /\ Installing' /\ child' = NoChild /\ orphan' = NoChild => obligation'
         /\ "recovery_install" \in {child'.role, orphan'.role} =>
               \/ "recovery_install" \in {child.role, orphan.role}
               \/ StartRole /\ Role = "recovery_install"
  <1>1. HostKept /\ ChildSound(child) /\ EngineSound(engine)
    BY DEF InstallInv, TypeInv, ChildrenTyped, EngineTyped
  <1>2. NoChild.ends = "none" /\ NoChild.role = "none"
    BY DEF NoChild
  <1>3. Installing' /\ child' = NoChild /\ orphan' = NoChild => obligation'
    BY <1>2 DEF Installing, Installer
  <1>4. CASE RoleSteps
    <2>1. child'.role = child.role /\ orphan' = orphan /\ child.ends = "no"
      BY <1>1, <1>4, RoleStepChild, ChildMoves DEF RoleSteps, orphanVars
    <2>2. Installer' => Installer
      BY <2>1 DEF Installer
    <2>3. obligation' /\ ~obligation => Installer
      <3> SUFFICES ASSUME obligation', ~obligation PROVE Installer
        OBVIOUS
      <3>1. At("oblige")
        BY <1>4, HostMoves DEF RoleSteps, TypeInv, HostTyped
      <3>2. child.role \notin Shallow
        BY <1>1, <3>1, MeekHead DEF HostKept, ChildKept, Meek, MeekOps
      <3>3. child.todo # <<>> /\ child.todo[1] # Do("verify_arm")
        BY <1>1, <3>1, HeadOp DEF At, Do
      <3>4. child.role = "recovery_install"
        BY <1>1, <2>1, <3>2, <3>3 DEF HostKept, Harmless
      <3> QED BY <2>1, <3>4 DEF Installer
    <2> QED BY <1>3, <2>1, <2>2, <2>3 DEF Installing
  <1>5. CASE ~RoleSteps
    <2>1. obligation' = obligation
      BY <1>5, HostFrame DEF hostVars
    <2>2. StartRole => NewChild(Role).role = Role
      BY <1>1, NextCallSound, NewChildSound DEF StartRole, Driving
    <2>3. \A c \in {child', orphan'} :
             c \in {child, orphan, NoChild} \/ (StartRole /\ c = NewChild(Role))
      BY <1>1, <1>5, ChildrenAre
    <2> QED BY <1>2, <1>3, <2>1, <2>2, <2>3 DEF Installing, Installer
  <1> QED BY <1>4, <1>5

\* The evidence of a call stays good unless that very call is failed, and once the
\* installation is called no earlier one is made again.
LEMMA GoodStays ==
  ASSUME TypeInv, InstallInv, ActivationNext, NEW c, Good(c),
         CallConsumed \/ RoleNotStarted => Key # c
  PROVE  Good(c)'
  <1>1. c \in intents'
    BY IntentsStep DEF Good
  <1>2. c \notin failures'
    BY MarksFrame DEF Good, CallConsumed, RoleNotStarted
  <1>3. TakeCapture \/ CaptureNotPersisted => Key # c
    BY OwnResult DEF TakeCapture, CaptureNotPersisted, InstallInv, Good, Seen
  <1>4. c \notin torn'
    BY <1>3, MarksFrame DEF Good, RoleNotStarted, CaptureNotPersisted
  <1>5. Seen(c)'
    BY <1>3, EvidenceFrame DEF Good, Seen, TakeCapture
  <1> QED BY <1>1, <1>2, <1>4, <1>5 DEF Good

\* Once it is called no earlier call is made.
LEMMA NotShallowCall ==
  ASSUME TypeInv, InstallInv, Driving, MayRun, Install \in intents, NEW s \in Shallow
  PROVE  Key # <<s, 1>>
  <1> SUFFICES ASSUME Key = <<s, 1>> PROVE FALSE
    OBVIOUS
  <1>1. EngineSound(engine) /\ EngineKept(engine) /\ Running(engine) /\ sup = "drive"
    BY DEF TypeInv, EngineTyped, InstallInv, Driving
  <1>2. Role = s
    BY DEF Key, NextCall, Role
  <1>3. ~engine.converging /\ ~Reached(engine.role)
    BY <1>1, <1>2, EarlyRole
  <1>4. s \notin {"continuity_reconcile"} \cup ConvergenceRoles
    BY RoleClasses DEF ContinuityRoles
  <1>5. mode = "forward"
    BY <1>2, <1>4 DEF MayRun
  <1> QED BY <1>1, <1>3, <1>5 DEF Forwarding, InstallInv, InstallKnown, InstallAhead

\* The capture of the installation finds nobody at work.
LEMMA AloneCapture ==
  ASSUME TypeInv, InstallInv, TakeCapture, Key = Install
  PROVE  /\ child' = NoChild /\ orphan' = NoChild /\ obligation' = obligation
         /\ Role = "recovery_install" /\ sup = "waiting"
  <1>1. sup = "waiting" /\ MayRun /\ child' = NoChild
    BY DEF InstallInv, OrderKept, ChildAwaited, TakeCapture, Reported
  <1>2. Role = "recovery_install"
    BY OwnResult DEF TakeCapture, InstallInv, Install
  <1>3. mode = "forward"
    BY <1>1, <1>2 DEF MayRun, ConvergenceRoles
  <1>4. orphan = NoChild
    BY <1>1, <1>3 DEF Forwarding, InstallInv, OrderKept, ForwardAlone, Alone
  <1>5. orphan' = orphan /\ obligation' = obligation
    BY DEF TakeCapture, orphanVars, hostVars
  <1> QED BY <1>1, <1>2, <1>4, <1>5

\* Whoever may have written the obligation is known from the evidence.
LEMMA InstallStaysCalled ==
  ASSUME TypeInv, InstallInv, ActivationNext
  PROVE  InstallCalled'
  <1>1. CASE StartRole /\ Role = "recovery_install"
    <2>1. /\ Key = Install /\ Install \notin intents /\ \A s \in Shallow : Good(<<s, 1>>)
      BY <1>1, InstallStart
    <2>2. Install \in intents' /\ Install \notin DOMAIN captures'
      BY <1>1, <2>1 DEF StartRole, InstallInv, CapturesKept
    <2>3. \A s \in Shallow : Good(<<s, 1>>)'
      BY <1>1, <2>1, IntentsStep DEF StartRole, Good, Seen
    <2> QED BY <2>2, <2>3 DEF InstallCalled
  <1>2. CASE ~(StartRole /\ Role = "recovery_install")
    <2>1. Installing' => Installing
      BY <1>2, InstallingStep
    <2>2. "recovery_install" \in {child'.role, orphan'.role} => "recovery_install" \in {child.role, orphan.role}
      BY <1>2, InstallingStep
    <2>3. ASSUME Installing'
          PROVE  /\ Install \in intents' /\ \A s \in Shallow : Good(<<s, 1>>)'
                 /\ Install \in DOMAIN captures' => Told(captures'[Install])
      <3>1. /\ Install \in intents /\ \A s \in Shallow : Good(<<s, 1>>)
            /\ Install \in DOMAIN captures => Told(captures[Install])
        BY <2>1, <2>3 DEF InstallInv, InstallKnown, InstallCalled
      <3>2. Install \in intents'
        BY <3>1, IntentsStep
      <3>3. \A s \in Shallow : Good(<<s, 1>>)'
        <4> TAKE s \in Shallow
        <4>1. CallConsumed \/ RoleNotStarted => Key # <<s, 1>>
          BY <3>1, NotShallowCall DEF CallConsumed, RoleNotStarted
        <4> QED BY <3>1, <4>1, GoodStays
      <3>4. ASSUME Install \in DOMAIN captures' PROVE Told(captures'[Install])
        <4>1. CASE captures' = captures
          BY <3>1, <3>4, <4>1
        <4>2. CASE TakeCapture
          <5>1. PICK r \in ResultRow :
                  /\ captures' = [k \in DOMAIN captures \cup {Key} |-> IF k = Key THEN r ELSE captures[k]]
                  /\ r.role = Role /\ TrueScope(r)
                  /\ ~r.ok => Told(r) \/ r.role # "recovery_install" \/ ~obligation
            BY <4>2, Captured DEF InstallInv
          <5>2. CASE Key # Install
            BY <3>1, <3>4, <5>1, <5>2
          <5>3. CASE Key = Install
            <6>1. child' = NoChild /\ orphan' = NoChild /\ obligation' = obligation /\ Role = "recovery_install"
              BY <4>2, <5>3, AloneCapture
            <6>2. obligation
              BY <2>3, <6>1, InstallingStep
            <6>3. Told(r)
              BY <5>1, <6>1, <6>2 DEF TrueScope, Told
            <6> QED BY <5>1, <5>3, <6>3
          <5> QED BY <5>2, <5>3
        <4> QED BY <4>1, <4>2, EvidenceFrame
      <3> QED BY <3>2, <3>3, <3>4
    <2>4. ASSUME "recovery_install" \in {child'.role, orphan'.role}
          PROVE  Install \in intents' \ DOMAIN captures'
      <3>1. Install \in intents \ DOMAIN captures
        BY <2>2, <2>4 DEF InstallInv, InstallKnown, InstallCalled
      <3>2. Install \in intents'
        BY <3>1, IntentsStep
      <3>3. NoChild.role # "recovery_install"
        BY DEF NoChild
      <3>4. TakeCapture => Key # Install
        BY <2>4, <3>3, AloneCapture
      <3>5. DOMAIN captures' \subseteq DOMAIN captures \cup {Key} /\ (captures' = captures \/ TakeCapture)
        BY EvidenceFrame DEF TakeCapture
      <3> QED BY <3>1, <3>2, <3>4, <3>5
    <2> QED BY <2>3, <2>4 DEF InstallCalled, Told
  <1> QED BY <1>1, <1>2

\* What a call that failed without a result makes of the engine.
LEMMA FailedRole ==
  ASSUME EngineSound(engine), EngineKept(engine), Running(engine)
  PROVE  /\ FailedFromEvidence.role = Role
         /\ FailedFromEvidence.status = "premutation" => ~engine.converging /\ ~Reached(engine.role)
         /\ Role \in Shallow => FailedFromEvidence.status = "premutation" /\ ~FailedFromEvidence.converging
         /\ Role = "recovery_install" /\ engine.claimed => Running(FailedFromEvidence) /\ FailedFromEvidence.infra
  <1>1. PICK q \in ResultRow : q.role = Role
    BY FailedForm
  <1> QED BY <1>1, ReplayedRole

\* A sequence that goes forward has the good evidence of every call up to where it is.
LEMMA InstallStaysAhead ==
  ASSUME TypeInv, TransitionKnown, InstallInv, ActivationNext
  PROVE  InstallAhead'
  <1> SUFFICES ASSUME Forwarding', sup' # "planning", Running(engine'), ~Reached(engine'.role)
               PROVE  /\ failures' = {} /\ torn' = {}
                      /\ \A s \in Shallow : Rank[s] <= Rank[engine'.role] => Good(<<s, 1>>)'
                      /\ Install \in intents' => sup' = "waiting" /\ Role' = "recovery_install"
    BY DEF InstallAhead
  <1>1. /\ EngineSound(engine) /\ EngineKept(engine) /\ OrderKept /\ HostKept /\ CapturesKept
        /\ EngineKept(engine') /\ EngineSound(engine')
    BY EngineStaysKept, EngineStaysTyped DEF TypeInv, EngineTyped, InstallInv
  <1>2. mode' = "forward" /\ sup' \in {"drive", "waiting"}
    BY DEF Forwarding
  <1>3. Forwarding
    <2>1. ManagerStarts /\ starts = 0 => sup = "off"
      BY <1>1 DEF OrderKept, Unstarted
    <2> QED BY <1>2, <2>1, ForwardStep, StartsFrame
  <1>4. PreparePlan \/ (mode = "forward" /\ sup \in {"drive", "waiting"})
    BY <1>2, <1>3, SupervisorFrame DEF Forwarding
  <1>5. CASE PreparePlan
    <2>1. /\ engine'.role = "none" /\ intents' = {} /\ failures' = {} /\ torn' = {}
      BY <1>1, <1>5 DEF PreparePlan, NewEngine, OrderKept, PlanningFresh, Fresh
    <2>2. \A s \in Shallow : Rank[s] \in 1..10
      BY RankOf
    <2>3. Rank["none"] = 0
      BY DEF Rank
    <2> QED BY <2>1, <2>2, <2>3
  <1>6. CASE mode = "forward" /\ sup \in {"drive", "waiting"}
    <2> DEFINE Before == Running(engine) /\ ~Reached(engine.role)
    <2>1. Before => /\ failures = {} /\ torn = {}
                    /\ \A s \in Shallow : Rank[s] <= Rank[engine.role] => Good(<<s, 1>>)
                    /\ Install \in intents => sup = "waiting" /\ Role = "recovery_install"
      BY <1>3, <1>6 DEF InstallInv, InstallKnown, InstallAhead
    <2>2. CASE StartRole
      <3>1. /\ Before /\ sup = "drive" /\ failures' = failures /\ torn' = torn /\ Role' = Role
            /\ sup' = "waiting" /\ engine' = engine
        BY <2>2 DEF StartRole, Driving, Role
      <3>2. \A s \in Shallow : Rank[s] <= Rank[engine.role] => Good(<<s, 1>>)'
        <4>1. captures' = captures /\ intents \subseteq intents'
          BY <2>2 DEF StartRole
        <4> QED BY <2>1, <3>1, <4>1 DEF Good, Seen
      <3>3. Install \in intents' => Role = "recovery_install"
        <4>1. Install \in intents' => Install \in intents \/ Key = Install
          BY <2>2 DEF StartRole
        <4>2. Key[1] = Role
          BY <2>2, IntentsStep
        <4> QED BY <2>1, <3>1, <4>1, <4>2 DEF Install
      <3> QED BY <2>1, <3>1, <3>2, <3>3
    <2>3. CASE CallConsumed \/ RoleNotStarted \/ CaptureNotPersisted
      <3>1. Running(engine) /\ engine' = AfterRole(FailedFromEvidence)
        BY <1>1, <2>3, OwnResult DEF CallConsumed, RoleNotStarted, CaptureNotPersisted, Driving
      <3>2. engine' = FailedFromEvidence
        BY <1>6, <3>1 DEF AfterRole
      <3>3. Role \notin Shallow
        BY <1>1, <3>1, <3>2, FailedRole DEF Running
      <3> QED BY <1>1, <3>1, <3>2, <3>3, FailedRole, EarlyRole
    <2>4. CASE TakeCapture
      <3>1. PICK r \in ResultRow :
              /\ captures' = [k \in DOMAIN captures \cup {Key} |-> IF k = Key THEN r ELSE captures[k]]
              /\ r.role = Role /\ engine' = AfterRole(Replayed(r))
        BY <1>1, <2>4, Captured
      <3>2. Running(engine) /\ Key \in intents
        BY <1>1, <2>4, OwnResult DEF TakeCapture
      <3>3. engine' = Replayed(r)
        BY <1>6, <3>1 DEF AfterRole
      <3>4. engine'.role = Role /\ Role \in Shallow /\ r.ok
        <4>1. engine'.role = Role
          BY <1>1, <3>1, <3>2, <3>3, ReplayedRole
        <4>2. Role \in Shallow
          BY <1>1, <3>2, <4>1, EarlyRole
        <4> QED BY <1>1, <3>1, <3>2, <3>3, <4>1, <4>2, ReplayedRole
      <3>5. ~engine.converging /\ Before
        BY <1>1, <3>2, <3>4, EarlyRole
      <3>6. /\ Key = <<Role, 1>> /\ Rank[Role] = Rank[engine.role] + 1 /\ Rank[engine.role] \in 0..9
        BY <1>1, <3>5, EarlyCall
      <3>7. /\ failures' = failures /\ torn' = torn /\ intents' = intents
        BY <2>4 DEF TakeCapture
      <3>8. "recovery_install" \notin Shallow
        BY DEF Shallow, ReadinessRoles
      <3>9. \A s \in Shallow : Rank[s] <= Rank[Role] => Good(<<s, 1>>)'
        <4> SUFFICES ASSUME NEW s \in Shallow, Rank[s] <= Rank[Role] PROVE Good(<<s, 1>>)'
          OBVIOUS
        <4>1. CASE s = Role
          <5>1. captures'[Key] = r /\ Key \in DOMAIN captures'
            BY <3>1
          <5> QED BY <2>1, <3>2, <3>4, <3>5, <3>6, <3>7, <4>1, <5>1 DEF Good, Seen
        <4>2. CASE s # Role
          <5>1. Rank[s] \in 1..10 /\ Rank[Role] \in 1..10 /\ Rank[s] # Rank[Role]
            BY <3>4, <4>2, RankOf
          <5>2. Rank[s] <= Rank[engine.role]
            BY <3>6, <5>1
          <5>3. Good(<<s, 1>>)
            BY <2>1, <3>5, <5>2
          <5>4. ~CallConsumed /\ ~RoleNotStarted
            BY <2>4 DEF TakeCapture, Reported, CallConsumed, RoleNotStarted, Driving
          <5> QED BY <5>3, <5>4, GoodStays
        <4> QED BY <4>1, <4>2
      <3> QED BY <2>1, <3>4, <3>5, <3>7, <3>8, <3>9
    <2>5. CASE ~(StartRole \/ CallConsumed \/ RoleNotStarted \/ CaptureNotPersisted \/ TakeCapture)
      <3>1. UNCHANGED <<sup, engine, intents>>
        BY <1>2, <1>6, <2>5, DrivenFrame
      <3>2. UNCHANGED <<failures, torn>>
        BY <2>5, MarksFrame
      <3>3. \A s \in Shallow : Rank[s] <= Rank[engine.role] => Good(<<s, 1>>)'
        BY <2>1, <2>5, <3>1, GoodStays
      <3> QED BY <2>1, <3>1, <3>2, <3>3 DEF Role
    <2> QED BY <2>2, <2>3, <2>4, <2>5
  <1> QED BY <1>4, <1>5, <1>6

\* What a replay finds of a call it repeats: the capture, which is that of the call.
LEMMA ReplayFound ==
  ASSUME TypeInv, InstallInv, ReplayCapture
  PROVE  /\ captures[Key] \in ResultRow /\ captures[Key].role = Role /\ TrueScope(captures[Key])
         /\ captures[Key].ok => captures[Key].identity # "unseen"
         /\ Key \in DOMAIN captures /\ engine' = Replayed(captures[Key])
  <1>1. captures[Key] \in ResultRow /\ Key \in DOMAIN captures /\ engine' = Replayed(captures[Key])
    BY DEF ReplayCapture, TypeInv, EvidenceTyped, Replayed
  <1>2. Key[1] = Role
    BY NextCallSound DEF TypeInv, EngineTyped, ReplayCapture, Replaying
  <1> QED BY <1>1, <1>2 DEF InstallInv, CapturesKept, TrueScope

\* What may happen during a replay.
LEMMA ReplayFrame ==
  ASSUME ActivationNext, sup = "replay"
  PROVE  /\ sup' \in {"replay", "resolve"} =>
               engine' = engine \/ ReplayFailure \/ ReplayInterrupted \/ ReplayCapture
         /\ (ReplayFailure \/ ReplayCapture) => sup' = "replay"
  BY EngineFrame DEF PreparePlan, CallConsumed, RoleNotStarted, TakeCapture, CaptureNotPersisted, BeginRecovery,
     Resolve, Driving, Reported, ReplayFailure, ReplayCapture

\* A step of a replay, at a call whose evidence may be that of the installation.
LEMMA ReplayStep ==
  ASSUME TypeInv, InstallInv, ReplayFailure \/ ReplayInterrupted \/ ReplayCapture
  PROVE  /\ EngineSound(engine) /\ EngineKept(engine) /\ Running(engine) /\ sup = "replay"
         /\ engine'.role = Role
         /\ engine'.converging => Role \notin Shallow
         /\ engine'.status = "premutation" => ~engine.converging /\ ~Reached(engine.role)
         /\ ReplayFailure \/ ReplayInterrupted => engine' = FailedFromEvidence
  <1>1. EngineSound(engine) /\ EngineKept(engine) /\ Running(engine) /\ sup = "replay"
    BY DEF TypeInv, EngineTyped, InstallInv, ReplayFailure, ReplayInterrupted, ReplayCapture, Replaying
  <1>2. CASE ReplayFailure \/ ReplayInterrupted
    BY <1>1, <1>2, FailedRole DEF ReplayFailure, ReplayInterrupted
  <1>3. CASE ReplayCapture
    <2>1. captures[Key] \in ResultRow /\ captures[Key].role = Role /\ engine' = Replayed(captures[Key])
      BY <1>3, ReplayFound
    <2>2. ReplayFailure \/ ReplayInterrupted => engine' = FailedFromEvidence
      BY DEF ReplayFailure, ReplayInterrupted
    <2> QED BY <1>1, <2>1, <2>2, ReplayedRole
  <1> QED BY <1>1, <1>2, <1>3

\* Once the installation may have been called, a replay comes to it over good captures.
LEMMA ReplayInstall ==
  ASSUME TypeInv, InstallInv, Installing, sup = "replay", Running(engine), ~Reached(engine.role)
  PROVE  /\ ~engine.converging /\ Role \in Shallow \cup {"recovery_install"} /\ Key = <<Role, 1>>
         /\ Key \in intents
         /\ Role \in Shallow => Key \notin failures \cup torn /\ Seen(Key)
         /\ Role = "recovery_install" => Key = Install /\ engine.claimed
         /\ Install \in DOMAIN captures => Told(captures[Install]) /\ obligation
  <1>1. EngineSound(engine) /\ EngineKept(engine)
    BY DEF TypeInv, EngineTyped, InstallInv
  <1>2. ~engine.converging
    BY DEF InstallInv, InstallKnown, InstallReplayed
  <1>3. Role \in Shallow \cup {"recovery_install"} /\ Key = <<Role, 1>>
        /\ (Role = "recovery_install" => engine.claimed)
    BY <1>1, <1>2, EarlyCall
  <1>4. /\ Install \in intents /\ \A s \in Shallow : Good(<<s, 1>>)
        /\ Install \in DOMAIN captures => Told(captures[Install])
    BY DEF InstallInv, InstallKnown, InstallCalled
  <1>5. Install \in DOMAIN captures => obligation
    BY DEF InstallInv, InstallKnown, InstallCalled, Installing, Installer
  <1> QED BY <1>2, <1>3, <1>4, <1>5 DEF Good, Install

\* A replay comes to the installation, or nothing was installed.
LEMMA InstallStaysReplayed ==
  ASSUME TypeInv, InstallInv, ActivationNext
  PROVE  InstallReplayed'
  <1>1. /\ EngineSound(engine) /\ EngineKept(engine)
        /\ sup = "replay" /\ engine.converging => Reached(engine.role)
        /\ sup = "replay" /\ Reached(engine.role) /\ Installing => obligation
        /\ sup = "resolve" /\ Running(engine) /\ Installing =>
              Reached(engine.role) /\ (obligation \/ engine.infra \/ engine.product)
    BY DEF TypeInv, EngineTyped, InstallInv, InstallKnown, InstallReplayed
  <1>2. obligation => obligation'
    BY ObligationStays
  <1>3. sup' \in {"replay", "resolve"} /\ Installing' => Installing
    BY InstallingStep DEF StartRole
  <1>4. BeginRecovery => ~engine'.converging /\ engine'.role = "none"
    BY DEF BeginRecovery, NewEngine
  <1>5. ~Reached("none")
    BY DEF Reached
  <1>6. ASSUME sup' = "replay", engine'.converging PROVE Reached(engine'.role)
    <2>1. CASE BeginRecovery
      BY <1>4, <1>6, <2>1
    <2>2. CASE sup = "replay" /\ engine' = engine
      BY <1>1, <1>6, <2>2
    <2>3. CASE ReplayFailure \/ ReplayInterrupted \/ ReplayCapture
      BY <1>6, <2>3, ReplayStep, EarlyRole
    <2> QED BY <1>6, <2>1, <2>2, <2>3, StageFrame, ReplayFrame
  <1>7. ASSUME sup' = "replay", Reached(engine'.role), Installing' PROVE obligation'
    <2>1. Installing
      BY <1>3, <1>7
    <2>2. CASE BeginRecovery
      BY <1>4, <1>5, <1>7, <2>2
    <2>3. CASE sup = "replay" /\ engine' = engine
      BY <1>1, <1>2, <1>7, <2>1, <2>3
    <2>4. CASE ReplayFailure \/ ReplayInterrupted \/ ReplayCapture
      <3>1. sup = "replay" /\ Running(engine) /\ engine'.role = Role
        BY <2>4, ReplayStep
      <3>2. CASE Reached(engine.role)
        BY <1>1, <1>2, <2>1, <3>1, <3>2
      <3>3. CASE ~Reached(engine.role)
        <4>1. /\ Role \in Shallow \cup {"recovery_install"} /\ Key = <<Role, 1>> /\ Key \in intents
              /\ Role = "recovery_install" => Key = Install
              /\ Install \in DOMAIN captures => obligation
          BY <2>1, <3>1, <3>3, ReplayInstall
        <4>2. Role = "recovery_install"
          BY <1>7, <3>1, <4>1 DEF Reached
        <4>3. ~ReplayFailure /\ ~ReplayInterrupted
          BY <1>7, <4>1 DEF ReplayFailure, ReplayInterrupted
        <4> QED BY <1>2, <2>4, <4>1, <4>2, <4>3 DEF ReplayCapture
      <3> QED BY <3>2, <3>3
    <2> QED BY <1>7, <2>2, <2>3, <2>4, StageFrame, ReplayFrame
  <1>8. ASSUME sup' = "resolve", Running(engine'), Installing'
        PROVE  Reached(engine'.role) /\ (obligation' \/ engine'.infra \/ engine'.product)
    <2>1. Installing
      BY <1>3, <1>8
    <2>2. CASE sup = "resolve" /\ engine' = engine
      BY <1>1, <1>2, <1>8, <2>1, <2>2
    <2>3. CASE ReplayEnds
      <3>1. sup = "replay" /\ engine' = engine /\ Running(engine) /\ Key \notin intents
        BY <1>8, <2>3 DEF ReplayEnds
      <3>2. Reached(engine.role)
        BY <2>1, <3>1, ReplayInstall
      <3> QED BY <1>1, <1>2, <2>1, <3>1, <3>2
    <2>4. CASE ReplayInterrupted
      <3>1. /\ sup = "replay" /\ Running(engine) /\ engine'.role = Role /\ engine' = FailedFromEvidence
            /\ Key \notin DOMAIN captures
        BY <2>4, ReplayStep DEF ReplayInterrupted
      <3>2. CASE Reached(engine.role)
        <4>1. Role \notin Shallow /\ Role \in Roles
          BY <1>1, <3>1, <3>2, EarlyRole
        <4> QED BY <1>1, <1>2, <2>1, <3>1, <3>2, <4>1, EarlyRole
      <3>3. CASE ~Reached(engine.role)
        <4>1. Role = "recovery_install" /\ engine.claimed
          BY <2>1, <3>1, <3>3, ReplayInstall DEF Seen
        <4>2. Role \notin Shallow
          BY <4>1 DEF Shallow, ReadinessRoles
        <4> QED BY <1>1, <3>1, <4>1, <4>2, EarlyRole, FailedRole
      <3> QED BY <3>2, <3>3
    <2> QED BY <1>8, <2>2, <2>3, <2>4, StageFrame
  <1> QED BY <1>6, <1>7, <1>8 DEF InstallReplayed

\* An abort closes nothing that was claimed and knows of a mutation.
LEMMA AbortedStatus ==
  ASSUME NEW e \in EngineRow, Running(e), NEW f, f = Aborted(e)
  PROVE  f.status = "premutation" => ~(e.claimed /\ (e.product \/ e.infra))
  BY DEF Aborted, EngineRow, Running

\* A reconcile that succeeds keeps the product it knows of.
LEMMA SucceededKeeps ==
  ASSUME NEW e \in EngineRow, NEW r \in ResultRow, Believable(e, r), NEW f, f = Succeeded(e, r),
         r.role = "continuity_reconcile", e.product
  PROVE  f.product
  <1>1.  /\ f \in EngineRow /\ f.role = r.role /\ f.calls = [e.calls EXCEPT ![r.role] = @ + 1]
         /\ f.claimed <=> (e.claimed \/ r.role = "claim")
         /\ f.scope = e.scope
         /\ r.role \notin {"converge", "recover"} =>
               (f.product <=> (e.product \/ r.scope = "product" \/ r.role \in HardRoles))
         /\ r.role = "converge" =>
               (f.product <=> (e.product \/ r.scope = "product" \/ e.scope # "infrastructure_only"))
         /\ r.role = "recover" => ~f.product
         /\ r.role # "recover" => (f.infra <=> (e.infra \/ r.scope = "recovery_infrastructure"))
         /\ f.status = IF r.role # "postflight" THEN e.status
                       ELSE IF e.converging THEN "converged" ELSE "accepted"
         /\ r.role \notin ContinuityRoles =>
               f.transition = e.transition /\ f.converging = e.converging /\ f.forward = e.forward
         /\ r.role \in ContinuityRoles =>
               /\ f.transition = r.state /\ r.state \in Outcomes[r.role]
               /\ f.converging <=> (e.converging \/ r.state = "reconciled_not_committed")
    BY SucceededFields
  <1>2. r.role \notin {"converge", "recover"}
    OBVIOUS
  <1>3. f.product <=> (e.product \/ r.scope = "product" \/ r.role \in HardRoles)
    BY <1>1, <1>2
  <1> QED BY <1>3

\* So does one with any result.
LEMMA ReplayedProduct ==
  ASSUME EngineSound(engine), Running(engine), engine.product, NEW r \in ResultRow, r.role = Role,
         Role = "continuity_reconcile"
  PROVE  Replayed(r).product /\ FailedFromEvidence.product
  <1>1. engine \in EngineRow
    BY DEF EngineSound
  <1>2. FailedFromEvidence.product
    BY <1>1, FailedForm, RefusedKeeps
  <1> QED BY <1>1, <1>2, ReplayedCases, RefusedKeeps, SucceededKeeps

\* A terminal engine without mutation has not come to where the installation is called.
LEMMA DrivenPremutation ==
  ASSUME TypeInv, InstallInv, CallConsumed \/ RoleNotStarted \/ TakeCapture \/ CaptureNotPersisted,
         engine'.status = "premutation", Install \in intents
  PROVE  /\ TakeCapture /\ Key = Install
         /\ \A r \in ResultRow :
               r.role = Role /\ engine' = AfterRole(Replayed(r)) => ~r.ok /\ ~Told(r)
  <1>1. EngineSound(engine) /\ EngineKept(engine) /\ OrderKept /\ HostKept
    BY DEF TypeInv, EngineTyped, InstallInv
  <1>2. Running(engine) /\ MayRun
    BY <1>1, OwnResult
       DEF CallConsumed, RoleNotStarted, TakeCapture, CaptureNotPersisted, Driving, Reported, OrderKept,
           ChildAwaited
  <1>3. PICK x : /\ engine' = AfterRole(x) /\ EngineSound(x) /\ EngineKept(x) /\ x.role = Role
                 /\ x.status = "premutation" => ~engine.converging /\ ~Reached(engine.role)
                 /\ Role = "continuity_reconcile" /\ engine.product => x.product
    <2>1. CASE CallConsumed \/ RoleNotStarted \/ CaptureNotPersisted
      <3>1. EngineKept(FailedFromEvidence)
        BY <1>1, <1>2, FailedKept DEF FailedFromEvidence, Role, ResultScopes
      <3>2. Role = "continuity_reconcile" /\ engine.product => FailedFromEvidence.product
        BY <1>1, <1>2, FailedForm, ReplayedProduct
      <3> QED BY <1>1, <1>2, <2>1, <3>1, <3>2, NextCallSound, FailedRole
                 DEF CallConsumed, RoleNotStarted, CaptureNotPersisted
    <2>2. CASE TakeCapture
      <3>1. PICK r \in ResultRow : r.role = Role /\ engine' = AfterRole(Replayed(r)) /\ TrueScope(r)
        BY <1>1, <2>2, Captured
      <3> QED BY <1>1, <1>2, <3>1, ReplayedKept, ReplayedRole, ReplayedProduct
    <2> QED BY <2>1, <2>2
  <1>4. x.status = "premutation"
    <2> SUFFICES ASSUME x.status # "premutation" PROVE FALSE
      OBVIOUS
    <2>1. engine' = Aborted(x) /\ Running(x) /\ mode # "forward" /\ Role = "continuity_reconcile"
      BY <1>3 DEF AfterRole
    <2>2. Role \notin ConvergenceRoles /\ Role \notin Shallow \cup {"recovery_install"} /\ Reached(Role)
          /\ Role \notin {"recovery_install", "recovery_arm"} /\ Role \notin ReadinessRoles \cup {"none"}
      BY <2>1 DEF ConvergenceRoles, Shallow, ReadinessRoles, Reached
    <2>3. x \in EngineRow /\ Going(x)
      BY <1>3, <2>1 DEF EngineSound, Going, Running
    <2>4. x.claimed
      BY <1>3, <2>2, <2>3 DEF EngineKept, ScopeKept
    <2>5. x.product
      <3>1. CASE ~x.converging
        BY <1>3, <2>2, <2>3, <3>1 DEF EngineKept, ScopeKept
      <3>2. CASE x.converging
        <4>1. Going(engine) /\ ~engine.converging /\ Reached(engine.role)
              /\ engine.role \notin {"recovery_install", "recovery_arm"}
          BY <1>1, <1>2, <2>1, NextKept DEF Role, Going, Running, Reached, Shallow, ReadinessRoles
        <4>2. engine.product
          BY <1>1, <4>1 DEF EngineKept, ScopeKept
        <4> QED BY <1>3, <2>1, <4>2
      <3> QED BY <3>1, <3>2
    <2> QED BY <1>3, <2>1, <2>3, <2>4, <2>5, AbortedStatus
  <1>5. ~engine.converging /\ ~Reached(engine.role)
    BY <1>3, <1>4
  <1>6. Role \in Shallow \cup {"recovery_install"} /\ Key = <<Role, 1>>
        /\ (Role = "recovery_install" => engine.claimed)
    BY <1>1, <1>2, <1>5, EarlyCall
  <1>7. mode = "forward"
    <2>1. Role \notin {"continuity_reconcile"} \cup ConvergenceRoles
      BY <1>6 DEF ConvergenceRoles, Shallow, ReadinessRoles
    <2> QED BY <1>2, <2>1 DEF MayRun
  <1>8. sup = "waiting" /\ Role = "recovery_install"
    <2>1. Forwarding /\ sup # "planning"
      BY <1>7 DEF Forwarding, CallConsumed, RoleNotStarted, TakeCapture, CaptureNotPersisted, Driving, Reported
    <2> QED BY <1>2, <1>5, <2>1 DEF InstallInv, InstallKnown, InstallAhead
  <1>9. TakeCapture
    <2>1. Running(FailedFromEvidence)
      BY <1>1, <1>2, <1>6, <1>8, FailedRole
    <2>2. ~(CallConsumed \/ RoleNotStarted)
      BY <1>8 DEF CallConsumed, RoleNotStarted, Driving
    <2>3. CaptureNotPersisted => engine' = FailedFromEvidence
      BY <1>7 DEF CaptureNotPersisted, AfterRole
    <2> QED BY <2>1, <2>2, <2>3 DEF Running
  <1>10. \A r \in ResultRow : r.role = Role /\ engine' = AfterRole(Replayed(r)) => ~r.ok /\ ~Told(r)
    BY <1>1, <1>2, <1>6, <1>7, <1>8, ReplayedRole DEF AfterRole
  <1> QED BY <1>6, <1>8, <1>9, <1>10 DEF Install

\* An engine that closes before a mutation knows that nothing was installed.
LEMMA EnginePremutation ==
  ASSUME TypeInv, InstallInv, ActivationNext, sup' \in {"drive", "replay", "resolve"},
         engine'.status = "premutation"
  PROVE  ~Installing'
  <1> SUFFICES ASSUME Installing' PROVE FALSE
    OBVIOUS
  <1>1. /\ EngineSound(engine) /\ EngineKept(engine) /\ OrderKept /\ HostKept
        /\ sup \in {"drive", "replay", "resolve"} => engine.status # "premutation" \/ ~Installing
    BY DEF TypeInv, EngineTyped, InstallInv, InstallKnown, NothingInstalled
  <1>2. Installing
    BY InstallingStep DEF StartRole
  <1>3. Install \in intents
    BY <1>2 DEF InstallInv, InstallKnown, InstallCalled
  <1>4. ~PreparePlan /\ ~BeginRecovery
    BY DEF PreparePlan, BeginRecovery, NewEngine
  <1>5. CASE engine' = engine
    <2>1. sup \in {"drive", "waiting", "planning", "replay", "resolve"}
      BY <1>4, StageFrame DEF ReplayEnds, ReplayInterrupted, Replaying
    <2>2. sup # "waiting"
      BY <1>1, <1>5 DEF OrderKept, ChildAwaited, Running
    <2>3. sup # "planning"
      BY <1>1, <1>3 DEF OrderKept, PlanningFresh, Fresh
    <2> QED BY <1>1, <1>2, <1>5, <2>1, <2>2, <2>3
  <1>6. CASE CallConsumed \/ RoleNotStarted \/ TakeCapture \/ CaptureNotPersisted
    <2>1. TakeCapture /\ Key = Install
          /\ \A r \in ResultRow :
                r.role = Role /\ engine' = AfterRole(Replayed(r)) => ~r.ok /\ ~Told(r)
      BY <1>3, <1>6, DrivenPremutation
    <2>2. PICK r \in ResultRow :
            /\ r.role = Role /\ engine' = AfterRole(Replayed(r))
            /\ ~r.ok => Told(r) \/ r.role # "recovery_install" \/ ~obligation
      BY <1>1, <2>1, Captured
    <2>3. child' = NoChild /\ orphan' = NoChild /\ obligation' = obligation /\ Role = "recovery_install"
      BY <2>1, AloneCapture
    <2>4. obligation
      BY <2>3, InstallingStep
    <2> QED BY <2>1, <2>2, <2>3, <2>4
  <1>7. CASE ReplayFailure \/ ReplayInterrupted \/ ReplayCapture
    <2>1. /\ EngineSound(engine) /\ EngineKept(engine) /\ Running(engine) /\ sup = "replay"
          /\ ~engine.converging /\ ~Reached(engine.role)
          /\ ReplayFailure \/ ReplayInterrupted => engine' = FailedFromEvidence
      BY <1>7, ReplayStep
    <2>2. /\ Role \in Shallow \cup {"recovery_install"} /\ Key = <<Role, 1>>
          /\ Key \in intents
          /\ Role \in Shallow => Key \notin failures \cup torn /\ Seen(Key)
          /\ Role = "recovery_install" => Key = Install /\ engine.claimed
          /\ Install \in DOMAIN captures => Told(captures[Install]) /\ obligation
      BY <1>2, <2>1, ReplayInstall
    <2>3. CASE ReplayFailure \/ ReplayInterrupted
      <3>1. Role = "recovery_install"
        BY <2>2, <2>3 DEF ReplayFailure, ReplayInterrupted, Seen
      <3> QED BY <2>1, <2>2, <2>3, <3>1, FailedRole DEF Running
    <2>4. CASE ReplayCapture
      <3>1. /\ captures[Key] \in ResultRow /\ captures[Key].role = Role
            /\ captures[Key].ok => captures[Key].identity # "unseen"
            /\ Key \in DOMAIN captures /\ engine' = Replayed(captures[Key])
        BY <2>4, ReplayFound
      <3>2. CASE Role \in Shallow
        BY <2>1, <2>2, <3>1, <3>2, ReplayedRole DEF Seen, Running
      <3>3. CASE Role = "recovery_install"
        BY <2>1, <2>2, <3>1, <3>3, ReplayedRole
      <3> QED BY <2>2, <3>2, <3>3
    <2> QED BY <1>7, <2>3, <2>4
  <1>8. CASE Resolve
    <2>1. engine' = Resolved(engine, mode = "forced") /\ (mode = "forced") \in BOOLEAN /\ sup = "resolve"
      BY <1>8 DEF Resolve, Resolved
    <2>2. Running(engine) => Reached(engine.role) /\ (obligation \/ engine.infra \/ engine.product)
      BY <1>2, <2>1 DEF InstallInv, InstallKnown, InstallReplayed
    <2>3. Running(engine) => engine.claimed
      BY <1>1, <2>2 DEF EngineKept, ScopeKept, Going, Running, Reached, Shallow
    <2>4. CASE Running(engine) /\ ~engine.product /\ obligation /\ engine' = Aborted(Bound(engine))
      BY <1>1, <2>3, <2>4, BoundAborted DEF Running
    <2>5. CASE Running(engine) /\ ~(~engine.product /\ obligation) /\ engine' = Aborted(engine)
      BY <1>1, <2>2, <2>3, <2>5, AbortedStatus DEF EngineSound
    <2>6. CASE engine.status = "accepted" /\ engine' = Aborted(Reopened(engine))
      BY <1>1, <2>6, ReopenedAborted DEF Running
    <2> QED BY <1>1, <1>5, <2>1, <2>4, <2>5, <2>6, ResolvedCases
  <1> QED BY <1>4, <1>5, <1>6, <1>7, <1>8, EngineFrame

\* No terminal, hard stop or index says that nothing was touched while something was.
LEMMA InstallStaysNothing ==
  ASSUME TypeInv, InstallInv, ActivationNext
  PROVE  NothingInstalled'
  <1>1. /\ OrderKept
        /\ sup = "drive" /\ engine.status = "premutation" => ~Installing
        /\ \A n \in {"terminal", "recovery", "hardstop"} : files[n].status = "premutation" => ~Installing
        /\ files.strategy.status = "unmodified" => ~Installing
    BY DEF InstallInv, InstallKnown, NothingInstalled
  <1>2. sup' \in {"drive", "replay", "resolve"} /\ engine'.status = "premutation" => ~Installing'
    BY EnginePremutation
  <1> DEFINE Names == {"terminal", "recovery", "hardstop"}
  <1>3. ASSUME Installing'
        PROVE  (\A n \in Names : files'[n].status # "premutation") /\ files'.strategy.status # "unmodified"
    <2>1. Absent.status = "none" /\ TornFile.status = "none" /\ \A x : Valid(x).status = x
      BY DEF Absent, TornFile, Valid
    <2>2. CASE StartRole /\ Role = "recovery_install"
      <3>1. files' = files
        BY <2>2 DEF StartRole
      <3>2. files = NoFiles
        BY <1>1, <2>2, InstallStart DEF OrderKept, ForwardAlone
      <3> QED BY <2>1, <3>1, <3>2 DEF NoFiles
    <2>3. CASE ~(StartRole /\ Role = "recovery_install")
      <3>1. Installing
        BY <1>3, <2>3, InstallingStep
      <3>2. Install \in intents
        BY <3>1 DEF InstallInv, InstallKnown, InstallCalled
      <3>3. /\ \A n \in Names : files[n].status # "premutation"
            /\ files.strategy.status # "unmodified"
            /\ files \in [{"terminal", "recovery", "discharge", "hardstop", "strategy"} -> FileRow]
        BY <1>1, <3>1 DEF OrderKept, FilesTyped
      <3>4. SequenceTerminal.status # "premutation"
        BY <2>1, <3>3 DEF SequenceTerminal
      <3>5. planned
        BY <1>1, <3>2 DEF OrderKept, PlannedFirst
      <3>6. CASE files' = files
        BY <3>3, <3>6
      <3>7. CASE WriteTerminal
        <4>1. files' = [files EXCEPT ![TerminalName] = Receipt(engine)]
          BY <3>7 DEF WriteTerminal
        <4>2. Receipt(engine).status # "premutation" /\ TerminalName \in {"terminal", "recovery"}
          BY <1>1, <3>1, <3>7 DEF WriteTerminal, Finished, Receipt, TerminalName
        <4> QED BY <3>3, <4>1, <4>2
      <3>8. CASE TerminalNotPersisted
        <4>1. PICK left \in {Absent, TornFile} : files' = [files EXCEPT ![TerminalName] = left]
          BY <3>8 DEF TerminalNotPersisted
        <4>2. TerminalName \in {"terminal", "recovery"}
          BY DEF TerminalName
        <4> QED BY <2>1, <3>3, <4>1, <4>2
      <3>9. CASE Discharge \/ DischargeFails
        <4>1. PICK left : files' = [files EXCEPT !.discharge = left]
          BY <3>9 DEF Discharge, DischargeFails
        <4> QED BY <3>3, <4>1
      <3>10. CASE IndexWritten
        <4>1. files' = [files EXCEPT !.strategy = Valid(Indexed)]
          BY <3>10 DEF IndexWritten
        <4>2. Indexed # "unmodified"
          BY <3>3 DEF Indexed, ProductState
        <4> QED BY <2>1, <3>3, <4>1, <4>2
      <3>11. CASE IndexNotPersisted
        <4>1. PICK left \in {Absent, TornFile} : files' = [files EXCEPT !.strategy = left]
          BY <3>11 DEF IndexNotPersisted
        <4> QED BY <2>1, <3>3, <4>1
      <3>12. CASE CloseSettled
        <4>1. SequenceTerminal # Absent
          <5>1. files.recovery # TornFile /\ ~NeedsRecovery
            BY <3>12 DEF CloseSettled
          <5>2. ~PlanOnly
            BY <3>2 DEF PlanOnly
          <5> QED BY <2>1, <3>5, <5>1, <5>2 DEF NeedsRecovery
        <4>2. files' = [files EXCEPT !.recovery = @]
          BY <3>12, <4>1 DEF CloseSettled
        <4> QED BY <3>3, <4>2
      <3>13. CASE HardStopWritten
        <4>1. files' = [files EXCEPT !.hardstop = HardStop]
          BY <3>13 DEF HardStopWritten
        <4>2. HardStop.status # "premutation"
          BY <2>1, <3>4, <3>5 DEF HardStop
        <4> QED BY <3>3, <4>1, <4>2
      <3>14. CASE HardStopNotPersisted
        <4>1. PICK left \in {Absent, TornFile} : files' = [files EXCEPT !.hardstop = left]
          BY <3>14 DEF HardStopNotPersisted
        <4> QED BY <2>1, <3>3, <4>1
      <3> QED BY <3>6, <3>7, <3>8, <3>9, <3>10, <3>11, <3>12, <3>13, <3>14, FilesFrame
    <2> QED BY <2>2, <2>3
  <1> QED BY <1>2, <1>3 DEF NothingInstalled

\* The invariant of the installation, from the start and step by step.
LEMMA InstallInvInit == ActivationInit => InstallInv
  <1> SUFFICES ASSUME ActivationInit PROVE InstallInv
    OBVIOUS
  <1>1. /\ child = NoChild /\ orphan = NoChild /\ aside = FALSE /\ engine = NewEngine /\ sup = "off"
        /\ mode = "forward" /\ planned = FALSE /\ intents = {} /\ captures = <<>> /\ failures = {} /\ torn = {}
        /\ manager = "off" /\ starts = 0 /\ entries = {}
        /\ files = [n \in {"terminal", "recovery", "discharge", "hardstop", "strategy"} |-> Absent]
        /\ journal = <<>> /\ obligation = FALSE /\ gate = "absent" /\ public = "predecessor" /\ up = TRUE
    BY DEF ActivationInit, HostInit
  <1>2. EngineKept(engine)
    BY <1>1, NewEngineKept
  <1>3. DOMAIN captures = {}
    BY <1>1
  <1>4. CapturesKept
    BY <1>3 DEF CapturesKept
  <1>5. Absent \in FileRow
    BY DEF Absent, FileRow, Restores, Statuses
  <1>6. OrderKept
    BY <1>1, <1>5
       DEF OrderKept, Unstarted, ForwardAlone, PlanningFresh, ChildOwned, ChildAwaited, ForcedEntered,
           TerminalOpen, ManagerAwaits, PlannedFirst, FilesTyped, NoFiles, Fresh, Alone, OwnChild, Forwarding
  <1>7. /\ NoChild.role = "none" /\ NoChild.ends = "none" /\ NoChild.identity = "none"
        /\ NoChild.restore = "none"
    BY DEF NoChild
  <1>8. HostKept
    <2>1. ~ProductEntered
      BY <1>1 DEF ProductEntered, Happened, Range
    <2>2. Harmless(NoChild)
      BY <1>7 DEF Harmless
    <2>3. ChildKept(NoChild)
      BY <1>7 DEF ChildKept, MeekChild, Meek, Shallow, ReadinessRoles
    <2>4. engine.role = "none"
      BY <1>1 DEF NewEngine
    <2> QED BY <1>1, <2>1, <2>2, <2>3, <2>4 DEF HostKept, Untouched
  <1>9. ~Installing
    BY <1>1, <1>7 DEF Installing, Installer
  <1>10. InstallKnown
    <2>1. ~Forwarding
      BY <1>1 DEF Forwarding
    <2> QED BY <1>1, <1>7, <1>9, <2>1
            DEF InstallKnown, InstallCalled, InstallAhead, InstallReplayed, NothingInstalled
  <1> QED BY <1>2, <1>4, <1>6, <1>8, <1>10 DEF InstallInv

\* Every step keeps the invariant of the installation.
LEMMA InstallInvStep == TypeInv /\ TimeInv /\ InstallInv /\ [ActivationNext]_vars => InstallInv'
  <1> SUFFICES ASSUME TypeInv, TimeInv, InstallInv, [ActivationNext]_vars PROVE InstallInv'
    OBVIOUS
  <1>1. CASE ActivationNext
    <2>1. TransitionKnown /\ CapturesKept /\ OrderKept /\ HostKept
      BY DEF TimeInv, InstallInv
    <2>2. EngineKept(engine') /\ CapturesKept' /\ OrderKept' /\ HostKept'
      BY <1>1, <2>1, EngineStaysKept, CapturesStayKept, OrderStaysKept, HostStaysKept
    <2>3. InstallKnown'
      BY <1>1, <2>1, InstallStaysCalled, InstallStaysAhead, InstallStaysReplayed, InstallStaysNothing
         DEF InstallKnown
    <2>4. EngineKept(engine)'
      BY <2>2
    <2> QED BY <2>2, <2>3, <2>4 DEF InstallInv
  <1>2. CASE UNCHANGED vars
    BY <1>2
       DEF vars, hostVars, evidenceVars, orphanVars, guardianVars, InstallInv, CapturesKept, OrderKept, HostKept,
           InstallKnown, Unstarted, ForwardAlone, PlanningFresh, ChildOwned, ChildAwaited, ForcedEntered,
           TerminalOpen, ManagerAwaits, PlannedFirst, FilesTyped, Fresh, Alone, OwnChild, Forwarding,
           MayRun, Role, Key, TerminalName, Untouched, ProductEntered, Happened, Harmless,
           InstallCalled, InstallAhead, InstallReplayed, NothingInstalled, Installing, Installer, Good, Seen
  <1> QED BY <1>1, <1>2

\* What is known of the trusted time holds always.
LEMMA AlwaysTimeInv == ActivationSpec => []TimeInv
  BY AlwaysTypeInv, TimeInvInit, TimeInvStep, PTL DEF ActivationSpec

\* The invariant of the installation holds always.
LEMMA AlwaysInstallInv == ActivationSpec => []InstallInv
  BY AlwaysTypeInv, AlwaysTimeInv, InstallInvInit, InstallInvStep, PTL DEF ActivationSpec

--------------------------------------------------------------------------------
(* No role is run again. *)

\* The next call of a running engine is the first of its role, or the second postflight.
LEMMA NextIsFirst ==
  ASSUME TypeInv, InstallInv, Running(engine)
  PROVE  /\ Role \in Roles
         /\ Key = <<Role, 1>> \/ (Role = "postflight" /\ Key = <<Role, 2>>)
  <1>1. PICK e, x : e = engine /\ x = NextRole(e)
    OBVIOUS
  <1>2. EngineSound(e) /\ EngineKept(e) /\ Running(e)
    BY <1>1 DEF TypeInv, EngineTyped, InstallInv
  <1>3. PICK c \in [Roles -> Nat] : c = e.calls
    BY <1>2 DEF EngineSound, EngineRow
  <1>4. x \in Roles
    BY <1>1, <1>2, NextRoles
  <1>5. c["postflight"] <= 1 /\ c["postflight"] \in Nat
    BY <1>2, <1>3, PlacesAreRoles DEF EngineKept, CalledKept, Going, Running
  <1>6. ASSUME x # "postflight" PROVE c[x] = 0
    <2>1. CASE e.converging
      BY <1>1, <1>2, <1>3, <1>6, <2>1, NextKept DEF EngineKept, CountKept, Going, Running
    <2>2. CASE ~e.converging /\ ~Reached(e.role)
      <3>1. x \in Shallow \cup {"recovery_install"} /\ Rank[x] > Rank[e.role]
        BY <1>1, <1>2, <2>2, NextKept
      <3> QED BY <1>2, <1>3, <2>2, <3>1 DEF EngineKept, CountKept
    <2>3. CASE ~e.converging /\ Reached(e.role)
      <3>1. x \in FailureToConverge \ {"recovery_install"}
        BY <1>1, <1>2, <2>3, NextKept
      <3>2. x \in DOMAIN Place
        BY <3>1 DEF FailureToConverge, HardRoles, ContinuityRoles, Place
      <3>3. PlaceOf(x) > 0
        BY <3>2 DEF PlaceOf, Place
      <3>4. PlaceOf(x) > PlaceOf(e.role)
        BY <1>1, <1>2, <2>3, <3>3, NextPlace
      <3> QED BY <1>2, <1>3, <2>3, <3>2, <3>4 DEF EngineKept, CalledKept
    <2> QED BY <2>1, <2>2, <2>3
  <1> QED BY <1>1, <1>3, <1>4, <1>5, <1>6 DEF Role, Key, NextCall

\* Every step keeps the launches to the intents.
LEMMA LaunchesStep == TypeInv /\ InstallInv /\ LaunchesKept /\ [ActivationNext]_vars => LaunchesKept'
  <1> SUFFICES ASSUME TypeInv, InstallInv, LaunchesKept, [ActivationNext]_vars PROVE LaunchesKept'
    OBVIOUS
  <1>1. CASE ActivationNext
    <2>1. intents \subseteq intents'
      BY <1>1, IntentsStep
    <2>2. \A r \in Roles : Calls(r) \in Nat /\ Calls(r)' \in Nat /\ Calls(r) <= Calls(r)'
      BY <2>1 DEF Calls, Called
    <2>3. CASE launched' = launched
      BY <2>2, <2>3 DEF LaunchesKept
    <2>4. CASE StartRole
      <3>1. /\ Key \notin intents /\ Key \in intents' /\ Running(engine)
            /\ launched' = [launched EXCEPT ![Role] = @ + 1]
        BY <2>4 DEF StartRole, Driving
      <3>2. PICK r \in Roles : r = Role /\ (Key = <<r, 1>> \/ (r = "postflight" /\ Key = <<r, 2>>))
        BY <3>1, NextIsFirst
      <3>3. Calls(r) + 1 <= Calls(r)'
        BY <2>1, <3>1, <3>2 DEF Calls, Called
      <3> QED BY <2>2, <3>1, <3>2, <3>3 DEF LaunchesKept
    <2> QED BY <1>1, <2>3, <2>4, EvidenceFrame
  <1>2. CASE UNCHANGED vars
    BY <1>2 DEF vars, evidenceVars, orphanVars, LaunchesKept, Calls, Called
  <1> QED BY <1>1, <1>2

\* No role is run again, over all generations, replays and recoveries, whatever is lost,
\* torn or replayed (p08_activation_supervisor_v1.py:589-622): what was launched has an
\* intent, and what has one is not called again.
THEOREM NoRoleRunsTwice == ActivationSpec => []RolesRunOnce
  <1>1. ActivationInit => LaunchesKept
    BY DEF ActivationInit, LaunchesKept, Calls, Called
  <1>2. LaunchesKept => RolesRunOnce
    <2>1. \A r \in Roles : Calls(r) \in 0..2 /\ (r # "postflight" => Calls(r) <= 1)
      BY DEF Calls, Called
    <2> QED BY <2>1 DEF LaunchesKept, RolesRunOnce
  <1> QED BY <1>1, <1>2, AlwaysTypeInv, AlwaysInstallInv, LaunchesStep, PTL DEF ActivationSpec

\* It says what a hard stop before any mutation promises.
LEMMA NothingLeft == InstallInv => PremutationLeavesNothing
  BY DEF InstallInv, InstallKnown, NothingInstalled, Installing, HostKept, Untouched, PremutationLeavesNothing

--------------------------------------------------------------------------------
(* What the terminals and the strategy index say is true: the acceptance and the *)
(* recovery.                                                                *)

\* The engine of a step, and what became of the call it was about.
Outcome(x) ==
    \/ x = FailedFromEvidence
    \/ \E r \in ResultRow :
          /\ r.role = Role /\ TrueScope(r) /\ x = Replayed(r)
          /\ Key \in DOMAIN captures' /\ captures'[Key] = r
Driven == CallConsumed \/ RoleNotStarted \/ TakeCapture \/ CaptureNotPersisted
Repeated == ReplayFailure \/ ReplayInterrupted \/ ReplayCapture

\* The outcome of a call the supervisor drives.
LEMMA DrivenOutcome ==
  ASSUME TypeInv, InstallInv, Driven
  PROVE  /\ Running(engine) /\ MayRun /\ sup \in {"drive", "waiting"} /\ sup' \in {"drive", "waiting"}
         /\ \E x : Outcome(x) /\ engine' = AfterRole(x)
  <1>1. EngineSound(engine) /\ OrderKept /\ HostKept
    BY DEF TypeInv, EngineTyped, InstallInv
  <1>2. Running(engine) /\ MayRun /\ sup \in {"drive", "waiting"} /\ sup' \in {"drive", "waiting"}
    BY <1>1, OwnResult
       DEF Driven, CallConsumed, RoleNotStarted, TakeCapture, CaptureNotPersisted, Driving, Reported,
           OrderKept, ChildAwaited
  <1>3. CASE CallConsumed \/ RoleNotStarted \/ CaptureNotPersisted
    BY <1>2, <1>3 DEF CallConsumed, RoleNotStarted, CaptureNotPersisted, Outcome
  <1>4. CASE TakeCapture
    <2>1. PICK r \in ResultRow :
            /\ captures' = [k \in DOMAIN captures \cup {Key} |-> IF k = Key THEN r ELSE captures[k]]
            /\ r.role = Role /\ engine' = AfterRole(Replayed(r)) /\ TrueScope(r)
      BY <1>1, <1>4, Captured
    <2>2. Key \in DOMAIN captures' /\ captures'[Key] = r
      BY <2>1
    <2> QED BY <1>2, <2>1, <2>2 DEF Outcome
  <1> QED BY <1>3, <1>4 DEF Driven

\* The outcome of a call it replays.
LEMMA RepeatedOutcome ==
  ASSUME TypeInv, InstallInv, Repeated
  PROVE  /\ Running(engine) /\ sup = "replay" /\ sup' \in {"replay", "resolve"} /\ mode' = mode
         /\ \E x : Outcome(x) /\ engine' = x
  <1>1. Running(engine) /\ sup = "replay" /\ sup' \in {"replay", "resolve"} /\ mode' = mode
    BY DEF Repeated, ReplayFailure, ReplayInterrupted, ReplayCapture, Replaying, KeepEvidence
  <1>0. PICK x : x = engine'
    OBVIOUS
  <1>2. CASE ReplayFailure \/ ReplayInterrupted
    <2>1. x = FailedFromEvidence
      BY <1>0, <1>2 DEF ReplayFailure, ReplayInterrupted
    <2> QED BY <1>0, <1>1, <2>1 DEF Outcome
  <1>3. CASE ReplayCapture
    <2>1. captures' = captures
      BY <1>3 DEF ReplayCapture, KeepEvidence, evidenceVars
    <2>2. /\ captures[Key] \in ResultRow /\ captures[Key].role = Role /\ TrueScope(captures[Key])
          /\ Key \in DOMAIN captures /\ x = Replayed(captures[Key])
      BY <1>0, <1>3, ReplayFound
    <2>3. Outcome(x)
      BY <2>1, <2>2 DEF Outcome
    <2> QED BY <1>0, <1>1, <2>3
  <1> QED BY <1>1, <1>2, <1>3 DEF Repeated

\* What a success leaves alone, and what it tells of the continuity.
LEMMA SucceededTells ==
  ASSUME NEW e \in EngineRow, NEW r \in ResultRow, Believable(e, r), NEW f, f = Succeeded(e, r)
  PROVE  /\ f.scope = e.scope
         /\ r.role \notin ContinuityRoles =>
               f.transition = e.transition /\ f.converging = e.converging /\ f.forward = e.forward
         /\ r.role \in ContinuityRoles =>
               f.transition = r.state /\ r.state \in Outcomes[r.role]
  <1>1.  /\ f \in EngineRow /\ f.role = r.role /\ f.calls = [e.calls EXCEPT ![r.role] = @ + 1]
         /\ f.claimed <=> (e.claimed \/ r.role = "claim")
         /\ f.scope = e.scope
         /\ r.role \notin {"converge", "recover"} =>
               (f.product <=> (e.product \/ r.scope = "product" \/ r.role \in HardRoles))
         /\ r.role = "converge" =>
               (f.product <=> (e.product \/ r.scope = "product" \/ e.scope # "infrastructure_only"))
         /\ r.role = "recover" => ~f.product
         /\ r.role # "recover" => (f.infra <=> (e.infra \/ r.scope = "recovery_infrastructure"))
         /\ f.status = IF r.role # "postflight" THEN e.status
                       ELSE IF e.converging THEN "converged" ELSE "accepted"
         /\ r.role \notin ContinuityRoles =>
               f.transition = e.transition /\ f.converging = e.converging /\ f.forward = e.forward
         /\ r.role \in ContinuityRoles =>
               /\ f.transition = r.state /\ r.state \in Outcomes[r.role]
               /\ f.converging <=> (e.converging \/ r.state = "reconciled_not_committed")
    BY SucceededFields
  <1> QED BY <1>1

\* A refusal ends a convergence.
LEMMA RefusedConverging ==
  ASSUME NEW e \in EngineRow, NEW r \in ResultRow, NEW f, f = Refused(e, r)
  PROVE  e.converging /\ r.role \in ConvergenceRoles => f.status = "convergence_failed"
  <1>1. r.role = "continuity_transition" => r.role \notin ConvergenceRoles
    BY DEF ConvergenceRoles
  <1>2.  /\ f \in EngineRow /\ f.role = r.role /\ f.calls = [e.calls EXCEPT ![r.role] = @ + 1]
         /\ f.claimed = e.claimed
         /\ f.product <=> (e.product \/ r.scope = "product")
         /\ f.infra <=> (e.infra \/ r.scope = "recovery_infrastructure")
         /\ \/ /\ r.role = "continuity_transition" /\ r.forward
               /\ f.status = e.status /\ f.converging = e.converging /\ f.scope = e.scope
               /\ f.transition = "transition_ambiguous"
            \/ /\ e.converging /\ r.role \in ConvergenceRoles
               /\ f.status = "convergence_failed" /\ f.converging
               /\ f.scope = e.scope /\ f.transition = e.transition
            \/ /\ f.product \/ f.infra
               /\ r.role \in FailureToConverge /\ ~(e.converging /\ r.role \in ConvergenceRoles)
               /\ f.status = e.status /\ f.converging
               /\ f.scope = IF f.infra /\ ~f.product THEN "infrastructure_only" ELSE e.scope
               /\ f.transition = e.transition
            \/ /\ ~(e.converging /\ r.role \in ConvergenceRoles)
               /\ ~((f.product \/ f.infra) /\ r.role \in FailureToConverge)
               /\ f.status = "premutation" /\ f.converging = e.converging
               /\ f.scope = e.scope /\ f.transition = e.transition
    BY RefusedFields
  <1>3. \/ /\ r.role = "continuity_transition" /\ r.forward
           /\ f.status = e.status /\ f.converging = e.converging /\ f.scope = e.scope
           /\ f.transition = "transition_ambiguous"
        \/ /\ e.converging /\ r.role \in ConvergenceRoles
           /\ f.status = "convergence_failed" /\ f.converging
           /\ f.scope = e.scope /\ f.transition = e.transition
        \/ /\ f.product \/ f.infra
           /\ r.role \in FailureToConverge /\ ~(e.converging /\ r.role \in ConvergenceRoles)
           /\ f.status = e.status /\ f.converging
           /\ f.scope = IF f.infra /\ ~f.product THEN "infrastructure_only" ELSE e.scope
           /\ f.transition = e.transition
        \/ /\ ~(e.converging /\ r.role \in ConvergenceRoles)
           /\ ~((f.product \/ f.infra) /\ r.role \in FailureToConverge)
           /\ f.status = "premutation" /\ f.converging = e.converging
           /\ f.scope = e.scope /\ f.transition = e.transition
    BY <1>2
  <1> QED BY <1>1, <1>3

\* An engine that was given an outcome: refused, or told of a success on disk.
LEMMA OutcomeFields ==
  ASSUME TypeInv, InstallInv, Running(engine), NEW x, Outcome(x)
  PROVE  /\ EngineSound(x) /\ EngineKept(x) /\ x.role = Role
         /\ engine.converging => x.converging
         /\ \/ /\ x.status \in {"running", "premutation", "convergence_failed"}
               /\ Running(x) /\ ~x.converging =>
                     Role = "continuity_transition" /\ x.transition = "transition_ambiguous"
               /\ engine.converging /\ Role \in ConvergenceRoles => ~Running(x)
            \/ \E r \in ResultRow :
                  /\ r.ok /\ r.role = Role /\ Believable(engine, r) /\ x = Succeeded(engine, r)
                  /\ Key \in DOMAIN captures' /\ captures'[Key] = r
  <1>1. engine \in EngineRow /\ EngineSound(engine) /\ EngineKept(engine)
    BY DEF TypeInv, EngineTyped, EngineSound, InstallInv
  <1>2. \A q \in ResultRow : q.role = Role /\ x = Refused(engine, q) =>
           /\ x.role = Role /\ (engine.converging => x.converging)
           /\ x.status \in {"running", "premutation", "convergence_failed"}
           /\ Running(x) /\ ~x.converging =>
                 Role = "continuity_transition" /\ x.transition = "transition_ambiguous"
           /\ engine.converging /\ Role \in ConvergenceRoles => ~Running(x)
    <2> SUFFICES ASSUME NEW q \in ResultRow, q.role = Role, x = Refused(engine, q)
                 PROVE  /\ x.role = Role /\ (engine.converging => x.converging)
                        /\ x.status \in {"running", "premutation", "convergence_failed"}
                        /\ Running(x) /\ ~x.converging =>
                              Role = "continuity_transition" /\ x.transition = "transition_ambiguous"
                        /\ engine.converging /\ Role \in ConvergenceRoles => ~Running(x)
      OBVIOUS
    <2>1. \/ Role = "continuity_transition" /\ x.status = engine.status /\ x.converging = engine.converging
          \/ engine.converging /\ Role \in ConvergenceRoles /\ x.status = "convergence_failed" /\ x.converging
          \/ (x.product \/ x.infra) /\ Role \in FailureToConverge /\ x.status = engine.status /\ x.converging
          \/ /\ ~(engine.converging /\ Role \in ConvergenceRoles)
             /\ ~((x.product \/ x.infra) /\ Role \in FailureToConverge)
             /\ x.status = "premutation" /\ x.converging = engine.converging
      BY <1>1, RefusedStatus
    <2>2. /\ x.role = Role /\ (engine.converging => x.converging)
          /\ Running(x) /\ ~x.converging =>
                Role = "continuity_transition" /\ x.transition = "transition_ambiguous"
      BY <1>1, RefusedRow
    <2>3. engine.converging => Role \in ConvergenceRoles
      BY <1>1, NextKept DEF Role, ConvergenceRoles
    <2>4. x.status \in {"running", "premutation", "convergence_failed"}
      BY <2>1 DEF Running
    <2>5. engine.converging /\ Role \in ConvergenceRoles => x.status = "convergence_failed"
      <3>1. Role # "continuity_transition" \/ Role \notin ConvergenceRoles
        BY DEF ConvergenceRoles
      <3> QED BY <2>1, <2>3, <3>1, RefusedConverging, <1>1
    <2> QED BY <2>2, <2>4, <2>5 DEF Running
  <1>3. CASE x = FailedFromEvidence
    <2>1. EngineKept(x) /\ EngineSound(x)
      BY <1>1, <1>3, FailedKept, NextCallSound DEF FailedFromEvidence, Role, ResultScopes
    <2> QED BY <1>1, <1>2, <1>3, <2>1, FailedForm
  <1>4. ASSUME NEW r \in ResultRow, r.role = Role, TrueScope(r), x = Replayed(r),
               Key \in DOMAIN captures', captures'[Key] = r, x # FailedFromEvidence
        PROVE  /\ EngineSound(x) /\ EngineKept(x) /\ x.role = Role /\ (engine.converging => x.converging)
               /\ \/ /\ x.status \in {"running", "premutation", "convergence_failed"}
                     /\ Running(x) /\ ~x.converging =>
                           Role = "continuity_transition" /\ x.transition = "transition_ambiguous"
                     /\ engine.converging /\ Role \in ConvergenceRoles => ~Running(x)
                  \/ /\ r.ok /\ r.role = Role /\ Believable(engine, r) /\ x = Succeeded(engine, r)
                     /\ Key \in DOMAIN captures' /\ captures'[Key] = r
    <2>1. EngineSound(x) /\ EngineKept(x)
      BY <1>1, <1>4, ReplayedKept
    <2>2. \/ ~r.ok /\ x = Refused(engine, r)
          \/ r.ok /\ Believable(engine, r) /\ x = Succeeded(engine, r)
      BY <1>1, <1>4, ReplayedCases
    <2>3. ASSUME r.ok, Believable(engine, r), x = Succeeded(engine, r)
          PROVE  x.role = Role /\ (engine.converging => x.converging)
      <3>1. x.role = r.role /\ (engine.converging => x.converging)
        BY <1>1, <2>3, SucceededRow
      <3> QED BY <1>4, <3>1
    <2>4. ~r.ok /\ x = Refused(engine, r) =>
             /\ x.role = Role /\ (engine.converging => x.converging)
             /\ x.status \in {"running", "premutation", "convergence_failed"}
             /\ Running(x) /\ ~x.converging =>
                   Role = "continuity_transition" /\ x.transition = "transition_ambiguous"
             /\ engine.converging /\ Role \in ConvergenceRoles => ~Running(x)
      BY <1>2, <1>4
    <2> QED BY <1>4, <2>1, <2>2, <2>3, <2>4
  <1> QED BY <1>3, <1>4 DEF Outcome

\* A capture is never taken back.
LEMMA CapturesStay ==
  ASSUME TypeInv, InstallInv, ActivationNext
  PROVE  /\ \A c \in DOMAIN captures : c \in DOMAIN captures' /\ captures'[c] = captures[c]
         /\ \A c : Seen(c) => Seen(c)'
         /\ AcceptSeen => AcceptSeen'
  <1>1. TakeCapture => Key \notin DOMAIN captures
    BY OwnResult DEF TakeCapture, InstallInv
  <1>2. \A c \in DOMAIN captures : c \in DOMAIN captures' /\ captures'[c] = captures[c]
    BY <1>1, EvidenceFrame DEF TakeCapture
  <1> QED BY <1>2 DEF Seen, AcceptSeen

\* The calls of a convergence and of the postflight: where the engine comes to them from.
LEMMA ConvergenceCalls ==
  ASSUME EngineSound(engine), EngineKept(engine), Running(engine)
  PROVE  /\ Role = "converge" => Key = Conv
         /\ Role = "recover" => Key = Recov /\ engine.role = "converge"
         /\ Role = "postflight" /\ engine.converging => engine.role = "recover"
         /\ Role = "postflight" /\ ~engine.converging => Key = Post
         /\ Role \in {"converge", "recover"} => engine.converging
         /\ engine.converging => Role \in ConvergenceRoles
         /\ engine.role \in ContinuityRoles /\ ~engine.converging =>
               Role \in {"start_service", "continuity_transition", "continuity_reconcile"}
         /\ engine.role = "continuity_transition" /\ ~engine.converging =>
               Role \in {"start_service", "continuity_reconcile"}
  <1>1. engine.converging => Role = IF engine.role = "converge" THEN "recover"
                                    ELSE IF engine.role = "recover" THEN "postflight" ELSE "converge"
    BY NextKept DEF Role
  <1>2. ~engine.converging => Role \in Shallow \cup {"recovery_install"} \cup FailureToConverge
    BY NextKept DEF Role
  <1>3. {"converge", "recover"} \cap (Shallow \cup {"recovery_install"} \cup FailureToConverge) = {}
    BY DEF Shallow, ReadinessRoles, FailureToConverge, HardRoles, ContinuityRoles
  <1>4. Role \in {"converge", "recover"} => engine.converging
    BY <1>2, <1>3
  <1>5. /\ Going(engine) /\ engine.role \notin {"converge", "recover"} => engine.calls["converge"] = 0
        /\ Going(engine) /\ engine.role # "recover" => engine.calls["recover"] = 0
        /\ ~engine.converging => engine.calls["postflight"] = 0
    BY DEF EngineKept, CountKept
  <1>6. Going(engine) /\ Key = <<Role, engine.calls[Role] + 1>>
    BY DEF Going, Running, Key, NextCall, Role
  <1>7. engine.role \in ContinuityRoles /\ ~engine.converging =>
           /\ Role \in {"start_service", "continuity_transition", "continuity_reconcile"}
           /\ engine.role = "continuity_transition" => Role \in {"start_service", "continuity_reconcile"}
    <2> SUFFICES ASSUME engine.role \in ContinuityRoles, ~engine.converging
                 PROVE  /\ Role \in {"start_service", "continuity_transition", "continuity_reconcile"}
                        /\ engine.role = "continuity_transition" => Role \in {"start_service", "continuity_reconcile"}
      OBVIOUS
    <2>1. Role = ContinuitySuccessor[engine.transition] /\ engine.transition \in Outcomes[engine.role]
      BY DEF Role, NextRole, EngineSound, ContinuityRoles
    <2>2. Role # "converge"
      BY <1>4
    <2> QED BY <2>1, <2>2 DEF ContinuitySuccessor, Outcomes, ContinuityRoles
  <1>9. /\ Role = "converge" => engine.role \notin {"converge", "recover"}
        /\ Role = "recover" => engine.role = "converge"
        /\ Role = "postflight" /\ engine.converging => engine.role = "recover"
    BY <1>1, <1>4
  <1>10. /\ Role = "converge" => engine.calls[Role] = 0
         /\ Role = "recover" => engine.calls[Role] = 0
         /\ Role = "postflight" /\ ~engine.converging => engine.calls[Role] = 0
    BY <1>5, <1>6, <1>9
  <1>11. \A n : n = 0 => <<Role, n + 1>> = <<Role, 1>>
    OBVIOUS
  <1>12. /\ Role = "converge" => Key = Conv
         /\ Role = "recover" => Key = Recov
         /\ Role = "postflight" /\ ~engine.converging => Key = Post
    BY <1>6, <1>10, <1>11 DEF Conv, Recov, Post
  <1>13. engine.converging => Role \in ConvergenceRoles
    BY <1>1 DEF ConvergenceRoles
  <1>14. engine.role = "continuity_transition" /\ ~engine.converging =>
            Role \in {"start_service", "continuity_reconcile"}
    BY <1>7 DEF ContinuityRoles
  <1>15. Role \in {"converge", "recover"} => engine.converging
    BY <1>4
  <1>16. engine.role \in ContinuityRoles /\ ~engine.converging =>
            Role \in {"start_service", "continuity_transition", "continuity_reconcile"}
    BY <1>7
  <1>17. /\ Role = "recover" => engine.role = "converge"
         /\ Role = "postflight" /\ engine.converging => engine.role = "recover"
    BY <1>9
  <1> HIDE DEF Role, Key, Conv, Recov, Post
  <1> QED BY <1>12, <1>13, <1>14, <1>15, <1>16, <1>17

\* What an outcome comes to is in the captures.
LEMMA OutcomeSeen ==
  ASSUME TypeInv, InstallInv, ActivationNext, ConvergenceSeen, Running(engine), NEW x, Outcome(x)
  PROVE  /\ Converges(x) => Seen(Conv)'
         /\ (Running(x) /\ x.role = "recover") \/ x.status = "converged" => Seen(Recov)'
         /\ x.status = "accepted" => AcceptSeen' /\ ~engine.converging /\ Role = "postflight"
  <1>1. EngineSound(engine) /\ EngineKept(engine) /\ engine \in EngineRow
    BY DEF TypeInv, EngineTyped, EngineSound, InstallInv
  <1>2. x.role = Role
    BY OutcomeFields
  <1>3. CASE /\ x.status \in {"running", "premutation", "convergence_failed"}
             /\ engine.converging /\ Role \in ConvergenceRoles => ~Running(x)
    BY <1>1, <1>2, <1>3, ConvergenceCalls DEF Converges, Running, ConvergenceRoles
  <1>4. ASSUME NEW r \in ResultRow, r.ok, r.role = Role, Believable(engine, r), x = Succeeded(engine, r),
               Key \in DOMAIN captures', captures'[Key] = r
        PROVE  /\ Converges(x) => Seen(Conv)'
               /\ (Running(x) /\ x.role = "recover") \/ x.status = "converged" => Seen(Recov)'
               /\ x.status = "accepted" => AcceptSeen' /\ ~engine.converging /\ Role = "postflight"
    <2>1. x.status = IF Role # "postflight" THEN "running"
                     ELSE IF engine.converging THEN "converged" ELSE "accepted"
      BY <1>1, <1>4, SucceededStatus DEF Running
    <2>2. Key \in DOMAIN captures' /\ captures'[Key] = r /\ r.ok
      BY <1>4
    <2>3. Role = "converge" => Seen(Conv)'
      BY <1>1, <2>2, ConvergenceCalls DEF Seen
    <2>4. Role = "recover" => Seen(Conv)' /\ Seen(Recov)'
      <3>1. Role = "recover" => Key = Recov /\ Seen(Conv)
        BY <1>1, ConvergenceCalls DEF ConvergenceSeen, Converges
      <3> QED BY <2>2, <3>1, CapturesStay DEF Seen
    <2>5. Role = "postflight" /\ engine.converging => Seen(Recov)'
      <3>1. Role = "postflight" /\ engine.converging => Seen(Recov)
        BY <1>1, ConvergenceCalls DEF ConvergenceSeen
      <3> QED BY <3>1, CapturesStay
    <2>6. Role = "postflight" /\ ~engine.converging => AcceptSeen'
      <3>1. Role = "postflight" /\ ~engine.converging => Key = Post /\ r.identity = "target"
        BY <1>1, <1>4, ConvergenceCalls DEF Believable
      <3> QED BY <1>4, <2>2, <3>1 DEF AcceptSeen, Seen
    <2> QED BY <1>2, <2>1, <2>3, <2>4, <2>5, <2>6 DEF Converges, Running
  <1> QED BY <1>3, <1>4, OutcomeFields

\* How the engine changes in a step.
LEMMA EngineStep ==
  ASSUME TypeInv, InstallInv, ActivationNext
  PROVE  \/ engine' = engine
         \/ (PreparePlan \/ BeginRecovery) /\ engine' = NewEngine
         \/ /\ Driven /\ Running(engine) /\ MayRun /\ sup \in {"drive", "waiting"} /\ sup' \in {"drive", "waiting"}
            /\ \E x : Outcome(x) /\ engine' = AfterRole(x)
         \/ /\ Repeated /\ Running(engine) /\ sup = "replay" /\ sup' \in {"replay", "resolve"} /\ mode' = mode
            /\ \E x : Outcome(x) /\ engine' = x
         \/ Resolve /\ engine' = Resolved(engine, mode = "forced") /\ sup = "resolve"
  <1>1. CASE Driven
    BY <1>1, DrivenOutcome
  <1>2. CASE Repeated
    BY <1>2, RepeatedOutcome
  <1>3. CASE Resolve
    BY <1>3 DEF Resolve, Resolved
  <1>4. CASE PreparePlan \/ BeginRecovery
    BY <1>4 DEF PreparePlan, BeginRecovery
  <1> QED BY <1>1, <1>2, <1>3, <1>4, EngineFrame DEF Driven, Repeated

\* What the engine has come to stays in the captures.
LEMMA ConvergenceStaysSeen ==
  ASSUME TypeInv, InstallInv, ConvergenceSeen, AcceptanceSeen, ActivationNext
  PROVE  ConvergenceSeen' /\ AcceptanceSeen'
  <1>1. /\ EngineSound(engine) /\ EngineKept(engine) /\ CapturesKept
        /\ Converges(engine) => Seen(Conv)
        /\ (Running(engine) /\ engine.role = "recover") \/ engine.status = "converged" => Seen(Recov)
        /\ engine.status = "accepted" => AcceptSeen
    BY DEF TypeInv, EngineTyped, InstallInv, ConvergenceSeen, AcceptanceSeen
  <1> DEFINE Backed(f) == /\ Converges(f) => Seen(Conv)'
                          /\ (Running(f) /\ f.role = "recover") \/ f.status = "converged" => Seen(Recov)'
                          /\ f.status = "accepted" => AcceptSeen'
  <1>2. Backed(engine)
    BY <1>1, CapturesStay
  <1>3. PICK f : f = engine'
    OBVIOUS
  <1>4. Backed(f)
    <2>1. CASE f = engine
      BY <1>2, <2>1
    <2>2. CASE f = NewEngine
      BY <2>2 DEF NewEngine, Converges, Running
    <2>3. CASE /\ Running(engine)
               /\ \E x : Outcome(x) /\ f = AfterRole(x)
      <3>1. PICK x : Outcome(x) /\ f = AfterRole(x)
        BY <2>3
      <3>2. /\ EngineSound(x) /\ EngineKept(x)
        BY <2>3, <3>1, OutcomeFields
      <3>3. f.role = x.role /\ (f.status = x.status \/ f.status = "premutation")
            /\ (~Running(x) => f = x)
        BY <3>1, <3>2, AfterRoleFields
      <3>4. Backed(x)
        BY <2>3, <3>1, OutcomeSeen
      <3> QED BY <3>3, <3>4 DEF Converges, Running
    <2>4. CASE Running(engine) /\ \E x : Outcome(x) /\ f = x
      BY <2>4, OutcomeSeen
    <2>5. CASE f = Resolved(engine, mode = "forced")
      <3>1. CASE Running(engine) /\ ~engine.product /\ f = Aborted(Bound(engine))
        BY <1>1, <1>2, <3>1, BoundAborted DEF Converges, Running
      <3>2. CASE Running(engine) /\ f = Aborted(engine)
        <4>1. f.role = engine.role /\ f.status \in {"running", "premutation"}
          BY <1>1, <3>2 DEF Aborted, EngineSound, EngineRow, Running
        <4> QED BY <1>2, <3>2, <4>1 DEF Converges, Running
      <3>3. CASE engine.status = "accepted" /\ f = Aborted(Reopened(engine))
        BY <1>1, <3>3, ReopenedAborted DEF Converges, Running
      <3>4. CASE f = engine
        BY <1>2, <3>4
      <3>5. PICK forced \in BOOLEAN : forced <=> mode = "forced"
        OBVIOUS
      <3>6. f = Resolved(engine, forced)
        BY <2>5, <3>5
      <3>7. \/ Running(engine) /\ ~engine.product /\ obligation /\ f = Aborted(Bound(engine))
            \/ Running(engine) /\ ~(~engine.product /\ obligation) /\ f = Aborted(engine)
            \/ engine.status = "accepted" /\ forced /\ f = Aborted(Reopened(engine))
            \/ ~Running(engine) /\ ~(engine.status = "accepted" /\ forced) /\ f = engine
        BY <1>1, <3>6, ResolvedCases
      <3> HIDE DEF Backed
      <3> QED BY <3>1, <3>2, <3>3, <3>4, <3>7
    <2> QED BY <1>3, <2>1, <2>2, <2>3, <2>4, <2>5, EngineStep
  <1>5. ASSUME Recov \in intents' PROVE Conv \in intents'
    <2>1. intents \subseteq intents' /\ (intents' = intents \/ StartRole \/ RoleNotStarted \/ ChildNotCreated)
      BY IntentsStep, EvidenceFrame
    <2>2. CASE Recov \in intents
      BY <2>1, <2>2 DEF ConvergenceSeen
    <2>3. CASE Recov \notin intents
      <3>1. Running(engine) /\ intents' \subseteq intents \cup {Key} /\ Key[1] = Role
        BY <1>5, <2>1, <2>3, IntentsStep DEF StartRole, RoleNotStarted, ChildNotCreated, Driving
      <3>2. Role = "recover"
        BY <1>5, <2>3, <3>1 DEF Recov
      <3>3. Seen(Conv)
        BY <1>1, <3>1, <3>2, ConvergenceCalls DEF Converges
      <3> QED BY <1>1, <2>1, <3>3 DEF CapturesKept, Seen
    <2> QED BY <2>2, <2>3
  <1>6. /\ Converges(engine') => Seen(Conv)'
        /\ (Running(engine') /\ engine'.role = "recover") \/ engine'.status = "converged" => Seen(Recov)'
        /\ engine'.status = "accepted" => AcceptSeen'
    BY <1>3, <1>4
  <1> QED BY <1>5, <1>6 DEF ConvergenceSeen, AcceptanceSeen, Converges, Running

\* The way of the supervisor in a recovery, and out of its beginnings.
LEMMA ResolveFrame ==
  ASSUME ActivationNext, sup' \in {"drive", "waiting"}, sup = "resolve", manager \in {"forward", "recover"}
  PROVE  Resolve
  <1>1. \/ RoleSteps \/ Switch \/ PreparePlan \/ StartRole \/ CallConsumed \/ RoleNotStarted
        \/ TakeCapture \/ CaptureNotPersisted \/ BeginRecovery \/ ReplayFailure
        \/ ReplayInterrupted \/ ReplayCapture \/ ReplayEnds \/ Resolve
    BY ActiveFrame
  <1> QED
    BY <1>1 DEF RoleSteps, Switch, PreparePlan, StartRole, CallConsumed, RoleNotStarted, TakeCapture,
                CaptureNotPersisted, BeginRecovery, ReplayFailure, ReplayInterrupted, ReplayCapture,
                ReplayEnds, Driving, Reported, Replaying

\* An abort runs on or closes, in the role it is in.
LEMMA AbortedEnds ==
  ASSUME NEW e \in EngineRow, Running(e), NEW f, f = Aborted(e)
  PROVE  /\ f.role = e.role /\ f.status \in {"running", "premutation"}
         /\ e.transition # "transition_ambiguous" => f.converging \/ f.status = "premutation"
  BY DEF Aborted, EngineRow, Running

\* How a supervisor of a recovery comes to drive: it does already, or it has just resolved.
LEMMA RecoveryFrame ==
  ASSUME OrderKept, ActivationNext, mode' # "forward", sup' \in {"drive", "waiting"}
  PROVE  /\ mode' = mode
         /\ sup \in {"drive", "waiting"} \/ (sup = "resolve" /\ Resolve)
  <1>1. mode' = mode
    BY ModeFrame DEF PreparePlan, CloseRecovers
  <1>2. sup \in {"drive", "waiting", "planning", "resolve"}
    BY StageFrame DEF StartRole, Driving
  <1>3. sup # "planning"
    BY <1>1 DEF OrderKept, PlanningFresh
  <1>4. sup = "resolve" => Resolve
    BY ResolveFrame DEF OrderKept, ManagerAwaits
  <1> QED BY <1>1, <1>2, <1>3, <1>4

\* Every step keeps a recovery to its convergence.
LEMMA RecoveryStaysConverging ==
  ASSUME TypeInv, InstallInv, EngineSeen, ActivationNext
  PROVE  RecoveryConverges'
  <1>1. OrderKept /\ EngineSound(engine) /\ EngineKept(engine) /\ engine \in EngineRow
        /\ (sup = "waiting" => Running(engine)) /\ ConvergenceSeen
    BY DEF TypeInv, EngineTyped, EngineSound, InstallInv, EngineSeen
  <1>2. /\ mode # "forward" /\ sup \in {"drive", "waiting"} /\ Running(engine) =>
              engine.converging \/ engine.role = "continuity_transition"
        /\ mode = "forced" /\ sup = "drive" => engine.status # "accepted"
    BY DEF EngineSeen, RecoveryConverges
  <1>3. ASSUME mode' # "forward", sup' \in {"drive", "waiting"}
        PROVE  \/ engine' = engine /\ sup \in {"drive", "waiting"}
               \/ /\ Running(engine) /\ MayRun /\ sup \in {"drive", "waiting"}
                  /\ \E x : Outcome(x) /\ engine' = AfterRole(x)
               \/ engine' = Resolved(engine, mode = "forced")
    BY <1>1, <1>3, RecoveryFrame, EngineStep DEF PreparePlan, BeginRecovery, Resolve, Resolved
  <1>4. PICK f : f = engine'
    OBVIOUS
  <1>5. PICK forced \in BOOLEAN : forced <=> mode = "forced"
    OBVIOUS
  <1>6. ASSUME mode # "forward", sup \in {"drive", "waiting"}, Running(engine), MayRun, NEW x, Outcome(x),
               f = AfterRole(x)
        PROVE  /\ Running(f) => f.converging \/ f.role = "continuity_transition"
               /\ f.status # "accepted"
    <2>1. engine.converging \/ engine.role = "continuity_transition"
      BY <1>2, <1>6
    <2>2. ~engine.converging => Role = "continuity_reconcile"
      <3>1. ~engine.converging => Role \in {"start_service", "continuity_reconcile"}
        BY <1>1, <1>6, <2>1, ConvergenceCalls
      <3>2. Role \in {"continuity_reconcile", "converge", "recover", "postflight"}
        BY <1>6 DEF MayRun, ConvergenceRoles
      <3> QED BY <3>1, <3>2
    <2>3. /\ EngineSound(x) /\ EngineKept(x) /\ x.role = Role
          /\ engine.converging => x.converging
          /\ \/ Running(x) /\ ~x.converging => Role = "continuity_transition"
             \/ \E r \in ResultRow : r.role = Role /\ Believable(engine, r) /\ x = Succeeded(engine, r)
      BY <1>6, OutcomeFields
    <2>4. /\ f.role = x.role /\ (~Running(x) => f = x) /\ (Running(f) /\ ~f.converging => f = x)
          /\ (f.status = x.status \/ f.status = "premutation")
      BY <1>6, <2>3, AfterRoleFields
    <2>5. f.status # "accepted"
      <3>1. x.status = "accepted" => ~engine.converging /\ Role = "postflight"
        BY <1>1, <1>6, OutcomeSeen
      <3> QED BY <2>2, <2>4, <3>1
    <2>6. ASSUME Running(f), ~f.converging PROVE FALSE
      <3>1. f = x /\ Running(x) /\ ~x.converging /\ Role = "continuity_reconcile"
        BY <2>2, <2>3, <2>4, <2>6
      <3>2. PICK r \in ResultRow : r.role = Role /\ Believable(engine, r) /\ x = Succeeded(engine, r)
        BY <2>3, <3>1
      <3>3. x.transition = r.state /\ r.state \in Outcomes["continuity_reconcile"]
        BY <1>1, <3>1, <3>2, SucceededTells DEF ContinuityRoles
      <3>4. x.transition # "transition_ambiguous"
        BY <3>3 DEF Outcomes
      <3>5. f = Aborted(x)
        BY <1>6, <3>1 DEF AfterRole
      <3>6. x \in EngineRow
        BY <2>3 DEF EngineSound
      <3> QED BY <2>6, <3>1, <3>4, <3>5, <3>6, AbortedEnds DEF Running
    <2> QED BY <2>5, <2>6
  <1>7. ASSUME f = Resolved(engine, forced)
        PROVE  /\ Running(f) => f.converging \/ f.role = "continuity_transition"
               /\ forced => f.status # "accepted"
    <2>1. Running(f) => f.converging \/ f.role = "continuity_transition"
      BY <1>1, <1>7, ResolvedRuns
    <2>2. CASE Running(engine) /\ ~engine.product /\ f = Aborted(Bound(engine))
      <3>1. Running(f) \/ f.status = "premutation"
        BY <1>1, <2>2, BoundAborted
      <3> QED BY <2>1, <3>1 DEF Running
    <2>3. CASE Running(engine) /\ f = Aborted(engine)
      <3>1. Running(f) \/ f.status = "premutation"
        BY <1>1, <2>3, AbortedEnds DEF Running
      <3> QED BY <2>1, <3>1 DEF Running
    <2>4. CASE engine.status = "accepted" /\ f = Aborted(Reopened(engine))
      <3>1. Running(f)
        BY <1>1, <2>4, ReopenedAborted
      <3> QED BY <2>1, <3>1 DEF Running
    <2>5. CASE ~(engine.status = "accepted" /\ forced) /\ f = engine
      BY <2>1, <2>5
    <2>6. \/ Running(engine) /\ ~engine.product /\ obligation /\ f = Aborted(Bound(engine))
          \/ Running(engine) /\ ~(~engine.product /\ obligation) /\ f = Aborted(engine)
          \/ engine.status = "accepted" /\ forced /\ f = Aborted(Reopened(engine))
          \/ ~Running(engine) /\ ~(engine.status = "accepted" /\ forced) /\ f = engine
      BY <1>1, <1>7, ResolvedCases
    <2> QED BY <2>2, <2>3, <2>4, <2>5, <2>6
  <1>8. ASSUME mode' # "forward", sup' \in {"drive", "waiting"}
        PROVE  /\ Running(f) => f.converging \/ f.role = "continuity_transition"
               /\ mode' = "forced" /\ sup' = "drive" => f.status # "accepted"
    <2>1. mode' = mode
      BY <1>1, <1>8, RecoveryFrame
    <2>2. CASE engine' = engine /\ sup \in {"drive", "waiting"}
      BY <1>1, <1>2, <1>4, <1>8, <2>1, <2>2 DEF Running
    <2>3. CASE /\ Running(engine) /\ MayRun /\ sup \in {"drive", "waiting"}
               /\ \E x : Outcome(x) /\ engine' = AfterRole(x)
      BY <1>4, <1>6, <1>8, <2>1, <2>3
    <2>4. CASE engine' = Resolved(engine, mode = "forced")
      BY <1>4, <1>5, <1>7, <2>1, <2>4
    <2> QED BY <1>3, <1>8, <2>2, <2>3, <2>4
  <1>9. ASSUME mode' # "forward", sup' \in {"drive", "waiting"}
        PROVE  /\ Running(engine') => engine'.converging \/ engine'.role = "continuity_transition"
               /\ mode' = "forced" /\ sup' = "drive" => engine'.status # "accepted"
    BY <1>4, <1>8, <1>9
  <1> QED BY <1>9 DEF RecoveryConverges, Running

\* An acceptance is told by a postflight that ends well and names the target.
LEMMA AcceptanceTaken ==
  ASSUME TypeInv, InstallInv, ConvergenceSeen, ActivationNext, ~AcceptSeen, AcceptSeen'
  PROVE  /\ TakeCapture /\ Running(engine) /\ Role = "postflight" /\ Key = Post
         /\ child.role = "postflight" /\ child.ends = "success" /\ child.identity = "target"
         /\ ~engine.converging => engine'.status = "accepted"
         /\ engine.converging => Seen(Conv) /\ Seen(Recov)
  <1>1. EngineSound(engine) /\ EngineKept(engine) /\ OrderKept /\ HostKept /\ engine \in EngineRow
    BY DEF TypeInv, EngineTyped, EngineSound, InstallInv
  <1>2. TakeCapture
    BY EvidenceFrame DEF AcceptSeen, Seen
  <1>3. PICK r \in ResultRow :
           /\ captures' = [k \in DOMAIN captures \cup {Key} |-> IF k = Key THEN r ELSE captures[k]]
           /\ r.role = Role /\ engine' = AfterRole(Replayed(r)) /\ TrueScope(r)
           /\ r.ok => /\ child.ends = "success" /\ r.identity # "unseen" /\ r.identity = child.identity
    BY <1>1, <1>2, Captured
  <1>4. Running(engine) /\ child.role = Role /\ Key[1] = Role
    BY <1>1, <1>2, OwnResult DEF TakeCapture
  <1>5. Key = Post /\ r.ok /\ r.identity = "target"
    <2> HIDE DEF Key, Post
    <2> QED BY <1>3 DEF AcceptSeen, Seen
  <1>6. Role = "postflight"
    BY <1>4, <1>5 DEF Post
  <1>7. engine.converging => Seen(Conv) /\ Seen(Recov)
    <2>1. engine.converging => engine.role = "recover"
      BY <1>1, <1>4, <1>6, ConvergenceCalls
    <2> QED BY <1>4, <2>1 DEF ConvergenceSeen, Converges
  <1>8. ASSUME ~engine.converging PROVE engine'.status = "accepted"
    <2>1. Believable(engine, r)
      BY <1>3, <1>5, <1>6, <1>8 DEF Believable, ContinuityRoles
    <2>2. PICK x : x = Replayed(r)
      OBVIOUS
    <2>3. x = Succeeded(engine, r) /\ EngineSound(x) /\ EngineKept(x)
      BY <1>1, <1>3, <1>4, <1>5, <2>1, <2>2, ReplayedCases, ReplayedKept DEF Accepts, Role
    <2>4. x.status = "accepted"
      BY <1>1, <1>3, <1>6, <1>8, <2>1, <2>3, SucceededStatus
    <2>5. AfterRole(x) = x
      BY <2>4 DEF AfterRole, Running
    <2> QED BY <1>3, <2>2, <2>4, <2>5
  <1> QED BY <1>2, <1>3, <1>4, <1>5, <1>6, <1>7, <1>8

\* A call of the convergence is only made by an engine that converges.
LEMMA ConvergenceMade ==
  ASSUME TypeInv, InstallInv, ActivationNext, NEW c \in {Conv, Recov}, c \in intents', c \notin intents
  PROVE  /\ Running(engine) /\ engine.converging /\ Key = c /\ Own /\ sup = "drive" /\ MayRun
         /\ StartRole \/ RoleNotStarted \/ ChildNotCreated
  <1>1. EngineSound(engine) /\ EngineKept(engine)
    BY DEF TypeInv, EngineTyped, InstallInv
  <1>2. StartRole \/ RoleNotStarted \/ ChildNotCreated
    BY EvidenceFrame
  <1>3. Running(engine) /\ Own /\ sup = "drive" /\ MayRun
    BY <1>2 DEF StartRole, RoleNotStarted, ChildNotCreated, Driving
  <1>4. Key = c /\ Key[1] = Role
    BY <1>2, IntentsStep
  <1>5. Role \in {"converge", "recover"}
    BY <1>4 DEF Conv, Recov
  <1> QED BY <1>1, <1>2, <1>3, <1>4, <1>5, ConvergenceCalls

\* Every step keeps a forward sequence before its convergence.
LEMMA ForwardStaysFirst ==
  ASSUME TypeInv, TransitionKnown, InstallInv, EngineSeen, ActivationNext
  PROVE  ForwardFirst'
  <1>1. /\ OrderKept /\ EngineSound(engine) /\ EngineKept(engine) /\ CapturesKept /\ HostKept
        /\ ConvergenceSeen /\ ForwardFirst
    BY DEF TypeInv, EngineTyped, InstallInv, EngineSeen
  <1>2. CapturesKept'
    BY <1>1, CapturesStayKept
  <1>3. CASE intents' = {}
    <2>1. ~AcceptSeen'
      BY <1>2, <1>3 DEF CapturesKept, AcceptSeen, Seen
    <2> QED BY <1>3, <2>1 DEF ForwardFirst
  <1>4. ASSUME Forwarding'
        PROVE  intents' = {} \/ (mode = "forward" /\ sup \in {"drive", "waiting"} /\ sup' \in {"drive", "waiting"})
    <2>1. CASE ManagerStarts /\ starts = 0
      BY <1>1, <2>1, StartsFrame DEF OrderKept, Unstarted, Fresh, evidenceVars
    <2>2. CASE sup = "planning"
      BY <1>1, <2>2, PlanFrame DEF OrderKept, PlanningFresh, Fresh
    <2>3. CASE sup \in {"drive", "waiting"} /\ mode = "forward" /\ ~(ManagerStarts /\ starts = 0)
      BY <1>4, <2>3, SupervisorFrame DEF Forwarding
    <2> QED BY <1>4, <2>1, <2>2, <2>3, ForwardStep DEF Forwarding
  <1>5. PICK f : f = engine'
    OBVIOUS
  <1>6. ASSUME mode = "forward", sup \in {"drive", "waiting"}, sup' \in {"drive", "waiting"}, Running(f)
        PROVE  /\ ~f.converging => Conv \notin intents' /\ Recov \notin intents'
               /\ Conv \notin intents' => ~AcceptSeen'
    <2>1. Running(engine) /\ (engine.converging => f.converging)
      <3>1. CASE f = engine
        BY <1>6, <3>1
      <3>2. CASE Running(engine) /\ \E x : Outcome(x) /\ f = AfterRole(x)
        <4>1. PICK x : Outcome(x) /\ f = AfterRole(x)
          BY <3>2
        <4>2. EngineSound(x) /\ EngineKept(x) /\ (engine.converging => x.converging)
          BY <3>2, <4>1, OutcomeFields
        <4>3. f = x
          BY <1>6, <4>1, <4>2, AfterRoleFields
        <4> QED BY <3>2, <4>2, <4>3
      <3> QED BY <1>5, <1>6, <3>1, <3>2, EngineStep DEF PreparePlan, BeginRecovery
    <2>2. Forwarding
      BY <1>6 DEF Forwarding
    <2>3. ~engine.converging => Conv \notin intents /\ Recov \notin intents
      BY <1>1, <2>1, <2>2 DEF ForwardFirst
    <2>4. Conv \notin intents => ~AcceptSeen
      BY <1>1, <2>1, <2>2 DEF ForwardFirst
    <2>5. ~engine.converging => Conv \notin intents' /\ Recov \notin intents'
      BY <2>3, ConvergenceMade
    <2>6. Conv \notin intents' => Conv \notin intents
      BY IntentsStep
    <2>7. ASSUME Conv \notin intents', AcceptSeen' PROVE FALSE
      <3>1. ~AcceptSeen
        BY <2>4, <2>6, <2>7
      <3>2. (~engine.converging => f.status = "accepted") /\ (engine.converging => Seen(Conv))
        BY <1>1, <1>5, <2>7, <3>1, AcceptanceTaken
      <3>3. Seen(Conv) => Conv \in intents
        BY <1>1 DEF CapturesKept, Seen
      <3> QED BY <1>6, <2>6, <2>7, <3>2, <3>3 DEF Running
    <2> QED BY <2>1, <2>5, <2>7
  <1>7. ASSUME Forwarding', Running(engine'), intents' # {}
        PROVE  /\ ~engine'.converging => Conv \notin intents' /\ Recov \notin intents'
               /\ Conv \notin intents' => ~AcceptSeen'
    BY <1>4, <1>5, <1>6, <1>7
  <1>8. CASE intents' # {}
    BY <1>7, <1>8 DEF ForwardFirst, Running, Conv, Recov
  <1> QED BY <1>3, <1>8

\* Every step keeps what the captures say of the engine.
LEMMA EngineStaysSeen ==
  ASSUME TypeInv, TransitionKnown, InstallInv, EngineSeen, ActivationNext
  PROVE  EngineSeen'
  <1>1. ConvergenceSeen /\ AcceptanceSeen
    BY DEF EngineSeen
  <1> QED BY <1>1, ConvergenceStaysSeen, RecoveryStaysConverging, ForwardStaysFirst DEF EngineSeen

--------------------------------------------------------------------------------
(* What the children report. *)

\* A child that is refused or lost has no operation left.
LEMMA ChildStops ==
  ASSUME ChildSound(child), NEW d, d = child'
  PROVE  /\ ChildRefused \/ ChildFault => d.ends \in {"rejected", "lost"}
         /\ ChildSucceeds => d.state = child.state /\ d.todo = child.todo /\ d.role = child.role
  <1>1. child \in ChildRow
    BY DEF ChildSound
  <1> QED BY <1>1 DEF ChildRefused, ChildFault, ChildFails, UnitUnread, ChildLost, Refuses, ChildSucceeds, ChildRow

\* The last operation stays the last.
LEMMA LastStays ==
  ASSUME NEW c, ChildSound(c), c.todo # <<>>, NEW state \in States \cup {"none"}, NEW d,
         d = Gone(c, state)
  PROVE  /\ d.state = state /\ d.role = c.role /\ d.ends = c.ends
         /\ IF d.todo = <<>> THEN c.todo[1] = c.todo[Len(c.todo)] /\ 1 = Len(c.todo)
            ELSE d.todo[Len(d.todo)] = c.todo[Len(c.todo)]
  <1>1. /\ ChildSound(d) /\ d.role = c.role /\ d.state = state /\ d.ends = c.ends
        /\ Len(c.todo) \in Nat \ {0} /\ Len(d.todo) = Len(c.todo) - 1
        /\ \A i \in 1..Len(d.todo) : d.todo[i] = c.todo[i + 1] /\ i + 1 \in 1..Len(c.todo)
        /\ Head(c.todo) = c.todo[1] /\ c.todo[1] \in OpsOf(c.role)
    BY ProceedSound
  <1>2. PICK s, S : s = d.todo /\ S = OpNames \X Events /\ s \in Seq(S)
    BY <1>1 DEF ChildSound, ChildRow
  <1>3. s = <<>> <=> Len(s) = 0
    BY <1>2, EmptySeq
  <1>4. CASE d.todo = <<>>
    BY <1>1, <1>2, <1>3, <1>4
  <1>5. CASE d.todo # <<>>
    <2>1. Len(d.todo) \in 1..Len(d.todo)
      BY <1>1, <1>2, <1>3, <1>5
    <2>2. Len(d.todo) + 1 = Len(c.todo)
      BY <1>1
    <2> QED BY <1>1, <1>5, <2>1, <2>2
  <1> QED BY <1>4, <1>5

\* Two operations and one make three.
LEMMA JoinedThree ==
  ASSUME NEW x, NEW y, NEW z
  PROVE  <<x, y>> \o <<z>> = <<x, y, z>>
  <1>1. PICK M : M = {x, y, z}
    OBVIOUS
  <1>2. PICK s \in Seq(M), t \in Seq(M), p \in Seq(M) : s = <<x, y>> /\ t = <<z>> /\ p = <<x, y, z>>
    <2>1. x \in M /\ y \in M /\ z \in M
      BY <1>1
    <2>2. \A a, b, c \in M : <<a>> \in Seq(M) /\ <<a, b>> \in Seq(M) /\ <<a, b, c>> \in Seq(M)
      OBVIOUS
    <2>3. <<x, y>> \in Seq(M) /\ <<z>> \in Seq(M) /\ <<x, y, z>> \in Seq(M)
      BY <2>1, <2>2
    <2> QED BY <2>3
  <1>3. Len(s) = 2 /\ Len(t) = 1 /\ Len(p) = 3 /\ s[1] = p[1] /\ s[2] = p[2] /\ t[1] = p[3]
    BY <1>2
  <1>4. /\ s \o t \in Seq(M) /\ Len(s \o t) = Len(s) + Len(t)
        /\ \A i \in 1..(Len(s) + Len(t)) :
              (s \o t)[i] = IF i <= Len(s) THEN s[i] ELSE t[i - Len(s)]
    BY ConcatProperties
  <1>5. \A i \in 1..3 : i \in {1, 2, 3}
    OBVIOUS
  <1>6. \A i \in 1..3 : (s \o t)[i] = p[i]
    BY <1>3, <1>4, <1>5
  <1>7. s \o t = p
    BY <1>3, <1>4, <1>6, SeqEqual
  <1> QED BY <1>2, <1>7

\* A continuity child that goes on tells only what it has done.
LEMMA ToldStays ==
  ASSUME ChildSound(child), ToldContinuity(child), ChildStep \/ ChildFault, NEW d, d = child'
  PROVE  ToldContinuity(d)'
  <1> SUFFICES ASSUME d.role \in ContinuityRoles, d.ends \in {"no", "success"}
               PROVE  /\ d.state \in CommittedStates => moved'
                      /\ IF d.todo = <<>> THEN continuity' = d.state
                         ELSE d.todo[Len(d.todo)] \in {<<"rename", d.role>>, Do("transition"), Do("refuse")}
    BY DEF ToldContinuity
  <1>1. child.role = d.role /\ child.ends = "no" /\ child.role \in ContinuityRoles /\ child.role # "converge"
    BY ChildStays DEF ContinuityRoles
  <1>2. /\ child.state \in CommittedStates => moved
        /\ IF child.todo = <<>> THEN continuity = child.state
           ELSE child.todo[Len(child.todo)] \in {<<"rename", child.role>>, Do("transition"), Do("refuse")}
    BY <1>1 DEF ToldContinuity
  <1>3. child.state \in States \cup {"none"}
    BY DEF ChildSound, ChildRow
  <1>4. ~ChildRefused /\ ~ChildFault /\ ~ChooseRestore /\ ~RestoreOpaque
    BY <1>1, ChildStops, RoleAt DEF ChooseRestore, RestoreOpaque
  <1>5. CASE ChildSucceeds
    BY <1>2, <1>5, ChildStops DEF ChildSucceeds, hostVars
  <1>6. CASE Transition
    <2>1. At("transition") /\ d.role = "continuity_transition"
      BY <1>1, <1>6, RoleAt DEF Transition
    <2>2. PICK state, more :
             /\ child' = [child EXCEPT !.state = state, !.todo = more]
             /\ state \in CommittedStates => moved'
             /\ more \in {<<<<"next", child.role>>, <<"rename", child.role>>>>,
                          <<<<"next", Rejected>>, <<"rename", Rejected>>>> \o <<Do("refuse")>>}
      BY <1>6 DEF Transition, ProceedAs, Advance, CommittedStates, Rejected
    <2>3. d.state = state /\ d.todo = more
      BY <2>2 DEF ChildSound, ChildRow
    <2>4. <<<<"next", Rejected>>, <<"rename", Rejected>>>> \o <<Do("refuse")>>
             = <<<<"next", Rejected>>, <<"rename", Rejected>>, Do("refuse")>>
      BY JoinedThree
    <2>5. CASE more = <<<<"next", child.role>>, <<"rename", child.role>>>>
      <3>1. more # <<>> /\ more[Len(more)] = <<"rename", child.role>>
        BY <2>5
      <3> QED BY <1>1, <2>2, <2>3, <3>1
    <2>6. CASE more = <<<<"next", Rejected>>, <<"rename", Rejected>>, Do("refuse")>>
      <3>1. more # <<>> /\ more[Len(more)] = Do("refuse")
        BY <2>6
      <3> QED BY <2>2, <2>3, <3>1
    <2> QED BY <2>2, <2>4, <2>5, <2>6
  <1>7. CASE Assess \/ Reconcile
    <2>1. /\ child.todo # <<>> /\ (At("assess") \/ At("reconcile")) /\ UNCHANGED hostVars
          /\ \E state \in States : ProceedAs(state, Tail(child.todo)) /\ (state \in CommittedStates => moved)
      BY <1>7 DEF Assess, Reconcile, At, States, Outcomes, CommittedStates
    <2>2. PICK state \in States : d = Gone(child, state) /\ (state \in CommittedStates => moved)
      BY <2>1, ProceedGoes DEF ChildGoes
    <2>3. child.todo[1] \in {Do("assess"), Do("reconcile")}
      BY <2>1, HeadOp
    <2>4. child.todo[1] \notin {<<"rename", child.role>>, Do("transition"), Do("refuse")}
      BY <2>3 DEF Do
    <2> QED BY <1>1, <1>2, <2>1, <2>2, <2>4, LastStays DEF hostVars
  <1>8. CASE RenameNext
    <2>1. child.todo # <<>> /\ Proceed /\ At("rename") /\ moved' = moved
      BY <1>8 DEF RenameNext, At
    <2>2. d = Gone(child, child.state)
      BY <2>1, ProceedGoes DEF ChildGoes
    <2>3. child.todo[1] = <<"rename", Event>>
      BY <2>1, HeadOp
    <2>4. child.todo[1] = <<"rename", child.role>> => continuity' = child.state
      <3>1. child.todo[1] = <<"rename", child.role>> => Event = child.role
        BY <2>3
      <3>2. \A event \in ContinuityRoles : event # "continuity_transition_started"
                                           /\ event # "continuity_transition_precommit_rejected"
        BY DEF ContinuityRoles
      <3> QED BY <1>1, <1>8, <3>1, <3>2 DEF RenameNext
    <2>5. child.todo[1] \notin {Do("transition"), Do("refuse")}
      BY <2>3 DEF Do
    <2> QED BY <1>1, <1>2, <1>3, <2>1, <2>2, <2>4, <2>5, LastStays
  <1>9. CASE Looks \/ ClaimIncident \/ WriteNext \/ WriteObligation \/ MoveGate \/ MoveUnits \/ MovePublic
             \/ WriteBinding
    <2>1. /\ child.todo # <<>> /\ Proceed /\ moved' = moved
          /\ \E op \in OpNames \ {"rename", "transition", "refuse"} : At(op)
      BY <1>9 DEF Looks, ClaimIncident, WriteNext, WriteObligation, MoveGate, MoveUnits, MovePublic,
                  WriteBinding, At, hostVars, OpNames
    <2>2. d = Gone(child, child.state)
      BY <2>1, ProceedGoes DEF ChildGoes
    <2>3. child.todo[1][1] \notin {"rename", "transition", "refuse"}
      BY <2>1, HeadOp DEF At
    <2>4. child.todo[1] \notin {<<"rename", child.role>>, Do("transition"), Do("refuse")}
      BY <2>3 DEF Do
    <2> QED BY <1>1, <1>2, <1>3, <2>1, <2>2, <2>4, LastStays
  <1> QED BY <1>4, <1>5, <1>6, <1>7, <1>8, <1>9 DEF ChildStep

\* A recover or a postflight that gets past its check has seen what it reports.
LEMMA CheckedStays ==
  ASSUME ChildSound(child), ChildKept(child), Checked(child), ChildStep \/ ChildFault, NEW d, d = child'
  PROVE  Checked(d)'
  <1> SUFFICES ASSUME d.ends \in {"no", "success"}, \A i \in 1..Len(d.todo) : d.todo[i] # Check,
                      d.role \in {"postflight", "recover"}
               PROVE  /\ d.role = "postflight" /\ d.identity = "target" => public' = "target" /\ up'
                      /\ d.role = "recover" => public' = "predecessor" /\ up'
    BY DEF Checked
  <1>1. /\ child.role = d.role /\ child.ends = "no" /\ child.identity = d.identity /\ child.role \in Meek
        /\ MeekChild(child)
    BY ChildStays DEF Meek, ChildKept
  <1>2. public' = public /\ up' = up
    <2>1. \A op : At(op) => op \in MeekOps
      BY <1>1, MeekHead
    <2>2. ~At("mix") /\ ~At("select") /\ ~At("restore") /\ ~At("stop") /\ ~At("start")
      BY <2>1 DEF MeekOps
    <2>3. /\ public' = public \/ At("mix") \/ At("select") \/ At("restore")
          /\ up' = up \/ At("stop") \/ At("start")
      BY HostMoves
    <2> QED BY <2>2, <2>3
  <1>3. ~Transition /\ ~ChooseRestore
    BY <1>1, MeekHead DEF Transition, ChooseRestore, MeekOps
  <1>4. \/ child.todo # <<>> /\ d.todo = Tail(child.todo)
        \/ d.todo = child.todo
    <2>1. \/ child.todo # <<>> /\ d.ends = "no" /\ d.todo = Tail(child.todo)
          \/ child.todo = <<>> /\ d.todo = <<>>
      BY <1>3, ChildStays
    <2> QED BY <2>1
  <1>5. CASE d.todo = child.todo
    BY <1>1, <1>2, <1>5 DEF Checked
  <1>6. CASE child.todo # <<>> /\ d.todo = Tail(child.todo)
    <2>1. PICK s, S : s = child.todo /\ S = OpNames \X Events /\ s \in Seq(S) /\ s # <<>>
      BY <1>6 DEF ChildSound, ChildRow
    <2>2. /\ Head(s) = s[1] /\ Len(Tail(s)) = Len(s) - 1 /\ Len(s) \in Nat
          /\ \A i \in 1..Len(Tail(s)) : Tail(s)[i] = s[i + 1]
      BY <2>1, HeadTailProperties, EmptySeq, LenProperties
    <2>3. \A i \in 1..Len(s) : i = 1 \/ (i - 1 \in 1..Len(Tail(s)) /\ s[i] = Tail(s)[i - 1])
      BY <2>2
    <2>4. CASE s[1] # Check
      <3>1. \A i \in 1..Len(child.todo) : child.todo[i] # Check
        BY <1>6, <2>1, <2>3, <2>4
      <3> QED BY <1>1, <1>2, <3>1 DEF Checked
    <2>5. CASE s[1] = Check
      <3>1. At("check")
        BY <1>1, <2>1, <2>2, <2>5 DEF At, Check
      <3>2. Looks \/ ChildRefused \/ ChildFault
        BY <3>1, <1>6 DEF ChildStep, At, ClaimIncident, WriteNext, RenameNext, WriteObligation, MoveGate,
             MoveUnits, MovePublic, ChooseRestore, RestoreOpaque, Assess, WriteBinding, Transition,
             Reconcile, ChildSucceeds
      <3>3. Verified
        BY <3>1, <3>2, ChildStops DEF Looks, Admissible
      <3>4. child.role = "postflight" /\ child.identity = "target" => ~child.infra
        BY DEF ChildKept
      <3> QED BY <1>1, <1>2, <3>3, <3>4 DEF Verified, ConvergenceRoles
    <2> QED BY <2>4, <2>5
  <1> QED BY <1>4, <1>5, <1>6

\* A sequence with one more in front.
LEMMA JoinedHead ==
  ASSUME NEW M, NEW x \in M, NEW s \in Seq(M)
  PROVE  /\ <<x>> \o s \in Seq(M) /\ Len(<<x>> \o s) = Len(s) + 1 /\ Len(s) \in Nat
         /\ (<<x>> \o s)[1] = x
         /\ \A i \in 1..Len(s) : (<<x>> \o s)[i + 1] = s[i]
  <1>1. PICK t \in Seq(M) : t = <<x>>
    <2>1. <<x>> \in Seq(M)
      OBVIOUS
    <2> QED BY <2>1
  <1>2. Len(t) = 1 /\ t[1] = x
    BY <1>1
  <1>3. /\ t \o s \in Seq(M) /\ Len(t \o s) = Len(t) + Len(s) /\ Len(s) \in Nat
        /\ \A i \in 1..(Len(t) + Len(s)) :
              (t \o s)[i] = IF i <= Len(t) THEN t[i] ELSE s[i - Len(t)]
    BY ConcatProperties, LenProperties
  <1>4. \A i \in 1..Len(s) : (t \o s)[i + 1] = s[i]
    BY <1>2, <1>3
  <1> QED BY <1>1, <1>2, <1>3, <1>4

\* A recover and a postflight start with a check.
LEMMA CheckingProgram ==
  ASSUME NEW role \in {"recover", "postflight"}
  PROVE  \E i \in 1..Len(Program(role)) : Program(role)[i] = Check
  <1>1. PICK M : M = OpNames \X (Events \cup {"none"})
    OBVIOUS
  <1>2. Check \in M /\ Do("verify_arm") \in M
    BY <1>1 DEF Check, Do, OpNames
  <1>3. PICK event \in Events : event = IF role = "postflight" /\ Happened("converge")
                                          THEN "convergence_postflight" ELSE role
    BY DEF Events, Roles, ConvergenceRoles
  <1>4. PICK a \in Seq(M) : a = Advance(event)
    <2>1. <<"next", event>> \in M /\ <<"rename", event>> \in M
      BY <1>1 DEF OpNames
    <2>2. \A x, y \in M : <<x, y>> \in Seq(M)
      OBVIOUS
    <2> QED BY <2>1, <2>2 DEF Advance
  <1>5. Steps(role) = <<Check>> \o a
    BY <1>3, <1>4 DEF Steps, ReadinessRoles, ContinuityRoles
  <1>6. PICK p : p = Program(role)
    OBVIOUS
  <1>7. PICK s \in Seq(M) : s = <<Check>> \o a /\ 1 \in 1..Len(s) /\ s[1] = Check
    <2>1. PICK c \in M : c = Check
      BY <1>2
    <2>2. /\ <<c>> \o a \in Seq(M) /\ Len(<<c>> \o a) = Len(a) + 1 /\ Len(a) \in Nat
          /\ (<<c>> \o a)[1] = c
          /\ \A i \in 1..Len(a) : (<<c>> \o a)[i + 1] = a[i]
      BY JoinedHead
    <2>3. 1 \in 1..Len(<<c>> \o a)
      BY <2>2
    <2> QED BY <2>1, <2>2, <2>3
  <1>8. p = <<Check>> \/ p = <<Do("verify_arm")>> \o s
    BY <1>5, <1>6, <1>7 DEF Program, InfrastructureProgram, Hazardous, ConvergenceRoles
  <1>9. CASE p = <<Check>>
    <2>1. 1 \in 1..Len(p) /\ p[1] = Check
      BY <1>9
    <2> QED BY <1>6, <2>1
  <1>10. CASE p = <<Do("verify_arm")>> \o s
    <2>1. Len(p) = Len(s) + 1 /\ Len(s) \in Nat /\ p[1 + 1] = s[1]
      BY <1>2, <1>7, <1>10, JoinedHead
    <2>2. 1 + 1 \in 1..Len(p)
      BY <1>7, <2>1
    <2> QED BY <1>6, <1>7, <2>1, <2>2
  <1> QED BY <1>8, <1>9, <1>10

\* The program of the assessment.
LEMMA AssessmentProgram ==
  Program("continuity_assessment") =
     <<Do("verify_arm"), Do("assess"), <<"next", "continuity_assessment">>,
       <<"rename", "continuity_assessment">>>>
  <1>1. Program("continuity_assessment") =
           <<Do("verify_arm")>> \o (<<Do("assess")>> \o Advance("continuity_assessment"))
    BY DEF Program, Steps, Hazardous, ConvergenceRoles, ContinuityRoles, ReadinessRoles
  <1> QED BY <1>1 DEF Advance

\* A new child has told nothing yet.
LEMMA NewChildTrue ==
  ASSUME NEW role \in Roles, NEW c, c = NewChild(role)
  PROVE  Idle(c) /\ ToldContinuity(c) /\ Checked(c)
  <1>1. /\ c.role = role /\ c.todo = Program(role) /\ c.ends = "no" /\ c.state = "none"
    BY NewChildFields
  <1>2. ASSUME role \in ContinuityRoles
        PROVE  c.todo # <<>> /\ c.todo[Len(c.todo)] \in {<<"rename", role>>, Do("transition")}
    <2>1. PICK p : p = c.todo
      OBVIOUS
    <2>2. CASE role = "continuity_assessment"
      <3>1. p = <<Do("verify_arm"), Do("assess"), <<"next", "continuity_assessment">>,
                  <<"rename", "continuity_assessment">>>>
        BY <1>1, <2>1, <2>2, AssessmentProgram
      <3>2. p # <<>> /\ Len(p) = 4 /\ p[4] = <<"rename", "continuity_assessment">>
        BY <3>1
      <3> QED BY <2>1, <2>2, <3>2
    <2>3. CASE role = "continuity_transition"
      <3>1. p = <<Do("verify_arm"), <<"next", Started>>, <<"rename", Started>>, Do("bind"), Do("transition")>>
        BY <1>1, <2>1, <2>3, ContinuityPrograms
      <3>2. p # <<>> /\ Len(p) = 5 /\ p[5] = Do("transition")
        BY <3>1
      <3> QED BY <2>1, <2>3, <3>2
    <2>4. CASE role = "continuity_reconcile"
      <3>1. p = <<Do("verify_arm"), Do("read_binding"), Do("reconcile"),
                  <<"next", "continuity_reconcile">>, <<"rename", "continuity_reconcile">>>>
        BY <1>1, <2>1, <2>4, ContinuityPrograms
      <3>2. p # <<>> /\ Len(p) = 5 /\ p[5] = <<"rename", "continuity_reconcile">>
        BY <3>1
      <3> QED BY <2>1, <2>4, <3>2
    <2> QED BY <1>2, <2>2, <2>3, <2>4 DEF ContinuityRoles
  <1>3. ToldContinuity(c)
    BY <1>1, <1>2 DEF ToldContinuity, CommittedStates
  <1>4. Checked(c)
    BY <1>1, CheckingProgram DEF Checked
  <1> QED BY <1>1, <1>3, <1>4 DEF Idle

\* Neither has the child there is none of.
LEMMA NoChildTrue == Idle(NoChild) /\ ToldContinuity(NoChild) /\ Checked(NoChild) /\ Quiet(NoChild)
  <1>1. NoChild.role = "none" /\ NoChild.todo = <<>> /\ NoChild.ends = "none"
    BY DEF NoChild
  <1>2. "none" \notin ContinuityRoles
    BY DEF ContinuityRoles
  <1> QED BY <1>1, <1>2 DEF Idle, ToldContinuity, Checked, Quiet

\* The binding is written by the child of the transition.
LEMMA BindingStays ==
  ASSUME TypeInv, TransitionKnown, ActivationNext, binding => TransitionCalled
  PROVE  binding' => TransitionCalled'
  <1>1. TransitionCalled => TransitionCalled'
    BY IntentsStep DEF TransitionCalled
  <1>2. binding' = binding \/ (RoleSteps /\ At("bind"))
    BY HostFrame, HostMoves DEF RoleSteps, hostVars
  <1>3. At("bind") => child.role = "continuity_transition"
    <2> SUFFICES ASSUME At("bind") PROVE child.role = "continuity_transition"
      OBVIOUS
    <2>1. ChildSound(child) /\ child.todo # <<>>
      BY DEF TypeInv, ChildrenTyped, At
    <2>2. Do("bind") \in OpsOf(child.role) /\ child.role \in Roles \cup {"none"}
      BY <2>1, HeadOp DEF ChildSound, ChildRow
    <2>3. Do("bind") \in Followers /\ Do("bind") # Do("read_binding")
      BY DEF Followers, Do
    <2>4. child.role \in {"continuity_transition", "continuity_reconcile"}
      BY <2>2, <2>3, FollowersOf
    <2>5. Do("bind") \in OpsOf("continuity_reconcile") => FALSE
      BY DEF OpsOf, OwnOps, OwnEvents, Do
    <2> QED BY <2>2, <2>4, <2>5
  <1> QED BY <1>1, <1>2, <1>3 DEF TransitionKnown, TransitionChild

\* Where the child of a step comes from, and its host when it is not its own step.
LEMMA ChildComes ==
  ASSUME TypeInv, HostKept, ActivationNext, ~RoleSteps
  PROVE  /\ UNCHANGED <<public, up, moved, continuity, binding>>
         /\ \E c, d : /\ c = child' /\ d = orphan'
                      /\ c \in {child, orphan, NoChild} \/ (StartRole /\ Role \in Roles /\ c = NewChild(Role))
                      /\ d \in {child, orphan, NoChild} \/ (StartRole /\ Role \in Roles /\ d = NewChild(Role))
  <1>1. PICK c, d : c = child' /\ d = orphan'
    OBVIOUS
  <1>2. StartRole => Role \in Roles
    <2>1. StartRole => Running(engine) /\ EngineSound(engine)
      BY DEF StartRole, Driving, TypeInv, EngineTyped
    <2> QED BY <2>1, NextCallSound
  <1>3. \A e \in {child', orphan'} : e \in {child, orphan, NoChild} \/ (StartRole /\ e = NewChild(Role))
    BY ChildrenAre
  <1> QED BY <1>1, <1>2, <1>3, HostFrame DEF hostVars

\* Every step keeps what the children tell true.
LEMMA ChildStaysTrue ==
  ASSUME TypeInv, TimeInv, InstallInv, ChildTrue, ActivationNext
  PROVE  ChildTrue'
  <1>1. /\ ChildSound(child) /\ ChildKept(child) /\ HostKept /\ OrderKept /\ TransitionKnown
        /\ Idle(child) /\ Idle(orphan) /\ (binding => TransitionCalled)
        /\ (~orphansRun => Alone)
    BY DEF TypeInv, ChildrenTyped, InstallInv, HostKept, TimeInv, ChildTrue
  <1>2. binding' => TransitionCalled'
    BY <1>1, BindingStays
  <1>3. orphansRun' = orphansRun
    BY CounterFrame
  <1>4. Forwarding' => Forwarding \/ child = NoChild
    BY <1>1, ForwardStep DEF OrderKept, Unstarted
  <1>5. Forwarding \/ ~orphansRun => orphan = NoChild
    BY <1>1 DEF OrderKept, ForwardAlone, Alone
  <1>6. child = NoChild => ToldContinuity(child) /\ Checked(child) /\ Idle(child)
    BY NoChildTrue
  <1>7. /\ Forwarding' => ToldContinuity(child) /\ (child = NoChild \/ orphan = NoChild)
        /\ Forwarding' \/ ~orphansRun' => Checked(child) /\ (child = NoChild \/ orphan = NoChild)
    BY <1>3, <1>4, <1>5, <1>6 DEF ChildTrue
  <1>8. CASE RoleSteps
    <2>1. PICK d : d = child'
      OBVIOUS
    <2>2. ChildStep \/ ChildFault
      BY <1>8 DEF RoleSteps
    <2>3. Idle(d)
      <3>1. d.ends = "no" \/ d.todo = <<>>
        BY <1>1, <2>1, <2>2, ChildStays
      <3> QED BY <3>1 DEF Idle
    <2>4. /\ ToldContinuity(child) => ToldContinuity(d)'
          /\ Checked(child) => Checked(d)'
      <3>1. ASSUME ToldContinuity(child) PROVE ToldContinuity(d)'
        BY <1>1, <2>1, <2>2, <3>1, ToldStays
      <3>2. ASSUME Checked(child) PROVE Checked(d)'
        BY <1>1, <2>1, <2>2, <3>2, CheckedStays
      <3> QED BY <3>1, <3>2
    <2>5. orphan' = orphan
      BY <1>8 DEF RoleSteps, orphanVars
    <2>6. /\ Idle(child') /\ Idle(orphan')
      BY <1>1, <2>1, <2>3, <2>5
    <2>7. Forwarding' => ToldContinuity(child)'
      BY <1>7, <2>1, <2>4 DEF ToldContinuity
    <2>8. Forwarding' \/ ~orphansRun' => Checked(child)'
      BY <1>7, <2>1, <2>4 DEF Checked
    <2> QED BY <1>2, <2>6, <2>7, <2>8 DEF ChildTrue, Idle
  <1>9. CASE ~RoleSteps
    <2>1. PICK c, d : /\ c = child' /\ d = orphan'
                      /\ c \in {child, orphan, NoChild} \/ (StartRole /\ Role \in Roles /\ c = NewChild(Role))
                      /\ d \in {child, orphan, NoChild} \/ (StartRole /\ Role \in Roles /\ d = NewChild(Role))
      BY <1>1, <1>9, ChildComes
    <2>2. UNCHANGED <<public, up, moved, continuity, binding>>
      BY <1>1, <1>9, ChildComes
    <2>3. Idle(c) /\ Idle(d)
      BY <1>1, <2>1, NoChildTrue, NewChildTrue
    <2>4. /\ Forwarding' => ToldContinuity(c)
          /\ Forwarding' \/ ~orphansRun' => Checked(c)
      <3>1. CASE c \in {child, NoChild}
        BY <1>7, <3>1, NoChildTrue
      <3>2. CASE StartRole /\ Role \in Roles /\ c = NewChild(Role)
        BY <3>2, NewChildTrue
      <3>3. CASE c = orphan
        <4>1. Forwarding' \/ ~orphansRun' => c \in {child, NoChild} \/ (child = NoChild /\ c = orphan)
          BY <1>7, <3>3
        <4>2. Forwarding' \/ ~orphansRun' => Forwarding \/ ~orphansRun \/ starts = 0
          BY <1>1, <1>3, ForwardStep
        <4>3. starts = 0 => orphan = NoChild
          BY <1>1 DEF OrderKept, Unstarted, Alone
        <4>4. Forwarding' \/ ~orphansRun' => c = NoChild
          BY <1>5, <3>3, <4>2, <4>3
        <4> QED BY <4>4, NoChildTrue
      <3> QED BY <2>1, <3>1, <3>2, <3>3
    <2>5. /\ ToldContinuity(c) => ToldContinuity(c)'
          /\ Checked(c) => Checked(c)'
      BY <2>2 DEF ToldContinuity, Checked
    <2>6. Idle(child') /\ Idle(orphan')
      BY <2>1, <2>3
    <2>7. Forwarding' => ToldContinuity(child)'
      BY <2>1, <2>4, <2>5 DEF ToldContinuity
    <2>8. Forwarding' \/ ~orphansRun' => Checked(child)'
      BY <2>1, <2>4, <2>5 DEF Checked
    <2> QED BY <1>2, <2>6, <2>7, <2>8 DEF ChildTrue, Idle
  <1> QED BY <1>8, <1>9

\* Once the continuity is settled only the late roles are left.
LEMMA FinalRole ==
  ASSUME NEW e, EngineSound(e), EngineKept(e), Running(e), ~e.converging, e.transition \in FinalStates
  PROVE  NextRole(e) \in LateRoles
  <1>1. e.role \in LateRoles \cup ContinuityRoles
    <2>1. e.role \in Roles \cup {"none"} /\ e.role \notin {"converge", "recover"}
      BY DEF EngineSound, EngineRow, EngineKept, CountKept
    <2>2. e.role \notin EarlyRoles
      BY DEF EngineKept, TransitionKept, Going, Running, FinalStates
    <2> QED BY <2>1, <2>2 DEF Roles, HardRoles, ContinuityRoles, ConvergenceRoles, EarlyRoles, LateRoles
  <1>2. e.role # "postflight"
    BY DEF EngineSound
  <1>3. CASE e.role \in ContinuityRoles
    <2>1. NextRole(e) = ContinuitySuccessor[e.transition]
      BY <1>3 DEF NextRole, ContinuityRoles
    <2> QED BY <2>1 DEF ContinuitySuccessor, FinalStates, LateRoles
  <1>4. CASE e.role \in {"start_service", "start_socket", "accept_status"}
    <2>1. NextRole(e) = PhaseSuccessor[e.role]
      BY <1>4 DEF NextRole, ContinuityRoles
    <2> QED BY <1>4, <2>1 DEF PhaseSuccessor, LateRoles
  <1> QED BY <1>1, <1>2, <1>3, <1>4 DEF LateRoles

\* The late roles leave what the continuity is about alone.
LEMMA LateQuiet ==
  ASSUME ChildSound(child), child.role \in LateRoles, ChildStep \/ ChildFault
  PROVE  UNCHANGED <<continuity, moved, binding>>
  <1>1. child.role \notin {"continuity_transition", "continuity_reconcile", "continuity_assessment", "converge"}
    BY DEF LateRoles
  <1>2. ~At("transition") /\ ~At("restore_opaque")
    BY <1>1, RoleAt
  <1>3. ~At("bind")
    <2> SUFFICES ASSUME At("bind") PROVE FALSE
      OBVIOUS
    <2>1. child.todo # <<>> /\ child.role \in Roles \cup {"none"}
      BY DEF At, ChildSound, ChildRow
    <2>2. Do("bind") \in OpsOf(child.role) /\ Do("bind") \in Followers
      BY <2>1, HeadOp DEF Followers
    <2> QED BY <1>1, <2>1, <2>2, FollowersOf
  <1>4. ASSUME RenameNext PROVE continuity' = continuity
    <2>1. At("rename") /\ child.todo # <<>>
      BY <1>4 DEF RenameNext, At
    <2>2. child.todo[1] = <<"rename", Event>> /\ child.todo[1] \in OpsOf(child.role)
      BY <2>1, HeadOp
    <2>3. Event \in OwnEvents(child.role)
      <3>1. PICK op \in OpsOf(child.role) : op = <<"rename", Event>>
        BY <2>2
      <3>2. child.role \in Roles \cup {"none"} /\ op[1] = "rename" /\ op[2] = Event
        BY <3>1 DEF ChildSound, ChildRow
      <3> QED BY <3>1, <3>2, OpsArePairs
    <2>4. Event \notin ContinuityRoles \cup {"continuity_transition_started", "continuity_transition_precommit_rejected"}
      BY <1>1, <2>3 DEF OwnEvents, LateRoles, ContinuityRoles
    <2> QED BY <1>4, <2>4 DEF RenameNext
  <1> QED BY <1>2, <1>3, <1>4, HostMoves

\* What a failed call leaves of an engine that still goes on without converging.
LEMMA FailedGoing ==
  ASSUME EngineSound(engine), Running(engine), NEW q \in ResultRow, NEW f, f = Refused(engine, q),
         Going(f), ~f.converging
  PROVE  f.transition = "transition_ambiguous"
  <1>1. engine \in EngineRow
    BY DEF EngineSound
  <1>2. Running(f) =>
               \/ f.converging
               \/ q.role = "continuity_transition" /\ f.transition = "transition_ambiguous"
    BY <1>1, RefusedRow
  <1>3. f.status \in {"running", "premutation", "convergence_failed"}
    BY <1>1, RefusedStatus DEF Running
  <1> QED BY <1>2, <1>3 DEF Going, Running

\* Every step keeps the journal to what the engine was told of the continuity.
LEMMA ContinuityStaysTrue ==
  ASSUME TypeInv, TimeInv, InstallInv, ChildTrue, ContinuityTrue, ActivationNext
  PROVE  ContinuityTrue'
  <1> SUFFICES ASSUME mode' = "forward", sup' \in {"drive", "waiting"}
               PROVE  ContinuityTrue'
    BY DEF ContinuityTrue
  <1>1. /\ EngineSound(engine) /\ EngineKept(engine) /\ OrderKept /\ HostKept /\ TransitionKnown
        /\ engine \in EngineRow /\ ChildSound(child)
    BY DEF TypeInv, EngineTyped, EngineSound, InstallInv, TimeInv, ChildrenTyped
  <1>2. PICK f : f = engine'
    OBVIOUS
  <1> DEFINE TrueOf(e) ==
                /\ e.transition = "no_transition_required" =>
                      continuity' = "no_transition_required" /\ ~binding'
                /\ e.transition \in CommittedStates => continuity' = e.transition /\ moved'
  <1>3. CASE PreparePlan
    <2>1. f.transition = "none"
      BY <1>2, <1>3 DEF PreparePlan, NewEngine
    <2>2. engine'.transition = "none"
      BY <1>2, <2>1
    <2> QED BY <2>2 DEF ContinuityTrue, CommittedStates
  <1>4. CASE ~PreparePlan
    <2>1. mode = "forward" /\ sup \in {"drive", "waiting"}
      BY <1>1, <1>4, SupervisorFrame DEF TransitionKnown
    <2>2. Forwarding /\ orphan = NoChild /\ aside = FALSE
      BY <1>1, <2>1 DEF Forwarding, OrderKept, ForwardAlone, Alone
    <2>3. Going(engine) /\ ~engine.converging =>
             /\ engine.transition = "no_transition_required" =>
                   continuity = "no_transition_required" /\ ~binding
             /\ engine.transition \in CommittedStates => continuity = engine.transition /\ moved
      BY <2>1 DEF ContinuityTrue
    <2>4. ASSUME Going(f), ~f.converging PROVE TrueOf(f)
      <3>1. CASE f = engine /\ RoleSteps
        <4>1. ChildStep \/ ChildFault
          BY <3>1 DEF RoleSteps
        <4>2. child.ends = "no"
          BY <1>1, <4>1, ChildMoves
        <4>3. sup = "waiting"
          BY <1>1, <2>1, <2>2, <4>2 DEF OrderKept, ChildOwned, OwnChild, NoChild
        <4>4. Running(engine) /\ child.role = Role
          BY <1>1, <2>2, <4>3 DEF OrderKept, ChildAwaited, OwnChild
        <4>5. f.transition \in FinalStates => UNCHANGED <<continuity, moved, binding>>
          BY <1>1, <2>4, <3>1, <4>1, <4>4, FinalRole, LateQuiet DEF Role
        <4> QED BY <2>3, <2>4, <3>1, <4>5 DEF FinalStates, CommittedStates
      <3>2. CASE f = engine /\ ~RoleSteps
        <4>1. UNCHANGED <<continuity, moved, binding>>
          BY <3>2, HostFrame DEF hostVars
        <4> QED BY <2>3, <2>4, <3>2, <4>1
      <3>3. CASE (CallConsumed \/ RoleNotStarted \/ CaptureNotPersisted) /\ Running(engine)
        <4>1. f = AfterRole(FailedFromEvidence)
          BY <1>2, <3>3 DEF CallConsumed, RoleNotStarted, CaptureNotPersisted
        <4>2. f = FailedFromEvidence
          BY <2>1, <4>1 DEF AfterRole
        <4>3. f.transition = "transition_ambiguous"
          BY <1>1, <2>4, <3>3, <4>2, FailedForm, FailedGoing
        <4> QED BY <4>3 DEF CommittedStates
      <3>4. CASE TakeCapture /\ Running(engine)
        <4>1. PICK r \in ResultRow :
                /\ r.role = Role /\ f = AfterRole(Replayed(r)) /\ TrueScope(r)
                /\ r.ok => child.ends = "success" /\ r.state = child.state
          BY <1>1, <1>2, <3>4, Captured
        <4>2. f = Replayed(r)
          BY <2>1, <4>1 DEF AfterRole
        <4>3. UNCHANGED <<continuity, moved, binding>> /\ child.role = Role
          BY <1>1, <3>4, OwnResult DEF TakeCapture, hostVars
        <4>4. CASE \E q \in ResultRow : f = Refused(engine, q)
          <5>1. f.transition = "transition_ambiguous"
            BY <1>1, <2>4, <3>4, <4>4, FailedGoing
          <5> QED BY <5>1 DEF CommittedStates
        <4>5. CASE r.ok /\ Believable(engine, r) /\ f = Succeeded(engine, r)
          <5>1. /\ r.role \notin ContinuityRoles =>
                     f.transition = engine.transition /\ f.converging = engine.converging
                /\ r.role \in ContinuityRoles => f.transition = r.state /\ r.state \in Outcomes[r.role]
            BY <1>1, <4>5, SucceededTells
          <5>2. CASE r.role \notin ContinuityRoles
            BY <2>3, <2>4, <3>4, <4>3, <5>1, <5>2 DEF Going, Running
          <5>3. CASE r.role \in ContinuityRoles
            <6>1. child.todo = <<>> /\ ToldContinuity(child) /\ child.role \in ContinuityRoles /\ child.ends = "success"
              BY <2>2, <4>1, <4>3, <4>5, <5>3 DEF ChildTrue, Idle
            <6>2. continuity = child.state /\ (child.state \in CommittedStates => moved)
              BY <6>1 DEF ToldContinuity
            <6>3. ASSUME f.transition = "no_transition_required" PROVE ~binding
              <7>1. Role = "continuity_assessment"
                BY <4>1, <5>1, <5>3, <6>3 DEF Outcomes, ContinuityRoles
              <7>2. f.calls["continuity_transition"] = 0
                <8>1. EngineKept(f)
                  BY <1>1, <3>4, <4>1, <4>2, ReplayedKept
                <8> QED BY <2>4, <6>3, <8>1 DEF EngineKept, TransitionKept
              <7>3. f.calls["continuity_transition"] = engine.calls["continuity_transition"]
                <8>1. f.calls = [engine.calls EXCEPT ![r.role] = @ + 1]
                  BY <1>1, <4>5, SucceededRow
                <8> QED BY <1>1, <4>1, <7>1, <8>1 DEF EngineRow, Roles, ContinuityRoles
              <7>4. ~TransitionCalled
                BY <1>1, <2>1, <7>1, <7>2, <7>3 DEF TransitionKnown
              <7> QED BY <7>4 DEF ChildTrue
            <6> QED BY <4>1, <4>3, <4>5, <5>1, <5>3, <6>2, <6>3
          <5> QED BY <5>2, <5>3
        <4> QED BY <1>1, <3>4, <4>1, <4>2, <4>4, <4>5, ReplayedCases, FailedForm
      <3>5. f = engine \/ (Driven /\ Running(engine))
        <4>1. ~BeginRecovery /\ TypeInv /\ InstallInv /\ ActivationNext
          BY <2>1 DEF BeginRecovery
        <4>2. \/ engine' = engine
              \/ Driven /\ Running(engine)
              \/ PreparePlan \/ BeginRecovery \/ sup \in {"replay", "resolve"}
          BY <4>1, EngineStep
        <4> QED BY <1>2, <1>4, <2>1, <4>1, <4>2
      <3> HIDE DEF TrueOf
      <3> QED BY <3>1, <3>2, <3>3, <3>4, <3>5 DEF Driven
    <2>5. Going(engine') /\ ~engine'.converging =>
             /\ engine'.transition = "no_transition_required" =>
                   continuity' = "no_transition_required" /\ ~binding'
             /\ engine'.transition \in CommittedStates => continuity' = engine'.transition /\ moved'
      BY <1>2, <2>4
    <2> QED BY <2>5 DEF ContinuityTrue, Going
  <1> QED BY <1>3, <1>4

--------------------------------------------------------------------------------
(* The accepted target stays live until it is taken back. *)

\* The program of the reconcile, operation by operation.
LEMMA ReconcileTails ==
  /\ ReconcileProgram # <<>> /\ Head(ReconcileProgram) = Do("verify_arm")
  /\ Tail(ReconcileProgram) # <<>> /\ Head(Tail(ReconcileProgram)) = Do("read_binding")
  /\ Tail(Tail(ReconcileProgram)) # <<>> /\ Head(Tail(Tail(ReconcileProgram))) = Do("reconcile")
  /\ Tail(Tail(Tail(ReconcileProgram))) = Advance("continuity_reconcile")
  /\ Advance("continuity_reconcile") # <<>>
  /\ Head(Advance("continuity_reconcile")) = <<"next", "continuity_reconcile">>
  /\ Tail(Advance("continuity_reconcile")) # <<>>
  /\ Head(Tail(Advance("continuity_reconcile"))) = <<"rename", "continuity_reconcile">>
  /\ Tail(Tail(Advance("continuity_reconcile"))) = <<>>
  <1>1. PICK a, b, c, d, e : /\ a = Do("verify_arm") /\ b = Do("read_binding") /\ c = Do("reconcile")
                             /\ d = <<"next", "continuity_reconcile">>
                             /\ e = <<"rename", "continuity_reconcile">>
    OBVIOUS
  <1>2. ReconcileProgram = <<a, b, c, d, e>> /\ Advance("continuity_reconcile") = <<d, e>>
    BY <1>1 DEF ReconcileProgram, Advance
  <1>3. /\ <<a, b, c, d, e>> # <<>> /\ Head(<<a, b, c, d, e>>) = a
        /\ Tail(<<a, b, c, d, e>>) = <<b, c, d, e>> /\ Tail(<<b, c, d, e>>) = <<c, d, e>>
        /\ Tail(<<c, d, e>>) = <<d, e>> /\ Tail(<<d, e>>) = <<e>> /\ Tail(<<e>>) = <<>>
        /\ <<b, c, d, e>> # <<>> /\ <<c, d, e>> # <<>> /\ <<d, e>> # <<>> /\ <<e>> # <<>>
        /\ Head(<<b, c, d, e>>) = b /\ Head(<<c, d, e>>) = c /\ Head(<<d, e>>) = d /\ Head(<<e>>) = e
    OBVIOUS
  <1> QED BY <1>1, <1>2, <1>3

\* A quiet child leaves a live target as it is.
LEMMA QuietStays ==
  ASSUME ChildSound(child), Quiet(child), TargetLive, ChildStep \/ ChildFault, NEW d, d = child'
  PROVE  TargetLive' /\ Quiet(d)' /\ binding' = binding
  <1>1. /\ ChildSound(d) /\ d.role = child.role /\ child.ends = "no"
        /\ \/ child.todo # <<>> /\ d.ends = "no" /\ d.todo = Tail(child.todo)
           \/ Transition \/ ChooseRestore
           \/ d.ends \in {"rejected", "lost"}
           \/ d.todo = <<>> /\ d.ends = "success" /\ ChildSucceeds
    BY ChildStays
  <1>2. PICK t, R, A : t = child.todo /\ R = ReconcileProgram /\ A = Advance("continuity_reconcile")
    OBVIOUS
  <1>3. /\ R # <<>> /\ Head(R) = Do("verify_arm") /\ Tail(R) # <<>> /\ Head(Tail(R)) = Do("read_binding")
        /\ Tail(Tail(R)) # <<>> /\ Head(Tail(Tail(R))) = Do("reconcile") /\ Tail(Tail(Tail(R))) = A
        /\ A # <<>> /\ Head(A) = <<"next", "continuity_reconcile">> /\ Tail(A) # <<>>
        /\ Head(Tail(A)) = <<"rename", "continuity_reconcile">> /\ Tail(Tail(A)) = <<>>
    BY <1>2, ReconcileTails
  <1>0. /\ Head(R)[1] = "verify_arm" /\ Head(Tail(R))[1] = "read_binding"
        /\ Head(Tail(Tail(R)))[1] = "reconcile" /\ Head(A)[1] = "next" /\ Head(Tail(A))[1] = "rename"
        /\ Head(Tail(A))[2] = "continuity_reconcile"
    <2>1. \A x, y : <<x, y>>[1] = x /\ <<x, y>>[2] = y
      OBVIOUS
    <2> QED BY <1>3, <2>1 DEF Do
  <1>4. \/ t = R
        \/ t = Tail(R)
        \/ t = Tail(Tail(R)) /\ binding
        \/ t \in {A, Tail(A), <<>>} /\ binding /\ child.state = "reconciled_committed"
    BY <1>1, <1>2 DEF Quiet
  <1>5. \A op : At(op) => t # <<>> /\ Head(t)[1] = op
    BY <1>2 DEF At
  <1>6. /\ At("verify_arm") => t = R
        /\ At("read_binding") => t = Tail(R)
        /\ At("reconcile") => t = Tail(Tail(R))
        /\ At("next") => t = A
        /\ At("rename") => t = Tail(A)
        /\ \A op : At(op) => op \in {"verify_arm", "read_binding", "reconcile", "next", "rename"}
    <2>1. CASE t = <<>>
      BY <1>5, <2>1
    <2>2. CASE t = R
      BY <1>0, <1>5, <2>2
    <2>3. CASE t = Tail(R)
      BY <1>0, <1>5, <2>3
    <2>4. CASE t = Tail(Tail(R))
      BY <1>0, <1>5, <2>4
    <2>5. CASE t = A
      BY <1>0, <1>5, <2>5
    <2>6. CASE t = Tail(A)
      BY <1>0, <1>5, <2>6
    <2> QED BY <1>4, <2>1, <2>2, <2>3, <2>4, <2>5, <2>6
  <1>7. ~Transition /\ ~ChooseRestore /\ ~Assess
    BY <1>6 DEF Transition, ChooseRestore, Assess
  <1>8. public' = public /\ up' = up /\ moved' = moved /\ binding' = binding
    <2>1. /\ ~At("mix") /\ ~At("select") /\ ~At("restore") /\ ~At("stop") /\ ~At("start")
          /\ ~At("transition") /\ ~At("restore_opaque") /\ ~At("bind")
      BY <1>6
    <2> QED BY <2>1, HostMoves
  <1>9. ASSUME RenameNext PROVE continuity' = "reconciled_committed" /\ t = Tail(A)
    <2>1. t = Tail(A)
      BY <1>6, <1>9 DEF RenameNext
    <2>2. Event = "continuity_reconcile"
      BY <1>0, <1>2, <2>1 DEF Event
    <2>3. child.state = "reconciled_committed"
      BY <1>3, <1>4, <2>1 DEF Do
    <2> QED BY <1>9, <2>1, <2>2, <2>3 DEF RenameNext, ContinuityRoles
  <1>10. continuity' = continuity \/ RenameNext
    BY HostMoves
  <1>11. binding => moved
    BY DEF TargetLive
  <1>12. TargetLive'
    <2>1. CASE continuity' = continuity
      BY <1>8, <2>1 DEF TargetLive
    <2>2. CASE RenameNext
      <3>1. binding
        BY <1>3, <1>4, <1>9, <2>2 DEF Do
      <3> QED BY <1>8, <1>9, <1>11, <2>2, <3>1 DEF TargetLive
    <2> QED BY <1>10, <2>1, <2>2
  <1>13. ASSUME d.ends = "no"
         PROVE  \/ d.todo \in {R, Tail(R)}
                \/ binding /\ d.todo = Tail(Tail(R))
                \/ binding /\ d.state = "reconciled_committed" /\ d.todo \in {A, Tail(A), <<>>}
    <2>1. child.todo # <<>> /\ d.todo = Tail(t)
      BY <1>1, <1>2, <1>7, <1>13
    <2>2. ~ChildRefused /\ ~ChildFault
      BY <1>13, ChildStops
    <2>3. t = R => d.todo = Tail(R)
      BY <2>1
    <2>4. t = Tail(R) => binding /\ d.todo = Tail(Tail(R))
      <3> SUFFICES ASSUME t = Tail(R) PROVE binding
        BY <2>1
      <3>1. At("read_binding")
        BY <1>0, <1>1, <1>2, <1>3 DEF At
      <3>2. Looks
        BY <2>1, <2>2, <3>1 DEF ChildStep, At, ClaimIncident, WriteNext, RenameNext, WriteObligation,
             MoveGate, MoveUnits, MovePublic, ChooseRestore, RestoreOpaque, Assess, WriteBinding,
             Transition, Reconcile, ChildSucceeds
      <3> QED BY <3>1, <3>2 DEF Looks, Admissible
    <2>5. t = Tail(Tail(R)) => d.state = "reconciled_committed" /\ d.todo = A
      <3> SUFFICES ASSUME t = Tail(Tail(R)) PROVE d.state = "reconciled_committed"
        BY <1>3, <2>1
      <3>1. At("reconcile")
        BY <1>0, <1>1, <1>2, <1>3 DEF At
      <3>2. Reconcile
        BY <2>1, <2>2, <3>1 DEF ChildStep, At, ClaimIncident, WriteNext, RenameNext, WriteObligation,
             MoveGate, MoveUnits, MovePublic, ChooseRestore, RestoreOpaque, Assess, WriteBinding,
             Transition, Looks, ChildSucceeds
      <3>3. moved
        BY <1>3, <1>4, <1>11 DEF Do
      <3>4. child' = [child EXCEPT !.state = "reconciled_committed", !.todo = Tail(child.todo)]
        BY <3>2, <3>3 DEF Reconcile, ProceedAs
      <3> QED BY <3>4 DEF ChildSound, ChildRow
    <2>6. t \in {A, Tail(A)} => d.state = child.state /\ d.todo \in {Tail(A), <<>>}
      <3> SUFFICES ASSUME t \in {A, Tail(A)} PROVE d.state = child.state
        BY <1>3, <2>1
      <3>1. ~At("reconcile")
        BY <1>0, <1>5
      <3>2. ChildGoes(child.state) \/ ChildEnds("rejected") \/ ChildEnds("success") \/ ChildEnds("lost")
        BY <1>7, <3>1, ChildMoves DEF Reconcile
      <3>3. child.state \in States \cup {"none"}
        BY DEF ChildSound, ChildRow
      <3>4. CASE ChildGoes(child.state)
        BY <2>1, <3>3, <3>4, ProceedSound DEF ChildGoes
      <3>5. CASE \E ends \in {"rejected", "success", "lost"} : ChildEnds(ends)
        BY <1>13, <3>5, DoneSound DEF ChildEnds
      <3> QED BY <3>2, <3>4, <3>5
    <2>7. t # <<>>
      BY <1>2, <2>1
    <2> QED BY <1>4, <2>3, <2>4, <2>5, <2>6, <2>7
  <1>14. d.role \in {"none", "continuity_reconcile"}
    BY <1>1 DEF Quiet
  <1>15. Quiet(d)'
    BY <1>2, <1>8, <1>13, <1>14 DEF Quiet
  <1> QED BY <1>8, <1>12, <1>15

\* After an acceptance, and before a convergence, only the reconcile may still be called.
LEMMA OnlyReconcile ==
  ASSUME TypeInv, InstallInv, EngineSeen, StartRole, AcceptSeen, Conv \notin intents'
  PROVE  Role = "continuity_reconcile"
  <1>1. /\ EngineSound(engine) /\ EngineKept(engine) /\ CapturesKept /\ ConvergenceSeen
        /\ ForwardFirst /\ RecoveryConverges
    BY DEF TypeInv, EngineTyped, InstallInv, EngineSeen
  <1>2. /\ Running(engine) /\ MayRun /\ sup = "drive" /\ intents' = intents \cup {Key}
    BY DEF StartRole, Driving
  <1>3. Conv \notin intents /\ Key # Conv
    BY <1>2
  <1>4. mode # "forward"
    BY <1>1, <1>2, <1>3 DEF ForwardFirst, Forwarding
  <1>5. engine.converging \/ engine.role = "continuity_transition"
    BY <1>1, <1>2, <1>4 DEF RecoveryConverges
  <1>6. Role \in {"continuity_reconcile", "converge", "recover", "postflight"}
    BY <1>2, <1>4 DEF MayRun, ConvergenceRoles
  <1>7. ~Converges(engine)
    BY <1>1, <1>3 DEF ConvergenceSeen, CapturesKept, Seen
  <1>8. Role # "converge" /\ Role # "recover"
    BY <1>1, <1>2, <1>3, <1>7, ConvergenceCalls DEF Converges
  <1>9. Role = "postflight" => ~engine.converging
    BY <1>1, <1>2, <1>7, ConvergenceCalls DEF Converges
  <1>10. ~engine.converging => Role # "postflight"
    BY <1>1, <1>2, <1>5, ConvergenceCalls
  <1> QED BY <1>6, <1>8, <1>9, <1>10

\* A new reconcile is quiet.
LEMMA NewReconcileQuiet ==
  ASSUME NEW c, c = NewChild("continuity_reconcile")
  PROVE  Quiet(c)
  <1>1. "continuity_reconcile" \in Roles
    BY DEF Roles, ContinuityRoles
  <1>2. c.role = "continuity_reconcile" /\ c.todo = Program("continuity_reconcile")
    BY <1>1, NewChildFields
  <1>3. Program("continuity_reconcile") = ReconcileProgram
    BY ContinuityPrograms DEF ReconcileProgram
  <1> QED BY <1>2, <1>3 DEF Quiet

\* What an acceptance finds: a live target, and nobody at work.
LEMMA AcceptedThen ==
  ASSUME TypeInv, TimeInv, InstallInv, AcceptInv, ActivationNext, ~AcceptSeen, AcceptSeen',
         Conv \notin intents'
  PROVE  TargetLive' /\ child' = NoChild /\ orphan' = NoChild
  <1>1. /\ EngineSound(engine) /\ EngineKept(engine) /\ CapturesKept /\ OrderKept /\ ConvergenceSeen
        /\ RecoveryConverges /\ ChildTrue /\ ContinuityTrue
    BY DEF TypeInv, EngineTyped, InstallInv, AcceptInv, EngineSeen, AcceptKept
  <1>2. Conv \notin intents
    BY IntentsStep
  <1>3. /\ TakeCapture /\ Running(engine) /\ Role = "postflight"
        /\ child.role = "postflight" /\ child.ends = "success" /\ child.identity = "target"
        /\ engine.converging => Seen(Conv)
    BY <1>1, AcceptanceTaken
  <1>4. ~engine.converging
    BY <1>1, <1>2, <1>3 DEF CapturesKept, Seen
  <1>5. sup = "waiting" /\ child' = NoChild /\ orphan' = orphan /\ UNCHANGED <<public, up, moved, continuity, binding>>
    BY <1>3 DEF TakeCapture, Reported, hostVars, orphanVars
  <1>6. mode = "forward"
    <2>1. engine.role # "continuity_transition"
      BY <1>1, <1>3, <1>4, ConvergenceCalls
    <2> QED BY <1>1, <1>3, <1>4, <1>5, <2>1 DEF RecoveryConverges
  <1>7. orphan = NoChild /\ child.todo = <<>> /\ Checked(child)
    BY <1>1, <1>3, <1>5, <1>6 DEF Forwarding, OrderKept, ForwardAlone, Alone, ChildTrue, Idle
  <1>8. public = "target" /\ up
    BY <1>3, <1>7 DEF Checked
  <1>9. engine.transition \in FinalStates
    <2>1. engine.role \in LateRoles \/ engine.transition \in FinalStates
      BY <1>1, <1>3, <1>4, NextKept DEF Role, LateRoles
    <2> QED BY <1>1, <1>3, <1>4, <2>1 DEF EngineKept, TransitionKept, Going, Running
  <1>10. TargetLive
    BY <1>1, <1>3, <1>4, <1>5, <1>6, <1>8, <1>9
       DEF ContinuityTrue, Going, Running, TargetLive, FinalStates, CommittedStates
  <1> QED BY <1>5, <1>7, <1>10 DEF TargetLive

\* Every step keeps an accepted target live until a convergence is called.
LEMMA AcceptedStaysLive ==
  ASSUME TypeInv, TimeInv, InstallInv, AcceptInv, ActivationNext
  PROVE  AcceptedLive'
  <1> SUFFICES ASSUME AcceptSeen', Conv \notin intents'
               PROVE  TargetLive' /\ Quiet(child)' /\ Quiet(orphan)'
    BY DEF AcceptedLive, Conv
  <1>1. /\ HostKept /\ EngineSeen /\ AcceptedLive /\ ChildSound(child)
    BY DEF TypeInv, ChildrenTyped, InstallInv, AcceptInv, AcceptKept
  <1>2. CASE ~AcceptSeen
    <2>1. TargetLive' /\ child' = NoChild /\ orphan' = NoChild
      BY <1>2, AcceptedThen
    <2>2. NoChild.role = "none" /\ NoChild.ends = "none"
      BY DEF NoChild
    <2> QED BY <2>1, <2>2 DEF Quiet
  <1>3. CASE AcceptSeen
    <2>1. TargetLive /\ Quiet(child) /\ Quiet(orphan)
      <3>1. Conv \notin intents
        BY IntentsStep
      <3> QED BY <1>1, <1>3, <3>1 DEF AcceptedLive
    <2>2. CASE RoleSteps
      <3>1. PICK d : d = child'
        OBVIOUS
      <3>2. (ChildStep \/ ChildFault) /\ orphan' = orphan
        BY <2>2 DEF RoleSteps, orphanVars
      <3>3. TargetLive' /\ Quiet(d)' /\ binding' = binding
        BY <1>1, <2>1, <3>1, <3>2, QuietStays
      <3> QED BY <2>1, <3>1, <3>2, <3>3 DEF Quiet
    <2>3. CASE ~RoleSteps
      <3>1. PICK c, d : /\ c = child' /\ d = orphan'
                        /\ c \in {child, orphan, NoChild} \/ (StartRole /\ Role \in Roles /\ c = NewChild(Role))
                        /\ d \in {child, orphan, NoChild} \/ (StartRole /\ Role \in Roles /\ d = NewChild(Role))
        BY <1>1, <2>3, ChildComes
      <3>2. UNCHANGED <<public, up, moved, continuity, binding>>
        BY <1>1, <2>3, ChildComes
      <3>3. StartRole => Role = "continuity_reconcile"
        BY <1>1, <1>3, OnlyReconcile
      <3>4. Quiet(c) /\ Quiet(d)
        BY <2>1, <3>1, <3>3, NoChildTrue, NewReconcileQuiet
      <3> QED BY <2>1, <3>1, <3>2, <3>4 DEF TargetLive, Quiet
    <2> QED BY <2>2, <2>3
  <1> QED BY <1>2, <1>3

--------------------------------------------------------------------------------
(* What the files say. *)

\* How the files of the supervisor and of the guardian change.
LEMMA FileSteps ==
  ASSUME FilesTyped, ActivationNext
  PROVE  /\ files'.terminal \in {files.terminal, Absent, TornFile}
              \/ (WriteTerminal /\ mode # "forced" /\ files'.terminal = Receipt(engine))
         /\ files.terminal # Absent => files'.terminal = files.terminal
         /\ \/ files'.recovery \in {files.recovery, Absent, TornFile}
            \/ WriteTerminal /\ mode = "forced" /\ files'.recovery = Receipt(engine)
            \/ CloseSettled /\ files'.recovery = Valid("premutation")
         /\ files'.hardstop \in {files.hardstop, Absent, TornFile}
              \/ (HardStopWritten /\ files'.hardstop = HardStop)
         /\ files'.strategy \in {files.strategy, Absent, TornFile}
              \/ (IndexWritten /\ files'.strategy = Valid(Indexed))
  <1> DEFINE Names == {"terminal", "recovery", "discharge", "hardstop", "strategy"}
  <1>1. ASSUME NEW n \in Names, NEW v, files' = [files EXCEPT ![n] = v]
        PROVE  files'[n] = v /\ \A m \in Names \ {n} : files'[m] = files[m]
    BY <1>1 DEF FilesTyped
  <1>2. TerminalName \in {"terminal", "recovery"} /\ (TerminalName = "recovery" <=> mode = "forced")
    BY DEF TerminalName
  <1>3. CASE WriteTerminal
    <2>1. PICK n : n = TerminalName
      OBVIOUS
    <2>2. files' = [files EXCEPT ![n] = Receipt(engine)] /\ files[n] = Absent
      BY <1>3, <2>1 DEF WriteTerminal
    <2>3. files'[n] = Receipt(engine) /\ \A m \in Names \ {n} : files'[m] = files[m]
      BY <1>1, <1>2, <2>1, <2>2
    <2> QED BY <1>2, <1>3, <2>1, <2>2, <2>3
  <1>4. CASE TerminalNotPersisted
    <2>1. PICK n : n = TerminalName
      OBVIOUS
    <2>2. \E v \in {Absent, TornFile} : files' = [files EXCEPT ![n] = v]
      BY <1>4, <2>1 DEF TerminalNotPersisted
    <2>3. files[n] = Absent
      BY <1>4, <2>1 DEF TerminalNotPersisted
    <2>4. files'[n] \in {Absent, TornFile} /\ \A m \in Names \ {n} : files'[m] = files[m]
      BY <1>1, <1>2, <2>1, <2>2
    <2> QED BY <1>2, <2>1, <2>3, <2>4
  <1>5. CASE Discharge \/ DischargeFails
    <2>1. \E v : files' = [files EXCEPT !["discharge"] = v]
      BY <1>5 DEF Discharge, DischargeFails
    <2>2. \A m \in Names \ {"discharge"} : files'[m] = files[m]
      BY <1>1, <2>1
    <2> QED BY <2>2
  <1>6. CASE IndexWritten
    <2>1. files' = [files EXCEPT !["strategy"] = Valid(Indexed)]
      BY <1>6 DEF IndexWritten
    <2>2. files'["strategy"] = Valid(Indexed) /\ \A m \in Names \ {"strategy"} : files'[m] = files[m]
      BY <1>1, <2>1
    <2> QED BY <1>6, <2>2
  <1>7. CASE IndexNotPersisted
    <2>1. \E v \in {Absent, TornFile} : files' = [files EXCEPT !["strategy"] = v]
      BY <1>7 DEF IndexNotPersisted
    <2>2. files'["strategy"] \in {Absent, TornFile} /\ \A m \in Names \ {"strategy"} : files'[m] = files[m]
      BY <1>1, <2>1
    <2> QED BY <2>2
  <1>8. CASE CloseSettled
    <2>1. \E v \in {files.recovery, Valid("premutation")} : files' = [files EXCEPT !["recovery"] = v]
      BY <1>8 DEF CloseSettled
    <2>2. /\ files'["recovery"] \in {files.recovery, Valid("premutation")}
          /\ \A m \in Names \ {"recovery"} : files'[m] = files[m]
      BY <1>1, <2>1
    <2> QED BY <1>8, <2>2
  <1>9. CASE HardStopWritten
    <2>1. files' = [files EXCEPT !["hardstop"] = HardStop]
      BY <1>9 DEF HardStopWritten
    <2>2. files'["hardstop"] = HardStop /\ \A m \in Names \ {"hardstop"} : files'[m] = files[m]
      BY <1>1, <2>1
    <2> QED BY <1>9, <2>2
  <1>10. CASE HardStopNotPersisted
    <2>1. \E v \in {Absent, TornFile} : files' = [files EXCEPT !["hardstop"] = v]
      BY <1>10 DEF HardStopNotPersisted
    <2>2. files'["hardstop"] \in {Absent, TornFile} /\ \A m \in Names \ {"hardstop"} : files'[m] = files[m]
      BY <1>1, <2>1
    <2> QED BY <2>2
  <1>11. CASE files' = files
    BY <1>11
  <1> QED BY <1>3, <1>4, <1>5, <1>6, <1>7, <1>8, <1>9, <1>10, <1>11, FilesFrame

\* How the manager comes to write a hard stop, and what it leaves alone until then.
LEMMA HardStopFrame ==
  ASSUME ActivationNext, sup # "off" => manager \in {"forward", "recover"}, manager' = "hardstop"
  PROVE  \/ CloseSettled
         \/ RecoveryEnds /\ files.recovery.kind = "valid" /\ files.recovery.status # "accepted" /\ files' = files
         \/ manager = "hardstop" /\ UNCHANGED <<files, planned>>
  BY DEF ActivationNext, RoleSteps, SupervisorSteps, SupervisorFaults, ManagerSteps, ManagerFaults,
         evidenceVars, orphanVars, guardianVars, Driving, Reported, Finished, Replaying,
         SupervisorOver, Closing, Keep, KeepEvidence, Raised, PreparePlan, StartRole, CallConsumed,
         TakeCapture, WriteTerminal, BeginRecovery, ReplayFailure, ReplayRejected,
         ReplayInterrupted, ReplayCapture, ReplayEnds, Resolve, PlanRejected, RoleNotStarted,
         ChildNotCreated, CaptureNotPersisted, TerminalNotPersisted, SupervisorDies, Switch,
         ManagerStarts, ForwardEnds, Discharge, IndexWritten, IndexRefused, CloseSettled,
         CloseRecovers, CloseRefused, RecoveryEnds, HardStopWritten, HardStopRefused, LastLook,
         ForwardCaptureLost, DischargeFails, IndexNotPersisted, HardStopNotPersisted, ManagerDies,
         CloseRaises, IndexRaises, Lapse

\* Every step keeps the files to what the captures say.
LEMMA FilesStaySeen ==
  ASSUME TypeInv, InstallInv, EngineSeen, FilesSeen, ActivationNext
  PROVE  FilesSeen'
  <1>1. /\ OrderKept /\ FilesTyped /\ ConvergenceSeen /\ AcceptanceSeen /\ RecoveryConverges
        /\ sup # "off" => manager \in {"forward", "recover"}
    BY DEF InstallInv, OrderKept, ManagerAwaits, EngineSeen
  <1>2. /\ files.recovery.status # "accepted" /\ files.hardstop.status # "accepted"
        /\ files.terminal.status = "converged" \/ files.recovery.status = "converged"
             \/ files.hardstop.status = "converged" \/ files.strategy.status = "predecessor_converged" =>
              Seen(Recov)
        /\ files.strategy.status = "target_accepted" => files.terminal.status = "accepted"
        /\ manager = "hardstop" /\ planned => SequenceTerminal.status # "accepted"
    BY DEF FilesSeen
  <1>3. /\ Absent.status = "none" /\ TornFile.status = "none" /\ \A x : Valid(x).status = x
        /\ Receipt(engine).status = engine.status /\ Absent # Valid("premutation")
        /\ Absent.kind = "absent"
    <2>1. /\ Absent.status = "none" /\ TornFile.status = "none" /\ (\A x : Valid(x).status = x)
          /\ Absent.kind = "absent"
      BY DEF Absent, TornFile, Valid
    <2>2. Receipt(engine).status = engine.status
      BY DEF Receipt
    <2> QED BY <2>1, <2>2
  <1>4. /\ WriteTerminal /\ engine.status = "converged" => Seen(Recov)
        /\ WriteTerminal /\ mode = "forced" => engine.status # "accepted"
    BY <1>1 DEF WriteTerminal, Finished, ConvergenceSeen, RecoveryConverges
  <1>5. Seen(Recov) => Seen(Recov)'
    BY CapturesStay
  <1>6. /\ SequenceTerminal.status = "accepted" => files.terminal.status = "accepted"
        /\ SequenceTerminal.status = "converged" => Seen(Recov)
    BY <1>2, <1>3 DEF SequenceTerminal
  <1>7. HardStopWritten => HardStop.status # "accepted" /\ (HardStop.status = "converged" => Seen(Recov))
    BY <1>2, <1>3, <1>6 DEF HardStopWritten, HardStop
  <1>8. /\ Indexed = "predecessor_converged" => Seen(Recov)
        /\ Indexed = "target_accepted" => files.terminal.status = "accepted"
    <2>1. Discharged => SequenceTerminal.status = "accepted"
      BY DEF Discharged
    <2> QED BY <1>2, <1>6, <2>1 DEF Indexed, ProductState
  <1>9. PICK t, t2, r, r2, h, h2, s, s2 :
          /\ t = files.terminal /\ r = files.recovery /\ h = files.hardstop /\ s = files.strategy
          /\ t2 = files'.terminal /\ r2 = files'.recovery /\ h2 = files'.hardstop /\ s2 = files'.strategy
    OBVIOUS
  <1>10. /\ t2 \in {t, Absent, TornFile} \/ (WriteTerminal /\ mode # "forced" /\ t2 = Receipt(engine))
         /\ t # Absent => t2 = t
         /\ \/ r2 \in {r, Absent, TornFile}
            \/ WriteTerminal /\ mode = "forced" /\ r2 = Receipt(engine)
            \/ CloseSettled /\ r2 = Valid("premutation")
         /\ h2 \in {h, Absent, TornFile} \/ (HardStopWritten /\ h2 = HardStop)
         /\ s2 \in {s, Absent, TornFile} \/ (IndexWritten /\ s2 = Valid(Indexed))
    BY <1>1, <1>9, FileSteps
  <1>11. /\ r2.status # "accepted" /\ h2.status # "accepted"
         /\ t2.status = "converged" \/ r2.status = "converged" \/ h2.status = "converged"
              \/ s2.status = "predecessor_converged" => Seen(Recov)
         /\ s2.status = "target_accepted" => t2.status = "accepted"
    <2>1. r2.status # "accepted"
      BY <1>2, <1>3, <1>4, <1>9, <1>10
    <2>2. h2.status # "accepted"
      BY <1>2, <1>3, <1>7, <1>9, <1>10
    <2>3. t2.status = "converged" => Seen(Recov)
      BY <1>2, <1>3, <1>4, <1>9, <1>10
    <2>4. r2.status = "converged" => Seen(Recov)
      BY <1>2, <1>3, <1>4, <1>9, <1>10
    <2>5. h2.status = "converged" => Seen(Recov)
      BY <1>2, <1>3, <1>7, <1>9, <1>10
    <2>6. s2.status = "predecessor_converged" => Seen(Recov)
      BY <1>2, <1>3, <1>8, <1>9, <1>10
    <2>7. s2.status = "target_accepted" => t.status = "accepted"
      BY <1>2, <1>3, <1>8, <1>9, <1>10
    <2>8. t.status = "accepted" => t2 = t
      BY <1>3, <1>10
    <2> QED BY <2>1, <2>2, <2>3, <2>4, <2>5, <2>6, <2>7, <2>8
  <1>12. ASSUME manager' = "hardstop", planned' PROVE (SequenceTerminal.status)' # "accepted"
    <2>1. CASE CloseSettled
      <3>1. planned /\ files.recovery # TornFile /\ ~NeedsRecovery
        BY <1>12, <2>1 DEF CloseSettled, Keep, evidenceVars
      <3>2. CASE SequenceTerminal = Absent
        <4>1. files' = [files EXCEPT !.recovery = Valid("premutation")]
          BY <2>1, <3>1, <3>2 DEF CloseSettled
        <4>2. files'.recovery = Valid("premutation")
          BY <1>1, <4>1 DEF FilesTyped
        <4>3. files'.recovery # Absent /\ files'.recovery.status # "accepted"
          BY <1>3, <4>2
        <4> QED BY <4>3 DEF SequenceTerminal
      <3>3. CASE SequenceTerminal # Absent
        <4>1. files' = [files EXCEPT !.recovery = files.recovery]
          BY <2>1, <3>1, <3>3 DEF CloseSettled
        <4>2. files' = files
          BY <1>1, <4>1 DEF FilesTyped
        <4>3. SequenceTerminal.status # "accepted"
          BY <3>1, <3>3 DEF NeedsRecovery
        <4> QED BY <4>2, <4>3 DEF SequenceTerminal
      <3> QED BY <3>2, <3>3
    <2>2. CASE files.recovery.kind = "valid" /\ files.recovery.status # "accepted" /\ files' = files
      <3>1. files'.recovery # Absent /\ files'.recovery.status # "accepted"
        BY <1>3, <2>2
      <3> QED BY <3>1 DEF SequenceTerminal
    <2>3. CASE manager = "hardstop" /\ UNCHANGED <<files, planned>>
      BY <1>2, <1>12, <2>3 DEF SequenceTerminal
    <2> QED BY <1>1, <1>12, <2>1, <2>2, <2>3, HardStopFrame
  <1>13. /\ files'.recovery.status # "accepted" /\ files'.hardstop.status # "accepted"
         /\ files'.terminal.status = "converged" \/ files'.recovery.status = "converged"
              \/ files'.hardstop.status = "converged" \/ files'.strategy.status = "predecessor_converged" =>
               Seen(Recov)'
         /\ files'.strategy.status = "target_accepted" => files'.terminal.status = "accepted"
    BY <1>5, <1>9, <1>11
  <1> QED BY <1>12, <1>13 DEF FilesSeen

\* Every step keeps what an acceptance promises.
LEMMA AcceptStaysKept ==
  ASSUME TypeInv, TimeInv, InstallInv, AcceptInv, ActivationNext
  PROVE  AcceptKept'
  <1>1. /\ OrderKept /\ FilesTyped /\ ChildTrue /\ ContinuityTrue /\ AcceptanceSeen
        /\ files.terminal.status = "accepted" => AcceptSeen
    BY DEF InstallInv, OrderKept, AcceptInv, EngineSeen, AcceptKept
  <1>2. ASSUME files'.terminal.status = "accepted" PROVE AcceptSeen'
    <2>1. Absent.status = "none" /\ TornFile.status = "none" /\ Receipt(engine).status = engine.status
      BY DEF Absent, TornFile, Receipt
    <2>2. files'.terminal \in {files.terminal, Absent, TornFile, Receipt(engine)}
      BY <1>1, FileSteps
    <2>3. AcceptSeen
      BY <1>1, <1>2, <2>1, <2>2 DEF AcceptanceSeen
    <2> QED BY <2>3, CapturesStay
  <1> QED BY <1>1, <1>2, AcceptedStaysLive, ChildStaysTrue, ContinuityStaysTrue DEF AcceptKept

\* Without orphans a child at work is the one the supervisor waits for.
LEMMA AloneChild ==
  ASSUME TypeInv, TimeInv, InstallInv, ~orphansRun
  PROVE  /\ orphan = NoChild /\ aside = FALSE
         /\ child = NoChild \/ (sup = "waiting" /\ child.role = Role /\ Running(engine) /\ MayRun /\ Role \in Roles)
  <1>1. OrderKept /\ orphan = NoChild /\ aside = FALSE /\ EngineSound(engine)
    BY DEF TypeInv, EngineTyped, TimeInv, Alone, InstallInv
  <1>2. sup # "waiting" => child = NoChild
    BY <1>1 DEF OrderKept, ChildOwned, OwnChild
  <1>3. sup = "waiting" => child.role = Role /\ Running(engine) /\ MayRun
    BY <1>1 DEF OrderKept, ChildAwaited, OwnChild
  <1> QED BY <1>1, <1>2, <1>3, NextCallSound

\* A capture that is new is the one that is taken.
LEMMA SeenTaken ==
  ASSUME TypeInv, InstallInv, ActivationNext, NEW c, ~Seen(c), c \in DOMAIN captures', captures'[c].ok
  PROVE  /\ TakeCapture /\ Key = c /\ Running(engine) /\ child.role = Role /\ child.ends = "success"
         /\ captures'[c].restore = child.restore
  <1>1. HostKept /\ OrderKept
    BY DEF InstallInv
  <1>2. TakeCapture
    BY EvidenceFrame DEF Seen
  <1>3. PICK r \in ResultRow :
           /\ captures' = [k \in DOMAIN captures \cup {Key} |-> IF k = Key THEN r ELSE captures[k]]
           /\ r.ok => child.ends = "success" /\ r.restore = child.restore
    BY <1>1, <1>2, Captured
  <1>4. Running(engine) /\ child.role = Role
    BY <1>1, <1>2, OwnResult DEF TakeCapture
  <1>5. c = Key /\ captures'[c] = r
    <2> HIDE DEF Key
    <2> QED BY <1>3 DEF Seen
  <1> QED BY <1>2, <1>3, <1>4, <1>5

\* Every step leaves a recovered predecessor as it is.
LEMMA RecoveredStaysTrue ==
  ASSUME TypeInv, TimeInv, InstallInv, EngineSeen, ChildTrue, RecoveredStays, ActivationNext, ~orphansRun
  PROVE  RecoveredStays'
  <1> SUFFICES ASSUME Seen(Recov)'
               PROVE  /\ public' = "predecessor" /\ up'
                      /\ child'.role \in {"none", "postflight", "continuity_reconcile"}
    BY DEF RecoveredStays
  <1>1. /\ EngineSound(engine) /\ EngineKept(engine) /\ HostKept /\ OrderKept /\ CapturesKept
        /\ ChildSound(child) /\ ChildKept(child) /\ ConvergenceSeen /\ ForwardFirst
    BY DEF TypeInv, EngineTyped, ChildrenTyped, InstallInv, HostKept, EngineSeen
  <1>2. CASE ~Seen(Recov)
    <2>1. Recov \in DOMAIN captures' /\ captures'[Recov].ok
      BY DEF Seen, Recov
    <2>2. /\ TakeCapture /\ Key = Recov /\ Running(engine) /\ child.role = Role /\ child.ends = "success"
      BY <1>2, <2>1, SeenTaken
    <2>3. Role = "recover"
      <3>1. Key[1] = Role
        BY <1>1, <2>2, NextCallSound
      <3> QED BY <2>2, <3>1 DEF Recov
    <2>4. Checked(child) /\ child.todo = <<>>
      BY <2>2 DEF ChildTrue, Idle
    <2>5. public = "predecessor" /\ up
      BY <2>2, <2>3, <2>4 DEF Checked
    <2>6. child' = NoChild /\ UNCHANGED <<public, up>> /\ NoChild.role = "none"
      BY <2>2 DEF TakeCapture, hostVars, NoChild
    <2> QED BY <2>5, <2>6
  <1>3. CASE Seen(Recov)
    <2>1. /\ public = "predecessor" /\ up
          /\ child.role \in {"none", "postflight", "continuity_reconcile"}
      BY <1>3 DEF RecoveredStays
    <2>2. CASE RoleSteps
      <3>1. PICK d : d = child'
        OBVIOUS
      <3>2. ChildStep \/ ChildFault
        BY <2>2 DEF RoleSteps
      <3>3. child.ends = "no" /\ d.role = child.role
        BY <1>1, <3>1, <3>2, ChildStays
      <3>4. child.role \in {"postflight", "continuity_reconcile"}
        <4>1. NoChild.ends = "none" /\ "none" \notin Roles
          BY RoleClasses DEF NoChild
        <4> QED BY <2>1, <3>3, <4>1, AloneChild
      <3>5. ~At("mix") /\ ~At("select") /\ ~At("restore") /\ ~At("stop") /\ ~At("start")
        <4>1. CASE child.role = "postflight"
          <5>1. child.role \in Meek /\ MeekChild(child)
            BY <1>1, <4>1 DEF Meek, ChildKept
          <5>2. \A op : At(op) => op \in MeekOps
            BY <1>1, <5>1, MeekHead
          <5> QED BY <5>2 DEF MeekOps
        <4>2. CASE child.role = "continuity_reconcile"
          <5>1. \A op : At(op) /\ op \notin {"next", "rename"} =>
                   Do(op) \in OpsOf("continuity_reconcile")
            BY <1>1, <4>2, HeadOp DEF At
          <5>2. \A op : Do(op) \in OpsOf("continuity_reconcile") =>
                   op \in {"check", "verify_arm", "read_binding", "reconcile", "next", "rename"}
            BY DEF OpsOf, OwnOps, OwnEvents, Do
          <5> QED BY <5>1, <5>2
        <4> QED BY <3>4, <4>1, <4>2
      <3>6. public' = public /\ up' = up
        BY <3>2, <3>5, HostMoves
      <3> QED BY <2>1, <3>1, <3>3, <3>6
    <2>3. CASE ~RoleSteps
      <3>1. PICK c, d : /\ c = child' /\ d = orphan'
                        /\ c \in {child, orphan, NoChild} \/ (StartRole /\ Role \in Roles /\ c = NewChild(Role))
                        /\ d \in {child, orphan, NoChild} \/ (StartRole /\ Role \in Roles /\ d = NewChild(Role))
        BY <1>1, <2>3, ChildComes
      <3>2. UNCHANGED <<public, up, moved, continuity, binding>>
        BY <1>1, <2>3, ChildComes
      <3>3. ASSUME StartRole PROVE Role \in {"postflight", "continuity_reconcile"}
        <4>1. Running(engine) /\ MayRun /\ sup = "drive" /\ Key \notin intents
          BY <3>3 DEF StartRole, Driving
        <4>2. Recov \in intents /\ Conv \in intents
          BY <1>1, <1>3 DEF Seen, CapturesKept, ConvergenceSeen
        <4>3. Role \notin {"converge", "recover"}
          BY <1>1, <4>1, <4>2, ConvergenceCalls
        <4>4. CASE mode = "forward"
          <5>1. engine.converging
            BY <1>1, <4>1, <4>2, <4>4 DEF ForwardFirst, Forwarding
          <5> QED BY <1>1, <4>1, <4>3, <5>1, ConvergenceCalls DEF ConvergenceRoles
        <4>5. CASE mode # "forward"
          BY <4>1, <4>3, <4>5 DEF MayRun, ConvergenceRoles
        <4> QED BY <4>4, <4>5
      <3>4. c.role \in {"none", "postflight", "continuity_reconcile"}
        <4>1. NoChild.role = "none" /\ orphan = NoChild
          BY AloneChild DEF NoChild
        <4>2. CASE StartRole /\ Role \in Roles /\ c = NewChild(Role)
          <5>1. c.role = Role
            BY <4>2, NewChildFields
          <5> QED BY <3>3, <4>2, <5>1
        <4> QED BY <2>1, <3>1, <4>1, <4>2
      <3> QED BY <2>1, <3>1, <3>2, <3>4
    <2> QED BY <2>2, <2>3
  <1> QED BY <1>2, <1>3

--------------------------------------------------------------------------------
(* Without orphans nothing restores the old trusted time once it was moved.  *)

\* What a child, a capture or the engine says of the restore.
Old == "p08_state_and_public"
Spares(e) == Converges(e) \/ e.status = "converged" => RestoreScope(e) # Old

\* The transition is called by a sequence that goes forward: nothing was restored yet.
LEMMA RestoreBeforeMoved ==
  ASSUME TypeInv, TimeInv, InstallInv, AcceptInv, ActivationNext, ~orphansRun, ~moved, moved'
  PROVE  RestoreTrue'
  <1>1. /\ EngineSound(engine) /\ EngineKept(engine) /\ ChildSound(child) /\ CapturesKept
        /\ OrderKept /\ FilesTyped /\ ForwardFirst /\ CountKept(engine)
    BY DEF TypeInv, EngineTyped, ChildrenTyped, InstallInv, OrderKept, AcceptInv, EngineSeen, EngineKept
  <1>2. RoleSteps /\ Transition
    BY TimeFrame DEF RestoreOpaque
  <1>3. ChildStep \/ ChildFault
    BY <1>2 DEF RoleSteps
  <1>4. PICK d : d = child'
    OBVIOUS
  <1>5. child.role = "continuity_transition" /\ d.role = child.role /\ child.ends = "no"
    BY <1>1, <1>2, <1>3, <1>4, RoleAt, ChildStays DEF Transition
  <1>6. sup = "waiting" /\ Role = "continuity_transition" /\ Running(engine) /\ MayRun
    BY <1>5, AloneChild DEF NoChild
  <1>7. mode = "forward" /\ ~engine.converging
    BY <1>1, <1>6, ConvergenceCalls DEF MayRun, ConvergenceRoles
  <1>8. Conv \notin intents /\ files = NoFiles /\ Forwarding
    BY <1>1, <1>6, <1>7 DEF Forwarding, ForwardFirst, OrderKept, ForwardAlone
  <1>9. ~Seen(Conv) /\ ~Converges(engine) /\ engine.status # "converged"
    BY <1>1, <1>6, <1>7, <1>8 DEF Seen, CapturesKept, Converges, CountKept, Running
  <1>10. files.recovery.status # "converged"
    BY <1>8 DEF NoFiles, Absent
  <1>11. UNCHANGED <<engine, captures, files>>
    BY <1>2 DEF RoleSteps, evidenceVars
  <1>12. ~Seen(Conv)' /\ ~Converges(engine)' /\ engine'.status # "converged"
    BY <1>9, <1>11 DEF Seen, Converges, Running, Conv
  <1> QED BY <1>4, <1>5, <1>10, <1>11, <1>12 DEF RestoreTrue

\* What a converge child restores.
LEMMA ChildSpares ==
  ASSUME TypeInv, TimeInv, InstallInv, ActivationNext, ~orphansRun, moved,
         child.role = "converge" => child.restore # Old
  PROVE  child'.role = "converge" => child'.restore # Old
  <1>1. ChildSound(child) /\ HostKept /\ ForwardStatePossible
    BY DEF TypeInv, ChildrenTyped, InstallInv, TimeInv, CommitRecorded
  <1>2. CASE RoleSteps
    <2>1. PICK d : d = child'
      OBVIOUS
    <2>2. ChildStep \/ ChildFault
      BY <1>2 DEF RoleSteps
    <2>3. d.role = child.role /\ (d.restore = child.restore \/ ChooseRestore)
      BY <1>1, <2>1, <2>2, ChildStays
    <2>4. ASSUME ChooseRestore PROVE d.restore = "code_public_only"
      BY <1>1, <2>1, <2>4 DEF ChooseRestore, ChildSound, ChildRow
    <2> QED BY <2>1, <2>3, <2>4 DEF Old
  <1>3. CASE ~RoleSteps
    <2>1. PICK c, d : /\ c = child' /\ d = orphan'
                      /\ c \in {child, orphan, NoChild} \/ (StartRole /\ Role \in Roles /\ c = NewChild(Role))
                      /\ d \in {child, orphan, NoChild} \/ (StartRole /\ Role \in Roles /\ d = NewChild(Role))
      BY <1>1, <1>3, ChildComes
    <2>2. NoChild.restore = "none" /\ orphan = NoChild
      BY AloneChild DEF NoChild
    <2>3. ASSUME Role \in Roles, c = NewChild(Role) PROVE c.restore \in {"infrastructure_only", "none"}
      BY <2>3, NewChildFields
    <2> QED BY <2>1, <2>2, <2>3 DEF Old
  <1> QED BY <1>2, <1>3

\* What the capture of a converge says was restored.
LEMMA CaptureSpares ==
  ASSUME TypeInv, TimeInv, InstallInv, AcceptInv, ActivationNext, ~orphansRun, moved
  PROVE  Conv \in DOMAIN captures' /\ captures'[Conv].ok => captures'[Conv].restore # Old
  <1> SUFFICES ASSUME Conv \in DOMAIN captures', captures'[Conv].ok
               PROVE  captures'[Conv].restore # Old
    OBVIOUS
  <1>1. /\ RestoreTrue /\ EngineSound(engine)
    BY DEF AcceptInv, RecoveryKept, TypeInv, EngineTyped
  <1>2. CASE Seen(Conv)
    <2>1. captures'[Conv] = captures[Conv]
      BY <1>2, CapturesStay DEF Seen
    <2> QED BY <1>1, <1>2, <2>1 DEF RestoreTrue, Old
  <1>3. CASE ~Seen(Conv)
    <2>1. /\ TakeCapture /\ Key = Conv /\ Running(engine) /\ child.role = Role /\ child.ends = "success"
          /\ captures'[Conv].restore = child.restore
      BY <1>3, SeenTaken
    <2>2. Role = "converge"
      <3>1. Key[1] = Role
        BY <1>1, <2>1, NextCallSound
      <3>2. Conv[1] = "converge"
        BY DEF Conv
      <3> QED BY <2>1, <3>1, <3>2
    <2> QED BY <1>1, <2>1, <2>2 DEF RestoreTrue, Old
  <1> QED BY <1>2, <1>3

\* An engine that is given an outcome restores what the capture of its converge says.
LEMMA OutcomeSpares ==
  ASSUME TypeInv, TimeInv, InstallInv, AcceptInv, ActivationNext, ~orphansRun, moved,
         Running(engine), NEW x, Outcome(x)
  PROVE  Spares(x)
  <1> SUFFICES ASSUME Converges(x) \/ x.status = "converged"
               PROVE  RestoreScope(x) # Old
    BY DEF Spares
  <1>1. /\ EngineSound(engine) /\ EngineKept(engine) /\ engine \in EngineRow
        /\ Converges(engine) => RestoreScope(engine) # Old
    BY DEF TypeInv, EngineTyped, EngineSound, InstallInv, AcceptInv, RecoveryKept, RestoreTrue, Old
  <1>2. /\ EngineSound(x) /\ EngineKept(x) /\ x.role = Role
        /\ engine.converging => x.converging
        /\ \/ /\ x.status \in {"running", "premutation", "convergence_failed"}
              /\ Running(x) /\ ~x.converging =>
                    Role = "continuity_transition" /\ x.transition = "transition_ambiguous"
              /\ engine.converging /\ Role \in ConvergenceRoles => ~Running(x)
           \/ \E r \in ResultRow :
                 /\ r.ok /\ r.role = Role /\ Believable(engine, r) /\ x = Succeeded(engine, r)
                 /\ Key \in DOMAIN captures' /\ captures'[Key] = r
    BY <1>1, OutcomeFields
  <1>3. CASE /\ x.status \in {"running", "premutation", "convergence_failed"}
             /\ engine.converging /\ Role \in ConvergenceRoles => ~Running(x)
    <2>1. Role \in {"converge", "recover"} /\ Running(x)
      BY <1>2, <1>3 DEF Converges
    <2> QED BY <1>1, <1>3, <2>1, ConvergenceCalls DEF ConvergenceRoles
  <1>4. ASSUME NEW r \in ResultRow, r.ok, r.role = Role, Believable(engine, r), x = Succeeded(engine, r),
               Key \in DOMAIN captures', captures'[Key] = r
        PROVE  RestoreScope(x) # Old
    <2>1. /\ x.scope = engine.scope
          /\ Role \notin ContinuityRoles => x.forward = engine.forward
      BY <1>1, <1>4, SucceededTells
    <2>2. x.status = IF Role # "postflight" THEN engine.status
                     ELSE IF engine.converging THEN "converged" ELSE "accepted"
      BY <1>1, <1>4, SucceededStatus
    <2>3. Role \in {"converge", "recover"} \/ (Role = "postflight" /\ engine.converging)
      BY <1>2, <2>2 DEF Converges, Running
    <2>4. RestoreScope(x) = RestoreScope(engine)
      <3>1. Role \notin ContinuityRoles
        BY <2>3 DEF ContinuityRoles
      <3> QED BY <2>1, <3>1 DEF RestoreScope
    <2>5. CASE Role = "converge"
      <3>1. r.restore = RestoreScope(engine)
        BY <1>4, <2>5 DEF Believable
      <3>2. Conv \in DOMAIN captures' /\ captures'[Conv] = r
        BY <1>1, <1>4, <2>5, ConvergenceCalls
      <3> QED BY <1>4, <2>4, <3>1, <3>2, CaptureSpares
    <2>6. CASE Role = "recover" \/ (Role = "postflight" /\ engine.converging)
      <3>1. engine.role \in {"converge", "recover"}
        BY <1>1, <2>6, ConvergenceCalls
      <3> QED BY <1>1, <2>4, <3>1 DEF Converges
    <2> QED BY <2>3, <2>5, <2>6
  <1> QED BY <1>2, <1>3, <1>4

\* Abandoning the sequence restores no more than before.
LEMMA AbortedSpares ==
  ASSUME NEW e, EngineSound(e), EngineKept(e), Spares(e), NEW f, f = Aborted(e), Running(e)
  PROVE  Spares(f)
  <1>1. e \in EngineRow /\ e.scope \in {"none", "infrastructure_only"}
    BY DEF EngineSound, EngineRow
  <1>2. CASE e.transition = "transition_ambiguous"
    BY <1>2 DEF Aborted
  <1>3. CASE e.transition # "transition_ambiguous" /\ e.claimed /\ e.product
    <2>1. e.scope = "none"
      BY <1>1, <1>3 DEF EngineKept, ScopeKept
    <2>2. f = e \/ (f.scope = "none" /\ f.forward = e.forward /\ f.role = e.role /\ f.status = e.status)
      BY <1>1, <1>3 DEF Aborted, EngineRow
    <2> QED BY <2>1, <2>2 DEF Spares, RestoreScope, Converges, Running
  <1>4. CASE e.transition # "transition_ambiguous" /\ ~(e.claimed /\ e.product) /\ e.claimed /\ e.infra
    <2>1. f.scope = "infrastructure_only"
      BY <1>1, <1>4 DEF Aborted, EngineRow
    <2> QED BY <2>1 DEF Spares, RestoreScope, Old
  <1>5. CASE e.transition # "transition_ambiguous" /\ ~(e.claimed /\ e.product) /\ ~(e.claimed /\ e.infra)
    <2>1. f.status = "premutation"
      BY <1>1, <1>5 DEF Aborted, EngineRow
    <2> QED BY <2>1 DEF Spares, Converges, Running
  <1> QED BY <1>2, <1>3, <1>4, <1>5

\* So does what a recovery resolves.
LEMMA ResolvedSpares ==
  ASSUME NEW e, EngineSound(e), EngineKept(e), Spares(e), NEW forced \in BOOLEAN,
         NEW f, f = Resolved(e, forced)
  PROVE  Spares(f)
  <1>1. \/ Running(e) /\ ~e.product /\ obligation /\ f = Aborted(Bound(e))
        \/ Running(e) /\ ~(~e.product /\ obligation) /\ f = Aborted(e)
        \/ e.status = "accepted" /\ forced /\ f = Aborted(Reopened(e))
        \/ ~Running(e) /\ ~(e.status = "accepted" /\ forced) /\ f = e
    BY ResolvedCases
  <1>2. CASE Running(e) /\ ~e.product /\ obligation /\ f = Aborted(Bound(e))
    <2>1. f.scope = "infrastructure_only"
      BY <1>2, BoundAborted
    <2> QED BY <2>1 DEF Spares, RestoreScope, Old
  <1>3. CASE e.status = "accepted" /\ forced /\ f = Aborted(Reopened(e))
    <2>1. Running(f) /\ f.role = "postflight"
      BY <1>3, ReopenedAborted
    <2> QED BY <2>1 DEF Spares, Converges, Running
  <1> QED BY <1>1, <1>2, <1>3, AbortedSpares

\* Every step of the engine restores no more than the time allows.
LEMMA EngineSpares ==
  ASSUME TypeInv, TimeInv, InstallInv, AcceptInv, ActivationNext, ~orphansRun, moved
  PROVE  Spares(engine')
  <1>1. /\ EngineSound(engine) /\ EngineKept(engine) /\ engine \in EngineRow
        /\ Spares(engine)
    BY DEF TypeInv, EngineTyped, EngineSound, InstallInv, AcceptInv, RecoveryKept, RestoreTrue, Spares, Old
  <1>2. PICK f : f = engine'
    OBVIOUS
  <1> SUFFICES Spares(f)
    BY <1>2
  <1>3. \/ f = engine
        \/ f = NewEngine
        \/ /\ Running(engine) /\ \E x : Outcome(x) /\ (f = AfterRole(x) \/ f = x)
        \/ f = Resolved(engine, mode = "forced")
    BY <1>2, EngineStep
  <1>4. CASE f = NewEngine
    <2>1. f.role = "none" /\ f.status = "running"
      BY <1>4 DEF NewEngine
    <2> QED BY <2>1 DEF Spares, Converges
  <1>5. ASSUME NEW x, Running(engine), Outcome(x), f = AfterRole(x) \/ f = x PROVE Spares(f)
    <2>1. Spares(x)
      BY <1>5, OutcomeSpares
    <2>2. EngineSound(x) /\ EngineKept(x) /\ x.role = Role
      BY <1>5, OutcomeFields
    <2>3. CASE f = Aborted(x) /\ Running(x)
      BY <2>1, <2>2, <2>3, AbortedSpares
    <2>4. f = x \/ (f = Aborted(x) /\ Running(x))
      BY <1>5 DEF AfterRole
    <2> QED BY <2>1, <2>3, <2>4
  <1>6. CASE f = Resolved(engine, mode = "forced")
    <2>1. PICK forced \in BOOLEAN : forced <=> mode = "forced"
      OBVIOUS
    <2>2. f = Resolved(engine, forced)
      BY <1>6, <2>1 DEF Resolved
    <2> QED BY <1>1, <2>1, <2>2, ResolvedSpares
  <1> QED BY <1>1, <1>2, <1>3, <1>4, <1>5, <1>6

\* Once the time was moved nothing on disk or in memory takes it back.
LEMMA RestoreStaysTrue ==
  ASSUME TypeInv, TimeInv, InstallInv, AcceptInv, ActivationNext, ~orphansRun
  PROVE  RestoreTrue'
  <1> SUFFICES ASSUME moved' PROVE RestoreTrue'
    BY DEF RestoreTrue
  <1>1. RestoreTrue /\ FilesTyped
    BY DEF AcceptInv, RecoveryKept, InstallInv, OrderKept
  <1>2. CASE moved
    <2>1. child'.role = "converge" => child'.restore # Old
      BY <1>1, <1>2, ChildSpares DEF RestoreTrue, Old
    <2>2. Conv \in DOMAIN captures' /\ captures'[Conv].ok => captures'[Conv].restore # Old
      BY <1>2, CaptureSpares
    <2>3. Spares(engine')
      BY <1>2, EngineSpares
    <2>4. files'.recovery.status = "converged" => files'.recovery.restore # Old
      <3>1. \/ files'.recovery \in {files.recovery, Absent, TornFile}
            \/ files'.recovery = Receipt(engine) \/ files'.recovery = Valid("premutation")
        BY <1>1, FileSteps
      <3>2. /\ Absent.status = "none" /\ TornFile.status = "none" /\ Valid("premutation").status = "premutation"
            /\ Receipt(engine).status = engine.status /\ Receipt(engine).restore = RestoreScope(engine)
        BY DEF Absent, TornFile, Valid, Receipt
      <3> QED BY <1>1, <1>2, <3>1, <3>2 DEF RestoreTrue, Old
    <2>5. (Seen(Conv) => captures[Conv].restore # Old)'
      BY <2>2 DEF Seen, Conv
    <2>6. (Converges(engine) \/ engine.status = "converged" => RestoreScope(engine) # Old)'
      BY <2>3 DEF Spares, Converges, RestoreScope, Running
    <2> QED BY <2>1, <2>4, <2>5, <2>6 DEF RestoreTrue, Old
  <1> QED BY <1>2, RestoreBeforeMoved

--------------------------------------------------------------------------------
(* Without orphans and before any recovery the guardian forced, an accepted target *)
(* that a sequence converges again is not called accepted.                  *)

\* A recovery that converges after an acceptance stays one, and accepts nothing.
LEMMA UnrecoveredStays ==
  ASSUME TypeInv, TimeInv, InstallInv, AcceptInv, ActivationNext, ~CloseRecovers,
         AcceptSeen, Conv \in intents,
         mode = "recovery", sup \notin {"planning", "begin", "replay", "resolve"},
         engine.status # "accepted", files.terminal.status # "accepted"
  PROVE  /\ mode' = "recovery" /\ sup' \notin {"planning", "begin", "replay", "resolve"}
         /\ engine'.status # "accepted" /\ files'.terminal.status # "accepted"
  <1>1. /\ EngineSound(engine) /\ EngineKept(engine) /\ OrderKept /\ FilesTyped /\ TransitionKnown
        /\ ConvergenceSeen /\ RecoveryConverges
    BY DEF TypeInv, EngineTyped, TimeInv, InstallInv, OrderKept, AcceptInv, EngineSeen
  <1>2. mode' = "recovery"
    BY ModeFrame DEF PreparePlan
  <1>3. sup' \notin {"planning", "begin", "replay", "resolve"}
    <2>1. sup' # "planning"
      BY SupervisorFrame, <1>1 DEF TransitionKnown
    <2>2. sup' # "begin"
      BY StageFrame DEF ChildNotCreated, TerminalNotPersisted, Raised
    <2>3. sup' # "replay"
      BY StageFrame DEF BeginRecovery
    <2>4. sup' # "resolve"
      BY StageFrame DEF ReplayEnds, ReplayInterrupted, Replaying
    <2> QED BY <2>1, <2>2, <2>3, <2>4
  <1>4. engine'.status # "accepted"
    <2>1. PICK f : f = engine'
      OBVIOUS
    <2>2. \/ f = engine
          \/ /\ Running(engine) /\ sup \in {"drive", "waiting"} /\ MayRun
             /\ \E x : Outcome(x) /\ f = AfterRole(x)
      BY <2>1, EngineStep DEF PreparePlan, BeginRecovery, Repeated, ReplayFailure, ReplayInterrupted, ReplayCapture, Replaying
    <2>3. ASSUME NEW x, Running(engine), sup \in {"drive", "waiting"}, MayRun, Outcome(x), f = AfterRole(x)
          PROVE  f.status # "accepted"
      <3>1. EngineSound(x) /\ EngineKept(x)
        BY <2>3, OutcomeFields
      <3>2. f.status = x.status \/ f.status = "premutation"
        BY <2>3, <3>1, AfterRoleFields
      <3>3. x.status = "accepted" => ~engine.converging /\ Role = "postflight"
        BY <1>1, <2>3, OutcomeSeen
      <3>4. ~engine.converging => engine.role = "continuity_transition"
        BY <1>1, <2>3 DEF RecoveryConverges
      <3>5. ~engine.converging => Role # "postflight"
        BY <1>1, <2>3, <3>4, ConvergenceCalls
      <3> QED BY <3>2, <3>3, <3>5
    <2> QED BY <2>1, <2>2, <2>3
  <1>5. files'.terminal.status # "accepted"
    <2>1. Absent.status = "none" /\ TornFile.status = "none" /\ Receipt(engine).status = engine.status
      BY DEF Absent, TornFile, Receipt
    <2>2. files'.terminal \in {files.terminal, Absent, TornFile, Receipt(engine)}
      BY <1>1, FileSteps
    <2> QED BY <2>1, <2>2
  <1> QED BY <1>2, <1>3, <1>4, <1>5

\* A convergence after an acceptance is begun by a recovery.
LEMMA ConvergenceAfter ==
  ASSUME TypeInv, TimeInv, InstallInv, AcceptInv, ActivationNext, entries = {},
         AcceptSeen, Conv \notin intents, Conv \in intents'
  PROVE  /\ mode' = "recovery" /\ sup' \notin {"planning", "begin", "replay", "resolve"}
         /\ engine'.status # "accepted" /\ files'.terminal.status # "accepted"
  <1>1. /\ EngineSound(engine) /\ EngineKept(engine) /\ OrderKept /\ FilesTyped
        /\ ForwardFirst /\ ForcedEntered /\ TerminalOpen
    BY DEF TypeInv, EngineTyped, InstallInv, OrderKept, AcceptInv, EngineSeen
  <1>2. /\ Running(engine) /\ engine.converging /\ Key = Conv /\ Own /\ sup = "drive" /\ MayRun
        /\ StartRole \/ RoleNotStarted \/ ChildNotCreated
    BY ConvergenceMade
  <1>3. mode = "recovery"
    <2>1. mode # "forward"
      BY <1>1, <1>2 DEF ForwardFirst, Forwarding
    <2> QED BY <1>1, <2>1 DEF ForcedEntered
  <1>4. files.terminal = Absent /\ Absent.status = "none"
    BY <1>1, <1>2, <1>3 DEF TerminalOpen, TerminalName, Absent
  <1>5. mode' = mode /\ files' = files /\ sup' \in {"waiting", "drive", "failed"}
    BY <1>2, <1>3 DEF StartRole, RoleNotStarted, ChildNotCreated, Raised
  <1>6. engine'.status # "accepted"
    <2>1. CASE engine' = engine
      BY <1>2, <2>1 DEF Running
    <2>2. CASE RoleNotStarted
      <3>1. PICK f : f = engine'
        OBVIOUS
      <3>2. f = AfterRole(FailedFromEvidence) /\ Outcome(FailedFromEvidence)
        BY <2>2, <3>1 DEF RoleNotStarted, Outcome
      <3>3. EngineSound(FailedFromEvidence) /\ EngineKept(FailedFromEvidence)
        BY <1>2, <3>2, OutcomeFields
      <3>4. f.status = FailedFromEvidence.status \/ f.status = "premutation"
        BY <3>2, <3>3, AfterRoleFields
      <3>5. ConvergenceSeen
        BY DEF AcceptInv, EngineSeen
      <3>6. FailedFromEvidence.status # "accepted"
        BY <1>2, <3>2, <3>5, OutcomeSeen
      <3> QED BY <3>1, <3>4, <3>6
    <2> QED BY <1>2, <2>1, <2>2 DEF StartRole, ChildNotCreated
  <1> QED BY <1>3, <1>4, <1>5, <1>6

\* An acceptance is not told after a convergence was begun.
LEMMA NoLateAcceptance ==
  ASSUME TypeInv, TimeInv, InstallInv, AcceptInv, ActivationNext, ~orphansRun, ~AcceptSeen, AcceptSeen'
  PROVE  Conv \notin intents'
  <1>1. /\ EngineSound(engine) /\ EngineKept(engine) /\ OrderKept /\ HostKept /\ ConvergenceSeen
        /\ ForwardFirst /\ RecoveryConverges /\ RecoveredStays /\ ChildTrue /\ ChildKept(child)
    BY DEF TypeInv, EngineTyped, InstallInv, HostKept, AcceptInv, EngineSeen, AcceptKept, RecoveryKept
  <1>2. /\ TakeCapture /\ Running(engine) /\ Role = "postflight" /\ Key = Post
        /\ child.role = "postflight" /\ child.ends = "success" /\ child.identity = "target"
        /\ engine.converging => Seen(Conv) /\ Seen(Recov)
    BY <1>1, AcceptanceTaken
  <1>3. child.todo = <<>> /\ Checked(child)
    BY <1>1, <1>2 DEF ChildTrue, Idle
  <1>4. public = "target"
    BY <1>2, <1>3 DEF Checked
  <1>5. ~engine.converging
    BY <1>1, <1>2, <1>4 DEF RecoveredStays
  <1>6. sup = "waiting" /\ intents' = intents
    BY <1>2 DEF TakeCapture, Reported
  <1>7. mode = "forward"
    <2>1. mode # "forward" => engine.role = "continuity_transition"
      BY <1>1, <1>2, <1>5, <1>6 DEF RecoveryConverges
    <2> QED BY <1>1, <1>2, <1>5, <2>1, ConvergenceCalls
  <1> QED BY <1>1, <1>2, <1>5, <1>6, <1>7 DEF ForwardFirst, Forwarding

\* Every step keeps a convergence after an acceptance from being called accepted.
LEMMA UnrecoveredStaysKept ==
  ASSUME TypeInv, TimeInv, InstallInv, AcceptInv, ActivationNext, ~orphansRun
  PROVE  UnrecoveredKept'
  <1> SUFFICES ASSUME AcceptSeen', Conv \in intents', entries' = {}
               PROVE  /\ mode' = "recovery" /\ sup' \notin {"planning", "begin", "replay", "resolve"}
                      /\ engine'.status # "accepted" /\ files'.terminal.status # "accepted"
    BY DEF UnrecoveredKept, Conv
  <1>1. entries = {} /\ ~CloseRecovers
    BY MarksFrame DEF CloseRecovers
  <1>2. UnrecoveredKept
    BY DEF AcceptInv, RecoveryKept
  <1>3. AcceptSeen
    BY NoLateAcceptance
  <1>4. CASE Conv \in intents
    BY <1>1, <1>2, <1>3, <1>4, UnrecoveredStays DEF UnrecoveredKept
  <1> QED BY <1>1, <1>3, <1>4, ConvergenceAfter

--------------------------------------------------------------------------------
(* The two invariants of the activation.                                    *)

\* The invariant of the acceptance and the recovery holds at the start.
LEMMA AcceptInvInit == ActivationInit => AcceptInv
  <1> SUFFICES ASSUME ActivationInit PROVE AcceptInv
    OBVIOUS
  <1>1. /\ child = NoChild /\ orphan = NoChild /\ engine = NewEngine /\ sup = "off"
        /\ mode = "forward" /\ planned = FALSE /\ intents = {} /\ captures = <<>>
        /\ manager = "off" /\ entries = {}
        /\ files = [n \in {"terminal", "recovery", "discharge", "hardstop", "strategy"} |-> Absent]
        /\ binding = FALSE /\ moved = FALSE
    BY DEF ActivationInit, HostInit
  <1>2. engine.role = "none" /\ engine.status = "running"
    BY <1>1 DEF NewEngine
  <1>3. \A c : ~Seen(c)
    BY <1>1 DEF Seen
  <1>4. \A n \in {"terminal", "recovery", "hardstop", "strategy"} : files[n].status = "none"
    BY <1>1 DEF Absent
  <1>5. ~Forwarding
    BY <1>1 DEF Forwarding
  <1>6. ~AcceptSeen /\ ~Seen(Recov) /\ ~Seen(Conv)
    BY <1>3 DEF AcceptSeen
  <1>7. EngineSeen
    <2>1. ~Converges(engine) /\ engine.status # "converged" /\ engine.status # "accepted"
          /\ engine.role # "recover"
      BY <1>2 DEF Converges
    <2> QED BY <1>1, <1>5, <1>6, <2>1
            DEF EngineSeen, ConvergenceSeen, AcceptanceSeen, RecoveryConverges, ForwardFirst
  <1>8. AcceptKept
    <2>1. Idle(child) /\ Idle(orphan) /\ Checked(child)
      BY <1>1, NoChildTrue
    <2> QED BY <1>1, <1>4, <1>5, <1>6, <2>1 DEF AcceptKept, AcceptedLive, ChildTrue, ContinuityTrue
  <1>9. FilesSeen
    BY <1>1, <1>4 DEF FilesSeen
  <1>10. RecoveryKept
    BY <1>1, <1>6, <1>9 DEF RecoveryKept, RecoveredStays, RestoreTrue, UnrecoveredKept
  <1> QED BY <1>7, <1>8, <1>10 DEF AcceptInv

\* Every step keeps it.
LEMMA AcceptInvStep == TypeInv /\ TimeInv /\ InstallInv /\ AcceptInv /\ [ActivationNext]_vars => AcceptInv'
  <1> SUFFICES ASSUME TypeInv, TimeInv, InstallInv, AcceptInv, [ActivationNext]_vars PROVE AcceptInv'
    OBVIOUS
  <1>1. CASE ActivationNext
    <2>1. TransitionKnown /\ EngineSeen /\ AcceptKept /\ RecoveryKept /\ FilesSeen /\ ChildTrue
      BY DEF TimeInv, AcceptInv, AcceptKept, RecoveryKept
    <2>2. EngineSeen' /\ AcceptKept' /\ FilesSeen'
      BY <1>1, <2>1, EngineStaysSeen, AcceptStaysKept, FilesStaySeen
    <2>3. orphansRun' = orphansRun
      BY <1>1, CounterFrame
    <2>4. ASSUME ~orphansRun PROVE RecoveredStays' /\ RestoreTrue' /\ UnrecoveredKept'
      <3>1. RecoveredStays
        BY <2>1, <2>4 DEF RecoveryKept
      <3> QED BY <1>1, <2>1, <2>4, <3>1, RecoveredStaysTrue, RestoreStaysTrue, UnrecoveredStaysKept
    <2> QED BY <2>2, <2>3, <2>4 DEF AcceptInv, RecoveryKept
  <1>2. CASE UNCHANGED vars
    <2>1. UNCHANGED <<journal, continuity, binding, public, up, moved, child, engine, sup, mode, planned,
                      intents, captures, orphan, orphansRun, manager, entries, files>>
      BY <1>2 DEF vars, hostVars, evidenceVars, orphanVars, guardianVars
    <2>2. EngineSeen'
      BY <2>1 DEF AcceptInv, EngineSeen, ConvergenceSeen, AcceptanceSeen, RecoveryConverges, ForwardFirst,
                  AcceptSeen, Seen, Converges, Running, Forwarding
    <2>3. AcceptKept'
      BY <2>1 DEF AcceptInv, AcceptKept, AcceptedLive, ChildTrue, ContinuityTrue, AcceptSeen, Seen, Running,
                  Forwarding, TargetLive, Quiet, Idle, ToldContinuity, Checked, TransitionCalled, Going
    <2>4. RecoveryKept'
      BY <2>1 DEF AcceptInv, RecoveryKept, FilesSeen, RecoveredStays, RestoreTrue, UnrecoveredKept,
                  AcceptSeen, Seen, Converges, Running, RestoreScope, SequenceTerminal
    <2> QED BY <2>2, <2>3, <2>4 DEF AcceptInv
  <1> QED BY <1>1, <1>2

\* It holds always.
LEMMA AlwaysAcceptInv == ActivationSpec => []AcceptInv
  BY AlwaysTypeInv, AlwaysTimeInv, AlwaysInstallInv, AcceptInvInit, AcceptInvStep, PTL DEF ActivationSpec

\* It says that an accepted sequence is a live target.
LEMMA AcceptedIsLive == AcceptInv => AcceptedTargetLive
  <1> SUFFICES ASSUME AcceptInv, files.terminal.status = "accepted", Conv \notin intents
               PROVE  /\ public = "target" /\ up
                      /\ moved \/ continuity = "no_transition_required"
                      /\ continuity \in {"no_transition_required", "transition_committed", "reconciled_committed"}
    BY DEF AcceptedTargetLive, Conv
  <1>1. TargetLive
    BY DEF AcceptInv, AcceptKept, AcceptedLive
  <1> QED BY <1>1 DEF TargetLive

\* With the invariant of the installation it says that the index is true.
LEMMA IndexIsTrue == InstallInv /\ AcceptInv => IndexTruthful
  <1> SUFFICES ASSUME InstallInv, AcceptInv, ~orphansRun
               PROVE  /\ files.strategy.status \in {"unmodified", "predecessor_converged"} =>
                             public = "predecessor" /\ up
                      /\ files.strategy.status = "target_accepted" /\ entries = {} => public = "target" /\ up
                      /\ RecoveryWhole
    BY DEF IndexTruthful
  <1>1. FilesSeen /\ RecoveredStays /\ RestoreTrue /\ UnrecoveredKept /\ AcceptKept
    BY DEF AcceptInv, RecoveryKept
  <1>2. ASSUME files.strategy.status = "unmodified" PROVE public = "predecessor" /\ up
    BY <1>2 DEF InstallInv, InstallKnown, NothingInstalled, Installing, HostKept, Untouched
  <1>3. ASSUME files.strategy.status = "predecessor_converged" PROVE public = "predecessor" /\ up
    BY <1>1, <1>3 DEF FilesSeen, RecoveredStays
  <1>4. ASSUME files.strategy.status = "target_accepted", entries = {} PROVE public = "target" /\ up
    <2>1. files.terminal.status = "accepted" /\ AcceptSeen
      BY <1>1, <1>4 DEF FilesSeen, AcceptKept
    <2>2. Conv \notin intents
      BY <1>1, <1>4, <2>1 DEF UnrecoveredKept
    <2> QED BY <1>1, <2>1, <2>2 DEF AcceptKept, AcceptedLive, TargetLive
  <1>5. RecoveryWhole
    <2>1. files.recovery.status = "converged" => Seen(Recov)
      BY <1>1 DEF FilesSeen
    <2> QED BY <1>1, <2>1 DEF RecoveryWhole, FilesSeen, RecoveredStays, RestoreTrue
  <1> QED BY <1>2, <1>3, <1>4, <1>5

\* The terminal a sequence leaves is true of the host: nothing was installed where it
\* says premutation, and where it says accepted the target is live and its trusted
\* time settled until a convergence is called (p08_activation_engine_v1.py:310-393,
\* 512-546).
THEOREM TerminalsAreTruthful == ActivationSpec => []TerminalsTruthful
  <1>1. InstallInv /\ AcceptInv => TerminalsTruthful
    BY NothingLeft, AcceptedIsLive DEF TerminalsTruthful
  <1> QED BY <1>1, AlwaysInstallInv, AlwaysAcceptInv, PTL

\* Without orphans what the strategy index says is what the host is in, and a recovery
\* the guardian forces is never half way
\* (p08_activation_guardian_manager_v1.py:533-608, 1103-1326).
THEOREM IndexIsTruthful == ActivationSpec => []IndexTruthful
  BY AlwaysInstallInv, AlwaysAcceptInv, IndexIsTrue, PTL
================================================================================
