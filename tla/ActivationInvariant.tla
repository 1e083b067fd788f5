-------------------------- MODULE ActivationInvariant --------------------------
(***************************************************************************)
(* The inductive invariant of the activation, which Activation_proofs      *)
(* proves: the types of its records (TypeInv), what the engine knows of    *)
(* the calls it has made, what a role child may still have to do and what  *)
(* the journal says of the transition (TimeInv), what an installation      *)
(* leaves on disk before it can touch the host (InstallInv), and what the  *)
(* captures, the engine and the files say of an acceptance and of a        *)
(* recovery (AcceptInv).  Each holds with the ones before it.              *)
(***************************************************************************)
EXTENDS Activation

--------------------------------------------------------------------------------
(* The rows of the engine, of a result and of a child. *)

States == {"no_transition_required", "transition_required", "transition_committed",
           "transition_ambiguous", "reconciled_committed", "reconciled_not_committed"}
Statuses == {"running", "accepted", "premutation", "converged", "convergence_failed"}
ResultScopes == {"none", "product", "recovery_infrastructure"}
Restores == {"none", "infrastructure_only", "code_public_only", "p08_state_and_public"}

EngineRow ==
    [role : Roles \cup {"none"}, status : Statuses, claimed : BOOLEAN, product : BOOLEAN,
     infra : BOOLEAN, scope : {"none", "infrastructure_only"}, transition : States \cup {"none"},
     forward : BOOLEAN, converging : BOOLEAN, calls : [Roles -> Nat]]

ResultRow ==
    [role : Roles \cup {"none"}, ok : BOOLEAN, scope : ResultScopes, state : States \cup {"none"},
     forward : BOOLEAN, restore : Restores,
     identity : {"none", "predecessor", "target", "unseen"}]

\* The roles before the continuity assessment.
EarlyRoles ==
    {"none", "claim", "backup", "stage", "recovery_install", "recovery_arm", "stop_socket",
     "stop_service", "install", "select"} \cup ReadinessRoles

\* What makes the next role of a running engine a role, and the continuity
\* assessment and transition calls that come but once.
EngineSound(e) ==
    /\ e \in EngineRow
    /\ Running(e) /\ ~e.converging /\ e.role \in ContinuityRoles => e.transition \in Outcomes[e.role]
    /\ Running(e) /\ e.role = "postflight" => e.converging
    /\ ~e.converging /\ e.role \in EarlyRoles =>
          e.calls["continuity_assessment"] = 0 /\ e.calls["continuity_transition"] = 0
    /\ ~e.converging /\ e.role = "continuity_assessment" => e.calls["continuity_transition"] = 0

--------------------------------------------------------------------------------
(* The operations of a role child. *)

Started == "continuity_transition_started"
Rejected == "continuity_transition_precommit_rejected"
Events ==
    Roles \cup {"none", Started, Rejected, "stop_socket_started", "convergence_postflight"}

OpNames ==
    {"check", "verify_arm", "next", "rename", "claim", "oblige", "build", "arm", "stop", "start",
     "mix", "select", "assess", "bind", "transition", "refuse", "read_binding", "reconcile",
     "choose", "restore", "restore_opaque", "remove_arm", "remove_gate"}

\* What the child of a role may have to do, and the events it may write.
OwnOps(role) ==
    IF role = "continuity_assessment" THEN {"assess"}
    ELSE IF role = "continuity_transition" THEN {"bind", "transition", "refuse"}
    ELSE IF role = "continuity_reconcile" THEN {"read_binding", "reconcile"}
    ELSE IF role = "converge"
      THEN {"stop", "choose", "mix", "restore", "restore_opaque", "start", "remove_arm", "remove_gate"}
    ELSE {"claim", "oblige", "build", "arm", "stop", "mix", "select", "start"}

OwnEvents(role) ==
    IF role = "continuity_transition" THEN {role, Started, Rejected}
    ELSE IF role = "stop_socket" THEN {role, "stop_socket_started"}
    ELSE IF role = "postflight" THEN {role, "convergence_postflight"}
    ELSE {role}

OpsOf(role) ==
    (({"check", "verify_arm"} \cup OwnOps(role)) \X {"none"})
        \cup ({"next", "rename"} \X OwnEvents(role))

ChildRow ==
    [role : Roles \cup {"none"}, todo : Seq(OpNames \X Events),
     ends : {"none", "no", "success", "rejected", "lost"}, infra : BOOLEAN,
     state : States \cup {"none"}, restore : Restores,
     identity : {"none", "predecessor", "target"}, forward : BOOLEAN, product : BOOLEAN]

ChildSound(c) == c \in ChildRow /\ c.todo \in Seq(OpsOf(c.role))

\* What follows what in the children of the transition and of the reconcile.
Adjacent(s) ==
    \A i \in 2..Len(s) :
        /\ s[i] = Do("transition") => s[i - 1] = Do("bind")
        /\ s[i] = Do("bind") => s[i - 1] = <<"rename", Started>>
        /\ s[i] = <<"next", "continuity_reconcile">> => s[i - 1] = Do("reconcile")
        /\ s[i] = <<"rename", "continuity_reconcile">> =>
              s[i - 1] = <<"next", "continuity_reconcile">>

--------------------------------------------------------------------------------
(* Types: what every record may hold. *)

EngineTyped == EngineSound(engine) /\ (sup = "waiting" => Running(engine))
ChildrenTyped == ChildSound(child) /\ ChildSound(orphan)
HostTyped ==
    /\ journal \in Seq(Events) /\ continuity \in States \cup {"none"}
    /\ nextFile \in BOOLEAN /\ obligation \in BOOLEAN /\ binding \in BOOLEAN
    /\ gate \in {"absent", "building", "armed"} /\ public \in {"predecessor", "mixed", "target"}
    /\ up \in BOOLEAN /\ moved \in BOOLEAN
EvidenceTyped ==
    /\ intents \subseteq Roles \X Nat
    /\ \A k \in DOMAIN captures : captures[k] \in ResultRow
ProcessesTyped ==
    /\ starts \in 0..2 /\ faults \in 0..MaxFaults
    /\ manager = "off" => starts < 2
    /\ orphansRun \in BOOLEAN /\ aside \in BOOLEAN

TypeInv == EngineTyped /\ ChildrenTyped /\ HostTyped /\ EvidenceTyped /\ ProcessesTyped

--------------------------------------------------------------------------------
(* The trusted time: what the supervisor and the journal know of the transition. *)

TransitionCalled == \E call \in intents : call[1] = "continuity_transition"
TransitionChild == "continuity_transition" \in {child.role, orphan.role}

\* The supervisor knows of the transition it has called: as long as the first
\* sequence runs, the engine has counted the call or waits for its result.
TransitionKnown ==
    /\ starts = 0 => manager = "off" /\ sup = "off" /\ intents = {}
    /\ sup = "planning" => ~TransitionCalled
    /\ sup \in {"begin", "replay", "resolve"} => mode # "forward"
    /\ mode = "forward" /\ sup \in {"drive", "waiting"} /\ TransitionCalled =>
          \/ engine.calls["continuity_transition"] > 0
          \/ sup = "waiting" /\ Role = "continuity_transition"
    /\ moved \/ TransitionChild => TransitionCalled

\* No role child outlives its supervisor.
Alone == orphan = NoChild /\ aside = FALSE

\* What the child still has to do agrees with the trusted time: it restores the old
\* one, writes that there was no transition, or makes one only while none was made.
NotAfterCommit(op) ==
    \/ op \in {Do("transition"), Do("restore_opaque")}
    \/ op[2] \in {Rejected, "continuity_assessment"}

Honest(c, m, k) ==
    /\ Adjacent(c.todo)
    /\ \A i \in 1..Len(c.todo) :
          /\ NotAfterCommit(c.todo[i]) => ~m
          /\ c.todo[i][2] = "continuity_transition" =>
                c.state \in {"transition_committed", "transition_ambiguous"}
    /\ c.todo # <<>> =>
          /\ c.todo[1] \in {Do("bind"), Do("transition")} => k = "transition_ambiguous"
          /\ c.todo[1] \in {<<"next", "continuity_reconcile">>, <<"rename", "continuity_reconcile">>} =>
                c.state = "reconciled_committed" \/ (c.state = "reconciled_not_committed" /\ ~m)

TodoHonest == Honest(child, moved, continuity)

\* A committed transition is in the journal, as one that is or may be.
CommitRecorded == moved => ForwardStatePossible

TimeInv == TransitionKnown /\ (~orphansRun => Alone /\ TodoHonest /\ CommitRecorded)

--------------------------------------------------------------------------------
(* The engine: what its fields tell of the calls it has been through. *)

Shallow == ReadinessRoles \cup {"claim", "backup", "stage"}
Rank ==
    [none |-> 0, construct |-> 1, prepare |-> 2, formal1 |-> 3, formal2 |-> 4, exact_two |-> 5,
     drift |-> 6, claim |-> 7, backup |-> 8, stage |-> 9, recovery_install |-> 10]
LateRoles == {"start_service", "start_socket", "accept_status", "postflight"}
FinalStates == {"no_transition_required", "transition_committed", "reconciled_committed"}
Reached(role) == role \notin Shallow \cup {"none"}
Going(e) == e.status \in {"running", "accepted"}

\* Past the claim the engine is claimed; past the recovery installation it knows of
\* what it has to converge.
ScopeKept(e) ==
    /\ e.converging \/ (Going(e) /\ e.role \notin ReadinessRoles \cup {"none"}) => e.claimed
    /\ e.role = "none" => ~e.claimed
    /\ Going(e) /\ ~e.converging /\ Reached(e.role) =>
          IF e.role \in {"recovery_install", "recovery_arm"} THEN e.infra \/ e.product ELSE e.product
    /\ Running(e) /\ e.scope = "infrastructure_only" => e.converging /\ ~e.product

\* It converges from where it must, and has counted no call it has not come to.
CountKept(e) ==
    /\ e.role \in {"converge", "recover"} \/ e.transition = "reconciled_not_committed" => e.converging
    /\ e.status = "accepted" => ~e.converging /\ e.role = "postflight"
    /\ Going(e) /\ e.role \notin {"converge", "recover"} => e.calls["converge"] = 0
    /\ Going(e) /\ e.role # "recover" => e.calls["recover"] = 0
    /\ Running(e) /\ ~e.converging => e.calls["postflight"] = 0
    /\ ~Reached(e.role) =>
          \A s \in Shallow \cup {"recovery_install"} : Rank[s] > Rank[e.role] => e.calls[s] = 0

\* Its transition is the one of the continuity roles it has been through.
TransitionKept(e) ==
    Going(e) /\ ~e.converging =>
        /\ e.role \in EarlyRoles => e.transition = "none"
        /\ e.role \in LateRoles => e.transition \in FinalStates
        /\ e.transition = "no_transition_required" => e.calls["continuity_transition"] = 0

\* It has counted no call that comes later in the forward order, and no second
\* postflight while it goes on.
Place ==
    [recovery_arm |-> 1, stop_socket |-> 2, stop_service |-> 3, install |-> 4, select |-> 5,
     continuity_assessment |-> 6, continuity_transition |-> 7, continuity_reconcile |-> 8,
     start_service |-> 9, start_socket |-> 10, accept_status |-> 11, postflight |-> 12]
PlaceOf(role) == IF role \in DOMAIN Place THEN Place[role] ELSE 0
CalledKept(e) ==
    /\ Going(e) => e.calls["postflight"] <= 1
    /\ Running(e) /\ ~e.converging =>
          \A s \in DOMAIN Place : PlaceOf(s) > PlaceOf(e.role) => e.calls[s] = 0

EngineKept(e) == ScopeKept(e) /\ CountKept(e) /\ TransitionKept(e) /\ CalledKept(e)

--------------------------------------------------------------------------------
(* The evidence and the order of a generation. *)

Install == <<"recovery_install", 1>>
Conv == <<"converge", 1>>
Recov == <<"recover", 1>>
Post == <<"postflight", 1>>
Seen(call) == call \in DOMAIN captures /\ captures[call].ok
Good(call) == call \in intents \ (failures \cup torn) /\ Seen(call)

\* The child of the supervisor, and the first sequence while it goes forward.
OwnChild == IF aside THEN orphan ELSE child
Forwarding == sup = "planning" \/ (mode = "forward" /\ sup \in {"drive", "waiting"})
Fresh == intents = {} /\ failures = {} /\ torn = {}
NoFiles == [n \in {"terminal", "recovery", "discharge", "hardstop", "strategy"} |-> Absent]

\* A capture is that of a call that was made, and true of what the call did.
CapturesKept ==
    \A call \in DOMAIN captures :
       /\ call \in intents /\ captures[call].role = call[1]
       /\ captures[call].ok =>
             /\ captures[call].identity # "unseen"
             /\ call[1] = "recovery_install" => captures[call].scope = "recovery_infrastructure" /\ obligation
             /\ call[1] = "converge" /\ captures[call].restore = "infrastructure_only" =>
                   captures[call].scope # "product"

\* A file is absent, torn, or says something.
FileRow ==
    [kind : {"absent", "torn", "valid"}, restore : Restores,
     status : Statuses \cup {"none", "target_accepted", "unmodified", "predecessor_converged", "unknown"}]
FilesTyped == files \in [{"terminal", "recovery", "discharge", "hardstop", "strategy"} -> FileRow]

\* The order of a generation: what each stage of it finds as it was.
Unstarted ==
    starts = 0 =>
        /\ mode = "forward" /\ child = NoChild /\ Alone /\ files = NoFiles /\ Fresh
        /\ ~planned /\ ~obligation /\ entries = {} /\ manager = "off" /\ sup = "off"
ForwardAlone == Forwarding => Alone /\ files = NoFiles
PlanningFresh == sup = "planning" => mode = "forward" /\ Fresh
ChildOwned == sup # "waiting" => OwnChild = NoChild
ChildAwaited ==
    sup = "waiting" => MayRun /\ Running(engine) /\ Key \in intents \ DOMAIN captures /\ OwnChild.role = Role
ForcedEntered == mode \in {"forward", "recovery"} \/ (mode = "forced" /\ entries # {})
TerminalOpen == sup \in {"replay", "resolve", "drive", "waiting"} => files[TerminalName] = Absent
ManagerAwaits == sup # "off" => manager \in {"forward", "recover"}
PlannedFirst == ~planned => intents = {} /\ sup \in {"off", "planning", "failed"}

OrderKept ==
    /\ Unstarted /\ ForwardAlone /\ PlanningFresh /\ ChildOwned /\ ChildAwaited
    /\ ForcedEntered /\ TerminalOpen /\ ManagerAwaits /\ PlannedFirst /\ FilesTyped

--------------------------------------------------------------------------------
(* What an installation leaves behind before it can touch the host. *)

\* The roles whose child changes neither the selection nor the units.
Meek == Shallow \cup {"recover", "postflight"}
MeekOps == {"check", "verify_arm", "claim", "next", "rename"}
MeekChild(c) == c.role \in Meek => \A i \in 1..Len(c.todo) : c.todo[i][1] \in MeekOps

\* What a child was started with agrees with what it was started for.
ChildKept(c) ==
    /\ MeekChild(c)
    /\ c.ends = "none" => c.role = "none"
    /\ c.identity = "target" => ~c.infra
    /\ c.restore = "infrastructure_only" => c.infra

\* Without the obligation nothing has touched the product, and nothing that could is
\* past its first look.
InstallProgram ==
    <<Check, Do("oblige"), Do("build"), <<"next", "recovery_install">>, <<"rename", "recovery_install">>>>
Harmless(c) ==
    /\ c.role = "recovery_install" /\ c.ends = "success" => obligation
    /\ c.ends = "no" /\ ~obligation =>
          \/ c.role \in Shallow
          \/ c.role = "recovery_install" /\ c.todo \in {InstallProgram, Tail(InstallProgram)}
          \/ /\ c.role \notin {"recovery_install", "recovery_arm"}
             /\ c.todo # <<>> /\ c.todo[1] = Do("verify_arm")
Untouched == gate = "absent" /\ public = "predecessor" /\ up /\ ~ProductEntered
HostKept ==
    /\ ~obligation => Untouched
    /\ Harmless(child) /\ Harmless(orphan) /\ ChildKept(child) /\ ChildKept(orphan)
    /\ Running(engine) /\ ~engine.converging /\ engine.role = "recovery_install" => obligation

\* Whoever may have written the obligation, or may still, is known from the evidence.
Installer == \E c \in {child, orphan} : c.role = "recovery_install" /\ c.ends = "no"
Installing == obligation \/ Installer
Told(r) == r.identity = "unseen" \/ r.scope = "recovery_infrastructure"

InstallCalled ==
    /\ Installing => /\ Install \in intents /\ \A s \in Shallow : Good(<<s, 1>>)
                     /\ Install \in DOMAIN captures => Told(captures[Install])
    /\ "recovery_install" \in {child.role, orphan.role} => Install \in intents \ DOMAIN captures
InstallAhead ==
    Forwarding /\ sup # "planning" /\ Running(engine) /\ ~Reached(engine.role) =>
       /\ failures = {} /\ torn = {}
       /\ \A s \in Shallow : Rank[s] <= Rank[engine.role] => Good(<<s, 1>>)
       /\ Install \in intents => sup = "waiting" /\ Role = "recovery_install"
InstallReplayed ==
    /\ sup = "replay" /\ engine.converging => Reached(engine.role)
    /\ sup = "replay" /\ Reached(engine.role) /\ Installing => obligation
    /\ sup = "resolve" /\ Running(engine) /\ Installing =>
          Reached(engine.role) /\ (obligation \/ engine.infra \/ engine.product)
NothingInstalled ==
    /\ sup \in {"drive", "replay", "resolve"} /\ engine.status = "premutation" => ~Installing
    /\ \A n \in {"terminal", "recovery", "hardstop"} : files[n].status = "premutation" => ~Installing
    /\ files.strategy.status = "unmodified" => ~Installing

InstallKnown == InstallCalled /\ InstallAhead /\ InstallReplayed /\ NothingInstalled
InstallInv == EngineKept(engine) /\ CapturesKept /\ OrderKept /\ HostKept /\ InstallKnown

\* A child of a role was only created for a call with an intent of its own.
Called(call) == IF call \in intents THEN 1 ELSE 0
Calls(r) == Called(<<r, 1>>) + (IF r = "postflight" THEN Called(<<r, 2>>) ELSE 0)
LaunchesKept == launched \in [Roles -> Nat] /\ \A r \in Roles : launched[r] <= Calls(r)

--------------------------------------------------------------------------------
(* The acceptance and the recovery. *)

AcceptSeen == Seen(Post) /\ captures[Post].identity = "target"
Converges(e) == Running(e) /\ e.role \in {"converge", "recover"}

\* What the engine has come to is in the captures.
ConvergenceSeen ==
    /\ Converges(engine) => Seen(Conv)
    /\ (Running(engine) /\ engine.role = "recover") \/ engine.status = "converged" => Seen(Recov)
    /\ Recov \in intents => Conv \in intents
AcceptanceSeen == engine.status = "accepted" => AcceptSeen

\* A recovery only converges, but for the reconcile it may owe.
RecoveryConverges ==
    /\ mode # "forward" /\ sup \in {"drive", "waiting"} /\ Running(engine) =>
          engine.converging \/ engine.role = "continuity_transition"
    /\ mode = "forced" /\ sup = "drive" => engine.status # "accepted"

\* A sequence that goes forward has neither converged nor been accepted.
ForwardFirst ==
    /\ Forwarding /\ Running(engine) /\ ~engine.converging => {Conv, Recov} \cap intents = {}
    /\ Forwarding /\ Running(engine) /\ Conv \notin intents => ~AcceptSeen

EngineSeen == ConvergenceSeen /\ AcceptanceSeen /\ RecoveryConverges /\ ForwardFirst

\* The reconcile, the one role that may follow an acceptance without a convergence, and
\* what it may still do to a live target: nothing.
ReconcileProgram ==
    <<Do("verify_arm"), Do("read_binding"), Do("reconcile"),
      <<"next", "continuity_reconcile">>, <<"rename", "continuity_reconcile">>>>
Quiet(c) ==
    /\ c.role \in {"none", "continuity_reconcile"}
    /\ c.ends = "no" =>
          \/ c.todo \in {ReconcileProgram, Tail(ReconcileProgram)}
          \/ binding /\ c.todo = Tail(Tail(ReconcileProgram))
          \/ /\ binding /\ c.state = "reconciled_committed"
             /\ c.todo \in {Advance("continuity_reconcile"), Tail(Advance("continuity_reconcile")), <<>>}
TargetLive ==
    /\ public = "target" /\ up
    /\ \/ moved /\ continuity \in {"transition_committed", "reconciled_committed"}
       \/ continuity = "no_transition_required" /\ ~binding

\* What a continuity role reports is what it has done and written.
CommittedStates == {"transition_committed", "reconciled_committed"}
ToldContinuity(c) ==
    c.role \in ContinuityRoles /\ c.ends \in {"no", "success"} =>
        /\ c.state \in CommittedStates => moved
        /\ IF c.todo = <<>> THEN continuity = c.state
           ELSE c.todo[Len(c.todo)] \in {<<"rename", c.role>>, Do("transition"), Do("refuse")}

\* A recover or a postflight that has looked has seen what it reports.
Checked(c) ==
    c.ends \in {"no", "success"} /\ (\A i \in 1..Len(c.todo) : c.todo[i] # Check) =>
        /\ c.role = "postflight" /\ c.identity = "target" => public = "target" /\ up
        /\ c.role = "recover" => public = "predecessor" /\ up
Idle(c) == c.ends # "no" => c.todo = <<>>

AcceptedLive == AcceptSeen /\ Conv \notin intents => TargetLive /\ Quiet(child) /\ Quiet(orphan)
ChildTrue ==
    /\ Idle(child) /\ Idle(orphan)
    /\ Forwarding => ToldContinuity(child)
    /\ Forwarding \/ ~orphansRun => Checked(child)
    /\ binding => TransitionCalled
ContinuityTrue ==
    mode = "forward" /\ sup \in {"drive", "waiting"} /\ Going(engine) /\ ~engine.converging =>
       /\ engine.transition = "no_transition_required" =>
             continuity = "no_transition_required" /\ ~binding
       /\ engine.transition \in CommittedStates => continuity = engine.transition /\ moved
AcceptKept ==
    /\ AcceptedLive /\ ChildTrue /\ ContinuityTrue
    /\ files.terminal.status = "accepted" => AcceptSeen

\* What the files of the guardian say follows from the captures.
FilesSeen ==
    /\ files.recovery.status # "accepted" /\ files.hardstop.status # "accepted"
    /\ \A n \in {"terminal", "recovery", "hardstop"} : files[n].status = "converged" => Seen(Recov)
    /\ files.strategy.status = "predecessor_converged" => Seen(Recov)
    /\ files.strategy.status = "target_accepted" => files.terminal.status = "accepted"
    /\ manager = "hardstop" /\ planned => SequenceTerminal.status # "accepted"

\* Without orphans a recovery that has seen the predecessor leaves it as it is, and
\* restores the trusted time only while none was moved.
RecoveredStays ==
    Seen(Recov) => public = "predecessor" /\ up /\ child.role \in {"none", "postflight", "continuity_reconcile"}
RestoreTrue ==
    moved =>
       /\ child.role = "converge" => child.restore # "p08_state_and_public"
       /\ Seen(Conv) => captures[Conv].restore # "p08_state_and_public"
       /\ Converges(engine) \/ engine.status = "converged" => RestoreScope(engine) # "p08_state_and_public"
       /\ files.recovery.status = "converged" => files.recovery.restore # "p08_state_and_public"
UnrecoveredKept ==
    AcceptSeen /\ Conv \in intents /\ entries = {} =>
       /\ mode = "recovery" /\ sup \notin {"planning", "begin", "replay", "resolve"}
       /\ engine.status # "accepted" /\ files.terminal.status # "accepted"
RecoveryKept == FilesSeen /\ (~orphansRun => RecoveredStays /\ RestoreTrue /\ UnrecoveredKept)

AcceptInv == EngineSeen /\ AcceptKept /\ RecoveryKept

================================================================================
