------------------------------- MODULE Activation -------------------------------
(***************************************************************************)
(* The P08 activation as a whole: the supervisor that drives the engine    *)
(* through role children and leaves an intent and a capture of each on     *)
(* disk (p08_activation_supervisor_v1.py), and the guardian manager above  *)
(* it, which owns acceptance and starts at most one recovery per           *)
(* generation (p08_activation_guardian_manager_v1.py).  The service        *)
(* manager starts the guardian at most twice.  Supervisor, child and       *)
(* manager may each die at any step; what is on disk is all a recovery has *)
(***************************************************************************)
EXTENDS ActivationAdapter

CONSTANT OrphanFaults   \* the faults allowed when role children may outlive their supervisor
ASSUME OrphanFaultsAssumption == OrphanFaults \in 0..MaxFaults

VARIABLES
    engine,    \* ActivationEngine in the supervisor's memory
    sup,       \* the supervisor: "off", "planning", "drive", "waiting", "begin",
               \* "replay", "resolve", "ended", "failed"
    mode,      \* run_sequence ("forward"), recover_sequence ("recovery") or the
               \* guardian's ("forced")
    planned,   \* PLAN.json
    intents,   \* the calls with an intent file
    captures,  \* the captures, by call
    failures,  \* the calls with a failure file
    torn,      \* the calls whose intent or capture cannot be read back
    orphan,    \* a role child whose supervisor is gone
    launched,  \* history, read by no step: how often a child of each role was created
    aside,     \* the orphan is the one that runs
    orphansRun, \* whether a role child may outlive its supervisor (never changes)
    manager,   \* the guardian manager
    starts,    \* its generation
    entries,   \* the generations whose recovery child was started
    guarded,   \* the close runs inside run_manager's try block
    files      \* TERMINAL, GUARDIAN.RECOVERY.TERMINAL, DISCHARGE, HARDSTOP and
               \* STRATEGY.LAUNCH.TERMINAL

evidenceVars == <<planned, intents, captures, failures, torn>>
orphanVars == <<orphan, aside, orphansRun, launched>>
guardianVars == <<manager, starts, entries, guarded>>
vars == <<hostVars, child, faults, engine, sup, mode, evidenceVars, orphanVars, guardianVars, files>>

Absent == [kind |-> "absent", status |-> "none", restore |-> "none"]
TornFile == [Absent EXCEPT !.kind = "torn"]
Valid(status) == [Absent EXCEPT !.kind = "valid", !.status = status]

ActivationInit ==
    /\ HostInit
    /\ child = NoChild /\ orphan = NoChild /\ aside = FALSE /\ orphansRun \in BOOLEAN
    /\ launched = [r \in Roles |-> 0]
    /\ faults = IF orphansRun THEN MaxFaults - OrphanFaults ELSE 0
    /\ engine = NewEngine /\ sup = "off" /\ mode = "forward" /\ planned = FALSE
    /\ intents = {} /\ captures = <<>> /\ failures = {} /\ torn = {}
    /\ manager = "off" /\ starts = 0 /\ entries = {} /\ guarded = FALSE
    /\ files = [n \in {"terminal", "recovery", "discharge", "hardstop", "strategy"} |-> Absent]

Fault == faults < MaxFaults /\ faults' = faults + 1
NoFault == UNCHANGED faults
Own == ~aside

--------------------------------------------------------------------------------
(* The supervisor. *)

Role == NextRole(engine)
Key == NextCall(engine)

\* _fail_role_from_durable_evidence
FailedFromEvidence ==
    Failed(engine, Role,
           IF engine.claimed /\ ~engine.product /\ InfrastructureOnly
             THEN "recovery_infrastructure" ELSE "none")

\* After a reconcile during recovery nothing but convergence may follow.
AfterRole(e) ==
    IF mode # "forward" /\ Role = "continuity_reconcile" /\ Running(e) THEN Aborted(e) ELSE e

PreparePlan ==
    /\ Own /\ sup = "planning" /\ NoFault
    /\ planned' = TRUE /\ sup' = "drive" /\ mode' = "forward" /\ engine' = NewEngine
    /\ UNCHANGED <<hostVars, child, intents, captures, failures, torn, orphanVars, guardianVars, files>>

PlanRejected ==
    /\ Own /\ sup = "planning" /\ Fault /\ sup' = "failed"
    /\ UNCHANGED <<hostVars, child, engine, mode, evidenceVars, orphanVars, guardianVars, files>>

\* recover_sequence aborts every other role; that branch is not reached, since
\* Resolve and AfterRole have aborted by then.
MayRun == mode = "forward" \/ Role \in {"continuity_reconcile"} \cup ConvergenceRoles
Driving == Own /\ sup = "drive" /\ Running(engine)

\* _run_one_role up to the creation of the child.
StartRole ==
    /\ Driving /\ MayRun /\ NoFault
    /\ Key \notin intents
    /\ intents' = intents \cup {Key} /\ child' = NewChild(Role) /\ sup' = "waiting"
    /\ launched' = [launched EXCEPT ![Role] = @ + 1]
    /\ UNCHANGED <<hostVars, engine, mode, planned, captures, failures, torn, orphan, aside, orphansRun, guardianVars,
                   files>>

\* The call was made in an earlier life: it is failed, never repeated.
CallConsumed ==
    /\ Driving /\ MayRun /\ NoFault
    /\ Key \in intents
    /\ failures' = failures \cup {Key} /\ engine' = AfterRole(FailedFromEvidence)
    /\ UNCHANGED <<hostVars, child, sup, mode, planned, intents, captures, torn, orphanVars,
                   guardianVars, files>>

\* The invocation is refused, or its intent is not durable.
RoleNotStarted ==
    /\ Driving /\ MayRun /\ Fault
    /\ \E leftover \in SUBSET ({Key} \ intents) :
          intents' = intents \cup leftover /\ torn' = torn \cup leftover
    /\ failures' \in {failures, failures \cup {Key}}
    /\ engine' = AfterRole(FailedFromEvidence)
    /\ UNCHANGED <<hostVars, child, sup, mode, planned, captures, orphanVars, guardianVars, files>>

\* An exception run_sequence does not handle: recover_sequence, once.
Raised == IF mode = "forward" THEN sup' = "begin" /\ mode' = "recovery"
                              ELSE sup' = "failed" /\ mode' = mode

ChildNotCreated ==
    /\ Driving /\ MayRun /\ Fault
    /\ Key \notin intents /\ intents' = intents \cup {Key} /\ Raised
    /\ UNCHANGED <<hostVars, child, engine, planned, captures, failures, torn, orphanVars, guardianVars,
                   files>>

Reported == Own /\ sup = "waiting" /\ child.ends # "no"

TakeCapture ==
    /\ Reported /\ NoFault
    /\ captures' = [k \in DOMAIN captures \cup {Key} |->
                       IF k # Key THEN captures[k]
                       ELSE IF child.ends = "lost" THEN Unseen(child.role) ELSE Result]
    /\ engine' = AfterRole(IF child.ends # "lost" /\ Accepts(engine, Result)
                             THEN Applied(engine, Result) ELSE FailedFromEvidence)
    /\ child' = NoChild /\ sup' = "drive"
    /\ UNCHANGED <<hostVars, mode, planned, intents, failures, torn, orphanVars, guardianVars, files>>

\* The call is forgotten with its capture.
Mutant_CallForgotten ==
    /\ Reported /\ Fault
    /\ intents' = intents \ {Key} /\ torn' = torn
    /\ engine' = AfterRole(FailedFromEvidence) /\ child' = NoChild /\ sup' = "drive"
    /\ UNCHANGED <<hostVars, mode, planned, captures, failures, orphanVars, guardianVars, files>>

CaptureNotPersisted ==
    /\ Reported /\ Fault
    /\ torn' \in {torn, torn \cup {Key}}
    /\ engine' = AfterRole(FailedFromEvidence) /\ child' = NoChild /\ sup' = "drive"
    /\ UNCHANGED <<hostVars, mode, planned, intents, captures, failures, orphanVars, guardianVars, files>>

TerminalName == IF mode = "forced" THEN "recovery" ELSE "terminal"
Finished == Own /\ sup = "drive" /\ ~Running(engine)

WriteTerminal ==
    /\ Finished /\ NoFault /\ files[TerminalName] = Absent
    /\ files' = [files EXCEPT ![TerminalName] = Receipt(engine)] /\ sup' = "ended"
    /\ UNCHANGED <<hostVars, child, engine, mode, evidenceVars, orphanVars, guardianVars>>

TerminalNotPersisted ==
    /\ Finished /\ Fault /\ files[TerminalName] = Absent
    /\ \E left \in {Absent, TornFile} : files' = [files EXCEPT ![TerminalName] = left]
    /\ Raised
    /\ UNCHANGED <<hostVars, child, engine, evidenceVars, orphanVars, guardianVars>>

\* recover_sequence, before the replay.
BeginRecovery ==
    /\ Own /\ sup = "begin" /\ NoFault /\ engine' = NewEngine
    /\ sup' = IF mode = "forced" /\ files.recovery # Absent
                THEN IF files.recovery = TornFile THEN "failed" ELSE "ended"
              ELSE IF mode = "recovery" /\ files.terminal # Absent
                THEN IF files.terminal = TornFile THEN "failed" ELSE "ended"
              ELSE "replay"
    /\ UNCHANGED <<hostVars, child, mode, evidenceVars, orphanVars, guardianVars, files>>

Replaying == Own /\ sup = "replay" /\ Running(engine) /\ NoFault
KeepEvidence == UNCHANGED <<hostVars, child, mode, evidenceVars, orphanVars, guardianVars, files>>

ReplayFailure ==
    /\ Replaying /\ Key \in failures /\ Key \notin intents
    /\ engine' = FailedFromEvidence /\ sup' = sup /\ KeepEvidence

ReplayRejected ==
    /\ Replaying /\ Key \in intents /\ Key \in failures \cup torn
    /\ sup' = "failed" /\ engine' = engine /\ KeepEvidence

\* An intent without a capture: the call is over and nobody knows how.
ReplayInterrupted ==
    /\ Replaying /\ Key \in intents \ (failures \cup torn) /\ Key \notin DOMAIN captures
    /\ engine' = FailedFromEvidence /\ sup' = "resolve" /\ KeepEvidence

ReplayCapture ==
    /\ Replaying /\ Key \in intents \ (failures \cup torn) /\ Key \in DOMAIN captures
    /\ LET r == captures[Key]
       IN engine' = IF r.identity # "unseen" /\ Accepts(engine, r)
                      THEN Applied(engine, r) ELSE FailedFromEvidence
    /\ sup' = sup /\ KeepEvidence

ReplayEnds ==
    /\ Own /\ sup = "replay" /\ NoFault
    /\ Running(engine) => Key \notin intents \cup failures
    /\ sup' = "resolve" /\ engine' = engine /\ KeepEvidence

\* The obligation is bound, an undischarged acceptance reopened, the rest aborted.
Resolve ==
    /\ Own /\ sup = "resolve" /\ NoFault
    /\ LET bound == IF Running(engine) /\ ~engine.product /\ obligation
                      THEN Bound(engine) ELSE engine
           open == IF mode = "forced" /\ bound.status = "accepted" THEN Reopened(bound) ELSE bound
       IN engine' = IF Running(open) THEN Aborted(open) ELSE open
    /\ sup' = "drive" /\ KeepEvidence

\* Killed alone, as at its own deadline; its role child has a session of its own.
SupervisorDies ==
    /\ Own /\ sup \notin {"off", "ended", "failed"} /\ Fault
    /\ sup' = "failed" /\ child' = NoChild
    /\ IF child.ends = "no" THEN orphansRun /\ orphan = NoChild /\ orphan' = child
                            ELSE orphan' = orphan
    /\ UNCHANGED <<hostVars, engine, mode, evidenceVars, aside, orphansRun, launched, guardianVars, files>>

\* The scheduler lets the orphan run, or the rest.
Switch ==
    /\ orphan # NoChild \/ aside
    /\ child' = orphan /\ orphan' = child /\ aside' = ~aside /\ NoFault
    /\ UNCHANGED <<hostVars, engine, sup, mode, evidenceVars, orphansRun, launched, guardianVars, files>>

--------------------------------------------------------------------------------
(* The guardian manager. *)

\* _load_sequence_terminal_optional; a torn recovery terminal raises.
SequenceTerminal ==
    IF files.recovery # Absent THEN files.recovery
    ELSE IF files.terminal.kind = "valid" THEN files.terminal ELSE Absent

Discharged == files.discharge.kind = "valid" /\ SequenceTerminal.status = "accepted"

ProductState(status) ==
    IF status = "accepted" THEN "target_accepted"
    ELSE IF status = "premutation" THEN "unmodified"
    ELSE IF status = "converged" THEN "predecessor_converged"
    ELSE "unknown"

Keep == UNCHANGED <<hostVars, child, engine, mode, evidenceVars, orphanVars>>
\* The service manager restarts the guardian without a limit.
Mutant_LapseUnbounded == manager' = "off"

Lapse == manager' = IF starts < 2 THEN "off" ELSE "over"

ManagerStarts ==
    /\ Own /\ manager = "off" /\ NoFault /\ starts' = starts + 1
    /\ IF Discharged THEN manager' = "index" /\ UNCHANGED <<sup, guarded>>
       ELSE IF starts = 0 THEN manager' = "forward" /\ sup' = "planning" /\ guarded' = TRUE
       ELSE manager' = "close" /\ guarded' = FALSE /\ UNCHANGED sup
    /\ UNCHANGED entries /\ files' = files /\ Keep

SupervisorOver == Own /\ sup \in {"ended", "failed"}

ForwardEnds ==
    /\ manager = "forward" /\ SupervisorOver /\ NoFault
    /\ IF sup = "ended" /\ files.terminal.status = "accepted"
         THEN manager' = "discharge" /\ guarded' = FALSE
         ELSE manager' = "close" /\ guarded' = (sup = "ended")
    /\ sup' = "off" /\ UNCHANGED <<starts, entries, files>> /\ Keep

ForwardCaptureLost ==
    /\ manager = "forward" /\ SupervisorOver /\ Fault
    /\ manager' = "close" /\ guarded' = FALSE /\ sup' = "off"
    /\ UNCHANGED <<starts, entries, files>> /\ Keep

Discharge ==
    /\ Own /\ manager = "discharge" /\ NoFault
    /\ files' = [files EXCEPT !.discharge = Valid("accepted")] /\ manager' = "index"
    /\ UNCHANGED <<sup, starts, entries, guarded>> /\ Keep

\* Every failed close is tried again.
Mutant_CloseRaisesAgain == manager' = "close" /\ guarded' = guarded

\* The close failed: once more if run_manager still catches it, else main's handler.
CloseRaises == IF guarded THEN manager' = "close" /\ guarded' = FALSE
                          ELSE manager' = "look" /\ guarded' = guarded

DischargeFails ==
    /\ Own /\ manager = "discharge" /\ Fault
    /\ \E left \in {Absent, TornFile} : files' = [files EXCEPT !.discharge = left]
    /\ manager' = "close" /\ UNCHANGED <<sup, starts, entries, guarded>> /\ Keep

\* The record the strategy index is about to name.
Indexed == ProductState(IF Discharged THEN "accepted" ELSE files.hardstop.status)

IndexWritten ==
    /\ Own /\ manager \in {"index", "hardstop_index", "look_index"} /\ NoFault
    /\ files.strategy \in {Absent, Valid(Indexed)}
    /\ files' = [files EXCEPT !.strategy = Valid(Indexed)] /\ manager' = "done"
    /\ UNCHANGED <<sup, starts, entries, guarded>> /\ Keep

IndexRaises ==
    IF manager = "index" THEN manager' = "close" /\ guarded' = FALSE
    ELSE IF manager = "hardstop_index" THEN CloseRaises
    ELSE Lapse /\ guarded' = guarded

IndexRefused ==
    /\ Own /\ manager \in {"index", "hardstop_index", "look_index"} /\ NoFault
    /\ files.strategy \notin {Absent, Valid(Indexed)}
    /\ IndexRaises /\ UNCHANGED <<sup, starts, entries, files>> /\ Keep

IndexNotPersisted ==
    /\ Own /\ manager \in {"index", "hardstop_index", "look_index"} /\ Fault
    /\ files.strategy = Absent
    /\ \E left \in {Absent, TornFile} : files' = [files EXCEPT !.strategy = left]
    /\ IndexRaises /\ UNCHANGED <<sup, starts, entries>> /\ Keep

\* A plan without any evidence: no role was ever entered.
PlanOnly == intents = {} /\ failures = {} /\ files.terminal = Absent
Closing == Own /\ manager = "close" /\ NoFault
NeedsRecovery ==
    /\ planned /\ files.recovery # TornFile
    /\ SequenceTerminal.status \in {"none", "accepted"}
    /\ ~(SequenceTerminal = Absent /\ PlanOnly)

CloseSettled ==
    /\ Closing /\ files.recovery # TornFile /\ ~NeedsRecovery
    /\ files' = [files EXCEPT !.recovery = IF planned /\ SequenceTerminal = Absent
                                             THEN Valid("premutation") ELSE @]
    /\ manager' = "hardstop" /\ UNCHANGED <<sup, starts, entries, guarded>> /\ Keep

CloseRecovers ==
    /\ Closing /\ NeedsRecovery /\ starts \notin entries
    /\ entries' = entries \cup {starts} /\ manager' = "recover"
    /\ sup' = "begin" /\ mode' = "forced"
    /\ UNCHANGED <<hostVars, child, engine, evidenceVars, orphanVars, starts, guarded, files>>

CloseRefused ==
    /\ Closing
    /\ \/ files.recovery = TornFile
       \/ NeedsRecovery /\ starts \in entries
    /\ CloseRaises /\ UNCHANGED <<sup, starts, entries, files>> /\ Keep

RecoveryEnds ==
    /\ manager = "recover" /\ SupervisorOver /\ NoFault /\ sup' = "off"
    /\ IF files.recovery.kind = "valid" /\ files.recovery.status # "accepted"
         THEN manager' = "hardstop" /\ guarded' = guarded
         ELSE CloseRaises
    /\ UNCHANGED <<starts, entries, files>> /\ Keep

HardStop == Valid(IF planned THEN SequenceTerminal.status ELSE "premutation")

HardStopWritten ==
    /\ Own /\ manager = "hardstop" /\ NoFault /\ files.hardstop \in {Absent, HardStop}
    /\ files' = [files EXCEPT !.hardstop = HardStop] /\ manager' = "hardstop_index"
    /\ UNCHANGED <<sup, starts, entries, guarded>> /\ Keep

HardStopRefused ==
    /\ Own /\ manager = "hardstop" /\ NoFault /\ files.hardstop \notin {Absent, HardStop}
    /\ CloseRaises /\ UNCHANGED <<sup, starts, entries, files>> /\ Keep

HardStopNotPersisted ==
    /\ Own /\ manager = "hardstop" /\ Fault /\ files.hardstop = Absent
    /\ \E left \in {Absent, TornFile} : files' = [files EXCEPT !.hardstop = left]
    /\ CloseRaises /\ UNCHANGED <<sup, starts, entries>> /\ Keep

\* main's handler looks once more for a durable lifecycle before it gives up.
LastLook ==
    /\ Own /\ manager = "look" /\ NoFault
    /\ IF Discharged \/ files.hardstop = HardStop THEN manager' = "look_index" ELSE Lapse
    /\ UNCHANGED <<sup, starts, entries, guarded, files>> /\ Keep

\* The whole control group is killed with the manager.
ManagerDies ==
    /\ Own /\ manager \notin {"off", "done", "over"} /\ Fault
    /\ Lapse /\ sup' = "off" /\ child' = NoChild /\ orphan' = NoChild
    /\ UNCHANGED <<hostVars, engine, mode, evidenceVars, aside, orphansRun, launched, starts, entries, guarded, files>>

--------------------------------------------------------------------------------

RoleSteps ==
    /\ ChildStep \/ ChildFault
    /\ UNCHANGED <<engine, sup, mode, evidenceVars, orphanVars, guardianVars, files>>

SupervisorSteps ==
    \/ PreparePlan \/ StartRole \/ CallConsumed \/ TakeCapture \/ WriteTerminal
    \/ BeginRecovery \/ ReplayFailure \/ ReplayRejected \/ ReplayInterrupted \/ ReplayCapture
    \/ ReplayEnds \/ Resolve

SupervisorFaults ==
    \/ PlanRejected \/ RoleNotStarted \/ ChildNotCreated \/ CaptureNotPersisted
    \/ TerminalNotPersisted \/ SupervisorDies

ManagerSteps ==
    \/ ManagerStarts \/ ForwardEnds \/ Discharge \/ IndexWritten \/ IndexRefused
    \/ CloseSettled \/ CloseRecovers \/ CloseRefused \/ RecoveryEnds
    \/ HardStopWritten \/ HardStopRefused \/ LastLook

ManagerFaults ==
    \/ ForwardCaptureLost \/ DischargeFails \/ IndexNotPersisted \/ HardStopNotPersisted
    \/ ManagerDies

ActivationNext ==
    RoleSteps \/ SupervisorSteps \/ SupervisorFaults \/ Switch \/ ManagerSteps \/ ManagerFaults

ActivationSpec == ActivationInit /\ [][ActivationNext]_vars

\* Every process that has a step to take takes it; faults are never owed.
Progress ==
    \/ /\ ChildStep
       /\ UNCHANGED <<engine, sup, mode, evidenceVars, orphanVars, guardianVars, files>>
    \/ SupervisorSteps \/ ManagerSteps

FairActivationSpec == ActivationSpec /\ WF_vars(Progress)

--------------------------------------------------------------------------------
(* What the activation guarantees, whatever fails within the bound. *)

\* Every field keeps to the values the records of the code allow, and the
\* service manager never starts a third guardian.
TypeOK ==
    /\ engine.role \in Roles \cup {"none"}
    /\ engine.status \in {"running", "accepted", "premutation", "converged", "convergence_failed"}
    /\ public \in {"predecessor", "mixed", "target"} /\ gate \in {"absent", "building", "armed"}
    /\ child.role \in Roles \cup {"none"} /\ starts \in 0..2 /\ faults \in 0..MaxFaults

ProductEntered == Happened("stop_socket_started")
Settled == manager \in {"done", "over"}

\* A pre-mutation hard stop left nothing behind: no obligation, no product step.
PremutationLeavesNothing ==
    \A n \in {"terminal", "recovery"} :
        files[n].status = "premutation" =>
            ~obligation /\ ~ProductEntered /\ gate = "absent" /\ public = "predecessor" /\ up

\* Until a convergence is started, an accepted sequence is a live target whose
\* trusted time is settled and known to the journal.
AcceptedTargetLive ==
    files.terminal.status = "accepted" /\ <<"converge", 1>> \notin intents =>
        /\ public = "target" /\ up
        /\ moved \/ continuity = "no_transition_required"
        /\ continuity \in {"no_transition_required", "transition_committed", "reconciled_committed"}

\* The terminal a sequence leaves is true of the host, also when a role child
\* outlived its supervisor (p08_activation_engine_v1.py:310-393, 512-546).
TerminalsTruthful == PremutationLeavesNothing /\ AcceptedTargetLive

\* A recovery the guardian forces takes back even an accepted target, and never
\* half way: it accepts nothing, and when it reports convergence the public
\* selection, the units and the trusted time agree with what it reports.
RecoveryWhole ==
    /\ files.recovery.status # "accepted"
    /\ files.recovery.status = "converged" =>
           public = "predecessor" /\ up /\ (moved => files.recovery.restore # "p08_state_and_public")

\* Without orphans, what the strategy index says is what the host is in, and a
\* forced recovery is whole (p08_activation_guardian_manager_v1.py:533-608,
\* 1103-1326): through a late unit action, a refused start, a second generation.
\* An index of an accepted target is relied on only where no recovery was started.
IndexTruthful ==
    ~orphansRun =>
        /\ files.strategy.status \in {"unmodified", "predecessor_converged"} =>
               public = "predecessor" /\ up
        /\ files.strategy.status = "target_accepted" /\ entries = {} =>
               public = "target" /\ up
        /\ RecoveryWhole

\* Without orphans, once the provider committed the forward transition no path --
\* reconcile, lost result, second generation -- restores the old trusted-time
\* history (p08_activation_production_adapter_v1.py:6390-6413).
TimeNeverRewound == [][~orphansRun /\ moved => moved']_vars

\* No role is run again, over all generations, replays and recoveries: whatever is
\* lost, torn or replayed, a child of each role is created at most once, and one of
\* the postflight twice, for the acceptance and for the convergence
\* (p08_activation_supervisor_v1.py:589-622).
RolesRunOnce == \A r \in Roles : launched[r] <= IF r = "postflight" THEN 2 ELSE 1

\* Whatever fails, the guardian ends with a durable terminal or with its two
\* generations used up (p08_activation_guardian_manager_v1.py:1389-1491).
Settles == orphansRun \/ <>Settled
=================================================================================
