---------------------- MODULE ExternalEpochGateway_proofs ----------------------
(***************************************************************************)
(* The gateway, its worker and the plugin do nothing to the store but its  *)
(* own operations, so what ExternalEpochV3_proofs proves of the store      *)
(* holds of the running system; and only replies that Telegram accepted    *)
(* are committed.                                                          *)
(***************************************************************************)
EXTENDS ExternalEpochGateway, ExternalEpochV3_proofs, FiniteSums

\* The states of process_connection that serve a turn.
Serving == {"begin", "context", "chat", "cancel", "prepare", "outcome", "respond"}

\* A served turn has an event, and no turn was opened at a revision still to come.
GatewayInv ==
    /\ GatewayTypeOK
    /\ gateway.at \in Serving => gateway.event \in Events
    /\ \A p \in pending : p.base <= epoch.max

--------------------------------------------------------------------------------
(* The steps of the system are steps of the store. *)

\* One lemma for the actions that open, prepare or settle a turn.
LEMMA GatewayCallsStore ==
  ASSUME GatewayInv, GatewayNext
  PROVE  [Next]_storeVars
  <1>0. acks \subseteq Ack /\ pending \subseteq PendingRow /\ epoch \in EpochRow
    BY DEF GatewayInv, GatewayTypeOK, TypeOK
  <1>1. CASE TurnBegins
    <2>1. gateway.event \in Events /\ BeginTurn(gateway.event)
      BY <1>1 DEF TurnBegins, GatewayInv, Serving
    <2> QED BY <2>1 DEF Next
  <1>2. CASE TurnCancelled
    <2>1. gateway.token \in pending /\ CancelPending(gateway.token)
      BY <1>2 DEF TurnCancelled, CancelPending, CancelAllowed
    <2> QED BY <2>1 DEF Next
  <1>3. CASE ReplyPrepared
    <2>1. /\ gateway.token \in pending /\ gateway.envelope = gateway.token.base
          /\ PrepareDelivery(gateway.token, gateway.envelope)
      BY <1>3 DEF ReplyPrepared, PrepareDelivery, PrepareAllowed
    <2>2. gateway.token.base \in Nat /\ epoch.max \in Nat /\ gateway.token.base <= epoch.max
      BY <1>0, <2>1 DEF PendingRow, EpochRow, GatewayInv
    <2>3. gateway.envelope \in 0..epoch.max
      BY <2>1, <2>2
    <2> QED BY <2>1, <2>3 DEF Next
  <1>4. CASE OutcomeRejected \/ RespondFails
    <2>1. gateway.event \in Events /\ ResolveCancelled(gateway.event)
      BY <1>4 DEF OutcomeRejected, RespondFails, GatewayInv, Serving
    <2> QED BY <2>1 DEF Next
  <1>5. ASSUME NEW a \in acks, OutcomeResolved(a) PROVE [Next]_storeVars
    <2>1. a.event \in Events
      BY <1>0 DEF Ack
    <2>2. ResolveDelivered(a.event) \/ ResolveCancelled(a.event)
      BY <1>5 DEF OutcomeResolved
    <2> QED BY <2>1, <2>2 DEF Next
  <1>6. CASE UNCHANGED storeVars
    BY <1>6
  <1> QED BY <1>1, <1>2, <1>3, <1>4, <1>5, <1>6
          DEF GatewayNext, ClaimInbound, TurnRefused, LoadContext, CoreChat, ReplyRefused,
              OutcomeRecorded, OutcomeFails, Respond, OutcomeRefused, AckAnswered,
              AckUnanswered

\* One lemma for the worker.
LEMMA WorkerCallsStore ==
  ASSUME WorkerNext
  PROVE  [Next]_storeVars
  <1>1. CASE WorkerAcquires
    <2>1. \/ UNCHANGED storeVars
          \/ \E j \in jobs : AcquireSummaryJob(Worker, j)
      BY <1>1 DEF WorkerAcquires
    <2> QED BY <2>1, WorkerAssumption DEF Next
  <1>2. CASE WorkerCommits
    <2>1. \E j \in jobs : CommitSummaryCandidate(Worker, j)
      BY <1>2 DEF WorkerCommits
    <2> QED BY <2>1, WorkerAssumption DEF Next
  <1>3. CASE WorkerRecordsFailure
    <2>1. \E j \in jobs : RecordSummaryFailure(Worker, j)
      BY <1>3 DEF WorkerRecordsFailure
    <2> QED BY <2>1, WorkerAssumption DEF Next
  <1>4. CASE UNCHANGED storeVars
    BY <1>4
  <1> QED BY <1>1, <1>2, <1>3, <1>4
          DEF WorkerNext, WorkerWakes, WorkerIdles, ProviderSummarizes, WorkerStoreError

\* Every step of the system is a step of the store or leaves it alone.
LEMMA SystemCallsStore == GatewayInv /\ [SystemNext]_vars => [Next]_storeVars
  <1> SUFFICES ASSUME GatewayInv, [SystemNext]_vars PROVE [Next]_storeVars
    OBVIOUS
  <1>1. CASE GatewayNext
    BY <1>1, GatewayCallsStore
  <1>2. CASE WorkerNext
    BY <1>2, WorkerCallsStore
  <1>3. CASE PluginNext
    BY <1>3 DEF PluginNext, PluginGivesUp, TelegramAccepts, TelegramRefuses,
                PacingCancelled, CommitHybridDelivery, AckLost
  <1>4. CASE Crash
    BY <1>4 DEF Crash
  <1>5. CASE Restart
    BY <1>5 DEF Restart, Next
  <1>6. CASE UNCHANGED vars
    BY <1>6 DEF vars
  <1> QED BY <1>1, <1>2, <1>3, <1>4, <1>5, <1>6 DEF SystemNext

--------------------------------------------------------------------------------
(* The invariant of the gateway. *)

\* The store's invariant, step by step.
LEMMA StoreInvStep == StoreInv /\ [Next]_storeVars => StoreInv'
  BY TypeNext, IntentsStep DEF StoreInv

\* Revisions only grow, and a new turn starts from the newest.
LEMMA PendingBoundStep ==
  ASSUME StoreInv, [Next]_storeVars, \A p \in pending : p.base <= epoch.max
  PROVE  \A p \in pending' : p.base <= epoch'.max
  <1>0. epoch \in EpochRow /\ epoch.max \in Nat /\ pending \subseteq PendingRow
    BY DEF StoreInv, TypeInv, TypeOK, EpochRow
  <1>1. ASSUME NEW e \in Events, ResolveDelivered(e) PROVE pending' \subseteq pending
    BY <1>1 DEF ResolveDelivered, Settle
  <1>2. ASSUME NEW e \in Events, BeginTurn(e) PROVE \A p \in pending' : p.base <= epoch'.max
    BY <1>0, <1>2 DEF BeginTurn, BeginAllowed, NextTurn
  <1>3. epoch'.max = epoch.max \/ epoch'.max = epoch.max + 1
    <2>1. ASSUME NEW e \in Events, ResolveDelivered(e) PROVE epoch'.max = epoch.max + 1
      <3>1. PICK row \in TurnRow : TurnCommitted(e, row)
        BY <2>1, DeliveredStep
      <3> QED BY <3>1, CommittedRows
    <2>2. ASSUME NEW w \in Workers, NEW j \in jobs, CommitSummaryCandidate(w, j)
          PROVE  epoch'.max = epoch.max + 1
      <3>1. epoch' = [epoch EXCEPT !.selected = epoch.max + 1, !.max = epoch.max + 1,
                                  !.summary = epoch.summary + 1]
        BY <2>2, SummaryStep DEF StoreInv
      <3> QED BY <1>0, <3>1 DEF EpochRow
    <2> QED BY <2>1, <2>2, OtherSteps
  <1>4. CASE ~ \E e \in Events : BeginTurn(e)
    <2>1. pending' \subseteq pending
      BY <1>1, <1>4 DEF Next, storeVars, CancelPending, PrepareDelivery, ResolveCancelled,
                        Settle, StartupRecover, AcquireSummaryJob, RecordSummaryFailure,
                        CommitSummaryCandidate
    <2>2. ASSUME NEW p \in pending PROVE p.base \in Nat
      BY <1>0 DEF PendingRow
    <2> QED BY <1>0, <1>3, <2>1, <2>2
  <1> QED BY <1>2, <1>4

\* The empty system.
LEMMA GatewayInvInit == GatewayInit => GatewayInv
  <1> SUFFICES ASSUME GatewayInit PROVE GatewayInv
    OBVIOUS
  <1>1. TypeOK
    BY TypeInit DEF GatewayInit, TypeInv
  <1>2. gateway \in Gateway /\ gateway.at = "accept"
    BY DEF GatewayInit, Accepting, Gateway, GatewayAt
  <1>3. pending = {}
    BY DEF GatewayInit, Init
  <1> QED BY <1>1, <1>2, <1>3
          DEF GatewayInit, GatewayInv, GatewayTypeOK, Ack, ChannelAt, WorkerAt, Serving

\* The handler's own variables keep their types, and a turn it serves its event.
LEMMA GatewayTypes ==
  ASSUME GatewayInv, [SystemNext]_vars
  PROVE  gateway' \in Gateway /\ (gateway'.at \in Serving => gateway'.event \in Events)
  <1> DEFINE Good(g) == g \in Gateway /\ (g.at \in Serving => g.event \in Events)
  <1>0. /\ Good(gateway) /\ pending \subseteq PendingRow /\ epoch \in EpochRow
        /\ gateway.envelope \in Nat /\ gateway.event \in Events \cup {NoTurn}
    BY DEF GatewayInv, GatewayTypeOK, TypeOK, Gateway
  <1>1. Good(Accepting) /\ Good(Down)
    BY DEF Accepting, Down, Gateway, GatewayAt, Serving
  <1>2. ASSUME NEW at \in GatewayAt, gateway.at \in Serving, Goto(at) PROVE Good(gateway')
    BY <1>0, <1>2 DEF Goto, Gateway
  <1>3. ASSUME NEW e \in Events, ClaimInbound(e) PROVE Good(gateway')
    BY <1>3 DEF ClaimInbound, Accepting, Gateway, GatewayAt
  <1>4. CASE TurnBegins
    <2>1. NextTurn(gateway.event) \in PendingRow
      BY <1>0, <1>4 DEF TurnBegins, Serving, NextTurn, PendingRow, EpochRow
    <2> QED BY <1>0, <1>4, <2>1 DEF TurnBegins, Gateway, GatewayAt, Serving
  <1>5. ASSUME NEW visual \in BOOLEAN, LoadContext(visual) PROVE Good(gateway')
    <2>1. epoch.selected \in Nat
      BY <1>0 DEF EpochRow
    <2> QED BY <1>0, <1>5, <2>1 DEF LoadContext, Gateway, GatewayAt, Serving
  <1>6. CASE CoreChat
    BY <1>2, <1>6 DEF CoreChat, GatewayAt, Serving
  <1>7. CASE ReplyPrepared \/ OutcomeRecorded
    BY <1>2, <1>7 DEF ReplyPrepared, OutcomeRecorded, GatewayAt, Serving
  <1>8. ASSUME NEW a \in acks, OutcomeResolved(a) PROVE Good(gateway')
    BY <1>8 DEF OutcomeResolved, Accepting, Gateway, GatewayAt, Serving
  <1>9. CASE gateway' \in {gateway, Accepting, Down}
    BY <1>0, <1>1, <1>9
  <1>10. CASE GatewayNext
    BY <1>3, <1>4, <1>5, <1>6, <1>7, <1>8, <1>9, <1>10
       DEF GatewayNext, TurnRefused, TurnCancelled, ReplyRefused, OutcomeRejected,
           OutcomeFails, Respond, RespondFails, OutcomeRefused, AckAnswered, AckUnanswered
  <1>11. CASE PluginNext
    BY <1>9, <1>11 DEF PluginNext, PluginGivesUp, TelegramAccepts, TelegramRefuses,
                       PacingCancelled, CommitHybridDelivery, AckLost
  <1>12. CASE WorkerNext
    BY <1>9, <1>12 DEF WorkerNext, WorkerWakes, WorkerAcquires, WorkerIdles,
                       ProviderSummarizes, WorkerCommits, WorkerRecordsFailure,
                       WorkerStoreError
  <1>13. CASE Crash \/ Restart \/ UNCHANGED vars
    BY <1>9, <1>13 DEF Crash, Restart, vars, gatewayVars
  <1> QED BY <1>10, <1>11, <1>12, <1>13 DEF SystemNext

\* The plugin's variables and the claims keep their types.
LEMMA PluginTypes ==
  ASSUME GatewayInv, [SystemNext]_vars
  PROVE  /\ claimed' \subseteq Events /\ channel' \in [Events -> ChannelAt]
         /\ acks' \subseteq Ack /\ shown' \subseteq Events
  <1>0. /\ claimed \subseteq Events /\ channel \in [Events -> ChannelAt]
        /\ acks \subseteq Ack /\ shown \subseteq Events
        /\ gateway.at \in Serving => gateway.event \in Events
    BY DEF GatewayInv, GatewayTypeOK
  <1>1. CASE GatewayNext
    BY <1>0, <1>1 DEF GatewayNext, ClaimInbound, TurnBegins, TurnRefused, LoadContext,
       CoreChat, TurnCancelled, ReplyPrepared, ReplyRefused, OutcomeRecorded,
       OutcomeRejected, OutcomeFails, Respond, RespondFails, OutcomeResolved,
       OutcomeRefused, AckAnswered, AckUnanswered, Dismissed, ChannelAt, pluginVars
  <1>2. CASE PluginNext
    BY <1>0, <1>2 DEF PluginNext, PluginGivesUp, TelegramAccepts, TelegramRefuses,
       PacingCancelled, CommitHybridDelivery, AckLost, Moves, ChannelAt, Ack
  <1>3. CASE WorkerNext
    BY <1>0, <1>3 DEF WorkerNext, WorkerWakes, WorkerAcquires, WorkerIdles,
       ProviderSummarizes, WorkerCommits, WorkerRecordsFailure, WorkerStoreError, pluginVars
  <1>4. CASE Crash
    BY <1>0, <1>4 DEF Crash, ChannelAt
  <1>5. CASE Restart \/ UNCHANGED vars
    BY <1>0, <1>5 DEF Restart, vars, gatewayVars, pluginVars
  <1> QED BY <1>1, <1>2, <1>3, <1>4, <1>5 DEF SystemNext

\* The worker's variables keep their types.
LEMMA WorkerTypes ==
  ASSUME GatewayInv, [SystemNext]_vars
  PROVE  /\ worker' \in [at: WorkerAt, version: Nat]
         /\ wake' \in BOOLEAN /\ retryDue' \in BOOLEAN
  <1>0. /\ worker \in [at: WorkerAt, version: Nat] /\ jobs \subseteq JobRow
        /\ wake \in BOOLEAN /\ retryDue \in BOOLEAN /\ gateway.queued \in BOOLEAN
    BY DEF GatewayInv, GatewayTypeOK, TypeOK, Gateway
  <1>1. CASE GatewayNext
    BY <1>0, <1>1 DEF GatewayNext, ClaimInbound, TurnBegins, TurnRefused, LoadContext,
       CoreChat, TurnCancelled, ReplyPrepared, ReplyRefused, OutcomeRecorded,
       OutcomeRejected, OutcomeFails, Respond, RespondFails, OutcomeResolved,
       OutcomeRefused, AckAnswered, AckUnanswered, workerVars
  <1>2. CASE PluginNext
    BY <1>0, <1>2 DEF PluginNext, PluginGivesUp, TelegramAccepts, TelegramRefuses,
       PacingCancelled, CommitHybridDelivery, AckLost, workerVars
  <1>3. CASE WorkerNext
    <2>1. worker' \in [at: WorkerAt, version: Nat]
      <3>1. ASSUME NEW j \in jobs PROVE j.version \in Nat
        BY <1>0 DEF JobRow
      <3> QED BY <1>0, <1>3, <3>1 DEF WorkerNext, WorkerWakes, WorkerAcquires,
         WorkerIdles, ProviderSummarizes, WorkerCommits, WorkerRecordsFailure,
         WorkerStoreError, Rests, WorkerAt
    <2>2. wake' \in BOOLEAN
      BY <1>0, <1>3 DEF WorkerNext, WorkerWakes, WorkerAcquires, WorkerIdles,
         ProviderSummarizes, WorkerCommits, WorkerRecordsFailure, WorkerStoreError
    <2>3. retryDue' \in BOOLEAN
      <3>1. CASE WorkerRecordsFailure
        <4>1. PICK j \in jobs : retryDue' = (j.attempts < MaxAttempts)
          BY <3>1, Zenon DEF WorkerRecordsFailure, Rests
        <4>2. (j.attempts < MaxAttempts) \in BOOLEAN
          OBVIOUS
        <4> QED BY <4>1, <4>2, Zenon
      <3>2. CASE ~ WorkerRecordsFailure
        BY <1>0, <1>3, <3>2, Zenon DEF WorkerNext, WorkerWakes, WorkerAcquires,
           WorkerIdles, ProviderSummarizes, WorkerCommits, WorkerStoreError, Rests
      <3> QED BY <3>1, <3>2
    <2> QED BY <2>1, <2>2, <2>3
  <1>4. CASE Crash \/ Restart \/ UNCHANGED vars
    <2>1. worker' \in [at: WorkerAt, version: Nat]
      BY <1>0, <1>4 DEF Crash, Restart, vars, gatewayVars, WorkerAt
    <2>2. wake' \in BOOLEAN /\ retryDue' \in BOOLEAN
      BY <1>0, <1>4, Zenon DEF Crash, Restart, vars, gatewayVars
    <2> QED BY <2>1, <2>2
  <1> QED BY <1>1, <1>2, <1>3, <1>4 DEF SystemNext

\* Both invariants, over one step of the system.
SystemInv == StoreInv /\ GatewayInv

\* Every step keeps the invariant of the system.
LEMMA SystemInvStep == SystemInv /\ [SystemNext]_vars => SystemInv'
  <1> SUFFICES ASSUME SystemInv, [SystemNext]_vars PROVE SystemInv'
    OBVIOUS
  <1>1. StoreInv /\ GatewayInv /\ [Next]_storeVars
    BY SystemCallsStore DEF SystemInv
  <1>2. StoreInv'
    BY <1>1, StoreInvStep
  <1>3. \A p \in pending' : p.base <= epoch'.max
    BY <1>1, PendingBoundStep DEF GatewayInv
  <1>4. GatewayTypeOK'
    BY <1>1, <1>2, GatewayTypes, PluginTypes, WorkerTypes
       DEF StoreInv, TypeInv, GatewayTypeOK
  <1> QED BY <1>1, <1>2, <1>3, <1>4, GatewayTypes DEF SystemInv, GatewayInv

\* The initial states of the system are initial states of the store.
LEMMA SystemInvInit == GatewayInit => SystemInv
  BY GatewayInvInit, TypeInit DEF GatewayInit, Init, SystemInv, StoreInv, IntentsBound

\* Every reachable state of the system is well typed.
THEOREM SystemInvariant == SystemSpec => []SystemInv
  BY SystemInvInit, SystemInvStep, PTL DEF SystemSpec

\* The type invariant the runs check.
THEOREM SystemTypes == SystemSpec => []GatewayTypeOK
  <1>1. SystemInv => GatewayTypeOK
    BY DEF SystemInv, GatewayInv
  <1> QED BY <1>1, SystemInvariant, PTL

\* The store cannot tell the gateway, the worker, crashes and restarts from a
\* client that calls its operations one at a time.
THEOREM SystemImplementsStore == SystemSpec => Spec
  <1>1. GatewayInit => Init
    BY DEF GatewayInit
  <1>2. SystemInv /\ [SystemNext]_vars => [Next]_storeVars
    BY SystemCallsStore DEF SystemInv
  <1> QED BY <1>1, <1>2, SystemInvariant, PTL DEF SystemSpec, Spec

\* Hence the running system delivers exactly once, and keeps its history.
THEOREM SystemDeliversExactlyOnce == SystemSpec => []ExactlyOnce
  BY SystemImplementsStore, DeliveredExactlyOnce, PTL

\* The running system is a ledger.
THEOREM SystemImplementsLedger == SystemSpec => LedgerSpec
  BY SystemImplementsStore, StoreImplementsLedger, PTL

--------------------------------------------------------------------------------
(* Only shown replies are committed. *)

\* The plugin reports a delivery only of a reply Telegram accepted, whether the
\* report is still to be made, on its way, or committed.
ReportsTrue ==
    /\ \A e \in Events : channel[e] = "shown" => e \in shown
    /\ \A a \in acks : a.outcome = "delivered" => a.event \in shown
    /\ CommittedWereShown

\* Nothing has been reported at the start.
LEMMA ReportsInit == GatewayInit => ReportsTrue
  BY DEF GatewayInit, Init, ReportsTrue, CommittedWereShown

\* What is shown stays shown, and the plugin's report precedes the commit.
LEMMA ReportsStep == SystemInv /\ ReportsTrue /\ [SystemNext]_vars => ReportsTrue'
  <1> SUFFICES ASSUME SystemInv, ReportsTrue, [SystemNext]_vars PROVE ReportsTrue'
    OBVIOUS
  <1>0. /\ turns \in Seq(TurnRow) /\ Len(turns) \in Nat
        /\ channel \in [Events -> ChannelAt] /\ acks \subseteq Ack
        /\ gateway.at \in Serving => gateway.event \in Events
        /\ [Next]_storeVars
    BY SystemCallsStore DEF SystemInv, GatewayInv, GatewayTypeOK, TypeOK
  <1>1. shown \subseteq shown'
    BY DEF SystemNext, GatewayNext, ClaimInbound, TurnBegins, TurnRefused, LoadContext,
       CoreChat, TurnCancelled, ReplyPrepared, ReplyRefused, OutcomeRecorded,
       OutcomeRejected, OutcomeFails, Respond, RespondFails, OutcomeResolved,
       OutcomeRefused, AckAnswered, AckUnanswered, PluginNext, PluginGivesUp,
       TelegramAccepts, TelegramRefuses, PacingCancelled, CommitHybridDelivery, AckLost,
       WorkerNext, WorkerWakes, WorkerAcquires, WorkerIdles, ProviderSummarizes,
       WorkerCommits, WorkerRecordsFailure, WorkerStoreError, Crash, Restart, vars,
       gatewayVars, pluginVars
  <1>2. \A e \in Events : channel'[e] = "shown" => e \in shown'
    <2>1. ASSUME NEW e \in Events, TelegramAccepts(e)
          PROVE  \A f \in Events : channel'[f] = "shown" => f \in shown'
      BY <1>0, <2>1 DEF TelegramAccepts, Moves, ReportsTrue
    <2>2. CASE \A e \in Events : ~ TelegramAccepts(e)
      <3>1. ASSUME NEW f \in Events, channel'[f] = "shown" PROVE channel[f] = "shown"
        <4>1. CASE GatewayNext
          BY <1>0, <3>1, <4>1 DEF GatewayNext, ClaimInbound, TurnBegins, TurnRefused,
             LoadContext, CoreChat, TurnCancelled, ReplyPrepared, ReplyRefused,
             OutcomeRecorded, OutcomeRejected, OutcomeFails, Respond, RespondFails,
             OutcomeResolved, OutcomeRefused, AckAnswered, AckUnanswered, Dismissed,
             pluginVars
        <4>2. CASE PluginNext
          BY <1>0, <2>2, <3>1, <4>2 DEF PluginNext, PluginGivesUp, TelegramRefuses,
             PacingCancelled, CommitHybridDelivery, AckLost, Moves
        <4>3. CASE WorkerNext
          BY <3>1, <4>3 DEF WorkerNext, WorkerWakes, WorkerAcquires, WorkerIdles,
             ProviderSummarizes, WorkerCommits, WorkerRecordsFailure, WorkerStoreError,
             pluginVars
        <4>4. CASE Crash
          BY <1>0, <3>1, <4>4 DEF Crash
        <4>5. CASE Restart \/ UNCHANGED vars
          BY <3>1, <4>5 DEF Restart, vars, gatewayVars, pluginVars
        <4> QED BY <4>1, <4>2, <4>3, <4>4, <4>5 DEF SystemNext
      <3> QED BY <1>1, <3>1 DEF ReportsTrue
    <2> QED BY <2>1, <2>2
  <1>3. \A a \in acks' : a.outcome = "delivered" => a.event \in shown'
    <2>1. ASSUME NEW e \in Events, CommitHybridDelivery(e)
          PROVE  \A a \in acks' : a.outcome = "delivered" => a.event \in shown'
      <3>1. e \in shown /\ acks' = acks \cup {[event |-> e, outcome |-> "delivered"]}
        BY <2>1 DEF CommitHybridDelivery, Moves, ReportsTrue
      <3> QED BY <1>1, <3>1 DEF ReportsTrue
    <2>2. ASSUME NEW e \in Events, PacingCancelled(e)
          PROVE  \A a \in acks' : a.outcome = "delivered" => a.event \in shown'
      BY <1>1, <2>2 DEF PacingCancelled, ReportsTrue
    <2>3. CASE \A e \in Events : ~ CommitHybridDelivery(e) /\ ~ PacingCancelled(e)
      <3>1. acks' \subseteq acks
        BY <2>3 DEF SystemNext, GatewayNext, ClaimInbound, TurnBegins, TurnRefused,
           LoadContext, CoreChat, TurnCancelled, ReplyPrepared, ReplyRefused,
           OutcomeRecorded, OutcomeRejected, OutcomeFails, Respond, RespondFails,
           OutcomeResolved, OutcomeRefused, AckAnswered, AckUnanswered, PluginNext,
           PluginGivesUp, TelegramAccepts, TelegramRefuses, AckLost, WorkerNext,
           WorkerWakes, WorkerAcquires, WorkerIdles, ProviderSummarizes, WorkerCommits,
           WorkerRecordsFailure, WorkerStoreError, Crash, Restart, vars, gatewayVars,
           pluginVars
      <3> QED BY <1>1, <3>1 DEF ReportsTrue
    <2> QED BY <2>1, <2>2, <2>3
  <1>4. CommittedWereShown'
    <2>1. ASSUME NEW a \in acks, OutcomeResolved(a), a.outcome = "delivered",
                 ResolveDelivered(a.event)
          PROVE  CommittedWereShown'
      <3>1. a.event \in Events /\ a.event \in shown
        BY <1>0, <2>1 DEF Ack, ReportsTrue
      <3>2. PICK row \in TurnRow : TurnCommitted(a.event, row)
        BY <2>1, <3>1, DeliveredStep DEF SystemInv
      <3>3. /\ Len(turns') = Len(turns) + 1
            /\ turns'[Len(turns) + 1].event \in shown
            /\ \A k \in 1..Len(turns) : turns'[k] = turns[k]
        BY <3>1, <3>2, CommittedRows DEF SystemInv, TurnCommitted
      <3>4. \A k \in 1..Len(turns) : turns'[k].event \in shown
        BY <3>3 DEF ReportsTrue, CommittedWereShown
      <3> QED BY <1>0, <1>1, <3>3, <3>4 DEF CommittedWereShown
    <2>2. CASE ~ \E a \in acks : /\ OutcomeResolved(a) /\ a.outcome = "delivered"
                                /\ ResolveDelivered(a.event)
      <3>1. turns' = turns
        <4>1. CASE GatewayNext
          BY <2>2, <4>1 DEF GatewayNext, ClaimInbound, TurnBegins, TurnRefused,
             LoadContext, CoreChat, TurnCancelled, ReplyPrepared, ReplyRefused,
             OutcomeRecorded, OutcomeRejected, OutcomeFails, Respond, RespondFails,
             OutcomeResolved, OutcomeRefused, AckAnswered, AckUnanswered, BeginTurn,
             CancelPending, PrepareDelivery, ResolveCancelled, storeVars
        <4>2. CASE PluginNext
          BY <4>2 DEF PluginNext, PluginGivesUp, TelegramAccepts, TelegramRefuses,
             PacingCancelled, CommitHybridDelivery, AckLost, storeVars
        <4>3. CASE WorkerNext
          BY <4>3 DEF WorkerNext, WorkerWakes, WorkerAcquires, WorkerIdles,
             ProviderSummarizes, WorkerCommits, WorkerRecordsFailure, WorkerStoreError,
             AcquireSummaryJob, RecordSummaryFailure, CommitSummaryCandidate, storeVars
        <4>4. CASE Crash \/ Restart \/ UNCHANGED vars
          BY <4>4 DEF Crash, Restart, StartupRecover, vars, storeVars
        <4> QED BY <4>1, <4>2, <4>3, <4>4 DEF SystemNext
      <3> QED BY <1>1, <3>1 DEF ReportsTrue, CommittedWereShown
    <2> QED BY <2>1, <2>2
  <1> QED BY <1>2, <1>3, <1>4 DEF ReportsTrue

\* A turn is committed only if Telegram accepted its reply.
THEOREM OnlyShownRepliesAreCommitted == SystemSpec => []CommittedWereShown
  <1>1. ReportsTrue => CommittedWereShown
    BY DEF ReportsTrue
  <1> QED BY <1>1, ReportsInit, ReportsStep, SystemInvariant, PTL DEF SystemSpec

--------------------------------------------------------------------------------
(* What the store's theorems say of the system. *)

\* Everything that is used of the store in what follows.
StoreFacts == SystemInv /\ TurnInv /\ JobsInv

\* The store's invariants hold of the running system.
LEMMA StoreFactsHold == SystemSpec => []StoreFacts
  <1>1. Spec => []TurnInv
    BY TurnInit, TurnStep, StoreInvariant, PTL DEF Spec
  <1>2. Spec => []JobsInv
    BY JobsInit, JobsStep, StoreInvariant, PTL DEF Spec
  <1>3. SystemInv /\ TurnInv /\ JobsInv => StoreFacts
    BY DEF StoreFacts
  <1> QED BY <1>1, <1>2, <1>3, SystemImplementsStore, SystemInvariant, PTL

\* The worker touches neither the turns nor what the gateway and the plugin hold.
LEMMA WorkerFrame ==
  WorkerNext => UNCHANGED <<claimed, gateway, channel, acks, shown,
                            turns, pending, intents, receipts>>
  BY DEF WorkerNext, WorkerWakes, WorkerAcquires, WorkerIdles, ProviderSummarizes,
     WorkerCommits, WorkerRecordsFailure, WorkerStoreError, AcquireSummaryJob,
     RecordSummaryFailure, CommitSummaryCandidate, pluginVars, storeVars

\* The plugin touches only its own variables.
LEMMA PluginFrame == PluginNext => UNCHANGED <<storeVars, claimed, gateway, workerVars>>
  BY DEF PluginNext, PluginGivesUp, TelegramAccepts, TelegramRefuses, PacingCancelled,
     CommitHybridDelivery, AckLost

--------------------------------------------------------------------------------
(* A turn on its way: claimed once, open while it is served, withheld for good. *)

\* An event leaves its first traces when it is claimed, and the gateway settles
\* neither the turn it serves nor a prepared one before its time.
ClaimedFirst ==
    /\ \A e \in Events \ claimed : channel[e] = "none" /\ receipts[e] = NoReceipt
    /\ \A i \in intents : i.event \in claimed /\ receipts[i.event] = NoReceipt
    /\ \A a \in acks : channel[a.event] = "closed"
    /\ gateway.at \in Serving =>
          /\ gateway.event \in claimed
          /\ receipts[gateway.event] = NoReceipt
          /\ channel[gateway.event] \in {"waiting", "closed"}

\* A cancelled event is over in the plugin too, and what may still be cancelled
\* has not been shown.
WithheldHidden ==
    /\ \A e \in Events : channel[e] \in {"none", "waiting", "replied"} => e \notin shown
    /\ \A e \in Events : receipts[e].outcome = "cancelled" =>
                            channel[e] = "closed" /\ e \notin shown
    /\ \A a \in acks : a.outcome = "cancelled" => a.event \notin shown
    /\ gateway.at \in Serving => gateway.event \notin shown

\* The turn being served is the open one, with its intent once it is prepared.
ServedOpen ==
    /\ gateway.at \in {"context", "chat", "cancel", "prepare"} =>
          gateway.token.event = gateway.event /\ CancelAllowed(gateway.token)
    /\ gateway.at \in {"outcome", "respond"} => \E i \in intents : i.event = gateway.event

TraceInv == ClaimedFirst /\ WithheldHidden /\ ServedOpen

\* Nothing is on its way at the start.
LEMMA TraceInit == GatewayInit => TraceInv
  BY DEF GatewayInit, Init, TraceInv, ClaimedFirst, WithheldHidden, ServedOpen, Accepting,
         Serving, NoReceipt

\* The steps that change nothing of a turn but where the handler is.
LEMMA TraceMoves ==
  ASSUME TraceInv, UNCHANGED <<claimed, acks, shown, pending, intents, receipts>>,
         gateway'.at \in {"down", "accept", "acked"},
         \A e \in Events : channel'[e] = channel[e] \/ (e \in claimed /\ channel'[e] = "closed"),
         acks \subseteq Ack
  PROVE  TraceInv'
  <1>1. ClaimedFirst'
    BY DEF TraceInv, ClaimedFirst, Serving, Ack
  <1>2. WithheldHidden'
    BY DEF TraceInv, WithheldHidden, Serving, Ack
  <1> QED BY <1>1, <1>2 DEF TraceInv, ServedOpen

\* The steps of process_connection while a turn is served.
LEMMA TraceServes ==
  ASSUME StoreFacts, TraceInv, GatewayNext, gateway.at \in Serving
  PROVE  TraceInv'
  <1>0. /\ channel \in [Events -> ChannelAt] /\ acks \subseteq Ack
        /\ receipts \in [Events -> ReceiptRow] /\ gateway.event \in Events
        /\ gateway \in Gateway /\ gateway.event \in claimed
    BY DEF StoreFacts, SystemInv, GatewayInv, GatewayTypeOK, TypeOK, TraceInv, ClaimedFirst
  <1>1. CASE TurnBegins
    <2>1. /\ pending = {} /\ intents = {} /\ pending' = {NextTurn(gateway.event)}
          /\ UNCHANGED <<claimed, channel, acks, shown, intents, receipts>>
          /\ gateway' = [gateway EXCEPT !.at = "context", !.token = NextTurn(gateway.event)]
      BY <1>1 DEF TurnBegins, BeginTurn, BeginAllowed, pluginVars
    <2>2. PICK token : token = NextTurn(gateway.event)
      OBVIOUS
    <2>3. token.event = gateway.event
      BY <2>2 DEF NextTurn
    <2>4. gateway'.at = "context" /\ gateway'.event = gateway.event /\ gateway'.token = token
      BY <1>0, <2>1, <2>2 DEF Gateway
    <2>5. ServedOpen'
      BY <2>1, <2>2, <2>3, <2>4 DEF ServedOpen, CancelAllowed
    <2>6. ClaimedFirst' /\ WithheldHidden'
      BY <1>0, <2>1, <2>4 DEF TraceInv, ClaimedFirst, WithheldHidden, Serving
    <2> QED BY <2>5, <2>6 DEF TraceInv
  <1>2. ASSUME NEW visual \in BOOLEAN, LoadContext(visual) PROVE TraceInv'
    <2>1. /\ gateway'.at \in {"chat", "cancel"} /\ gateway.at = "context"
          /\ gateway'.event = gateway.event /\ gateway'.token = gateway.token
          /\ UNCHANGED <<claimed, channel, acks, shown, pending, intents, receipts>>
      BY <1>0, <1>2 DEF LoadContext, Gateway, pluginVars, storeVars
    <2>2. ServedOpen'
      BY <2>1 DEF TraceInv, ServedOpen, CancelAllowed
    <2> QED BY <2>1, <2>2 DEF TraceInv, ClaimedFirst, WithheldHidden, Serving
  <1>3. CASE CoreChat
    <2>1. /\ gateway'.at \in {"prepare", "cancel"} /\ gateway.at = "chat"
          /\ gateway'.event = gateway.event /\ gateway'.token = gateway.token
          /\ UNCHANGED <<claimed, channel, acks, shown, pending, intents, receipts>>
      BY <1>0, <1>3 DEF CoreChat, Goto, Gateway, pluginVars, storeVars
    <2>2. ServedOpen'
      BY <2>1 DEF TraceInv, ServedOpen, CancelAllowed
    <2> QED BY <2>1, <2>2 DEF TraceInv, ClaimedFirst, WithheldHidden, Serving
  <1>4. CASE ReplyPrepared
    <2>1. /\ gateway'.at = "outcome" /\ gateway.at = "prepare"
          /\ gateway'.event = gateway.event
          /\ UNCHANGED <<claimed, channel, acks, shown, pending, receipts>>
      BY <1>0, <1>4 DEF ReplyPrepared, PrepareDelivery, Goto, Gateway, pluginVars
    <2>2. PICK i : i = IntentOf(gateway.token, gateway.envelope)
      OBVIOUS
    <2>3. intents' = intents \cup {i} /\ i.event = gateway.event
      BY <1>4, <2>1, <2>2 DEF ReplyPrepared, PrepareDelivery, IntentOf, TraceInv, ServedOpen
    <2>4. ServedOpen'
      BY <2>1, <2>3 DEF ServedOpen
    <2>5. ClaimedFirst'
      BY <2>1, <2>3 DEF TraceInv, ClaimedFirst, Serving
    <2> QED BY <2>1, <2>4, <2>5 DEF TraceInv, WithheldHidden, Serving
  <1>5. CASE OutcomeRecorded
    <2>1. /\ gateway'.at = "respond" /\ gateway.at = "outcome"
          /\ gateway'.event = gateway.event
          /\ UNCHANGED <<claimed, channel, acks, shown, pending, intents, receipts>>
      BY <1>0, <1>5 DEF OutcomeRecorded, Goto, Gateway, pluginVars, storeVars
    <2> QED BY <2>1 DEF TraceInv, ClaimedFirst, WithheldHidden, ServedOpen, Serving
  <1>6. CASE TurnRefused \/ ReplyRefused \/ OutcomeFails
    <2>1. /\ gateway'.at = "accept"
          /\ channel' = [channel EXCEPT ![gateway.event] = "closed"]
          /\ UNCHANGED <<claimed, acks, shown, pending, intents, receipts>>
      BY <1>6 DEF TurnRefused, ReplyRefused, OutcomeFails, Dismissed, Accepting, storeVars
    <2> QED BY <1>0, <2>1, TraceMoves
  <1>7. CASE TurnCancelled
    <2>1. /\ gateway'.at = "accept"
          /\ channel' = [channel EXCEPT ![gateway.event] = "closed"]
          /\ UNCHANGED <<claimed, acks, shown, intents, receipts>>
      BY <1>7 DEF TurnCancelled, CancelPending, Dismissed, Accepting
    <2>2. ClaimedFirst' /\ WithheldHidden'
      BY <1>0, <2>1 DEF TraceInv, ClaimedFirst, WithheldHidden, Serving, Ack
    <2> QED BY <2>1, <2>2 DEF TraceInv, ServedOpen
  <1>8. CASE OutcomeRejected \/ RespondFails
    <2>1. /\ gateway'.at = "accept"
          /\ channel'[gateway.event] = "closed"
          /\ \A e \in Events \ {gateway.event} : channel'[e] = channel[e]
          /\ UNCHANGED <<claimed, acks, shown>>
          /\ intents' = {i \in intents : i.event # gateway.event}
          /\ receipts' = [receipts EXCEPT ![gateway.event] =
                            [outcome |-> "cancelled", revision |-> 0]]
      BY <1>0, <1>8 DEF OutcomeRejected, RespondFails, ResolveCancelled, Settle, Dismissed,
                        Accepting, pluginVars
    <2>2. ClaimedFirst'
      BY <1>0, <2>1 DEF TraceInv, ClaimedFirst, Serving, Ack
    <2>3. WithheldHidden'
      BY <1>0, <2>1 DEF TraceInv, WithheldHidden, Serving, Ack
    <2> QED BY <2>1, <2>2, <2>3 DEF TraceInv, ServedOpen
  <1>9. CASE Respond
    <2>1. /\ gateway'.at = "accept" /\ channel[gateway.event] = "waiting"
          /\ channel' = [channel EXCEPT ![gateway.event] = "replied"]
          /\ UNCHANGED <<claimed, acks, shown, pending, intents, receipts>>
      BY <1>9 DEF Respond, Accepting, storeVars
    <2>2. ClaimedFirst'
      BY <1>0, <2>1 DEF TraceInv, ClaimedFirst, Serving, Ack
    <2>3. WithheldHidden'
      BY <1>0, <2>1 DEF TraceInv, WithheldHidden, Serving, Ack
    <2> QED BY <2>1, <2>2, <2>3 DEF TraceInv, ServedOpen
  <1> QED BY <1>1, <1>2, <1>3, <1>4, <1>5, <1>6, <1>7, <1>8, <1>9
          DEF GatewayNext, Serving, ClaimInbound, OutcomeResolved, OutcomeRefused,
              AckAnswered, AckUnanswered

\* The steps of the gateway between two turns.
LEMMA TraceAccepts ==
  ASSUME StoreFacts, TraceInv, GatewayNext, gateway.at \notin Serving
  PROVE  TraceInv'
  <1>0. /\ channel \in [Events -> ChannelAt] /\ acks \subseteq Ack
        /\ receipts \in [Events -> ReceiptRow] /\ intents \subseteq IntentRow
    BY DEF StoreFacts, SystemInv, GatewayInv, GatewayTypeOK, TypeOK
  <1>1. ASSUME NEW e \in Events, ClaimInbound(e) PROVE TraceInv'
    <2>1. /\ e \notin claimed /\ claimed' = claimed \cup {e}
          /\ gateway'.at = "begin" /\ gateway'.event = e
          /\ channel' = [channel EXCEPT ![e] = "waiting"]
          /\ UNCHANGED <<acks, shown, pending, intents, receipts>>
      BY <1>1 DEF ClaimInbound, Accepting, storeVars
    <2>2. ClaimedFirst'
      BY <1>0, <2>1 DEF TraceInv, ClaimedFirst, Ack
    <2>3. WithheldHidden'
      BY <1>0, <2>1 DEF TraceInv, ClaimedFirst, WithheldHidden, Ack, NoReceipt
    <2> QED BY <2>1, <2>2, <2>3 DEF TraceInv, ServedOpen
  <1>2. ASSUME NEW a \in acks, OutcomeResolved(a) PROVE TraceInv'
    <2>1. PICK e \in Events : e = a.event
      BY <1>0 DEF Ack
    <2>2. /\ gateway'.at = "acked" /\ acks' \subseteq acks
          /\ UNCHANGED <<claimed, channel, shown>>
          /\ intents' = {i \in intents : i.event # e}
          /\ \A f \in Events \ {e} : receipts'[f] = receipts[f]
          /\ receipts'[e].outcome = a.outcome
      <3>1. \E r \in Nat : Settle(e, a.outcome, r)
        <4>1. epoch.max + 1 \in Nat
          BY DEF StoreFacts, SystemInv, GatewayInv, GatewayTypeOK, TypeOK, EpochRow
        <4> QED BY <1>2, <2>1, <4>1 DEF OutcomeResolved, ResolveDelivered, ResolveCancelled
      <3> QED BY <1>0, <1>2, <2>1, <3>1 DEF OutcomeResolved, Settle, Accepting
    <2>3. channel[e] = "closed" /\ e \in claimed
      BY <2>1 DEF TraceInv, ClaimedFirst
    <2>4. ClaimedFirst'
      BY <1>0, <2>2, <2>3 DEF TraceInv, ClaimedFirst, Serving, IntentRow
    <2>5. WithheldHidden'
      BY <1>0, <2>1, <2>2, <2>3 DEF TraceInv, WithheldHidden, Serving
    <2> QED BY <2>2, <2>4, <2>5 DEF TraceInv, ServedOpen
  <1>3. ASSUME NEW a \in acks, OutcomeRefused(a) PROVE TraceInv'
    <2>1. /\ acks' \subseteq acks
          /\ UNCHANGED <<claimed, gateway, channel, shown, pending, intents, receipts>>
      BY <1>3 DEF OutcomeRefused, storeVars
    <2> QED BY <2>1 DEF TraceInv, ClaimedFirst, WithheldHidden, ServedOpen, CancelAllowed
  <1>4. CASE AckAnswered \/ AckUnanswered
    <2>1. /\ gateway'.at = "accept"
          /\ UNCHANGED <<claimed, channel, acks, shown, pending, intents, receipts>>
      BY <1>4 DEF AckAnswered, AckUnanswered, Accepting, storeVars, pluginVars
    <2> QED BY <1>0, <2>1, TraceMoves
  <1> QED BY <1>1, <1>2, <1>3, <1>4
          DEF GatewayNext, Serving, TurnBegins, TurnRefused, LoadContext, CoreChat,
              TurnCancelled, ReplyPrepared, ReplyRefused, OutcomeRecorded,
              OutcomeRejected, OutcomeFails, Respond, RespondFails

\* The steps of the plugin: it never goes back to a reply it has given up.
LEMMA TracePlugin ==
  ASSUME StoreFacts, TraceInv, PluginNext
  PROVE  TraceInv'
  <1>0. /\ channel \in [Events -> ChannelAt] /\ acks \subseteq Ack
        /\ gateway.at \in Serving => gateway.event \in Events
        /\ UNCHANGED <<claimed, gateway, pending, intents, receipts>>
    BY PluginFrame DEF StoreFacts, SystemInv, GatewayInv, GatewayTypeOK, storeVars
  <1>1. ServedOpen'
    BY <1>0 DEF TraceInv, ServedOpen, CancelAllowed
  <1>2. ASSUME NEW e \in Events, TelegramAccepts(e) PROVE ClaimedFirst' /\ WithheldHidden'
    <2>1. /\ channel[e] = "replied" /\ channel' = [channel EXCEPT ![e] = "shown"]
          /\ shown' = shown \cup {e} /\ acks' = acks
      BY <1>2 DEF TelegramAccepts, Moves
    <2>2. \A a \in acks : a.event # e
      BY <2>1 DEF TraceInv, ClaimedFirst
    <2>3. ClaimedFirst'
      BY <1>0, <2>1, <2>2 DEF TraceInv, ClaimedFirst, Ack
    <2>4. gateway.at \in Serving => gateway.event # e
      BY <2>1 DEF TraceInv, ClaimedFirst
    <2>5. WithheldHidden'
      BY <1>0, <2>1, <2>2, <2>4 DEF TraceInv, WithheldHidden, Ack
    <2> QED BY <2>3, <2>5
  <1>3. ASSUME NEW e \in Events, PluginGivesUp(e) \/ TelegramRefuses(e) \/ AckLost(e)
        PROVE  ClaimedFirst' /\ WithheldHidden'
    <2>1. /\ channel[e] # "none" /\ channel' = [channel EXCEPT ![e] = "closed"]
          /\ UNCHANGED <<shown, acks>>
      BY <1>3 DEF PluginGivesUp, TelegramRefuses, AckLost, Moves
    <2>2. ClaimedFirst'
      BY <1>0, <2>1 DEF TraceInv, ClaimedFirst, Ack
    <2>3. WithheldHidden'
      BY <1>0, <2>1 DEF TraceInv, WithheldHidden, Ack
    <2> QED BY <2>2, <2>3
  <1>4. ASSUME NEW e \in Events, PacingCancelled(e) PROVE ClaimedFirst' /\ WithheldHidden'
    <2>1. /\ channel[e] = "replied" /\ channel' = [channel EXCEPT ![e] = "closed"]
          /\ shown' = shown
          /\ acks' = acks \cup {[event |-> e, outcome |-> "cancelled"]}
      BY <1>4 DEF PacingCancelled, Moves
    <2>2. ClaimedFirst'
      BY <1>0, <2>1 DEF TraceInv, ClaimedFirst, Ack
    <2>3. WithheldHidden'
      BY <1>0, <2>1 DEF TraceInv, WithheldHidden, Ack
    <2> QED BY <2>2, <2>3
  <1>5. ASSUME NEW e \in Events, CommitHybridDelivery(e) PROVE ClaimedFirst' /\ WithheldHidden'
    <2>1. /\ channel[e] = "shown" /\ channel' = [channel EXCEPT ![e] = "closed"]
          /\ shown' = shown
          /\ acks' = acks \cup {[event |-> e, outcome |-> "delivered"]}
      BY <1>5 DEF CommitHybridDelivery, Moves
    <2>2. ClaimedFirst'
      BY <1>0, <2>1 DEF TraceInv, ClaimedFirst, Ack
    <2>3. WithheldHidden'
      BY <1>0, <2>1 DEF TraceInv, WithheldHidden, Ack
    <2> QED BY <2>2, <2>3
  <1> QED BY <1>1, <1>2, <1>3, <1>4, <1>5 DEF PluginNext, TraceInv

\* Every step of the system keeps the traces in order.
LEMMA TraceStep == StoreFacts /\ TraceInv /\ [SystemNext]_vars => TraceInv'
  <1> SUFFICES ASSUME StoreFacts, TraceInv, [SystemNext]_vars PROVE TraceInv'
    OBVIOUS
  <1>0. /\ channel \in [Events -> ChannelAt] /\ acks \subseteq Ack
        /\ receipts \in [Events -> ReceiptRow] /\ intents \subseteq IntentRow
    BY DEF StoreFacts, SystemInv, GatewayInv, GatewayTypeOK, TypeOK
  <1>1. CASE GatewayNext
    BY <1>1, TraceServes, TraceAccepts
  <1>2. CASE PluginNext
    BY <1>2, TracePlugin
  <1>3. CASE WorkerNext \/ UNCHANGED vars
    <2>1. UNCHANGED <<claimed, gateway, channel, acks, shown, pending, intents, receipts>>
      BY <1>3, WorkerFrame DEF vars, storeVars, gatewayVars
    <2> QED BY <2>1 DEF TraceInv, ClaimedFirst, WithheldHidden, ServedOpen, CancelAllowed
  <1>4. CASE Crash
    <2>1. /\ gateway'.at = "down"
          /\ channel' = [e \in Events |-> IF channel[e] = "waiting" THEN "closed" ELSE channel[e]]
          /\ UNCHANGED <<claimed, acks, shown, pending, intents, receipts>>
      BY <1>4 DEF Crash, Down, Accepting, storeVars
    <2>2. \A e \in Events : channel'[e] = channel[e] \/ (e \in claimed /\ channel'[e] = "closed")
      BY <2>1 DEF TraceInv, ClaimedFirst
    <2> QED BY <1>0, <2>1, <2>2, TraceMoves
  <1>5. CASE Restart
    <2>1. /\ gateway'.at = "accept" /\ pending' = {} /\ intents' = {}
          /\ receipts' = [e \in Events |->
                             IF \E i \in intents : i.event = e
                             THEN [outcome |-> "abandoned", revision |-> 0]
                             ELSE receipts[e]]
          /\ UNCHANGED <<claimed, channel, acks, shown>>
      BY <1>5 DEF Restart, StartupRecover, Accepting, pluginVars
    <2>2. ClaimedFirst'
      BY <1>0, <2>1 DEF TraceInv, ClaimedFirst, Serving
    <2>3. WithheldHidden'
      BY <1>0, <2>1 DEF TraceInv, WithheldHidden, Serving
    <2> QED BY <2>1, <2>2, <2>3 DEF TraceInv, ServedOpen
  <1> QED BY <1>1, <1>2, <1>3, <1>4, <1>5 DEF SystemNext

\* The traces are in order in every reachable state.
LEMMA TraceHolds == SystemSpec => []TraceInv
  BY TraceInit, TraceStep, StoreFactsHold, PTL DEF SystemSpec

\* A reply the gateway has cancelled is never shown, however late the outcome of psql,
\* the plugin's report or the crash comes.
THEOREM WithheldRepliesStayHidden == SystemSpec => []WithheldNeverShown
  <1>1. StoreFacts /\ TraceInv => WithheldNeverShown
    <2>1. StoreFacts => shown \subseteq Events
      BY DEF StoreFacts, SystemInv, GatewayInv, GatewayTypeOK
    <2> QED BY <2>1 DEF TraceInv, WithheldHidden, WithheldNeverShown
  <1> QED BY <1>1, TraceHolds, StoreFactsHold, PTL

--------------------------------------------------------------------------------
(* The worker and its lease. *)

\* The worker is down exactly when its process is.
WorkerUp == worker.at = "down" <=> gateway.at = "down"

LeaseInv == LeaseHasHolder /\ WorkerUp

\* The gateway leaves the worker's lease alone: the jobs it adds are queued and untried.
LEMMA GatewayFrame ==
  ASSUME StoreFacts, GatewayNext
  PROVE  /\ gateway.at # "down" /\ gateway'.at # "down"
         /\ UNCHANGED <<worker, retryDue>>
         /\ \A j \in jobs' : j \in jobs \/ (j.status = "queued" /\ j.attempts = 0)
  <1>1. gateway \in Gateway
    BY DEF StoreFacts, SystemInv, GatewayInv, GatewayTypeOK
  <1>2. gateway.at # "down"
    BY DEF GatewayNext, ClaimInbound, TurnBegins, TurnRefused, LoadContext,
       CoreChat, TurnCancelled, ReplyPrepared, ReplyRefused, OutcomeRecorded,
       OutcomeRejected, OutcomeFails, Respond, RespondFails, OutcomeResolved,
       OutcomeRefused, AckAnswered, AckUnanswered
  <1>3. gateway'.at # "down"
    <2>1. CASE gateway' \in {gateway, Accepting}
      BY <1>2, <2>1 DEF Accepting
    <2>2. ASSUME NEW at, at # "down", Goto(at) PROVE gateway'.at # "down"
      BY <1>1, <2>2 DEF Goto, Gateway
    <2>3. CASE TurnBegins
      BY <1>1, <2>3 DEF TurnBegins, Gateway
    <2>4. ASSUME NEW visual \in BOOLEAN, LoadContext(visual) PROVE gateway'.at # "down"
      BY <1>1, <2>4 DEF LoadContext, Gateway
    <2>5. ASSUME NEW a \in acks, OutcomeResolved(a) PROVE gateway'.at # "down"
      BY <2>5 DEF OutcomeResolved, Accepting
    <2>6. ASSUME NEW e \in Events, ClaimInbound(e) PROVE gateway'.at # "down"
      BY <2>6 DEF ClaimInbound, Accepting
    <2> QED BY <2>1, <2>2, <2>3, <2>4, <2>5, <2>6
            DEF GatewayNext, TurnRefused, CoreChat, TurnCancelled, ReplyPrepared,
                ReplyRefused, OutcomeRecorded, OutcomeRejected, OutcomeFails, Respond,
                RespondFails, OutcomeRefused, AckAnswered, AckUnanswered
  <1>4. UNCHANGED <<worker, retryDue>>
    BY DEF GatewayNext, ClaimInbound, TurnBegins, TurnRefused, LoadContext,
       CoreChat, TurnCancelled, ReplyPrepared, ReplyRefused, OutcomeRecorded,
       OutcomeRejected, OutcomeFails, Respond, RespondFails, OutcomeResolved,
       OutcomeRefused, AckAnswered, AckUnanswered, workerVars
  <1>5. \A j \in jobs' : j \in jobs \/ (j.status = "queued" /\ j.attempts = 0)
    <2>1. ASSUME NEW e \in Events, ResolveDelivered(e)
          PROVE  \A j \in jobs' : j \in jobs \/ (j.status = "queued" /\ j.attempts = 0)
      BY <2>1 DEF ResolveDelivered, QueuedJob
    <2>2. ASSUME NEW a \in acks PROVE a.event \in Events
      BY DEF StoreFacts, SystemInv, GatewayInv, GatewayTypeOK, Ack
    <2>3. CASE \A e \in Events : ~ ResolveDelivered(e)
      <3>1. jobs' = jobs
        BY <2>2, <2>3 DEF GatewayNext, ClaimInbound, TurnBegins, TurnRefused, LoadContext,
           CoreChat, TurnCancelled, ReplyPrepared, ReplyRefused, OutcomeRecorded,
           OutcomeRejected, OutcomeFails, Respond, RespondFails, OutcomeResolved,
           OutcomeRefused, AckAnswered, AckUnanswered, BeginTurn, CancelPending,
           PrepareDelivery, ResolveCancelled, storeVars
      <3> QED BY <3>1
    <2> QED BY <2>1, <2>3
  <1> QED BY <1>2, <1>3, <1>4, <1>5

\* The only open job, as the worker's steps use it.
LEMMA OnlyOpenJob ==
  ASSUME StoreFacts
  PROVE  \A j, k \in jobs : j.status # "committed" /\ k.status # "committed" => j = k
  <1>1. jobs \subseteq JobRow /\ JobTable
    BY DEF StoreFacts, SystemInv, StoreInv, TypeInv, TypeOK, JobsInv, JobsSound, JobTable
  <1>2. \A j, k \in OpenJobs : j = k
    BY <1>1, OneOpenJob
  <1> QED BY <1>1, <1>2 DEF OpenJobs, JobRow, JobStatus

\* The worker gives a lease back, or keeps it in hand.
LEMMA LeaseWorker ==
  ASSUME StoreFacts, LeaseInv, WorkerNext
  PROVE  LeaseInv'
  <1>0. /\ worker \in [at: WorkerAt, version: Nat] /\ jobs \subseteq JobRow
        /\ gateway' = gateway
        /\ \A j, k \in jobs : j.status # "committed" /\ k.status # "committed" => j = k
    BY WorkerFrame, OnlyOpenJob DEF StoreFacts, SystemInv, GatewayInv, GatewayTypeOK, TypeOK
  <1>1. WorkerUp'
    BY <1>0 DEF LeaseInv, WorkerUp, WorkerNext, WorkerWakes, WorkerAcquires, WorkerIdles,
       ProviderSummarizes, WorkerCommits, WorkerRecordsFailure, WorkerStoreError, Rests,
       WorkerAt
  <1>2. CASE WorkerWakes
    BY <1>0, <1>1, <1>2 DEF WorkerWakes, LeaseInv, LeaseHasHolder, storeVars
  <1>3. CASE WorkerAcquires
    <2>1. PICK j \in jobs :
             /\ \/ j \in LeasedTo(Worker) /\ UNCHANGED storeVars
                \/ AcquireSummaryJob(Worker, j)
             /\ worker' = [at |-> "provider", version |-> j.version]
      BY <1>3 DEF WorkerAcquires
    <2>2. CASE j \in LeasedTo(Worker) /\ UNCHANGED storeVars
      BY <1>0, <1>1, <2>1, <2>2 DEF LeasedTo, LeaseInv, LeaseHasHolder, storeVars
    <2>3. CASE AcquireSummaryJob(Worker, j)
      <3>1. PICK row : row = [j EXCEPT !.status = "leased", !.owner = Worker,
                                       !.attempts = @ + 1]
        OBVIOUS
      <3>2. row.version = j.version /\ row.owner = Worker
        BY <1>0, <3>1 DEF JobRow
      <3>3. jobs' = (jobs \ {j}) \cup {row} /\ \A k \in jobs : k.status # "leased"
        BY <2>3, <3>1 DEF AcquireSummaryJob, Replace
      <3> QED BY <1>1, <2>1, <3>2, <3>3 DEF LeaseInv, LeaseHasHolder
    <2> QED BY <1>1, <2>1, <2>2, <2>3 DEF LeaseInv
  <1>4. CASE WorkerIdles
    BY <1>1, <1>4 DEF WorkerIdles, LeaseInv, LeaseHasHolder, storeVars
  <1>5. CASE ProviderSummarizes
    BY <1>0, <1>1, <1>5 DEF ProviderSummarizes, LeaseInv, LeaseHasHolder, storeVars
  <1>6. CASE WorkerCommits
    <2>1. PICK j \in jobs : CommitSummaryCandidate(Worker, j)
      BY <1>6 DEF WorkerCommits
    <2>2. PICK row : row = [j EXCEPT !.status = "committed", !.owner = Nobody]
      OBVIOUS
    <2>3. jobs' = (jobs \ {j}) \cup {row} /\ j.status = "leased" /\ row.status = "committed"
      BY <1>0, <2>1, <2>2 DEF CommitSummaryCandidate, Replace, LeasedTo, JobRow
    <2> QED BY <1>0, <1>1, <2>3 DEF LeaseInv, LeaseHasHolder
  <1>7. CASE WorkerRecordsFailure
    <2>1. PICK j \in jobs : RecordSummaryFailure(Worker, j)
      BY <1>7 DEF WorkerRecordsFailure
    <2>2. PICK row : row = [j EXCEPT !.status = IF j.attempts < MaxAttempts
                                               THEN "queued" ELSE "blocked",
                                     !.owner = Nobody]
      OBVIOUS
    <2>3. jobs' = (jobs \ {j}) \cup {row} /\ j.status = "leased" /\ row.status # "leased"
      BY <1>0, <2>1, <2>2 DEF RecordSummaryFailure, Replace, LeasedTo, JobRow
    <2> QED BY <1>0, <1>1, <2>3 DEF LeaseInv, LeaseHasHolder
  <1>8. CASE WorkerStoreError
    BY <1>0, <1>1, <1>8 DEF WorkerStoreError, Rests, LeaseInv, LeaseHasHolder, storeVars
  <1> QED BY <1>1, <1>2, <1>3, <1>4, <1>5, <1>6, <1>7, <1>8 DEF WorkerNext, LeaseInv

\* A lease keeps its holder whatever the system does.
LEMMA LeaseStep == StoreFacts /\ LeaseInv /\ [SystemNext]_vars => LeaseInv'
  <1> SUFFICES ASSUME StoreFacts, LeaseInv, [SystemNext]_vars PROVE LeaseInv'
    OBVIOUS
  <1>1. CASE GatewayNext
    <2>1. LeaseHasHolder'
      BY <1>1, GatewayFrame DEF LeaseInv, LeaseHasHolder
    <2>2. WorkerUp'
      BY <1>1, GatewayFrame DEF LeaseInv, WorkerUp
    <2> QED BY <2>1, <2>2 DEF LeaseInv
  <1>2. CASE WorkerNext
    BY <1>2, LeaseWorker
  <1>3. CASE PluginNext \/ UNCHANGED vars
    <2>1. UNCHANGED <<jobs, gateway, worker, retryDue>>
      BY <1>3, PluginFrame DEF vars, storeVars, gatewayVars, workerVars
    <2> QED BY <2>1 DEF LeaseInv, LeaseHasHolder, WorkerUp
  <1>4. CASE Crash
    BY <1>4 DEF Crash, Down, Accepting, LeaseInv, LeaseHasHolder, WorkerUp
  <1>5. CASE Restart
    <2>1. \A j \in jobs' : j.status # "leased"
      <3>1. jobs' = {IF j.status = "leased" THEN Relinquished(j) ELSE j : j \in jobs}
        BY <1>5 DEF Restart, StartupRecover
      <3>2. \A j \in jobs : j \in JobRow
        BY DEF StoreFacts, SystemInv, StoreInv, TypeInv, TypeOK
      <3>3. \A j \in JobRow : Relinquished(j).status # "leased"
        BY DEF Relinquished, JobRow
      <3> QED BY <3>1, <3>2, <3>3
    <2>2. WorkerUp'
      BY <1>5 DEF Restart, Accepting, WorkerUp
    <2> QED BY <2>1, <2>2 DEF LeaseInv, LeaseHasHolder
  <1> QED BY <1>1, <1>2, <1>3, <1>4, <1>5 DEF SystemNext

\* A thread that comes back to the store finds its turn, or its lease, still its own.
THEOREM WorkInHandStaysOwn == SystemSpec => []WorkInHandIsOwn
  <1>1. GatewayInit => LeaseInv
    BY DEF GatewayInit, Init, Accepting, LeaseInv, LeaseHasHolder, WorkerUp
  <1>2. TraceInv /\ LeaseInv => WorkInHandIsOwn
    BY DEF TraceInv, ServedOpen, ClaimedFirst, Serving, LeaseInv, WorkInHandIsOwn,
           ServedTurnIsOpen
  <1> QED BY <1>1, <1>2, LeaseStep, StoreFactsHold, TraceHolds, PTL DEF SystemSpec

--------------------------------------------------------------------------------
(* Wake-ups. *)

\* Somebody is on the way to what is queued: the worker, a wake-up or the next start.
Coming ==
    \/ gateway.at = "down"
    \/ worker.at \notin {"down", "waiting"}
    \/ wake
    \/ retryDue

\* A job that was tried and is to be tried again is never without.
RetriedJobComing == (\E j \in jobs : j.status = "queued" /\ j.attempts > 0) => Coming

\* Whatever the worker does, it comes back for what is then queued.
LEMMA WorkerComes ==
  ASSUME StoreFacts, WorkerNext, \E j \in jobs' : j.status = "queued"
  PROVE  Coming'
  <1>0. /\ worker \in [at: WorkerAt, version: Nat] /\ jobs \subseteq JobRow
        /\ \A j, k \in jobs : j.status # "committed" /\ k.status # "committed" => j = k
    BY OnlyOpenJob DEF StoreFacts, SystemInv, GatewayInv, GatewayTypeOK, TypeOK
  <1>1. CASE WorkerWakes \/ ProviderSummarizes
    BY <1>0, <1>1 DEF WorkerWakes, ProviderSummarizes, Coming
  <1>2. CASE WorkerAcquires
    BY <1>2 DEF WorkerAcquires, Coming
  <1>3. CASE WorkerIdles
    BY <1>3 DEF WorkerIdles, storeVars
  <1>4. CASE WorkerCommits
    <2>1. PICK j \in jobs : CommitSummaryCandidate(Worker, j)
      BY <1>4 DEF WorkerCommits
    <2>2. PICK row : row = [j EXCEPT !.status = "committed", !.owner = Nobody]
      OBVIOUS
    <2>3. jobs' = (jobs \ {j}) \cup {row} /\ j.status = "leased" /\ row.status = "committed"
      BY <1>0, <2>1, <2>2 DEF CommitSummaryCandidate, Replace, LeasedTo, JobRow
    <2> QED BY <1>0, <2>3
  <1>5. CASE WorkerRecordsFailure
    <2>1. PICK j \in jobs :
             RecordSummaryFailure(Worker, j) /\ retryDue' = (j.attempts < MaxAttempts)
      BY <1>5 DEF WorkerRecordsFailure, Rests
    <2>2. PICK row : row = [j EXCEPT !.status = IF j.attempts < MaxAttempts
                                               THEN "queued" ELSE "blocked",
                                     !.owner = Nobody]
      OBVIOUS
    <2>3. /\ jobs' = (jobs \ {j}) \cup {row} /\ j.status = "leased"
          /\ row.status = IF j.attempts < MaxAttempts THEN "queued" ELSE "blocked"
      BY <1>0, <2>1, <2>2 DEF RecordSummaryFailure, Replace, LeasedTo, JobRow
    <2> QED BY <1>0, <2>1, <2>3 DEF Coming
  <1>6. CASE WorkerStoreError
    BY <1>0, <1>6 DEF WorkerStoreError, Rests, Coming
  <1> QED BY <1>1, <1>2, <1>3, <1>4, <1>5, <1>6 DEF WorkerNext

\* The gateway turns nobody back, and is responsible for the jobs it queues.
LEMMA GatewayComes ==
  ASSUME StoreFacts, GatewayNext
  PROVE  /\ Coming => Coming'
         /\ jobs' # jobs => gateway'.at = "acked" /\ gateway'.queued
         /\ gateway.at = "acked" /\ gateway.queued => jobs' = jobs /\ (gateway' = Accepting \/ Coming')
  <1>1. UNCHANGED <<worker, retryDue>> /\ gateway.at # "down"
    BY GatewayFrame
  <1>2. CASE \E a \in acks : OutcomeResolved(a)
    <2>1. /\ gateway'.at = "acked" /\ gateway.at = "accept" /\ gateway'.queued = (jobs' # jobs)
          /\ UNCHANGED <<worker, wake, retryDue>>
      BY <1>2 DEF OutcomeResolved, Accepting, workerVars
    <2>2. jobs' # jobs => gateway'.queued
      BY <2>1
    <2> QED BY <1>1, <2>1, <2>2 DEF Coming
  <1>3. CASE AckAnswered \/ AckUnanswered
    <2>1. gateway \in Gateway /\ wake \in BOOLEAN
      BY DEF StoreFacts, SystemInv, GatewayInv, GatewayTypeOK
    <2>2. gateway' = Accepting /\ jobs' = jobs /\ (wake => wake')
      BY <1>3, <2>1 DEF AckAnswered, AckUnanswered, storeVars, workerVars, Gateway
    <2> QED BY <1>1, <2>2 DEF Coming
  <1>4. CASE ~AckAnswered /\ ~AckUnanswered /\ \A a \in acks : ~OutcomeResolved(a)
    <2>1. gateway.at # "acked" /\ UNCHANGED <<jobs, wake>>
      BY <1>4 DEF GatewayNext, ClaimInbound, TurnBegins, TurnRefused, LoadContext,
         CoreChat, TurnCancelled, ReplyPrepared, ReplyRefused, OutcomeRecorded,
         OutcomeRejected, OutcomeFails, Respond, RespondFails, OutcomeRefused,
         BeginTurn, CancelPending, PrepareDelivery, ResolveCancelled, storeVars, workerVars
    <2> QED BY <1>1, <2>1 DEF Coming
  <1> QED BY <1>2, <1>3, <1>4

\* The steps of the rest of the system, as far as the wake-ups are concerned.
LEMMA RestComes ==
  ASSUME [SystemNext]_vars, ~GatewayNext, ~WorkerNext
  PROVE  UNCHANGED <<jobs, gateway, worker, wake, retryDue>> \/ Coming'
  <1>1. CASE PluginNext \/ UNCHANGED vars
    BY <1>1, PluginFrame DEF vars, storeVars, gatewayVars, workerVars
  <1>2. CASE Crash \/ Restart
    BY <1>2 DEF Crash, Restart, Down, Accepting, Coming
  <1> QED BY <1>1, <1>2 DEF SystemNext

\* A job that is to be tried again keeps somebody on the way to it.
LEMMA RetriedStep == StoreFacts /\ RetriedJobComing /\ [SystemNext]_vars => RetriedJobComing'
  <1> SUFFICES ASSUME StoreFacts, RetriedJobComing, [SystemNext]_vars,
                      NEW j \in jobs', j.status = "queued", j.attempts > 0
               PROVE  Coming'
    BY DEF RetriedJobComing
  <1>1. CASE GatewayNext
    <2>1. j \in jobs \/ j.attempts = 0
      BY <1>1, GatewayFrame
    <2> QED BY <1>1, <2>1, GatewayComes DEF RetriedJobComing
  <1>2. CASE WorkerNext
    BY <1>2, WorkerComes
  <1>3. CASE ~GatewayNext /\ ~WorkerNext
    BY <1>3, RestComes DEF RetriedJobComing, Coming
  <1> QED BY <1>1, <1>2, <1>3

\* The only step that forgets a queued job, and the only job it can be.
LEMMA ForgottenStep ==
  ASSUME StoreFacts, RetriedJobComing, [SystemNext]_vars, QueuedJobNoticed, ~QueuedJobNoticed'
  PROVE  /\ gateway.at = "acked" /\ gateway.queued /\ gateway' = Accepting
         /\ \A j \in jobs : j.status = "queued" => j.attempts = 0
  <1>1. /\ \E j \in jobs' : j.status = "queued"
        /\ ~Coming' /\ ~(gateway'.at = "acked" /\ gateway'.queued)
    BY DEF QueuedJobNoticed, Coming
  <1>2. GatewayNext
    <2>1. ~WorkerNext
      BY <1>1, WorkerComes
    <2>2. ASSUME UNCHANGED <<jobs, gateway, worker, wake, retryDue>> PROVE FALSE
      BY <2>2 DEF QueuedJobNoticed
    <2> QED BY <1>1, <2>1, <2>2, RestComes
  <1>3. jobs' = jobs /\ ~Coming
    BY <1>1, <1>2, GatewayComes
  <1>4. gateway.at = "acked" /\ gateway.queued
    BY <1>1, <1>3 DEF QueuedJobNoticed, Coming
  <1>5. gateway' = Accepting
    BY <1>1, <1>2, <1>4, GatewayComes
  <1>6. \A j \in jobs : j \in JobRow
    BY DEF StoreFacts, SystemInv, StoreInv, TypeInv, TypeOK
  <1> QED BY <1>3, <1>4, <1>5, <1>6 DEF RetriedJobComing, JobRow

\* A queued job is only forgotten where its acknowledgement goes unanswered, and before
\* it was ever tried: no failure, refused transaction, lost lease or crash makes the
\* worker forget a job it is to try again (p07_d_summary_worker.py:61-78).
THEOREM RetriesAreNeverForgotten == SystemSpec => ForgottenOnlyUnanswered
  <1>1. GatewayInit => RetriedJobComing
    BY DEF GatewayInit, Init, RetriedJobComing
  <1>2. StoreFacts /\ RetriedJobComing /\ [SystemNext]_vars
           => [QueuedJobNoticed /\ ~QueuedJobNoticed' =>
                  /\ gateway.at = "acked" /\ gateway.queued /\ gateway' = Accepting
                  /\ \A j \in jobs : j.status = "queued" => j.attempts = 0]_vars
    BY ForgottenStep
  <1> QED BY <1>1, <1>2, RetriedStep, StoreFactsHold, PTL DEF SystemSpec, ForgottenOnlyUnanswered

--------------------------------------------------------------------------------
(* The capacity of a summary job. *)

\* How the limits must relate for a projection of the recent turns alone: a job may be as
\* long as the projection and one more turn.
RecentTurnsFitJob ==
    /\ VerbatimFirst = FALSE
    /\ RecentChars \in Nat /\ JobCharLimit \in Nat
    /\ \A e \in Events : RecentChars + Size[e] <= JobCharLimit

\* What is summarised when a turn is committed is part of what the turn was drawn from,
\* and the turn itself.
LEMMA CharactersBound ==
  ASSUME NEW ts \in Seq(TurnRow), NEW row \in TurnRow,
         NEW c \in 0..Len(ts), NEW n \in (c + 1)..(Len(ts) + 1)
  PROVE  /\ Characters(SubSeq(Append(ts, row), c + 1, n))
               <= Characters(SubSeq(ts, c + 1, Len(ts))) + Size[row.event]
         /\ Characters(SubSeq(Append(ts, row), c + 1, n)) \in Nat
         /\ Characters(SubSeq(ts, c + 1, Len(ts))) \in Nat
         /\ Size[row.event] \in Nat
  <1>1. PICK all : all = Append(ts, row)
    OBVIOUS
  <1>2. PICK a : a = SubSeq(ts, c + 1, Len(ts))
    OBVIOUS
  <1>3. PICK b : b = SubSeq(all, c + 1, n)
    OBVIOUS
  <1>4. PICK m \in Nat : m = Len(ts) - c
    OBVIOUS
  <1>5. PICK k \in 1..(m + 1) : k = n - c
    BY <1>4
  <1>6. /\ all \in Seq(TurnRow) /\ Len(all) = Len(ts) + 1 /\ all[Len(ts) + 1] = row
        /\ \A i \in 1..Len(ts) : all[i] = ts[i]
    BY <1>1
  <1>7. /\ a \in Seq(TurnRow) /\ Len(a) = m /\ \A i \in 1..m : a[i] = ts[c + i]
    BY <1>2, <1>4
  <1>8. /\ b \in Seq(TurnRow) /\ Len(b) = k /\ \A i \in 1..k : b[i] = all[c + i]
    BY <1>3, <1>5, <1>6
  <1>9. \A r \in TurnRow : Size[r.event] \in Nat
    BY SizeAssumption DEF TurnRow
  <1>10. PICK f : f = [i \in 1..(m + 1) |-> IF i = m + 1 THEN Size[row.event]
                                           ELSE Size[a[i].event]]
    OBVIOUS
  <1>11. f \in [1..(m + 1) -> Nat]
    <2>1. ASSUME NEW i \in 1..(m + 1), i # m + 1 PROVE Size[a[i].event] \in Nat
      <3>1. i \in 1..Len(a)
        BY <1>7, <2>1
      <3>2. a[i] \in TurnRow
        BY <1>7, <3>1, ElementOfSeq
      <3> QED BY <1>9, <3>2
    <2> QED BY <1>9, <1>10, <2>1
  <1>12. IsFiniteSet(1..(m + 1)) /\ IsFiniteSet(1..m) /\ IsFiniteSet(1..k)
    <2>1. 1 \in Int /\ m \in Int /\ m + 1 \in Int /\ k \in Int
      OBVIOUS
    <2>2. \A i \in Int : IsFiniteSet(1..i)
      BY FS_Interval
    <2> QED BY <2>1, <2>2
  <1>13. Characters(a) = SumFunctionOnSet(f, 1..m)
    <2>1. Characters(a) = SumFunctionOnSet([i \in 1..m |-> Size[a[i].event]], 1..m)
      BY <1>7 DEF Characters, SumFunction
    <2>2. \A i \in 1..m : [j \in 1..m |-> Size[a[j].event]][i] = f[i]
      BY <1>10
    <2> QED BY <1>12, <2>1, <2>2, SumAgrees
  <1>14. Characters(b) = SumFunctionOnSet(f, 1..k)
    <2>1. Characters(b) = SumFunctionOnSet([i \in 1..k |-> Size[b[i].event]], 1..k)
      BY <1>8 DEF Characters, SumFunction
    <2>2. ASSUME NEW i \in 1..k PROVE Size[b[i].event] = f[i]
      <3>1. CASE i = m + 1
        <4>1. b[i] = row
          BY <1>4, <1>6, <1>8, <3>1
        <4> QED BY <1>10, <3>1, <4>1
      <3>2. CASE i # m + 1
        <4>1. i \in 1..m /\ c + i \in 1..Len(ts)
          BY <1>4, <3>2
        <4>2. b[i] = a[i]
          BY <1>6, <1>7, <1>8, <4>1
        <4> QED BY <1>10, <3>2, <4>2
      <3> QED BY <3>1, <3>2
    <2>3. \A i \in 1..k : [j \in 1..k |-> Size[b[j].event]][i] = f[i]
      BY <2>2
    <2> QED BY <1>12, <2>1, <2>3, SumAgrees
  <1>15. SumFunctionOnSet(f, 1..k) <= SumFunctionOnSet(f, 1..(m + 1))
    <2>1. 1..k \in SUBSET (1..(m + 1)) /\ 1..(m + 1) \in SUBSET (1..(m + 1))
      OBVIOUS
    <2>2. \A i \in 1..k : f[i] <= f[i]
      BY <1>11, <2>1
    <2> QED BY <1>11, <1>12, <2>1, <2>2, SumMonotone
  <1>16. SumFunctionOnSet(f, 1..(m + 1)) = Size[row.event] + SumFunctionOnSet(f, 1..m)
    <2>1. 1..m \in SUBSET (1..(m + 1)) /\ m + 1 \in (1..(m + 1)) \ (1..m)
      OBVIOUS
    <2>2. (1..m) \cup {m + 1} = 1..(m + 1)
      OBVIOUS
    <2>3. f[m + 1] = Size[row.event]
      BY <1>10
    <2>4. SumFunctionOnSet(f, (1..m) \cup {m + 1}) = f[m + 1] + SumFunctionOnSet(f, 1..m)
      <3>1. PICK S, T, x : S = 1..(m + 1) /\ T = 1..m /\ x = m + 1
        OBVIOUS
      <3>2. f \in [S -> Nat] /\ IsFiniteSet(S) /\ T \in SUBSET S /\ x \in S \ T
        BY <1>11, <1>12, <2>1, <3>1
      <3>3. SumFunctionOnSet(f, T \cup {x}) = f[x] + SumFunctionOnSet(f, T)
        BY <3>2, SumAdds
      <3> QED BY <3>1, <3>3
    <2> QED BY <2>2, <2>3, <2>4
  <1>17. SumFunctionOnSet(f, 1..k) \in Nat /\ SumFunctionOnSet(f, 1..m) \in Nat
    <2>1. 1..k \in SUBSET (1..(m + 1)) /\ 1..m \in SUBSET (1..(m + 1))
      OBVIOUS
    <2> QED BY <1>11, <1>12, <2>1, SumType
  <1> QED BY <1>1, <1>2, <1>3, <1>9, <1>13, <1>14, <1>15, <1>16, <1>17

\* At revision r the uncovered turns fit the projection, unless the epoch has moved on.
Loaded(r) ==
    epoch.max = r => Fits(TurnsAfter(turns, CoveredEnd), RecentTurns, RecentChars)

\* A reply is drawn from a projection that fitted, and so is what becomes of it.
ContextFits ==
    /\ gateway.at \in {"chat", "prepare"} =>
          gateway.envelope <= epoch.max /\ Loaded(gateway.envelope)
    /\ \A i \in intents : i.base <= epoch.max /\ Loaded(i.base)

\* The chain and its coverage change only under a new revision.
LEMMA RevisionMoves ==
  ASSUME StoreInv, [Next]_storeVars
  PROVE  UNCHANGED <<epoch, turns, summaries>> \/ epoch'.max = epoch.max + 1
  <1>1. ASSUME NEW e \in Events, ResolveDelivered(e) PROVE epoch'.max = epoch.max + 1
    <2>1. PICK row \in TurnRow : TurnCommitted(e, row)
      BY <1>1, DeliveredStep
    <2> QED BY <2>1, CommittedRows
  <1>2. ASSUME NEW w \in Workers, NEW j \in jobs, CommitSummaryCandidate(w, j)
        PROVE  epoch'.max = epoch.max + 1
    <2>1. epoch' = [epoch EXCEPT !.selected = epoch.max + 1, !.max = epoch.max + 1,
                                !.summary = epoch.summary + 1]
      BY <1>2, SummaryStep DEF StoreInv
    <2> QED BY <2>1 DEF StoreInv, TypeInv, TypeOK, EpochRow
  <1> QED BY <1>1, <1>2, OtherSteps

\* What was loaded stays loaded, or is known to be stale.
LEMMA LoadedKept ==
  ASSUME StoreInv, [Next]_storeVars, NEW r \in Nat, r <= epoch.max, Loaded(r)
  PROVE  r <= epoch'.max /\ Loaded(r)'
  <1>0. epoch.max \in Nat
    BY DEF StoreInv, TypeInv, TypeOK, EpochRow
  <1>1. CASE epoch'.max = epoch.max + 1
    BY <1>0, <1>1 DEF Loaded
  <1>2. CASE UNCHANGED <<epoch, turns, summaries>>
    <2>1. CoveredEnd' = CoveredEnd
      BY <1>2 DEF CoveredEnd
    <2> QED BY <1>2, <2>1 DEF Loaded, Fits, TurnsAfter, Characters
  <1> QED BY <1>1, <1>2, RevisionMoves

\* The projection is what the gateway read, at the revision it read it at.
LEMMA ContextStep ==
  /\ VerbatimFirst = FALSE
  /\ StoreFacts /\ TraceInv /\ RevisionsStepwise /\ ContextFits /\ [SystemNext]_vars
  => ContextFits'
  <1> SUFFICES ASSUME VerbatimFirst = FALSE, StoreFacts, TraceInv, RevisionsStepwise,
                      ContextFits, [SystemNext]_vars
               PROVE  ContextFits'
    OBVIOUS
  <1>0. /\ StoreInv /\ [Next]_storeVars /\ epoch.max \in Nat /\ epoch.selected = epoch.max
        /\ gateway \in Gateway /\ gateway.envelope \in Nat /\ intents \subseteq IntentRow
    BY SystemCallsStore DEF StoreFacts, SystemInv, GatewayInv, GatewayTypeOK, TypeOK,
                            EpochRow, Gateway, RevisionsStepwise
  <1>1. ASSUME NEW r \in Nat, r <= epoch.max, Loaded(r)
        PROVE  r <= epoch'.max /\ Loaded(r)'
    BY <1>0, <1>1, LoadedKept
  <1>2. \A i \in intents : i.base <= epoch'.max /\ Loaded(i.base)'
    <2>1. TAKE i \in intents
    <2>2. PICK base \in Nat : base = i.base
      BY <1>0 DEF IntentRow
    <2>3. base <= epoch.max /\ Loaded(base)
      BY <2>2 DEF ContextFits
    <2>4. base <= epoch'.max /\ Loaded(base)'
      BY <1>1, <2>3
    <2> QED BY <2>2, <2>4 DEF Loaded
  <1>3. ASSUME gateway'.at \in {"chat", "prepare"} =>
                  gateway.at \in {"chat", "prepare"} /\ gateway'.envelope = gateway.envelope,
               intents' \subseteq intents
        PROVE  ContextFits'
    <2>1. ASSUME gateway'.at \in {"chat", "prepare"}
          PROVE  gateway'.envelope <= epoch'.max /\ Loaded(gateway.envelope)'
      <3>1. PICK r \in Nat : r = gateway.envelope /\ r = gateway'.envelope
        BY <1>0, <1>3, <2>1
      <3>2. r <= epoch.max /\ Loaded(r)
        BY <1>3, <2>1, <3>1 DEF ContextFits
      <3>3. r <= epoch'.max /\ Loaded(r)'
        BY <1>1, <3>2
      <3> QED BY <3>1, <3>3 DEF Loaded
    <2> QED BY <1>2, <1>3, <2>1 DEF ContextFits
  <1>4. CASE GatewayNext
    <2>1. ASSUME NEW visual \in BOOLEAN, LoadContext(visual) PROVE ContextFits'
      <3>1. /\ UNCHANGED storeVars
            /\ gateway' = IF ProjectionFits(visual)
                          THEN [gateway EXCEPT !.at = "chat", !.envelope = epoch.selected]
                          ELSE [gateway EXCEPT !.at = "cancel"]
        BY <2>1 DEF LoadContext
      <3>2. CASE ~ ProjectionFits(visual)
        <4>1. gateway'.at = "cancel" /\ intents' = intents
          BY <1>0, <3>1, <3>2 DEF Gateway, storeVars
        <4> QED BY <1>3, <4>1
      <3>3. CASE ProjectionFits(visual)
        <4>1. gateway'.at = "chat" /\ gateway'.envelope = epoch.max
          BY <1>0, <3>1, <3>3 DEF Gateway
        <4>2. Fits(TurnsAfter(turns, CoveredEnd), RecentTurns, RecentChars)
          BY <3>3 DEF ProjectionFits
        <4>3. UNCHANGED <<epoch, turns, summaries, intents>>
          BY <3>1 DEF storeVars
        <4>4. Fits(TurnsAfter(turns, CoveredEnd), RecentTurns, RecentChars)'
          BY <4>2, <4>3 DEF Fits, TurnsAfter, CoveredEnd, Characters
        <4> QED BY <1>0, <1>2, <4>1, <4>3, <4>4 DEF ContextFits, Loaded
      <3> QED BY <3>2, <3>3
    <2>2. CASE CoreChat
      <3>1. gateway.at = "chat" /\ gateway'.envelope = gateway.envelope /\ intents' = intents
        BY <1>0, <2>2 DEF CoreChat, Goto, Gateway, storeVars
      <3> QED BY <1>3, <3>1
    <2>3. CASE ReplyPrepared
      <3>1. /\ gateway.at = "prepare" /\ gateway'.at = "outcome"
            /\ gateway.token \in pending
            /\ gateway.envelope = gateway.token.base
            /\ intents' = intents \cup {IntentOf(gateway.token, gateway.envelope)}
        BY <1>0, <2>3 DEF ReplyPrepared, PrepareDelivery, PrepareAllowed, Goto, Gateway
      <3>2. PICK r \in Nat : r = gateway.envelope
        BY <1>0
      <3>3. r <= epoch.max /\ Loaded(r)
        BY <3>1, <3>2 DEF ContextFits
      <3>4. r <= epoch'.max /\ Loaded(r)'
        BY <1>1, <3>3
      <3>5. PICK new : new = IntentOf(gateway.token, gateway.envelope)
        OBVIOUS
      <3>6. new.base = r
        BY <3>1, <3>2, <3>5 DEF IntentOf
      <3>7. new.base <= epoch'.max /\ Loaded(new.base)'
        BY <3>4, <3>6 DEF Loaded
      <3> QED BY <1>2, <3>1, <3>5, <3>7 DEF ContextFits
    <2>4. ASSUME NEW a \in acks, OutcomeResolved(a) PROVE ContextFits'
      <3>1. gateway'.at = "acked" /\ intents' \subseteq intents
        BY <2>4 DEF OutcomeResolved, ResolveDelivered, ResolveCancelled, Settle, Accepting
      <3> QED BY <1>3, <3>1
    <2>5. ASSUME NEW a \in acks, OutcomeRefused(a) PROVE ContextFits'
      BY <1>3, <2>5 DEF OutcomeRefused, storeVars
    <2>6. ASSUME NEW e \in Events, ClaimInbound(e) PROVE ContextFits'
      <3>1. gateway'.at = "begin" /\ intents' = intents
        BY <2>6 DEF ClaimInbound, Accepting, storeVars
      <3> QED BY <1>3, <3>1
    <2>7. CASE TurnBegins \/ OutcomeRecorded
      <3>1. gateway'.at \notin {"chat", "prepare"} /\ intents' = intents
        BY <1>0, <2>7 DEF TurnBegins, OutcomeRecorded, BeginTurn, Goto, Gateway, storeVars
      <3> QED BY <1>3, <3>1
    <2>8. CASE gateway' = Accepting /\ intents' \subseteq intents
      BY <1>3, <2>8 DEF Accepting
    <2>9. CASE TurnCancelled \/ OutcomeRejected \/ RespondFails
      BY <2>8, <2>9 DEF TurnCancelled, CancelPending, OutcomeRejected, RespondFails,
                        ResolveCancelled, Settle
    <2>10. CASE TurnRefused \/ ReplyRefused \/ OutcomeFails \/ Respond
      BY <2>8, <2>10 DEF TurnRefused, ReplyRefused, OutcomeFails, Respond, storeVars
    <2>11. CASE AckAnswered \/ AckUnanswered
      BY <2>8, <2>11 DEF AckAnswered, AckUnanswered, storeVars
    <2> QED BY <1>4, <2>1, <2>2, <2>3, <2>4, <2>5, <2>6, <2>7, <2>9, <2>10, <2>11
            DEF GatewayNext
  <1>5. CASE WorkerNext \/ PluginNext \/ UNCHANGED vars
    <2>1. gateway' = gateway /\ intents' = intents
      BY <1>5, WorkerFrame, PluginFrame DEF vars, storeVars, gatewayVars
    <2> QED BY <1>3, <2>1
  <1>6. CASE Crash \/ Restart
    <2>1. gateway'.at \notin {"chat", "prepare"} /\ intents' \subseteq intents
      BY <1>6 DEF Crash, Restart, StartupRecover, Down, Accepting, storeVars
    <2> QED BY <1>3, <2>1
  <1> QED BY <1>4, <1>5, <1>6 DEF SystemNext

\* A job over the turns of a projection that fitted, and one more, is not too long.
LEMMA FittingJob ==
  ASSUME RecentTurnsFitJob, StoreFacts, NEW row \in TurnRow,
         Fits(TurnsAfter(turns, CoveredEnd), RecentTurns, RecentChars)
  PROVE  JobFits(Append(turns, row), JobEnd(Append(turns, row)))
  <1>1. /\ turns \in Seq(TurnRow) /\ CoveredEnd \in Nat /\ Len(turns) \in Nat
        /\ SummariesCoverPrefixes /\ summaries \in Seq(SummaryRow)
        /\ epoch.summary = Len(summaries)
    BY CoveredEndType DEF StoreFacts, SystemInv, StoreInv, TypeInv, TypeOK, JobsInv, JobsSound
  <1>2. CoveredEnd \in 0..Len(turns)
    <2>1. CASE epoch.summary = 0
      BY <1>1, <2>1 DEF CoveredEnd
    <2>2. CASE epoch.summary # 0
      <3>1. epoch.summary \in 1..Len(summaries)
        BY <1>1, <2>2
      <3>2. summaries[epoch.summary].end \in 1..Len(turns)
        BY <1>1, <3>1 DEF SummariesCoverPrefixes
      <3> QED BY <1>1, <2>2, <3>2 DEF CoveredEnd
    <2> QED BY <2>1, <2>2
  <1>3. PICK c \in 0..Len(turns) : c = CoveredEnd
    BY <1>2
  <1>4. PICK n : n = JobEnd(Append(turns, row))
    OBVIOUS
  <1>5. n \in (c + 1)..(Len(turns) + 1)
    <2>1. Len(Append(turns, row)) = Len(turns) + 1
      BY <1>1
    <2> QED BY <1>1, <1>3, <1>4, <2>1, LimitAssumption DEF JobEnd
  <1>6. Size[row.event] \in Nat /\ RecentChars + Size[row.event] <= JobCharLimit
        /\ RecentChars \in Nat /\ JobCharLimit \in Nat
    BY SizeAssumption DEF RecentTurnsFitJob, TurnRow
  <1>7. PICK old, new : /\ old = Characters(SubSeq(turns, c + 1, Len(turns)))
                        /\ new = Characters(SubSeq(Append(turns, row), c + 1, n))
    OBVIOUS
  <1>8. old \in Nat /\ new \in Nat /\ new <= old + Size[row.event]
    BY <1>1, <1>5, <1>7, CharactersBound
  <1>9. old <= RecentChars
    BY <1>3, <1>7 DEF Fits, TurnsAfter
  <1>10. new <= JobCharLimit
    BY <1>6, <1>8, <1>9
  <1> QED BY <1>3, <1>4, <1>7, <1>10 DEF JobFits, JobRows

\* With the projection of the recent turns alone, a prepared reply whose state has not
\* moved can always be committed: the job its commit queues is never too long.
THEOREM DeliveryAlwaysFits ==
  ASSUME RecentTurnsFitJob
  PROVE  SystemSpec => []DeliveryFits
  <1>1. VerbatimFirst = FALSE
    BY DEF RecentTurnsFitJob
  <1>2. GatewayInit => ContextFits
    BY DEF GatewayInit, Init, Accepting, ContextFits
  <1>3. StoreFacts /\ TraceInv /\ RevisionsStepwise /\ ContextFits /\ [SystemNext]_vars
        => ContextFits'
    BY <1>1, ContextStep
  <1>4. StoreFacts /\ TraceInv /\ ContextFits => DeliveryFits
    <2> SUFFICES ASSUME StoreFacts, TraceInv, ContextFits, NEW i \in intents,
                        NEW p \in pending, Undrifted(i, p)
                 PROVE  DeliveryAllowed(i, p)
      BY DEF DeliveryFits
    <2>1. i \in IntentRow /\ p \in PendingRow
      BY DEF StoreFacts, SystemInv, StoreInv, TypeInv, TypeOK
    <2>2. receipts[i.event] = NoReceipt /\ p.event = i.event
      BY DEF TraceInv, ClaimedFirst, StoreFacts, TurnInv, OneOpenTurn
    <2>3. Fits(TurnsAfter(turns, CoveredEnd), RecentTurns, RecentChars)
      BY DEF Undrifted, ContextFits, Loaded
    <2>4. JobFits(Append(turns, Delivered(i, p)), JobEnd(Append(turns, Delivered(i, p))))
      BY <2>1, <2>3, DeliveredType, FittingJob
    <2> QED BY <2>2, <2>4 DEF DeliveryAllowed
  <1>5. SystemSpec => []RevisionsStepwise
    BY SystemImplementsStore, RevisionsAreStepwise, PTL
  <1> QED BY <1>2, <1>3, <1>4, <1>5, StoreFactsHold, TraceHolds, PTL DEF SystemSpec
================================================================================
