------------------------- MODULE ExternalEpochGateway -------------------------
(***************************************************************************)
(* The Telegram owner gateway around an ExternalEpochV3 store              *)
(* (myuna-deploy/scripts/telegram_owner_runtime_gateway.py), its           *)
(* background summary worker (p07_d_summary_worker.py) and the AstrBot     *)
(* plugin at the other end of the socket.                                  *)
(*                                                                         *)
(* The gateway serves one connection at a time, turn or delivery outcome;  *)
(* the worker is a thread of the same process; the plugin lives elsewhere. *)
(* Only the transactions of the store are atomic, so every step between    *)
(* two of them is an action, and a crash may fall anywhere in between.     *)
(***************************************************************************)
EXTENDS ExternalEpochV3

CONSTANTS
    Worker,          \* worker_id of this gateway's summary worker
    NoTurn,          \* the gateway serves no turn
    AckMayTimeOut    \* the plugin may close the socket before it is answered

ASSUME WorkerAssumption == Worker \in Workers

VARIABLES
    claimed,   \* events whose durable ingress claim succeeded
    gateway,   \* where process_connection is, and its local variables
    channel,   \* the plugin's progress with each event
    acks,      \* delivery outcomes sent to the gateway and not yet read
    worker,    \* where BackgroundSummaryWorker is, and the job it holds
    wake,      \* the worker's Event
    retryDue,  \* the worker waits with a time limit
    shown      \* events whose reply Telegram accepted (history)

gatewayVars == <<claimed, gateway, channel, acks, worker, wake, retryDue, shown>>
workerVars == <<worker, wake, retryDue>>
pluginVars == <<channel, acks, shown>>
vars == <<storeVars, gatewayVars>>

--------------------------------------------------------------------------------

GatewayAt == {"down", "accept", "begin", "context", "chat", "cancel", "prepare",
              "outcome", "respond", "acked"}
WorkerAt == {"down", "waiting", "acquire", "provider", "commit", "failure"}
ChannelAt == {"none", "waiting", "replied", "shown", "closed"}

Ack == [event: Events, outcome: {"delivered", "cancelled"}]

Gateway == [at: GatewayAt, event: Events \cup {NoTurn}, token: PendingRow \cup {NoTurn},
            envelope: Nat, queued: BOOLEAN]

Accepting == [at |-> "accept", event |-> NoTurn, token |-> NoTurn, envelope |-> 0,
              queued |-> FALSE]
Down == [Accepting EXCEPT !.at = "down"]

GatewayTypeOK ==
    /\ TypeOK
    /\ claimed \subseteq Events
    /\ gateway \in Gateway
    /\ channel \in [Events -> ChannelAt]
    /\ acks \subseteq Ack
    /\ worker \in [at: WorkerAt, version: Nat]
    /\ wake \in BOOLEAN
    /\ retryDue \in BOOLEAN
    /\ shown \subseteq Events

\* main() recovers the store and starts the worker, which triggers it at once.
GatewayInit ==
    /\ Init
    /\ claimed = {}
    /\ gateway = Accepting
    /\ channel = [e \in Events |-> "none"]
    /\ acks = {}
    /\ worker = [at |-> "waiting", version |-> 0]
    /\ wake = TRUE
    /\ retryDue = FALSE
    /\ shown = {}

Goto(at) == gateway' = [gateway EXCEPT !.at = at]

\* The plugin is told that there is no reply, if it is still there.
Dismissed == channel' = [channel EXCEPT ![gateway.event] = "closed"]

--------------------------------------------------------------------------------
(* One turn, in the order of process_connection. *)

ClaimInbound(e) ==
    /\ gateway.at = "accept"
    /\ e \notin claimed
    /\ claimed' = claimed \cup {e}
    /\ gateway' = [Accepting EXCEPT !.at = "begin", !.event = e]
    /\ channel' = [channel EXCEPT ![e] = "waiting"]
    /\ UNCHANGED <<storeVars, workerVars, acks, shown>>

TurnBegins ==
    /\ gateway.at = "begin"
    /\ BeginTurn(gateway.event)
    /\ gateway' = [gateway EXCEPT !.at = "context", !.token = NextTurn(gateway.event)]
    /\ UNCHANGED <<claimed, workerVars, pluginVars>>

TurnRefused ==
    /\ gateway.at = "begin"
    /\ ~BeginAllowed
    /\ gateway' = Accepting
    /\ Dismissed
    /\ UNCHANGED <<storeVars, claimed, workerVars, acks, shown>>

\* context_payload reads the singleton row once; the rows it reads afterwards are
\* immutable, so the reads count as one.
LoadContext(visual) ==
    /\ gateway.at = "context"
    /\ gateway' = IF ProjectionFits(visual)
                  THEN [gateway EXCEPT !.at = "chat", !.envelope = epoch.selected]
                  ELSE [gateway EXCEPT !.at = "cancel"]
    /\ UNCHANGED <<storeVars, claimed, workerVars, pluginVars>>

\* Core answers for the envelope it was sent, or fails.
CoreChat ==
    /\ gateway.at = "chat"
    /\ \/ Goto("prepare")
       \/ Goto("cancel")
    /\ UNCHANGED <<storeVars, claimed, workerVars, pluginVars>>

TurnCancelled ==
    /\ gateway.at = "cancel"
    /\ CancelPending(gateway.token)
    /\ gateway' = Accepting
    /\ Dismissed
    /\ UNCHANGED <<claimed, workerVars, acks, shown>>

ReplyPrepared ==
    /\ gateway.at = "prepare"
    /\ PrepareDelivery(gateway.token, gateway.envelope)
    /\ Goto("outcome")
    /\ UNCHANGED <<claimed, workerVars, pluginVars>>

\* A refused preparation is a generic rejection; the turn stays pending.
ReplyRefused ==
    /\ gateway.at = "prepare"
    /\ ~PrepareAllowed(gateway.token, gateway.envelope)
    /\ gateway' = Accepting
    /\ Dismissed
    /\ UNCHANGED <<storeVars, claimed, workerVars, acks, shown>>

OutcomeRecorded ==
    /\ gateway.at = "outcome"
    /\ Goto("respond")
    /\ UNCHANGED <<storeVars, claimed, workerVars, pluginVars>>

\* record_outcome answers false: the reply is withheld.
OutcomeRejected ==
    /\ gateway.at = "outcome"
    /\ ResolveCancelled(gateway.event)
    /\ gateway' = Accepting
    /\ Dismissed
    /\ UNCHANGED <<claimed, workerVars, acks, shown>>

\* The handler cancels the turn whose reply it has already prepared.
Mutant_OutcomeFailsCancels ==
    /\ gateway.at = "outcome"
    /\ Goto("cancel")
    /\ UNCHANGED <<storeVars, claimed, workerVars, pluginVars>>

\* record_outcome raises (psql fails or times out): nothing undoes the preparation.
OutcomeFails ==
    /\ gateway.at = "outcome"
    /\ gateway' = Accepting
    /\ Dismissed
    /\ UNCHANGED <<storeVars, claimed, workerVars, acks, shown>>

Respond ==
    /\ gateway.at = "respond"
    /\ channel[gateway.event] = "waiting"
    /\ channel' = [channel EXCEPT ![gateway.event] = "replied"]
    /\ gateway' = Accepting
    /\ UNCHANGED <<storeVars, claimed, workerVars, acks, shown>>

\* The plugin has gone: sendall fails, and the reply is withheld.
RespondFails ==
    /\ gateway.at = "respond"
    /\ channel[gateway.event] = "closed"
    /\ ResolveCancelled(gateway.event)
    /\ gateway' = Accepting
    /\ UNCHANGED <<claimed, workerVars, pluginVars>>

--------------------------------------------------------------------------------
(* One delivery outcome, _process_delivery_outcome. *)

\* The transaction of resolve_delivery.
OutcomeResolved(a) ==
    /\ gateway.at = "accept"
    /\ a \in acks
    /\ acks' = acks \ {a}
    /\ \/ a.outcome = "delivered" /\ ResolveDelivered(a.event)
       \/ a.outcome = "cancelled" /\ ResolveCancelled(a.event)
    /\ gateway' = [Accepting EXCEPT !.at = "acked", !.queued = (jobs' # jobs)]
    /\ UNCHANGED <<claimed, workerVars, channel, shown>>

\* resolve_delivery raises, and the outcome is forgotten.
OutcomeRefused(a) ==
    /\ gateway.at = "accept"
    /\ a \in acks
    /\ acks' = acks \ {a}
    /\ \A i \in intents : i.event = a.event =>
          /\ a.outcome = "delivered"
          /\ \A p \in pending : ~DeliveryAllowed(i, p)
    /\ UNCHANGED <<storeVars, claimed, gateway, workerVars, channel, shown>>

\* The plugin gets its answer, and only then is the worker triggered.
AckAnswered ==
    /\ gateway.at = "acked"
    /\ wake' = (wake \/ gateway.queued)
    /\ gateway' = Accepting
    /\ UNCHANGED <<storeVars, claimed, worker, retryDue, pluginVars>>

\* The plugin gave up waiting: sendall raises, and the handler ends there.
AckUnanswered ==
    /\ AckMayTimeOut
    /\ gateway.at = "acked"
    /\ gateway' = Accepting
    /\ UNCHANGED <<storeVars, claimed, workerVars, pluginVars>>

--------------------------------------------------------------------------------
(* The plugin, per event. *)

Moves(e, from, to) ==
    /\ channel[e] = from
    /\ channel' = [channel EXCEPT ![e] = to]

\* send_envelope times out.
PluginGivesUp(e) ==
    /\ Moves(e, "waiting", "closed")
    /\ UNCHANGED <<storeVars, claimed, gateway, workerVars, acks, shown>>

TelegramAccepts(e) ==
    /\ Moves(e, "replied", "shown")
    /\ shown' = shown \cup {e}
    /\ UNCHANGED <<storeVars, claimed, gateway, workerVars, acks>>

\* after_message_sent reports only a successful send.
TelegramRefuses(e) ==
    /\ Moves(e, "replied", "closed")
    /\ UNCHANGED <<storeVars, claimed, gateway, workerVars, acks, shown>>

\* A reply that was never sent is reported as delivered.
Mutant_PacingReportsDelivered(e) ==
    /\ Moves(e, "replied", "closed")
    /\ acks' = acks \cup {[event |-> e, outcome |-> "delivered"]}
    /\ UNCHANGED <<storeVars, claimed, gateway, workerVars, shown>>

\* The handler is cancelled while it paces the reply.
PacingCancelled(e) ==
    /\ Moves(e, "replied", "closed")
    /\ acks' = acks \cup {[event |-> e, outcome |-> "cancelled"]}
    /\ UNCHANGED <<storeVars, claimed, gateway, workerVars, shown>>

\* A reply that was sent is reported as cancelled.
Mutant_CommitReportsCancelled(e) ==
    /\ Moves(e, "shown", "closed")
    /\ acks' = acks \cup {[event |-> e, outcome |-> "cancelled"]}
    /\ UNCHANGED <<storeVars, claimed, gateway, workerVars, shown>>

CommitHybridDelivery(e) ==
    /\ Moves(e, "shown", "closed")
    /\ acks' = acks \cup {[event |-> e, outcome |-> "delivered"]}
    /\ UNCHANGED <<storeVars, claimed, gateway, workerVars, shown>>

\* The acknowledgement is sent once; if the connection fails it is lost.
AckLost(e) ==
    /\ Moves(e, "shown", "closed")
    /\ UNCHANGED <<storeVars, claimed, gateway, workerVars, acks, shown>>

--------------------------------------------------------------------------------
(* BackgroundSummaryWorker._run and SummaryWorkerCycle.run_once. *)

Rests(retry) ==
    /\ worker' = [at |-> "waiting", version |-> 0]
    /\ retryDue' = retry

WorkerWakes ==
    /\ worker.at = "waiting"
    /\ wake \/ retryDue
    /\ wake' = FALSE
    /\ worker' = [worker EXCEPT !.at = "acquire"]
    /\ UNCHANGED <<storeVars, claimed, gateway, pluginVars, retryDue>>

WorkerAcquires ==
    /\ worker.at = "acquire"
    /\ \E j \in jobs :
          /\ \/ j \in LeasedTo(Worker) /\ Reconstructs(j) /\ UNCHANGED storeVars
             \/ AcquireSummaryJob(Worker, j)
          /\ worker' = [at |-> "provider", version |-> j.version]
    /\ UNCHANGED <<claimed, gateway, pluginVars, wake, retryDue>>

WorkerIdles ==
    /\ worker.at = "acquire"
    /\ \A j \in jobs : j.status \notin {"queued", "leased"}
    /\ Rests(FALSE)
    /\ UNCHANGED <<storeVars, claimed, gateway, pluginVars, wake>>

ProviderSummarizes ==
    /\ worker.at = "provider"
    /\ \E at \in {"commit", "failure"} : worker' = [worker EXCEPT !.at = at]
    /\ UNCHANGED <<storeVars, claimed, gateway, pluginVars, wake, retryDue>>

WorkerCommits ==
    /\ worker.at = "commit"
    /\ \E j \in jobs :
          /\ j.version = worker.version
          /\ CommitSummaryCandidate(Worker, j)
    /\ Rests(FALSE)
    /\ UNCHANGED <<claimed, gateway, pluginVars, wake>>

\* The worker does not come back for the attempt it has just requeued.
Mutant_FailureWithoutRetry ==
    /\ worker.at = "failure"
    /\ \E j \in jobs :
          /\ j.version = worker.version
          /\ RecordSummaryFailure(Worker, j)
    /\ Rests(FALSE)
    /\ UNCHANGED <<claimed, gateway, pluginVars, wake>>

WorkerRecordsFailure ==
    /\ worker.at = "failure"
    /\ \E j \in jobs :
          /\ j.version = worker.version
          /\ RecordSummaryFailure(Worker, j)
          /\ Rests(j.attempts < MaxAttempts)
    /\ UNCHANGED <<claimed, gateway, pluginVars, wake>>

\* A refused transaction ends the cycle as if there were nothing to do.
Mutant_StoreErrorForgets ==
    /\ worker.at \in {"acquire", "commit", "failure"}
    /\ Rests(FALSE)
    /\ UNCHANGED <<storeVars, claimed, gateway, pluginVars, wake>>

\* The database refuses a transaction (locked, disk): the commit becomes a failure
\* to record, and any other step ends the cycle with a retry due.
WorkerStoreError ==
    /\ \/ worker.at = "commit" /\ worker' = [worker EXCEPT !.at = "failure"]
          /\ UNCHANGED retryDue
       \/ worker.at \in {"acquire", "failure"} /\ Rests(TRUE)
    /\ UNCHANGED <<storeVars, claimed, gateway, pluginVars, wake>>

--------------------------------------------------------------------------------
(* The process dies, with everything it holds in memory; the listening socket,
   owned by systemd, and the outcomes queued on it stay. *)

Crash ==
    /\ gateway.at # "down"
    /\ gateway' = Down
    /\ worker' = [at |-> "down", version |-> 0]
    /\ wake' = FALSE
    /\ retryDue' = FALSE
    /\ channel' = [e \in Events |-> IF channel[e] = "waiting" THEN "closed" ELSE channel[e]]
    /\ UNCHANGED <<storeVars, claimed, acks, shown>>

Restart ==
    /\ gateway.at = "down"
    /\ StartupRecover
    /\ gateway' = Accepting
    /\ worker' = [at |-> "waiting", version |-> 0]
    /\ wake' = TRUE
    /\ UNCHANGED <<claimed, pluginVars, retryDue>>

--------------------------------------------------------------------------------

GatewayNext ==
    \/ \E e \in Events : ClaimInbound(e)
    \/ TurnBegins \/ TurnRefused
    \/ \E visual \in BOOLEAN : LoadContext(visual)
    \/ CoreChat \/ TurnCancelled
    \/ ReplyPrepared \/ ReplyRefused
    \/ OutcomeRecorded \/ OutcomeRejected \/ OutcomeFails
    \/ Respond \/ RespondFails
    \/ \E a \in acks : OutcomeResolved(a)
    \/ \E a \in acks : OutcomeRefused(a)
    \/ AckAnswered \/ AckUnanswered

PluginNext ==
    \E e \in Events :
        \/ PluginGivesUp(e) \/ TelegramAccepts(e) \/ TelegramRefuses(e)
        \/ PacingCancelled(e) \/ CommitHybridDelivery(e) \/ AckLost(e)

WorkerNext ==
    \/ WorkerWakes \/ WorkerAcquires \/ WorkerIdles \/ ProviderSummarizes
    \/ WorkerCommits \/ WorkerRecordsFailure \/ WorkerStoreError

SystemNext == GatewayNext \/ PluginNext \/ WorkerNext \/ Crash \/ Restart

SystemSpec == GatewayInit /\ [][SystemNext]_vars

\* Threads are scheduled and systemd restarts the service. Two things are assumed
\* to succeed some day if tried again and again: starting the worker, in a process
\* that may crash every time, and a transaction of the worker.
Fairness ==
    /\ WF_vars(WorkerNext)
    /\ WF_vars(AckAnswered)
    /\ WF_vars(Restart)
    /\ SF_vars(WorkerWakes)
    /\ SF_vars(WorkerAcquires \/ WorkerIdles)
    /\ SF_vars(WorkerCommits \/ WorkerRecordsFailure)

FairSystemSpec == SystemSpec /\ Fairness

--------------------------------------------------------------------------------
(* Properties. *)

\* A turn is in the epoch only if Telegram accepted its reply: neither a repeated
\* or late outcome, nor a crash, nor a rejected ingress outcome makes the gateway
\* record a reply the owner was not shown.
CommittedWereShown == \A k \in 1..Len(turns) : turns[k].event \in shown

\* A reply the gateway has cancelled never reaches Telegram afterwards.
WithheldNeverShown == \A e \in shown : receipts[e].outcome # "cancelled"

\* The turn process_connection is serving is still the store's open turn when it
\* comes back to it from Core, from psql or from the socket: its cancel_pending
\* and its resolve_delivery("cancelled") cannot fail, so no error path of the
\* handler leaves by way of a second error.
ServedTurnIsOpen ==
    /\ gateway.at \in {"context", "chat", "cancel", "prepare"} =>
          CancelAllowed(gateway.token)
    /\ gateway.at \in {"outcome", "respond"} =>
          /\ \E i \in intents : i.event = gateway.event
          /\ receipts[gateway.event] = NoReceipt

\* A lease has a holder: while the gateway is up, a leased job is the one the
\* worker is busy with, or the worker is about to come back for it.
LeaseHasHolder ==
    \A j \in jobs : j.status = "leased" =>
        \/ gateway.at = "down"
        \/ /\ j.owner = Worker
           /\ \/ worker.at \in {"provider", "commit", "failure"} /\ worker.version = j.version
              \/ worker.at = "acquire"
              \/ worker.at = "waiting" /\ retryDue

\* What a thread of the gateway holds -- the handler its turn, the worker its lease --
\* is still its own in the store when it comes back to it.
WorkInHandIsOwn == ServedTurnIsOpen /\ LeaseHasHolder

\* A queued job is never forgotten: the worker is on its way to it, or the gateway
\* is about to wake it. (What the wake-up in _process_delivery_outcome is for.)
QueuedJobNoticed ==
    (\E j \in jobs : j.status = "queued") =>
        \/ gateway.at = "down"
        \/ gateway.at = "acked" /\ gateway.queued
        \/ worker.at \notin {"down", "waiting"}
        \/ wake
        \/ retryDue

\* Where it is forgotten after all, that was the end of the acknowledgement that queued
\* it, which the plugin no longer waited for (telegram_owner_runtime_gateway.py:1805-1816),
\* and the job is one nobody has tried yet: no failure, refused transaction, lost lease
\* or crash makes the worker forget a job it is to try again.
ForgottenOnlyUnanswered ==
    [][QueuedJobNoticed /\ ~QueuedJobNoticed' =>
          /\ gateway.at = "acked" /\ gateway.queued /\ gateway' = Accepting
          /\ \A j \in jobs : j.status = "queued" => j.attempts = 0]_vars

\* A prepared reply whose state has not moved can be committed: the summary job
\* that its commit may queue, in the same transaction, is never too large to build.
DeliveryFits ==
    \A i \in intents, p \in pending : Undrifted(i, p) => DeliveryAllowed(i, p)

\* The summary runs outside the foreground turn (SummaryWorkerCycle): a reply
\* that was prepared can still be committed when its acknowledgement arrives.
PreparedTurnDeliverable ==
    \A i \in intents, p \in pending : Undrifted(i, p)

\* Every job that is queued or leased is committed or given up in the end, with a
\* provider that may fail every time and a process that may crash at any time.
JobsSettle ==
    \A v \in 1..Cardinality(Events) :
        (\E j \in jobs : j.version = v /\ j.status \in {"queued", "leased"})
            ~> (\E j \in jobs : j.version = v /\ j.status \in {"committed", "blocked"})
================================================================================
