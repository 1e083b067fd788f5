--------------------------- MODULE OwnerPrivateMemory ---------------------------
(***************************************************************************)
(* The owner-private memory runtime around the lossless archive            *)
(* (myuna-deploy/scripts/p07_owner_private_memory_runtime_v1.py), the two  *)
(* files it derives from the archive (episodic_memory/index.py,            *)
(* temporal_bridge.py), and the gateway process and plugin that drive it.  *)
(*                                                                         *)
(* The gateway serves one connection at a time.  The archive, the temporal *)
(* index, the episodic index and the diary are four files, so a crash or   *)
(* an I/O error may fall between any two of their writes, and inside the   *)
(* write of an index, which leaves a file of its own behind.               *)
(***************************************************************************)
EXTENDS LosslessArchive

CONSTANTS
    Temporal,        \* turns whose message is a temporal command
    Requests,        \* turns whose message asks for a profile change
    Absent, Torn,    \* a file that does not exist, one that is cut short
    NoTurn

ASSUME KindAssumption ==
    /\ Temporal \subseteq Turns /\ Requests \subseteq Turns \ Temporal
    /\ NoTurn \notin Turns

VARIABLES
    files,     \* the derived files beside the archive
    diary,     \* profile changes appended to the reflective diary
    gateway,   \* what the gateway process does
    staged,    \* _pending_profile_requests, in its memory
    p08,       \* source turns of the temporal events recorded by Core (external)
    claimed,   \* inbound events that were claimed
    channel,   \* the plugin's progress with each turn
    acks,      \* delivery outcomes the gateway has not read yet
    shown,     \* turns whose reply Telegram accepted (history)
    brittle    \* whether a write may fail while the process lives on (never changes)

runtimeVars == <<files, diary, gateway, staged>>
pluginVars == <<channel, acks, shown>>
vars == <<archiveVars, runtimeVars, p08, claimed, pluginVars, brittle>>

--------------------------------------------------------------------------------

TemporalSnapshot == [head: Digest, cursor: Nat, resolved: SUBSET Turns,
                     blocked: SUBSET Turns]
Snapshot == [turns: Digest, temporal: TemporalSnapshot]
Files == [temporal: TemporalSnapshot \cup {Absent},   \* temporal-interval-index.json
          tmp: BOOLEAN,                               \* its .tmp exists
          index: Snapshot \cup {Absent},              \* episodic-index.json
          next: Snapshot \cup {Absent, Torn}]         \* its .next sidecar

ASSUME FileAssumption ==
    /\ Absent # Torn
    /\ \A mark \in {Absent, Torn} : mark \notin TemporalSnapshot \cup Snapshot

GatewayAt == {"down", "accept", "command", "context", "chat", "prepare", "outcome",
              "respond", "derive", "profile"}
ChannelAt == {"none", "waiting", "replied", "shown", "closed"}
Ack == [turn: Turns, outcome: {"delivered", "cancelled"}]

MemoryTypeOK ==
    /\ TypeOK
    /\ files \in Files
    /\ diary \in Seq(Turns)
    /\ gateway \in [at: GatewayAt, turn: Turns \cup {NoTurn}, head: Digest \cup {NoHead}]
    /\ staged \subseteq Turns
    /\ p08 \in Seq(Turns)
    /\ claimed \subseteq Turns
    /\ channel \in [Turns -> ChannelAt]
    /\ acks \subseteq Ack
    /\ shown \subseteq Turns
    /\ brittle \in BOOLEAN

Accepting == [at |-> "accept", turn |-> NoTurn, head |-> NoHead]
Down == [Accepting EXCEPT !.at = "down"]
Goto(at) == gateway' = [gateway EXCEPT !.at = at]

MemoryInit ==
    /\ Init
    /\ files = [temporal |-> Absent, tmp |-> FALSE, index |-> Absent, next |-> Absent]
    /\ diary = <<>>
    /\ gateway = Down
    /\ staged = {}
    /\ p08 = <<>>
    /\ claimed = {}
    /\ channel = [t \in Turns |-> "none"]
    /\ acks = {}
    /\ shown = {}
    /\ brittle \in BOOLEAN

--------------------------------------------------------------------------------
(* The derived files: what a write leaves when it ends, and when it does not. *)

EmptyTemporal == [head |-> metadata.head, cursor |-> 0, resolved |-> {}, blocked |-> {}]

\* rebind_temporal_interval_archive_head
Rebound(f) ==
    IF f.temporal = Absent THEN EmptyTemporal
    ELSE [f.temporal EXCEPT !.head = metadata.head]

AfterRebind(f) == [f EXCEPT !.temporal = Rebound(f)]

\* The .tmp file of the temporal index is opened O_EXCL, and nothing ever removes one
\* that a killed process left.
RebindFails(f) == f.tmp /\ Rebound(f) # f.temporal

\* derive_snapshot
Closure(f) == [turns |-> metadata.head, temporal |-> f.temporal]

\* The index is written in place.
Mutant_IndexLeftInPlace(f) == {[f EXCEPT !.index = Torn]}

\* An index write that stops after its sidecar was opened.
IndexLeft(f) == {[f EXCEPT !.next = Torn], [f EXCEPT !.next = Closure(f)]}

\* recover_or_write_snapshot: the files it leaves, or none when it raises.
Recovered(f, explicit) ==
    IF f.next # Absent
    THEN IF f.next = Closure(f)
         THEN {[f EXCEPT !.index = f.next, !.next = Absent]}
         ELSE {}
    ELSE IF \/ f.index \in {Absent, Closure(f)}
            \/ f.index.turns = metadata.head /\ explicit
            \/ IsStrictPrefix(f.index.turns, metadata.head)
         THEN {[f EXCEPT !.index = Closure(f)]}
         ELSE {}

\* _rebind_temporal_archive_head and then recover_or_write_snapshot
Derived(f, explicit) ==
    IF RebindFails(f) THEN {} ELSE Recovered(AfterRebind(f), explicit)

\* The episodic index is derived before the temporal index is rebound.
Mutant_StoppedIndexFirst(f, explicit) ==
    {f} \cup IF f.temporal = Absent THEN {} ELSE IndexLeft(f)

\* Where the two stop when one of them raises.
Stopped(f, explicit) ==
    {f} \cup
    IF RebindFails(f) THEN {}
    ELSE LET g == AfterRebind(f) IN
         {g} \cup IF /\ g.next = Absent
                     /\ g.index # Closure(g)
                     /\ Recovered(g, explicit) # {}
                  THEN IndexLeft(g) ELSE {}

\* A process killed inside the write of the temporal index leaves its .tmp.
Killed(f, explicit) ==
    Stopped(f, explicit) \cup
    IF Rebound(f) # f.temporal THEN {[f EXCEPT !.tmp = TRUE]} ELSE {}

--------------------------------------------------------------------------------
(* Starting and dying. *)

\* initialize: the only caller that asks for an explicit rebuild.
Initialize ==
    /\ gateway.at = "down"
    /\ files' \in Derived(files, TRUE)
    /\ gateway' = Accepting
    /\ UNCHANGED <<archiveVars, diary, staged, p08, claimed, pluginVars>>

\* initialize raises, or the process dies in it; the service is started again.
InitializeStops ==
    /\ gateway.at = "down"
    /\ files' \in Killed(files, TRUE)
    /\ UNCHANGED <<archiveVars, diary, gateway, staged, p08, claimed, pluginVars>>

Dismissed(t) == channel' = [channel EXCEPT ![t] = "closed"]

Dies ==
    /\ gateway' = Down
    /\ staged' = {}
    /\ IF gateway.turn \in Turns /\ channel[gateway.turn] = "waiting"
       THEN Dismissed(gateway.turn) ELSE UNCHANGED channel
    /\ UNCHANGED <<archiveVars, diary, p08, claimed, acks, shown>>

Crash ==
    /\ gateway.at # "down"
    /\ Dies
    /\ UNCHANGED files

--------------------------------------------------------------------------------
(* One inbound turn. *)

ClaimInbound(t) ==
    /\ gateway.at = "accept"
    /\ t \notin claimed
    /\ claimed' = claimed \cup {t}
    /\ gateway' = [Accepting EXCEPT
                     !.at = IF t \in Temporal THEN "command" ELSE "context",
                     !.turn = t]
    /\ channel' = [channel EXCEPT ![t] = "waiting"]
    /\ UNCHANGED <<archiveVars, files, diary, staged, p08, acks, shown>>

\* Core records the event of a temporal command, with the turn as its source.
TemporalRecorded ==
    /\ gateway.at = "command"
    /\ p08' = Append(p08, gateway.turn)
    /\ Goto("prepare")
    /\ UNCHANGED <<archiveVars, files, diary, staged, claimed, pluginVars>>

\* record_incomplete_turn: the context or Core failed, or the temporal command, which
\* Core may have recorded before its answer was lost.
TurnAbandoned ==
    /\ gateway.at \in {"command", "context", "chat"}
    /\ Abandon(gateway.turn)
    /\ \/ UNCHANGED p08
       \/ gateway.at = "command" /\ p08' = Append(p08, gateway.turn)
    /\ Dismissed(gateway.turn)
    /\ gateway' = Accepting
    /\ UNCHANGED <<files, diary, staged, claimed, acks, shown>>

\* Every new event is taken as settled.
Mutant_AdvancedUnsourced(f) ==
    LET sources == {p08[i] : i \in (f.temporal.cursor + 1)..Len(p08)} IN
    [head |-> metadata.head, cursor |-> Len(p08),
     resolved |-> f.temporal.resolved \cup sources,
     blocked |-> f.temporal.blocked]

\* advance_temporal_interval_index: each new event, of an interval of its own, is settled
\* by the turns archived at this moment, for good.
Advanced(f) ==
    LET sources == {p08[i] : i \in (f.temporal.cursor + 1)..Len(p08)} IN
    [head |-> metadata.head, cursor |-> Len(p08),
     resolved |-> f.temporal.resolved \cup (sources \cap Archived),
     blocked |-> f.temporal.blocked \cup (sources \ Archived)]

\* build_context rewrites the index only when it is that of the snapshot just replaced.
IndexFollows(f) == f.index = Closure(f)

ContextFiles(f) ==
    LET g == [f EXCEPT !.temporal = Advanced(f)] IN
    IF g = f THEN {f}
    ELSE IF f.tmp THEN {}
    ELSE IF ~IndexFollows(f) \/ f.next # Absent THEN {g}
    ELSE {[g EXCEPT !.index = Closure(g)]} \cup (IF brittle THEN IndexLeft(g) ELSE {})

\* The index is advanced before the temporal snapshot it was derived with.
Mutant_ContextKilledIndexFirst(f) ==
    LET g == [f EXCEPT !.temporal = Advanced(f)] IN
    IF g = f THEN {} ELSE {[f EXCEPT !.index = Closure(g)]}

ContextKilled(f) ==
    LET g == [f EXCEPT !.temporal = Advanced(f)] IN
    IF g = f THEN {}
    ELSE {[f EXCEPT !.tmp = TRUE]} \cup
         (IF f.tmp THEN {}
          ELSE {g} \cup (IF IndexFollows(f) /\ f.next = Absent THEN IndexLeft(g) ELSE {}))

\* P08 answers with the events after the cursor, or is unavailable.
BuildContext ==
    /\ gateway.at = "context"
    /\ files' \in ContextFiles(files) \cup {files}
    /\ gateway' = [gateway EXCEPT !.at = "chat", !.head = metadata.head]
    /\ UNCHANGED <<archiveVars, diary, staged, p08, claimed, pluginVars>>

\* The write of the temporal index raises an OSError, a generic rejection of the turn.
ContextRejected ==
    /\ gateway.at = "context"
    /\ Advanced(files) # files.temporal
    /\ files.tmp \/ brittle
    /\ Dismissed(gateway.turn)
    /\ gateway' = Accepting
    /\ UNCHANGED <<archiveVars, files, diary, staged, p08, claimed, acks, shown>>

ContextCrash ==
    /\ gateway.at = "context"
    /\ files' \in ContextKilled(files)
    /\ Dies

CoreReplies ==
    /\ gateway.at = "chat"
    /\ Goto("prepare")
    /\ UNCHANGED <<archiveVars, files, diary, staged, p08, claimed, pluginVars>>

\* The profile change is applied with the preparation.
Mutant_AppliedWhenPrepared ==
    /\ gateway.at = "prepare"
    /\ Prepare(gateway.turn, gateway.head)
    /\ diary' = IF gateway.turn \in Requests THEN Append(diary, gateway.turn) ELSE diary
    /\ Goto("outcome")
    /\ UNCHANGED <<files, staged, p08, claimed, pluginVars>>

\* prepare_delivery or prepare_control_delivery, and _stage_profile_request.
ReplyPrepared ==
    /\ gateway.at = "prepare"
    /\ Prepare(gateway.turn, gateway.head)
    /\ staged' = staged \cup ({gateway.turn} \cap Requests)
    /\ Goto("outcome")
    /\ UNCHANGED <<files, diary, p08, claimed, pluginVars>>

OutcomeRecorded ==
    /\ gateway.at = "outcome"
    /\ Goto("respond")
    /\ UNCHANGED <<archiveVars, files, diary, staged, p08, claimed, pluginVars>>

\* record_outcome answers false: the delivery is cancelled and the turn rejected.
OutcomeRejected ==
    /\ gateway.at = "outcome"
    /\ ResolveCancelled(gateway.turn)
    /\ staged' = staged \ {gateway.turn}
    /\ Dismissed(gateway.turn)
    /\ gateway' = Accepting
    /\ UNCHANGED <<files, diary, p08, claimed, acks, shown>>

\* record_outcome raises: the preparation stays.
OutcomeFails ==
    /\ gateway.at = "outcome"
    /\ Dismissed(gateway.turn)
    /\ gateway' = Accepting
    /\ UNCHANGED <<archiveVars, files, diary, staged, p08, claimed, acks, shown>>

\* The delivery is cancelled before the reply is sent.
Mutant_RespondCancels ==
    /\ gateway.at = "respond"
    /\ ResolveCancelled(gateway.turn)
    /\ channel' = [channel EXCEPT ![gateway.turn] = "replied"]
    /\ gateway' = Accepting
    /\ UNCHANGED <<files, diary, staged, p08, claimed, acks, shown>>

Respond ==
    /\ gateway.at = "respond"
    /\ channel[gateway.turn] = "waiting"
    /\ channel' = [channel EXCEPT ![gateway.turn] = "replied"]
    /\ gateway' = Accepting
    /\ UNCHANGED <<archiveVars, files, diary, staged, p08, claimed, acks, shown>>

RespondFails ==
    /\ gateway.at = "respond"
    /\ channel[gateway.turn] = "closed"
    /\ ResolveCancelled(gateway.turn)
    /\ staged' = staged \ {gateway.turn}
    /\ gateway' = Accepting
    /\ UNCHANGED <<files, diary, p08, claimed, pluginVars>>

--------------------------------------------------------------------------------
(* One delivery outcome, resolve_delivery of the runtime. *)

\* The transaction of the archive comes first.
DeliveryResolved(a) ==
    /\ gateway.at = "accept"
    /\ a \in acks /\ a.outcome = "delivered"
    /\ ResolveDelivered(a.turn)
    /\ acks' = acks \ {a}
    /\ gateway' = [Accepting EXCEPT !.at = "derive", !.turn = a.turn]
    /\ UNCHANGED <<files, diary, staged, p08, claimed, channel, shown>>

CancellationResolved(a) ==
    /\ gateway.at = "accept"
    /\ a \in acks /\ a.outcome = "cancelled"
    /\ ResolveCancelled(a.turn)
    /\ acks' = acks \ {a}
    /\ staged' = staged \ {a.turn}
    /\ UNCHANGED <<files, diary, gateway, p08, claimed, channel, shown>>

\* _archive_resolution
DerivativesWritten ==
    /\ gateway.at = "derive"
    /\ files' \in Derived(files, FALSE)
    /\ Goto("profile")
    /\ UNCHANGED <<archiveVars, diary, staged, p08, claimed, pluginVars>>

\* ... whose errors end as a derivative_gap_code.
DerivativeGap ==
    /\ gateway.at = "derive"
    /\ brittle \/ Derived(files, FALSE) = {}
    /\ files' \in Stopped(files, FALSE)
    /\ Goto("profile")
    /\ UNCHANGED <<archiveVars, diary, staged, p08, claimed, pluginVars>>

DeriveCrash ==
    /\ gateway.at = "derive"
    /\ files' \in Killed(files, FALSE)
    /\ Dies

\* _commit_staged_profile_request: popped first, then appended or refused.
ProfileCommitted ==
    /\ gateway.at = "profile"
    /\ staged' = staged \ {gateway.turn}
    /\ \/ gateway.turn \in staged /\ diary' = Append(diary, gateway.turn)
       \/ UNCHANGED diary
    /\ gateway' = Accepting
    /\ UNCHANGED <<archiveVars, files, p08, claimed, pluginVars>>

--------------------------------------------------------------------------------
(* The plugin. *)

Moves(t, from, to) ==
    /\ channel[t] = from
    /\ channel' = [channel EXCEPT ![t] = to]

\* send_envelope times out, or Telegram refuses the message.
PluginGivesUp(t) ==
    /\ \E from \in {"waiting", "replied"} : Moves(t, from, "closed")
    /\ UNCHANGED <<archiveVars, runtimeVars, p08, claimed, acks, shown>>

TelegramAccepts(t) ==
    /\ Moves(t, "replied", "shown")
    /\ shown' = shown \cup {t}
    /\ UNCHANGED <<archiveVars, runtimeVars, p08, claimed, acks>>

PacingCancelled(t) ==
    /\ Moves(t, "replied", "closed")
    /\ acks' = acks \cup {[turn |-> t, outcome |-> "cancelled"]}
    /\ UNCHANGED <<archiveVars, runtimeVars, p08, claimed, shown>>

CommitHybridDelivery(t) ==
    /\ Moves(t, "shown", "closed")
    /\ acks' = acks \cup {[turn |-> t, outcome |-> "delivered"]}
    /\ UNCHANGED <<archiveVars, runtimeVars, p08, claimed, shown>>

\* The outcome is sent once; a broken connection loses it.
AckLost(t) ==
    /\ Moves(t, "shown", "closed")
    /\ UNCHANGED <<archiveVars, runtimeVars, p08, claimed, acks, shown>>

\* One step of the runtime, the gateway, the plugin or the fault model.
MemoryStep ==
    \/ Initialize \/ InitializeStops \/ Crash
    \/ TemporalRecorded \/ TurnAbandoned
    \/ BuildContext \/ ContextRejected \/ ContextCrash \/ CoreReplies
    \/ ReplyPrepared \/ OutcomeRecorded \/ OutcomeRejected \/ OutcomeFails
    \/ Respond \/ RespondFails
    \/ \E a \in acks : DeliveryResolved(a) \/ CancellationResolved(a)
    \/ DerivativesWritten \/ DerivativeGap \/ DeriveCrash \/ ProfileCommitted
    \/ \E t \in Turns :
          \/ ClaimInbound(t) \/ PluginGivesUp(t) \/ TelegramAccepts(t)
          \/ PacingCancelled(t) \/ CommitHybridDelivery(t) \/ AckLost(t)

MemoryNext == MemoryStep /\ UNCHANGED brittle

MemorySpec == MemoryInit /\ [][MemoryNext]_vars

--------------------------------------------------------------------------------
(* What the composition guarantees. *)

Whole(file) == file \notin {Absent, Torn}

\* The archive holds only replies that Telegram accepted, and none that the gateway
\* withheld or abandoned, whatever is cancelled, lost or cut short in between
\* (telegram_owner_runtime_gateway.py:1682-1752, 2514-2530; main.py:970-985).
ArchiveIsWhatWasShown ==
    /\ Archived \subseteq shown
    /\ \A t \in shown : ~Has(t, "cancelled")
    /\ \A r \in lifecycle : r.turn \notin shown

\* No crash and no failed write leaves an index, or a sidecar that a later start could
\* promote, that names turns or temporal events the archive does not have
\* (index.py:1211-1311); the errors index_ahead_of_archive and index_raw_source_conflict
\* stay unreachable.
IndexBehindArchive ==
    \A file \in {files.index, files.next} : Whole(file) =>
        /\ IsPrefix(file.turns, metadata.head)
        /\ file.temporal.head = file.turns
        /\ Whole(files.temporal)
        /\ file.temporal.cursor =< files.temporal.cursor

\* A crash by itself leaves a sidecar that the next start throws an error at only if it
\* is cut short: a whole one is the index of the archive as it stands (index.py:1228-1239).
SidecarPromotable ==
    ~brittle /\ gateway.at = "down" /\ Whole(files.next) /\ ~RebindFails(files) =>
        Derived(files, TRUE) # {}

\* What a start finds beside the archive: never ahead of it, and promotable when whole.
IndexSound == IndexBehindArchive /\ SidecarPromotable

\* A temporal interval is derived only from a turn of the archive, even when the next
\* message arrives before the delivery of the command is reported; the event is blocked
\* instead (temporal_bridge.py:297-307).
TemporalSourcesArchived ==
    files.temporal # Absent =>
        /\ files.temporal.resolved \subseteq Archived
        /\ files.temporal.resolved \cap files.temporal.blocked = {}
        /\ IsPrefix(files.temporal.head, metadata.head)

\* A profile change is applied at most once, and only after the turn that asked for it
\* was archived, although the request lives in the memory of a process that may die at
\* any point (p07_owner_private_memory_runtime_v1.py:757-905).
ProfileAppliedOnce ==
    /\ \A i, j \in DOMAIN diary : diary[i] = diary[j] => i = j
    /\ \A i \in DOMAIN diary : diary[i] \in (Requests \cap Archived) \ staged

\* Taking in a delivery report archives the turn at once, in whatever state the derived
\* files are (ADR-066: "Raw archival never depends on P08 writer availability").
ArchivalNeverWaits ==
    [][\A a \in acks \ acks' : a.outcome = "delivered" => a.turn \in Archived']_vars

\* A gateway that went down can start again: its derived files can be rebuilt.
TemporalIndexRebuildable == gateway.at = "down" => ~RebindFails(files)
================================================================================
