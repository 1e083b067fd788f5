---------------------------- MODULE ExternalEpochV3 ----------------------------
(***************************************************************************)
(* The durable store of one external-context epoch                         *)
(* (myuna-deploy/scripts/external_context_epoch_v3.py).                    *)
(*                                                                         *)
(* Every operation of the class is one BEGIN IMMEDIATE transaction, hence  *)
(* one action here; an operation that raises rolls its transaction back,   *)
(* hence is a step that changes nothing.  What the operation requires is   *)
(* named ...Allowed where a caller behaves differently after a rejection.  *)
(*                                                                         *)
(* Next is the most general client: any caller, any operation, any order.  *)
(* ExternalEpochGateway drives the same actions the way the gateway does.  *)
(*                                                                         *)
(* An operator named Mutant_... is a bug the code could have had: no other *)
(* definition uses it, and one of the properties is violated with it.      *)
(***************************************************************************)
EXTENDS Integers, Sequences, FiniteSets, Functions

CONSTANTS
    Events,               \* inbound events; each carries one delivery token
    Workers,              \* summary worker ids
    Nobody,               \* lease_owner IS NULL
    Size,                 \* characters of the turn an event produces
    VerbatimFirst,        \* projection policy is the verbatim-first overlay
    SoftTriggerTurns,     \* SOFT_SUMMARY_TRIGGER_TURNS
    SoftTriggerChars,     \* SOFT_SUMMARY_TRIGGER_CHARACTERS
    JobTurnLimit,         \* SUMMARY_JOB_TURN_LIMIT
    JobCharLimit,         \* MAX_SUMMARY_SOURCE_CHARACTERS
    RecentTurns,          \* MAX_RECENT_TURNS
    RecentChars,          \* MAX_RECENT_CHARACTERS
    VerbatimTurns,        \* MAX_VERBATIM_RECENT_TURNS
    VerbatimChars,        \* MAX_VERBATIM_RECENT_CHARACTERS
    MaxAttempts           \* MAX_SUMMARY_ATTEMPTS

ASSUME SizeAssumption    == Size \in [Events -> Nat]
ASSUME NobodyAssumption  == Nobody \notin Workers
ASSUME LimitAssumption   == /\ SoftTriggerTurns \in Nat \ {0}
                            /\ JobTurnLimit \in Nat \ {0}
                            /\ SoftTriggerChars \in Nat \ {0}
                            /\ RecentTurns \in Nat
                            /\ RecentChars \in Nat
                            /\ MaxAttempts \in Nat \ {0}

VARIABLES
    epoch,      \* the singleton row of epoch_state
    revisions,  \* epoch_revisions, by revision
    turns,      \* committed_turns and their provenance, by sequence
    summaries,  \* committed_summaries, by summary_version
    pending,    \* pending_turns
    intents,    \* delivery_intents
    receipts,   \* delivery_receipts, by event
    jobs        \* summary_jobs

storeVars == <<epoch, revisions, turns, summaries, pending, intents, receipts, jobs>>

--------------------------------------------------------------------------------
(* Rows. A turn digest hashes the parent digest with the turn's own text: it is
   the list of events from the start of the chain. *)

Digests == Seq(Events)
ZeroDigest == <<>>
TurnDigest(parent, e) == Append(parent, e)

Outcomes == {"none", "delivered", "cancelled", "abandoned"}
JobStatus == {"queued", "leased", "committed", "blocked"}

EpochRow == [selected: Nat, max: Nat, sequence: Nat, digest: Digests, summary: Nat]
RevisionRow == [sequence: Nat, digest: Digests, summary: Nat]
TurnRow == [event: Events, parent: Digests, digest: Digests, provenance: Nat]
SummaryRow == [end: Nat, terminal: Digests]
PendingRow == [event: Events, base: Nat, sequence: Nat, parent: Digests]
IntentRow == [event: Events, base: Nat, sequence: Nat, provenance: Nat]
ReceiptRow == [outcome: Outcomes, revision: Nat]
JobRow == [version: Nat, base: Nat, end: Nat, terminal: Digests,
           status: JobStatus, owner: Workers \cup {Nobody}, attempts: Nat]

NoReceipt == [outcome |-> "none", revision |-> 0]

TypeOK ==
    /\ epoch \in EpochRow
    /\ revisions \in [0..epoch.max -> RevisionRow]
    /\ turns \in Seq(TurnRow)
    /\ summaries \in Seq(SummaryRow)
    /\ pending \subseteq PendingRow
    /\ intents \subseteq IntentRow
    /\ receipts \in [Events -> ReceiptRow]
    /\ jobs \subseteq JobRow

Init ==
    /\ epoch = [selected |-> 0, max |-> 0, sequence |-> 0,
                digest |-> ZeroDigest, summary |-> 0]
    /\ revisions = [r \in 0..0 |->
                       [sequence |-> 0, digest |-> ZeroDigest, summary |-> 0]]
    /\ turns = <<>>
    /\ summaries = <<>>
    /\ pending = {}
    /\ intents = {}
    /\ receipts = [e \in Events |-> NoReceipt]
    /\ jobs = {}

--------------------------------------------------------------------------------
(* The projection offered to the provider. *)

Characters(rows) == SumFunction([i \in DOMAIN rows |-> Size[rows[i].event]])

\* The first summary is read in place of the active one.
Mutant_CoveredEndOfFirst == IF epoch.summary = 0 THEN 0 ELSE summaries[1].end

\* The last sequence the active summary covers.
CoveredEnd == IF epoch.summary = 0 THEN 0 ELSE summaries[epoch.summary].end

\* The committed turns after sequence n.
TurnsAfter(ts, n) == SubSeq(ts, n + 1, Len(ts))

Fits(rows, maxTurns, maxChars) ==
    /\ Len(rows) <= maxTurns
    /\ Characters(rows) <= maxChars

\* context_payload raises external_summary_backpressure unless this holds.
ProjectionFits(visual) ==
    \/ /\ VerbatimFirst
       /\ ~visual
       /\ Fits(turns, VerbatimTurns, VerbatimChars)
    \/ /\ VerbatimFirst /\ ~visual => epoch.summary # 0
       /\ Fits(TurnsAfter(turns, CoveredEnd), RecentTurns, RecentChars)

\* A second turn may open while one is pending.
Mutant_BeginIgnoresPending == epoch.selected = epoch.max /\ intents = {}

BeginAllowed ==
    /\ epoch.selected = epoch.max
    /\ pending = {}
    /\ intents = {}

\* The preflight counts turns and forgets their characters.
Mutant_ReadinessCountsTurns ==
    IF epoch.selected # epoch.max THEN "external_context_unavailable"
    ELSE IF pending # {} \/ intents # {} THEN "external_turn_already_pending"
    ELSE IF Len(TurnsAfter(turns, CoveredEnd)) > RecentTurns
         THEN "external_summary_required"
    ELSE "ready"

\* What the visual preflight asks before an image is sent out.
ProjectionReadiness ==
    IF epoch.selected # epoch.max THEN "external_context_unavailable"
    ELSE IF pending # {} \/ intents # {} THEN "external_turn_already_pending"
    ELSE IF ~Fits(TurnsAfter(turns, CoveredEnd), RecentTurns, RecentChars)
         THEN "external_summary_required"
    ELSE "ready"

--------------------------------------------------------------------------------
(* Turns and their delivery. *)

NextTurn(e) == [event |-> e, base |-> epoch.selected,
                sequence |-> epoch.sequence + 1, parent |-> epoch.digest]

BeginTurn(e) ==
    /\ BeginAllowed
    /\ pending' = pending \cup {NextTurn(e)}
    /\ UNCHANGED <<epoch, revisions, turns, summaries, intents, receipts, jobs>>

CancelAllowed(token) ==
    /\ token \in pending
    /\ \A i \in intents : i.event # token.event

CancelPending(token) ==
    /\ CancelAllowed(token)
    /\ pending' = pending \ {token}
    /\ UNCHANGED <<epoch, revisions, turns, summaries, intents, receipts, jobs>>

IntentOf(token, revision) ==
    [event |-> token.event, base |-> token.base,
     sequence |-> token.sequence, provenance |-> revision]

\* The provenance that comes with the reply is not compared with the turn's base.
Mutant_PrepareAnyProvenance(token, revision) == token \in pending

\* revision is the epoch revision of the provenance that came with the reply.
PrepareAllowed(token, revision) ==
    /\ revision = token.base
    /\ token \in pending

PrepareDelivery(token, revision) ==
    /\ PrepareAllowed(token, revision)
    /\ intents' = intents \cup {IntentOf(token, revision)}
    /\ UNCHANGED <<epoch, revisions, turns, summaries, pending, receipts, jobs>>

\* A blocked job no longer counts as open.
Mutant_OpenJobsUnblocked == {j \in jobs : j.status \in {"queued", "leased"}}

OpenJobs == {j \in jobs : j.status \in {"queued", "leased", "blocked"}}

\* The rows a job covering sequences up to end summarises.
JobRows(ts, end) == SubSeq(ts, CoveredEnd + 1, end)

\* The capacity test is off by one.
Mutant_JobFitsStrictly(ts, end) == Characters(JobRows(ts, end)) < JobCharLimit

\* A job is refused, and with it the transaction, when its rows are too long.
JobFits(ts, end) == Characters(JobRows(ts, end)) <= JobCharLimit

\* Sequence the next job would cover up to, given the committed turns ts.
JobEnd(ts) == IF Len(ts) <= CoveredEnd + JobTurnLimit
              THEN Len(ts) ELSE CoveredEnd + JobTurnLimit

SummaryDue(ts) ==
    /\ OpenJobs = {}
    /\ \/ Len(TurnsAfter(ts, CoveredEnd)) >= SoftTriggerTurns
       \/ Characters(TurnsAfter(ts, CoveredEnd)) >= SoftTriggerChars

QueuedJob(ts, base) ==
    [version |-> epoch.summary + 1, base |-> base, end |-> JobEnd(ts),
     terminal |-> ts[JobEnd(ts)].digest,
     status |-> "queued", owner |-> Nobody, attempts |-> 0]

\* Intent i matches the state it was prepared against.
Undrifted(i, p) ==
    /\ epoch.selected = epoch.max
    /\ epoch.max = i.base
    /\ epoch.sequence + 1 = i.sequence
    /\ epoch.digest = p.parent

Delivered(i, p) == [event |-> i.event, parent |-> p.parent,
                    digest |-> TurnDigest(p.parent, i.event),
                    provenance |-> i.provenance]

\* The row changes and the revision is not inserted.
Mutant_SelectWithoutRevision(row) == epoch' = row /\ UNCHANGED revisions

\* The new row of epoch_state, which is also a new revision.
Select(row) ==
    /\ epoch' = row
    /\ revisions' = [r \in 0..row.max |->
                        IF r = row.max
                        THEN [sequence |-> row.sequence, digest |-> row.digest,
                              summary |-> row.summary]
                        ELSE revisions[r]]

Settle(e, outcome, revision) ==
    /\ receipts' = [receipts EXCEPT ![e] = [outcome |-> outcome, revision |-> revision]]
    /\ pending' = {p \in pending : p.event # e}
    /\ intents' = {i \in intents : i.event # e}

\* The receipt table is not consulted: a token can be resolved again.
Mutant_DeliveryRepeats(i, p) ==
    LET ts == Append(turns, Delivered(i, p)) IN
    /\ p.event = i.event
    /\ Undrifted(i, p)
    /\ SummaryDue(ts) => JobFits(ts, JobEnd(ts))

DeliveryAllowed(i, p) ==
    LET ts == Append(turns, Delivered(i, p)) IN
    /\ receipts[i.event] = NoReceipt
    /\ p.event = i.event
    /\ Undrifted(i, p)
    /\ SummaryDue(ts) => JobFits(ts, JobEnd(ts))

\* resolve_delivery(outcome="delivered") of a token that has no receipt yet.
ResolveDelivered(e) ==
    \E i \in intents, p \in pending :
        LET ts == Append(turns, Delivered(i, p))
            next == epoch.max + 1
        IN
        /\ i.event = e
        /\ DeliveryAllowed(i, p)
        /\ turns' = ts
        /\ Select([epoch EXCEPT !.selected = next, !.max = next,
                                !.sequence = i.sequence,
                                !.digest = TurnDigest(p.parent, e)])
        /\ jobs' = IF SummaryDue(ts) THEN jobs \cup {QueuedJob(ts, next)} ELSE jobs
        /\ Settle(e, "delivered", next)
        /\ UNCHANGED summaries

\* resolve_delivery(outcome="cancelled") of a token that has no receipt yet.
ResolveCancelled(e) ==
    /\ receipts[e] = NoReceipt
    /\ \E i \in intents : i.event = e
    /\ \E p \in pending : p.event = e
    /\ Settle(e, "cancelled", 0)
    /\ UNCHANGED <<epoch, revisions, turns, summaries, jobs>>

--------------------------------------------------------------------------------
(* Restart. *)

\* A lease left behind by a crash is always tried again.
Mutant_RelinquishedForever(j) == [j EXCEPT !.status = "queued", !.owner = Nobody]

\* A lease left behind by a crash is given up; its attempt still counts.
Relinquished(j) ==
    [j EXCEPT !.status = IF j.attempts >= MaxAttempts THEN "blocked" ELSE "queued",
              !.owner = Nobody]

\* INSERT OR REPLACE: a restart overwrites the receipt of a repeated event.
Mutant_RecoverReplaces ==
    /\ receipts' = [e \in Events |->
                       IF \E i \in intents : i.event = e
                       THEN [outcome |-> "abandoned", revision |-> 0]
                       ELSE receipts[e]]
    /\ pending' = {}
    /\ intents' = {}
    /\ jobs' = {IF j.status = "leased" THEN Relinquished(j) ELSE j : j \in jobs}
    /\ UNCHANGED <<epoch, revisions, turns, summaries>>

StartupRecover ==
    /\ \A i \in intents : receipts[i.event] = NoReceipt
    /\ receipts' = [e \in Events |->
                       IF \E i \in intents : i.event = e
                       THEN [outcome |-> "abandoned", revision |-> 0]
                       ELSE receipts[e]]
    /\ pending' = {}
    /\ intents' = {}
    /\ jobs' = {IF j.status = "leased" THEN Relinquished(j) ELSE j : j \in jobs}
    /\ UNCHANGED <<epoch, revisions, turns, summaries>>

--------------------------------------------------------------------------------
(* The summary lease. A worker identifies its job by summary_version, which is
   UNIQUE in summary_jobs. *)

Replace(j, row) == jobs' = (jobs \ {j}) \cup {row}

LeasedTo(w) == {j \in jobs : j.status = "leased" /\ j.owner = w}

\* _build_job: the row still describes the turns that follow the active summary.
Reconstructs(j) ==
    /\ j.version = epoch.summary + 1
    /\ CoveredEnd < j.end
    /\ j.end <= Len(turns)
    /\ j.terminal = turns[j.end].digest
    /\ JobFits(turns, j.end)

AcquireSummaryJob(w, j) ==
    /\ j \in jobs
    /\ j.status = "queued"
    /\ \A k \in jobs : /\ k.status # "leased"
                       /\ k.status = "queued" => j.version <= k.version
    /\ Reconstructs(j)
    /\ Replace(j, [j EXCEPT !.status = "leased", !.owner = w, !.attempts = @ + 1])
    /\ UNCHANGED <<epoch, revisions, turns, summaries, pending, intents, receipts>>

\* record_summary_failure: the failed attempt is retried or is the last one.
RecordSummaryFailure(w, j) ==
    /\ j \in LeasedTo(w)
    /\ Replace(j, [j EXCEPT !.status = IF j.attempts < MaxAttempts
                                      THEN "queued" ELSE "blocked",
                            !.owner = Nobody])
    /\ UNCHANGED <<epoch, revisions, turns, summaries, pending, intents, receipts>>

\* The epoch goes back to the state the job was made from.
Mutant_CommitRewinds(w, j) ==
    /\ j \in LeasedTo(w)
    /\ Reconstructs(j)
    /\ summaries' = Append(summaries, [end |-> j.end, terminal |-> j.terminal])
    /\ Select([epoch EXCEPT !.selected = epoch.max + 1, !.max = epoch.max + 1,
                            !.sequence = j.end, !.digest = j.terminal,
                            !.summary = j.version])
    /\ Replace(j, [j EXCEPT !.status = "committed", !.owner = Nobody])
    /\ UNCHANGED <<turns, pending, intents, receipts>>

\* The summary records how many turns it was made from, not where they end.
Mutant_CommitCountsRows(w, j) ==
    /\ j \in LeasedTo(w)
    /\ Reconstructs(j)
    /\ epoch.selected = epoch.max
    /\ summaries' = Append(summaries, [end |-> j.end - CoveredEnd, terminal |-> j.terminal])
    /\ Select([epoch EXCEPT !.selected = epoch.max + 1, !.max = epoch.max + 1,
                            !.summary = j.version])
    /\ Replace(j, [j EXCEPT !.status = "committed", !.owner = Nobody])
    /\ UNCHANGED <<turns, pending, intents, receipts>>

CommitSummaryCandidate(w, j) ==
    /\ j \in LeasedTo(w)
    /\ Reconstructs(j)
    /\ epoch.selected = epoch.max
    /\ summaries' = Append(summaries, [end |-> j.end, terminal |-> j.terminal])
    /\ Select([epoch EXCEPT !.selected = epoch.max + 1, !.max = epoch.max + 1,
                            !.summary = j.version])
    /\ Replace(j, [j EXCEPT !.status = "committed", !.owner = Nobody])
    /\ UNCHANGED <<turns, pending, intents, receipts>>

--------------------------------------------------------------------------------

Next ==
    \/ \E e \in Events : BeginTurn(e)
    \/ \E token \in pending : CancelPending(token)
    \/ \E token \in pending, r \in 0..epoch.max : PrepareDelivery(token, r)
    \/ \E e \in Events : ResolveDelivered(e)
    \/ \E e \in Events : ResolveCancelled(e)
    \/ StartupRecover
    \/ \E w \in Workers, j \in jobs : AcquireSummaryJob(w, j)
    \/ \E w \in Workers, j \in jobs : RecordSummaryFailure(w, j)
    \/ \E w \in Workers, j \in jobs : CommitSummaryCandidate(w, j)

Spec == Init /\ [][Next]_storeVars

--------------------------------------------------------------------------------
(* Properties. *)

\* The committed turns are one hash chain from the zero digest, and the
\* singleton row always names its end (resolve_delivery, the prestate check).
ChainIntact ==
    /\ \A k \in 1..Len(turns) :
          /\ turns[k].parent = IF k = 1 THEN ZeroDigest ELSE turns[k - 1].digest
          /\ turns[k].digest = TurnDigest(turns[k].parent, turns[k].event)
    /\ epoch.sequence = Len(turns)
    /\ epoch.digest = IF turns = <<>> THEN ZeroDigest ELSE turns[Len(turns)].digest

\* A token's delivered receipt and its committed turn come together: however often
\* outcomes are repeated, contradicted or cut off by a restart, an event with a
\* delivered receipt is in the chain exactly once, under the revision the receipt
\* names, and any other event is not in it.
ExactlyOnce ==
    \A e \in Events :
        LET at == {k \in 1..Len(turns) : turns[k].event = e} IN
        IF receipts[e].outcome = "delivered"
        THEN \E k \in at : /\ at = {k}
                          /\ receipts[e].revision \in DOMAIN revisions
                          /\ revisions[receipts[e].revision].sequence = k
                          /\ revisions[receipts[e].revision].digest = turns[k].digest
        ELSE at = {}

\* The provenance of a turn names a revision at which exactly the turns before it
\* had been committed: no reply is recorded as drawn from a context that lacked an
\* earlier turn or already held a later one (prepare_delivery and resolve_delivery).
ProvenanceNamesParent ==
    \A k \in 1..Len(turns) :
        /\ turns[k].provenance \in DOMAIN revisions
        /\ revisions[turns[k].provenance].sequence = k - 1
        /\ revisions[turns[k].provenance].digest = turns[k].parent

\* Each revision differs from the one before by one committed turn or by one
\* summary version, never both, and the last one is what epoch_state selects.
RevisionsStepwise ==
    /\ epoch.selected = epoch.max
    /\ revisions[epoch.max] = [sequence |-> epoch.sequence, digest |-> epoch.digest,
                               summary |-> epoch.summary]
    /\ \A r \in 1..epoch.max :
          \/ /\ revisions[r].sequence = revisions[r - 1].sequence + 1
             /\ revisions[r].summary = revisions[r - 1].summary
          \/ /\ revisions[r].sequence = revisions[r - 1].sequence
             /\ revisions[r].digest = revisions[r - 1].digest
             /\ revisions[r].summary = revisions[r - 1].summary + 1

\* Summaries cover longer and longer prefixes of the chain, each ends at a turn
\* that is still the one it was made from, and the active one is the newest.
SummariesCoverPrefixes ==
    /\ epoch.summary = Len(summaries)
    /\ \A v \in 1..Len(summaries) :
          /\ summaries[v].end \in 1..Len(turns)
          /\ summaries[v].terminal = turns[summaries[v].end].digest
          /\ v > 1 => summaries[v - 1].end < summaries[v].end

\* There is one summary job at a time, and whoever takes it, at whatever time,
\* can rebuild it: neither the turns committed since nor a restart make
\* _build_job fail for a job that is not committed yet.
OpenJobReconstructs ==
    /\ \A j \in OpenJobs : Reconstructs(j)
    /\ \A j, k \in jobs : j.version = k.version => j = k

\* Retries are bounded: no job is leased more than MaxAttempts times, only a job
\* that used them all is blocked, and a job that used them all is never queued.
AttemptsBounded ==
    \A j \in jobs :
        /\ j.attempts <= MaxAttempts
        /\ j.status = "blocked" => j.attempts = MaxAttempts
        /\ j.status = "queued" => j.attempts < MaxAttempts
        /\ j.status = "leased" => j.attempts > 0
        /\ j.owner # Nobody <=> j.status = "leased"

\* What the summary worker is handed is sound, whenever and however often it comes.
JobsSound == SummariesCoverPrefixes /\ OpenJobReconstructs /\ AttemptsBounded

\* At most one turn is open; a prepared reply always belongs to it.
OneOpenTurn ==
    /\ \A p, q \in pending : p = q
    /\ \A i \in intents : \E p \in pending :
          /\ i.event = p.event
          /\ i.base = p.base
          /\ i.sequence = p.sequence
          /\ p.sequence = epoch.sequence + 1
          /\ p.parent = epoch.digest

\* What the visual preflight was told holds when it is used. The image is sent out between
\* projection_readiness, begin_turn and context_payload, three transactions: once the
\* preflight is told "ready", whatever workers and restarts do, the store goes on accepting
\* a turn until one is begun, and the projection of that turn still fits when it is read.
PreflightHolds ==
    [][ /\ ProjectionReadiness = "ready" =>
              ProjectionFits(TRUE)' /\ (BeginAllowed' \/ pending' # {})
        /\ pending # {} /\ ProjectionFits(TRUE) =>
              ProjectionFits(TRUE)' \/ turns' # turns
      ]_storeVars

\* Nothing committed is ever rewritten: turns, summaries and revisions only grow,
\* and a receipt, once written, is final.
HistoryPermanent ==
    [][ /\ Len(turns) <= Len(turns') /\ SubSeq(turns', 1, Len(turns)) = turns
        /\ Len(summaries) <= Len(summaries')
        /\ SubSeq(summaries', 1, Len(summaries)) = summaries
        /\ \A r \in DOMAIN revisions : r \in DOMAIN revisions' /\ revisions'[r] = revisions[r]
        /\ \A e \in Events : receipts[e] # NoReceipt => receipts'[e] = receipts[e]
      ]_storeVars

--------------------------------------------------------------------------------
(* The store implements the ledger. *)

Fate(e) == CASE receipts[e].outcome = "none" -> "open"
             [] receipts[e].outcome = "delivered" -> "delivered"
             [] OTHER -> "withheld"

Ledger == INSTANCE EpochLedger
    WITH log <- [k \in 1..Len(turns) |-> turns[k].event],
         fate <- [e \in Events |-> Fate(e)],
         covered <- CoveredEnd,
         revision <- epoch.max

\* The store behaves as EpochLedger says: one log entry per delivered outcome.
LedgerSpec == Ledger!Spec
================================================================================
