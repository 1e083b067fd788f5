----------------------------- MODULE TemporalContext -----------------------------
(***************************************************************************)
(* The active temporal context service: the store of short-lived facts     *)
(* (myuna-core/src/myuna_core/active_temporal_context), the durable        *)
(* trusted time it runs on (trusted_time/provider.py), the worker around   *)
(* both (myuna-deploy/scripts/p08_temporal_service_v1.py) and the gateway  *)
(* that sends it the owner's /temporal commands.                           *)
(*                                                                         *)
(* The worker serves one connection at a time and commits twice for each:  *)
(* a time sample in one database, then the operation in another.  The      *)
(* gateway waits a bounded time, so a request may be served after the      *)
(* owner was told that it failed.  The clock of the host may be stepped.   *)
(***************************************************************************)
EXTENDS Integers, Sequences, FiniteSets

CONSTANTS
    Slots, Texts,
    Life,            \* days a fact is asked to live, in ticks
    Ttl,             \* how long a proposal may be confirmed, in ticks
    MaxPending,      \* MAX_PENDING_PER_SCOPE
    Offsets,         \* by how much the clock of the host may be ahead
    MaxWork, MaxSamples, MaxNow,   \* bounds
    None

ASSUME TemporalAssumption ==
    /\ Life \in Nat \ {0} /\ Ttl \in Nat \ {0} /\ MaxPending \in Nat \ {0}
    /\ Offsets \subseteq Nat /\ 0 \in Offsets
    /\ {MaxWork, MaxSamples, MaxNow} \subseteq Nat

VARIABLES
    host,       \* the clock of the host (external)
    trusted,    \* clock_state of the trusted-time database
    watermark,  \* clock_watermark of the store
    facts, events, proposals, confirmed,   \* the tables of the store
    service,    \* the worker: its step, the request in hand, the sample, the answer
    memory,     \* its time guard and the provider's consumer watermark
    backlog,    \* requests the socket holds for the worker
    codes,      \* proposals whose code the owner was told
    told,       \* proposals the owner was told are applied
    hidden,     \* facts that some read left out as expired (history)
    faults      \* faults and clock steps so far (with the proposals at most MaxWork)

storeVars == <<watermark, facts, events, proposals, confirmed>>
serviceVars == <<service, memory>>
ownerVars == <<backlog, codes, told>>
vars == <<host, trusted, storeVars, serviceVars, ownerVars, hidden, faults>>

--------------------------------------------------------------------------------

Ids == Nat \ {0}       \* of proposals, and of facts: at most one for each proposal
Sample == [sequence: Nat, instant: Nat, monotonic: Nat, boot: Nat]
Watermark == [sequence: Nat, instant: Nat]

Actions == {"create", "supersede", "refresh", "restore", "revoke"}
Mutation == [action: Actions, target: Ids \cup {None}, slot: Slots \cup {None},
             text: Texts \cup {None}, from: Nat]
Proposal == [mutation: Mutation, expires: Nat,
             state: {"pending", "consumed", "cancelled"}]

\* A request, and whether the gateway still waits for its answer.
Request == [kind: {"propose"}, mutation: Mutation, awaited: BOOLEAN]
           \cup [kind: {"confirm"}, proposal: Ids, awaited: BOOLEAN]
           \cup [kind: {"get"}, awaited: BOOLEAN]

ASSUME NoneAssumption == None \notin Nat \cup Sample \cup Watermark \cup Request

FactStates == {"active", "superseded", "conflicted", "revoked"}
Transitions == {"activate", "conflict", "revoke", "supersede", "restore"}

TypeOK ==
    /\ host \in [now: Nat, ahead: Offsets, boot: Nat, since: Nat]
    /\ trusted \in Sample \cup {None}
    /\ watermark \in Watermark \cup {None}
    /\ facts \in Seq([proposal: Ids, state: FactStates])
    /\ events \in Seq([transition: Transitions, fact: Ids,
                       previous: Ids \cup {None}, at: Nat])
    /\ proposals \in Seq(Proposal)
    /\ confirmed \in Seq(Ids)
    /\ service \in [at: {"down", "idle", "sample", "store", "answer"},
                    request: Request \cup {None}, sample: Sample \cup {None},
                    done: BOOLEAN, facts: SUBSET Ids, failed: BOOLEAN]
    /\ memory \in [guard: Watermark \cup {None}, floor: Watermark \cup {None}]
    /\ backlog \in Seq(Request)
    /\ codes \subseteq Ids /\ told \subseteq Ids
    /\ hidden \subseteq Ids
    /\ faults \in 0..MaxWork

Down == [at |-> "down", request |-> None, sample |-> None, done |-> FALSE,
         facts |-> {}, failed |-> FALSE]
Idle == [Down EXCEPT !.at = "idle"]
NoMemory == [guard |-> None, floor |-> None]

Init ==
    /\ host \in [now: {0}, ahead: Offsets, boot: {0}, since: {0}]
    /\ trusted = None
    /\ watermark = None
    /\ facts = <<>>
    /\ events = <<>>
    /\ proposals = <<>>
    /\ confirmed = <<>>
    /\ service = Down
    /\ memory = NoMemory
    /\ backlog = <<>>
    /\ codes = {}
    /\ told = {}
    /\ hidden = {}
    /\ faults = 0

--------------------------------------------------------------------------------
(* The host. *)

\* Time passes between the requests: no step of the store looks at the clock.
BetweenRequests == service.at \in {"down", "idle", "sample"}

Tick ==
    /\ host.now < MaxNow
    /\ BetweenRequests
    /\ host' = [host EXCEPT !.now = @ + 1]
    /\ UNCHANGED <<trusted, storeVars, serviceVars, ownerVars, hidden>>

ClockStepped ==
    /\ BetweenRequests
    /\ \E d \in Offsets \ {host.ahead} : host' = [host EXCEPT !.ahead = d]
    /\ UNCHANGED <<trusted, storeVars, serviceVars, ownerVars, hidden>>

Reboot ==
    /\ host' = [host EXCEPT !.boot = @ + 1, !.since = host.now]
    /\ service' = Down
    /\ memory' = NoMemory
    /\ backlog' = <<>>
    /\ UNCHANGED <<trusted, storeVars, codes, told, hidden>>

--------------------------------------------------------------------------------
(* The gateway: process_connection, send_temporal_request, render_temporal_reply. *)

Serving == service.request # None
Awaiting == (Serving /\ service.request.awaited)
            \/ \E n \in DOMAIN backlog : backlog[n].awaited

InFlight == Len(backlog) + IF Serving THEN 1 ELSE 0
Sampled == IF trusted = None THEN 0 ELSE trusted.sequence

\* The gateway serves one message at a time, and each is a request of its own.
Send(request) ==
    /\ ~Awaiting
    /\ Sampled + InFlight < MaxSamples
    /\ backlog' = Append(backlog, request)
    /\ UNCHANGED <<host, trusted, storeVars, serviceVars, codes, told, hidden>>

\* A draft is valid from the time of the message that asks for it.
Propose(action, target, slot, text) ==
    /\ Len(proposals) + InFlight + faults < MaxWork
    /\ Send([kind |-> "propose", awaited |-> TRUE,
             mutation |-> [action |-> action, target |-> target, slot |-> slot,
                           text |-> text, from |-> host.now]])

SendPropose ==
    \/ \E s \in Slots, x \in Texts :
          \/ Propose("create", None, s, x)
          \/ \E i \in DOMAIN facts, a \in {"supersede", "refresh", "restore"} :
                Propose(a, i, s, x)
    \/ \E i \in DOMAIN facts : Propose("revoke", i, None, None)

\* The owner has the code only from the answer to the proposal.
SendConfirm ==
    \E p \in codes : Send([kind |-> "confirm", awaited |-> TRUE, proposal |-> p])

SendGet == Send([kind |-> "get", awaited |-> TRUE])

\* The socket timeout, or a failure of the gateway's own process.
GatewayGivesUp ==
    /\ Awaiting
    /\ backlog' = [n \in DOMAIN backlog |-> [backlog[n] EXCEPT !.awaited = FALSE]]
    /\ service' = IF Serving THEN [service EXCEPT !.request.awaited = FALSE] ELSE service
    /\ UNCHANGED <<host, trusted, storeVars, memory, codes, told, hidden>>

--------------------------------------------------------------------------------
(* The worker's process. *)

\* build_runtime_from_environment
Start ==
    /\ service.at = "down"
    /\ service' = Idle
    /\ memory' = [guard |-> watermark, floor |-> watermark]
    /\ UNCHANGED <<host, trusted, storeVars, ownerVars, hidden>>

\* The connection in hand is lost with its answer; the socket keeps the others.
Crash ==
    /\ service.at # "down"
    /\ service' = Down
    /\ memory' = NoMemory
    /\ UNCHANGED <<host, trusted, storeVars, ownerVars, hidden>>

Accept ==
    /\ service.at = "idle" /\ backlog # <<>>
    /\ service' = [Idle EXCEPT !.at = "sample", !.request = Head(backlog)]
    /\ backlog' = Tail(backlog)
    /\ UNCHANGED <<host, trusted, storeVars, memory, codes, told, hidden>>

Heard(kind) == service.done /\ service.request.awaited /\ service.request.kind = kind

\* A capability that is no longer ready ends the process after the answer.
Answer ==
    /\ service.at = "answer"
    /\ codes' = IF Heard("propose") THEN codes \cup {Len(proposals)} ELSE codes
    /\ told' = IF Heard("confirm") THEN told \cup {service.request.proposal} ELSE told
    /\ IF service.failed
       THEN service' = Down /\ memory' = NoMemory
       ELSE service' = Idle /\ UNCHANGED memory
    /\ UNCHANGED <<host, trusted, storeVars, backlog, hidden>>

--------------------------------------------------------------------------------
(* DurableTrustedTimeProvider.sample *)

Observation == [instant |-> host.now + host.ahead, monotonic |-> host.now - host.since,
                boot |-> host.boot]

Anchors == {x \in {trusted, memory.floor} : x # None}

Steady(o) ==
    trusted # None /\ trusted.boot = o.boot =>
        o.instant - trusted.instant = o.monotonic - trusted.monotonic

\* A clock that went back is caught on the same boot only, by its drift.
Mutant_Regressed(o) == FALSE

Regressed(o) == \E x \in Anchors : o.instant < x.instant

\* The sequence follows the consumer's watermark alone.
Mutant_NextSequence == IF memory.floor = None THEN 1 ELSE memory.floor.sequence + 1

NextSequence ==
    IF Anchors = {} THEN 1
    ELSE 1 + CHOOSE n \in {x.sequence : x \in Anchors} : \A x \in Anchors : x.sequence =< n

SampleTaken(o) == [sequence |-> NextSequence, instant |-> o.instant,
                   monotonic |-> o.monotonic, boot |-> o.boot]

TimeSampled ==
    /\ service.at = "sample"
    /\ Steady(Observation) /\ ~Regressed(Observation)
    /\ trusted' = SampleTaken(Observation)
    /\ service' = [service EXCEPT !.at = "store", !.sample = trusted']
    /\ UNCHANGED <<host, storeVars, memory, ownerVars, hidden>>

NoSample ==
    /\ service.at = "sample"
    /\ service' = [service EXCEPT !.at = "answer", !.failed = TRUE]
    /\ UNCHANGED <<host, storeVars, memory, ownerVars, hidden>>

\* trusted_time_drift_exceeded, trusted_time_regression
TimeRefused ==
    /\ NoSample
    /\ ~Steady(Observation) \/ Regressed(Observation)
    /\ UNCHANGED trusted

\* The clock is not synchronized or too uncertain, or the database busy.
TimeUnavailable == NoSample /\ UNCHANGED trusted

\* The sample is committed, and the commit reported as ambiguous.
TimeAmbiguous ==
    /\ NoSample
    /\ Steady(Observation) /\ ~Regressed(Observation)
    /\ trusted' = SampleTaken(Observation)

--------------------------------------------------------------------------------
(* TemporalContextStore: one transaction for each request. *)

Now == service.sample.instant
Mark(sample) == [sequence |-> sample.sequence, instant |-> sample.instant]

\* TrustedTimeGuard.accept.  A refusal would be an error of the time stack: SamplesAccepted
\* says that there is none, and the model has no action for one.
Accepts(guard, sample) ==
    guard # None => sample.sequence > guard.sequence /\ sample.instant >= guard.instant

Stores(kind) ==
    /\ service.at = "store"
    /\ service.request.kind = kind
    /\ Accepts(memory.guard, service.sample)

GuardMoves == memory' = [memory EXCEPT !.guard = Mark(service.sample)]

Reply(done, shown) ==
    service' = [service EXCEPT !.at = "answer", !.done = done, !.facts = shown]

Committed == watermark' = Mark(service.sample)

Refused(kind) ==
    /\ Stores(kind)
    /\ Reply(FALSE, {})
    /\ UNCHANGED <<host, trusted, storeVars, ownerVars, hidden>>

\* database_busy, transaction_aborted: the transaction is rolled back, the guard is not.
Aborted(kind) == Refused(kind) /\ (GuardMoves \/ UNCHANGED memory)

\* A confirmation that could not be written is answered as its replay.
Mutant_StoreAborts ==
    /\ \E kind \in {"propose", "confirm", "get"} : Stores(kind)
    /\ GuardMoves
    /\ Reply(service.request.kind = "confirm", {})
    /\ UNCHANGED <<host, trusted, storeVars, ownerVars, hidden>>

StoreAborts == \E kind \in {"propose", "confirm", "get"} : Aborted(kind)

Draft(i) == proposals[facts[i].proposal].mutation
Until(i) == Draft(i).from + Life
InSlot(slot) == {i \in DOMAIN facts : facts[i].state = "active" /\ Draft(i).slot = slot}

\* active_facts
FactsRead ==
    /\ Stores("get") /\ GuardMoves
    /\ LET active == {i \in DOMAIN facts : facts[i].state = "active"} IN
       /\ Reply(TRUE, {i \in active : Draft(i).from =< Now /\ Now < Until(i)})
       /\ hidden' = hidden \cup {i \in active : Until(i) =< Now}
    /\ UNCHANGED <<host, trusted, storeVars, ownerVars>>

WithLapsed(state) ==
    [p \in DOMAIN proposals |->
       IF proposals[p].state = "pending" /\ proposals[p].expires =< Now
       THEN [proposals[p] EXCEPT !.state = state] ELSE proposals[p]]

\* An expired proposal is given a state of its own.
Mutant_Lapsed == WithLapsed("expired")

\* A proposal that was not confirmed in time no longer counts as pending.
Lapsed == WithLapsed("cancelled")

Full == Cardinality({p \in DOMAIN Lapsed : Lapsed[p].state = "pending"}) >= MaxPending

\* A draft must outlive its proposal.
DraftTimely(c) == c.action # "revoke" => Now + Ttl < c.from + Life

ProposalStored ==
    /\ Stores("propose") /\ GuardMoves
    /\ DraftTimely(service.request.mutation) /\ ~Full
    /\ proposals' = Append(Lapsed, [mutation |-> service.request.mutation,
                                    expires |-> Now + Ttl, state |-> "pending"])
    /\ Committed
    /\ Reply(TRUE, {})
    /\ UNCHANGED <<host, trusted, facts, events, confirmed, ownerVars, hidden>>

\* proposal_expiry_invalid and expiry_out_of_range are found before the transaction,
\* proposal_capacity_exceeded in it.
ProposalRefused ==
    /\ Refused("propose")
    /\ \/ ~DraftTimely(service.request.mutation) /\ UNCHANGED memory
       \/ DraftTimely(service.request.mutation) /\ Full /\ GuardMoves

--------------------------------------------------------------------------------
(* confirm_mutation and _apply_candidate. *)

Chosen == proposals[service.request.proposal]
Candidate == Chosen.mutation
Target == Candidate.target

\* The proposal's state is not looked at.
Mutant_Confirmable == Now < Chosen.expires

Confirmable == Chosen.state = "pending" /\ Now < Chosen.expires

\* What a confirmation writes beside its effect on the facts.
Consumed ==
    /\ Stores("confirm") /\ GuardMoves
    /\ Confirmable
    /\ proposals' = [proposals EXCEPT ![service.request.proposal].state = "consumed"]
    /\ confirmed' = Append(confirmed, service.request.proposal)
    /\ Committed
    /\ Reply(TRUE, {})
    /\ UNCHANGED <<host, trusted, ownerVars, hidden>>

NewFact(state) == [proposal |-> service.request.proposal, state |-> state]
Event(transition, fact, previous) ==
    [transition |-> transition, fact |-> fact, previous |-> previous, at |-> Now]
NextRevision == Len(facts) + 1

\* A fact that was just confirmed and one that is asked for again say the same.
SameDraft(i) == Draft(i).text = Candidate.text /\ Draft(i).from = Candidate.from

CreateActive ==
    /\ InSlot(Candidate.slot) = {}
    /\ facts' = Append(facts, NewFact("active"))
    /\ events' = Append(events, Event("activate", NextRevision, None))

CreateConflicted ==
    \E i \in InSlot(Candidate.slot) :
       /\ ~SameDraft(i)
       /\ facts' = Append(facts, NewFact("conflicted"))
       /\ events' = Append(events, Event("conflict", NextRevision, i))

CreateUnchanged ==
    \E i \in InSlot(Candidate.slot) : SameDraft(i) /\ UNCHANGED <<facts, events>>

CreateConfirmed ==
    /\ Consumed
    /\ Candidate.action = "create"
    /\ CreateActive \/ CreateConflicted \/ CreateUnchanged

\* target_state_invalid
RevokeAllowed == facts[Target].state = "active"

RevokeConfirmed ==
    /\ Consumed
    /\ Candidate.action = "revoke" /\ RevokeAllowed
    /\ facts' = [facts EXCEPT ![Target].state = "revoked"]
    /\ events' = Append(events, Event("revoke", Target, Target))

SameText == Draft(Target).text = Candidate.text

\* A fact that was replaced or revoked since the proposal may be replaced again.
Mutant_SupersedeAllowed ==
    /\ Candidate.slot = Draft(Target).slot
    /\ Candidate.action = "refresh" => SameText

\* target_slot_mismatch, target_state_invalid, refresh_content_mismatch
SupersedeAllowed ==
    /\ Candidate.slot = Draft(Target).slot
    /\ facts[Target].state = "active"
    /\ Candidate.action = "refresh" => SameText

SupersedeConfirmed ==
    /\ Consumed
    /\ Candidate.action \in {"supersede", "refresh"} /\ SupersedeAllowed
    /\ facts' = Append([facts EXCEPT ![Target].state = "superseded"], NewFact("active"))
    /\ events' = Append(events, Event("supersede", NextRevision, Target))

\* target_slot_mismatch, target_state_invalid, restore_ineligible
RestoreAllowed ==
    /\ Candidate.slot = Draft(Target).slot
    /\ facts[Target].state = "revoked"
    /\ SameText
    /\ InSlot(Candidate.slot) = {}

RestoreConfirmed ==
    /\ Consumed
    /\ Candidate.action = "restore" /\ RestoreAllowed
    /\ facts' = Append(facts, NewFact("active"))
    /\ events' = Append(events, Event("restore", NextRevision, Target))

ConfirmRefused ==
    /\ Refused("confirm") /\ GuardMoves
    /\ \/ ~Confirmable
       \/ Candidate.action = "revoke" /\ ~RevokeAllowed
       \/ Candidate.action \in {"supersede", "refresh"} /\ ~SupersedeAllowed
       \/ Candidate.action = "restore" /\ ~RestoreAllowed

Fault ==
    /\ faults + Len(proposals) + InFlight < MaxWork
    /\ faults' = faults + 1
    /\ \/ ClockStepped \/ Reboot \/ Crash \/ GatewayGivesUp
       \/ TimeAmbiguous \/ TimeUnavailable \/ StoreAborts

Step ==
    \/ Tick \/ SendPropose \/ SendConfirm \/ SendGet
    \/ Start \/ Accept \/ Answer \/ TimeSampled \/ TimeRefused
    \/ FactsRead \/ ProposalStored \/ ProposalRefused
    \/ CreateConfirmed \/ RevokeConfirmed \/ SupersedeConfirmed \/ RestoreConfirmed
    \/ ConfirmRefused

Next == (Step /\ UNCHANGED faults) \/ Fault

Spec == Init /\ [][Next]_vars

--------------------------------------------------------------------------------
(* What the store, its time and its answers guarantee. *)

LastOf(i) == CHOOSE n \in {k \in DOMAIN events : events[k].fact = i} :
                \A k \in DOMAIN events : events[k].fact = i => k =< n
Superseded(i) ==
    \E k \in DOMAIN events : events[k].previous = i /\ events[k].transition = "supersede"

\* The lifecycle events alone say what became of every fact, in the order of the trusted
\* time, and a slot has at most one active fact, however long a proposal waited for its
\* confirmation while its target and its slot changed (store.py:402-451, 775-925;
\* ADR-059: "at most one active fact per slot"); the store finds itself corrupt at no
\* start.
LifecycleExplainsFacts ==
    /\ \A i \in DOMAIN facts :
          /\ \E k \in DOMAIN events : events[k].fact = i
          /\ facts[i].state =
                LET last == events[LastOf(i)].transition IN
                IF Superseded(i) THEN "superseded"
                ELSE IF last = "revoke" THEN "revoked"
                ELSE IF last = "conflict" THEN "conflicted" ELSE "active"
          /\ Cardinality(InSlot(Draft(i).slot)) =< 1
    /\ \A k \in DOMAIN events :
          /\ events[k].fact \in DOMAIN facts
          /\ events[k].transition = "supersede" =>
                events[k].previous < events[k].fact
                /\ Draft(events[k].previous).slot = Draft(events[k].fact).slot
          /\ k > 1 => events[k - 1].at =< events[k].at

\* A proposal is applied at most once, by one confirmation, although confirmations are
\* sent again, arrive after the owner was told they had failed, or outlive the process
\* that read them; and a positive answer is about something that was committed
\* (store.py:952-1000).  An answer that was lost is the exception: the owner is told that
\* nothing was written, and every later confirmation fails.
AppliedOnce ==
    /\ \A i, j \in DOMAIN facts : facts[i].proposal = facts[j].proposal => i = j
    /\ \A i, j \in DOMAIN confirmed : confirmed[i] = confirmed[j] => i = j
    /\ {facts[i].proposal : i \in DOMAIN facts} \subseteq {confirmed[i] : i \in DOMAIN confirmed}
    /\ \A p \in DOMAIN proposals :
          proposals[p].state = "consumed" <=> \E i \in DOMAIN confirmed : confirmed[i] = p
    /\ told \subseteq {confirmed[i] : i \in DOMAIN confirmed}
    /\ codes \subseteq DOMAIN proposals

\* The store never refuses a sample of its own provider, in whatever order crashes,
\* reboots, lost commits and clock steps fall between the two databases
\* (time.py:127-150, provider.py:716-760).
SamplesAccepted ==
    /\ service.at = "store" => Accepts(memory.guard, service.sample)
    /\ \A mark \in {watermark, memory.guard, memory.floor} :
          mark # None =>
             /\ trusted # None
             /\ mark.sequence =< trusted.sequence /\ mark.instant =< trusted.instant

\* A fact that a read once left out as expired is never shown again, whatever happens to
\* the clock of the host and to the processes (store.py:1038-1056).
ExpiredStaysHidden == service.facts \cap hidden = {}

\* The two together: time as the facts see it neither stops nor returns.
TimeSound == SamplesAccepted /\ ExpiredStaysHidden
================================================================================
