-------------------------- MODULE TemporalContext_proofs --------------------------
(***************************************************************************)
(* The store of temporal facts, its time and what its owner is told, for   *)
(* every set of slots and texts, every lifetime, and every interleaving of *)
(* the gateway, the worker, its crashes and the clock of the host.         *)
(***************************************************************************)
EXTENDS TemporalContext, SequenceTheorems, FiniteSetTheorems, TLAPS

\* A draft that changes a fact names one there is.
Aimed(c) == c.action # "create" => c.target \in DOMAIN facts

\* A request speaks of a proposal there is, or asks for such a draft.
Grounded(request) ==
    /\ request.kind = "confirm" => request.proposal \in DOMAIN proposals
    /\ request.kind = "propose" => Aimed(request.mutation)

IsConfirmed(p) == \E n \in DOMAIN confirmed : confirmed[n] = p

\* The requests under way, and what the owner may be told of the one in hand.
RequestsSound ==
    /\ \A n \in DOMAIN backlog : Grounded(backlog[n])
    /\ service.request = None <=> service.at \in {"down", "idle"}
    /\ service.request # None => Grounded(service.request)
    /\ service.done => /\ service.at = "answer"
                       /\ service.request.kind = "confirm" =>
                             IsConfirmed(service.request.proposal)
                       /\ service.request.kind = "propose" => Len(proposals) > 0
    /\ codes \subseteq DOMAIN proposals
    /\ \A p \in told : IsConfirmed(p)

\* A mark is not ahead of the trusted time.
Behind(mark) ==
    mark # None =>
       /\ trusted # None
       /\ mark.sequence =< trusted.sequence /\ mark.instant =< trusted.instant

TimeOrdered ==
    /\ \A mark \in {watermark, memory.guard, memory.floor} : Behind(mark)
    /\ service.at = "store" =>
          /\ trusted # None /\ service.sample = trusted
          /\ Accepts(memory.guard, service.sample)

\* A fact that a read left out as expired has expired.
HiddenExpired ==
    /\ \A i \in hidden : /\ i \in DOMAIN facts
                         /\ trusted # None /\ Until(i) =< trusted.instant
    /\ service.facts \cap hidden = {}

ProposalsApplied ==
    /\ \A i, j \in DOMAIN facts : facts[i].proposal = facts[j].proposal => i = j
    /\ \A i \in DOMAIN facts : IsConfirmed(facts[i].proposal)
    /\ \A n, m \in DOMAIN confirmed : confirmed[n] = confirmed[m] => n = m
    /\ \A n \in DOMAIN confirmed : confirmed[n] \in DOMAIN proposals
    /\ \A p \in DOMAIN proposals : proposals[p].state = "consumed" <=> IsConfirmed(p)
    /\ \A p \in DOMAIN proposals : Aimed(proposals[p].mutation)

\* The last event of a fact, and the replacement of it, give its state.
Explained(i) ==
    \E n \in DOMAIN events :
       /\ events[n].fact = i
       /\ \A k \in DOMAIN events : events[k].fact = i => k =< n
       /\ facts[i].state = IF Superseded(i) THEN "superseded"
                           ELSE IF events[n].transition = "revoke" THEN "revoked"
                           ELSE IF events[n].transition = "conflict" THEN "conflicted"
                           ELSE "active"

OneActive ==
    \A i, j \in DOMAIN facts :
       /\ facts[i].state = "active" /\ facts[j].state = "active"
       /\ Draft(i).slot = Draft(j).slot
       => i = j

EventsOrdered ==
    \A k \in DOMAIN events :
       /\ events[k].fact \in DOMAIN facts
       /\ events[k].transition = "supersede" =>
             /\ events[k].previous \in DOMAIN facts
             /\ events[k].previous < events[k].fact
             /\ Draft(events[k].previous).slot = Draft(events[k].fact).slot
       /\ trusted # None /\ events[k].at =< trusted.instant
       /\ \A j \in DOMAIN events : j =< k => events[j].at =< events[k].at

\* The tables of the store among themselves.
StoreSound ==
    /\ ProposalsApplied
    /\ \A i \in DOMAIN facts : Explained(i)
    /\ OneActive
    /\ EventsOrdered

\* The host was booted before now.
Host == {h \in [now: Nat, ahead: Offsets, boot: Nat, since: Nat] : h.since =< h.now}

TemporalInv ==
    /\ TypeOK
    /\ host \in Host
    /\ RequestsSound
    /\ TimeOrdered
    /\ HiddenExpired
    /\ StoreSound

--------------------------------------------------------------------------------
(* Sequences and records. *)

\* What is appended comes last, and nothing else moves.
LEMMA AppendIs ==
  ASSUME NEW S, NEW q \in Seq(S), NEW e \in S
  PROVE  /\ Append(q, e) \in Seq(S) /\ Len(Append(q, e)) = Len(q) + 1
         /\ Len(q) \in Nat /\ DOMAIN q = 1..Len(q) /\ Len(q) + 1 \notin DOMAIN q
         /\ DOMAIN Append(q, e) = DOMAIN q \cup {Len(q) + 1}
         /\ \A n \in DOMAIN q : Append(q, e)[n] = q[n] /\ n < Len(q) + 1
         /\ Append(q, e)[Len(q) + 1] = e
  <1>1. Len(q) \in Nat /\ DOMAIN q = 1..Len(q)
    BY LenProperties
  <1>2. Append(q, e) \in Seq(S) /\ Len(Append(q, e)) = Len(q) + 1
    OBVIOUS
  <1>3. DOMAIN Append(q, e) = 1..(Len(q) + 1)
    BY <1>2, LenProperties
  <1> QED BY <1>1, <1>2, <1>3

\* A request the gateway no longer waits for asks for the same.
LEMMA Unawaited ==
  ASSUME NEW request \in Request
  PROVE  /\ [request EXCEPT !.awaited = FALSE] \in Request
         /\ [request EXCEPT !.awaited = FALSE].kind = request.kind
         /\ request.kind \in {"propose", "confirm", "get"}
         /\ request.kind = "propose" =>
               /\ [request EXCEPT !.awaited = FALSE].mutation = request.mutation
               /\ request.mutation \in Mutation
         /\ request.kind = "confirm" =>
               /\ [request EXCEPT !.awaited = FALSE].proposal = request.proposal
               /\ request.proposal \in Ids
  <1>1. CASE request \in [kind: {"propose"}, mutation: Mutation, awaited: BOOLEAN]
    BY <1>1 DEF Request
  <1>2. CASE request \in [kind: {"confirm"}, proposal: Ids, awaited: BOOLEAN]
    BY <1>2 DEF Request
  <1>3. CASE request \in [kind: {"get"}, awaited: BOOLEAN]
    BY <1>3 DEF Request
  <1> QED BY <1>1, <1>2, <1>3 DEF Request

Service == [at: {"down", "idle", "sample", "store", "answer"},
            request: Request \cup {None}, sample: Sample \cup {None},
            done: BOOLEAN, facts: SUBSET Ids, failed: BOOLEAN]

\* The worker when no request is in hand.
LEMMA ServiceRests ==
  /\ Down \in Service /\ Idle \in Service
  /\ Down.at = "down" /\ Idle.at = "idle"
  /\ Down.request = None /\ Idle.request = None
  /\ ~Down.done /\ ~Idle.done /\ Down.facts = {} /\ Idle.facts = {}
  BY DEF Down, Idle, Service

\* The tables and the requests in hand are related to the trusted time only in that it
\* does not go back.
TrustedGrows ==
    trusted # None => /\ trusted' # None
                      /\ trusted.sequence =< trusted'.sequence
                      /\ trusted.instant =< trusted'.instant

\* The trusted time is a sample; the tables are typed.
LEMMA Types ==
  ASSUME TypeOK
  PROVE  /\ trusted # None => trusted \in Sample /\ trusted.sequence \in Nat
                              /\ trusted.instant \in Nat
         /\ service \in Service
         /\ backlog \in Seq(Request) /\ Len(backlog) \in Nat /\ DOMAIN backlog = 1..Len(backlog)
         /\ \A n \in DOMAIN backlog : backlog[n] \in Request
         /\ Len(facts) \in Nat /\ DOMAIN facts = 1..Len(facts) /\ DOMAIN facts \subseteq Ids
         /\ \A i \in DOMAIN facts : facts[i].proposal \in Ids /\ facts[i].state \in FactStates
         /\ Len(proposals) \in Nat /\ DOMAIN proposals = 1..Len(proposals)
         /\ DOMAIN proposals \subseteq Ids
         /\ \A p \in DOMAIN proposals : /\ proposals[p] \in Proposal
                                        /\ proposals[p].mutation \in Mutation
         /\ Len(events) \in Nat /\ DOMAIN events = 1..Len(events)
         /\ \A k \in DOMAIN events : events[k].at \in Nat /\ events[k].fact \in Ids
         /\ Len(confirmed) \in Nat /\ DOMAIN confirmed = 1..Len(confirmed)
         /\ \A n \in DOMAIN confirmed : confirmed[n] \in Ids
  <1>1. /\ trusted \in Sample \cup {None} /\ service \in Service /\ backlog \in Seq(Request)
        /\ facts \in Seq([proposal: Ids, state: FactStates])
        /\ proposals \in Seq(Proposal) /\ confirmed \in Seq(Ids)
        /\ events \in Seq([transition: Transitions, fact: Ids,
                           previous: Ids \cup {None}, at: Nat])
    BY DEF TypeOK, Service
  <1>2. trusted # None => trusted \in Sample /\ trusted.sequence \in Nat
                          /\ trusted.instant \in Nat
    BY <1>1 DEF Sample
  <1>3. /\ Len(backlog) \in Nat /\ DOMAIN backlog = 1..Len(backlog)
        /\ \A n \in DOMAIN backlog : backlog[n] \in Request
    BY <1>1, LenProperties, ElementOfSeq
  <1>4. /\ Len(facts) \in Nat /\ DOMAIN facts = 1..Len(facts)
        /\ \A i \in DOMAIN facts : facts[i] \in [proposal: Ids, state: FactStates]
    BY <1>1, LenProperties, ElementOfSeq
  <1>5. /\ Len(proposals) \in Nat /\ DOMAIN proposals = 1..Len(proposals)
        /\ \A p \in DOMAIN proposals : proposals[p] \in Proposal
    BY <1>1, LenProperties, ElementOfSeq
  <1>6. /\ Len(events) \in Nat /\ DOMAIN events = 1..Len(events)
        /\ \A k \in DOMAIN events :
              events[k] \in [transition: Transitions, fact: Ids,
                             previous: Ids \cup {None}, at: Nat]
    BY <1>1, LenProperties, ElementOfSeq
  <1>7. /\ Len(confirmed) \in Nat /\ DOMAIN confirmed = 1..Len(confirmed)
        /\ \A n \in DOMAIN confirmed : confirmed[n] \in Ids
    BY <1>1, LenProperties, ElementOfSeq
  <1>8. DOMAIN facts \subseteq Ids /\ DOMAIN proposals \subseteq Ids
    BY <1>4, <1>5 DEF Ids
  <1>9. \A p \in DOMAIN proposals : proposals[p].mutation \in Mutation
    BY <1>5 DEF Proposal
  <1> QED BY <1>1, <1>2, <1>3, <1>4, <1>5, <1>6, <1>7, <1>8, <1>9

\* The draft of a fact is that of a proposal there is.
LEMMA FactsDrafted ==
  ASSUME TypeOK, StoreSound, NEW i \in DOMAIN facts
  PROVE  /\ facts[i].proposal \in DOMAIN proposals
         /\ Draft(i) = proposals[facts[i].proposal].mutation /\ Draft(i) \in Mutation
         /\ Draft(i).from \in Nat /\ Until(i) \in Nat
  <1>1. PICK n \in DOMAIN confirmed : confirmed[n] = facts[i].proposal
    BY DEF StoreSound, ProposalsApplied, IsConfirmed
  <1>2. facts[i].proposal \in DOMAIN proposals
    BY <1>1 DEF StoreSound, ProposalsApplied
  <1>3. Draft(i) \in Mutation
    BY <1>2, Types DEF Draft
  <1>4. Draft(i).from \in Nat
    BY <1>3 DEF Mutation
  <1>5. Until(i) \in Nat
    BY <1>4, TemporalAssumption DEF Until
  <1> QED BY <1>2, <1>3, <1>4, <1>5 DEF Draft

--------------------------------------------------------------------------------
(* Steps that leave the tables alone. *)

\* The tables stay sound.
LEMMA StoreStays ==
  ASSUME TypeOK, StoreSound, TrustedGrows, trusted' \in Sample \cup {None},
         UNCHANGED <<facts, events, proposals, confirmed>>
  PROVE  StoreSound'
  <1>1. ProposalsApplied'
    BY DEF StoreSound, ProposalsApplied, IsConfirmed, Aimed
  <1>2. \A i \in DOMAIN facts' : Explained(i)'
    BY DEF StoreSound, Explained, Superseded
  <1>3. OneActive'
    BY DEF StoreSound, OneActive, Draft
  <1>4. EventsOrdered'
    <2>1. ASSUME NEW k \in DOMAIN events
          PROVE  trusted' # None /\ events[k].at =< trusted'.instant
      <3>1. /\ trusted # None /\ trusted' # None /\ trusted.instant =< trusted'.instant
            /\ events[k].at =< trusted.instant
        BY DEF StoreSound, EventsOrdered, TrustedGrows
      <3>2. trusted.instant \in Nat /\ events[k].at \in Nat /\ trusted'.instant \in Nat
        BY <3>1, Types DEF Sample
      <3> QED BY <3>1, <3>2
    <2> QED BY <2>1 DEF StoreSound, EventsOrdered, Draft
  <1> QED BY <1>1, <1>2, <1>3, <1>4 DEF StoreSound

\* The trusted time has not gone back when it has not moved.
LEMMA TrustedStays ==
  ASSUME TypeOK, trusted' = trusted
  PROVE  TrustedGrows
  <1>1. trusted # None => trusted.sequence \in Nat /\ trusted.instant \in Nat
    BY Types
  <1> QED BY <1>1 DEF TrustedGrows

Memory == [guard: Watermark \cup {None}, floor: Watermark \cup {None}]

\* What a step that leaves the tables alone has still to answer for.
LEMMA QuietKeeps ==
  ASSUME TemporalInv, UNCHANGED <<storeVars, hidden>>, TrustedGrows,
         trusted' \in Sample \cup {None}, host' \in Host, faults' \in 0..MaxWork,
         service' \in Service, memory' \in Memory, backlog' \in Seq(Request),
         codes' \subseteq Ids, told' \subseteq Ids,
         service'.facts \subseteq service.facts, RequestsSound', TimeOrdered'
  PROVE  TemporalInv'
  <1>1. TypeOK /\ StoreSound /\ HiddenExpired
    BY DEF TemporalInv
  <1>2. TypeOK'
    BY <1>1 DEF TypeOK, storeVars, Service, Host, Memory
  <1>3. StoreSound'
    BY <1>1, StoreStays DEF storeVars
  <1>4. HiddenExpired'
    <2>1. ASSUME NEW i \in hidden
          PROVE  i \in DOMAIN facts /\ trusted' # None /\ Until(i) =< trusted'.instant
      <3>1. /\ i \in DOMAIN facts /\ trusted # None /\ Until(i) =< trusted.instant
            /\ trusted' # None /\ trusted.instant =< trusted'.instant
        BY <1>1 DEF HiddenExpired, TrustedGrows
      <3>2. trusted.instant \in Nat /\ trusted'.instant \in Nat
        BY <3>1, <1>1, Types DEF Sample
      <3>3. Until(i) \in Nat
        BY <1>1, <3>1, FactsDrafted
      <3> QED BY <3>1, <3>2, <3>3
    <2> QED BY <1>1, <2>1 DEF HiddenExpired, Until, Draft, storeVars
  <1> QED BY <1>2, <1>3, <1>4 DEF TemporalInv

\* The marks in memory are not ahead of the trusted time, whatever became of them.
LEMMA MarksStay ==
  ASSUME TypeOK, TimeOrdered, TrustedGrows, trusted' \in Sample \cup {None},
         watermark' = watermark,
         \A mark \in {memory'.guard, memory'.floor} :
            mark \in {None, watermark, memory.guard, memory.floor}
  PROVE  \A mark \in {watermark', memory'.guard, memory'.floor} : Behind(mark)'
  <1>1. ASSUME NEW mark, mark \in Watermark, Behind(mark)
        PROVE  mark # None =>
                  /\ trusted' # None
                  /\ mark.sequence =< trusted'.sequence /\ mark.instant =< trusted'.instant
    <2> SUFFICES ASSUME mark # None
                 PROVE  /\ trusted' # None
                        /\ mark.sequence =< trusted'.sequence
                        /\ mark.instant =< trusted'.instant
      OBVIOUS
    <2>1. /\ trusted # None /\ trusted' # None /\ trusted.sequence =< trusted'.sequence
          /\ trusted.instant =< trusted'.instant /\ mark.sequence =< trusted.sequence
          /\ mark.instant =< trusted.instant
      BY <1>1 DEF Behind, TrustedGrows
    <2>2. /\ trusted.sequence \in Nat /\ trusted.instant \in Nat /\ trusted'.sequence \in Nat
          /\ trusted'.instant \in Nat /\ mark.sequence \in Nat /\ mark.instant \in Nat
      BY <1>1, <2>1, Types DEF Sample, Watermark
    <2> QED BY <2>1, <2>2
  <1>2. \A mark \in {watermark, memory.guard, memory.floor} :
           mark \in Watermark \cup {None} /\ Behind(mark)
    BY DEF TypeOK, TimeOrdered
  <1>3. \A mark \in {watermark', memory'.guard, memory'.floor} : Behind(mark)'
    <2> TAKE mark \in {watermark', memory'.guard, memory'.floor}
    <2>1. mark \in {None, watermark, memory.guard, memory.floor}
      OBVIOUS
    <2>2. mark # None => mark \in Watermark /\ Behind(mark)
      BY <1>2, <2>1
    <2> QED BY <1>1, <2>2 DEF Behind
  <1> QED BY <1>3

\* ... which is all there is to say when no sample is in hand.
LEMMA TimeStays ==
  ASSUME TypeOK, TimeOrdered, TrustedGrows, trusted' \in Sample \cup {None},
         watermark' = watermark, service'.at # "store",
         \A mark \in {memory'.guard, memory'.floor} :
            mark \in {None, watermark, memory.guard, memory.floor}
  PROVE  TimeOrdered'
  BY MarksStay DEF TimeOrdered

\* The tables and the requests for them stay what they were.
LEMMA GroundedStays ==
  ASSUME UNCHANGED storeVars
  PROVE  /\ \A request : Grounded(request)' <=> Grounded(request)
         /\ \A p : IsConfirmed(p)' <=> IsConfirmed(p)
  BY DEF storeVars, Grounded, Aimed, IsConfirmed

\* Nothing is stored, asked or answered.
LEMMA HostKeeps ==
  ASSUME TemporalInv, UNCHANGED <<trusted, storeVars, serviceVars, ownerVars, hidden>>,
         host' \in Host, faults' \in 0..MaxWork
  PROVE  TemporalInv'
  <1>1. TypeOK /\ TrustedGrows
    BY TrustedStays DEF TemporalInv
  <1>2. RequestsSound'
    BY GroundedStays DEF TemporalInv, RequestsSound, serviceVars, ownerVars, storeVars
  <1>3. TimeOrdered'
    BY DEF TemporalInv, TimeOrdered, Behind, storeVars, serviceVars
  <1>4. /\ trusted' \in Sample \cup {None} /\ service' \in Service /\ memory' \in Memory
        /\ backlog' \in Seq(Request) /\ codes' \subseteq Ids /\ told' \subseteq Ids
        /\ service'.facts = service.facts
    BY <1>1 DEF TypeOK, serviceVars, ownerVars, Service, Memory
  <1> QED BY <1>1, <1>2, <1>3, <1>4, QuietKeeps

\* The clock of the host, or time itself, moves.
LEMMA ClockKeeps ==
  ASSUME TemporalInv, Tick \/ ClockStepped, faults' \in 0..MaxWork
  PROVE  TemporalInv'
  <1>1. host \in Host
    BY DEF TemporalInv
  <1>2. host' \in Host
    <2>1. CASE Tick
      BY <1>1, <2>1 DEF Tick, Host
    <2>2. CASE ClockStepped
      BY <1>1, <2>2 DEF ClockStepped, Host
    <2> QED BY <2>1, <2>2
  <1> QED BY <1>2, HostKeeps DEF Tick, ClockStepped

\* The worker rests, is gone, or starts again: no request is in hand, its marks are those
\* of the store, and the owner knows of nothing the store does not.
LEMMA RestKeeps ==
  ASSUME TemporalInv, UNCHANGED <<trusted, storeVars, hidden>>,
         host' \in Host, faults' \in 0..MaxWork,
         codes' \subseteq DOMAIN proposals, \A p \in told' : IsConfirmed(p),
         service' \in {Down, Idle}, backlog' \in {backlog, <<>>},
         memory' \in {NoMemory, memory, [guard |-> watermark, floor |-> watermark]}
  PROVE  TemporalInv'
  <1>1. TypeOK /\ TrustedGrows /\ TimeOrdered /\ RequestsSound
    BY TrustedStays DEF TemporalInv
  <1>2. /\ service' \in Service /\ service'.at \in {"down", "idle"} /\ service'.request = None
        /\ ~service'.done /\ service'.facts = {}
    BY ServiceRests
  <1>3. RequestsSound'
    <2>1. \A n \in DOMAIN backlog' : backlog'[n] = backlog[n] /\ n \in DOMAIN backlog
      BY <1>1, Types
    <2> QED BY <1>1, <1>2, <2>1, GroundedStays DEF RequestsSound, storeVars
  <1>4. /\ watermark' = watermark
        /\ \A mark \in {memory'.guard, memory'.floor} :
              mark \in {None, watermark, memory.guard, memory.floor}
    BY DEF storeVars, NoMemory
  <1>5. trusted' \in Sample \cup {None} /\ watermark \in Watermark \cup {None}
        /\ memory \in Memory /\ codes' \subseteq Ids /\ told' \subseteq Ids
        /\ backlog \in Seq(Request)
    BY <1>1, Types DEF TypeOK, Memory, IsConfirmed
  <1>6. TimeOrdered'
    BY <1>1, <1>2, <1>4, <1>5, TimeStays
  <1>7. memory' \in Memory /\ backlog' \in Seq(Request)
    <2>1. NoMemory \in Memory /\ [guard |-> watermark, floor |-> watermark] \in Memory
      BY <1>5 DEF Memory, NoMemory
    <2>2. <<>> \in Seq(Request)
      OBVIOUS
    <2> QED BY <1>5, <2>1, <2>2
  <1>8. service'.facts \subseteq service.facts
    BY <1>2
  <1> QED BY <1>1, <1>2, <1>3, <1>5, <1>6, <1>7, <1>8, QuietKeeps

\* A process of the worker begins or ends.
LEMMA ProcessKeeps ==
  ASSUME TemporalInv, Start \/ Crash \/ Reboot, faults' \in 0..MaxWork
  PROVE  TemporalInv'
  <1>1. codes \subseteq DOMAIN proposals /\ \A p \in told : IsConfirmed(p)
    BY DEF TemporalInv, RequestsSound
  <1>2. host \in Host
    BY DEF TemporalInv
  <1>3. CASE Start
    BY <1>1, <1>2, <1>3, RestKeeps DEF Start, ownerVars
  <1>4. CASE Crash
    BY <1>1, <1>2, <1>4, RestKeeps DEF Crash, ownerVars
  <1>5. CASE Reboot
    <2>1. host' \in Host
      <3>1. host' = [now |-> host.now, ahead |-> host.ahead, boot |-> host.boot + 1,
                     since |-> host.now]
        BY <1>2, <1>5 DEF Reboot, Host
      <3> QED BY <1>2, <3>1 DEF Host
    <2> QED BY <1>1, <1>5, <2>1, RestKeeps DEF Reboot
  <1> QED BY <1>3, <1>4, <1>5

\* The owner is told what the store has done with the request in hand.
LEMMA AnswerKeeps ==
  ASSUME TemporalInv, Answer, faults' \in 0..MaxWork
  PROVE  TemporalInv'
  <1>1. /\ TypeOK /\ RequestsSound /\ host' \in Host /\ service.at = "answer"
        /\ UNCHANGED <<trusted, storeVars, hidden, backlog>>
    BY DEF TemporalInv, Answer
  <1>2. codes' \subseteq DOMAIN proposals
    <2>1. Heard("propose") => Len(proposals) > 0
      BY <1>1 DEF Heard, RequestsSound
    <2>2. Heard("propose") => Len(proposals) \in DOMAIN proposals
      BY <1>1, <2>1, Types
    <2> QED BY <1>1, <2>2 DEF Answer, RequestsSound
  <1>3. \A p \in told' : IsConfirmed(p)
    BY <1>1 DEF Answer, RequestsSound, Heard
  <1>4. service' \in {Down, Idle} /\ memory' \in {NoMemory, memory}
    BY DEF Answer
  <1> QED BY <1>1, <1>2, <1>3, <1>4, RestKeeps DEF TemporalInv

--------------------------------------------------------------------------------
(* The requests. *)

\* What a step has to answer for that changes the requests alone.
LEMMA RequestsKeep ==
  ASSUME TemporalInv, UNCHANGED <<host, trusted, storeVars, memory, codes, told, hidden>>,
         faults' \in 0..MaxWork, backlog' \in Seq(Request), service' \in Service,
         \A n \in DOMAIN backlog' : Grounded(backlog'[n]),
         service'.request = None <=> service'.at \in {"down", "idle"},
         service'.request # None => Grounded(service'.request),
         service'.done => /\ service.done /\ service'.at = "answer"
                          /\ service'.request.kind = service.request.kind
                          /\ service.request.kind = "confirm" =>
                                service'.request.proposal = service.request.proposal,
         service'.at = "store" => service.at = "store" /\ service'.sample = service.sample,
         service'.facts \subseteq service.facts
  PROVE  TemporalInv'
  <1>1. TypeOK /\ TrustedGrows /\ TimeOrdered /\ RequestsSound /\ host' \in Host
    BY TrustedStays DEF TemporalInv
  <1>2. /\ trusted' \in Sample \cup {None} /\ memory' \in Memory
        /\ codes' \subseteq Ids /\ told' \subseteq Ids
    BY <1>1 DEF TypeOK, Memory
  <1>3. RequestsSound'
    BY <1>1, GroundedStays DEF RequestsSound, storeVars
  <1>4. TimeOrdered'
    BY <1>1 DEF TimeOrdered, Behind, storeVars, Accepts
  <1> QED BY <1>1, <1>2, <1>3, <1>4, QuietKeeps DEF storeVars

\* The gateway sends a request of its own.
LEMMA SendKeeps ==
  ASSUME TemporalInv, faults' \in 0..MaxWork, NEW request \in Request, Send(request),
         Grounded(request)
  PROVE  TemporalInv'
  <1>1. TypeOK /\ RequestsSound /\ service' = service /\ backlog' = Append(backlog, request)
    BY DEF TemporalInv, Send, serviceVars
  <1>2. /\ backlog' \in Seq(Request)
        /\ \A n \in DOMAIN backlog' : n \in DOMAIN backlog \/ n = Len(backlog) + 1
        /\ \A n \in DOMAIN backlog : backlog'[n] = backlog[n]
        /\ backlog'[Len(backlog) + 1] = request
    BY <1>1, Types, AppendIs
  <1>3. \A n \in DOMAIN backlog' : Grounded(backlog'[n])
    BY <1>1, <1>2 DEF RequestsSound
  <1>4. service \in Service /\ (service.done => service.at = "answer")
        /\ (service.request = None <=> service.at \in {"down", "idle"})
        /\ (service.request # None => Grounded(service.request))
    BY <1>1, Types DEF RequestsSound
  <1> QED BY <1>1, <1>2, <1>3, <1>4, RequestsKeep DEF Send, serviceVars

\* Its drafts name the facts it was shown, its confirmations a code it was told.
LEMMA SendsKeep ==
  ASSUME TemporalInv, SendPropose \/ SendConfirm \/ SendGet, faults' \in 0..MaxWork
  PROVE  TemporalInv'
  <1>1. /\ TypeOK /\ codes \subseteq DOMAIN proposals /\ codes \subseteq Ids
        /\ host.now \in Nat /\ DOMAIN facts \subseteq Ids
    BY Types DEF TemporalInv, TypeOK, RequestsSound
  <1>2. ASSUME NEW action \in Actions, NEW target \in Ids \cup {None},
               NEW slot \in Slots \cup {None}, NEW text \in Texts \cup {None},
               action # "create" => target \in DOMAIN facts,
               Propose(action, target, slot, text)
        PROVE  TemporalInv'
    <2> DEFINE draft == [action |-> action, target |-> target, slot |-> slot,
                         text |-> text, from |-> host.now]
               request == [kind |-> "propose", awaited |-> TRUE, mutation |-> draft]
    <2>1. draft \in Mutation /\ Aimed(draft)
      BY <1>1, <1>2 DEF Mutation, Aimed
    <2>2. request \in Request /\ Grounded(request)
      BY <2>1 DEF Request, Grounded
    <2>3. Send(request)
      BY <1>2 DEF Propose
    <2> HIDE DEF request
    <2> QED BY <2>2, <2>3, SendKeeps
  <1>3. CASE SendPropose
    <2>1. {"create", "supersede", "refresh", "restore", "revoke"} = Actions
      BY DEF Actions
    <2> QED BY <1>1, <1>2, <1>3, <2>1 DEF SendPropose
  <1>4. CASE SendConfirm
    <2>1. PICK p \in codes : Send([kind |-> "confirm", awaited |-> TRUE, proposal |-> p])
      BY <1>4 DEF SendConfirm
    <2>2. PICK request : request = [kind |-> "confirm", awaited |-> TRUE, proposal |-> p]
      OBVIOUS
    <2>3. request \in Request /\ Grounded(request)
      BY <1>1, <2>2 DEF Request, Grounded
    <2> QED BY <2>1, <2>2, <2>3, SendKeeps
  <1>5. CASE SendGet
    <2>1. PICK request : request = [kind |-> "get", awaited |-> TRUE]
      OBVIOUS
    <2>2. request \in Request /\ Grounded(request)
      BY <2>1 DEF Request, Grounded
    <2> QED BY <1>5, <2>1, <2>2, SendKeeps DEF SendGet
  <1> QED BY <1>3, <1>4, <1>5

\* The gateway forgets its request; the worker does not.
LEMMA GivingUpKeeps ==
  ASSUME TemporalInv, GatewayGivesUp, faults' \in 0..MaxWork
  PROVE  TemporalInv'
  <1>1. TypeOK /\ RequestsSound
    BY DEF TemporalInv
  <1>2. /\ service \in Service /\ backlog \in Seq(Request) /\ Len(backlog) \in Nat
        /\ DOMAIN backlog = 1..Len(backlog) /\ \A n \in DOMAIN backlog : backlog[n] \in Request
    BY <1>1, Types
  <1>3. backlog' = [n \in 1..Len(backlog) |-> [backlog[n] EXCEPT !.awaited = FALSE]]
    BY <1>2 DEF GatewayGivesUp
  <1>4. \A request \in Request :
           /\ [request EXCEPT !.awaited = FALSE] \in Request
           /\ Grounded([request EXCEPT !.awaited = FALSE]) <=> Grounded(request)
    BY Unawaited DEF Grounded
  <1>5. backlog' \in Seq(Request) /\ DOMAIN backlog' = 1..Len(backlog)
    BY <1>2, <1>3, <1>4
  <1>6. \A n \in DOMAIN backlog' : Grounded(backlog'[n])
    BY <1>1, <1>2, <1>3, <1>4, <1>5 DEF RequestsSound
  <1>7. service' = service \/ (Serving /\ service' = [service EXCEPT !.request.awaited = FALSE])
    BY DEF GatewayGivesUp
  <1>8. CASE service' = service
    BY <1>1, <1>2, <1>5, <1>6, <1>8, RequestsKeep DEF GatewayGivesUp, RequestsSound
  <1>9. CASE Serving /\ service' = [service EXCEPT !.request.awaited = FALSE]
    <2>1. service.request \in Request /\ service.request # None
      BY <1>2, <1>9 DEF Serving, Service
    <2>2. PICK request : request = [service.request EXCEPT !.awaited = FALSE]
      OBVIOUS
    <2>3. /\ request \in Request /\ request # None
          /\ Grounded(request) <=> Grounded(service.request)
          /\ request.kind = service.request.kind
          /\ service.request.kind = "confirm" => request.proposal = service.request.proposal
      BY <1>4, <2>1, <2>2, Unawaited, NoneAssumption
    <2>4. /\ service'.at = service.at /\ service'.request = request
          /\ service'.sample = service.sample /\ service'.done = service.done
          /\ service'.facts = service.facts /\ service'.failed = service.failed
          /\ service' \in Service
      BY <1>2, <1>9, <2>2, <2>3 DEF Service
    <2> QED BY <1>1, <1>5, <1>6, <2>1, <2>3, <2>4, RequestsKeep DEF GatewayGivesUp, RequestsSound
  <1> QED BY <1>7, <1>8, <1>9

\* The worker takes the oldest request.
LEMMA AcceptKeeps ==
  ASSUME TemporalInv, Accept, faults' \in 0..MaxWork
  PROVE  TemporalInv'
  <1>1. TypeOK /\ RequestsSound
    BY DEF TemporalInv
  <1>2. backlog \in Seq(Request) /\ backlog # <<>> /\ Len(backlog) \in Nat
        /\ DOMAIN backlog = 1..Len(backlog)
    BY <1>1, Types DEF Accept
  <1>3. /\ backlog' \in Seq(Request) /\ Head(backlog) \in Request /\ Head(backlog) = backlog[1]
        /\ Len(backlog') = Len(backlog) - 1 /\ 1 \in DOMAIN backlog
        /\ \A n \in 1..Len(backlog') : backlog'[n] = backlog[n + 1]
    <2>1. Len(backlog) # 0
      BY <1>2, EmptySeq
    <2> QED BY <1>2, <2>1, HeadTailProperties DEF Accept
  <1>4. DOMAIN backlog' = 1..Len(backlog')
    BY <1>3, LenProperties
  <1>5. \A n \in DOMAIN backlog' : Grounded(backlog'[n])
    <2>1. \A n \in DOMAIN backlog' : n + 1 \in DOMAIN backlog /\ backlog'[n] = backlog[n + 1]
      BY <1>2, <1>3, <1>4
    <2> QED BY <1>1, <2>1 DEF RequestsSound
  <1>6. /\ service' \in Service /\ service'.at = "sample" /\ service'.request = Head(backlog)
        /\ ~service'.done /\ service'.facts = {}
    BY <1>3 DEF Accept, Idle, Down, Service
  <1>7. service'.request # None /\ Grounded(service'.request)
    BY <1>1, <1>3, <1>6, NoneAssumption DEF RequestsSound
  <1>8. service'.facts \subseteq service.facts
    BY <1>6
  <1> QED BY <1>3, <1>5, <1>6, <1>7, <1>8, RequestsKeep DEF Accept

--------------------------------------------------------------------------------
(* The trusted time. *)

\* A sample is after every mark that is left of the samples before it.
LEMMA SampleIsNew ==
  ASSUME TypeOK, TimeOrdered, host \in Host, ~Regressed(Observation),
         NEW new, new = SampleTaken(Observation)
  PROVE  /\ new \in Sample /\ new # None
         /\ trusted # None =>
               trusted.sequence < new.sequence /\ trusted.instant =< new.instant
         /\ memory.guard # None =>
               memory.guard.sequence < new.sequence /\ memory.guard.instant =< new.instant
  <1>1. /\ host.now \in Nat /\ host.since \in Nat /\ host.since =< host.now
        /\ host.ahead \in Nat /\ host.boot \in Nat
    BY TemporalAssumption DEF Host
  <1>2. /\ Observation.instant \in Nat /\ Observation.monotonic \in Nat
        /\ Observation.boot \in Nat
    BY <1>1 DEF Observation
  <1>3. /\ trusted \in Sample \cup {None} /\ memory.floor \in Watermark \cup {None}
        /\ memory.guard \in Watermark \cup {None}
    BY DEF TypeOK
  <1>4. \A x \in Anchors : x.sequence \in Nat /\ x.instant \in Nat
    BY <1>3 DEF Anchors, Sample, Watermark
  <1>5. NextSequence \in Nat /\ \A x \in Anchors : x.sequence < NextSequence
    <2>1. CASE Anchors = {}
      BY <2>1 DEF NextSequence
    <2>2. CASE Anchors # {}
      <3>1. \E n \in {x.sequence : x \in Anchors} : \A x \in Anchors : x.sequence =< n
        <4>1. CASE trusted # None /\ memory.floor # None
          <5>1. Anchors = {trusted, memory.floor}
            BY <4>1 DEF Anchors
          <5>2. trusted.sequence =< memory.floor.sequence
                \/ memory.floor.sequence =< trusted.sequence
            BY <1>4, <5>1
          <5> QED BY <1>4, <5>1, <5>2
        <4>2. CASE trusted # None /\ memory.floor = None
          <5>1. Anchors = {trusted}
            BY <4>2 DEF Anchors
          <5> QED BY <1>4, <5>1
        <4>3. CASE trusted = None /\ memory.floor # None
          <5>1. Anchors = {memory.floor}
            BY <4>3 DEF Anchors
          <5> QED BY <1>4, <5>1
        <4>4. CASE trusted = None /\ memory.floor = None
          BY <2>2, <4>4 DEF Anchors
        <4> QED BY <4>1, <4>2, <4>3, <4>4
      <3>2. PICK n \in {x.sequence : x \in Anchors} :
               /\ \A x \in Anchors : x.sequence =< n
               /\ NextSequence = 1 + n
        BY <2>2, <3>1 DEF NextSequence
      <3> QED BY <1>4, <3>2
    <2> QED BY <2>1, <2>2
  <1>6. /\ new.sequence = NextSequence /\ new.instant = Observation.instant
        /\ new \in Sample
    BY <1>2, <1>5 DEF SampleTaken, Sample
  <1>7. \A x \in Anchors : x.instant =< Observation.instant
    BY <1>2, <1>4 DEF Regressed
  <1>8. trusted # None => trusted.sequence < new.sequence /\ trusted.instant =< new.instant
    BY <1>5, <1>6, <1>7 DEF Anchors
  <1>9. memory.guard # None =>
           memory.guard.sequence < new.sequence /\ memory.guard.instant =< new.instant
    <2> SUFFICES ASSUME memory.guard # None
                 PROVE  /\ memory.guard.sequence < new.sequence
                        /\ memory.guard.instant =< new.instant
      OBVIOUS
    <2>1. /\ trusted # None /\ memory.guard.sequence =< trusted.sequence
          /\ memory.guard.instant =< trusted.instant
      BY DEF TimeOrdered, Behind
    <2>2. /\ memory.guard.sequence \in Nat /\ memory.guard.instant \in Nat
          /\ trusted.sequence \in Nat /\ trusted.instant \in Nat
          /\ new.sequence \in Nat /\ new.instant \in Nat
      BY <1>3, <1>6, <2>1 DEF Watermark, Sample
    <2> QED BY <1>8, <2>1, <2>2
  <1> QED BY <1>6, <1>8, <1>9, NoneAssumption

\* A sample is taken, refused or lost.
LEMMA SamplingKeeps ==
  ASSUME TemporalInv, TimeSampled \/ TimeRefused \/ TimeUnavailable \/ TimeAmbiguous,
         faults' \in 0..MaxWork
  PROVE  TemporalInv'
  <1>1. /\ TypeOK /\ RequestsSound /\ TimeOrdered /\ host \in Host /\ service.at = "sample"
        /\ UNCHANGED <<host, storeVars, memory, ownerVars, hidden>>
    BY DEF TemporalInv, TimeSampled, TimeRefused, TimeUnavailable, TimeAmbiguous, NoSample
  <1>2. PICK new : new = SampleTaken(Observation)
    OBVIOUS
  <1>3. \/ trusted' = trusted /\ ~TimeSampled
        \/ trusted' = new /\ ~Regressed(Observation)
    BY <1>1, <1>2 DEF TimeSampled, TimeRefused, TimeUnavailable, TimeAmbiguous, NoSample
  <1>4. ~Regressed(Observation) =>
           /\ new \in Sample /\ new # None
           /\ trusted # None =>
                 trusted.sequence < new.sequence /\ trusted.instant =< new.instant
           /\ memory.guard # None =>
                 memory.guard.sequence < new.sequence /\ memory.guard.instant =< new.instant
    BY <1>1, <1>2, SampleIsNew
  <1>5. trusted' \in Sample \cup {None} /\ TrustedGrows
    <2>1. CASE trusted' = trusted
      BY <1>1, <2>1, TrustedStays DEF TypeOK
    <2>2. CASE trusted' = new /\ ~Regressed(Observation)
      <3>1. trusted # None => trusted.sequence \in Nat /\ new.sequence \in Nat
        BY <1>1, <1>4, <2>2, Types DEF Sample
      <3> QED BY <1>4, <2>2, <3>1 DEF TrustedGrows
    <2> QED BY <1>3, <2>1, <2>2
  <1>6. service \in Service /\ service.request # None /\ Grounded(service.request)
        /\ ~service.done
    BY <1>1, Types DEF RequestsSound
  <1>7. /\ service' \in Service /\ service'.request = service.request
        /\ service'.facts = service.facts /\ service'.done = service.done
        /\ service'.at \in {"store", "answer"}
        /\ service'.at = "store" => /\ trusted' = new /\ ~Regressed(Observation)
                                    /\ service'.sample = trusted'
    <2>1. CASE TimeSampled
      <3>1. /\ service' = [service EXCEPT !.at = "store", !.sample = new]
            /\ trusted' = new /\ ~Regressed(Observation) /\ new \in Sample
        BY <1>2, <1>4, <2>1 DEF TimeSampled
      <3> QED BY <1>6, <3>1 DEF Service
    <2>2. CASE NoSample
      <3>1. service' = [service EXCEPT !.at = "answer", !.failed = TRUE]
        BY <2>2 DEF NoSample
      <3> QED BY <1>6, <3>1 DEF Service
    <2> QED BY <2>1, <2>2 DEF TimeRefused, TimeUnavailable, TimeAmbiguous
  <1>8. RequestsSound'
    BY <1>1, <1>6, <1>7, GroundedStays DEF RequestsSound, storeVars, ownerVars
  <1>9. TimeOrdered'
    <2>1. \A mark \in {watermark', memory'.guard, memory'.floor} : Behind(mark)'
      BY <1>1, <1>5, MarksStay DEF storeVars
    <2>2. ASSUME service'.at = "store"
          PROVE  /\ trusted' # None /\ service'.sample = trusted'
                 /\ Accepts(memory'.guard, service'.sample)
      <3>1. trusted' = new /\ ~Regressed(Observation) /\ service'.sample = new
        BY <1>7, <2>2
      <3>2. memory.guard # None => /\ memory.guard.sequence \in Nat
                                   /\ memory.guard.instant \in Nat
        BY <1>1 DEF TypeOK, Watermark
      <3>3. new.sequence \in Nat /\ new.instant \in Nat /\ memory' = memory
        BY <1>1, <1>4, <3>1 DEF Sample
      <3> QED BY <1>4, <3>1, <3>2, <3>3 DEF Accepts
    <2> QED BY <2>1, <2>2 DEF TimeOrdered, Accepts
  <1>10. /\ memory' \in Memory /\ backlog' \in Seq(Request)
         /\ codes' \subseteq Ids /\ told' \subseteq Ids
    BY <1>1 DEF TypeOK, Memory, ownerVars
  <1> QED BY <1>1, <1>5, <1>7, <1>8, <1>9, <1>10, QuietKeeps

--------------------------------------------------------------------------------
(* The transactions. *)

\* The sample in hand is the last one, and its mark is behind it.
LEMMA SampleInHand ==
  ASSUME TypeOK, TimeOrdered, service.at = "store"
  PROVE  /\ trusted \in Sample /\ trusted # None /\ service.sample = trusted
         /\ Now = trusted.instant /\ Now \in Nat
         /\ Mark(service.sample) \in Watermark /\ Behind(Mark(service.sample))
  <1>1. trusted # None /\ service.sample = trusted
    BY DEF TimeOrdered
  <1>2. trusted \in Sample /\ trusted.sequence \in Nat /\ trusted.instant \in Nat
    BY <1>1, Types DEF Sample
  <1>3. Mark(trusted) = [sequence |-> trusted.sequence, instant |-> trusted.instant]
    BY DEF Mark
  <1>4. Mark(trusted) \in Watermark /\ Behind(Mark(trusted))
    BY <1>1, <1>2, <1>3 DEF Watermark, Behind
  <1> QED BY <1>1, <1>2, <1>4 DEF Now

\* What the transaction leaves of the time: its marks may have moved to the sample.
LEMMA StoreTime ==
  ASSUME TypeOK, TimeOrdered, service.at = "store", trusted' = trusted,
         service'.at = "answer",
         watermark' = watermark \/ watermark' = Mark(service.sample),
         memory' = memory \/ memory' = [memory EXCEPT !.guard = Mark(service.sample)]
  PROVE  /\ TimeOrdered' /\ watermark' \in Watermark \cup {None} /\ memory' \in Memory
  <1>1. /\ Mark(service.sample) \in Watermark /\ Behind(Mark(service.sample))
        /\ watermark \in Watermark \cup {None} /\ memory \in Memory
    BY SampleInHand DEF TypeOK, Memory
  <1>2. watermark' \in Watermark \cup {None} /\ memory' \in Memory
    BY <1>1 DEF Memory
  <1>3. \A mark \in {watermark', memory'.guard, memory'.floor} :
           mark \in {watermark, memory.guard, memory.floor, Mark(service.sample)}
    BY <1>1 DEF Memory
  <1>4. \A mark \in {watermark', memory'.guard, memory'.floor} : Behind(mark)
    BY <1>1, <1>3 DEF TimeOrdered
  <1>5. TimeOrdered'
    BY <1>4 DEF TimeOrdered, Behind
  <1> QED BY <1>2, <1>5

\* The worker has an answer.
LEMMA Replied ==
  ASSUME TypeOK, NEW done \in BOOLEAN, NEW shown \in SUBSET Ids, Reply(done, shown)
  PROVE  /\ service' \in Service /\ service'.at = "answer"
         /\ service'.request = service.request /\ service'.done = done
         /\ service'.facts = shown
  <1>1. service \in Service
    BY Types
  <1> QED BY <1>1 DEF Reply, Service

\* The transaction is refused or rolled back.
LEMMA RefusedKeeps ==
  ASSUME TemporalInv, NEW kind, Refused(kind), GuardMoves \/ UNCHANGED memory,
         faults' \in 0..MaxWork
  PROVE  TemporalInv'
  <1>1. /\ TypeOK /\ RequestsSound /\ TimeOrdered /\ host' \in Host /\ TrustedGrows
        /\ service.at = "store" /\ Reply(FALSE, {})
        /\ UNCHANGED <<host, trusted, storeVars, ownerVars, hidden>>
    BY TrustedStays DEF TemporalInv, Refused, Stores
  <1>2. /\ service' \in Service /\ service'.at = "answer"
        /\ service'.request = service.request /\ service'.done = FALSE
        /\ service'.facts = {}
    BY <1>1, Replied
  <1>3. service.request # None /\ Grounded(service.request)
    BY <1>1 DEF RequestsSound
  <1>4. RequestsSound'
    BY <1>1, <1>2, <1>3, GroundedStays DEF RequestsSound, storeVars, ownerVars
  <1>5. TimeOrdered' /\ memory' \in Memory
    BY <1>1, <1>2, StoreTime DEF GuardMoves, storeVars
  <1>6. /\ trusted' \in Sample \cup {None} /\ backlog' \in Seq(Request)
        /\ codes' \subseteq Ids /\ told' \subseteq Ids /\ service'.facts \subseteq service.facts
    BY <1>1, <1>2 DEF TypeOK, ownerVars
  <1> QED BY <1>1, <1>2, <1>4, <1>5, <1>6, QuietKeeps

\* Active facts are read, and those that have expired are left out from now on.
LEMMA FactsReadKeeps ==
  ASSUME TemporalInv, FactsRead, faults' \in 0..MaxWork
  PROVE  TemporalInv'
  <1> DEFINE active == {i \in DOMAIN facts : facts[i].state = "active"}
             shown == {i \in active : Draft(i).from =< Now /\ Now < Until(i)}
             expired == {i \in active : Until(i) =< Now}
  <1>1. /\ TypeOK /\ RequestsSound /\ TimeOrdered /\ StoreSound /\ HiddenExpired
        /\ host' \in Host /\ TrustedGrows /\ service.at = "store"
        /\ UNCHANGED <<host, trusted, storeVars, ownerVars>>
        /\ Reply(TRUE, shown) /\ hidden' = hidden \cup expired /\ GuardMoves
        /\ service.request.kind = "get"
    BY TrustedStays DEF TemporalInv, FactsRead, Stores
  <1>2. /\ trusted # None /\ Now = trusted.instant /\ Now \in Nat
    BY <1>1, SampleInHand
  <1>3. DOMAIN facts \subseteq Ids
    BY <1>1, Types
  <1>4. shown \in SUBSET Ids /\ expired \subseteq DOMAIN facts
    BY <1>3
  <1>5. \A i \in shown : ~(Until(i) =< Now)
    <2>1. \A i \in shown : Until(i) \in Nat
      BY <1>1, FactsDrafted
    <2> QED BY <1>2, <2>1
  <1>6. \A i \in expired : i \in DOMAIN facts /\ Until(i) =< Now
    OBVIOUS
  <1> HIDE DEF shown, expired
  <1>7. /\ service' \in Service /\ service'.at = "answer"
        /\ service'.request = service.request /\ service'.done = TRUE
        /\ service'.facts = shown
    BY <1>1, <1>4, Replied
  <1>8. RequestsSound'
    BY <1>1, <1>7, GroundedStays DEF RequestsSound, storeVars, ownerVars
  <1>9. TimeOrdered' /\ memory' \in Memory
    BY <1>1, <1>7, StoreTime DEF GuardMoves, storeVars
  <1>10. HiddenExpired'
    <2>1. \A i \in hidden' : i \in DOMAIN facts /\ Until(i) =< trusted.instant
      BY <1>1, <1>2, <1>6 DEF HiddenExpired
    <2>2. shown \cap hidden' = {}
      BY <1>2, <1>5, <2>1
    <2> QED BY <1>1, <1>2, <1>7, <2>1, <2>2 DEF HiddenExpired, Until, Draft, storeVars
  <1>11. TypeOK'
    <2>1. hidden' \subseteq Ids
      BY <1>1, <1>3, <1>4 DEF TypeOK
    <2> QED BY <1>1, <1>7, <1>9, <2>1 DEF TypeOK, storeVars, ownerVars, Service, Memory, Host
  <1>12. StoreSound'
    BY <1>1, StoreStays DEF storeVars, TypeOK
  <1> QED BY <1>1, <1>8, <1>9, <1>10, <1>11, <1>12 DEF TemporalInv

Fact == [proposal: Ids, state: FactStates]
LifecycleEvent == [transition: Transitions, fact: Ids, previous: Ids \cup {None}, at: Nat]

\* No proposal and no fact is withdrawn or comes to say something else.
TablesGrow ==
    /\ \A i \in DOMAIN facts : i \in DOMAIN facts' /\ facts'[i].proposal = facts[i].proposal
    /\ \A p \in DOMAIN proposals : /\ p \in DOMAIN proposals'
                                   /\ proposals'[p].mutation = proposals[p].mutation
    /\ \A p : IsConfirmed(p) => IsConfirmed(p)'

\* So a fact keeps its draft.
LEMMA DraftsStay ==
  ASSUME TypeOK, StoreSound, TablesGrow, NEW i \in DOMAIN facts
  PROVE  Draft(i)' = Draft(i) /\ Until(i)' = Until(i)
  <1>1. Draft(i) = proposals[facts[i].proposal].mutation /\ facts[i].proposal \in DOMAIN proposals
    BY FactsDrafted
  <1>2. Draft(i)' = proposals'[facts'[i].proposal].mutation
    BY DEF Draft
  <1>3. Draft(i)' = Draft(i)
    BY <1>1, <1>2 DEF TablesGrow
  <1> QED BY <1>3 DEF Until

\* What a transaction that writes has to answer for.
LEMMA WriteKeeps ==
  ASSUME TemporalInv, service.at = "store", GuardMoves, Committed, Reply(TRUE, {}),
         UNCHANGED <<host, trusted, ownerVars, hidden>>, faults' \in 0..MaxWork,
         facts' \in Seq(Fact), events' \in Seq(LifecycleEvent),
         proposals' \in Seq(Proposal), confirmed' \in Seq(Ids),
         TablesGrow,
         service.request.kind = "confirm" => IsConfirmed(service.request.proposal)',
         service.request.kind = "propose" => Len(proposals') > 0,
         StoreSound'
  PROVE  TemporalInv'
  <1>1. /\ TypeOK /\ RequestsSound /\ TimeOrdered /\ StoreSound /\ HiddenExpired
        /\ host' \in Host
    BY DEF TemporalInv
  <1>2. /\ service' \in Service /\ service'.at = "answer"
        /\ service'.request = service.request /\ service'.done = TRUE
        /\ service'.facts = {}
    BY <1>1, Replied
  <1>3. TimeOrdered' /\ memory' \in Memory /\ watermark' \in Watermark \cup {None}
    BY <1>1, <1>2, StoreTime DEF GuardMoves, Committed
  <1>4. \A request : Grounded(request) => Grounded(request)'
    BY DEF Grounded, Aimed, TablesGrow
  <1>5. RequestsSound'
    <2>1. /\ (\A n \in DOMAIN backlog : Grounded(backlog[n]))'
          /\ codes' \subseteq DOMAIN proposals'
          /\ (\A p \in told : IsConfirmed(p))'
      BY <1>1, <1>4 DEF RequestsSound, TablesGrow, ownerVars
    <2>2. service'.request # None /\ Grounded(service.request)'
      BY <1>1, <1>2, <1>4 DEF RequestsSound
    <2>3. service'.done => service'.at = "answer"
      BY <1>2
    <2> QED BY <1>2, <2>1, <2>2, <2>3 DEF RequestsSound
  <1>6. HiddenExpired'
    <2>1. ASSUME NEW i \in hidden
          PROVE  /\ i \in DOMAIN facts' /\ trusted' # None /\ Until(i)' =< trusted'.instant
      <3>1. i \in DOMAIN facts /\ trusted # None /\ Until(i) =< trusted.instant
        BY <1>1 DEF HiddenExpired
      <3>2. Until(i)' = Until(i)
        BY <1>1, <3>1, DraftsStay
      <3> QED BY <3>1, <3>2 DEF TablesGrow
    <2> QED BY <1>2, <2>1 DEF HiddenExpired
  <1>7. TypeOK'
    BY <1>1, <1>2, <1>3 DEF TypeOK, ownerVars, Service, Memory, Host, Fact, LifecycleEvent
  <1> QED BY <1>1, <1>3, <1>5, <1>6, <1>7 DEF TemporalInv

\* What a proposal that lapses changes, beside its state.
LEMMA LapsedIs ==
  ASSUME TypeOK
  PROVE  /\ Lapsed \in Seq(Proposal) /\ Len(Lapsed) = Len(proposals)
         /\ \A p \in DOMAIN proposals :
               /\ Lapsed[p].mutation = proposals[p].mutation
               /\ Lapsed[p].state = "consumed" <=> proposals[p].state = "consumed"
  <1>1. /\ Len(proposals) \in Nat /\ DOMAIN proposals = 1..Len(proposals)
        /\ \A p \in DOMAIN proposals : proposals[p] \in Proposal
    BY Types
  <1>2. Lapsed = [p \in 1..Len(proposals) |->
           IF proposals[p].state = "pending" /\ proposals[p].expires =< Now
           THEN [proposals[p] EXCEPT !.state = "cancelled"] ELSE proposals[p]]
    BY <1>1 DEF Lapsed, WithLapsed
  <1>3. ASSUME NEW p \in 1..Len(proposals)
        PROVE  /\ Lapsed[p] \in Proposal /\ Lapsed[p].mutation = proposals[p].mutation
               /\ Lapsed[p].state = "consumed" <=> proposals[p].state = "consumed"
    <2>1. proposals[p] \in Proposal
      BY <1>1
    <2>2. CASE proposals[p].state = "pending" /\ proposals[p].expires =< Now
      <3>1. Lapsed[p] = [proposals[p] EXCEPT !.state = "cancelled"]
        BY <1>2, <2>2
      <3> QED BY <2>1, <2>2, <3>1 DEF Proposal
    <2>3. CASE ~(proposals[p].state = "pending" /\ proposals[p].expires =< Now)
      <3>1. Lapsed[p] = proposals[p]
        BY <1>2, <2>3
      <3> QED BY <2>1, <3>1
    <2> QED BY <2>2, <2>3
  <1>4. Lapsed \in [1..Len(proposals) -> Proposal]
    BY <1>2, <1>3
  <1>5. Lapsed \in Seq(Proposal) /\ Len(Lapsed) = Len(proposals)
    BY <1>1, <1>4
  <1> QED BY <1>1, <1>3, <1>5

\* A new proposal is pending, and nothing has been confirmed for it.
LEMMA ProposalStoredKeeps ==
  ASSUME TemporalInv, ProposalStored, faults' \in 0..MaxWork
  PROVE  TemporalInv'
  <1> DEFINE new == [mutation |-> service.request.mutation, expires |-> Now + Ttl,
                     state |-> "pending"]
             id == Len(proposals) + 1
  <1>1. /\ TypeOK /\ RequestsSound /\ TimeOrdered /\ StoreSound
        /\ service.at = "store" /\ service.request.kind = "propose"
        /\ GuardMoves /\ Committed /\ Reply(TRUE, {})
        /\ UNCHANGED <<host, trusted, facts, events, confirmed, ownerVars, hidden>>
        /\ proposals' = Append(Lapsed, new)
    BY DEF TemporalInv, ProposalStored, Stores
  <1>2. service.request.mutation \in Mutation /\ Aimed(service.request.mutation)
    <2>1. service.request \in Request
      BY <1>1, Types DEF RequestsSound, Service
    <2>2. Grounded(service.request)
      BY <1>1 DEF RequestsSound
    <2> QED BY <1>1, <2>1, <2>2, Unawaited DEF Grounded
  <1>3. new \in Proposal
    <2>1. Now + Ttl \in Nat
      BY <1>1, SampleInHand, TemporalAssumption
    <2> QED BY <1>2, <2>1 DEF Proposal
  <1> HIDE DEF new
  <1>4. /\ Lapsed \in Seq(Proposal) /\ Len(Lapsed) = Len(proposals)
        /\ \A p \in DOMAIN proposals :
              /\ Lapsed[p].mutation = proposals[p].mutation
              /\ Lapsed[p].state = "consumed" <=> proposals[p].state = "consumed"
    BY <1>1, LapsedIs
  <1>5. DOMAIN proposals = 1..Len(proposals) /\ Len(proposals) \in Nat
        /\ DOMAIN Lapsed = 1..Len(Lapsed)
    BY <1>1, <1>4, Types, LenProperties
  <1>6. /\ proposals' \in Seq(Proposal) /\ Len(proposals') = id
        /\ DOMAIN proposals' = DOMAIN proposals \cup {id} /\ id \notin DOMAIN proposals
        /\ \A p \in DOMAIN proposals : proposals'[p] = Lapsed[p]
        /\ proposals'[id] = new
    BY <1>1, <1>3, <1>4, <1>5, AppendIs
  <1>7. TablesGrow
    BY <1>1, <1>4, <1>6 DEF TablesGrow, IsConfirmed
  <1>8. ProposalsApplied'
    <2>1. \A p : IsConfirmed(p)' <=> IsConfirmed(p)
      BY <1>1 DEF IsConfirmed
    <2>2. ~IsConfirmed(id)
      BY <1>1, <1>6 DEF StoreSound, ProposalsApplied, IsConfirmed
    <2>3. (\A p \in DOMAIN proposals : proposals[p].state = "consumed" <=> IsConfirmed(p))'
      <3>1. new.state = "pending"
        BY DEF new
      <3> QED BY <1>1, <1>4, <1>6, <2>1, <2>2, <3>1 DEF StoreSound, ProposalsApplied
    <2>4. (\A p \in DOMAIN proposals : Aimed(proposals[p].mutation))'
      <3>1. \A c : Aimed(c)' <=> Aimed(c)
        BY <1>1 DEF Aimed
      <3>2. new.mutation = service.request.mutation
        BY DEF new
      <3> QED BY <1>1, <1>2, <1>4, <1>6, <3>1, <3>2 DEF StoreSound, ProposalsApplied
    <2> QED BY <1>1, <1>6, <2>1, <2>3, <2>4 DEF StoreSound, ProposalsApplied
  <1>9. \A i \in DOMAIN facts : Draft(i)' = Draft(i)
    BY <1>1, <1>7, DraftsStay
  <1>10. \A i \in DOMAIN facts' : Explained(i)'
    BY <1>1 DEF StoreSound, Explained, Superseded
  <1>11. OneActive'
    BY <1>1, <1>9 DEF StoreSound, OneActive
  <1>12. EventsOrdered'
    BY <1>1, <1>9 DEF StoreSound, EventsOrdered
  <1>13. StoreSound'
    BY <1>8, <1>10, <1>11, <1>12 DEF StoreSound
  <1>14. /\ facts' \in Seq(Fact) /\ events' \in Seq(LifecycleEvent) /\ confirmed' \in Seq(Ids)
         /\ Len(proposals') > 0
    BY <1>1, <1>5, <1>6 DEF TypeOK, Fact, LifecycleEvent
  <1> QED BY <1>1, <1>6, <1>7, <1>13, <1>14, WriteKeeps

--------------------------------------------------------------------------------
(* A confirmation. *)

\* The proposal that is confirmed was not, and is from now on.
LEMMA ConsumedIs ==
  ASSUME TemporalInv, Consumed, NEW p, p = service.request.proposal
  PROVE  /\ p \in DOMAIN proposals /\ p \in Ids /\ ~IsConfirmed(p)
         /\ Candidate \in Mutation /\ Aimed(Candidate) /\ Candidate = proposals[p].mutation
         /\ proposals' \in Seq(Proposal) /\ DOMAIN proposals' = DOMAIN proposals
         /\ \A q \in DOMAIN proposals :
               /\ proposals'[q].mutation = proposals[q].mutation
               /\ q # p => proposals'[q].state = proposals[q].state
         /\ proposals'[p].state = "consumed"
         /\ confirmed' \in Seq(Ids)
         /\ \A q : IsConfirmed(q)' <=> IsConfirmed(q) \/ q = p
         /\ \A n, m \in DOMAIN confirmed' : confirmed'[n] = confirmed'[m] => n = m
         /\ \A n \in DOMAIN confirmed' : confirmed'[n] \in DOMAIN proposals
  <1>1. /\ TypeOK /\ RequestsSound /\ StoreSound
        /\ service.at = "store" /\ service.request.kind = "confirm" /\ Confirmable
        /\ proposals' = [proposals EXCEPT ![p].state = "consumed"]
        /\ confirmed' = Append(confirmed, p)
    BY DEF TemporalInv, Consumed, Stores
  <1>2. Grounded(service.request)
    BY <1>1 DEF RequestsSound
  <1>3. p \in DOMAIN proposals
    BY <1>1, <1>2 DEF Grounded
  <1>4. /\ proposals \in Seq(Proposal) /\ DOMAIN proposals = 1..Len(proposals)
        /\ proposals[p] \in Proposal /\ proposals[p].mutation \in Mutation /\ p \in Ids
        /\ Len(proposals) \in Nat /\ confirmed \in Seq(Ids)
    BY <1>1, <1>3, Types DEF TypeOK
  <1>5. proposals[p].state = "pending" /\ Candidate = proposals[p].mutation
    BY <1>1 DEF Confirmable, Chosen, Candidate
  <1>6. ~IsConfirmed(p) /\ Aimed(Candidate)
    BY <1>1, <1>3, <1>5 DEF StoreSound, ProposalsApplied
  <1>7. PICK done : done = [proposals[p] EXCEPT !.state = "consumed"]
    OBVIOUS
  <1>8. done \in Proposal /\ done.mutation = proposals[p].mutation /\ done.state = "consumed"
    BY <1>4, <1>7 DEF Proposal
  <1>9. proposals' = [proposals EXCEPT ![p] = done]
    BY <1>1, <1>7
  <1>10. /\ proposals' \in Seq(Proposal) /\ DOMAIN proposals' = DOMAIN proposals
         /\ proposals'[p] = done
         /\ \A q \in DOMAIN proposals : q # p => proposals'[q] = proposals[q]
    BY <1>3, <1>4, <1>8, <1>9, ExceptSeq
  <1>11. /\ confirmed' \in Seq(Ids) /\ Len(confirmed) + 1 \notin DOMAIN confirmed
         /\ DOMAIN confirmed' = DOMAIN confirmed \cup {Len(confirmed) + 1}
         /\ \A n \in DOMAIN confirmed : confirmed'[n] = confirmed[n]
         /\ confirmed'[Len(confirmed) + 1] = p
    BY <1>1, <1>4, AppendIs
  <1>12. \A q : IsConfirmed(q)' <=> IsConfirmed(q) \/ q = p
    BY <1>11 DEF IsConfirmed
  <1>13. /\ \A n, m \in DOMAIN confirmed : confirmed[n] = confirmed[m] => n = m
         /\ \A n \in DOMAIN confirmed : confirmed[n] # p /\ confirmed[n] \in DOMAIN proposals
    BY <1>1, <1>6 DEF StoreSound, ProposalsApplied, IsConfirmed
  <1>14. \A n, m \in DOMAIN confirmed' : confirmed'[n] = confirmed'[m] => n = m
    BY <1>11, <1>13
  <1>15. \A n \in DOMAIN confirmed' : confirmed'[n] \in DOMAIN proposals
    BY <1>3, <1>11, <1>13
  <1> QED BY <1>3, <1>4, <1>5, <1>6, <1>8, <1>10, <1>11, <1>12, <1>14, <1>15

\* What the confirmation leaves of the facts: the old ones, and perhaps a new one of the
\* proposal.
FactsFollow ==
    /\ facts' \in Seq(Fact)
    /\ \A i \in DOMAIN facts : i \in DOMAIN facts' /\ facts'[i].proposal = facts[i].proposal
    /\ \A i \in DOMAIN facts' :
          \/ i \in DOMAIN facts
          \/ i = Len(facts) + 1 /\ facts'[i].proposal = service.request.proposal

\* A proposal is applied once, when it is confirmed.
LEMMA ConfirmedApplied ==
  ASSUME TemporalInv, Consumed, FactsFollow
  PROVE  ProposalsApplied' /\ TablesGrow
  <1>1. PICK p : p = service.request.proposal
    OBVIOUS
  <1>2. /\ p \in DOMAIN proposals /\ ~IsConfirmed(p)
        /\ DOMAIN proposals' = DOMAIN proposals
        /\ \A q \in DOMAIN proposals :
              /\ proposals'[q].mutation = proposals[q].mutation
              /\ q # p => proposals'[q].state = proposals[q].state
        /\ proposals'[p].state = "consumed"
        /\ \A q : IsConfirmed(q)' <=> IsConfirmed(q) \/ q = p
        /\ \A n, m \in DOMAIN confirmed' : confirmed'[n] = confirmed'[m] => n = m
        /\ \A n \in DOMAIN confirmed' : confirmed'[n] \in DOMAIN proposals
    BY <1>1, ConsumedIs
  <1>3. /\ \A i, j \in DOMAIN facts : facts[i].proposal = facts[j].proposal => i = j
        /\ \A i \in DOMAIN facts : IsConfirmed(facts[i].proposal)
        /\ \A q \in DOMAIN proposals : proposals[q].state = "consumed" <=> IsConfirmed(q)
        /\ \A q \in DOMAIN proposals : Aimed(proposals[q].mutation)
    BY DEF TemporalInv, StoreSound, ProposalsApplied
  <1>4. TablesGrow
    BY <1>2 DEF TablesGrow, FactsFollow
  <1>5. \A i, j \in DOMAIN facts' : facts'[i].proposal = facts'[j].proposal => i = j
    <2>1. \A i \in DOMAIN facts : facts[i].proposal # p
      BY <1>2, <1>3
    <2> QED BY <1>1, <1>3, <2>1 DEF FactsFollow
  <1>6. (\A i \in DOMAIN facts : IsConfirmed(facts[i].proposal))'
    BY <1>1, <1>2, <1>3 DEF FactsFollow
  <1>7. (\A q \in DOMAIN proposals : proposals[q].state = "consumed" <=> IsConfirmed(q))'
    BY <1>2, <1>3
  <1>8. (\A q \in DOMAIN proposals : Aimed(proposals[q].mutation))'
    <2>1. \A c : Aimed(c) => Aimed(c)'
      BY DEF Aimed, FactsFollow
    <2> QED BY <1>2, <1>3, <2>1
  <1> QED BY <1>2, <1>4, <1>5, <1>6, <1>7, <1>8 DEF ProposalsApplied

\* The event of the confirmation is the last one.
LEMMA EventRecorded ==
  ASSUME TypeOK, NEW e \in LifecycleEvent, events' = Append(events, e)
  PROVE  /\ events' \in Seq(LifecycleEvent) /\ Len(events) \in Nat
         /\ DOMAIN events' = DOMAIN events \cup {Len(events) + 1}
         /\ \A k \in DOMAIN events : events'[k] = events[k] /\ k < Len(events) + 1 /\ k \in Nat
         /\ events'[Len(events) + 1] = e
  <1>1. events \in Seq(LifecycleEvent)
    BY DEF TypeOK, LifecycleEvent
  <1>2. \A k \in DOMAIN events : k \in Nat
    BY <1>1, LenProperties
  <1> QED BY <1>1, <1>2, AppendIs

\* The events stay in the order of time.
LEMMA EventsFollow ==
  ASSUME TemporalInv, Consumed, FactsFollow,
         NEW e \in LifecycleEvent, events' = Append(events, e), e.at = Now,
         e.fact \in DOMAIN facts',
         e.transition = "supersede" =>
            /\ e.previous \in DOMAIN facts /\ e.previous < e.fact
            /\ \A old, new : old = e.previous /\ new = e.fact =>
                  Draft(new)'.slot = Draft(old)'.slot
  PROVE  EventsOrdered'
  <1>1. TypeOK /\ TimeOrdered /\ StoreSound /\ service.at = "store" /\ trusted' = trusted
    BY DEF TemporalInv, Consumed, Stores
  <1>2. trusted # None /\ Now = trusted.instant /\ Now \in Nat
    BY <1>1, SampleInHand
  <1>3. PICK last : last = Len(events) + 1
    OBVIOUS
  <1>4. /\ DOMAIN events' = DOMAIN events \cup {last}
        /\ \A k \in DOMAIN events : events'[k] = events[k] /\ k < last /\ k \in Nat
        /\ events'[last] = e /\ last \in Nat
    BY <1>1, <1>3, EventRecorded
  <1>5. \A i \in DOMAIN facts : i \in DOMAIN facts' /\ Draft(i)' = Draft(i)
    <2>1. TablesGrow
      BY ConfirmedApplied
    <2> QED BY <1>1, <2>1, DraftsStay DEF TablesGrow
  <1>6. \A k \in DOMAIN events :
           /\ events[k].fact \in DOMAIN facts
           /\ events[k].transition = "supersede" =>
                 /\ events[k].previous \in DOMAIN facts
                 /\ events[k].previous < events[k].fact
                 /\ Draft(events[k].previous).slot = Draft(events[k].fact).slot
           /\ events[k].at =< Now
           /\ \A j \in DOMAIN events : j =< k => events[j].at =< events[k].at
    BY <1>1, <1>2 DEF StoreSound, EventsOrdered
  <1>7. ASSUME NEW k \in DOMAIN events'
        PROVE  /\ events'[k].fact \in DOMAIN facts'
               /\ events'[k].transition = "supersede" =>
                     /\ events'[k].previous \in DOMAIN facts'
                     /\ events'[k].previous < events'[k].fact
                     /\ \A old, new : old = events'[k].previous /\ new = events'[k].fact =>
                           Draft(old)'.slot = Draft(new)'.slot
               /\ events'[k].at =< Now
               /\ \A j \in DOMAIN events' : j =< k => events'[j].at =< events'[k].at
    <2>1. CASE k = last
      BY <1>2, <1>4, <1>5, <1>6, <2>1
    <2>2. CASE k \in DOMAIN events
      <3>1. \A j \in DOMAIN events' : j =< k => j \in DOMAIN events
        BY <1>4, <2>2
      <3> QED BY <1>4, <1>5, <1>6, <2>2, <3>1
    <2> QED BY <1>4, <2>1, <2>2
  <1> QED BY <1>1, <1>2, <1>7 DEF EventsOrdered

\* The state that an event gives its fact, unless another replaced it.
StateBy(transition) ==
    IF transition = "revoke" THEN "revoked"
    ELSE IF transition = "conflict" THEN "conflicted" ELSE "active"

\* A fact keeps its state, is replaced, or is given one by the event.
Follows(i, e) ==
    \/ /\ i \in DOMAIN facts /\ e.fact # i
       /\ ~(e.transition = "supersede" /\ e.previous = i)
       /\ facts'[i].state = facts[i].state
    \/ /\ i \in DOMAIN facts /\ e.fact # i
       /\ e.transition = "supersede" /\ e.previous = i
       /\ facts'[i].state = "superseded"
    \/ /\ e.fact = i /\ ~Superseded(i)
       /\ ~(e.transition = "supersede" /\ e.previous = i)
       /\ facts'[i].state = StateBy(e.transition)

\* Then the events explain it still.
LEMMA ExplainedFollows ==
  ASSUME TypeOK, StoreSound, NEW e \in LifecycleEvent, events' = Append(events, e),
         NEW i \in DOMAIN facts', Follows(i, e)
  PROVE  Explained(i)'
  <1>1. PICK last : last = Len(events) + 1
    OBVIOUS
  <1>2. /\ DOMAIN events' = DOMAIN events \cup {last}
        /\ \A k \in DOMAIN events : events'[k] = events[k] /\ k < last /\ k \in Nat
        /\ events'[last] = e /\ last \in Nat
    BY <1>1, EventRecorded
  <1>3. Superseded(i)' <=> Superseded(i) \/ (e.transition = "supersede" /\ e.previous = i)
    <2>1. Superseded(i)' <=>
             \E k \in DOMAIN events' : /\ events'[k].previous = i
                                       /\ events'[k].transition = "supersede"
      BY DEF Superseded
    <2> QED BY <1>2, <2>1 DEF Superseded
  <1>4. CASE i \in DOMAIN facts /\ e.fact # i
    <2>1. PICK n \in DOMAIN events :
             /\ events[n].fact = i
             /\ \A k \in DOMAIN events : events[k].fact = i => k =< n
             /\ facts[i].state = IF Superseded(i) THEN "superseded"
                                 ELSE IF events[n].transition = "revoke" THEN "revoked"
                                 ELSE IF events[n].transition = "conflict" THEN "conflicted"
                                 ELSE "active"
      BY <1>4 DEF StoreSound, Explained
    <2>2. /\ n \in DOMAIN events' /\ events'[n].fact = i
          /\ \A k \in DOMAIN events' : events'[k].fact = i => k =< n
          /\ events'[n].transition = events[n].transition
      BY <1>2, <1>4, <2>1
    <2>3. facts'[i].state = IF Superseded(i)' THEN "superseded"
                            ELSE IF events'[n].transition = "revoke" THEN "revoked"
                            ELSE IF events'[n].transition = "conflict" THEN "conflicted"
                            ELSE "active"
      <3>1. CASE e.transition = "supersede" /\ e.previous = i
        BY <1>3, <1>4, <3>1 DEF Follows
      <3>2. CASE ~(e.transition = "supersede" /\ e.previous = i)
        <4>1. facts'[i].state = facts[i].state /\ (Superseded(i)' <=> Superseded(i))
          BY <1>3, <1>4, <3>2 DEF Follows
        <4> QED BY <2>1, <2>2, <4>1
      <3> QED BY <3>1, <3>2
    <2> QED BY <2>2, <2>3 DEF Explained
  <1>5. CASE e.fact = i
    <2>1. ~Superseded(i)' /\ facts'[i].state = StateBy(e.transition)
      BY <1>3, <1>5 DEF Follows
    <2>2. /\ last \in DOMAIN events' /\ events'[last].fact = i
          /\ \A k \in DOMAIN events' : k =< last
          /\ events'[last].transition = e.transition
      BY <1>2, <1>5
    <2> QED BY <2>1, <2>2 DEF Explained, StateBy
  <1> QED BY <1>4, <1>5 DEF Follows

\* A fact that is active has not been replaced; one that is not there has not either.
LEMMA NotSuperseded ==
  ASSUME StoreSound, NEW i,
         i \in DOMAIN facts => facts[i].state # "superseded"
  PROVE  ~Superseded(i)
  <1>1. CASE i \in DOMAIN facts
    BY <1>1 DEF StoreSound, Explained
  <1>2. CASE i \notin DOMAIN facts
    BY <1>2 DEF StoreSound, EventsOrdered, Superseded
  <1> QED BY <1>1, <1>2

\* A slot has one active fact still when what takes it leaves none.
LEMMA OneActiveFollows ==
  ASSUME TemporalInv, Consumed, FactsFollow,
         \A i \in DOMAIN facts : facts'[i].state = "active" => facts[i].state = "active",
         \A new \in DOMAIN facts' :
            new \notin DOMAIN facts /\ facts'[new].state = "active" =>
               \A i \in InSlot(Candidate.slot) : facts'[i].state # "active"
  PROVE  OneActive'
  <1>1. TypeOK /\ StoreSound
    BY DEF TemporalInv
  <1>2. \A i \in DOMAIN facts : Draft(i)' = Draft(i)
    <2>1. TablesGrow
      BY ConfirmedApplied
    <2> QED BY <1>1, <2>1, DraftsStay
  <1>3. PICK p : p = service.request.proposal
    OBVIOUS
  <1>4. p \in DOMAIN proposals /\ proposals'[p].mutation = Candidate
    BY <1>3, ConsumedIs
  <1>5. \A new \in DOMAIN facts' : new \notin DOMAIN facts => Draft(new)' = Candidate
    <2>1. \A new \in DOMAIN facts' : new \notin DOMAIN facts => facts'[new].proposal = p
      BY <1>3 DEF FactsFollow
    <2> QED BY <1>4, <2>1 DEF Draft
  <1>6. \A i, j \in DOMAIN facts :
           /\ facts[i].state = "active" /\ facts[j].state = "active"
           /\ Draft(i).slot = Draft(j).slot
           => i = j
    BY <1>1 DEF StoreSound, OneActive
  <1>7. ASSUME NEW new \in DOMAIN facts', new \notin DOMAIN facts,
               facts'[new].state = "active", NEW i \in DOMAIN facts,
               facts'[i].state = "active"
        PROVE  Draft(i)'.slot # Candidate.slot
    <2>1. facts[i].state = "active"
      BY <1>7
    <2>2. i \notin InSlot(Candidate.slot)
      BY <1>7
    <2>3. Draft(i).slot # Candidate.slot
      BY <2>1, <2>2 DEF InSlot
    <2> QED BY <1>2, <2>3
  <1>8. ASSUME NEW i \in DOMAIN facts', NEW j \in DOMAIN facts',
               facts'[i].state = "active", facts'[j].state = "active",
               Draft(i)'.slot = Draft(j)'.slot
        PROVE  i = j
    <2>1. CASE i \in DOMAIN facts /\ j \in DOMAIN facts
      BY <1>2, <1>6, <1>8, <2>1
    <2>2. CASE i \in DOMAIN facts /\ j \notin DOMAIN facts
      BY <1>5, <1>7, <1>8, <2>2
    <2>3. CASE i \notin DOMAIN facts /\ j \in DOMAIN facts
      BY <1>5, <1>7, <1>8, <2>3
    <2>4. CASE i \notin DOMAIN facts /\ j \notin DOMAIN facts
      BY <2>4 DEF FactsFollow
    <2> QED BY <2>1, <2>2, <2>3, <2>4
  <1> QED BY <1>8 DEF OneActive

\* What a confirmation that records an event has to answer for.
LEMMA ConfirmationKeeps ==
  ASSUME TemporalInv, Consumed, faults' \in 0..MaxWork, FactsFollow,
         NEW e \in LifecycleEvent, events' = Append(events, e), e.at = Now,
         e.fact \in DOMAIN facts',
         e.transition = "supersede" =>
            /\ e.previous \in DOMAIN facts /\ e.previous < e.fact
            /\ \A old, new : old = e.previous /\ new = e.fact =>
                  Draft(new)'.slot = Draft(old)'.slot,
         \A i \in DOMAIN facts' : Follows(i, e),
         OneActive'
  PROVE  TemporalInv'
  <1>1. /\ TypeOK /\ StoreSound /\ service.at = "store" /\ service.request.kind = "confirm"
        /\ GuardMoves /\ Committed /\ Reply(TRUE, {})
        /\ UNCHANGED <<host, trusted, ownerVars, hidden>>
    BY DEF TemporalInv, Consumed, Stores
  <1>2. ProposalsApplied' /\ TablesGrow
    BY ConfirmedApplied
  <1>3. EventsOrdered'
    BY EventsFollow
  <1>4. \A i \in DOMAIN facts' : Explained(i)'
    BY <1>1, ExplainedFollows
  <1>5. StoreSound'
    BY <1>2, <1>3, <1>4 DEF StoreSound
  <1>6. events' \in Seq(LifecycleEvent)
    BY <1>1, EventRecorded
  <1>7. PICK p : p = service.request.proposal
    OBVIOUS
  <1>8. proposals' \in Seq(Proposal) /\ confirmed' \in Seq(Ids) /\ IsConfirmed(p)'
    BY <1>7, ConsumedIs
  <1>9. service'.request.proposal = p /\ IsConfirmed(service.request.proposal)'
    <2>1. service'.request = service.request
      BY <1>1, Replied
    <2> QED BY <1>7, <1>8, <2>1
  <1> QED BY <1>1, <1>2, <1>5, <1>6, <1>8, <1>9, WriteKeeps DEF FactsFollow

\* What the confirmations of every kind have in hand.
LEMMA Confirming ==
  ASSUME TemporalInv, Consumed
  PROVE  /\ TypeOK /\ StoreSound /\ facts \in Seq(Fact) /\ Len(facts) \in Nat
         /\ DOMAIN facts = 1..Len(facts) /\ Now \in Nat
         /\ \A i \in DOMAIN facts : facts[i] \in Fact
         /\ \A state \in FactStates : NewFact(state) \in Fact
         /\ \A state : /\ NewFact(state).state = state
                       /\ NewFact(state).proposal = service.request.proposal
         /\ Candidate \in Mutation /\ Candidate.action \in Actions
         /\ Candidate.action # "create" => Target \in DOMAIN facts
         /\ NextRevision = Len(facts) + 1 /\ NextRevision \in Ids
         /\ NextRevision \notin DOMAIN facts /\ DOMAIN facts \subseteq Ids
  <1>1. TypeOK /\ StoreSound /\ TimeOrdered /\ service.at = "store"
    BY DEF TemporalInv, Consumed, Stores
  <1>2. /\ Len(facts) \in Nat /\ DOMAIN facts = 1..Len(facts) /\ DOMAIN facts \subseteq Ids
        /\ facts \in Seq(Fact) /\ \A i \in DOMAIN facts : facts[i] \in Fact
    <2>1. facts \in Seq(Fact)
      BY <1>1 DEF TypeOK, Fact
    <2> QED BY <1>1, <2>1, Types, ElementOfSeq
  <1>3. PICK p : p = service.request.proposal
    OBVIOUS
  <1>4. Candidate \in Mutation /\ Aimed(Candidate) /\ p \in Ids
    BY <1>3, ConsumedIs
  <1>5. /\ \A state \in FactStates : NewFact(state) \in Fact
        /\ \A state : NewFact(state).state = state /\ NewFact(state).proposal = p
    BY <1>3, <1>4 DEF NewFact, Fact
  <1>6. Candidate.action \in Actions /\ (Candidate.action # "create" => Target \in DOMAIN facts)
    BY <1>4 DEF Mutation, Aimed, Target
  <1>7. NextRevision = Len(facts) + 1 /\ NextRevision \in Ids /\ NextRevision \notin DOMAIN facts
    BY <1>2 DEF NextRevision, Ids
  <1>8. Now \in Nat
    BY <1>1, SampleInHand
  <1> QED BY <1>1, <1>2, <1>3, <1>4, <1>5, <1>6, <1>7, <1>8

\* A new fact of the proposal follows the others.
LEMMA FactAdded ==
  ASSUME TemporalInv, Consumed, NEW state \in FactStates,
         NEW old \in Seq(Fact), Len(old) = Len(facts),
         \A i \in DOMAIN facts : old[i].proposal = facts[i].proposal,
         facts' = Append(old, NewFact(state))
  PROVE  /\ FactsFollow
         /\ DOMAIN facts' = DOMAIN facts \cup {NextRevision}
         /\ \A i \in DOMAIN facts : facts'[i] = old[i]
         /\ facts'[NextRevision].state = state
  <1>1. /\ NewFact(state) \in Fact /\ NewFact(state).state = state
        /\ NewFact(state).proposal = service.request.proposal
        /\ NextRevision = Len(facts) + 1 /\ DOMAIN facts = 1..Len(facts)
    BY Confirming
  <1>2. DOMAIN old = DOMAIN facts
    BY <1>1, LenProperties
  <1>3. /\ facts' \in Seq(Fact) /\ DOMAIN facts' = DOMAIN facts \cup {NextRevision}
        /\ \A i \in DOMAIN facts : facts'[i] = old[i]
        /\ facts'[NextRevision] = NewFact(state)
    BY <1>1, <1>2, AppendIs
  <1>4. FactsFollow
    BY <1>1, <1>3 DEF FactsFollow
  <1> QED BY <1>1, <1>3, <1>4

\* A fact of its own, in conflict with that of the slot, or nothing new.
LEMMA CreateKeeps ==
  ASSUME TemporalInv, CreateConfirmed, faults' \in 0..MaxWork
  PROVE  TemporalInv'
  <1>0. Consumed
    BY DEF CreateConfirmed
  <1>1. /\ TypeOK /\ StoreSound /\ facts \in Seq(Fact) /\ Now \in Nat
        /\ NextRevision \in Ids /\ NextRevision \notin DOMAIN facts /\ DOMAIN facts \subseteq Ids
        /\ {"active", "conflicted"} \subseteq FactStates
    BY <1>0, Confirming DEF FactStates
  <1>2. ~Superseded(NextRevision)
    BY <1>1, NotSuperseded
  <1>3. \A i \in InSlot(Candidate.slot) : i \in Ids
    BY <1>1 DEF InSlot
  <1>4. ASSUME NEW state \in {"active", "conflicted"},
               facts' = Append(facts, NewFact(state)),
               NEW transition \in Transitions \ {"supersede", "revoke"},
               state = StateBy(transition),
               NEW previous \in Ids \cup {None},
               events' = Append(events, Event(transition, NextRevision, previous)),
               state = "active" => InSlot(Candidate.slot) = {}
        PROVE  TemporalInv'
    <2>1. /\ FactsFollow /\ DOMAIN facts' = DOMAIN facts \cup {NextRevision}
          /\ \A i \in DOMAIN facts : facts'[i] = facts[i]
          /\ facts'[NextRevision].state = state
      BY <1>0, <1>1, <1>4, FactAdded
    <2>2. PICK e : e = Event(transition, NextRevision, previous)
      OBVIOUS
    <2>3. /\ e \in LifecycleEvent /\ e.transition = transition /\ e.fact = NextRevision
          /\ e.at = Now /\ transition # "supersede"
      BY <1>1, <2>2 DEF Event, LifecycleEvent
    <2>4. ASSUME NEW i \in DOMAIN facts' PROVE Follows(i, e)
      <3>1. CASE i = NextRevision
        BY <1>2, <1>4, <2>1, <2>3, <3>1 DEF Follows
      <3>2. CASE i \in DOMAIN facts
        BY <1>1, <2>1, <2>3, <3>2 DEF Follows
      <3> QED BY <2>1, <3>1, <3>2
    <2>5. OneActive'
      <3>1. \A i \in DOMAIN facts : facts'[i].state = "active" => facts[i].state = "active"
        BY <2>1
      <3>2. \A new \in DOMAIN facts' :
               new \notin DOMAIN facts /\ facts'[new].state = "active" =>
                  \A i \in InSlot(Candidate.slot) : facts'[i].state # "active"
        BY <1>4, <2>1
      <3> QED BY <1>0, <2>1, <3>1, <3>2, OneActiveFollows
    <2> QED BY <1>0, <1>4, <2>1, <2>2, <2>3, <2>4, <2>5, ConfirmationKeeps
  <1>5. CASE CreateActive
    BY <1>4, <1>5 DEF CreateActive, Transitions, StateBy
  <1>6. CASE CreateConflicted
    <2>1. PICK i \in InSlot(Candidate.slot) :
             /\ facts' = Append(facts, NewFact("conflicted"))
             /\ events' = Append(events, Event("conflict", NextRevision, i))
      BY <1>6 DEF CreateConflicted
    <2>2. i \in Ids
      BY <1>3
    <2> QED BY <1>4, <2>1, <2>2 DEF Transitions, StateBy
  <1>7. CASE CreateUnchanged
    <2>1. facts' = facts /\ events' = events
      BY <1>7 DEF CreateUnchanged
    <2>2. FactsFollow
      BY <1>1, <2>1 DEF FactsFollow
    <2>3. ProposalsApplied' /\ TablesGrow
      BY <1>0, <2>2, ConfirmedApplied
    <2>4. \A i \in DOMAIN facts : Draft(i)' = Draft(i)
      BY <1>1, <2>3, DraftsStay
    <2>5. StoreSound'
      <3>1. \A i \in DOMAIN facts' : Explained(i)'
        BY <1>1, <2>1 DEF StoreSound, Explained, Superseded
      <3>2. OneActive'
        BY <1>1, <2>1, <2>4 DEF StoreSound, OneActive
      <3>3. EventsOrdered'
        <4>1. trusted' = trusted
          BY <1>0 DEF Consumed
        <4> QED BY <1>1, <2>1, <2>4, <4>1 DEF StoreSound, EventsOrdered
      <3> QED BY <2>3, <3>1, <3>2, <3>3 DEF StoreSound
    <2>6. /\ service.at = "store" /\ GuardMoves /\ Committed /\ Reply(TRUE, {})
          /\ UNCHANGED <<host, trusted, ownerVars, hidden>> /\ service.request.kind = "confirm"
      BY <1>0 DEF Consumed, Stores
    <2>7. PICK p : p = service.request.proposal
      OBVIOUS
    <2>8. proposals' \in Seq(Proposal) /\ confirmed' \in Seq(Ids) /\ IsConfirmed(p)'
      BY <1>0, <2>7, ConsumedIs
    <2>9. IsConfirmed(service.request.proposal)'
      <3>1. service'.request = service.request
        BY <1>1, <2>6, Replied
      <3> QED BY <2>7, <2>8, <3>1
    <2>10. facts' \in Seq(Fact) /\ events' \in Seq(LifecycleEvent)
      BY <1>1, <2>1 DEF TypeOK, LifecycleEvent
    <2> QED BY <2>3, <2>5, <2>6, <2>8, <2>9, <2>10, WriteKeeps
  <1> QED BY <1>5, <1>6, <1>7 DEF CreateConfirmed

\* The fact is revoked where it stands.
LEMMA RevokeKeeps ==
  ASSUME TemporalInv, RevokeConfirmed, faults' \in 0..MaxWork
  PROVE  TemporalInv'
  <1>0. Consumed /\ Candidate.action = "revoke"
    BY DEF RevokeConfirmed
  <1>1. /\ TypeOK /\ StoreSound /\ facts \in Seq(Fact) /\ Now \in Nat
        /\ DOMAIN facts \subseteq Ids /\ DOMAIN facts = 1..Len(facts)
        /\ \A i \in DOMAIN facts : facts[i] \in Fact
    BY <1>0, Confirming
  <1>2. PICK t \in DOMAIN facts : t = Target
    BY <1>0, Confirming
  <1>3. /\ facts[t].state = "active" /\ facts' = [facts EXCEPT ![t].state = "revoked"]
        /\ events' = Append(events, Event("revoke", t, t))
    BY <1>2 DEF RevokeConfirmed, RevokeAllowed
  <1>4. PICK gone : gone = [facts[t] EXCEPT !.state = "revoked"]
    OBVIOUS
  <1>5. gone \in Fact /\ gone.state = "revoked" /\ gone.proposal = facts[t].proposal
    BY <1>1, <1>4 DEF Fact, FactStates
  <1>6. /\ facts' \in Seq(Fact) /\ DOMAIN facts' = DOMAIN facts /\ facts'[t] = gone
        /\ \A i \in DOMAIN facts : i # t => facts'[i] = facts[i]
    <2>1. facts' = [facts EXCEPT ![t] = gone]
      BY <1>3, <1>4
    <2> QED BY <1>1, <1>2, <1>5, <2>1, ExceptSeq
  <1>7. FactsFollow
    BY <1>5, <1>6 DEF FactsFollow
  <1>8. PICK e : e = Event("revoke", t, t)
    OBVIOUS
  <1>9. /\ e \in LifecycleEvent /\ e.transition = "revoke" /\ e.fact = t /\ e.at = Now
    BY <1>1, <1>8 DEF Event, LifecycleEvent, Transitions
  <1>10. ~Superseded(t)
    BY <1>1, <1>3, NotSuperseded
  <1>11. ASSUME NEW i \in DOMAIN facts' PROVE Follows(i, e)
    BY <1>5, <1>6, <1>9, <1>10 DEF Follows, StateBy
  <1>12. OneActive'
    BY <1>0, <1>5, <1>6, <1>7, OneActiveFollows
  <1> QED BY <1>0, <1>3, <1>6, <1>7, <1>8, <1>9, <1>11, <1>12, ConfirmationKeeps

\* The fact of the slot is replaced.
LEMMA SupersedeKeeps ==
  ASSUME TemporalInv, SupersedeConfirmed, faults' \in 0..MaxWork
  PROVE  TemporalInv'
  <1>0. Consumed /\ Candidate.action # "create"
    BY DEF SupersedeConfirmed
  <1>1. /\ TypeOK /\ StoreSound /\ facts \in Seq(Fact) /\ Now \in Nat /\ Len(facts) \in Nat
        /\ DOMAIN facts \subseteq Ids /\ DOMAIN facts = 1..Len(facts)
        /\ \A i \in DOMAIN facts : facts[i] \in Fact
        /\ NextRevision = Len(facts) + 1 /\ NextRevision \in Ids
        /\ NextRevision \notin DOMAIN facts
    BY <1>0, Confirming
  <1>2. PICK t \in DOMAIN facts : t = Target
    BY <1>0, Confirming
  <1>3. /\ Candidate.slot = Draft(t).slot /\ facts[t].state = "active"
        /\ facts' = Append([facts EXCEPT ![t].state = "superseded"], NewFact("active"))
        /\ events' = Append(events, Event("supersede", NextRevision, t))
    BY <1>2 DEF SupersedeConfirmed, SupersedeAllowed
  <1>4. PICK gone : gone = [facts[t] EXCEPT !.state = "superseded"]
    OBVIOUS
  <1>5. gone \in Fact /\ gone.state = "superseded" /\ gone.proposal = facts[t].proposal
    BY <1>1, <1>4 DEF Fact, FactStates
  <1>6. PICK old : old = [facts EXCEPT ![t] = gone]
    OBVIOUS
  <1>7. /\ old \in Seq(Fact) /\ Len(old) = Len(facts) /\ old[t] = gone
        /\ \A i \in DOMAIN facts : i # t => old[i] = facts[i]
    BY <1>1, <1>2, <1>5, <1>6, ExceptSeq
  <1>8. facts' = Append(old, NewFact("active"))
    BY <1>3, <1>4, <1>6
  <1>9. /\ FactsFollow
        /\ DOMAIN facts' = DOMAIN facts \cup {NextRevision}
        /\ \A i \in DOMAIN facts : facts'[i] = old[i]
        /\ facts'[NextRevision].state = "active"
    <2>1. "active" \in FactStates /\ \A i \in DOMAIN facts : old[i].proposal = facts[i].proposal
      BY <1>5, <1>7 DEF FactStates
    <2> QED BY <1>0, <1>7, <1>8, <2>1, FactAdded
  <1>10. PICK e : e = Event("supersede", NextRevision, t)
    OBVIOUS
  <1>11. /\ e \in LifecycleEvent /\ e.transition = "supersede" /\ e.fact = NextRevision
         /\ e.at = Now /\ e.previous = t
    BY <1>1, <1>10 DEF Event, LifecycleEvent, Transitions
  <1>12. ~Superseded(NextRevision)
    BY <1>1, NotSuperseded
  <1>13. ASSUME NEW i \in DOMAIN facts' PROVE Follows(i, e)
    <2>1. CASE i = NextRevision
      BY <1>1, <1>9, <1>11, <1>12, <2>1 DEF Follows, StateBy
    <2>2. CASE i \in DOMAIN facts
      BY <1>1, <1>5, <1>7, <1>9, <1>11, <2>2 DEF Follows
    <2> QED BY <1>9, <2>1, <2>2
  <1>14. \A r : r = NextRevision => Draft(r)'.slot = Draft(t)'.slot
    <2>1. TablesGrow
      BY <1>0, <1>9, ConfirmedApplied
    <2>2. Draft(t)' = Draft(t)
      BY <1>1, <2>1, DraftsStay
    <2>3. PICK p : p = service.request.proposal
      OBVIOUS
    <2>4. proposals'[p].mutation = Candidate
      BY <1>0, <2>3, ConsumedIs
    <2>5. \A r : r = NextRevision => Draft(r)' = Candidate
      <3>1. facts'[NextRevision].proposal = p
        BY <1>1, <1>9, <2>3 DEF FactsFollow
      <3> QED BY <2>4, <3>1 DEF Draft
    <2> QED BY <1>3, <2>2, <2>5
  <1>15. OneActive'
    <2>1. \A i \in DOMAIN facts : facts'[i].state = "active" => facts[i].state = "active"
      BY <1>5, <1>7, <1>9
    <2>2. \A i \in InSlot(Candidate.slot) : i = t
      BY <1>1, <1>3 DEF InSlot, StoreSound, OneActive
    <2>3. facts'[t].state # "active"
      BY <1>5, <1>7, <1>9
    <2> QED BY <1>0, <1>9, <2>1, <2>2, <2>3, OneActiveFollows
  <1>16. t < NextRevision
    BY <1>1
  <1>17. e.fact \in DOMAIN facts' /\ events' = Append(events, e)
    BY <1>3, <1>9, <1>10, <1>11
  <1>18. \A o, n : o = e.previous /\ n = e.fact => Draft(n)'.slot = Draft(o)'.slot
    BY <1>11, <1>14
  <1> QED BY <1>0, <1>9, <1>11, <1>13, <1>15, <1>16, <1>17, <1>18, ConfirmationKeeps

\* A revoked fact comes back as a new one.
LEMMA RestoreKeeps ==
  ASSUME TemporalInv, RestoreConfirmed, faults' \in 0..MaxWork
  PROVE  TemporalInv'
  <1>0. Consumed /\ Candidate.action # "create"
    BY DEF RestoreConfirmed
  <1>1. /\ TypeOK /\ StoreSound /\ facts \in Seq(Fact) /\ Now \in Nat
        /\ DOMAIN facts \subseteq Ids /\ NextRevision \in Ids
        /\ NextRevision \notin DOMAIN facts /\ "active" \in FactStates
    BY <1>0, Confirming DEF FactStates
  <1>2. PICK t \in DOMAIN facts : t = Target
    BY <1>0, Confirming
  <1>3. /\ InSlot(Candidate.slot) = {}
        /\ facts' = Append(facts, NewFact("active"))
        /\ events' = Append(events, Event("restore", NextRevision, t))
    BY <1>2 DEF RestoreConfirmed, RestoreAllowed
  <1>4. /\ FactsFollow
        /\ DOMAIN facts' = DOMAIN facts \cup {NextRevision}
        /\ \A i \in DOMAIN facts : facts'[i] = facts[i]
        /\ facts'[NextRevision].state = "active"
    BY <1>0, <1>1, <1>3, FactAdded
  <1>5. PICK e : e = Event("restore", NextRevision, t)
    OBVIOUS
  <1>6. /\ e \in LifecycleEvent /\ e.transition = "restore" /\ e.fact = NextRevision
        /\ e.at = Now
    BY <1>1, <1>5 DEF Event, LifecycleEvent, Transitions
  <1>7. ~Superseded(NextRevision)
    BY <1>1, NotSuperseded
  <1>8. ASSUME NEW i \in DOMAIN facts' PROVE Follows(i, e)
    <2>1. CASE i = NextRevision
      BY <1>4, <1>6, <1>7, <2>1 DEF Follows, StateBy
    <2>2. CASE i \in DOMAIN facts
      BY <1>1, <1>4, <1>6, <2>2 DEF Follows
    <2> QED BY <1>4, <2>1, <2>2
  <1>9. OneActive'
    BY <1>0, <1>3, <1>4, OneActiveFollows
  <1> QED BY <1>0, <1>3, <1>4, <1>5, <1>6, <1>8, <1>9, ConfirmationKeeps

--------------------------------------------------------------------------------
(* The invariant. *)

\* No request, no fact, no time.
LEMMA TemporalInit ==
  ASSUME Init PROVE TemporalInv
  <1>1. /\ trusted = None /\ watermark = None /\ facts = <<>> /\ events = <<>>
        /\ proposals = <<>> /\ confirmed = <<>> /\ service = Down /\ memory = NoMemory
        /\ backlog = <<>> /\ codes = {} /\ told = {} /\ hidden = {} /\ faults = 0
        /\ host \in [now: {0}, ahead: Offsets, boot: {0}, since: {0}]
    BY DEF Init
  <1>2. host \in [now: Nat, ahead: Offsets, boot: Nat, since: Nat] /\ host \in Host
    <2>1. host.now = 0 /\ host.since = 0 /\ host \in [now: Nat, ahead: Offsets, boot: Nat, since: Nat]
      BY <1>1
    <2> QED BY <2>1 DEF Host
  <1>3. TypeOK
    <2>1. service \in Service
      BY <1>1, ServiceRests
    <2>2. memory \in Memory
      BY <1>1 DEF NoMemory, Memory
    <2>3. 0 \in 0..MaxWork
      BY TemporalAssumption
    <2> QED BY <1>1, <1>2, <2>1, <2>2, <2>3 DEF TypeOK, Service, Memory
  <1>4. RequestsSound
    BY <1>1, ServiceRests DEF RequestsSound
  <1>5. TimeOrdered
    BY <1>1, ServiceRests DEF TimeOrdered, Behind, NoMemory
  <1>6. HiddenExpired
    BY <1>1 DEF HiddenExpired
  <1>7. StoreSound
    BY <1>1 DEF StoreSound, ProposalsApplied, OneActive, EventsOrdered, IsConfirmed
  <1> QED BY <1>2, <1>3, <1>4, <1>5, <1>6, <1>7 DEF TemporalInv

\* Every step keeps it.
LEMMA TemporalStep ==
  ASSUME TemporalInv, [Next]_vars
  PROVE  TemporalInv'
  <1>1. ASSUME UNCHANGED vars PROVE TemporalInv'
    <2>1. host' \in Host /\ faults' \in 0..MaxWork
      BY <1>1 DEF TemporalInv, TypeOK, vars
    <2> QED BY <1>1, <2>1, HostKeeps DEF vars
  <1>2. ASSUME Step, UNCHANGED faults PROVE TemporalInv'
    <2>1. faults' \in 0..MaxWork
      BY <1>2 DEF TemporalInv, TypeOK
    <2>2. CASE Tick
      BY <2>1, <2>2, ClockKeeps
    <2>3. CASE SendPropose \/ SendConfirm \/ SendGet
      BY <2>1, <2>3, SendsKeep
    <2>4. CASE Start
      BY <2>1, <2>4, ProcessKeeps
    <2>5. CASE Accept
      BY <2>1, <2>5, AcceptKeeps
    <2>6. CASE Answer
      BY <2>1, <2>6, AnswerKeeps
    <2>7. CASE TimeSampled \/ TimeRefused
      BY <2>1, <2>7, SamplingKeeps
    <2>8. CASE FactsRead
      BY <2>1, <2>8, FactsReadKeeps
    <2>9. CASE ProposalStored
      BY <2>1, <2>9, ProposalStoredKeeps
    <2>10. CASE ProposalRefused
      <3>1. \A kind : Refused(kind) /\ kind = "propose" /\ (GuardMoves \/ UNCHANGED memory)
               => TemporalInv'
        BY <2>1, RefusedKeeps
      <3> QED BY <2>10, <3>1 DEF ProposalRefused
    <2>11. CASE ConfirmRefused
      <3>1. \A kind : Refused(kind) /\ kind = "confirm" /\ (GuardMoves \/ UNCHANGED memory)
               => TemporalInv'
        BY <2>1, RefusedKeeps
      <3> QED BY <2>11, <3>1 DEF ConfirmRefused
    <2>12. CASE CreateConfirmed
      BY <2>1, <2>12, CreateKeeps
    <2>13. CASE RevokeConfirmed
      BY <2>1, <2>13, RevokeKeeps
    <2>14. CASE SupersedeConfirmed
      BY <2>1, <2>14, SupersedeKeeps
    <2>15. CASE RestoreConfirmed
      BY <2>1, <2>15, RestoreKeeps
    <2> QED BY <1>2, <2>2, <2>3, <2>4, <2>5, <2>6, <2>7, <2>8, <2>9, <2>10, <2>11, <2>12,
               <2>13, <2>14, <2>15 DEF Step
  <1>3. ASSUME Fault PROVE TemporalInv'
    <2>1. TypeOK /\ Len(proposals) \in Nat /\ Len(backlog) \in Nat /\ faults \in Nat
      BY Types DEF TemporalInv, TypeOK
    <2>2. InFlight \in Nat
      BY <2>1 DEF InFlight
    <2>3. faults + Len(proposals) + InFlight < MaxWork /\ faults' = faults + 1
      BY <1>3 DEF Fault
    <2>4. faults' \in 0..MaxWork
      BY <2>1, <2>2, <2>3, TemporalAssumption
    <2>5. CASE ClockStepped
      BY <2>4, <2>5, ClockKeeps
    <2>6. CASE Reboot \/ Crash
      BY <2>4, <2>6, ProcessKeeps
    <2>7. CASE GatewayGivesUp
      BY <2>4, <2>7, GivingUpKeeps
    <2>8. CASE TimeAmbiguous \/ TimeUnavailable
      BY <2>4, <2>8, SamplingKeeps
    <2>9. CASE StoreAborts
      <3>1. \E kind : Refused(kind) /\ (GuardMoves \/ UNCHANGED memory)
        BY <2>9 DEF StoreAborts, Aborted
      <3> QED BY <2>4, <3>1, RefusedKeeps
    <2> QED BY <1>3, <2>5, <2>6, <2>7, <2>8, <2>9 DEF Fault
  <1> QED BY <1>1, <1>2, <1>3 DEF Next

\* The invariant holds throughout.
LEMMA TemporalInvariant == Spec => []TemporalInv
  <1>1. Init => TemporalInv
    BY TemporalInit
  <1>2. TemporalInv /\ [Next]_vars => TemporalInv'
    BY TemporalStep
  <1> QED BY <1>1, <1>2, PTL DEF Spec

--------------------------------------------------------------------------------
(* What follows from it. *)

\* The tables, the worker and the gateway keep their types.
THEOREM TemporalTypeCorrect == Spec => []TypeOK
  <1>1. TemporalInv => TypeOK
    BY DEF TemporalInv
  <1> QED BY <1>1, TemporalInvariant, PTL

\* A proposal is applied at most once, by one confirmation, and a positive answer is about
\* something that was committed (store.py, confirm_mutation).
THEOREM ConfirmationsApplyOnce == Spec => []AppliedOnce
  <1>1. ASSUME TemporalInv PROVE AppliedOnce
    <2>1. ProposalsApplied /\ RequestsSound
      BY <1>1 DEF TemporalInv, StoreSound
    <2>2. \A p : IsConfirmed(p) <=> p \in {confirmed[n] : n \in DOMAIN confirmed}
      BY DEF IsConfirmed
    <2>3. told \subseteq {confirmed[n] : n \in DOMAIN confirmed}
      BY <2>1, <2>2 DEF RequestsSound
    <2>4. {facts[i].proposal : i \in DOMAIN facts} \subseteq
             {confirmed[n] : n \in DOMAIN confirmed}
      BY <2>1, <2>2 DEF ProposalsApplied
    <2> QED BY <2>1, <2>3, <2>4 DEF AppliedOnce, ProposalsApplied, RequestsSound, IsConfirmed
  <1> QED BY <1>1, TemporalInvariant, PTL

\* The store never refuses a sample of its own provider, and a fact left out as expired is
\* never shown again (provider.py, sample; time.py, accept; store.py, active_facts).
THEOREM TemporalTimeSound == Spec => []TimeSound
  <1>1. ASSUME TemporalInv PROVE TimeSound
    BY <1>1 DEF TemporalInv, TimeOrdered, HiddenExpired, TimeSound, SamplesAccepted, Behind,
               ExpiredStaysHidden
  <1> QED BY <1>1, TemporalInvariant, PTL

\* The lifecycle events alone say what became of every fact, in the order of the trusted
\* time, and a slot has at most one active fact (store.py, _apply_candidate).
THEOREM FactsExplained == Spec => []LifecycleExplainsFacts
  <1>1. ASSUME TemporalInv PROVE LifecycleExplainsFacts
    <2>1. TypeOK /\ StoreSound
      BY <1>1 DEF TemporalInv
    <2>2. /\ Len(events) \in Nat /\ DOMAIN events = 1..Len(events)
      BY <2>1, Types
    <2>3. ASSUME NEW i \in DOMAIN facts
          PROVE  /\ \E k \in DOMAIN events : events[k].fact = i
                 /\ facts[i].state =
                       IF Superseded(i) THEN "superseded"
                       ELSE IF events[LastOf(i)].transition = "revoke" THEN "revoked"
                       ELSE IF events[LastOf(i)].transition = "conflict" THEN "conflicted"
                       ELSE "active"
      <3>1. PICK n \in DOMAIN events :
               /\ events[n].fact = i
               /\ \A k \in DOMAIN events : events[k].fact = i => k =< n
               /\ facts[i].state = IF Superseded(i) THEN "superseded"
                                   ELSE IF events[n].transition = "revoke" THEN "revoked"
                                   ELSE IF events[n].transition = "conflict" THEN "conflicted"
                                   ELSE "active"
        BY <2>1 DEF StoreSound, Explained
      <3>2. LastOf(i) = n
        <4> DEFINE of == {k \in DOMAIN events : events[k].fact = i}
        <4>1. n \in of /\ \A k \in DOMAIN events : events[k].fact = i => k =< n
          BY <3>1
        <4>2. \A m \in of : (\A k \in DOMAIN events : events[k].fact = i => k =< m) => m = n
          BY <2>2, <4>1
        <4> HIDE DEF of
        <4>3. n = CHOOSE m \in of : \A k \in DOMAIN events : events[k].fact = i => k =< m
          BY <4>1, <4>2
        <4> QED BY <4>3 DEF LastOf, of
      <3> QED BY <3>1, <3>2
    <2>4. ASSUME NEW i \in DOMAIN facts
          PROVE  Cardinality(InSlot(Draft(i).slot)) =< 1
      <3>1. PICK S : S = InSlot(Draft(i).slot)
        OBVIOUS
      <3>2. \A a, b \in S : a = b
        BY <2>1, <3>1 DEF InSlot, StoreSound, OneActive
      <3>3. S = {} \/ \E a : S = {a}
        BY <3>2
      <3>4. Cardinality(S) = 0 \/ Cardinality(S) = 1
        <4>1. CASE S = {}
          BY <4>1, FS_EmptySet
        <4>2. CASE \E a : S = {a}
          <5>1. PICK a : S = {a}
            BY <4>2
          <5>2. Cardinality({a}) = 1
            BY FS_Singleton
          <5> QED BY <5>1, <5>2
        <4> QED BY <3>3, <4>1, <4>2
      <3> QED BY <3>1, <3>4
    <2>5. ASSUME NEW k \in DOMAIN events
          PROVE  /\ events[k].fact \in DOMAIN facts
                 /\ events[k].transition = "supersede" =>
                       /\ events[k].previous < events[k].fact
                       /\ Draft(events[k].previous).slot = Draft(events[k].fact).slot
                 /\ k > 1 => events[k - 1].at =< events[k].at
      <3>1. k > 1 => k - 1 \in DOMAIN events /\ k - 1 =< k
        BY <2>2
      <3> QED BY <2>1, <3>1 DEF StoreSound, EventsOrdered
    <2> QED BY <2>3, <2>4, <2>5 DEF LifecycleExplainsFacts
  <1> QED BY <1>1, TemporalInvariant, PTL
================================================================================
