------------------------- MODULE ExternalEpochV3_proofs ------------------------
(***************************************************************************)
(* What ExternalEpochV3 guarantees for every set of events, whatever the   *)
(* turn sizes, the limits and the workers are.                             *)
(***************************************************************************)
EXTENDS ExternalEpochV3, FiniteSums, SequenceTheorems, TLAPS

\* The type invariant is inductive once the active summary is known to exist.
TypeInv == TypeOK /\ epoch.summary = Len(summaries)

--------------------------------------------------------------------------------
(* The operators of the model. *)

\* The active summary covers a number of turns.
LEMMA CoveredEndType == TypeInv => CoveredEnd \in Nat
  <1> SUFFICES ASSUME TypeInv, epoch.summary # 0 PROVE CoveredEnd \in Nat
    BY DEF CoveredEnd
  <1>1. summaries \in Seq(SummaryRow) /\ epoch.summary \in Nat
    BY DEF TypeInv, TypeOK, EpochRow
  <1>2. epoch.summary \in 1..Len(summaries)
    BY <1>1 DEF TypeInv
  <1>3. summaries[epoch.summary] \in SummaryRow
    BY <1>1, <1>2, ElementOfSeq
  <1> QED BY <1>3 DEF CoveredEnd, SummaryRow

\* A job queued for a non-empty chain ends at one of its turns.
LEMMA JobEndInChain ==
  ASSUME TypeInv, NEW ts \in Seq(TurnRow), ts # <<>>
  PROVE  JobEnd(ts) \in 1..Len(ts)
  <1>1. CoveredEnd \in Nat /\ JobTurnLimit \in Nat \ {0}
    BY CoveredEndType, LimitAssumption
  <1>2. Len(ts) \in Nat \ {0}
    OBVIOUS
  <1> QED BY <1>1, <1>2 DEF JobEnd

\* The job queued for a non-empty chain is a row of summary_jobs.
LEMMA QueuedJobType ==
  ASSUME TypeInv, NEW ts \in Seq(TurnRow), ts # <<>>, NEW base \in Nat
  PROVE  QueuedJob(ts, base) \in JobRow
  <1>1. JobEnd(ts) \in 1..Len(ts)
    BY JobEndInChain
  <1>2. ts[JobEnd(ts)].digest \in Digests
    <2>1. ts[JobEnd(ts)] \in TurnRow
      BY <1>1, ElementOfSeq
    <2> QED BY <2>1 DEF TurnRow
  <1>3. epoch.summary + 1 \in Nat /\ JobEnd(ts) \in Nat
    BY <1>1 DEF TypeInv, TypeOK, EpochRow
  <1> QED BY <1>2, <1>3 DEF QueuedJob, JobRow, JobStatus

\* Adding an event to a digest gives a digest.
LEMMA TurnDigestType ==
  ASSUME NEW d \in Digests, NEW e \in Events
  PROVE  TurnDigest(d, e) \in Digests
  BY DEF Digests, TurnDigest

\* The turn made of an intent and its pending turn is a row of committed_turns.
LEMMA DeliveredType ==
  ASSUME NEW i \in IntentRow, NEW p \in PendingRow
  PROVE  Delivered(i, p) \in TurnRow
  <1>1. i.event \in Events /\ i.provenance \in Nat /\ p.parent \in Digests
    BY DEF IntentRow, PendingRow
  <1> QED BY <1>1, TurnDigestType DEF Delivered, TurnRow

\* Selecting a row with the next revision keeps one revision row per number.
LEMMA SelectType ==
  ASSUME TypeOK, NEW row \in EpochRow, row.max = epoch.max + 1, Select(row)
  PROVE  /\ epoch' \in EpochRow
         /\ revisions' \in [0..epoch'.max -> RevisionRow]
  <1>1. epoch' = row
    BY DEF Select
  <1>2. ASSUME NEW r \in 0..row.max
        PROVE  (IF r = row.max
                THEN [sequence |-> row.sequence, digest |-> row.digest,
                      summary |-> row.summary]
                ELSE revisions[r]) \in RevisionRow
    <2>1. CASE r = row.max
      BY <2>1 DEF EpochRow, RevisionRow
    <2>2. CASE r # row.max
      <3>1. r \in 0..epoch.max
        BY <2>2 DEF TypeOK, EpochRow
      <3> QED BY <2>2, <3>1 DEF TypeOK
    <2> QED BY <2>1, <2>2
  <1> QED BY <1>1, <1>2 DEF Select

--------------------------------------------------------------------------------
(* Types. *)

\* The empty epoch is well typed.
LEMMA TypeInit == Init => TypeInv
  BY DEF Init, TypeInv, TypeOK, EpochRow, RevisionRow, ReceiptRow, NoReceipt,
         Outcomes, Digests, ZeroDigest

\* A delivered turn keeps the types.
LEMMA TypeResolveDelivered ==
  ASSUME TypeInv, NEW e \in Events, ResolveDelivered(e)
  PROVE  TypeInv'
  <1>1. PICK i \in intents, p \in pending :
           LET ts == Append(turns, Delivered(i, p))
               next == epoch.max + 1
           IN
           /\ i.event = e
           /\ DeliveryAllowed(i, p)
           /\ turns' = ts
           /\ Select([epoch EXCEPT !.selected = next, !.max = next,
                                   !.sequence = i.sequence,
                                   !.digest = TurnDigest(p.parent, e)])
           /\ jobs' = IF SummaryDue(ts) THEN jobs \cup {QueuedJob(ts, next)} ELSE jobs
           /\ Settle(e, "delivered", next)
           /\ UNCHANGED summaries
    BY DEF ResolveDelivered
  <1> DEFINE ts == Append(turns, Delivered(i, p))
             next == epoch.max + 1
             row == [epoch EXCEPT !.selected = next, !.max = next,
                                  !.sequence = i.sequence,
                                  !.digest = TurnDigest(p.parent, e)]
  <1>2. i \in IntentRow /\ p \in PendingRow /\ epoch \in EpochRow
    BY DEF TypeInv, TypeOK
  <1>3. ts \in Seq(TurnRow) /\ ts # <<>>
    BY <1>2, DeliveredType DEF TypeInv, TypeOK
  <1>4. row \in EpochRow /\ row.max = epoch.max + 1 /\ row.summary = epoch.summary
    <2>1. TurnDigest(p.parent, e) \in Digests
      BY <1>2, TurnDigestType DEF PendingRow
    <2>2. i.sequence \in Nat /\ next \in Nat
      BY <1>2 DEF IntentRow, EpochRow
    <2> QED BY <1>2, <2>1, <2>2 DEF EpochRow
  <1>5. epoch' \in EpochRow /\ revisions' \in [0..epoch'.max -> RevisionRow]
    BY <1>1, <1>4, SelectType DEF TypeInv
  <1>6. jobs' \subseteq JobRow
    <2>1. QueuedJob(ts, next) \in JobRow
      <3>1. next \in Nat
        BY <1>2 DEF EpochRow
      <3> HIDE DEF ts, next
      <3> QED BY <1>3, <3>1, QueuedJobType
    <2> QED BY <1>1, <2>1 DEF TypeInv, TypeOK
  <1>7. receipts' \in [Events -> ReceiptRow]
    <2>1. next \in Nat
      BY <1>2 DEF EpochRow
    <2> QED BY <1>1, <2>1 DEF Settle, TypeInv, TypeOK, ReceiptRow, Outcomes
  <1>8. pending' \subseteq PendingRow /\ intents' \subseteq IntentRow
    BY <1>1 DEF Settle, TypeInv, TypeOK
  <1>9. epoch'.summary = epoch.summary /\ summaries' = summaries
    BY <1>1, <1>4 DEF Select
  <1> QED BY <1>1, <1>3, <1>5, <1>6, <1>7, <1>8, <1>9 DEF TypeInv, TypeOK

\* A committed summary keeps the types, and the active version is the last.
LEMMA TypeCommitSummary ==
  ASSUME TypeInv, NEW w \in Workers, NEW j \in jobs, CommitSummaryCandidate(w, j)
  PROVE  TypeInv'
  <1> DEFINE row == [epoch EXCEPT !.selected = epoch.max + 1, !.max = epoch.max + 1,
                                  !.summary = j.version]
  <1>1. epoch \in EpochRow /\ j \in JobRow /\ summaries \in Seq(SummaryRow)
    BY DEF TypeInv, TypeOK
  <1>2. row \in EpochRow /\ row.max = epoch.max + 1 /\ row.summary = j.version
    <2>1. j.version \in Nat /\ epoch.max + 1 \in Nat
      BY <1>1 DEF EpochRow, JobRow
    <2> QED BY <1>1, <2>1 DEF EpochRow
  <1>3. Select(row)
    BY DEF CommitSummaryCandidate
  <1>4. epoch' \in EpochRow /\ revisions' \in [0..epoch'.max -> RevisionRow]
    BY <1>2, <1>3, SelectType DEF TypeInv
  <1>5. /\ summaries' = Append(summaries, [end |-> j.end, terminal |-> j.terminal])
        /\ [end |-> j.end, terminal |-> j.terminal] \in SummaryRow
    BY <1>1 DEF CommitSummaryCandidate, JobRow, SummaryRow
  <1>6. summaries' \in Seq(SummaryRow) /\ Len(summaries') = Len(summaries) + 1
    BY <1>1, <1>5
  <1>7. epoch'.summary = epoch.summary + 1
    BY <1>2, <1>3 DEF Select, CommitSummaryCandidate, Reconstructs
  <1>8. jobs' \subseteq JobRow
    BY DEF CommitSummaryCandidate, Replace, TypeInv, TypeOK, JobRow, JobStatus
  <1> QED BY <1>4, <1>6, <1>7, <1>8 DEF CommitSummaryCandidate, TypeInv, TypeOK

\* A restart keeps the types.
LEMMA TypeStartupRecover ==
  ASSUME TypeInv, StartupRecover
  PROVE  TypeInv'
  <1>1. ASSUME NEW j \in JobRow PROVE Relinquished(j) \in JobRow
    BY <1>1 DEF Relinquished, JobRow, JobStatus
  <1>2. jobs' \subseteq JobRow
    BY <1>1 DEF StartupRecover, TypeInv, TypeOK
  <1>3. receipts' \in [Events -> ReceiptRow]
    BY DEF StartupRecover, TypeInv, TypeOK, ReceiptRow, Outcomes
  <1> QED BY <1>2, <1>3 DEF StartupRecover, TypeInv, TypeOK

\* Every step keeps the types.
LEMMA TypeNext == TypeInv /\ [Next]_storeVars => TypeInv'
  <1> SUFFICES ASSUME TypeInv, [Next]_storeVars PROVE TypeInv'
    OBVIOUS
  <1>1. ASSUME NEW e \in Events, BeginTurn(e) PROVE TypeInv'
    <2>1. NextTurn(e) \in PendingRow
      BY DEF NextTurn, PendingRow, TypeInv, TypeOK, EpochRow
    <2> QED BY <1>1, <2>1 DEF BeginTurn, TypeInv, TypeOK
  <1>2. ASSUME NEW token \in pending, CancelPending(token) PROVE TypeInv'
    BY <1>2 DEF CancelPending, TypeInv, TypeOK
  <1>3. ASSUME NEW token \in pending, NEW r \in 0..epoch.max, PrepareDelivery(token, r)
        PROVE  TypeInv'
    <2>1. IntentOf(token, r) \in IntentRow
      BY DEF IntentOf, IntentRow, PendingRow, TypeInv, TypeOK, EpochRow
    <2> QED BY <1>3, <2>1 DEF PrepareDelivery, TypeInv, TypeOK
  <1>4. ASSUME NEW e \in Events, ResolveDelivered(e) PROVE TypeInv'
    BY <1>4, TypeResolveDelivered
  <1>5. ASSUME NEW e \in Events, ResolveCancelled(e) PROVE TypeInv'
    BY <1>5 DEF ResolveCancelled, Settle, TypeInv, TypeOK, ReceiptRow, Outcomes
  <1>6. CASE StartupRecover
    BY <1>6, TypeStartupRecover
  <1>7. ASSUME NEW w \in Workers, NEW j \in jobs, AcquireSummaryJob(w, j) PROVE TypeInv'
    <2>1. j \in JobRow
      BY DEF TypeInv, TypeOK
    <2>2. [j EXCEPT !.status = "leased", !.owner = w, !.attempts = @ + 1] \in JobRow
      <3>1. w \in Workers \cup {Nobody} /\ j.attempts + 1 \in Nat
        BY <2>1 DEF JobRow
      <3> QED BY <2>1, <3>1 DEF JobRow, JobStatus
    <2>3. jobs' \subseteq JobRow
      BY <1>7, <2>2 DEF AcquireSummaryJob, Replace, TypeInv, TypeOK
    <2> QED BY <1>7, <2>3 DEF AcquireSummaryJob, TypeInv, TypeOK
  <1>8. ASSUME NEW w \in Workers, NEW j \in jobs, RecordSummaryFailure(w, j) PROVE TypeInv'
    BY <1>8 DEF RecordSummaryFailure, Replace, TypeInv, TypeOK, JobRow, JobStatus
  <1>9. ASSUME NEW w \in Workers, NEW j \in jobs, CommitSummaryCandidate(w, j) PROVE TypeInv'
    BY <1>9, TypeCommitSummary
  <1>10. CASE UNCHANGED storeVars
    BY <1>10 DEF storeVars, TypeInv, TypeOK
  <1> QED BY <1>1, <1>2, <1>3, <1>4, <1>5, <1>6, <1>7, <1>8, <1>9, <1>10 DEF Next

\* Every reachable state of the store is well typed, and epoch_state names the
\* newest summary.
THEOREM StoreTypes == Spec => []TypeInv
  BY TypeInit, TypeNext, PTL DEF Spec

\* The type invariant the runs check.
THEOREM TypeCorrect == Spec => []TypeOK
  <1>1. TypeInv => TypeOK
    BY DEF TypeInv
  <1> QED BY <1>1, StoreTypes, PTL

\* Every intent's provenance names the revision its turn was opened at.
IntentsBound == \A i \in intents : i.provenance = i.base

StoreInv == TypeInv /\ IntentsBound

\* prepare_delivery is the only operation that adds an intent.
LEMMA IntentsStep == IntentsBound /\ [Next]_storeVars => IntentsBound'
  <1> SUFFICES ASSUME IntentsBound, [Next]_storeVars PROVE IntentsBound'
    OBVIOUS
  <1>1. ASSUME NEW token \in pending, NEW r \in 0..epoch.max, PrepareDelivery(token, r)
        PROVE  IntentsBound'
    BY <1>1 DEF PrepareDelivery, PrepareAllowed, IntentOf, IntentsBound
  <1>2. ASSUME ~ \E token \in pending, r \in 0..epoch.max : PrepareDelivery(token, r)
        PROVE  intents' \subseteq intents
    BY <1>2 DEF Next, storeVars, BeginTurn, CancelPending, ResolveDelivered,
                ResolveCancelled, Settle, StartupRecover, AcquireSummaryJob,
                RecordSummaryFailure, CommitSummaryCandidate
  <1> QED BY <1>1, <1>2 DEF IntentsBound

\* Types and the provenance of intents, together.
THEOREM StoreInvariant == Spec => []StoreInv
  <1>1. Init => IntentsBound
    BY DEF Init, IntentsBound
  <1> QED BY <1>1, IntentsStep, StoreTypes, PTL DEF Spec, StoreInv

--------------------------------------------------------------------------------
(* What a committed step may do to the tables. *)

\* The committed rows after the turn row of event e has been delivered.
TurnCommitted(e, row) ==
    /\ receipts[e] = NoReceipt
    /\ row.event = e
    /\ row.parent = epoch.digest
    /\ row.digest = TurnDigest(epoch.digest, e)
    /\ row.provenance = epoch.max
    /\ epoch.selected = epoch.max
    /\ turns' = Append(turns, row)
    /\ epoch' = [epoch EXCEPT !.selected = epoch.max + 1, !.max = epoch.max + 1,
                              !.sequence = epoch.sequence + 1, !.digest = row.digest]
    /\ revisions' = [r \in 0..epoch.max + 1 |->
                       IF r = epoch.max + 1
                       THEN [sequence |-> epoch.sequence + 1, digest |-> row.digest,
                             summary |-> epoch.summary]
                       ELSE revisions[r]]
    /\ receipts' = [receipts EXCEPT ![e] = [outcome |-> "delivered",
                                            revision |-> epoch.max + 1]]
    /\ summaries' = summaries

\* That is what ResolveDelivered does.
LEMMA DeliveredStep ==
  ASSUME StoreInv, NEW e \in Events, ResolveDelivered(e)
  PROVE  \E row \in TurnRow : TurnCommitted(e, row)
  <1>1. PICK i \in intents, p \in pending :
           LET next == epoch.max + 1 IN
           /\ i.event = e
           /\ DeliveryAllowed(i, p)
           /\ turns' = Append(turns, Delivered(i, p))
           /\ Select([epoch EXCEPT !.selected = next, !.max = next,
                                   !.sequence = i.sequence,
                                   !.digest = TurnDigest(p.parent, e)])
           /\ Settle(e, "delivered", next)
           /\ UNCHANGED summaries
    BY DEF ResolveDelivered
  <1>2. i \in IntentRow /\ p \in PendingRow /\ epoch \in EpochRow
    BY DEF StoreInv, TypeInv, TypeOK
  <1>3. Delivered(i, p) \in TurnRow
    BY <1>2, DeliveredType
  <1>4. /\ receipts[e] = NoReceipt
        /\ Undrifted(i, p)
        /\ i.sequence = epoch.sequence + 1
        /\ p.parent = epoch.digest
        /\ epoch.selected = epoch.max /\ i.base = epoch.max
    BY <1>1 DEF DeliveryAllowed, Undrifted
  <1>5. /\ Delivered(i, p).event = e
        /\ Delivered(i, p).parent = epoch.digest
        /\ Delivered(i, p).digest = TurnDigest(epoch.digest, e)
        /\ Delivered(i, p).provenance = epoch.max
    BY <1>1, <1>4 DEF Delivered, StoreInv, IntentsBound
  <1> DEFINE row == [epoch EXCEPT !.selected = epoch.max + 1, !.max = epoch.max + 1,
                                  !.sequence = epoch.sequence + 1,
                                  !.digest = TurnDigest(epoch.digest, e)]
  <1>6. Select(row)
    BY <1>1, <1>4
  <1>7. /\ row.max = epoch.max + 1
        /\ row.sequence = epoch.sequence + 1
        /\ row.digest = TurnDigest(epoch.digest, e)
        /\ row.summary = epoch.summary
    BY <1>2 DEF EpochRow
  <1>8. revisions' = [r \in 0..epoch.max + 1 |->
                        IF r = epoch.max + 1
                        THEN [sequence |-> epoch.sequence + 1,
                              digest |-> TurnDigest(epoch.digest, e),
                              summary |-> epoch.summary]
                        ELSE revisions[r]]
    BY <1>6, <1>7 DEF Select
  <1>9. epoch' = row
    BY <1>6 DEF Select
  <1>10. TurnCommitted(e, Delivered(i, p))
    BY <1>1, <1>4, <1>5, <1>8, <1>9 DEF Settle, TurnCommitted
  <1> QED BY <1>3, <1>10

\* The part of a committed summary that the following proofs use.
LEMMA SummaryStep ==
  ASSUME TypeInv, NEW w \in Workers, NEW j \in jobs, CommitSummaryCandidate(w, j)
  PROVE  /\ CoveredEnd < j.end
         /\ j.end \in 1..Len(turns)
         /\ j.terminal = turns[j.end].digest
         /\ summaries' = Append(summaries, [end |-> j.end, terminal |-> j.terminal])
         /\ epoch' = [epoch EXCEPT !.selected = epoch.max + 1, !.max = epoch.max + 1,
                                   !.summary = epoch.summary + 1]
         /\ revisions' = [r \in 0..epoch.max + 1 |->
                            IF r = epoch.max + 1
                            THEN [sequence |-> epoch.sequence, digest |-> epoch.digest,
                                  summary |-> epoch.summary + 1]
                            ELSE revisions[r]]
         /\ UNCHANGED <<turns, pending, intents, receipts>>
  <1>1. epoch \in EpochRow /\ j \in JobRow /\ CoveredEnd \in Nat
    BY CoveredEndType DEF TypeInv, TypeOK
  <1>2. Reconstructs(j)
    BY DEF CommitSummaryCandidate
  <1>3. j.end \in 1..Len(turns) /\ CoveredEnd < j.end
    BY <1>1, <1>2 DEF Reconstructs, JobRow, TypeInv, TypeOK
  <1> DEFINE row == [epoch EXCEPT !.selected = epoch.max + 1, !.max = epoch.max + 1,
                                  !.summary = epoch.summary + 1]
  <1>4. Select(row)
    BY <1>2 DEF CommitSummaryCandidate, Reconstructs
  <1>5. /\ row.max = epoch.max + 1
        /\ row.sequence = epoch.sequence
        /\ row.digest = epoch.digest
        /\ row.summary = epoch.summary + 1
    BY <1>1 DEF EpochRow
  <1>6. revisions' = [r \in 0..epoch.max + 1 |->
                        IF r = epoch.max + 1
                        THEN [sequence |-> epoch.sequence, digest |-> epoch.digest,
                              summary |-> epoch.summary + 1]
                        ELSE revisions[r]]
    BY <1>4, <1>5 DEF Select
  <1>7. epoch' = row
    BY <1>4 DEF Select
  <1> QED BY <1>2, <1>3, <1>6, <1>7 DEF CommitSummaryCandidate, Reconstructs

\* Every other step leaves the committed history alone.
LEMMA OtherSteps ==
  ASSUME [Next]_storeVars,
         ~ \E e \in Events : ResolveDelivered(e),
         ~ \E w \in Workers, j \in jobs : CommitSummaryCandidate(w, j)
  PROVE  UNCHANGED <<epoch, revisions, turns, summaries>>
  BY DEF Next, storeVars, BeginTurn, CancelPending, PrepareDelivery, ResolveCancelled,
         StartupRecover, AcquireSummaryJob, RecordSummaryFailure

--------------------------------------------------------------------------------
(* History. *)

\* What HistoryPermanent says of one step.
HistoryGrows ==
    /\ Len(turns) <= Len(turns') /\ SubSeq(turns', 1, Len(turns)) = turns
    /\ Len(summaries) <= Len(summaries')
    /\ SubSeq(summaries', 1, Len(summaries)) = summaries
    /\ \A r \in DOMAIN revisions : r \in DOMAIN revisions' /\ revisions'[r] = revisions[r]
    /\ \A e \in Events : receipts[e] # NoReceipt => receipts'[e] = receipts[e]

\* A sequence is a prefix of itself and of itself with one more element.
LEMMA PrefixKept ==
  ASSUME NEW S, NEW s \in Seq(S), NEW x \in S, NEW t, t = s \/ t = Append(s, x)
  PROVE  Len(s) <= Len(t) /\ SubSeq(t, 1, Len(s)) = s
  <1>1. CASE t = s
    BY <1>1
  <1>2. CASE t = Append(s, x)
    <2>1. Len(t) = Len(s) + 1 /\ Len(s) \in Nat
      BY <1>2
    <2>2. Len(SubSeq(t, 1, Len(s))) = Len(s)
      BY <1>2, <2>1
    <2>3. \A k \in 1..Len(s) : SubSeq(t, 1, Len(s))[k] = s[k]
      BY <1>2, <2>1
    <2>4. SubSeq(t, 1, Len(s)) \in Seq(S)
      BY <1>2, <2>1
    <2> QED BY <2>1, <2>2, <2>3, <2>4, SeqEqual
  <1> QED BY <1>1, <1>2

\* No table of the committed history loses or changes a row.
LEMMA HistoryStep == StoreInv /\ [Next]_storeVars => HistoryGrows
  <1> SUFFICES ASSUME StoreInv, [Next]_storeVars PROVE HistoryGrows
    OBVIOUS
  <1>0. /\ turns \in Seq(TurnRow) /\ summaries \in Seq(SummaryRow)
        /\ epoch.max \in Nat /\ DOMAIN revisions = 0..epoch.max
        /\ receipts \in [Events -> ReceiptRow]
    BY DEF StoreInv, TypeInv, TypeOK, EpochRow
  <1>1. ASSUME NEW e \in Events, ResolveDelivered(e) PROVE HistoryGrows
    <2>1. PICK row \in TurnRow : TurnCommitted(e, row)
      BY <1>1, DeliveredStep
    <2>2. Len(turns) <= Len(turns') /\ SubSeq(turns', 1, Len(turns)) = turns
      BY <1>0, <2>1, PrefixKept DEF TurnCommitted
    <2>3. /\ Len(summaries) <= Len(summaries')
          /\ SubSeq(summaries', 1, Len(summaries)) = summaries
      BY <1>0, <2>1 DEF TurnCommitted
    <2>4. \A r \in DOMAIN revisions : r \in DOMAIN revisions' /\ revisions'[r] = revisions[r]
      BY <1>0, <2>1 DEF TurnCommitted
    <2>5. \A f \in Events : receipts[f] # NoReceipt => receipts'[f] = receipts[f]
      BY <1>0, <2>1 DEF TurnCommitted
    <2> QED BY <2>2, <2>3, <2>4, <2>5 DEF HistoryGrows
  <1>2. ASSUME NEW w \in Workers, NEW j \in jobs, CommitSummaryCandidate(w, j)
        PROVE  HistoryGrows
    <2> DEFINE row == [end |-> j.end, terminal |-> j.terminal]
    <2>1. /\ summaries' = Append(summaries, row)
          /\ revisions' = [r \in 0..epoch.max + 1 |->
                             IF r = epoch.max + 1
                             THEN [sequence |-> epoch.sequence, digest |-> epoch.digest,
                                   summary |-> epoch.summary + 1]
                             ELSE revisions[r]]
          /\ UNCHANGED <<turns, receipts>>
      BY <1>2, SummaryStep DEF StoreInv
    <2>2. row \in SummaryRow
      BY DEF SummaryRow, JobRow, StoreInv, TypeInv, TypeOK
    <2>3. /\ Len(summaries) <= Len(summaries')
          /\ SubSeq(summaries', 1, Len(summaries)) = summaries
      <3> HIDE DEF row
      <3> QED BY <1>0, <2>1, <2>2, PrefixKept
    <2>4. \A r \in DOMAIN revisions : r \in DOMAIN revisions' /\ revisions'[r] = revisions[r]
      BY <1>0, <2>1
    <2>5. Len(turns) <= Len(turns') /\ SubSeq(turns', 1, Len(turns)) = turns
      BY <1>0, <2>1
    <2> QED BY <2>1, <2>3, <2>4, <2>5 DEF HistoryGrows
  <1>3. ASSUME ~ \E e \in Events : ResolveDelivered(e),
               ~ \E w \in Workers, j \in jobs : CommitSummaryCandidate(w, j)
        PROVE  HistoryGrows
    <2>1. UNCHANGED <<epoch, revisions, turns, summaries>>
      BY <1>3, OtherSteps
    <2>2. \A e \in Events : receipts[e] # NoReceipt => receipts'[e] = receipts[e]
      BY <1>0, <1>3 DEF Next, storeVars, BeginTurn, CancelPending, PrepareDelivery,
                        ResolveCancelled, Settle, StartupRecover, AcquireSummaryJob,
                        RecordSummaryFailure
    <2> QED BY <1>0, <2>1, <2>2 DEF HistoryGrows
  <1> QED BY <1>1, <1>2, <1>3

\* Turns, summaries, revisions and receipts are never rewritten.
THEOREM HistoryIsPermanent == Spec => HistoryPermanent
  <1>1. StoreInv /\ [Next]_storeVars => [HistoryGrows]_storeVars
    BY HistoryStep
  <1> QED BY <1>1, StoreInvariant, PTL DEF Spec, HistoryPermanent, HistoryGrows

--------------------------------------------------------------------------------
(* The chain. *)

\* The empty chain is intact.
LEMMA ChainInit == Init => ChainIntact
  BY DEF Init, ChainIntact

\* Only a delivered turn moves the chain, and it extends it at the end.
LEMMA ChainStep == StoreInv /\ ChainIntact /\ [Next]_storeVars => ChainIntact'
  <1> SUFFICES ASSUME StoreInv, ChainIntact, [Next]_storeVars PROVE ChainIntact'
    OBVIOUS
  <1>0. turns \in Seq(TurnRow) /\ epoch \in EpochRow
    BY DEF StoreInv, TypeInv, TypeOK
  <1>1. ASSUME NEW e \in Events, ResolveDelivered(e) PROVE ChainIntact'
    <2>1. PICK row \in TurnRow : TurnCommitted(e, row)
      BY <1>1, DeliveredStep
    <2>2. epoch'.sequence = epoch.sequence + 1 /\ epoch'.digest = row.digest
      BY <1>0, <2>1 DEF EpochRow, TurnCommitted
    <2>3. /\ Len(turns') = Len(turns) + 1 /\ Len(turns) \in Nat
          /\ turns'[Len(turns) + 1] = row
          /\ \A k \in 1..Len(turns) : turns'[k] = turns[k]
      BY <1>0, <2>1 DEF TurnCommitted
    <2>4. /\ epoch'.sequence = Len(turns')
          /\ turns' # <<>> /\ epoch'.digest = turns'[Len(turns')].digest
      BY <2>1, <2>2, <2>3 DEF ChainIntact, TurnCommitted
    <2>5. ASSUME NEW k \in 1..Len(turns')
          PROVE  /\ turns'[k].parent = IF k = 1 THEN ZeroDigest ELSE turns'[k - 1].digest
                 /\ turns'[k].digest = TurnDigest(turns'[k].parent, turns'[k].event)
      <3>1. CASE k \in 1..Len(turns)
        <4>1. turns'[k] = turns[k] /\ (k # 1 => turns'[k - 1] = turns[k - 1])
          BY <2>3, <3>1
        <4> QED BY <3>1, <4>1 DEF ChainIntact
      <3>2. CASE k = Len(turns) + 1
        <4>1. turns'[k] = row
          BY <2>3, <3>2
        <4>2. row.parent = IF k = 1 THEN ZeroDigest ELSE turns'[k - 1].digest
          <5>1. CASE k = 1
            <6>1. turns = <<>>
              BY <1>0, <3>2, <5>1, EmptySeq
            <6> QED BY <2>1, <5>1, <6>1 DEF ChainIntact, TurnCommitted
          <5>2. CASE k # 1
            <6>1. k - 1 = Len(turns) /\ turns # <<>> /\ turns'[k - 1] = turns[Len(turns)]
              BY <2>3, <3>2, <5>2
            <6> QED BY <2>1, <5>2, <6>1 DEF ChainIntact, TurnCommitted
          <5> QED BY <5>1, <5>2
        <4> QED BY <2>1, <4>1, <4>2 DEF TurnCommitted
      <3> QED BY <2>3, <3>1, <3>2
    <2> QED BY <2>4, <2>5 DEF ChainIntact
  <1>2. ASSUME NEW w \in Workers, NEW j \in jobs, CommitSummaryCandidate(w, j)
        PROVE  ChainIntact'
    <2>1. /\ turns' = turns
          /\ epoch' = [epoch EXCEPT !.selected = epoch.max + 1, !.max = epoch.max + 1,
                                    !.summary = epoch.summary + 1]
      BY <1>2, SummaryStep DEF StoreInv
    <2>2. epoch'.sequence = epoch.sequence /\ epoch'.digest = epoch.digest
      BY <1>0, <2>1 DEF EpochRow
    <2> QED BY <2>1, <2>2 DEF ChainIntact
  <1>3. ASSUME ~ \E e \in Events : ResolveDelivered(e),
               ~ \E w \in Workers, j \in jobs : CommitSummaryCandidate(w, j)
        PROVE  ChainIntact'
    <2>1. UNCHANGED <<epoch, revisions, turns, summaries>>
      BY <1>3, OtherSteps
    <2> QED BY <2>1 DEF ChainIntact
  <1> QED BY <1>1, <1>2, <1>3

\* The committed turns are always one chain that ends where epoch_state says.
THEOREM ChainAlwaysIntact == Spec => []ChainIntact
  BY ChainInit, ChainStep, StoreInvariant, PTL DEF Spec

--------------------------------------------------------------------------------
(* Revisions. *)

\* The rows a delivered turn adds, field by field.
LEMMA CommittedRows ==
  ASSUME StoreInv, NEW e \in Events, NEW row \in TurnRow, TurnCommitted(e, row)
  PROVE  /\ Len(turns') = Len(turns) + 1
         /\ turns'[Len(turns) + 1] = row
         /\ \A k \in 1..Len(turns) : turns'[k] = turns[k]
         /\ epoch'.selected = epoch.max + 1 /\ epoch'.max = epoch.max + 1
         /\ epoch'.sequence = epoch.sequence + 1
         /\ epoch'.digest = row.digest /\ epoch'.summary = epoch.summary
         /\ DOMAIN revisions' = 0..epoch.max + 1
         /\ revisions'[epoch.max + 1] = [sequence |-> epoch.sequence + 1,
                                         digest |-> row.digest,
                                         summary |-> epoch.summary]
         /\ \A r \in 0..epoch.max : revisions'[r] = revisions[r]
  <1>1. turns \in Seq(TurnRow) /\ epoch \in EpochRow /\ epoch.max \in Nat
    BY DEF StoreInv, TypeInv, TypeOK, EpochRow
  <1>2. /\ Len(turns') = Len(turns) + 1
        /\ turns'[Len(turns) + 1] = row
        /\ \A k \in 1..Len(turns) : turns'[k] = turns[k]
    BY <1>1 DEF TurnCommitted
  <1>3. /\ epoch'.selected = epoch.max + 1 /\ epoch'.max = epoch.max + 1
        /\ epoch'.sequence = epoch.sequence + 1
        /\ epoch'.digest = row.digest /\ epoch'.summary = epoch.summary
    BY <1>1 DEF TurnCommitted, EpochRow
  <1>4. /\ DOMAIN revisions' = 0..epoch.max + 1
        /\ revisions'[epoch.max + 1] = [sequence |-> epoch.sequence + 1,
                                        digest |-> row.digest, summary |-> epoch.summary]
        /\ \A r \in 0..epoch.max : revisions'[r] = revisions[r]
    BY <1>1 DEF TurnCommitted
  <1> QED BY <1>2, <1>3, <1>4

\* The first revision is the one the epoch starts with.
LEMMA RevisionsInit == Init => RevisionsStepwise
  BY DEF Init, RevisionsStepwise

\* A step adds one revision, one turn or one summary further than the last.
LEMMA RevisionsStep ==
  StoreInv /\ RevisionsStepwise /\ [Next]_storeVars => RevisionsStepwise'
  <1> SUFFICES ASSUME StoreInv, RevisionsStepwise, [Next]_storeVars
               PROVE  RevisionsStepwise'
    OBVIOUS
  <1> DEFINE OneFurther(rs, r) ==
               \/ /\ rs[r].sequence = rs[r - 1].sequence + 1
                  /\ rs[r].summary = rs[r - 1].summary
               \/ /\ rs[r].sequence = rs[r - 1].sequence
                  /\ rs[r].digest = rs[r - 1].digest
                  /\ rs[r].summary = rs[r - 1].summary + 1
  <1>0. /\ epoch \in EpochRow /\ epoch.max \in Nat
        /\ \A r \in 1..epoch.max : OneFurther(revisions, r)
        /\ revisions[epoch.max] = [sequence |-> epoch.sequence, digest |-> epoch.digest,
                                   summary |-> epoch.summary]
    BY DEF StoreInv, TypeInv, TypeOK, EpochRow, RevisionsStepwise
  <1>1. ASSUME NEW e \in Events, ResolveDelivered(e) PROVE RevisionsStepwise'
    <2>1. PICK row \in TurnRow : TurnCommitted(e, row)
      BY <1>1, DeliveredStep
    <2>2. /\ epoch'.selected = epoch.max + 1 /\ epoch'.max = epoch.max + 1
          /\ epoch'.sequence = epoch.sequence + 1
          /\ epoch'.digest = row.digest /\ epoch'.summary = epoch.summary
          /\ revisions'[epoch.max + 1] = [sequence |-> epoch.sequence + 1,
                                          digest |-> row.digest,
                                          summary |-> epoch.summary]
          /\ \A r \in 0..epoch.max : revisions'[r] = revisions[r]
      BY <2>1, CommittedRows
    <2>3. ASSUME NEW r \in 1..epoch.max + 1 PROVE OneFurther(revisions', r)
      <3>1. CASE r \in 1..epoch.max
        BY <1>0, <2>2, <3>1
      <3>2. CASE r = epoch.max + 1
        <4>1. revisions'[r - 1] = revisions[epoch.max]
          BY <1>0, <2>2, <3>2
        <4> QED BY <1>0, <2>2, <3>2, <4>1
      <3> QED BY <1>0, <3>1, <3>2
    <2> QED BY <2>2, <2>3 DEF RevisionsStepwise
  <1>2. ASSUME NEW w \in Workers, NEW j \in jobs, CommitSummaryCandidate(w, j)
        PROVE  RevisionsStepwise'
    <2>1. /\ epoch' = [epoch EXCEPT !.selected = epoch.max + 1, !.max = epoch.max + 1,
                                    !.summary = epoch.summary + 1]
          /\ revisions' = [r \in 0..epoch.max + 1 |->
                             IF r = epoch.max + 1
                             THEN [sequence |-> epoch.sequence, digest |-> epoch.digest,
                                   summary |-> epoch.summary + 1]
                             ELSE revisions[r]]
      BY <1>2, SummaryStep DEF StoreInv
    <2>2. /\ epoch'.selected = epoch.max + 1 /\ epoch'.max = epoch.max + 1
          /\ epoch'.sequence = epoch.sequence /\ epoch'.digest = epoch.digest
          /\ epoch'.summary = epoch.summary + 1
      BY <1>0, <2>1 DEF EpochRow
    <2>3. /\ revisions'[epoch.max + 1] = [sequence |-> epoch.sequence,
                                          digest |-> epoch.digest,
                                          summary |-> epoch.summary + 1]
          /\ \A r \in 0..epoch.max : revisions'[r] = revisions[r]
      BY <1>0, <2>1
    <2>4. ASSUME NEW r \in 1..epoch.max + 1 PROVE OneFurther(revisions', r)
      <3>1. CASE r \in 1..epoch.max
        BY <1>0, <2>3, <3>1
      <3>2. CASE r = epoch.max + 1
        <4>1. revisions'[r - 1] = revisions[epoch.max]
          BY <1>0, <2>3, <3>2
        <4> QED BY <1>0, <2>3, <3>2, <4>1
      <3> QED BY <1>0, <3>1, <3>2
    <2> QED BY <2>2, <2>3, <2>4 DEF RevisionsStepwise
  <1>3. ASSUME ~ \E e \in Events : ResolveDelivered(e),
               ~ \E w \in Workers, j \in jobs : CommitSummaryCandidate(w, j)
        PROVE  RevisionsStepwise'
    <2>1. UNCHANGED <<epoch, revisions, turns, summaries>>
      BY <1>3, OtherSteps
    <2> QED BY <2>1 DEF RevisionsStepwise
  <1> QED BY <1>1, <1>2, <1>3

\* Revisions go one turn or one summary at a time, and the last is selected.
THEOREM RevisionsAreStepwise == Spec => []RevisionsStepwise
  BY RevisionsInit, RevisionsStep, StoreInvariant, PTL DEF Spec

\* A revision, once made, is what a turn's provenance says it was.
LEMMA ProvenanceStep ==
  /\ StoreInv /\ ChainIntact /\ RevisionsStepwise /\ ProvenanceNamesParent
  /\ [Next]_storeVars
  => ProvenanceNamesParent'
  <1> SUFFICES ASSUME StoreInv, ChainIntact, RevisionsStepwise, ProvenanceNamesParent,
                      [Next]_storeVars
               PROVE  ProvenanceNamesParent'
    OBVIOUS
  <1>0. /\ turns \in Seq(TurnRow) /\ epoch.max \in Nat
        /\ DOMAIN revisions = 0..epoch.max
        /\ epoch.sequence = Len(turns)
        /\ revisions[epoch.max].sequence = epoch.sequence
        /\ revisions[epoch.max].digest = epoch.digest
    BY DEF StoreInv, TypeInv, TypeOK, EpochRow, ChainIntact, RevisionsStepwise
  <1>1. ASSUME NEW e \in Events, ResolveDelivered(e) PROVE ProvenanceNamesParent'
    <2>1. PICK row \in TurnRow : TurnCommitted(e, row)
      BY <1>1, DeliveredStep
    <2>2. /\ Len(turns') = Len(turns) + 1
          /\ turns'[Len(turns) + 1] = row
          /\ \A k \in 1..Len(turns) : turns'[k] = turns[k]
          /\ DOMAIN revisions' = 0..epoch.max + 1
          /\ \A r \in 0..epoch.max : revisions'[r] = revisions[r]
      BY <2>1, CommittedRows
    <2>3. ASSUME NEW k \in 1..Len(turns')
          PROVE  /\ turns'[k].provenance \in DOMAIN revisions'
                 /\ revisions'[turns'[k].provenance].sequence = k - 1
                 /\ revisions'[turns'[k].provenance].digest = turns'[k].parent
      <3>1. CASE k \in 1..Len(turns)
        <4>1. turns[k].provenance \in 0..epoch.max
          BY <1>0, <3>1 DEF ProvenanceNamesParent
        <4>2. revisions'[turns[k].provenance] = revisions[turns[k].provenance]
          BY <2>2, <4>1
        <4> QED BY <1>0, <2>2, <3>1, <4>1, <4>2 DEF ProvenanceNamesParent
      <3>2. CASE k = Len(turns) + 1
        <4>1. turns'[k].provenance = epoch.max /\ turns'[k].parent = epoch.digest
          BY <2>1, <2>2, <3>2 DEF TurnCommitted
        <4> QED BY <1>0, <2>2, <3>2, <4>1
      <3> QED BY <1>0, <2>2, <3>1, <3>2
    <2> QED BY <2>3 DEF ProvenanceNamesParent
  <1>2. ASSUME ~ \E e \in Events : ResolveDelivered(e) PROVE ProvenanceNamesParent'
    <2>1. turns' = turns
      BY <1>2 DEF Next, storeVars, BeginTurn, CancelPending, PrepareDelivery,
                  ResolveCancelled, StartupRecover, AcquireSummaryJob,
                  RecordSummaryFailure, CommitSummaryCandidate
    <2>2. \A r \in DOMAIN revisions : r \in DOMAIN revisions' /\ revisions'[r] = revisions[r]
      BY HistoryStep DEF HistoryGrows
    <2> QED BY <2>1, <2>2 DEF ProvenanceNamesParent
  <1> QED BY <1>1, <1>2

\* Every committed reply was drawn from a context that held exactly the turns
\* before it.
THEOREM ProvenanceAlwaysNamesParent == Spec => []ProvenanceNamesParent
  <1>1. Init => ProvenanceNamesParent
    BY DEF Init, ProvenanceNamesParent
  <1> QED BY <1>1, ProvenanceStep, StoreInvariant, ChainAlwaysIntact,
             RevisionsAreStepwise, PTL DEF Spec

--------------------------------------------------------------------------------
(* Exactly once. *)

\* The places of event e in the chain ts.
PlacesOf(ts, e) == {k \in 1..Len(ts) : ts[k].event = e}

\* What ExactlyOnce says of one event.
Once(e) ==
    IF receipts[e].outcome = "delivered"
    THEN \E k \in PlacesOf(turns, e) :
            /\ PlacesOf(turns, e) = {k}
            /\ receipts[e].revision \in DOMAIN revisions
            /\ revisions[receipts[e].revision].sequence = k
            /\ revisions[receipts[e].revision].digest = turns[k].digest
    ELSE PlacesOf(turns, e) = {}

\* It is the conjunction over the events.
LEMMA OnceForAll == ExactlyOnce <=> \A e \in Events : Once(e)
  BY DEF ExactlyOnce, Once, PlacesOf

\* An event that a step neither delivers nor touches keeps its place, or its absence.
LEMMA OnceKept ==
  ASSUME StoreInv, [Next]_storeVars, NEW e \in Events, Once(e),
         receipts'[e] = receipts[e], PlacesOf(turns', e) = PlacesOf(turns, e)
  PROVE  Once(e)'
  <1>1. HistoryGrows
    BY HistoryStep
  <1>2. CASE receipts[e].outcome = "delivered"
    <2>1. PICK k \in PlacesOf(turns, e) :
             /\ PlacesOf(turns, e) = {k}
             /\ receipts[e].revision \in DOMAIN revisions
             /\ revisions[receipts[e].revision].sequence = k
             /\ revisions[receipts[e].revision].digest = turns[k].digest
      BY <1>2 DEF Once
    <2>2. /\ receipts[e].revision \in DOMAIN revisions'
          /\ revisions'[receipts[e].revision] = revisions[receipts[e].revision]
      BY <1>1, <2>1 DEF HistoryGrows
    <2>3. turns'[k] = turns[k]
      <3>1. k \in 1..Len(turns) /\ turns \in Seq(TurnRow) /\ Len(turns) \in Nat
        BY <2>1 DEF PlacesOf, StoreInv, TypeInv, TypeOK
      <3>2. CASE \E f \in Events : ResolveDelivered(f)
        <4>1. PICK f \in Events, row \in TurnRow : TurnCommitted(f, row)
          BY <3>2, DeliveredStep
        <4> QED BY <3>1, <4>1, CommittedRows
      <3>3. CASE ~ \E f \in Events : ResolveDelivered(f)
        BY <3>3 DEF Next, storeVars, BeginTurn, CancelPending, PrepareDelivery,
                    ResolveCancelled, StartupRecover, AcquireSummaryJob,
                    RecordSummaryFailure, CommitSummaryCandidate
      <3> QED BY <3>2, <3>3
    <2>4. /\ PlacesOf(turns', e) = {k}
          /\ receipts'[e].revision \in DOMAIN revisions'
          /\ revisions'[receipts'[e].revision].sequence = k
          /\ revisions'[receipts'[e].revision].digest = turns'[k].digest
      BY <2>1, <2>2, <2>3
    <2> QED BY <1>2, <2>4 DEF Once
  <1>3. CASE receipts[e].outcome # "delivered"
    <2>1. PlacesOf(turns', e) = {} /\ receipts'[e].outcome # "delivered"
      BY <1>3 DEF Once
    <2> QED BY <2>1 DEF Once
  <1> QED BY <1>2, <1>3

\* Only a delivery puts an event in the chain, and it puts it there for good.
LEMMA OnceStep ==
  StoreInv /\ ChainIntact /\ ExactlyOnce /\ [Next]_storeVars => ExactlyOnce'
  <1> SUFFICES ASSUME StoreInv, ChainIntact, ExactlyOnce, [Next]_storeVars,
                      NEW e \in Events
               PROVE  Once(e)'
    BY DEF ExactlyOnce, Once, PlacesOf
  <1>0. /\ turns \in Seq(TurnRow) /\ Len(turns) \in Nat
        /\ receipts \in [Events -> ReceiptRow] /\ epoch.max \in Nat
        /\ epoch.sequence = Len(turns) /\ Once(e)
    BY OnceForAll DEF StoreInv, TypeInv, TypeOK, EpochRow, ChainIntact
  <1>1. ASSUME NEW f \in Events, ResolveDelivered(f) PROVE Once(e)'
    <2>1. PICK row \in TurnRow : TurnCommitted(f, row)
      BY <1>1, DeliveredStep
    <2>2. /\ Len(turns') = Len(turns) + 1
          /\ turns'[Len(turns) + 1] = row
          /\ \A k \in 1..Len(turns) : turns'[k] = turns[k]
          /\ DOMAIN revisions' = 0..epoch.max + 1
          /\ revisions'[epoch.max + 1] = [sequence |-> epoch.sequence + 1,
                                          digest |-> row.digest,
                                          summary |-> epoch.summary]
      BY <2>1, CommittedRows
    <2>3. /\ row.event = f /\ receipts[f] = NoReceipt
          /\ receipts' = [receipts EXCEPT ![f] = [outcome |-> "delivered",
                                                  revision |-> epoch.max + 1]]
      BY <2>1 DEF TurnCommitted
    <2>4. CASE e = f
      <3>1. PlacesOf(turns, e) = {}
        BY <1>0, <2>3, <2>4 DEF Once, NoReceipt
      <3>2. PlacesOf(turns', e) = {Len(turns) + 1}
        BY <1>0, <2>2, <2>3, <2>4, <3>1 DEF PlacesOf
      <3>3. receipts'[e].outcome = "delivered" /\ receipts'[e].revision = epoch.max + 1
        BY <1>0, <2>3, <2>4
      <3> QED BY <1>0, <2>2, <3>2, <3>3 DEF Once
    <2>5. CASE e # f
      <3>1. PlacesOf(turns', e) = PlacesOf(turns, e)
        BY <1>0, <2>2, <2>3, <2>5 DEF PlacesOf
      <3>2. receipts'[e] = receipts[e]
        BY <1>0, <2>3, <2>5
      <3> QED BY <1>0, <3>1, <3>2, OnceKept
    <2> QED BY <2>4, <2>5
  <1>2. ASSUME ~ \E f \in Events : ResolveDelivered(f) PROVE Once(e)'
    <2>1. turns' = turns
      BY <1>2 DEF Next, storeVars, BeginTurn, CancelPending, PrepareDelivery,
                  ResolveCancelled, StartupRecover, AcquireSummaryJob,
                  RecordSummaryFailure, CommitSummaryCandidate
    <2>2. \/ receipts'[e] = receipts[e]
          \/ receipts[e] = NoReceipt /\ receipts'[e].outcome # "delivered"
      <3>1. ASSUME NEW f \in Events, ResolveCancelled(f)
            PROVE  \/ receipts'[e] = receipts[e]
                   \/ receipts[e] = NoReceipt /\ receipts'[e].outcome # "delivered"
        BY <1>0, <3>1 DEF ResolveCancelled, Settle
      <3>2. CASE StartupRecover
        BY <1>0, <3>2 DEF StartupRecover
      <3>3. CASE ~ StartupRecover /\ ~ \E f \in Events : ResolveCancelled(f)
        BY <1>2, <3>3 DEF Next, storeVars, BeginTurn, CancelPending, PrepareDelivery,
                  AcquireSummaryJob, RecordSummaryFailure, CommitSummaryCandidate
      <3> QED BY <3>1, <3>2, <3>3
    <2>3. CASE receipts'[e] = receipts[e]
      BY <1>0, <2>1, <2>3, OnceKept
    <2>4. CASE receipts[e] = NoReceipt /\ receipts'[e].outcome # "delivered"
      BY <1>0, <2>1, <2>4 DEF Once, NoReceipt
    <2> QED BY <2>2, <2>3, <2>4
  <1> QED BY <1>1, <1>2

\* However outcomes are repeated, contradicted or cut off by restarts, an event is
\* in the chain once if its receipt says delivered and not at all otherwise.
THEOREM DeliveredExactlyOnce == Spec => []ExactlyOnce
  <1>1. Init => ExactlyOnce
    BY DEF Init, ExactlyOnce, NoReceipt
  <1> QED BY <1>1, OnceStep, StoreInvariant, ChainAlwaysIntact, PTL DEF Spec

--------------------------------------------------------------------------------
(* The store implements the ledger. *)

\* The variables of the ledger, as the store keeps them.
Log == [k \in 1..Len(turns) |-> turns[k].event]
Fates == [e \in Events |-> Fate(e)]

\* The events of a chain are a sequence of the same length.
LEMMA EventsOfChain ==
  ASSUME NEW ts \in Seq(TurnRow)
  PROVE  /\ [k \in 1..Len(ts) |-> ts[k].event] \in Seq(Events)
         /\ Len([k \in 1..Len(ts) |-> ts[k].event]) = Len(ts)
  <1>1. \A k \in 1..Len(ts) : ts[k].event \in Events
    <2>1. TAKE k \in 1..Len(ts)
    <2>2. ts[k] \in TurnRow
      BY ElementOfSeq
    <2> QED BY <2>2 DEF TurnRow
  <1>2. Len(ts) \in Nat
    OBVIOUS
  <1> QED BY <1>1, <1>2, IsASeq

\* The empty epoch is the empty ledger.
LEMMA LedgerInit == Init => Ledger!Init
  <1> SUFFICES ASSUME Init PROVE Ledger!Init
    OBVIOUS
  <1>1. Log = <<>>
    BY DEF Init, Log
  <1>2. Fates = [e \in Events |-> "open"]
    BY DEF Init, Fates, Fate, NoReceipt
  <1>3. CoveredEnd = 0 /\ epoch.max = 0
    BY DEF Init, CoveredEnd
  <1> QED BY <1>1, <1>2, <1>3 DEF Ledger!Init, Log, Fates

\* A delivered turn is a Deliver step of the ledger.
LEMMA LedgerDeliver ==
  ASSUME StoreInv, NEW e \in Events, ResolveDelivered(e)
  PROVE  Ledger!Deliver(e)
  <1>1. PICK row \in TurnRow : TurnCommitted(e, row)
    BY DeliveredStep
  <1>2. /\ turns \in Seq(TurnRow) /\ Len(turns) \in Nat
        /\ receipts \in [Events -> ReceiptRow]
    BY DEF StoreInv, TypeInv, TypeOK
  <1>3. /\ Len(turns') = Len(turns) + 1
        /\ turns'[Len(turns) + 1] = row
        /\ \A k \in 1..Len(turns) : turns'[k] = turns[k]
        /\ epoch'.max = epoch.max + 1 /\ epoch'.summary = epoch.summary
    BY <1>1, CommittedRows
  <1>4. /\ row.event = e /\ receipts[e] = NoReceipt /\ summaries' = summaries
        /\ receipts' = [receipts EXCEPT ![e] = [outcome |-> "delivered",
                                                revision |-> epoch.max + 1]]
    BY <1>1 DEF TurnCommitted
  <1>5. Fates[e] = "open"
    BY <1>4 DEF Fates, Fate, NoReceipt
  <1>6. Fates' = [Fates EXCEPT ![e] = "delivered"]
    <2>1. Fate(e)' = "delivered"
      BY <1>2, <1>4 DEF Fate
    <2>2. \A f \in Events : f # e => Fate(f)' = Fate(f)
      BY <1>2, <1>4 DEF Fate
    <2> QED BY <2>1, <2>2 DEF Fates
  <1>7. Log' = Append(Log, e)
    <2>1. Log \in Seq(Events) /\ Len(Log) = Len(turns)
      BY <1>2, EventsOfChain DEF Log
    <2>2. Log' \in Seq(Events) /\ Len(Log') = Len(turns) + 1
      <3>1. turns' \in Seq(TurnRow)
        BY <1>1, <1>2 DEF TurnCommitted
      <3> QED BY <1>3, <3>1, EventsOfChain DEF Log
    <2>3. Append(Log, e) \in Seq(Events) /\ Len(Append(Log, e)) = Len(turns) + 1
      BY <2>1
    <2>4. \A k \in 1..Len(turns) + 1 : Log'[k] = Append(Log, e)[k]
      <3>1. TAKE k \in 1..Len(turns) + 1
      <3>2. Log'[k] = turns'[k].event
        BY <1>3 DEF Log
      <3>3. CASE k \in 1..Len(turns)
        <4>1. Append(Log, e)[k] = Log[k]
          BY <2>1, <3>3
        <4> QED BY <1>3, <3>2, <3>3, <4>1 DEF Log
      <3>4. CASE k = Len(turns) + 1
        <4>1. Append(Log, e)[k] = e
          BY <2>1, <3>4
        <4> QED BY <1>3, <1>4, <3>2, <3>4, <4>1
      <3>5. k \in 1..Len(turns) \/ k = Len(turns) + 1
        BY <1>2
      <3> QED BY <3>3, <3>4, <3>5
    <2> HIDE DEF Log
    <2> QED BY <2>2, <2>3, <2>4, SeqEqual
  <1>8. CoveredEnd' = CoveredEnd
    BY <1>3, <1>4 DEF CoveredEnd
  <1> QED BY <1>3, <1>5, <1>6, <1>7, <1>8 DEF Ledger!Deliver, Log, Fates

\* A committed summary is a Summarise step of the ledger.
LEMMA LedgerSummarise ==
  ASSUME StoreInv, NEW w \in Workers, NEW j \in jobs, CommitSummaryCandidate(w, j)
  PROVE  \E n \in 1..Len(Log) : Ledger!Summarise(n)
  <1>1. /\ CoveredEnd < j.end
        /\ j.end \in 1..Len(turns)
        /\ summaries' = Append(summaries, [end |-> j.end, terminal |-> j.terminal])
        /\ epoch' = [epoch EXCEPT !.selected = epoch.max + 1, !.max = epoch.max + 1,
                                  !.summary = epoch.summary + 1]
        /\ turns' = turns /\ receipts' = receipts
    BY SummaryStep DEF StoreInv
  <1>2. /\ epoch \in EpochRow /\ summaries \in Seq(SummaryRow)
        /\ epoch.summary = Len(summaries) /\ turns \in Seq(TurnRow)
    BY DEF StoreInv, TypeInv, TypeOK
  <1>3. epoch'.max = epoch.max + 1 /\ epoch'.summary = Len(summaries) + 1
    BY <1>1, <1>2 DEF EpochRow
  <1>4. CoveredEnd' = j.end
    <2>1. summaries'[Len(summaries) + 1] = [end |-> j.end, terminal |-> j.terminal]
      BY <1>1, <1>2
    <2>2. epoch'.summary # 0 /\ Len(summaries) \in Nat
      BY <1>2, <1>3
    <2> QED BY <1>3, <2>1, <2>2 DEF CoveredEnd
  <1>5. Log' = Log /\ Fates' = Fates
    BY <1>1 DEF Log, Fates, Fate
  <1>6. Len(Log) = Len(turns)
    BY <1>2, EventsOfChain DEF Log
  <1>7. Ledger!Summarise(j.end)
    BY <1>1, <1>3, <1>4, <1>5 DEF Ledger!Summarise, Log, Fates
  <1> QED BY <1>1, <1>6, <1>7

\* A step that writes receipts without a delivery is a Withhold step, and the
\* remaining ones are none.
LEMMA LedgerWithhold ==
  ASSUME StoreInv, [Next]_storeVars,
         ~ \E e \in Events : ResolveDelivered(e),
         ~ \E w \in Workers, j \in jobs : CommitSummaryCandidate(w, j)
  PROVE  \/ \E S \in SUBSET Events : Ledger!Withhold(S)
         \/ UNCHANGED <<Log, Fates, CoveredEnd, epoch>>
  <1>1. UNCHANGED <<epoch, revisions, turns, summaries>>
    BY OtherSteps
  <1>2. Log' = Log /\ CoveredEnd' = CoveredEnd /\ epoch' = epoch
    BY <1>1 DEF Log, CoveredEnd
  <1>3. receipts \in [Events -> ReceiptRow] /\ intents \subseteq IntentRow
    BY DEF StoreInv, TypeInv, TypeOK
  <1>4. ASSUME NEW S \in SUBSET Events,
               \A e \in S : receipts[e] = NoReceipt /\ Fate(e)' = "withheld",
               \A e \in Events \ S : receipts'[e] = receipts[e]
        PROVE  Ledger!Withhold(S)
    <2>1. \A e \in S : Fates[e] = "open"
      BY <1>4 DEF Fates, Fate, NoReceipt
    <2>2. Fates' = [e \in Events |-> IF e \in S THEN "withheld" ELSE Fates[e]]
      BY <1>4 DEF Fates, Fate
    <2> QED BY <1>2, <2>1, <2>2 DEF Ledger!Withhold, Log, Fates
  <1>5. ASSUME NEW e \in Events, ResolveCancelled(e)
        PROVE  \E S \in SUBSET Events : Ledger!Withhold(S)
    <2>1. /\ receipts[e] = NoReceipt
          /\ receipts' = [receipts EXCEPT ![e] = [outcome |-> "cancelled", revision |-> 0]]
      BY <1>5 DEF ResolveCancelled, Settle
    <2>2. Fate(e)' = "withheld"
      BY <1>3, <2>1 DEF Fate
    <2>3. \A f \in Events \ {e} : receipts'[f] = receipts[f]
      BY <1>3, <2>1
    <2>4. Ledger!Withhold({e})
      BY <1>4, <2>1, <2>2, <2>3
    <2> QED BY <2>4
  <1>6. CASE StartupRecover
    <2> DEFINE S == {e \in Events : \E i \in intents : i.event = e}
    <2>1. /\ \A i \in intents : receipts[i.event] = NoReceipt
          /\ receipts' = [e \in Events |->
                             IF \E i \in intents : i.event = e
                             THEN [outcome |-> "abandoned", revision |-> 0]
                             ELSE receipts[e]]
      BY <1>6 DEF StartupRecover
    <2>2. \A e \in S : receipts[e] = NoReceipt /\ Fate(e)' = "withheld"
      BY <2>1 DEF Fate
    <2>3. \A e \in Events \ S : receipts'[e] = receipts[e]
      BY <2>1
    <2> HIDE DEF S
    <2>4. S \in SUBSET Events
      BY DEF S
    <2>5. Ledger!Withhold(S)
      BY <1>4, <2>2, <2>3, <2>4
    <2> QED BY <2>4, <2>5
  <1>7. CASE ~ StartupRecover /\ ~ \E e \in Events : ResolveCancelled(e)
    <2>1. receipts' = receipts
      BY <1>7 DEF Next, storeVars, BeginTurn, CancelPending, PrepareDelivery,
                  AcquireSummaryJob, RecordSummaryFailure
    <2> QED BY <1>2, <2>1 DEF Fates, Fate
  <1> QED BY <1>5, <1>6, <1>7

\* Every step of the store is a step of the ledger or none.
LEMMA LedgerStep ==
  StoreInv /\ [Next]_storeVars => [Ledger!Next]_(Ledger!ledgerVars)
  <1> SUFFICES ASSUME StoreInv, [Next]_storeVars
               PROVE  Ledger!Next \/ UNCHANGED Ledger!ledgerVars
    OBVIOUS
  <1>1. ASSUME NEW e \in Events, ResolveDelivered(e) PROVE Ledger!Next
    BY <1>1, LedgerDeliver DEF Ledger!Next
  <1>2. ASSUME NEW w \in Workers, NEW j \in jobs, CommitSummaryCandidate(w, j)
        PROVE  Ledger!Next
    BY <1>2, LedgerSummarise DEF Ledger!Next, Log
  <1>3. ASSUME ~ \E e \in Events : ResolveDelivered(e),
               ~ \E w \in Workers, j \in jobs : CommitSummaryCandidate(w, j)
        PROVE  Ledger!Next \/ UNCHANGED Ledger!ledgerVars
    BY <1>3, LedgerWithhold DEF Ledger!Next, Ledger!ledgerVars, Log, Fates
  <1> QED BY <1>1, <1>2, <1>3

\* The store is an implementation of the ledger.
THEOREM StoreImplementsLedger == Spec => LedgerSpec
  BY LedgerInit, LedgerStep, StoreInvariant, PTL DEF Spec, LedgerSpec, Ledger!Spec

--------------------------------------------------------------------------------
(* The open turn. *)

\* A pending turn starts where the chain ends: nothing moves the chain under it.
PendingCurrent ==
    \A p \in pending : p.sequence = epoch.sequence + 1 /\ p.parent = epoch.digest

\* OneOpenTurn, with what a turn owes its intents even before one is prepared.
TurnInv == OneOpenTurn /\ PendingCurrent

\* No turn is open in the empty epoch.
LEMMA TurnInit == Init => TurnInv
  BY DEF Init, TurnInv, OneOpenTurn, PendingCurrent

\* The only pending turn and its intents leave together.
LEMMA TurnSettled ==
  ASSUME TurnInv, NEW e \in Events, \E p \in pending : p.event = e,
         pending' = {p \in pending : p.event # e},
         intents' = {i \in intents : i.event # e}
  PROVE  TurnInv'
  <1>1. pending' = {}
    BY DEF TurnInv, OneOpenTurn
  <1>2. intents' = {}
    BY DEF TurnInv, OneOpenTurn
  <1> QED BY <1>1, <1>2 DEF TurnInv, OneOpenTurn, PendingCurrent

\* While a turn is open no other is opened, and the chain stays where it was.
LEMMA TurnStep == StoreInv /\ TurnInv /\ [Next]_storeVars => TurnInv'
  <1> SUFFICES ASSUME StoreInv, TurnInv, [Next]_storeVars PROVE TurnInv'
    OBVIOUS
  <1>1. ASSUME NEW e \in Events, BeginTurn(e) PROVE TurnInv'
    <2>1. pending' = {NextTurn(e)} /\ intents' = {} /\ UNCHANGED epoch
      BY <1>1 DEF BeginTurn, BeginAllowed
    <2> QED BY <2>1 DEF NextTurn, TurnInv, OneOpenTurn, PendingCurrent
  <1>2. ASSUME NEW token \in pending, CancelPending(token) PROVE TurnInv'
    <2>1. intents = {}
      BY <1>2 DEF CancelPending, CancelAllowed, TurnInv, OneOpenTurn
    <2> QED BY <1>2, <2>1 DEF CancelPending, TurnInv, OneOpenTurn, PendingCurrent
  <1>3. ASSUME NEW token \in pending, NEW r \in 0..epoch.max, PrepareDelivery(token, r)
        PROVE  TurnInv'
    <2>1. /\ intents' = intents \cup {IntentOf(token, r)}
          /\ UNCHANGED <<epoch, pending>>
      BY <1>3 DEF PrepareDelivery
    <2>2. /\ IntentOf(token, r).event = token.event
          /\ IntentOf(token, r).base = token.base
          /\ IntentOf(token, r).sequence = token.sequence
      BY DEF IntentOf
    <2> QED BY <2>1, <2>2 DEF TurnInv, OneOpenTurn, PendingCurrent
  <1>4. ASSUME NEW e \in Events, ResolveDelivered(e) PROVE TurnInv'
    <2>1. /\ \E p \in pending : p.event = e
          /\ pending' = {p \in pending : p.event # e}
          /\ intents' = {i \in intents : i.event # e}
      BY <1>4 DEF ResolveDelivered, DeliveryAllowed, Settle
    <2> QED BY <2>1, TurnSettled
  <1>5. ASSUME NEW e \in Events, ResolveCancelled(e) PROVE TurnInv'
    <2>1. /\ \E p \in pending : p.event = e
          /\ pending' = {p \in pending : p.event # e}
          /\ intents' = {i \in intents : i.event # e}
      BY <1>5 DEF ResolveCancelled, Settle
    <2> QED BY <2>1, TurnSettled
  <1>6. CASE StartupRecover
    BY <1>6 DEF StartupRecover, TurnInv, OneOpenTurn, PendingCurrent
  <1>7. ASSUME NEW w \in Workers, NEW j \in jobs, AcquireSummaryJob(w, j) PROVE TurnInv'
    BY <1>7 DEF AcquireSummaryJob, TurnInv, OneOpenTurn, PendingCurrent
  <1>8. ASSUME NEW w \in Workers, NEW j \in jobs, RecordSummaryFailure(w, j) PROVE TurnInv'
    BY <1>8 DEF RecordSummaryFailure, TurnInv, OneOpenTurn, PendingCurrent
  <1>9. ASSUME NEW w \in Workers, NEW j \in jobs, CommitSummaryCandidate(w, j) PROVE TurnInv'
    <2>1. /\ epoch' = [epoch EXCEPT !.selected = epoch.max + 1, !.max = epoch.max + 1,
                                    !.summary = epoch.summary + 1]
          /\ UNCHANGED <<pending, intents>>
      BY <1>9, SummaryStep DEF StoreInv
    <2>2. epoch'.sequence = epoch.sequence /\ epoch'.digest = epoch.digest
      BY <2>1 DEF StoreInv, TypeInv, TypeOK, EpochRow
    <2> QED BY <2>1, <2>2 DEF TurnInv, OneOpenTurn, PendingCurrent
  <1>10. CASE UNCHANGED storeVars
    BY <1>10 DEF storeVars, TurnInv, OneOpenTurn, PendingCurrent
  <1> QED BY <1>1, <1>2, <1>3, <1>4, <1>5, <1>6, <1>7, <1>8, <1>9, <1>10 DEF Next

\* At most one turn is open, its intents are its own and extend the chain as it is.
THEOREM TurnsOpenedAlone == Spec => []OneOpenTurn
  <1>1. TurnInv => OneOpenTurn
    BY DEF TurnInv
  <1> QED BY <1>1, TurnInit, TurnStep, StoreInvariant, PTL DEF Spec

--------------------------------------------------------------------------------
(* Summaries and their jobs. *)

\* A committed job is behind the active summary, so that its version is not used again.
CommittedBehind ==
    \A j \in jobs : j.status = "committed" => j.version <= epoch.summary

JobsInv == JobsSound /\ CommittedBehind

\* A prefix of a chain, and what lies in it, stays when a turn is appended.
LEMMA RowsKept ==
  ASSUME NEW ts \in Seq(TurnRow), NEW row \in TurnRow, NEW m \in Nat, NEW n \in 0..Len(ts)
  PROVE  SubSeq(Append(ts, row), m + 1, n) = SubSeq(ts, m + 1, n)
  <1> DEFINE long == SubSeq(Append(ts, row), m + 1, n)
             short == SubSeq(ts, m + 1, n)
  <1>1. Append(ts, row) \in Seq(TurnRow) /\ Len(Append(ts, row)) = Len(ts) + 1
    OBVIOUS
  <1>2. /\ long \in Seq(TurnRow) /\ short \in Seq(TurnRow)
        /\ Len(long) = Len(short)
    BY <1>1
  <1>3. \A k \in 1..Len(short) : long[k] = short[k]
    BY <1>1
  <1> HIDE DEF long, short
  <1>4. long = short
    BY <1>2, <1>3, SeqEqual
  <1> QED BY <1>4 DEF long, short

\* A job that can be rebuilt still can when another turn has been committed.
LEMMA ReconstructsKept ==
  ASSUME StoreInv, NEW j \in JobRow, Reconstructs(j), NEW row \in TurnRow,
         turns' = turns \/ turns' = Append(turns, row),
         CoveredEnd' = CoveredEnd, epoch'.summary = epoch.summary
  PROVE  Reconstructs(j)'
  <1>1. turns \in Seq(TurnRow) /\ CoveredEnd \in Nat /\ j.end \in Nat
    BY CoveredEndType DEF StoreInv, TypeInv, TypeOK, JobRow
  <1>2. j.end \in 1..Len(turns)
    BY <1>1 DEF Reconstructs
  <1>3. JobRows(turns, j.end)' = JobRows(turns, j.end)
    <2>1. SubSeq(turns', CoveredEnd + 1, j.end) = SubSeq(turns, CoveredEnd + 1, j.end)
      <3>1. j.end \in 0..Len(turns)
        BY <1>2
      <3> QED BY <1>1, <3>1, RowsKept
    <2> QED BY <2>1 DEF JobRows
  <1>4. j.end <= Len(turns') /\ turns'[j.end] = turns[j.end]
    BY <1>1, <1>2
  <1>5. JobFits(turns, j.end)'
    BY <1>3 DEF Reconstructs, JobFits, Characters
  <1> QED BY <1>4, <1>5 DEF Reconstructs

\* The job queued with a turn is one a worker can rebuild.
LEMMA QueuedReconstructs ==
  ASSUME StoreInv, JobsInv, NEW row \in TurnRow, NEW base \in Nat,
         NEW ts, ts = Append(turns, row), JobFits(ts, JobEnd(ts)),
         NEW new, new = QueuedJob(ts, base),
         turns' = ts, CoveredEnd' = CoveredEnd, epoch'.summary = epoch.summary
  PROVE  Reconstructs(new)'
  <1>1. turns \in Seq(TurnRow) /\ CoveredEnd \in Nat
    BY CoveredEndType DEF StoreInv, TypeInv, TypeOK
  <1>2. ts \in Seq(TurnRow) /\ ts # <<>> /\ Len(ts) = Len(turns) + 1
    BY <1>1
  <1>3. CoveredEnd <= Len(turns)
    <2>1. epoch.summary = Len(summaries) /\ summaries \in Seq(SummaryRow)
      BY DEF StoreInv, TypeInv, TypeOK
    <2>2. CASE epoch.summary = 0
      BY <1>1, <2>2 DEF CoveredEnd
    <2>3. CASE epoch.summary # 0
      <3>1. epoch.summary \in 1..Len(summaries)
        BY <2>1, <2>3
      <3>2. summaries[epoch.summary].end \in 1..Len(turns)
        BY <3>1 DEF JobsInv, JobsSound, SummariesCoverPrefixes
      <3> QED BY <1>1, <2>3, <3>2 DEF CoveredEnd
    <2> QED BY <2>2, <2>3
  <1>4. PICK end : end = JobEnd(ts)
    OBVIOUS
  <1>5. end \in 1..Len(ts) /\ CoveredEnd < end
    BY <1>1, <1>2, <1>3, <1>4, LimitAssumption DEF JobEnd
  <1>6. new.version = epoch.summary + 1 /\ new.end = end /\ new.terminal = ts[end].digest
    BY <1>4 DEF QueuedJob
  <1>7. JobFits(turns, end)'
    <2>1. JobRows(turns, end)' = JobRows(ts, end)
      BY DEF JobRows
    <2> QED BY <1>4, <2>1 DEF JobFits, Characters
  <1> QED BY <1>2, <1>5, <1>6, <1>7 DEF Reconstructs

\* A job with the same version and the same rows is rebuilt as well.
LEMMA ReconstructsSame ==
  ASSUME NEW j, NEW k, Reconstructs(j),
         k.version = j.version, k.end = j.end, k.terminal = j.terminal,
         UNCHANGED <<epoch, turns, summaries>>
  PROVE  Reconstructs(k)'
  <1>1. CoveredEnd' = CoveredEnd
    BY DEF CoveredEnd
  <1>2. JobFits(turns, k.end)'
    <2>1. JobRows(turns, k.end)' = JobRows(turns, j.end)
      BY <1>1 DEF JobRows
    <2> QED BY <2>1 DEF Reconstructs, JobFits, Characters
  <1> QED BY <1>1, <1>2 DEF Reconstructs

\* What JobsInv says of the jobs.
JobTable == OpenJobReconstructs /\ AttemptsBounded /\ CommittedBehind

\* At most one job is open.
LEMMA OneOpenJob == ASSUME JobTable PROVE \A j, k \in OpenJobs : j = k
  BY DEF JobTable, OpenJobReconstructs, OpenJobs, Reconstructs

\* No job is there before the first turn.
LEMMA JobsInit == Init => JobsInv
  BY DEF Init, JobsInv, JobsSound, SummariesCoverPrefixes, OpenJobReconstructs,
         OpenJobs, AttemptsBounded, CommittedBehind

\* Summaries cover prefixes of the chain, whatever is added to either.
LEMMA SummariesStep ==
  ASSUME StoreInv, JobsInv, [Next]_storeVars
  PROVE  SummariesCoverPrefixes'
  <1>0. /\ turns \in Seq(TurnRow) /\ summaries \in Seq(SummaryRow)
        /\ epoch \in EpochRow /\ epoch.summary = Len(summaries)
        /\ SummariesCoverPrefixes
    BY DEF StoreInv, TypeInv, TypeOK, JobsInv, JobsSound
  <1>1. ASSUME NEW e \in Events, ResolveDelivered(e) PROVE SummariesCoverPrefixes'
    <2>1. PICK row \in TurnRow : TurnCommitted(e, row)
      BY <1>1, DeliveredStep
    <2>2. /\ Len(turns') = Len(turns) + 1
          /\ \A k \in 1..Len(turns) : turns'[k] = turns[k]
          /\ epoch'.summary = epoch.summary /\ summaries' = summaries
      BY <2>1, CommittedRows DEF TurnCommitted
    <2> QED BY <1>0, <2>2 DEF SummariesCoverPrefixes
  <1>2. ASSUME NEW w \in Workers, NEW j \in jobs, CommitSummaryCandidate(w, j)
        PROVE  SummariesCoverPrefixes'
    <2>1. /\ CoveredEnd < j.end /\ j.end \in 1..Len(turns)
          /\ j.terminal = turns[j.end].digest
          /\ summaries' = Append(summaries, [end |-> j.end, terminal |-> j.terminal])
          /\ epoch' = [epoch EXCEPT !.selected = epoch.max + 1, !.max = epoch.max + 1,
                                    !.summary = epoch.summary + 1]
          /\ turns' = turns
      BY <1>2, SummaryStep DEF StoreInv
    <2>2. PICK row : row = [end |-> j.end, terminal |-> j.terminal]
      OBVIOUS
    <2>3. row.end = j.end /\ row.terminal = j.terminal
      BY <2>2
    <2>4. /\ Len(summaries') = Len(summaries) + 1
          /\ summaries'[Len(summaries) + 1] = row
          /\ \A v \in 1..Len(summaries) : summaries'[v] = summaries[v]
      BY <1>0, <2>1, <2>2
    <2>5. epoch'.summary = Len(summaries')
      BY <1>0, <2>1, <2>4 DEF EpochRow
    <2>6. ASSUME NEW v \in 1..Len(summaries')
          PROVE  /\ summaries'[v].end \in 1..Len(turns')
                 /\ summaries'[v].terminal = turns'[summaries'[v].end].digest
                 /\ v > 1 => summaries'[v - 1].end < summaries'[v].end
      <3>1. CASE v \in 1..Len(summaries)
        <4>1. summaries'[v] = summaries[v] /\ (v > 1 => summaries'[v - 1] = summaries[v - 1])
          BY <1>0, <2>4, <3>1
        <4> QED BY <2>1, <3>1, <4>1, <1>0 DEF SummariesCoverPrefixes
      <3>2. CASE v = Len(summaries) + 1
        <4>1. summaries'[v] = row
          BY <2>4, <3>2
        <4>2. v > 1 => summaries'[v - 1].end = CoveredEnd
          BY <1>0, <2>4, <3>2 DEF CoveredEnd
        <4> QED BY <2>1, <2>3, <4>1, <4>2
      <3> QED BY <1>0, <2>4, <3>1, <3>2
    <2> QED BY <2>5, <2>6 DEF SummariesCoverPrefixes
  <1>3. ASSUME ~ \E e \in Events : ResolveDelivered(e),
               ~ \E w \in Workers, j \in jobs : CommitSummaryCandidate(w, j)
        PROVE  SummariesCoverPrefixes'
    <2>1. UNCHANGED <<epoch, revisions, turns, summaries>>
      BY <1>3, OtherSteps
    <2> QED BY <1>0, <2>1 DEF SummariesCoverPrefixes
  <1> QED BY <1>1, <1>2, <1>3

\* A delivered turn queues a job only when none is open, under a version no job has had.
LEMMA JobsDelivered ==
  ASSUME StoreInv, JobsInv, NEW e \in Events, ResolveDelivered(e)
  PROVE  JobTable'
  <1>1. PICK i \in intents, p \in pending :
           LET ts == Append(turns, Delivered(i, p))
               next == epoch.max + 1
           IN
           /\ SummaryDue(ts) => JobFits(ts, JobEnd(ts))
           /\ turns' = ts
           /\ Select([epoch EXCEPT !.selected = next, !.max = next,
                                   !.sequence = i.sequence,
                                   !.digest = TurnDigest(p.parent, e)])
           /\ jobs' = IF SummaryDue(ts) THEN jobs \cup {QueuedJob(ts, next)} ELSE jobs
           /\ UNCHANGED summaries
    BY DEF ResolveDelivered, DeliveryAllowed
  <1>2. i \in IntentRow /\ p \in PendingRow /\ epoch \in EpochRow /\ jobs \subseteq JobRow
    BY DEF StoreInv, TypeInv, TypeOK
  <1>3. Delivered(i, p) \in TurnRow
    BY <1>2, DeliveredType
  <1>4. epoch'.summary = epoch.summary /\ epoch.summary \in Nat /\ epoch.max + 1 \in Nat
    BY <1>1, <1>2 DEF Select, EpochRow
  <1>5. CoveredEnd' = CoveredEnd
    BY <1>1, <1>4 DEF CoveredEnd
  <1>6. ASSUME NEW j \in OpenJobs PROVE Reconstructs(j)'
    <2>1. j \in JobRow /\ Reconstructs(j)
      BY <1>2 DEF OpenJobs, JobsInv, JobsSound, OpenJobReconstructs
    <2> QED BY <1>1, <1>3, <1>4, <1>5, <2>1, ReconstructsKept
  <1>7. PICK ts : ts = Append(turns, Delivered(i, p))
    OBVIOUS
  <1>8. CASE ~SummaryDue(ts)
    <2>1. jobs' = jobs
      BY <1>1, <1>7, <1>8
    <2>2. OpenJobs' = OpenJobs
      BY <2>1 DEF OpenJobs
    <2>3. OpenJobReconstructs'
      BY <1>6, <2>1, <2>2 DEF OpenJobReconstructs, JobsInv, JobsSound
    <2>4. AttemptsBounded' /\ CommittedBehind'
      BY <1>4, <2>1 DEF AttemptsBounded, CommittedBehind, JobsInv, JobsSound
    <2> QED BY <2>3, <2>4 DEF JobTable
  <1>9. CASE SummaryDue(ts)
    <2>1. PICK new : new = QueuedJob(ts, epoch.max + 1)
      OBVIOUS
    <2>2. jobs' = jobs \cup {new}
      BY <1>1, <1>7, <1>9, <2>1
    <2>3. /\ new.version = epoch.summary + 1 /\ new.status = "queued"
          /\ new.owner = Nobody /\ new.attempts = 0
      BY <2>1 DEF QueuedJob
    <2>4. Reconstructs(new)'
      <3>1. JobFits(ts, JobEnd(ts)) /\ turns' = ts
        BY <1>1, <1>7, <1>9
      <3> QED BY <1>3, <1>4, <1>5, <1>7, <2>1, <3>1, QueuedReconstructs
    <2>5. \A j \in jobs : j.status = "committed"
      BY <1>2, <1>9 DEF SummaryDue, OpenJobs, JobRow, JobStatus
    <2>6. \A j \in jobs : j.version # new.version
      BY <1>2, <1>4, <2>3, <2>5 DEF JobsInv, CommittedBehind, JobRow
    <2>7. \A j \in OpenJobs' : j = new
      BY <2>2, <2>5 DEF OpenJobs
    <2>8. OpenJobReconstructs'
      BY <2>2, <2>4, <2>6, <2>7 DEF OpenJobReconstructs, JobsInv, JobsSound
    <2>9. AttemptsBounded'
      BY <2>2, <2>3, LimitAssumption DEF AttemptsBounded, JobsInv, JobsSound
    <2>10. CommittedBehind'
      BY <1>4, <2>2, <2>3 DEF CommittedBehind, JobsInv
    <2> QED BY <2>8, <2>9, <2>10 DEF JobTable
  <1> QED BY <1>8, <1>9

\* A job that changes its lease in place stays rebuildable and bounded.
LEMMA JobReplaced ==
  ASSUME StoreInv, JobsInv, NEW j \in OpenJobs, NEW row \in JobRow, Replace(j, row),
         UNCHANGED <<epoch, turns, summaries>>,
         row.version = j.version, row.end = j.end, row.terminal = j.terminal,
         /\ row.attempts <= MaxAttempts
         /\ row.status = "blocked" => row.attempts = MaxAttempts
         /\ row.status = "queued" => row.attempts < MaxAttempts
         /\ row.status = "leased" => row.attempts > 0
         /\ row.owner # Nobody <=> row.status = "leased",
         row.status # "committed"
  PROVE  JobTable'
  <1>1. jobs' = (jobs \ {j}) \cup {row} /\ j \in jobs
    BY DEF Replace, OpenJobs
  <1>2. JobTable
    BY DEF JobsInv, JobsSound, JobTable
  <1>3. \A k \in OpenJobs : k = j
    BY <1>2, OneOpenJob
  <1>4. \A k \in OpenJobs' : k = row
    BY <1>1, <1>3 DEF OpenJobs
  <1>5. Reconstructs(row)'
    BY <1>2, ReconstructsSame DEF JobTable, OpenJobReconstructs
  <1>6. \A k, l \in jobs' : k.version = l.version => k = l
    BY <1>1, <1>2 DEF JobTable, OpenJobReconstructs
  <1>7. OpenJobReconstructs'
    BY <1>4, <1>5, <1>6 DEF OpenJobReconstructs
  <1>8. AttemptsBounded' /\ CommittedBehind'
    BY <1>1, <1>2 DEF JobTable, AttemptsBounded, CommittedBehind
  <1> QED BY <1>7, <1>8 DEF JobTable

\* A committed summary closes the only open job, and its version is behind from then on.
LEMMA JobsCommitted ==
  ASSUME StoreInv, JobsInv, NEW w \in Workers, NEW j \in jobs, CommitSummaryCandidate(w, j)
  PROVE  JobTable'
  <1>1. PICK row : row = [j EXCEPT !.status = "committed", !.owner = Nobody]
    OBVIOUS
  <1>2. jobs' = (jobs \ {j}) \cup {row} /\ j.status = "leased" /\ j.version = epoch.summary + 1
    BY <1>1 DEF CommitSummaryCandidate, Replace, LeasedTo, Reconstructs
  <1>3. j \in JobRow /\ jobs \subseteq JobRow /\ epoch.summary \in Nat
    BY DEF StoreInv, TypeInv, TypeOK, EpochRow
  <1>4. /\ row.version = j.version /\ row.status = "committed" /\ row.owner = Nobody
        /\ row.attempts = j.attempts
    BY <1>1, <1>3 DEF JobRow
  <1>5. epoch'.summary = epoch.summary + 1
    <2>1. epoch' = [epoch EXCEPT !.selected = epoch.max + 1, !.max = epoch.max + 1,
                                 !.summary = epoch.summary + 1]
      BY SummaryStep DEF StoreInv
    <2> QED BY <2>1 DEF StoreInv, TypeInv, TypeOK, EpochRow
  <1>6. JobTable
    BY DEF JobsInv, JobsSound, JobTable
  <1>7. \A k \in OpenJobs : k = j
    BY <1>2, <1>6, OneOpenJob DEF OpenJobs
  <1>8. OpenJobs' = {}
    BY <1>2, <1>4, <1>7 DEF OpenJobs
  <1>9. \A k, l \in jobs' : k.version = l.version => k = l
    BY <1>2, <1>4, <1>6 DEF JobTable, OpenJobReconstructs
  <1>10. AttemptsBounded'
    BY <1>2, <1>4, <1>6 DEF JobTable, AttemptsBounded
  <1>11. CommittedBehind'
    <2>1. \A k \in jobs : k.status = "committed" => k.version <= epoch.summary + 1
      BY <1>3, <1>6 DEF JobTable, CommittedBehind, JobRow
    <2> QED BY <1>2, <1>3, <1>4, <1>5, <2>1 DEF CommittedBehind
  <1> QED BY <1>8, <1>9, <1>10, <1>11 DEF JobTable, OpenJobReconstructs

\* A restart gives every lease up: the job waits again or has used its attempts.
LEMMA JobsRecovered ==
  ASSUME StoreInv, JobsInv, StartupRecover
  PROVE  JobTable'
  <1> DEFINE Kept(j) == IF j.status = "leased" THEN Relinquished(j) ELSE j
  <1>1. jobs' = {Kept(j) : j \in jobs} /\ UNCHANGED <<epoch, turns, summaries>>
    BY DEF StartupRecover
  <1>2. JobTable /\ jobs \subseteq JobRow
    BY DEF JobsInv, JobsSound, JobTable, StoreInv, TypeInv, TypeOK
  <1>3. ASSUME NEW j \in jobs
        PROVE  /\ Kept(j).version = j.version /\ Kept(j).end = j.end
               /\ Kept(j).terminal = j.terminal /\ Kept(j).attempts = j.attempts
               /\ j.status = "leased" =>
                    /\ Kept(j).owner = Nobody
                    /\ Kept(j).status = IF j.attempts >= MaxAttempts
                                        THEN "blocked" ELSE "queued"
               /\ j.status # "leased" => Kept(j) = j
    BY <1>2 DEF Relinquished, JobRow
  <1> HIDE DEF Kept
  <1>4. ASSUME NEW k \in OpenJobs' PROVE Reconstructs(k)'
    <2>1. k \in jobs' /\ k.status # "committed"
      BY DEF OpenJobs
    <2>2. PICK j \in jobs : k = Kept(j)
      BY <1>1, <2>1
    <2>3. j \in OpenJobs
      BY <1>2, <1>3, <2>1, <2>2 DEF OpenJobs, JobRow, JobStatus
    <2>4. Reconstructs(j)
      BY <1>2, <2>3 DEF JobTable, OpenJobReconstructs
    <2>5. k.version = j.version /\ k.end = j.end /\ k.terminal = j.terminal
      BY <1>3, <2>2
    <2> QED BY <1>1, <2>4, <2>5, ReconstructsSame
  <1>5. ASSUME NEW k \in jobs', NEW l \in jobs', k.version = l.version PROVE k = l
    <2>1. PICK j \in jobs : k = Kept(j)
      BY <1>1
    <2>2. PICK m \in jobs : l = Kept(m)
      BY <1>1
    <2>3. j.version = m.version
      BY <1>3, <1>5, <2>1, <2>2
    <2>4. j = m
      BY <1>2, <2>3 DEF JobTable, OpenJobReconstructs
    <2> QED BY <2>1, <2>2, <2>4
  <1>6. AttemptsBounded'
    <2>1. SUFFICES ASSUME NEW k \in jobs'
                   PROVE  /\ k.attempts <= MaxAttempts
                          /\ k.status = "blocked" => k.attempts = MaxAttempts
                          /\ k.status = "queued" => k.attempts < MaxAttempts
                          /\ k.status = "leased" => k.attempts > 0
                          /\ k.owner # Nobody <=> k.status = "leased"
      BY DEF AttemptsBounded
    <2>2. PICK j \in jobs : k = Kept(j)
      BY <1>1
    <2>3. /\ j.attempts <= MaxAttempts
          /\ j.status = "blocked" => j.attempts = MaxAttempts
          /\ j.status = "queued" => j.attempts < MaxAttempts
          /\ j.status = "leased" => j.attempts > 0
          /\ j.owner # Nobody <=> j.status = "leased"
      BY <1>2 DEF JobTable, AttemptsBounded
    <2>4. CASE j.status # "leased"
      BY <1>3, <2>2, <2>3, <2>4
    <2>5. CASE j.status = "leased"
      <3>1. j.attempts \in Nat
        BY <1>2 DEF JobRow
      <3>2. CASE j.attempts >= MaxAttempts
        BY <1>3, <2>2, <2>3, <2>5, <3>1, <3>2, LimitAssumption
      <3>3. CASE ~(j.attempts >= MaxAttempts)
        BY <1>3, <2>2, <2>3, <2>5, <3>1, <3>3, LimitAssumption
      <3> QED BY <3>2, <3>3
    <2> QED BY <2>4, <2>5
  <1>7. CommittedBehind'
    <2>1. SUFFICES ASSUME NEW k \in jobs', k.status = "committed"
                   PROVE  k.version <= epoch.summary
      BY <1>1 DEF CommittedBehind
    <2>2. PICK j \in jobs : k = Kept(j)
      BY <1>1
    <2>3. k = j
      BY <1>3, <2>1, <2>2
    <2> QED BY <1>2, <2>1, <2>3 DEF JobTable, CommittedBehind
  <1> QED BY <1>4, <1>5, <1>6, <1>7 DEF JobTable, OpenJobReconstructs

\* Every step leaves the jobs rebuildable, single and bounded.
LEMMA JobsStep == StoreInv /\ JobsInv /\ [Next]_storeVars => JobsInv'
  <1> SUFFICES ASSUME StoreInv, JobsInv, [Next]_storeVars PROVE JobTable'
    BY SummariesStep DEF JobsInv, JobsSound, JobTable
  <1>0. JobTable /\ jobs \subseteq JobRow
    BY DEF JobsInv, JobsSound, JobTable, StoreInv, TypeInv, TypeOK
  <1>1. ASSUME NEW e \in Events, ResolveDelivered(e) PROVE JobTable'
    BY <1>1, JobsDelivered
  <1>2. CASE StartupRecover
    BY <1>2, JobsRecovered
  <1>3. ASSUME NEW w \in Workers, NEW j \in jobs, AcquireSummaryJob(w, j) PROVE JobTable'
    <2>1. PICK row : row = [j EXCEPT !.status = "leased", !.owner = w, !.attempts = @ + 1]
      OBVIOUS
    <2>2. Replace(j, row) /\ j.status = "queued" /\ UNCHANGED <<epoch, turns, summaries>>
      BY <1>3, <2>1 DEF AcquireSummaryJob
    <2>3. j \in JobRow /\ j.attempts \in Nat /\ j.attempts < MaxAttempts
      BY <1>0, <2>2 DEF JobTable, AttemptsBounded, JobRow
    <2>4. /\ row.version = j.version /\ row.end = j.end /\ row.terminal = j.terminal
          /\ row.status = "leased" /\ row.owner = w /\ row.attempts = j.attempts + 1
      BY <2>1, <2>3 DEF JobRow
    <2>5. row \in JobRow
      <3>1. w \in Workers \cup {Nobody} /\ j.attempts + 1 \in Nat
        BY <2>3
      <3> QED BY <2>1, <2>3, <3>1 DEF JobRow, JobStatus
    <2>6. row.attempts <= MaxAttempts /\ row.attempts > 0 /\ row.owner # Nobody
      BY <2>3, <2>4, LimitAssumption, NobodyAssumption
    <2>7. j \in OpenJobs
      BY <2>2 DEF OpenJobs
    <2> QED BY <2>2, <2>4, <2>5, <2>6, <2>7, JobReplaced
  <1>4. ASSUME NEW w \in Workers, NEW j \in jobs, RecordSummaryFailure(w, j) PROVE JobTable'
    <2>1. PICK row : row = [j EXCEPT !.status = IF j.attempts < MaxAttempts
                                               THEN "queued" ELSE "blocked",
                                     !.owner = Nobody]
      OBVIOUS
    <2>2. Replace(j, row) /\ j.status = "leased" /\ UNCHANGED <<epoch, turns, summaries>>
      BY <1>4, <2>1 DEF RecordSummaryFailure, LeasedTo
    <2>3. j \in JobRow /\ j.attempts \in Nat /\ j.attempts <= MaxAttempts
      BY <1>0 DEF JobTable, AttemptsBounded, JobRow
    <2>4. /\ row.version = j.version /\ row.end = j.end /\ row.terminal = j.terminal
          /\ row.status = IF j.attempts < MaxAttempts THEN "queued" ELSE "blocked"
          /\ row.owner = Nobody /\ row.attempts = j.attempts
      BY <2>1, <2>3 DEF JobRow
    <2>5. row \in JobRow
      BY <2>1, <2>3 DEF JobRow, JobStatus
    <2>6. /\ row.status = "blocked" => row.attempts = MaxAttempts
          /\ row.status = "queued" => row.attempts < MaxAttempts
          /\ row.status \in {"blocked", "queued"}
      BY <2>3, <2>4, LimitAssumption
    <2>7. j \in OpenJobs
      BY <2>2 DEF OpenJobs
    <2> QED BY <2>2, <2>3, <2>4, <2>5, <2>6, <2>7, JobReplaced
  <1>5. ASSUME NEW w \in Workers, NEW j \in jobs, CommitSummaryCandidate(w, j) PROVE JobTable'
    BY <1>5, JobsCommitted
  <1>6. ASSUME UNCHANGED <<epoch, turns, summaries, jobs>> PROVE JobTable'
    BY <1>0, <1>6 DEF JobTable, OpenJobReconstructs, OpenJobs, AttemptsBounded,
                      CommittedBehind, Reconstructs, JobFits, JobRows, CoveredEnd, Characters
  <1> QED BY <1>1, <1>2, <1>3, <1>4, <1>5, <1>6
          DEF Next, storeVars, BeginTurn, CancelPending, PrepareDelivery, ResolveCancelled

\* Summaries cover prefixes, the one open job can always be rebuilt, retries are bounded.
THEOREM JobsAlwaysSound == Spec => []JobsSound
  <1>1. JobsInv => JobsSound
    BY DEF JobsInv
  <1> QED BY <1>1, JobsInit, JobsStep, StoreInvariant, PTL DEF Spec

--------------------------------------------------------------------------------
(* The preflight. *)

\* The turns left after a later one have no more characters.
LEMMA CharactersShrink ==
  ASSUME NEW ts \in Seq(TurnRow), NEW a \in 0..Len(ts), NEW b \in a..Len(ts)
  PROVE  /\ Len(TurnsAfter(ts, b)) <= Len(TurnsAfter(ts, a))
         /\ Characters(TurnsAfter(ts, b)) <= Characters(TurnsAfter(ts, a))
         /\ Len(TurnsAfter(ts, a)) \in Nat /\ Len(TurnsAfter(ts, b)) \in Nat
         /\ Characters(TurnsAfter(ts, a)) \in Nat /\ Characters(TurnsAfter(ts, b)) \in Nat
  <1>1. PICK long : long = TurnsAfter(ts, a)
    OBVIOUS
  <1>2. PICK short : short = TurnsAfter(ts, b)
    OBVIOUS
  <1>3. PICK m \in Nat : m = Len(ts) - a
    OBVIOUS
  <1>4. PICK n \in Nat : n = Len(ts) - b
    OBVIOUS
  <1>5. PICK d \in Nat : d = b - a
    OBVIOUS
  <1>6. /\ long \in Seq(TurnRow) /\ Len(long) = m
        /\ \A i \in 1..m : long[i] = ts[a + i] /\ long[i] \in TurnRow
    BY <1>1, <1>3 DEF TurnsAfter
  <1>7. /\ short \in Seq(TurnRow) /\ Len(short) = n
        /\ \A i \in 1..n : short[i] = ts[b + i] /\ short[i] \in TurnRow
    BY <1>2, <1>4 DEF TurnsAfter
  <1>8. \A r \in TurnRow : Size[r.event] \in Nat
    BY SizeAssumption DEF TurnRow
  <1>9. PICK f : f = [i \in 1..n |-> Size[short[i].event]]
    OBVIOUS
  <1>10. PICK h : h = [i \in 1..m |-> Size[long[i].event]]
    OBVIOUS
  <1>11. PICK p : p = [i \in 1..n |-> i + d]
    OBVIOUS
  <1>12. f \in [1..n -> Nat] /\ h \in [1..m -> Nat]
    BY <1>6, <1>7, <1>8, <1>9, <1>10
  <1>13. p \in [1..n -> 1..m] /\ \A i, j \in 1..n : p[i] = p[j] => i = j
    BY <1>3, <1>4, <1>5, <1>11
  <1>14. \A i \in 1..n : f[i] \in Nat /\ f[i] = h[p[i]]
    <2> SUFFICES ASSUME NEW i \in 1..n PROVE f[i] \in Nat /\ f[i] = h[p[i]]
      OBVIOUS
    <2>1. p[i] = i + d /\ i + d \in 1..m /\ a + (i + d) = b + i
      BY <1>3, <1>4, <1>5, <1>11
    <2>2. long[i + d] = short[i]
      BY <1>6, <1>7, <2>1
    <2> QED BY <1>9, <1>10, <1>12, <2>1, <2>2
  <1>15. IsFiniteSet(1..n) /\ IsFiniteSet(1..m)
    <2>1. \A i \in Int : IsFiniteSet(1..i)
      BY FS_Interval
    <2> QED BY <2>1
  <1>16. SumFunctionOnSet(f, 1..n) <= SumFunctionOnSet(h, 1..m)
    <2>1. \A i \in 1..n : f[i] <= h[p[i]]
      BY <1>14
    <2> QED BY <1>12, <1>13, <1>15, <2>1, SumCarried
  <1>17. SumFunctionOnSet(f, 1..n) \in Nat /\ SumFunctionOnSet(h, 1..m) \in Nat
    BY <1>12, <1>15, SumType
  <1>18. Characters(short) = SumFunctionOnSet(f, 1..n)
    BY <1>7, <1>9 DEF Characters, SumFunction
  <1>19. Characters(long) = SumFunctionOnSet(h, 1..m)
    BY <1>6, <1>10 DEF Characters, SumFunction
  <1>20. n <= m
    BY <1>3, <1>4, <1>5
  <1> QED BY <1>1, <1>2, <1>6, <1>7, <1>16, <1>17, <1>18, <1>19, <1>20

\* The projection after an image does not depend on the policy.
LEMMA VisualProjection ==
  /\ ProjectionFits(TRUE) <=> Fits(TurnsAfter(turns, CoveredEnd), RecentTurns, RecentChars)
  /\ ProjectionReadiness = "ready" <=> BeginAllowed /\ ProjectionFits(TRUE)
  BY DEF ProjectionFits, ProjectionReadiness, BeginAllowed

\* Unless a turn is committed, a projection that fits goes on fitting: a summary only takes
\* turns out of it.
LEMMA ProjectionStep ==
  ASSUME StoreInv, JobsInv, [Next]_storeVars, turns' = turns, ProjectionFits(TRUE)
  PROVE  ProjectionFits(TRUE)'
  <1>1. Fits(TurnsAfter(turns, CoveredEnd), RecentTurns, RecentChars)
    BY VisualProjection
  <1>2. /\ turns \in Seq(TurnRow) /\ summaries \in Seq(SummaryRow)
        /\ epoch \in EpochRow /\ epoch.summary = Len(summaries)
        /\ CoveredEnd \in Nat
    BY CoveredEndType DEF StoreInv, TypeInv, TypeOK
  <1>3. ASSUME NEW w \in Workers, NEW j \in jobs, CommitSummaryCandidate(w, j)
        PROVE  Fits(TurnsAfter(turns, CoveredEnd), RecentTurns, RecentChars)'
    <2>1. /\ CoveredEnd < j.end /\ j.end \in 1..Len(turns)
          /\ summaries' = Append(summaries, [end |-> j.end, terminal |-> j.terminal])
          /\ epoch' = [epoch EXCEPT !.selected = epoch.max + 1, !.max = epoch.max + 1,
                                    !.summary = epoch.summary + 1]
      BY <1>3, SummaryStep DEF StoreInv
    <2>2. epoch'.summary = Len(summaries) + 1 /\ epoch'.summary # 0
      BY <1>2, <2>1 DEF EpochRow
    <2>3. summaries'[Len(summaries) + 1] = [end |-> j.end, terminal |-> j.terminal]
      BY <1>2, <2>1
    <2>4. CoveredEnd' = j.end
      BY <2>2, <2>3 DEF CoveredEnd
    <2>5. CoveredEnd \in 0..Len(turns) /\ j.end \in CoveredEnd..Len(turns)
      BY <1>2, <2>1
    <2>6. Fits(TurnsAfter(turns, j.end), RecentTurns, RecentChars)
      <3>1. RecentTurns \in Nat /\ RecentChars \in Nat
        BY LimitAssumption
      <3> QED BY <1>1, <1>2, <2>5, <3>1, CharactersShrink DEF Fits
    <2> QED BY <2>4, <2>6 DEF Fits, TurnsAfter, Characters
  <1>4. ASSUME ~ \E w \in Workers, j \in jobs : CommitSummaryCandidate(w, j)
        PROVE  Fits(TurnsAfter(turns, CoveredEnd), RecentTurns, RecentChars)'
    <2>1. ~ \E e \in Events : ResolveDelivered(e)
      <3> SUFFICES ASSUME NEW e \in Events, ResolveDelivered(e) PROVE FALSE
        OBVIOUS
      <3>1. PICK row : turns' = Append(turns, row)
        BY DEF ResolveDelivered
      <3>2. Len(turns') = Len(turns) + 1 /\ Len(turns) \in Nat
        BY <1>2, <3>1
      <3> QED BY <3>2
    <2>2. UNCHANGED <<epoch, turns, summaries>>
      BY <1>4, <2>1, OtherSteps
    <2>3. CoveredEnd' = CoveredEnd
      BY <2>2 DEF CoveredEnd
    <2> QED BY <1>1, <2>2, <2>3 DEF Fits, TurnsAfter, Characters
  <1>5. Fits(TurnsAfter(turns, CoveredEnd), RecentTurns, RecentChars)'
    BY <1>3, <1>4
  <1> QED BY <1>5 DEF ProjectionFits

\* A store that accepts a turn goes on accepting one until one is begun, and commits none.
LEMMA AcceptanceStep ==
  ASSUME StoreInv, RevisionsStepwise', [Next]_storeVars, BeginAllowed
  PROVE  turns' = turns /\ (BeginAllowed' \/ pending' # {})
  <1>1. pending = {} /\ intents = {}
    BY DEF BeginAllowed
  <1>2. turns' = turns /\ intents' = {}
    BY <1>1 DEF Next, storeVars, BeginTurn, BeginAllowed, CancelPending, PrepareDelivery,
                ResolveDelivered, ResolveCancelled, Settle, StartupRecover,
                AcquireSummaryJob, RecordSummaryFailure, CommitSummaryCandidate
  <1>3. epoch'.selected = epoch'.max
    BY DEF RevisionsStepwise
  <1> QED BY <1>2, <1>3 DEF BeginAllowed

\* The answer of the visual preflight holds through begin_turn and context_payload
\* (projection_readiness, begin_turn, context_payload, commit_summary_candidate).
THEOREM PreflightAnswerHolds == Spec => PreflightHolds
  <1>1. ASSUME StoreInv, RevisionsStepwise', JobsInv, [Next]_storeVars
        PROVE  /\ ProjectionReadiness = "ready" =>
                     ProjectionFits(TRUE)' /\ (BeginAllowed' \/ pending' # {})
               /\ pending # {} /\ ProjectionFits(TRUE) =>
                     ProjectionFits(TRUE)' \/ turns' # turns
    <2>1. ASSUME ProjectionReadiness = "ready"
          PROVE  ProjectionFits(TRUE)' /\ (BeginAllowed' \/ pending' # {})
      <3>1. BeginAllowed /\ ProjectionFits(TRUE)
        BY <2>1, VisualProjection
      <3>2. turns' = turns /\ (BeginAllowed' \/ pending' # {})
        BY <1>1, <3>1, AcceptanceStep
      <3> QED BY <1>1, <3>1, <3>2, ProjectionStep
    <2>2. ASSUME ProjectionFits(TRUE), turns' = turns
          PROVE  ProjectionFits(TRUE)'
      BY <1>1, <2>2, ProjectionStep
    <2> QED BY <2>1, <2>2
  <1>2. Spec => []JobsInv
    BY JobsInit, JobsStep, StoreInvariant, PTL DEF Spec
  <1>3. Spec => [][StoreInv /\ RevisionsStepwise' /\ JobsInv /\ [Next]_storeVars]_storeVars
    BY <1>2, StoreInvariant, RevisionsAreStepwise, PTL DEF Spec
  <1> QED BY <1>1, <1>3, PTL DEF PreflightHolds
================================================================================
