------------------------- MODULE LosslessArchive_proofs -------------------------
(***************************************************************************)
(* The archive is sound for every set of turns, and implements the log of  *)
(* DeliveryLog.                                                            *)
(***************************************************************************)
EXTENDS LosslessArchive, SequenceTheorems, TLAPS

\* What the tables owe to each other: an event is about a prepared turn, and the chain
\* holds the delivered turns, each of them once.
JournalAgrees ==
    /\ \A e \in deliveryEvents : Prepared(e.turn)
    /\ \A i \in DOMAIN completeTurns : Has(completeTurns[i].turn, "delivered")
    /\ \A t \in Turns : Has(t, "delivered") => t \in Archived
    /\ \A i, j \in DOMAIN completeTurns :
          completeTurns[i].turn = completeTurns[j].turn => i = j

\* The head is the digest of the last row: what the next row is chained to.
HeadIsLast ==
    metadata.head = IF completeTurns = <<>> THEN <<>>
                    ELSE TurnDigest(completeTurns[Len(completeTurns)])

\* The inductive invariant: a context is a prefix that ends before its turn only because
\* a turn that is prepared has not been delivered before.
ArchiveInv == TypeOK /\ ArchiveSound /\ JournalAgrees /\ HeadIsLast

--------------------------------------------------------------------------------
(* The chain. *)

\* Appending a turn to a chain: its length, its turns, and the rows before it.
LEMMA ChainAppended ==
  ASSUME NEW chain \in Seq(TurnRow), NEW row \in TurnRow
  PROVE  LET longer == Append(chain, row) IN
         /\ longer \in Seq(TurnRow)
         /\ DOMAIN chain = 1..Len(chain)
         /\ Len(chain) \in Nat
         /\ Len(longer) = Len(chain) + 1
         /\ DOMAIN longer = 1..(Len(chain) + 1)
         /\ longer[Len(chain) + 1] = row
         /\ \A i \in 1..Len(chain) : longer[i] = chain[i] /\ chain[i] \in TurnRow
  OBVIOUS

\* A prefix of a digest is a prefix of the digest of one more turn.
LEMMA PrefixAppended ==
  ASSUME NEW s \in Digest, NEW d \in Digest, NEW t \in Turns, IsPrefix(s, d)
  PROVE  IsPrefix(s, Append(d, t))
  <1>1. Len(s) \in Nat /\ Len(d) \in Nat /\ Len(s) <= Len(d)
    BY DEF IsPrefix, Digest
  <1>2. /\ Append(d, t) \in Seq(Turns)
        /\ Len(Append(d, t)) = Len(d) + 1
        /\ \A i \in 1..Len(d) : Append(d, t)[i] = d[i]
    BY DEF Digest
  <1>3. SubSeq(Append(d, t), 1, Len(s)) = SubSeq(d, 1, Len(s))
    BY <1>1, <1>2 DEF Digest
  <1> QED BY <1>1, <1>2, <1>3 DEF IsPrefix

\* A digest is a prefix of itself.
LEMMA PrefixReflexive ==
  ASSUME NEW d \in Digest
  PROVE  IsPrefix(d, d)
  BY DEF IsPrefix, Digest

\* What one more preparation, and one more event, say.
LEMMA PreparedAfter ==
  ASSUME NEW p, preparations' = preparations \cup {p}
  PROVE  \A u : Prepared(u)' <=> Prepared(u) \/ p.turn = u
  BY DEF Prepared

\* What the journal has once an event is added to it.
LEMMA HasAfter ==
  ASSUME NEW event, deliveryEvents' = deliveryEvents \cup {event}
  PROVE  \A u, kind : Has(u, kind)' <=> Has(u, kind) \/ (event.turn = u /\ event.kind = kind)
  BY DEF Has

--------------------------------------------------------------------------------
(* Every step keeps the invariant. *)

\* The invariant of the archive holds at the start.
LEMMA ArchiveInitially == Init => ArchiveInv
  BY DEF Init, ArchiveInv, TypeOK, ArchiveSound, ArchiveChain, ChainVerifies, ContextIsPrefix,
         JournalAgrees, HeadIsLast, Has, Archived, TurnRow, Receipt, Preparation, DeliveryEvent,
         LifecycleRecord, Digest

\* A preparation names the head of this moment, which the turn is not part of.
LEMMA PrepareKeepsInv ==
  ASSUME ArchiveInv, NEW t \in Turns, NEW head, Prepare(t, head)
  PROVE  ArchiveInv'
  <1> USE DEF ArchiveInv, ArchiveSound
  <1>1. UNCHANGED <<completeTurns, appendReceipts, metadata, deliveryEvents, lifecycle>>
    BY DEF Prepare
  <1>2. preparations' = preparations \cup {[turn |-> t, head |-> metadata.head]}
    BY DEF Prepare
  <1>3. metadata.head \in Digest
    BY DEF TypeOK
  <1>4. TypeOK'
    BY <1>1, <1>2, <1>3 DEF TypeOK, Preparation
  <1>5. ArchiveChain'
    BY <1>1 DEF ArchiveChain, ChainVerifies
  <1>6. ContextIsPrefix'
    <2> SUFFICES ASSUME NEW p \in preparations'
                 PROVE  /\ IsPrefix(p.head, metadata.head)
                        /\ \A i \in DOMAIN completeTurns :
                              completeTurns[i].turn = p.turn => Len(p.head) < i
      BY <1>1 DEF ContextIsPrefix
    <2>1. CASE p \in preparations
      BY <2>1 DEF ContextIsPrefix
    <2>2. CASE p = [turn |-> t, head |-> metadata.head]
      <3>1. ~Prepared(t)
        BY DEF Prepare, PrepareAllowed
      <3>2. \A i \in DOMAIN completeTurns : completeTurns[i].turn # t
        BY <3>1 DEF JournalAgrees, Has
      <3> QED BY <1>3, <2>2, <3>2, PrefixReflexive
    <2> QED BY <1>2, <2>1, <2>2
  <1>7. JournalAgrees' /\ HeadIsLast'
    BY <1>1, <1>2 DEF JournalAgrees, HeadIsLast, Prepared, Has, Archived
  <1> QED BY <1>4, <1>5, <1>6, <1>7

\* A cancellation is a record beside the chain.
LEMMA ResolveCancelledKeepsInv ==
  ASSUME ArchiveInv, NEW t \in Turns, ResolveCancelled(t)
  PROVE  ArchiveInv'
  <1> USE DEF ArchiveInv, ArchiveSound
  <1>1. UNCHANGED <<completeTurns, appendReceipts, metadata, preparations>>
    BY DEF ResolveCancelled
  <1>2. deliveryEvents' = deliveryEvents \cup
          {[turn |-> t, kind |-> "cancelled", digest |-> <<>>]}
    BY DEF ResolveCancelled
  <1>3. TypeOK'
    <2>1. <<>> \in Digest
      BY DEF Digest
    <2>2. deliveryEvents' \subseteq DeliveryEvent
      BY <1>2, <2>1 DEF TypeOK, DeliveryEvent
    <2>3. lifecycle' \subseteq LifecycleRecord
      BY DEF TypeOK, ResolveCancelled, LifecycleRecord
    <2> QED BY <1>1, <2>2, <2>3 DEF TypeOK
  <1>4. ArchiveChain' /\ ContextIsPrefix' /\ HeadIsLast'
    BY <1>1 DEF ArchiveChain, ChainVerifies, ContextIsPrefix, HeadIsLast
  <1>5. JournalAgrees'
    <2>1. Prepared(t)
      BY DEF ResolveCancelled
    <2>2. \A u : Has(u, "delivered")' <=> Has(u, "delivered")
      BY <1>2 DEF Has
    <2> QED BY <1>1, <1>2, <2>1, <2>2 DEF JournalAgrees, Prepared, Archived
  <1> QED BY <1>3, <1>4, <1>5

\* An abandoned turn leaves a lifecycle record and nothing else.
LEMMA AbandonKeepsInv ==
  ASSUME ArchiveInv, NEW t \in Turns, Abandon(t)
  PROVE  ArchiveInv'
  <1>1. TypeOK'
    BY DEF ArchiveInv, TypeOK, Abandon, LifecycleRecord
  <1>2. ArchiveSound' /\ JournalAgrees' /\ HeadIsLast'
    BY DEF ArchiveInv, Abandon, HeadIsLast, ArchiveSound, ArchiveChain, ChainVerifies, ContextIsPrefix,
           JournalAgrees, Prepared, Has, Archived
  <1> QED BY <1>1, <1>2 DEF ArchiveInv

\* A delivery extends the chain by a turn that was not in it, after every context.
LEMMA ResolveDeliveredKeepsInv ==
  ASSUME ArchiveInv, NEW t \in Turns, ResolveDelivered(t)
  PROVE  ArchiveInv'
  <1> USE DEF ArchiveInv, ArchiveSound
  <1> DEFINE row == [turn |-> t, previous |-> metadata.head]
             n == Len(completeTurns)
             link == TurnDigest(row)
  <1>1. /\ completeTurns' = Append(completeTurns, row)
        /\ appendReceipts' = appendReceipts \cup
              {[turn |-> t, digest |-> link, sequence |-> metadata.count + 1]}
        /\ metadata' = [head |-> link, count |-> metadata.count + 1]
        /\ deliveryEvents' = deliveryEvents \cup
              {[turn |-> t, kind |-> "delivered", digest |-> link]}
        /\ UNCHANGED <<preparations, lifecycle>>
    BY DEF ResolveDelivered
  <1>2. row \in TurnRow /\ completeTurns \in Seq(TurnRow) /\ metadata.head \in Digest
    BY DEF TypeOK, TurnRow
  <1>3. link = Append(metadata.head, t) /\ link \in Digest
    BY <1>2 DEF TurnDigest, Digest
  <1>4. /\ completeTurns' \in Seq(TurnRow)
        /\ n \in Nat
        /\ DOMAIN completeTurns = 1..n
        /\ Len(completeTurns') = n + 1
        /\ DOMAIN completeTurns' = 1..(n + 1)
        /\ completeTurns'[n + 1] = row
        /\ \A i \in 1..n : completeTurns'[i] = completeTurns[i] /\ completeTurns[i] \in TurnRow
    BY <1>1, <1>2, ChainAppended
  <1>5. metadata.count = n /\ metadata.head = [i \in 1..n |-> completeTurns[i].turn]
    BY <1>4 DEF ArchiveChain
  <1>11. PICK event : /\ event = [turn |-> t, kind |-> "delivered", digest |-> link]
                     /\ deliveryEvents' = deliveryEvents \cup {event}
    BY <1>1
  <1>12. PICK receipt : /\ receipt = [turn |-> t, digest |-> link, sequence |-> n + 1]
                       /\ appendReceipts' = appendReceipts \cup {receipt}
    BY <1>1, <1>5
  <1>13. event \in DeliveryEvent /\ event.turn = t /\ event.kind = "delivered"
    BY <1>11, <1>3 DEF DeliveryEvent
  <1>14. receipt \in Receipt
    BY <1>12, <1>3, <1>4 DEF Receipt
  <1> HIDE DEF row, n, link
  <1>6. TypeOK'
    <2>1. appendReceipts' \subseteq Receipt
      BY <1>12, <1>14 DEF TypeOK
    <2>2. metadata' \in [head: Digest, count: Nat]
      BY <1>1, <1>3, <1>4, <1>5
    <2>3. deliveryEvents' \subseteq DeliveryEvent
      BY <1>11, <1>13 DEF TypeOK
    <2> QED BY <1>1, <1>4, <2>1, <2>2, <2>3 DEF TypeOK
  <1>7. ArchiveChain'
    <2>1. metadata'.count = Len(completeTurns')
      BY <1>1, <1>4, <1>5
    <2>2. metadata'.head = [i \in DOMAIN completeTurns' |-> completeTurns'[i].turn]
      <3>1. Len(metadata.head) = n /\ \A i \in 1..n : metadata.head[i] = completeTurns[i].turn
        BY <1>2, <1>4, <1>5 DEF Digest
      <3>2. /\ DOMAIN Append(metadata.head, t) = 1..(n + 1)
            /\ \A i \in 1..n : Append(metadata.head, t)[i] = metadata.head[i]
            /\ Append(metadata.head, t)[n + 1] = t
            /\ Append(metadata.head, t) = [i \in 1..(n + 1) |-> Append(metadata.head, t)[i]]
        BY <1>2, <1>4, <3>1 DEF Digest
      <3>3. row.turn = t
        BY DEF row
      <3>4. \A i \in 1..(n + 1) : Append(metadata.head, t)[i] = completeTurns'[i].turn
        BY <1>4, <3>1, <3>2, <3>3
      <3> QED BY <1>1, <1>3, <1>4, <3>2, <3>4
    <2>3. ASSUME NEW i \in 1..(n + 1)
          PROVE  LET r == completeTurns'[i] IN
                 /\ r.previous = IF i = 1 THEN <<>> ELSE TurnDigest(completeTurns'[i - 1])
                 /\ [turn |-> r.turn, digest |-> TurnDigest(r), sequence |-> i]
                      \in appendReceipts'
      <3>1. CASE i \in 1..n
        <4>1. completeTurns'[i] = completeTurns[i]
          BY <1>4, <3>1
        <4>2. i # 1 => completeTurns'[i - 1] = completeTurns[i - 1]
          BY <1>4, <3>1
        <4> QED BY <1>1, <1>4, <3>1, <4>1, <4>2 DEF ArchiveChain, ChainVerifies
      <3>2. CASE i = n + 1
        <4>1. completeTurns'[i] = row /\ row.turn = t /\ row.previous = metadata.head
          BY <1>4, <3>2 DEF row
        <4>2. CASE n = 0
          BY <1>1, <1>2, <1>5, <3>2, <4>1, <4>2 DEF link, Digest
        <4>3. CASE n # 0
          <5>1. n \in 1..n /\ completeTurns'[i - 1] = completeTurns[n]
            BY <1>4, <3>2, <4>3
          <5>2. completeTurns[n].previous \in Digest /\ completeTurns[n].turn \in Turns
            BY <1>4, <5>1 DEF TurnRow
          <5>3. metadata.head = TurnDigest(completeTurns[n])
            BY <1>4, <4>3 DEF HeadIsLast, n
          <5> QED BY <1>1, <1>4, <1>5, <3>2, <4>1, <4>3, <5>1, <5>3 DEF link
        <4> QED BY <4>2, <4>3
      <3> QED BY <1>4, <3>1, <3>2
    <2> QED BY <1>4, <2>1, <2>2, <2>3 DEF ArchiveChain, ChainVerifies
  <1>8. ContextIsPrefix'
    <2> SUFFICES ASSUME NEW p \in preparations
                 PROVE  /\ IsPrefix(p.head, metadata'.head)
                        /\ \A i \in 1..(n + 1) :
                              completeTurns'[i].turn = p.turn => Len(p.head) < i
      BY <1>1, <1>4 DEF ContextIsPrefix
    <2>1. p.head \in Digest /\ IsPrefix(p.head, metadata.head)
      BY DEF TypeOK, Preparation, ContextIsPrefix
    <2>2. IsPrefix(p.head, metadata'.head)
      BY <1>1, <1>2, <1>3, <2>1, PrefixAppended
    <2>3. Len(p.head) \in Nat /\ Len(p.head) <= n
      BY <1>2, <1>4, <1>5, <2>1 DEF IsPrefix, Digest
    <2> QED BY <1>4, <2>2, <2>3 DEF ContextIsPrefix
  <1>9. JournalAgrees'
    <2>1. Prepared(t) /\ ~Has(t, "delivered")
      BY DEF ResolveDelivered
    <2>2. \A u : Has(u, "delivered")' <=> u = t \/ Has(u, "delivered")
      BY <1>11, <1>13 DEF Has
    <2>3. \A i \in 1..n : completeTurns[i].turn # t
      BY <1>4, <2>1 DEF JournalAgrees
    <2>4. \A u : u \in Archived' <=> u = t \/ u \in Archived
      BY <1>4 DEF Archived, row
    <2> QED BY <1>1, <1>4, <2>1, <2>2, <2>3, <2>4 DEF JournalAgrees, Prepared, row
  <1>10. HeadIsLast'
    BY <1>1, <1>4 DEF HeadIsLast, link
  <1> QED BY <1>6, <1>7, <1>8, <1>9, <1>10

\* The four operations, and the steps that leave the archive alone.
LEMMA ArchiveStep ==
  ASSUME ArchiveInv, [Next]_archiveVars
  PROVE  ArchiveInv'
  <1>1. CASE Next
    BY <1>1, PrepareKeepsInv, ResolveCancelledKeepsInv, ResolveDeliveredKeepsInv,
       AbandonKeepsInv DEF Next
  <1>2. CASE UNCHANGED archiveVars
    BY <1>2 DEF archiveVars, ArchiveInv, TypeOK, ArchiveSound, ArchiveChain, ChainVerifies,
                ContextIsPrefix, JournalAgrees, HeadIsLast, Prepared, Has, Archived
  <1> QED BY <1>1, <1>2

\* The invariant holds throughout.
LEMMA ArchiveInvariant == Spec => []ArchiveInv
  BY ArchiveInitially, ArchiveStep, PTL DEF Spec

\* Every table keeps its columns' types, for every set of turns.
THEOREM ArchiveTypeCorrect == Spec => []TypeOK
  <1>1. ArchiveInv => TypeOK
    BY DEF ArchiveInv
  <1> QED BY <1>1, ArchiveInvariant, PTL

\* However deliveries and cancellations of prepared turns interleave, the chain verifies
\* and every context was the archive as it stood before its turn.
THEOREM ArchiveIsSound == Spec => []ArchiveSound
  <1>1. ArchiveInv => ArchiveSound
    BY DEF ArchiveInv
  <1> QED BY <1>1, ArchiveInvariant, PTL

--------------------------------------------------------------------------------
(* The tables implement the log of delivered turns. *)

LogOf == [i \in DOMAIN completeTurns |-> completeTurns[i].turn]
FatesOf == [t \in Turns |-> FateOf(t)]

\* The log of one more row.
LEMMA LogAppended ==
  ASSUME completeTurns \in Seq(TurnRow), NEW row \in TurnRow,
         completeTurns' = Append(completeTurns, row)
  PROVE  LogOf' = Append(LogOf, row.turn)
  <1> DEFINE n == Len(completeTurns)
  <1>1. /\ n \in Nat
        /\ DOMAIN completeTurns = 1..n
        /\ DOMAIN completeTurns' = 1..(n + 1)
        /\ completeTurns'[n + 1] = row
        /\ \A i \in 1..n : completeTurns'[i] = completeTurns[i] /\ completeTurns[i] \in TurnRow
    BY ChainAppended
  <1> HIDE DEF n
  <1>2. LogOf \in Seq(Turns) /\ Len(LogOf) = n
    <2>1. LogOf = [i \in 1..n |-> completeTurns[i].turn]
      BY <1>1 DEF LogOf
    <2>2. \A i \in 1..n : completeTurns[i].turn \in Turns
      BY <1>1 DEF TurnRow
    <2> QED BY <1>1, <2>1, <2>2
  <1>3. row.turn \in Turns
    BY DEF TurnRow
  <1>4. /\ Append(LogOf, row.turn) \in Seq(Turns)
        /\ Len(Append(LogOf, row.turn)) = n + 1
        /\ Append(LogOf, row.turn)[n + 1] = row.turn
        /\ \A i \in 1..n : Append(LogOf, row.turn)[i] = LogOf[i]
    BY <1>1, <1>2, <1>3
  <1>5. LogOf' = [i \in 1..(n + 1) |-> completeTurns'[i].turn]
    BY <1>1 DEF LogOf
  <1>6. \A i \in 1..(n + 1) : Append(LogOf, row.turn)[i] = completeTurns'[i].turn
    BY <1>1, <1>4 DEF LogOf
  <1>7. Append(LogOf, row.turn) = [i \in 1..(n + 1) |-> Append(LogOf, row.turn)[i]]
    BY <1>1, <1>4
  <1> QED BY <1>5, <1>6, <1>7

\* Preparing a turn offers it.
LEMMA PrepareOffers ==
  ASSUME ArchiveInv, NEW t \in Turns, NEW head, Prepare(t, head)
  PROVE  DeliveryLogOf!Offer(t)
  <1>1. ~Prepared(t) /\ \A kind : ~Has(t, kind)
    BY DEF Prepare, PrepareAllowed, ArchiveInv, JournalAgrees, Has, Prepared
  <1>2. \A u \in Turns : Prepared(u)' <=> u = t \/ Prepared(u)
    <2>1. PICK p : p = [turn |-> t, head |-> metadata.head]
      OBVIOUS
    <2>2. preparations' = preparations \cup {p} /\ p.turn = t
      BY <2>1 DEF Prepare
    <2> QED BY <2>2, PreparedAfter
  <1>3. \A u, kind : Has(u, kind)' <=> Has(u, kind)
    BY DEF Prepare, Has
  <1>4. FateOf(t) = "none" /\ FateOf(t)' = "open"
    BY <1>1, <1>2, <1>3 DEF FateOf
  <1>5. \A u \in Turns : u # t => FateOf(u)' = FateOf(u)
    BY <1>2, <1>3 DEF FateOf
  <1>6. LogOf' = LogOf
    BY DEF Prepare, LogOf
  <1> QED BY <1>4, <1>5, <1>6 DEF DeliveryLogOf!Offer, LogOf

\* Cancelling a preparation withholds the turn.
LEMMA CancelWithholds ==
  ASSUME ArchiveInv, NEW t \in Turns, ResolveCancelled(t)
  PROVE  DeliveryLogOf!Withhold(t)
  <1>1. Prepared(t) /\ ~Has(t, "delivered") /\ ~Has(t, "cancelled")
    BY DEF ResolveCancelled
  <1>2. \A u \in Turns : Prepared(u)' <=> Prepared(u)
    BY DEF ResolveCancelled, Prepared
  <1>3. \A u \in Turns : /\ Has(u, "delivered")' <=> Has(u, "delivered")
                         /\ Has(u, "cancelled")' <=> u = t \/ Has(u, "cancelled")
    <2>1. PICK event : event = [turn |-> t, kind |-> "cancelled", digest |-> <<>>]
      OBVIOUS
    <2>2. /\ deliveryEvents' = deliveryEvents \cup {event}
          /\ event.turn = t /\ event.kind = "cancelled"
      BY <2>1 DEF ResolveCancelled
    <2> QED BY <2>2, HasAfter
  <1>4. FateOf(t) = "open" /\ FateOf(t)' = "withheld"
    BY <1>1, <1>3 DEF FateOf
  <1>5. \A u \in Turns : u # t => FateOf(u)' = FateOf(u)
    BY <1>2, <1>3 DEF FateOf
  <1>6. LogOf' = LogOf
    BY DEF ResolveCancelled, LogOf
  <1> QED BY <1>4, <1>5, <1>6 DEF DeliveryLogOf!Withhold, LogOf

\* Completing a turn delivers it, whether or not it was cancelled before.
LEMMA ResolveDelivers ==
  ASSUME ArchiveInv, NEW t \in Turns, ResolveDelivered(t)
  PROVE  DeliveryLogOf!Deliver(t)
  <1>1. Prepared(t) /\ ~Has(t, "delivered")
    BY DEF ResolveDelivered
  <1>2. \A u \in Turns : Prepared(u)' <=> Prepared(u)
    BY DEF ResolveDelivered, Prepared
  <1>3. \A u \in Turns : /\ Has(u, "delivered")' <=> u = t \/ Has(u, "delivered")
                         /\ Has(u, "cancelled")' <=> Has(u, "cancelled")
    <2>1. PICK event : event = [turn |-> t, kind |-> "delivered",
                                digest |-> TurnDigest([turn |-> t, previous |-> metadata.head])]
      OBVIOUS
    <2>2. /\ deliveryEvents' = deliveryEvents \cup {event}
          /\ event.turn = t /\ event.kind = "delivered"
      BY <2>1 DEF ResolveDelivered
    <2> QED BY <2>2, HasAfter
  <1>4. FateOf(t) \in {"open", "withheld"} /\ FateOf(t)' = "delivered"
    BY <1>1, <1>3 DEF FateOf
  <1>5. \A u \in Turns : u # t => FateOf(u)' = FateOf(u)
    BY <1>2, <1>3 DEF FateOf
  <1>6. LogOf' = Append(LogOf, t)
    <2>1. /\ completeTurns \in Seq(TurnRow) /\ [turn |-> t, previous |-> metadata.head] \in TurnRow
          /\ completeTurns' = Append(completeTurns, [turn |-> t, previous |-> metadata.head])
      BY DEF ArchiveInv, TypeOK, TurnRow, ResolveDelivered
    <2> QED BY <2>1, LogAppended
  <1> QED BY <1>4, <1>5, <1>6 DEF DeliveryLogOf!Deliver, LogOf

\* A lifecycle record changes no turn's fate.
LEMMA AbandonStutters ==
  ASSUME NEW t \in Turns, Abandon(t)
  PROVE  UNCHANGED DeliveryLogOf!logVars
  BY DEF Abandon, DeliveryLogOf!logVars, FateOf, Has, Prepared

\* A step that leaves the tables alone leaves the log alone.
LEMMA StutterStutters ==
  ASSUME UNCHANGED archiveVars
  PROVE  UNCHANGED DeliveryLogOf!logVars
  BY DEF archiveVars, DeliveryLogOf!logVars, FateOf, Has, Prepared

\* The archive of store.py is an append-only log of delivered turns: its empty tables
\* are the empty log, and each operation is one step of the log or none.
THEOREM ArchiveImplementsLog == Spec => ImplementsLog
  <1>1. Init => DeliveryLogOf!Init
    BY DEF Init, DeliveryLogOf!Init, FateOf, Has, Prepared
  <1>2. ArchiveInv /\ [Next]_archiveVars => [DeliveryLogOf!Next]_(DeliveryLogOf!logVars)
    <2> SUFFICES ASSUME ArchiveInv, [Next]_archiveVars
                 PROVE  [DeliveryLogOf!Next]_(DeliveryLogOf!logVars)
      OBVIOUS
    <2>1. ASSUME NEW t \in Turns, NEW head \in Heads, Prepare(t, head)
          PROVE  DeliveryLogOf!Next
      BY <2>1, PrepareOffers DEF DeliveryLogOf!Next
    <2>2. ASSUME NEW t \in Turns, ResolveCancelled(t)
          PROVE  DeliveryLogOf!Next
      BY <2>2, CancelWithholds DEF DeliveryLogOf!Next
    <2>3. ASSUME NEW t \in Turns, ResolveDelivered(t)
          PROVE  DeliveryLogOf!Next
      BY <2>3, ResolveDelivers DEF DeliveryLogOf!Next
    <2>4. ASSUME NEW t \in Turns, Abandon(t)
          PROVE  UNCHANGED DeliveryLogOf!logVars
      BY <2>4, AbandonStutters
    <2> QED BY <2>1, <2>2, <2>3, <2>4, StutterStutters DEF Next
  <1> QED BY <1>1, <1>2, ArchiveInvariant, PTL DEF Spec, ImplementsLog, DeliveryLogOf!Spec
================================================================================
