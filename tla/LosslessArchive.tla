---------------------------- MODULE LosslessArchive ----------------------------
(***************************************************************************)
(* The lossless archive and its delivery journal                           *)
(* (myuna_core/episodic_memory/store.py, delivery.py): one SQLite file     *)
(* with append-only tables, in which every operation is one BEGIN          *)
(* IMMEDIATE transaction.                                                  *)
(*                                                                         *)
(* A turn is prepared before its reply leaves, for the archive head its    *)
(* prompt was built from, and becomes a complete turn of the chain when    *)
(* the channel reports the delivery.  A turn_digest covers the turn and    *)
(* the digest of the turn before it, so the model writes a digest as the   *)
(* sequence of the turns it covers.  Delivery tokens and turn ids are both *)
(* derived from one inbound event: a turn stands for them all.             *)
(***************************************************************************)
EXTENDS Naturals, Sequences, SequencesExt

CONSTANTS
    Turns,
    NoHead      \* the expected head of a preparation that names none

ASSUME HeadAssumption == NoHead \notin Seq(Turns)

VARIABLES
    completeTurns,   \* table complete_turns, by sequence
    appendReceipts,  \* table append_receipts
    metadata,        \* table metadata: head_digest and turn_count
    preparations,    \* table delivery_preparations
    deliveryEvents,  \* table delivery_events
    lifecycle        \* table lifecycle_records

archiveVars == <<completeTurns, appendReceipts, metadata, preparations,
                 deliveryEvents, lifecycle>>

Digest == Seq(Turns)
TurnRow == [turn: Turns, previous: Digest]
Receipt == [turn: Turns, digest: Digest, sequence: Nat]
Preparation == [turn: Turns, head: Digest]
DeliveryEvent == [turn: Turns, kind: {"delivered", "cancelled"}, digest: Digest]
LifecycleRecord == [turn: Turns, kind: {"abandoned", "delivery_failed"}]

TypeOK ==
    /\ completeTurns \in Seq(TurnRow)
    /\ appendReceipts \subseteq Receipt
    /\ metadata \in [head: Digest, count: Nat]
    /\ preparations \subseteq Preparation
    /\ deliveryEvents \subseteq DeliveryEvent
    /\ lifecycle \subseteq LifecycleRecord

Init ==
    /\ completeTurns = <<>>
    /\ appendReceipts = {}
    /\ metadata = [head |-> <<>>, count |-> 0]
    /\ preparations = {}
    /\ deliveryEvents = {}
    /\ lifecycle = {}

--------------------------------------------------------------------------------

Prepared(t) == \E p \in preparations : p.turn = t
Has(t, kind) == \E e \in deliveryEvents : e.turn = t /\ e.kind = kind
Archived == {completeTurns[i].turn : i \in DOMAIN completeTurns}

TurnDigest(row) == Append(row.previous, row.turn)

\* _turns_from_connection: the chain is unbroken and every turn has its receipt.
ChainVerifies ==
    \A i \in DOMAIN completeTurns :
        LET row == completeTurns[i] IN
        /\ row.previous = IF i = 1 THEN <<>> ELSE TurnDigest(completeTurns[i - 1])
        /\ [turn |-> row.turn, digest |-> TurnDigest(row), sequence |-> i]
              \in appendReceipts

\* A turn may be prepared again after it was delivered.
Mutant_PrepareAllowedAgain(t, head) == head \in {NoHead, metadata.head}

PrepareAllowed(t, head) ==
    /\ ~Prepared(t)
    /\ head \in {NoHead, metadata.head}

\* The expected head is kept as the caller gave it.
Mutant_PrepareUnbound(t, head) ==
    /\ PrepareAllowed(t, head)
    /\ preparations' = preparations \cup {[turn |-> t, head |-> head]}
    /\ UNCHANGED <<completeTurns, appendReceipts, metadata, deliveryEvents, lifecycle>>

\* prepare_delivery; a preparation for an older head is delivery_preparation_stale_head.
Prepare(t, head) ==
    /\ PrepareAllowed(t, head)
    /\ preparations' = preparations \cup {[turn |-> t, head |-> metadata.head]}
    /\ UNCHANGED <<completeTurns, appendReceipts, metadata, deliveryEvents, lifecycle>>

\* A second report of a cancellation is a replay, one after a delivery is refused.
ResolveCancelled(t) ==
    /\ Prepared(t)
    /\ ~Has(t, "delivered") /\ ~Has(t, "cancelled")
    /\ ChainVerifies
    /\ deliveryEvents' = deliveryEvents \cup
          {[turn |-> t, kind |-> "cancelled", digest |-> <<>>]}
    /\ lifecycle' = lifecycle \cup {[turn |-> t, kind |-> "delivery_failed"]}
    /\ UNCHANGED <<completeTurns, appendReceipts, metadata, preparations>>

\* The report of the delivery is applied again when it is repeated.
Mutant_DeliveredTwice(t) ==
    /\ Prepared(t)
    /\ LET row == [turn |-> t, previous |-> metadata.head]
           sequence == metadata.count + 1
       IN /\ completeTurns' = Append(completeTurns, row)
          /\ appendReceipts' = appendReceipts \cup
                {[turn |-> t, digest |-> TurnDigest(row), sequence |-> sequence]}
          /\ metadata' = [head |-> TurnDigest(row), count |-> sequence]
          /\ deliveryEvents' = deliveryEvents \cup
                {[turn |-> t, kind |-> "delivered", digest |-> TurnDigest(row)]}
    /\ UNCHANGED <<preparations, lifecycle>>

\* The turn is chained to the head its prompt was built from.
Mutant_DeliveredAtPreparedHead(t) ==
    /\ ~Has(t, "delivered")
    /\ \E p \in preparations :
          LET row == [turn |-> t, previous |-> p.head]
              sequence == metadata.count + 1
          IN /\ p.turn = t
             /\ completeTurns' = Append(completeTurns, row)
             /\ appendReceipts' = appendReceipts \cup
                   {[turn |-> t, digest |-> TurnDigest(row), sequence |-> sequence]}
             /\ metadata' = [head |-> TurnDigest(row), count |-> sequence]
             /\ deliveryEvents' = deliveryEvents \cup
                   {[turn |-> t, kind |-> "delivered", digest |-> TurnDigest(row)]}
    /\ UNCHANGED <<preparations, lifecycle>>

\* _write_complete_turn at the head of this moment, not at the prepared one: another
\* turn may have been delivered since.  A cancelled turn may still be delivered.
ResolveDelivered(t) ==
    /\ Prepared(t)
    /\ ~Has(t, "delivered")
    /\ ChainVerifies
    /\ LET row == [turn |-> t, previous |-> metadata.head]
           sequence == metadata.count + 1
       IN /\ completeTurns' = Append(completeTurns, row)
          /\ appendReceipts' = appendReceipts \cup
                {[turn |-> t, digest |-> TurnDigest(row), sequence |-> sequence]}
          /\ metadata' = [head |-> TurnDigest(row), count |-> sequence]
          /\ deliveryEvents' = deliveryEvents \cup
                {[turn |-> t, kind |-> "delivered", digest |-> TurnDigest(row)]}
    /\ UNCHANGED <<preparations, lifecycle>>

\* append_lifecycle, as record_incomplete_turn calls it.
Abandon(t) ==
    /\ lifecycle' = lifecycle \cup {[turn |-> t, kind |-> "abandoned"]}
    /\ UNCHANGED <<completeTurns, appendReceipts, metadata, preparations, deliveryEvents>>

\* A caller may have read the head long before it prepares.
Heads == {NoHead} \cup {SubSeq(metadata.head, 1, n) : n \in 0..Len(metadata.head)}

Next ==
    \E t \in Turns :
        \/ \E head \in Heads : Prepare(t, head)
        \/ ResolveCancelled(t)
        \/ ResolveDelivered(t)
        \/ Abandon(t)

Spec == Init /\ [][Next]_archiveVars

--------------------------------------------------------------------------------
(* The correctness of the archive. *)

\* The chain never breaks: the check that store.py:628-656 makes before every
\* resolution succeeds, and the metadata row names its last turn.
ArchiveChain ==
    /\ ChainVerifies
    /\ metadata.count = Len(completeTurns)
    /\ metadata.head = [i \in DOMAIN completeTurns |-> completeTurns[i].turn]

\* The context a reply was made from (store.py:806-810) is the archive as it stood
\* before the turn itself: a prefix of the chain that ends before the turn.
ContextIsPrefix ==
    \A p \in preparations :
        /\ IsPrefix(p.head, metadata.head)
        /\ \A i \in DOMAIN completeTurns :
              completeTurns[i].turn = p.turn => Len(p.head) < i

\* The chain and the contexts that were made from it.
ArchiveSound == ArchiveChain /\ ContextIsPrefix

FateOf(t) ==
    IF Has(t, "delivered") THEN "delivered"
    ELSE IF Has(t, "cancelled") THEN "withheld"
    ELSE IF Prepared(t) THEN "open" ELSE "none"

\* The tables implement a log of delivered turns.
DeliveryLogOf == INSTANCE DeliveryLog WITH
    log <- [i \in DOMAIN completeTurns |-> completeTurns[i].turn],
    fate <- [t \in Turns |-> FateOf(t)]

\* The archive of store.py is an append-only log in which every delivered turn
\* occurs once and a delivery is never downgraded to a cancellation.
ImplementsLog == DeliveryLogOf!Spec
================================================================================
