----------------------- MODULE OwnerPrivateMemory_proofs -----------------------
(***************************************************************************)
(* The runtime drives the archive only through the archive's own           *)
(* operations, so what is proved of the archive holds of the composition;  *)
(* what the archive, the channel and the derived files say of each other   *)
(* holds for every set of turns and whatever crash or failed write falls   *)
(* between two of their steps.                                             *)
(***************************************************************************)
EXTENDS OwnerPrivateMemory, LosslessArchive_proofs

(* What the gateway works at. *)

TurnStages == {"command", "context", "chat", "prepare", "outcome", "respond"}

\* A turn in work was claimed, its reply was not sent, and its event, if it is a temporal
\* command, is still to be recorded.  A reported delivery in work is in the archive.
InWork ==
    /\ gateway.at \in TurnStages =>
          /\ gateway.turn \in claimed \ shown
          /\ channel[gateway.turn] \in {"waiting", "closed"}
    /\ gateway.at = "command" => \A i \in DOMAIN p08 : p08[i] # gateway.turn
    /\ gateway.at \in {"derive", "profile"} => gateway.turn \in Archived
    /\ gateway.at # "down" => files.temporal # Absent

(* What the channel and the archive know of a turn. *)

\* Somebody recorded that the reply was cancelled, or that the turn was abandoned.
Withheld(t) == Has(t, "cancelled") \/ \E r \in lifecycle : r.turn = t

\* Nothing was reported about the turn, and nobody withheld its reply.
Unreported(t) == ~Withheld(t) /\ \A a \in acks : a.turn # t

\* A turn is reported about only after the plugin is done with it, and a report tells
\* whether Telegram accepted the reply.
Reports ==
    /\ \A t \in Turns :
          /\ t \notin claimed => channel[t] = "none"
          /\ channel[t] \in {"none", "waiting", "replied"} => t \notin shown
          /\ channel[t] = "shown" => t \in shown
          /\ channel[t] # "closed" => Unreported(t)
    /\ \A a \in acks : a.outcome = "delivered" <=> a.turn \in shown

(* What the derived files owe to the archive and to the temporal events. *)

\* A temporal command is recorded once, when it is claimed.
EventsOnce ==
    /\ \A i \in DOMAIN p08 : p08[i] \in claimed
    /\ \A i, j \in DOMAIN p08 : p08[i] = p08[j] => i = j

\* A temporal snapshot has settled every event up to its cursor, one way or the other.
SnapshotSound(s) ==
    s # Absent =>
        /\ s \in TemporalSnapshot
        /\ IsPrefix(s.head, metadata.head)
        /\ s.cursor =< Len(p08)
        /\ s.resolved \subseteq Archived
        /\ s.resolved \cap s.blocked = {}
        /\ s.resolved \cup s.blocked = {p08[i] : i \in 1..s.cursor}

\* An index was derived from the archive, and from a temporal snapshot, as they were.
Behind(file, s) ==
    Whole(file) =>
        /\ IsPrefix(file.turns, metadata.head)
        /\ file.temporal.head = file.turns
        /\ Whole(s)
        /\ file.temporal.cursor =< s.cursor

FilesSound(f) ==
    /\ f \in Files
    /\ SnapshotSound(f.temporal)
    /\ Behind(f.index, f.temporal)
    /\ Behind(f.next, f.temporal)

\* A whole sidecar is the index of the archive and the temporal snapshot beside it.
Current(f) ==
    Whole(f.next) =>
        /\ f.temporal # Absent
        /\ f.temporal.head = metadata.head
        /\ f.next = Closure(f)

\* Without failing writes a sidecar is there only between a crash and a start.
SidecarCurrent ==
    ~brittle => /\ gateway.at # "down" => files.next = Absent
                /\ Current(files)

(* The inductive invariant. *)

MemoryInv ==
    /\ ArchiveInv
    /\ MemoryTypeOK
    /\ InWork
    /\ Reports
    /\ ArchiveIsWhatWasShown
    /\ ProfileAppliedOnce /\ staged \subseteq Requests
    /\ EventsOnce
    /\ FilesSound(files)
    /\ SidecarCurrent

--------------------------------------------------------------------------------
(* The archive under the runtime. *)

\* Every step of the composition is a step of the archive or leaves it alone.
LEMMA StepsOfArchive ==
  ASSUME MemoryTypeOK, InWork, MemoryNext
  PROVE  [Next]_archiveVars
  <1>1. gateway.at \in TurnStages => gateway.turn \in Turns
    BY DEF InWork, MemoryTypeOK
  <1>2. ASSUME NEW t \in Turns, NEW head, Prepare(t, head)
        PROVE  Next
    <2>1. metadata.head \in Seq(Turns)
      BY DEF MemoryTypeOK, TypeOK, Digest
    <2>2. SubSeq(metadata.head, 1, Len(metadata.head)) = metadata.head
      BY <2>1
    <2>3. Len(metadata.head) \in 0..Len(metadata.head)
      BY <2>1
    <2>4. metadata.head \in Heads
      BY <2>2, <2>3 DEF Heads
    <2>5. head \in Heads
      BY <1>2, <2>4 DEF Prepare, PrepareAllowed, Heads
    <2> QED BY <1>2, <2>5 DEF Next
  <1>3. CASE ReplyPrepared
    BY <1>1, <1>2, <1>3 DEF ReplyPrepared, TurnStages
  <1>4. CASE TurnAbandoned
    BY <1>1, <1>4 DEF TurnAbandoned, TurnStages, Next
  <1>5. CASE OutcomeRejected
    BY <1>1, <1>5 DEF OutcomeRejected, TurnStages, Next
  <1>6. CASE RespondFails
    BY <1>1, <1>6 DEF RespondFails, TurnStages, Next
  <1>7. CASE \E a \in acks : DeliveryResolved(a) \/ CancellationResolved(a)
    <2>1. \A a \in acks : a.turn \in Turns
      BY DEF MemoryTypeOK, Ack
    <2> QED BY <1>7, <2>1 DEF DeliveryResolved, CancellationResolved, Next
  <1>8. CASE Initialize \/ InitializeStops \/ Crash \/ TemporalRecorded \/ BuildContext
    BY <1>8 DEF Initialize, InitializeStops, Crash, Dies, TemporalRecorded, BuildContext
  <1>9. CASE ContextRejected \/ ContextCrash \/ CoreReplies \/ OutcomeRecorded \/ OutcomeFails
    BY <1>9 DEF ContextRejected, ContextCrash, Dies, CoreReplies, OutcomeRecorded, OutcomeFails
  <1>10. CASE Respond \/ DerivativesWritten \/ DerivativeGap \/ DeriveCrash \/ ProfileCommitted
    BY <1>10 DEF Respond, DerivativesWritten, DerivativeGap, DeriveCrash, Dies, ProfileCommitted
  <1>11. CASE \E t \in Turns :
                 \/ ClaimInbound(t) \/ PluginGivesUp(t) \/ TelegramAccepts(t)
                 \/ PacingCancelled(t) \/ CommitHybridDelivery(t) \/ AckLost(t)
    BY <1>11 DEF ClaimInbound, PluginGivesUp, TelegramAccepts, PacingCancelled,
                 CommitHybridDelivery, AckLost
  <1> QED BY <1>3, <1>4, <1>5, <1>6, <1>7, <1>8, <1>9, <1>10, <1>11 DEF MemoryNext, MemoryStep

\* The archive only grows: it keeps its turns, and what was a prefix of it stays one.
LEMMA ArchiveGrows ==
  ASSUME TypeOK, [Next]_archiveVars
  PROVE  /\ Archived \subseteq Archived'
         /\ \A d \in Digest : IsPrefix(d, metadata.head) => IsPrefix(d, metadata'.head)
  <1>1. CASE UNCHANGED <<completeTurns, metadata>>
    BY <1>1 DEF Archived
  <1>2. ASSUME NEW t \in Turns, ResolveDelivered(t)
        PROVE  /\ Archived \subseteq Archived'
               /\ \A d \in Digest : IsPrefix(d, metadata.head) => IsPrefix(d, metadata'.head)
    <2> DEFINE row == [turn |-> t, previous |-> metadata.head]
    <2>1. /\ completeTurns' = Append(completeTurns, row)
          /\ metadata'.head = TurnDigest(row)
      BY <1>2 DEF ResolveDelivered
    <2>2. metadata.head \in Digest /\ completeTurns \in Seq(TurnRow) /\ row \in TurnRow
      BY DEF TypeOK, TurnRow
    <2>3. TurnDigest(row) = Append(metadata.head, t)
      BY DEF TurnDigest
    <2>4. \A i \in DOMAIN completeTurns :
             i \in DOMAIN completeTurns' /\ completeTurns'[i] = completeTurns[i]
      BY <2>1, <2>2, ChainAppended
    <2> HIDE DEF row
    <2>5. Archived \subseteq Archived'
      BY <2>4 DEF Archived
    <2> QED BY <2>1, <2>2, <2>3, <2>5, PrefixAppended
  <1> QED BY <1>1, <1>2 DEF Next, archiveVars, Prepare, ResolveCancelled, Abandon

\* Only a delivery adds to the archive, and it adds the turn that was delivered.
LEMMA ArchivedAfter ==
  ASSUME TypeOK, NEW t \in Turns, ResolveDelivered(t)
  PROVE  Archived' = Archived \cup {t}
  <1> DEFINE row == [turn |-> t, previous |-> metadata.head]
             n == Len(completeTurns)
  <1>1. completeTurns' = Append(completeTurns, row)
    BY DEF ResolveDelivered
  <1>2. completeTurns \in Seq(TurnRow) /\ row \in TurnRow
    BY DEF TypeOK, TurnRow
  <1>3. /\ DOMAIN completeTurns = 1..n
        /\ DOMAIN completeTurns' = 1..(n + 1)
        /\ completeTurns'[n + 1] = row
        /\ n \in Nat
        /\ \A i \in 1..n : completeTurns'[i] = completeTurns[i]
    BY <1>1, <1>2, ChainAppended
  <1>4. row.turn = t
    OBVIOUS
  <1> HIDE DEF row, n
  <1>5. \A u : u \in Archived' <=> u = t \/ u \in Archived
    BY <1>3, <1>4 DEF Archived
  <1> QED BY <1>5

--------------------------------------------------------------------------------
(* What the writes of the derived files leave. *)

\* The fields of the files, and of the files after one of them was written.
LEMMA FileFields ==
  ASSUME NEW f \in Files
  PROVE  /\ f.temporal \in TemporalSnapshot \cup {Absent}
         /\ f.index \in Snapshot \cup {Absent}
         /\ f.next \in Snapshot \cup {Absent, Torn}
         /\ \A s \in TemporalSnapshot \cup {Absent} :
               /\ [f EXCEPT !.temporal = s] \in Files
               /\ [f EXCEPT !.temporal = s].temporal = s
               /\ [f EXCEPT !.temporal = s].index = f.index
               /\ [f EXCEPT !.temporal = s].next = f.next
         /\ \A x \in Snapshot :
               /\ [f EXCEPT !.index = x] \in Files
               /\ [f EXCEPT !.index = x].temporal = f.temporal
               /\ [f EXCEPT !.index = x].index = x
               /\ [f EXCEPT !.index = x].next = f.next
               /\ [f EXCEPT !.index = x, !.next = Absent] \in Files
               /\ [f EXCEPT !.index = x, !.next = Absent].temporal = f.temporal
               /\ [f EXCEPT !.index = x, !.next = Absent].index = x
               /\ [f EXCEPT !.index = x, !.next = Absent].next = Absent
         /\ \A x \in Snapshot \cup {Torn} :
               /\ [f EXCEPT !.next = x] \in Files
               /\ [f EXCEPT !.next = x].temporal = f.temporal
               /\ [f EXCEPT !.next = x].index = f.index
               /\ [f EXCEPT !.next = x].next = x
         /\ [f EXCEPT !.tmp = TRUE] \in Files
         /\ [f EXCEPT !.tmp = TRUE].temporal = f.temporal
         /\ [f EXCEPT !.tmp = TRUE].index = f.index
         /\ [f EXCEPT !.tmp = TRUE].next = f.next
  BY DEF Files

\* The cursor never goes back, and an index that was not there before is derived from the
\* archive as it stands and the temporal snapshot beside it.
Moved(f, g) ==
    /\ g \in Files
    /\ SnapshotSound(g.temporal)
    /\ f.temporal # Absent =>
          /\ g.temporal # Absent
          /\ f.temporal.cursor =< g.temporal.cursor
    /\ \A file \in {g.index, g.next} :
          \/ file \in {f.index, f.next, Absent, Torn}
          \/ /\ file = Closure(g)
             /\ g.temporal # Absent
             /\ g.temporal.head = metadata.head

\* Such a write leaves sound files.
LEMMA MoveKeepsSound ==
  ASSUME TypeOK, NEW f, FilesSound(f), NEW g, Moved(f, g)
  PROVE  FilesSound(g)
  <1>1. f \in Files /\ g \in Files
    BY DEF FilesSound, Moved
  <1>2. ASSUME NEW file \in {g.index, g.next}, Whole(file)
        PROVE  Behind(file, g.temporal)
    <2>1. CASE file \in {f.index, f.next}
      <3>1. /\ IsPrefix(file.turns, metadata.head)
            /\ file.temporal.head = file.turns
            /\ Whole(f.temporal)
            /\ file.temporal.cursor =< f.temporal.cursor
        BY <1>2, <2>1 DEF FilesSound, Behind
      <3>2. /\ f.temporal \in TemporalSnapshot
            /\ g.temporal \in TemporalSnapshot
            /\ f.temporal.cursor =< g.temporal.cursor
        BY <1>1, <3>1, FileFields DEF Whole, Moved
      <3>3. file \in Snapshot
        BY <1>1, <1>2, <2>1, FileFields DEF Whole
      <3>4. file.temporal.cursor \in Nat /\ f.temporal.cursor \in Nat /\ g.temporal.cursor \in Nat
        BY <3>2, <3>3 DEF Snapshot, TemporalSnapshot
      <3>5. Whole(g.temporal)
        BY <3>2, FileAssumption DEF Whole
      <3> QED BY <3>1, <3>2, <3>4, <3>5 DEF Behind
    <2>2. CASE file \notin {f.index, f.next}
      <3>1. /\ file = Closure(g) /\ g.temporal # Absent /\ g.temporal.head = metadata.head
        BY <1>2, <2>2 DEF Moved, Whole
      <3>2. g.temporal \in TemporalSnapshot
        BY <1>1, <3>1, FileFields
      <3>3. g.temporal.cursor \in Nat
        BY <3>2 DEF TemporalSnapshot
      <3>4. Whole(g.temporal)
        BY <3>2, FileAssumption DEF Whole
      <3>5. IsPrefix(metadata.head, metadata.head)
        BY PrefixReflexive DEF TypeOK
      <3> QED BY <3>1, <3>3, <3>4, <3>5 DEF Behind, Closure
    <2> QED BY <2>1, <2>2
  <1> QED BY <1>2 DEF FilesSound, Moved, Behind

\* Rebinding the temporal snapshot names the head of the archive and settles nothing.
LEMMA RebindMoves ==
  ASSUME TypeOK, p08 \in Seq(Turns), NEW f, FilesSound(f)
  PROVE  LET g == AfterRebind(f) IN
         /\ Moved(f, g)
         /\ g.temporal \in TemporalSnapshot
         /\ g.temporal.head = metadata.head
         /\ g.index = f.index
         /\ g.next = f.next
  <1>1. metadata.head \in Digest /\ IsPrefix(metadata.head, metadata.head)
    BY PrefixReflexive DEF TypeOK
  <1>2. f \in Files /\ f.temporal \in TemporalSnapshot \cup {Absent}
    BY FileFields DEF FilesSound
  <1>3. /\ Rebound(f) \in TemporalSnapshot
        /\ Rebound(f).head = metadata.head
        /\ SnapshotSound(Rebound(f))
        /\ f.temporal # Absent => f.temporal.cursor =< Rebound(f).cursor
    <2>1. CASE f.temporal = Absent
      <3>1. PICK s : s = Rebound(f)
        OBVIOUS
      <3>2. s = [head |-> metadata.head, cursor |-> 0, resolved |-> {}, blocked |-> {}]
        BY <2>1, <3>1 DEF Rebound, EmptyTemporal
      <3>3. /\ s \in TemporalSnapshot /\ s.head = metadata.head
            /\ s.cursor = 0 /\ s.resolved = {} /\ s.blocked = {}
        BY <1>1, <3>2 DEF TemporalSnapshot
      <3>4. {p08[i] : i \in 1..0} = {} /\ 0 =< Len(p08)
        OBVIOUS
      <3> QED BY <1>1, <2>1, <3>1, <3>3, <3>4 DEF SnapshotSound
    <2>2. CASE f.temporal # Absent
      <3>1. PICK s : s = Rebound(f)
        OBVIOUS
      <3>2. s = [f.temporal EXCEPT !.head = metadata.head]
        BY <2>2, <3>1 DEF Rebound
      <3>3. /\ s \in TemporalSnapshot /\ s.head = metadata.head
            /\ s.cursor = f.temporal.cursor /\ s.resolved = f.temporal.resolved
            /\ s.blocked = f.temporal.blocked /\ s.cursor \in Nat
        BY <1>1, <1>2, <2>2, <3>2 DEF TemporalSnapshot
      <3> QED BY <1>1, <2>2, <3>1, <3>3 DEF SnapshotSound, FilesSound
    <2> QED BY <2>1, <2>2
  <1>4. /\ AfterRebind(f) \in Files
        /\ AfterRebind(f).temporal = Rebound(f)
        /\ AfterRebind(f).index = f.index
        /\ AfterRebind(f).next = f.next
    BY <1>2, <1>3, FileFields DEF AfterRebind
  <1>5. Rebound(f) # Absent
    BY <1>3, FileAssumption
  <1> QED BY <1>3, <1>4, <1>5 DEF Moved

\* Deriving the index again, or finishing its sidecar, leaves the index of the archive and
\* the temporal snapshot as they stand, and no sidecar.
LEMMA RecoverMoves ==
  ASSUME TypeOK, NEW f, FilesSound(f), f.temporal # Absent,
         f.temporal.head = metadata.head, NEW explicit, NEW g \in Recovered(f, explicit)
  PROVE  Moved(f, g) /\ g.temporal = f.temporal /\ g.next = Absent
  <1>1. f \in Files /\ f.temporal \in TemporalSnapshot
    BY FileFields DEF FilesSound
  <1>2. Closure(f) \in Snapshot
    BY <1>1 DEF Closure, Snapshot, TypeOK
  <1>3. \/ g = [f EXCEPT !.index = Closure(f), !.next = Absent]
        \/ f.next = Absent /\ g = [f EXCEPT !.index = Closure(f)]
    BY DEF Recovered
  <1>4. /\ g \in Files /\ g.temporal = f.temporal /\ g.index = Closure(f) /\ g.next = Absent
    <2>1. PICK y \in Snapshot : y = Closure(f)
      BY <1>2
    <2>2. CASE g = [f EXCEPT !.index = y, !.next = Absent]
      BY <1>1, <2>1, <2>2 DEF Files
    <2>3. CASE f.next = Absent /\ g = [f EXCEPT !.index = y]
      BY <1>1, <2>1, <2>3 DEF Files
    <2> QED BY <1>3, <2>1, <2>2, <2>3
  <1>5. Closure(g) = Closure(f)
    BY <1>4 DEF Closure
  <1>6. f.temporal.cursor =< f.temporal.cursor
    BY <1>1 DEF TemporalSnapshot
  <1> QED BY <1>4, <1>5, <1>6 DEF Moved, FilesSound

\* A write of the index that is cut short leaves a sidecar: torn, or the whole index.
LEMMA CutShortMoves ==
  ASSUME TypeOK, NEW f, FilesSound(f), f.temporal # Absent,
         f.temporal.head = metadata.head, NEW g \in IndexLeft(f)
  PROVE  Moved(f, g) /\ g.temporal = f.temporal /\ Current(g)
  <1>1. f \in Files /\ f.temporal \in TemporalSnapshot
    BY FileFields DEF FilesSound
  <1>2. Closure(f) \in Snapshot
    BY <1>1 DEF Closure, Snapshot, TypeOK
  <1>3. PICK x \in {Torn, Closure(f)} : g = [f EXCEPT !.next = x]
    BY DEF IndexLeft
  <1>4. /\ g \in Files /\ g.temporal = f.temporal /\ g.index = f.index /\ g.next = x
    <2>1. x \in Snapshot \cup {Torn}
      BY <1>2
    <2> QED BY <1>1, <1>3, <2>1, FileFields
  <1>5. Closure(g) = Closure(f)
    BY <1>4 DEF Closure
  <1>6. f.temporal.cursor =< f.temporal.cursor
    BY <1>1 DEF TemporalSnapshot
  <1>7. Moved(f, g)
    BY <1>3, <1>4, <1>5, <1>6 DEF Moved, FilesSound
  <1>8. Current(g)
    BY <1>3, <1>4, <1>5 DEF Current, Whole
  <1> QED BY <1>4, <1>7, <1>8

\* What a start, or the derivation after a delivery, ends with.
LEMMA DerivedSound ==
  ASSUME TypeOK, p08 \in Seq(Turns), NEW f, FilesSound(f), NEW explicit,
         NEW g \in Derived(f, explicit)
  PROVE  FilesSound(g) /\ g.temporal # Absent /\ g.next = Absent
  <1> DEFINE h == AfterRebind(f)
  <1>1. /\ Moved(f, h) /\ h.temporal \in TemporalSnapshot /\ h.temporal.head = metadata.head
    BY RebindMoves
  <1>2. h.temporal # Absent
    BY <1>1, FileAssumption
  <1>3. FilesSound(h)
    BY <1>1, MoveKeepsSound
  <1>4. g \in Recovered(h, explicit)
    BY DEF Derived
  <1> HIDE DEF h
  <1>5. Moved(h, g) /\ g.temporal = h.temporal /\ g.next = Absent
    BY <1>1, <1>2, <1>3, <1>4, RecoverMoves
  <1>6. FilesSound(g)
    BY <1>3, <1>5, MoveKeepsSound
  <1> QED BY <1>2, <1>5, <1>6

\* What they leave when one of the two writes raises.
LEMMA StoppedSound ==
  ASSUME TypeOK, p08 \in Seq(Turns), NEW f, FilesSound(f), NEW explicit,
         NEW g \in Stopped(f, explicit)
  PROVE  /\ FilesSound(g)
         /\ f.temporal # Absent => g.temporal # Absent
         /\ Current(f) => Current(g)
         /\ Derived(f, explicit) = {} => g.next = f.next
  <1> DEFINE h == AfterRebind(f)
  <1>1. /\ Moved(f, h) /\ h.temporal \in TemporalSnapshot /\ h.temporal.head = metadata.head
        /\ h.index = f.index /\ h.next = f.next
    BY RebindMoves
  <1>2. h.temporal # Absent
    BY <1>1, FileAssumption
  <1>3. FilesSound(h)
    BY <1>1, MoveKeepsSound
  <1>4. \/ g = f
        \/ g = h
        \/ g \in IndexLeft(h) /\ Derived(f, explicit) # {}
    BY DEF Stopped, Derived
  <1>5. Current(f) => Current(h)
    <2> SUFFICES ASSUME Current(f), Whole(f.next)
                 PROVE  Current(h)
      BY <1>1 DEF Current
    <2>1. f.temporal # Absent /\ f.temporal.head = metadata.head /\ f.next = Closure(f)
      BY DEF Current
    <2>2. f \in Files /\ f.temporal \in TemporalSnapshot
      BY <2>1, FileFields DEF FilesSound
    <2>3. [f.temporal EXCEPT !.head = metadata.head] = f.temporal
      BY <2>1, <2>2 DEF TemporalSnapshot
    <2>4. h.temporal = f.temporal
      <3>1. Rebound(f) = f.temporal
        BY <2>1, <2>3 DEF Rebound
      <3>2. h = [f EXCEPT !.temporal = f.temporal]
        BY <3>1 DEF AfterRebind
      <3> QED BY <2>2, <3>2 DEF Files
    <2>5. Closure(h) = Closure(f)
      BY <2>4 DEF Closure
    <2> HIDE DEF h
    <2> QED BY <1>1, <2>1, <2>4, <2>5 DEF Current
  <1> HIDE DEF h
  <1>6. CASE g = f
    BY <1>6
  <1>7. CASE g = h
    BY <1>1, <1>2, <1>3, <1>5, <1>7
  <1>8. CASE g \in IndexLeft(h) /\ Derived(f, explicit) # {}
    <2>1. Moved(h, g) /\ g.temporal = h.temporal /\ Current(g)
      BY <1>1, <1>2, <1>3, <1>8, CutShortMoves
    <2>2. FilesSound(g)
      BY <1>3, <2>1, MoveKeepsSound
    <2> QED BY <1>2, <1>8, <2>1, <2>2
  <1> QED BY <1>4, <1>6, <1>7, <1>8

\* ... and when the process dies in them.
LEMMA KilledSound ==
  ASSUME TypeOK, p08 \in Seq(Turns), NEW f, FilesSound(f), NEW explicit,
         NEW g \in Killed(f, explicit)
  PROVE  FilesSound(g) /\ (Current(f) => Current(g))
  <1>1. CASE g \in Stopped(f, explicit)
    BY <1>1, StoppedSound
  <1>2. CASE g = [f EXCEPT !.tmp = TRUE]
    <2>1. f \in Files
      BY DEF FilesSound
    <2>2. /\ g \in Files /\ g.temporal = f.temporal /\ g.index = f.index /\ g.next = f.next
      BY <1>2, <2>1, FileFields
    <2>3. Closure(g) = Closure(f)
      BY <2>2 DEF Closure
    <2> QED BY <2>2, <2>3 DEF FilesSound, Current
  <1> QED BY <1>1, <1>2 DEF Killed

\* Advancing the temporal snapshot settles each new event once, against the archive of
\* this moment: no event was settled before its turn.
LEMMA AdvancedIsSound ==
  ASSUME TypeOK, p08 \in Seq(Turns), EventsOnce, NEW f, FilesSound(f), f.temporal # Absent
  PROVE  /\ Advanced(f) \in TemporalSnapshot
         /\ Advanced(f).head = metadata.head
         /\ SnapshotSound(Advanced(f))
         /\ f.temporal.cursor =< Advanced(f).cursor
  <1>1. f \in Files /\ f.temporal \in TemporalSnapshot
    BY FileFields DEF FilesSound
  <1>2. PICK old : old = f.temporal
    OBVIOUS
  <1>3. /\ old.cursor \in Nat /\ old.resolved \subseteq Turns /\ old.blocked \subseteq Turns
        /\ old.cursor =< Len(p08)
        /\ old.resolved \subseteq Archived
        /\ old.resolved \cap old.blocked = {}
        /\ old.resolved \cup old.blocked = {p08[i] : i \in 1..old.cursor}
    BY <1>1, <1>2 DEF TemporalSnapshot, FilesSound, SnapshotSound
  <1>4. PICK new : new = {p08[i] : i \in (old.cursor + 1)..Len(p08)}
    OBVIOUS
  <1>5. PICK s : s = [head |-> metadata.head, cursor |-> Len(p08),
                      resolved |-> old.resolved \cup (new \cap Archived),
                      blocked |-> old.blocked \cup (new \ Archived)]
    OBVIOUS
  <1>6. s = Advanced(f)
    BY <1>2, <1>4, <1>5 DEF Advanced
  <1>7. /\ s.head = metadata.head /\ s.cursor = Len(p08)
        /\ s.resolved = old.resolved \cup (new \cap Archived)
        /\ s.blocked = old.blocked \cup (new \ Archived)
    BY <1>5
  <1>8. /\ Len(p08) \in Nat /\ DOMAIN p08 = 1..Len(p08)
        /\ \A i \in 1..Len(p08) : p08[i] \in Turns
    OBVIOUS
  <1>9. new \subseteq Turns
    BY <1>3, <1>4, <1>8
  <1>10. \A t \in new : t \notin {p08[i] : i \in 1..old.cursor}
    <2> SUFFICES ASSUME NEW i \in (old.cursor + 1)..Len(p08), NEW j \in 1..old.cursor,
                        p08[i] = p08[j]
                 PROVE  FALSE
      BY <1>4
    <2>1. i \in 1..Len(p08) /\ j \in 1..Len(p08) /\ i # j
      BY <1>3, <1>8
    <2> QED BY <1>8, <2>1 DEF EventsOnce
  <1>11. {p08[i] : i \in 1..old.cursor} \cup new = {p08[i] : i \in 1..Len(p08)}
    <2>1. \A i \in 1..Len(p08) : i \in 1..old.cursor \/ i \in (old.cursor + 1)..Len(p08)
      BY <1>3, <1>8
    <2>2. \A i \in 1..old.cursor : i \in 1..Len(p08)
      BY <1>3, <1>8
    <2>3. \A i \in (old.cursor + 1)..Len(p08) : i \in 1..Len(p08)
      BY <1>3, <1>8
    <2> QED BY <1>4, <2>1, <2>2, <2>3
  <1>12. metadata.head \in Digest /\ IsPrefix(metadata.head, metadata.head)
    BY PrefixReflexive DEF TypeOK
  <1>13. s \in TemporalSnapshot
    BY <1>3, <1>5, <1>8, <1>9, <1>12 DEF TemporalSnapshot
  <1>14. s.resolved \subseteq Archived /\ s.resolved \cap s.blocked = {}
    BY <1>3, <1>7, <1>10
  <1>15. s.resolved \cup s.blocked = {p08[i] : i \in 1..s.cursor}
    BY <1>3, <1>7, <1>11
  <1>16. old.cursor =< s.cursor /\ s.cursor =< Len(p08)
    BY <1>3, <1>7, <1>8
  <1>17. SnapshotSound(s)
    BY <1>7, <1>12, <1>13, <1>14, <1>15, <1>16 DEF SnapshotSound
  <1> QED BY <1>2, <1>6, <1>7, <1>13, <1>16, <1>17

\* The files with that snapshot.
LEMMA AdvanceMoves ==
  ASSUME TypeOK, p08 \in Seq(Turns), EventsOnce, NEW f, FilesSound(f), f.temporal # Absent
  PROVE  LET g == [f EXCEPT !.temporal = Advanced(f)] IN
         /\ FilesSound(g)
         /\ g.temporal # Absent
         /\ g.temporal.head = metadata.head
         /\ g.next = f.next
  <1>1. PICK s : s = Advanced(f)
    OBVIOUS
  <1>2. /\ s \in TemporalSnapshot /\ s.head = metadata.head /\ SnapshotSound(s)
        /\ f.temporal.cursor =< s.cursor
    BY <1>1, AdvancedIsSound
  <1>3. f \in Files
    BY DEF FilesSound
  <1>4. PICK g : g = [f EXCEPT !.temporal = s]
    OBVIOUS
  <1>5. g \in Files /\ g.temporal = s /\ g.index = f.index /\ g.next = f.next
    BY <1>2, <1>3, <1>4, FileFields
  <1>6. s # Absent
    BY <1>2, FileAssumption
  <1>7. Moved(f, g)
    BY <1>2, <1>5, <1>6 DEF Moved
  <1>8. FilesSound(g)
    BY <1>7, MoveKeepsSound
  <1> QED BY <1>1, <1>2, <1>4, <1>5, <1>6, <1>8

\* Building a context leaves sound files, and a sidecar only when a write may fail.
LEMMA ContextFilesSound ==
  ASSUME TypeOK, p08 \in Seq(Turns), EventsOnce, NEW f, FilesSound(f), f.temporal # Absent,
         NEW g \in ContextFiles(f) \cup {f}
  PROVE  /\ FilesSound(g)
         /\ g.temporal # Absent
         /\ ~brittle => g.next = f.next
  <1> DEFINE h == [f EXCEPT !.temporal = Advanced(f)]
  <1>1. /\ FilesSound(h) /\ h.temporal # Absent /\ h.temporal.head = metadata.head
        /\ h.next = f.next
    BY AdvanceMoves
  <1>2. \/ g = f
        \/ g = h
        \/ g = [h EXCEPT !.index = Closure(h)]
        \/ g \in IndexLeft(h) /\ brittle
    BY DEF ContextFiles
  <1> HIDE DEF h
  <1>3. CASE g = f
    BY <1>3
  <1>4. CASE g = h
    BY <1>1, <1>4
  <1>5. CASE g = [h EXCEPT !.index = Closure(h)]
    <2>1. h \in Files /\ h.temporal \in TemporalSnapshot
      BY <1>1, FileFields DEF FilesSound
    <2>2. PICK y \in Snapshot : y = Closure(h)
      BY <2>1 DEF Closure, Snapshot, TypeOK
    <2>3. /\ g \in Files /\ g.temporal = h.temporal /\ g.index = y /\ g.next = h.next
      BY <1>5, <2>1, <2>2 DEF Files
    <2>4. Closure(g) = y
      BY <2>2, <2>3 DEF Closure
    <2>5. h.temporal.cursor =< h.temporal.cursor
      BY <2>1 DEF TemporalSnapshot
    <2>6. Moved(h, g)
      BY <1>1, <2>3, <2>4, <2>5 DEF Moved, FilesSound
    <2> QED BY <1>1, <2>3, <2>6, MoveKeepsSound
  <1>6. CASE g \in IndexLeft(h) /\ brittle
    <2>1. Moved(h, g) /\ g.temporal = h.temporal
      BY <1>1, <1>6, CutShortMoves
    <2> QED BY <1>1, <1>6, <2>1, MoveKeepsSound
  <1> QED BY <1>2, <1>3, <1>4, <1>5, <1>6

\* ... and dying in it leaves sound files as well.
LEMMA ContextKilledSound ==
  ASSUME TypeOK, p08 \in Seq(Turns), EventsOnce, NEW f, FilesSound(f), f.temporal # Absent,
         NEW g \in ContextKilled(f)
  PROVE  FilesSound(g) /\ (f.next = Absent => Current(g))
  <1> DEFINE h == [f EXCEPT !.temporal = Advanced(f)]
  <1>1. /\ FilesSound(h) /\ h.temporal # Absent /\ h.temporal.head = metadata.head
        /\ h.next = f.next
    BY AdvanceMoves
  <1>2. g = [f EXCEPT !.tmp = TRUE] \/ g = h \/ g \in IndexLeft(h)
    BY DEF ContextKilled
  <1> HIDE DEF h
  <1>3. CASE g = [f EXCEPT !.tmp = TRUE]
    <2>1. f \in Files
      BY DEF FilesSound
    <2>2. /\ g \in Files /\ g.temporal = f.temporal /\ g.index = f.index /\ g.next = f.next
      BY <1>3, <2>1, FileFields
    <2> QED BY <2>2 DEF FilesSound, Current, Whole
  <1>4. CASE g = h
    BY <1>1, <1>4 DEF Current, Whole
  <1>5. CASE g \in IndexLeft(h)
    <2>1. Moved(h, g) /\ g.temporal = h.temporal /\ Current(g)
      BY <1>1, <1>5, CutShortMoves
    <2> QED BY <1>1, <2>1, MoveKeepsSound
  <1> QED BY <1>2, <1>3, <1>4, <1>5

--------------------------------------------------------------------------------
(* Every step keeps the invariant: the derived files. *)

\* A step that writes a derived file leaves the archive and the temporal events alone.
LEMMA FileSteps ==
  ASSUME MemoryInv, MemoryNext
  PROVE  \/ /\ files' = files
            /\ gateway.at = "down" => UNCHANGED archiveVars /\ gateway'.at = "down"
         \/ /\ UNCHANGED <<archiveVars, p08>>
            /\ \E g :
                  /\ g = files' /\ FilesSound(g)
                  /\ gateway'.at # "down" => g.temporal # Absent
                  /\ ~brittle => /\ gateway'.at # "down" => g.next = Absent
                                 /\ Current(g)
  <1>1. /\ TypeOK /\ p08 \in Seq(Turns) /\ EventsOnce /\ FilesSound(files)
        /\ SidecarCurrent
        /\ gateway.at # "down" => files.temporal # Absent
    BY DEF MemoryInv, MemoryTypeOK, InWork
  <1>2. Accepting.at = "accept" /\ Down.at = "down"
    BY DEF Accepting, Down
  <1>3. CASE Initialize
    <2>1. PICK g \in Derived(files, TRUE) : g = files'
      BY <1>3 DEF Initialize
    <2>2. FilesSound(g) /\ g.temporal # Absent /\ g.next = Absent
      BY <1>1, <2>1, DerivedSound
    <2> QED BY <1>1, <1>3, <2>1, <2>2 DEF Initialize, Current, Whole
  <1>4. CASE InitializeStops
    <2>1. PICK g \in Killed(files, TRUE) : g = files'
      BY <1>4 DEF InitializeStops
    <2>2. FilesSound(g) /\ (Current(files) => Current(g))
      BY <1>1, <2>1, KilledSound
    <2> QED BY <1>1, <1>4, <2>1, <2>2 DEF InitializeStops, SidecarCurrent
  <1>5. CASE BuildContext
    <2>1. PICK g \in ContextFiles(files) \cup {files} : g = files'
      BY <1>5 DEF BuildContext
    <2>2. gateway.at = "context" /\ UNCHANGED <<archiveVars, p08>>
      BY <1>5 DEF BuildContext
    <2>3. FilesSound(g) /\ g.temporal # Absent /\ (~brittle => g.next = files.next)
      BY <1>1, <2>1, <2>2, ContextFilesSound
    <2> QED BY <1>1, <2>1, <2>2, <2>3 DEF SidecarCurrent, Current, Whole
  <1>6. CASE ContextCrash
    <2>1. PICK g \in ContextKilled(files) : g = files'
      BY <1>6 DEF ContextCrash
    <2>2. gateway.at = "context" /\ UNCHANGED <<archiveVars, p08>> /\ gateway' = Down
      BY <1>6 DEF ContextCrash, Dies
    <2>3. FilesSound(g) /\ (files.next = Absent => Current(g))
      BY <1>1, <2>1, <2>2, ContextKilledSound
    <2> QED BY <1>1, <1>2, <2>1, <2>2, <2>3 DEF SidecarCurrent
  <1>7. CASE DerivativesWritten
    <2>1. PICK g \in Derived(files, FALSE) : g = files'
      BY <1>7 DEF DerivativesWritten
    <2>2. FilesSound(g) /\ g.temporal # Absent /\ g.next = Absent
      BY <1>1, <2>1, DerivedSound
    <2> QED BY <1>1, <1>7, <2>1, <2>2 DEF DerivativesWritten, Current, Whole
  <1>8. CASE DerivativeGap
    <2>1. PICK g \in Stopped(files, FALSE) : g = files'
      BY <1>8 DEF DerivativeGap
    <2>2. /\ gateway.at = "derive" /\ UNCHANGED <<archiveVars, p08>>
          /\ brittle \/ Derived(files, FALSE) = {}
      BY <1>8 DEF DerivativeGap
    <2>3. /\ FilesSound(g)
          /\ files.temporal # Absent => g.temporal # Absent
          /\ Derived(files, FALSE) = {} => g.next = files.next
      BY <1>1, <2>1, StoppedSound
    <2> QED BY <1>1, <2>1, <2>2, <2>3 DEF SidecarCurrent, Current, Whole
  <1>9. CASE DeriveCrash
    <2>1. PICK g \in Killed(files, FALSE) : g = files'
      BY <1>9 DEF DeriveCrash
    <2>2. gateway' = Down /\ UNCHANGED <<archiveVars, p08>>
      BY <1>9 DEF DeriveCrash, Dies
    <2>3. FilesSound(g) /\ (Current(files) => Current(g))
      BY <1>1, <2>1, KilledSound
    <2> QED BY <1>1, <1>2, <2>1, <2>2, <2>3 DEF SidecarCurrent
  <1>10. CASE Crash \/ TemporalRecorded \/ TurnAbandoned \/ ContextRejected \/ CoreReplies
    BY <1>10 DEF Crash, Dies, TemporalRecorded, TurnAbandoned, ContextRejected, CoreReplies
  <1>11. CASE ReplyPrepared \/ OutcomeRecorded \/ OutcomeRejected \/ OutcomeFails
    BY <1>11 DEF ReplyPrepared, OutcomeRecorded, OutcomeRejected, OutcomeFails
  <1>12. CASE Respond \/ RespondFails \/ ProfileCommitted
    BY <1>12 DEF Respond, RespondFails, ProfileCommitted
  <1>13. CASE \E a \in acks : DeliveryResolved(a) \/ CancellationResolved(a)
    BY <1>13 DEF DeliveryResolved, CancellationResolved
  <1>14. CASE \E t \in Turns :
                 \/ ClaimInbound(t) \/ PluginGivesUp(t) \/ TelegramAccepts(t)
                 \/ PacingCancelled(t) \/ CommitHybridDelivery(t) \/ AckLost(t)
    BY <1>14 DEF ClaimInbound, PluginGivesUp, TelegramAccepts, PacingCancelled,
                 CommitHybridDelivery, AckLost, runtimeVars
  <1> QED BY <1>3, <1>4, <1>5, <1>6, <1>7, <1>8, <1>9, <1>10, <1>11, <1>12, <1>13, <1>14
          DEF MemoryNext, MemoryStep

\* A temporal event is added to those there are.
LEMMA EventAppended ==
  ASSUME p08 \in Seq(Turns), NEW t \in Turns, p08' = Append(p08, t)
  PROVE  /\ p08' \in Seq(Turns)
         /\ Len(p08) \in Nat /\ Len(p08') = Len(p08) + 1
         /\ DOMAIN p08 = 1..Len(p08) /\ DOMAIN p08' = 1..(Len(p08) + 1)
         /\ p08'[Len(p08) + 1] = t
         /\ \A i \in 1..Len(p08) : p08'[i] = p08[i]
  OBVIOUS

\* What the events of P08 do in a step: nothing, or the turn in work is added.
LEMMA EventSteps ==
  ASSUME MemoryInv, MemoryNext
  PROVE  \/ UNCHANGED p08
         \/ /\ gateway.at = "command" /\ gateway.turn \in Turns
            /\ p08' = Append(p08, gateway.turn)
            /\ gateway'.at # "command" /\ claimed' = claimed
  <1>1. gateway.at = "command" => gateway.turn \in Turns
    BY DEF MemoryInv, InWork, MemoryTypeOK, TurnStages
  <1>2. Accepting.at = "accept"
    BY DEF Accepting
  <1>3. gateway \in [at: GatewayAt, turn: Turns \cup {NoTurn}, head: Digest \cup {NoHead}]
    BY DEF MemoryInv, MemoryTypeOK
  <1>4. CASE TemporalRecorded
    BY <1>1, <1>3, <1>4 DEF TemporalRecorded, Goto
  <1>5. CASE TurnAbandoned
    BY <1>1, <1>2, <1>5 DEF TurnAbandoned
  <1>6. CASE Initialize \/ InitializeStops \/ Crash \/ BuildContext \/ ContextRejected
    BY <1>6 DEF Initialize, InitializeStops, Crash, Dies, BuildContext, ContextRejected
  <1>7. CASE \/ ContextCrash \/ CoreReplies \/ ReplyPrepared \/ OutcomeRecorded \/ OutcomeRejected
             \/ OutcomeFails
    BY <1>7 DEF ContextCrash, Dies, CoreReplies, ReplyPrepared, OutcomeRecorded,
                OutcomeRejected, OutcomeFails
  <1>8. CASE \/ Respond \/ RespondFails \/ DerivativesWritten \/ DerivativeGap \/ DeriveCrash
             \/ ProfileCommitted
    BY <1>8 DEF Respond, RespondFails, DerivativesWritten, DerivativeGap, DeriveCrash, Dies,
                ProfileCommitted
  <1>9. CASE \E a \in acks : DeliveryResolved(a) \/ CancellationResolved(a)
    BY <1>9 DEF DeliveryResolved, CancellationResolved
  <1>10. CASE \E t \in Turns :
                 \/ ClaimInbound(t) \/ PluginGivesUp(t) \/ TelegramAccepts(t)
                 \/ PacingCancelled(t) \/ CommitHybridDelivery(t) \/ AckLost(t)
    BY <1>10 DEF ClaimInbound, PluginGivesUp, TelegramAccepts, PacingCancelled,
                 CommitHybridDelivery, AckLost
  <1> QED BY <1>4, <1>5, <1>6, <1>7, <1>8, <1>9, <1>10 DEF MemoryNext, MemoryStep

\* Files stay sound while the archive grows and temporal events are recorded.
LEMMA SoundFilesStay ==
  ASSUME MemoryInv, MemoryNext, NEW f, FilesSound(f)
  PROVE  FilesSound(f)'
  <1>1. TypeOK /\ p08 \in Seq(Turns)
    BY DEF MemoryInv, MemoryTypeOK
  <1>2. /\ Archived \subseteq Archived'
        /\ \A d \in Digest : IsPrefix(d, metadata.head) => IsPrefix(d, metadata'.head)
    BY <1>1, StepsOfArchive, ArchiveGrows DEF MemoryInv
  <1>3. f \in Files
    BY DEF FilesSound
  <1>4. /\ Len(p08) \in Nat /\ Len(p08') \in Nat /\ Len(p08) =< Len(p08')
        /\ \A i \in 1..Len(p08) : p08'[i] = p08[i]
    BY <1>1, EventSteps, EventAppended
  <1>5. ASSUME f.temporal # Absent
        PROVE  SnapshotSound(f.temporal)'
    <2>1. PICK s : s = f.temporal
      OBVIOUS
    <2>2. /\ s \in TemporalSnapshot /\ IsPrefix(s.head, metadata.head) /\ s.cursor =< Len(p08)
          /\ s.resolved \subseteq Archived /\ s.resolved \cap s.blocked = {}
          /\ s.resolved \cup s.blocked = {p08[i] : i \in 1..s.cursor}
      BY <1>5, <2>1 DEF FilesSound, SnapshotSound
    <2>3. s.cursor \in Nat /\ s.head \in Digest
      BY <2>2 DEF TemporalSnapshot
    <2>4. \A i \in 1..s.cursor : p08'[i] = p08[i]
      BY <1>4, <2>2, <2>3
    <2>5. {p08[i] : i \in 1..s.cursor} = {p08'[i] : i \in 1..s.cursor}
      BY <2>4
    <2>6. s.cursor =< Len(p08')
      BY <1>4, <2>2, <2>3
    <2> QED BY <1>2, <2>1, <2>2, <2>3, <2>5, <2>6 DEF SnapshotSound
  <1>6. ASSUME NEW file \in {f.index, f.next}, Whole(file)
        PROVE  Behind(file, f.temporal)'
    <2>1. file.turns \in Digest
      BY <1>3, <1>6, FileFields DEF Whole, Snapshot
    <2> QED BY <1>2, <1>6, <2>1 DEF FilesSound, Behind
  <1> QED BY <1>3, <1>5, <1>6 DEF FilesSound, SnapshotSound, Behind

\* The derived files stay sound, and a sidecar current.
LEMMA FilesKept ==
  ASSUME MemoryInv, MemoryNext
  PROVE  FilesSound(files)' /\ SidecarCurrent'
  <1>1. FilesSound(files) /\ SidecarCurrent /\ brittle' = brittle
    BY DEF MemoryInv, MemoryNext
  <1>2. CASE /\ files' = files
             /\ gateway.at = "down" => UNCHANGED archiveVars /\ gateway'.at = "down"
    <2>1. PICK f : f = files
      OBVIOUS
    <2>2. FilesSound(f)'
      BY <1>1, <2>1, SoundFilesStay
    <2>3. f = files'
      BY <1>2, <2>1
    <2>4. FilesSound(files)'
      BY <2>2, <2>3 DEF FilesSound
    <2>5. SidecarCurrent'
      BY <1>1, <1>2 DEF SidecarCurrent, Current, Whole, Closure, archiveVars
    <2> QED BY <2>4, <2>5
  <1>3. ASSUME UNCHANGED <<archiveVars, p08>>, NEW g, g = files', FilesSound(g),
               ~brittle => /\ gateway'.at # "down" => g.next = Absent
                           /\ Current(g)
        PROVE  FilesSound(files)' /\ SidecarCurrent'
    <2>1. UNCHANGED <<completeTurns, metadata, p08>>
      BY <1>3 DEF archiveVars
    <2>2. FilesSound(files)'
      BY <1>3, <2>1 DEF FilesSound, SnapshotSound, Behind, Archived
    <2>3. SidecarCurrent'
      BY <1>1, <1>3, <2>1 DEF SidecarCurrent, Current, Closure
    <2> QED BY <2>2, <2>3
  <1> QED BY <1>2, <1>3, FileSteps

--------------------------------------------------------------------------------
(* Every step keeps the invariant: the channel and the archive. *)

\* What an operation of the archive does to the turns that are archived or withheld.
SameTurns == Archived' = Archived /\ \A u : Withheld(u)' <=> Withheld(u)
WithholdsTurn(t) == Archived' = Archived /\ \A u : Withheld(u)' <=> Withheld(u) \/ u = t
ArchivesTurn(t) == Archived' = Archived \cup {t} /\ \A u : Withheld(u)' <=> Withheld(u)

\* Preparing a reply, and every step beside the archive, changes neither.
LEMMA TurnsSame ==
  ASSUME UNCHANGED archiveVars \/ \E t, head : Prepare(t, head)
  PROVE  SameTurns
  BY DEF SameTurns, archiveVars, Prepare, Archived, Withheld, Has

\* A cancellation and an abandonment withhold their turn.
LEMMA TurnWithheld ==
  ASSUME NEW t, ResolveCancelled(t) \/ Abandon(t)
  PROVE  WithholdsTurn(t)
  <1>1. Archived' = Archived
    BY DEF ResolveCancelled, Abandon, Archived
  <1>2. CASE ResolveCancelled(t)
    <2>1. PICK event, record :
             /\ event = [turn |-> t, kind |-> "cancelled", digest |-> <<>>]
             /\ record = [turn |-> t, kind |-> "delivery_failed"]
      OBVIOUS
    <2>2. /\ deliveryEvents' = deliveryEvents \cup {event}
          /\ lifecycle' = lifecycle \cup {record}
          /\ event.turn = t /\ event.kind = "cancelled" /\ record.turn = t
      BY <1>2, <2>1 DEF ResolveCancelled
    <2>3. \A u : Has(u, "cancelled")' <=> Has(u, "cancelled") \/ u = t
      BY <2>2, HasAfter
    <2> QED BY <1>1, <2>2, <2>3 DEF WithholdsTurn, Withheld
  <1>3. CASE Abandon(t)
    <2>1. PICK record : record = [turn |-> t, kind |-> "abandoned"]
      OBVIOUS
    <2>2. /\ lifecycle' = lifecycle \cup {record} /\ record.turn = t
          /\ UNCHANGED deliveryEvents
      BY <1>3, <2>1 DEF Abandon
    <2> QED BY <1>1, <2>2 DEF WithholdsTurn, Withheld, Has
  <1> QED BY <1>2, <1>3

\* A delivery archives its turn and withholds none.
LEMMA TurnArchived ==
  ASSUME TypeOK, NEW t \in Turns, ResolveDelivered(t)
  PROVE  ArchivesTurn(t)
  <1>1. Archived' = Archived \cup {t}
    BY ArchivedAfter
  <1>2. PICK event : event = [turn |-> t, kind |-> "delivered",
                              digest |-> TurnDigest([turn |-> t, previous |-> metadata.head])]
    OBVIOUS
  <1>3. /\ deliveryEvents' = deliveryEvents \cup {event} /\ event.kind = "delivered"
        /\ UNCHANGED lifecycle
    BY <1>2 DEF ResolveDelivered
  <1>4. \A u : Has(u, "cancelled")' <=> Has(u, "cancelled")
    BY <1>3, HasAfter
  <1> QED BY <1>1, <1>3, <1>4 DEF ArchivesTurn, Withheld

\* The property in terms of these sets.
LEMMA ShownMeans ==
  ArchiveIsWhatWasShown <=> Archived \subseteq shown /\ \A t \in shown : ~Withheld(t)
  BY DEF ArchiveIsWhatWasShown, Withheld

\* ... and the same after the step.
LEMMA ShownMeansNext ==
  ArchiveIsWhatWasShown' <=> Archived' \subseteq shown' /\ \A t \in shown' : ~Withheld(t)'
  BY DEF ArchiveIsWhatWasShown, Withheld

\* Nothing happens on the channel.
LEMMA ChannelQuiet ==
  ASSUME Reports, ArchiveIsWhatWasShown, SameTurns, UNCHANGED <<channel, acks, shown, claimed>>
  PROVE  Reports' /\ ArchiveIsWhatWasShown'
  <1>1. \A t : Unreported(t)' <=> Unreported(t)
    BY DEF SameTurns, Unreported
  <1> QED BY <1>1, ShownMeans, ShownMeansNext DEF SameTurns, Reports

\* The plugin, or the gateway, is done with a turn that was not shown.
LEMMA TurnClosed ==
  ASSUME Reports, ArchiveIsWhatWasShown, NEW t \in claimed \ shown,
         channel'[t] = "closed", \A u \in Turns : u # t => channel'[u] = channel[u],
         acks' \subseteq acks, UNCHANGED <<shown, claimed>>, SameTurns \/ WithholdsTurn(t)
  PROVE  Reports' /\ ArchiveIsWhatWasShown'
  <1>1. \A u \in Turns : u # t /\ Unreported(u) => Unreported(u)'
    BY DEF SameTurns, WithholdsTurn, Unreported
  <1>2. Reports'
    BY <1>1 DEF Reports
  <1> QED BY <1>2, ShownMeans, ShownMeansNext DEF SameTurns, WithholdsTurn

\* What the channel, its reports and the archive say of a turn stays in agreement.
LEMMA ReportsKept ==
  ASSUME MemoryInv, MemoryNext
  PROVE  Reports' /\ ArchiveIsWhatWasShown'
  <1>1. Reports /\ ArchiveIsWhatWasShown /\ TypeOK
    BY DEF MemoryInv, MemoryTypeOK
  <1>2. /\ channel \in [Turns -> ChannelAt] /\ acks \subseteq Ack
        /\ claimed \subseteq Turns /\ shown \subseteq Turns
    BY DEF MemoryInv, MemoryTypeOK
  <1>3. gateway.at \in TurnStages =>
           /\ gateway.turn \in claimed \ shown
           /\ channel[gateway.turn] \in {"waiting", "closed"}
    BY DEF MemoryInv, InWork
  <1>4. ASSUME NEW t \in Turns, Dismissed(t)
        PROVE  channel'[t] = "closed" /\ \A u \in Turns : u # t => channel'[u] = channel[u]
    BY <1>2, <1>4 DEF Dismissed
  <1>5. CASE \/ Initialize \/ InitializeStops \/ TemporalRecorded \/ BuildContext \/ CoreReplies
             \/ OutcomeRecorded \/ DerivativesWritten \/ DerivativeGap \/ ProfileCommitted
    <2>1. UNCHANGED archiveVars /\ UNCHANGED <<channel, acks, shown, claimed>>
      BY <1>5 DEF Initialize, InitializeStops, TemporalRecorded, BuildContext, CoreReplies,
                  OutcomeRecorded, DerivativesWritten, DerivativeGap, ProfileCommitted, pluginVars
    <2> QED BY <1>1, <2>1, TurnsSame, ChannelQuiet
  <1>6. CASE ReplyPrepared
    <2>1. /\ Prepare(gateway.turn, gateway.head)
          /\ UNCHANGED <<channel, acks, shown, claimed>>
      BY <1>6 DEF ReplyPrepared, pluginVars
    <2> QED BY <1>1, <2>1, TurnsSame, ChannelQuiet
  <1>7. CASE Crash \/ ContextCrash \/ DeriveCrash
    <2>1. /\ UNCHANGED archiveVars /\ UNCHANGED <<acks, shown, claimed>>
          /\ IF gateway.turn \in Turns /\ channel[gateway.turn] = "waiting"
             THEN Dismissed(gateway.turn) ELSE UNCHANGED channel
      BY <1>7 DEF Crash, ContextCrash, DeriveCrash, Dies
    <2>2. SameTurns
      BY <2>1, TurnsSame
    <2>3. CASE gateway.turn \in Turns /\ channel[gateway.turn] = "waiting"
      <3>1. gateway.turn \in claimed \ shown
        BY <1>1, <2>3 DEF Reports
      <3>2. /\ channel'[gateway.turn] = "closed"
            /\ \A u \in Turns : u # gateway.turn => channel'[u] = channel[u]
        BY <1>4, <2>1, <2>3
      <3> QED BY <1>1, <2>1, <2>2, <3>1, <3>2, TurnClosed
    <2>4. CASE ~(gateway.turn \in Turns /\ channel[gateway.turn] = "waiting")
      BY <1>1, <2>1, <2>2, <2>4, ChannelQuiet
    <2> QED BY <2>3, <2>4
  <1>8. CASE TurnAbandoned \/ OutcomeRejected \/ ContextRejected \/ OutcomeFails
    <2>1. /\ gateway.at \in TurnStages
          /\ Dismissed(gateway.turn)
          /\ UNCHANGED <<acks, shown, claimed>>
          /\ \/ UNCHANGED archiveVars
             \/ ResolveCancelled(gateway.turn) \/ Abandon(gateway.turn)
      BY <1>8 DEF TurnAbandoned, OutcomeRejected, ContextRejected, OutcomeFails, TurnStages
    <2>2. SameTurns \/ WithholdsTurn(gateway.turn)
      BY <2>1, TurnsSame, TurnWithheld
    <2>3. gateway.turn \in claimed \ shown /\ gateway.turn \in Turns
      BY <1>2, <1>3, <2>1
    <2>4. /\ channel'[gateway.turn] = "closed"
          /\ \A u \in Turns : u # gateway.turn => channel'[u] = channel[u]
      BY <1>4, <2>1, <2>3
    <2> QED BY <1>1, <2>1, <2>2, <2>3, <2>4, TurnClosed
  <1>9. CASE RespondFails
    <2>1. /\ gateway.at \in TurnStages /\ channel[gateway.turn] = "closed"
          /\ ResolveCancelled(gateway.turn)
          /\ UNCHANGED <<channel, acks, shown, claimed>>
      BY <1>9 DEF RespondFails, TurnStages, pluginVars
    <2>2. WithholdsTurn(gateway.turn)
      BY <2>1, TurnWithheld
    <2> QED BY <1>1, <1>3, <2>1, <2>2, TurnClosed
  <1>10. CASE Respond
    <2>1. /\ UNCHANGED archiveVars /\ UNCHANGED <<acks, shown, claimed>>
          /\ channel[gateway.turn] = "waiting"
          /\ channel' = [channel EXCEPT ![gateway.turn] = "replied"]
          /\ gateway.turn \in claimed \ shown
      BY <1>3, <1>10 DEF Respond, TurnStages
    <2>2. SameTurns
      BY <2>1, TurnsSame
    <2>3. \A t : Unreported(t)' <=> Unreported(t)
      BY <2>1, <2>2 DEF SameTurns, Unreported
    <2>4. Reports'
      BY <1>1, <1>2, <2>1, <2>3 DEF Reports
    <2> QED BY <1>1, <2>1, <2>2, <2>4, ShownMeans, ShownMeansNext DEF SameTurns
  <1>11. ASSUME NEW a \in acks, DeliveryResolved(a)
         PROVE  Reports' /\ ArchiveIsWhatWasShown'
    <2>1. /\ ResolveDelivered(a.turn) /\ a.outcome = "delivered" /\ acks' = acks \ {a}
          /\ UNCHANGED <<channel, shown, claimed>>
      BY <1>11 DEF DeliveryResolved
    <2>2. a.turn \in Turns /\ a.turn \in shown
      BY <1>1, <1>2, <2>1 DEF Ack, Reports
    <2>3. ArchivesTurn(a.turn)
      BY <1>1, <2>1, <2>2, TurnArchived
    <2>4. \A t : Unreported(t) => Unreported(t)'
      BY <2>1, <2>3 DEF ArchivesTurn, Unreported
    <2>5. Reports'
      BY <1>1, <2>1, <2>4 DEF Reports
    <2> QED BY <1>1, <2>1, <2>2, <2>3, <2>5, ShownMeans, ShownMeansNext DEF ArchivesTurn
  <1>12. ASSUME NEW a \in acks, CancellationResolved(a)
         PROVE  Reports' /\ ArchiveIsWhatWasShown'
    <2>1. /\ ResolveCancelled(a.turn) /\ a.outcome = "cancelled" /\ acks' = acks \ {a}
          /\ UNCHANGED <<channel, shown, claimed>>
      BY <1>12 DEF CancellationResolved
    <2>2. a.turn \in Turns /\ a.turn \notin shown /\ channel[a.turn] = "closed"
      BY <1>1, <1>2, <2>1 DEF Ack, Reports, Unreported
    <2>3. a.turn \in claimed
      BY <1>1, <2>2 DEF Reports
    <2>4. WithholdsTurn(a.turn)
      BY <2>1, TurnWithheld
    <2> QED BY <1>1, <2>1, <2>2, <2>3, <2>4, TurnClosed
  <1>13. ASSUME NEW t \in Turns,
                \/ ClaimInbound(t) \/ PluginGivesUp(t) \/ TelegramAccepts(t)
                \/ PacingCancelled(t) \/ CommitHybridDelivery(t) \/ AckLost(t)
         PROVE  Reports' /\ ArchiveIsWhatWasShown'
    <2>1. UNCHANGED archiveVars
      BY <1>13 DEF ClaimInbound, PluginGivesUp, TelegramAccepts, PacingCancelled,
                   CommitHybridDelivery, AckLost
    <2>2. SameTurns
      BY <2>1, TurnsSame
    <2>3. CASE ClaimInbound(t)
      <3>1. /\ t \notin claimed /\ claimed' = claimed \cup {t}
            /\ channel' = [channel EXCEPT ![t] = "waiting"]
            /\ UNCHANGED <<acks, shown>>
        BY <2>3 DEF ClaimInbound
      <3>2. \A u : Unreported(u)' <=> Unreported(u)
        BY <2>2, <3>1 DEF SameTurns, Unreported
      <3>3. Reports'
        BY <1>1, <1>2, <3>1, <3>2 DEF Reports
      <3> QED BY <1>1, <2>2, <3>1, <3>3, ShownMeans, ShownMeansNext DEF SameTurns
    <2>4. CASE PluginGivesUp(t)
      <3>1. /\ channel[t] \in {"waiting", "replied"}
            /\ channel' = [channel EXCEPT ![t] = "closed"]
            /\ UNCHANGED <<acks, shown, claimed>>
        BY <2>4 DEF PluginGivesUp, Moves
      <3>2. t \in claimed \ shown
        BY <1>1, <3>1 DEF Reports
      <3>3. channel'[t] = "closed" /\ \A u \in Turns : u # t => channel'[u] = channel[u]
        BY <1>2, <3>1
      <3> QED BY <1>1, <2>2, <3>1, <3>2, <3>3, TurnClosed
    <2>5. CASE TelegramAccepts(t)
      <3>1. /\ channel[t] = "replied" /\ channel' = [channel EXCEPT ![t] = "shown"]
            /\ shown' = shown \cup {t} /\ UNCHANGED <<acks, claimed>>
        BY <2>5 DEF TelegramAccepts, Moves
      <3>2. \A u : Unreported(u)' <=> Unreported(u)
        BY <2>2, <3>1 DEF SameTurns, Unreported
      <3>3. Unreported(t)
        BY <1>1, <3>1 DEF Reports
      <3>4. \A a \in acks : a.turn # t
        BY <3>3 DEF Unreported
      <3>5. Reports'
        BY <1>1, <1>2, <3>1, <3>2, <3>4 DEF Reports
      <3> QED BY <1>1, <2>2, <3>1, <3>3, <3>5, ShownMeans, ShownMeansNext
              DEF SameTurns, Unreported
    <2>6. CASE PacingCancelled(t)
      <3>1. PICK ack : ack = [turn |-> t, outcome |-> "cancelled"]
        OBVIOUS
      <3>2. /\ channel[t] = "replied" /\ channel' = [channel EXCEPT ![t] = "closed"]
            /\ acks' = acks \cup {ack} /\ UNCHANGED <<shown, claimed>>
            /\ ack.turn = t /\ ack.outcome = "cancelled"
        BY <2>6, <3>1 DEF PacingCancelled, Moves
      <3>3. \A u : u # t /\ Unreported(u) => Unreported(u)'
        BY <2>2, <3>2 DEF SameTurns, Unreported
      <3>4. Reports'
        BY <1>1, <1>2, <3>2, <3>3 DEF Reports
      <3> QED BY <1>1, <2>2, <3>2, <3>4, ShownMeans, ShownMeansNext DEF SameTurns
    <2>7. CASE CommitHybridDelivery(t)
      <3>1. PICK ack : ack = [turn |-> t, outcome |-> "delivered"]
        OBVIOUS
      <3>2. /\ channel[t] = "shown" /\ channel' = [channel EXCEPT ![t] = "closed"]
            /\ acks' = acks \cup {ack} /\ UNCHANGED <<shown, claimed>>
            /\ ack.turn = t /\ ack.outcome = "delivered"
        BY <2>7, <3>1 DEF CommitHybridDelivery, Moves
      <3>3. \A u : u # t /\ Unreported(u) => Unreported(u)'
        BY <2>2, <3>2 DEF SameTurns, Unreported
      <3>4. Reports'
        BY <1>1, <1>2, <3>2, <3>3 DEF Reports
      <3> QED BY <1>1, <2>2, <3>2, <3>4, ShownMeans, ShownMeansNext DEF SameTurns
    <2>8. CASE AckLost(t)
      <3>1. /\ channel[t] = "shown" /\ channel' = [channel EXCEPT ![t] = "closed"]
            /\ UNCHANGED <<acks, shown, claimed>>
        BY <2>8 DEF AckLost, Moves
      <3>2. \A u : Unreported(u)' <=> Unreported(u)
        BY <2>2, <3>1 DEF SameTurns, Unreported
      <3>3. Reports'
        BY <1>1, <1>2, <3>1, <3>2 DEF Reports
      <3> QED BY <1>1, <2>2, <3>1, <3>3, ShownMeans, ShownMeansNext DEF SameTurns
    <2> QED BY <1>13, <2>3, <2>4, <2>5, <2>6, <2>7, <2>8
  <1> QED BY <1>5, <1>6, <1>7, <1>8, <1>9, <1>10, <1>11, <1>12, <1>13 DEF MemoryNext, MemoryStep

--------------------------------------------------------------------------------
(* Every step keeps the invariant: the work of the gateway. *)

\* What the gateway turns to in a step: nothing in particular, the next stage of the turn
\* it works at, a new turn, or a delivery that was reported.
LEMMA GatewaySteps ==
  ASSUME MemoryInv, MemoryNext
  PROVE  \/ gateway'.at \in {"down", "accept"}
         \/ /\ gateway.at \in TurnStages /\ gateway'.at \in TurnStages
            /\ gateway'.turn = gateway.turn /\ gateway'.at # "command"
            /\ UNCHANGED <<channel, shown, claimed>>
         \/ /\ gateway.at \in {"derive", "profile"} /\ gateway'.at = "profile"
            /\ gateway'.turn = gateway.turn
         \/ \E t \in Turns :
               /\ ClaimInbound(t) /\ gateway'.turn = t
               /\ gateway'.at \in {"command", "context"}
         \/ \E a \in acks :
               /\ DeliveryResolved(a) /\ gateway'.turn = a.turn /\ gateway'.at = "derive"
         \/ /\ gateway' = gateway /\ UNCHANGED <<p08, claimed>>
            /\ UNCHANGED archiveVars \/ \E a \in acks : CancellationResolved(a)
            /\ \/ UNCHANGED <<channel, shown>>
               \/ \E t \in Turns :
                     \/ PluginGivesUp(t) \/ TelegramAccepts(t) \/ PacingCancelled(t)
                     \/ CommitHybridDelivery(t) \/ AckLost(t)
  <1>1. gateway \in [at: GatewayAt, turn: Turns \cup {NoTurn}, head: Digest \cup {NoHead}]
    BY DEF MemoryInv, MemoryTypeOK
  <1>2. Accepting.at = "accept" /\ Down.at = "down"
    BY DEF Accepting, Down
  <1>3. CASE \/ Initialize \/ TurnAbandoned \/ ContextRejected \/ OutcomeRejected \/ OutcomeFails
             \/ Respond \/ RespondFails \/ ProfileCommitted
    BY <1>2, <1>3 DEF Initialize, TurnAbandoned, ContextRejected, OutcomeRejected, OutcomeFails,
                      Respond, RespondFails, ProfileCommitted
  <1>4. CASE InitializeStops
    BY <1>4 DEF InitializeStops
  <1>5. CASE Crash \/ ContextCrash \/ DeriveCrash
    BY <1>2, <1>5 DEF Crash, ContextCrash, DeriveCrash, Dies
  <1>6. CASE TemporalRecorded \/ CoreReplies \/ ReplyPrepared \/ OutcomeRecorded
    BY <1>1, <1>6 DEF TemporalRecorded, CoreReplies, ReplyPrepared, OutcomeRecorded, Goto,
                      TurnStages, pluginVars
  <1>7. CASE BuildContext
    BY <1>1, <1>7 DEF BuildContext, TurnStages, pluginVars
  <1>8. CASE DerivativesWritten \/ DerivativeGap
    BY <1>1, <1>8 DEF DerivativesWritten, DerivativeGap, Goto
  <1>9. ASSUME NEW t \in Turns, ClaimInbound(t)
        PROVE  gateway'.turn = t /\ gateway'.at \in {"command", "context"}
    BY <1>9 DEF ClaimInbound, Accepting
  <1>10. ASSUME NEW a \in acks, DeliveryResolved(a)
         PROVE  gateway'.turn = a.turn /\ gateway'.at = "derive"
    BY <1>10 DEF DeliveryResolved, Accepting
  <1>11. ASSUME NEW a \in acks, CancellationResolved(a)
         PROVE  UNCHANGED <<gateway, p08, claimed, channel, shown>>
    BY <1>11 DEF CancellationResolved
  <1>12. ASSUME NEW t \in Turns,
                \/ PluginGivesUp(t) \/ TelegramAccepts(t) \/ PacingCancelled(t)
                \/ CommitHybridDelivery(t) \/ AckLost(t)
         PROVE  UNCHANGED <<gateway, p08, claimed>> /\ UNCHANGED archiveVars
    BY <1>12 DEF PluginGivesUp, TelegramAccepts, PacingCancelled, CommitHybridDelivery,
                 AckLost, runtimeVars
  <1> QED BY <1>3, <1>4, <1>5, <1>6, <1>7, <1>8, <1>9, <1>10, <1>11, <1>12
          DEF MemoryNext, MemoryStep

\* A turn, or a delivery, stays in work until the gateway is done with it.
LEMMA InWorkKept ==
  ASSUME MemoryInv, MemoryNext
  PROVE  InWork'
  <1>1. InWork /\ Reports /\ EventsOnce /\ TypeOK
    BY DEF MemoryInv, MemoryTypeOK
  <1>2. /\ channel \in [Turns -> ChannelAt] /\ claimed \subseteq Turns /\ shown \subseteq Turns
    BY DEF MemoryInv, MemoryTypeOK
  <1>3. Archived \subseteq Archived'
    BY <1>1, StepsOfArchive, ArchiveGrows DEF MemoryInv
  <1>4. gateway'.at # "down" => files'.temporal # Absent
    BY <1>1, FileSteps DEF InWork
  <1> DEFINE Turn == gateway'.at \in TurnStages =>
                        /\ gateway'.turn \in claimed' \ shown'
                        /\ channel'[gateway'.turn] \in {"waiting", "closed"}
             Event == gateway'.at = "command" => \A i \in DOMAIN p08' : p08'[i] # gateway'.turn
             Delivery == gateway'.at \in {"derive", "profile"} => gateway'.turn \in Archived'
  <1>5. ASSUME gateway'.at \in {"down", "accept"}
        PROVE  Turn /\ Event /\ Delivery
    BY <1>5 DEF TurnStages
  <1>6. ASSUME gateway.at \in TurnStages, gateway'.at \in TurnStages,
               gateway'.turn = gateway.turn, gateway'.at # "command",
               UNCHANGED <<channel, shown, claimed>>
        PROVE  Turn /\ Event /\ Delivery
    BY <1>1, <1>6 DEF InWork, TurnStages
  <1>7. ASSUME gateway.at \in {"derive", "profile"}, gateway'.at = "profile",
               gateway'.turn = gateway.turn
        PROVE  Turn /\ Event /\ Delivery
    BY <1>1, <1>3, <1>7 DEF InWork, TurnStages
  <1>8. ASSUME NEW t \in Turns, ClaimInbound(t), gateway'.turn = t,
               gateway'.at \in {"command", "context"}
        PROVE  Turn /\ Event /\ Delivery
    <2>1. /\ t \notin claimed /\ claimed' = claimed \cup {t} /\ UNCHANGED <<shown, p08>>
          /\ channel' = [channel EXCEPT ![t] = "waiting"]
      BY <1>8 DEF ClaimInbound
    <2>2. t \notin shown /\ channel'[t] = "waiting"
      BY <1>1, <1>2, <2>1 DEF Reports
    <2>3. \A i \in DOMAIN p08 : p08[i] # t
      BY <1>1, <2>1 DEF EventsOnce
    <2> QED BY <1>8, <2>1, <2>2, <2>3
  <1>9. ASSUME NEW a \in acks, DeliveryResolved(a), gateway'.turn = a.turn,
               gateway'.at = "derive"
        PROVE  Turn /\ Event /\ Delivery
    <2>1. a.turn \in Turns
      BY DEF MemoryInv, MemoryTypeOK, Ack
    <2>2. ResolveDelivered(a.turn)
      BY <1>9 DEF DeliveryResolved
    <2>3. a.turn \in Archived'
      BY <1>1, <2>1, <2>2, ArchivedAfter
    <2> QED BY <1>9, <2>3 DEF TurnStages
  <1>10. ASSUME gateway' = gateway, UNCHANGED <<p08, claimed>>,
                \/ UNCHANGED <<channel, shown>>
                \/ \E t \in Turns :
                      \/ PluginGivesUp(t) \/ TelegramAccepts(t) \/ PacingCancelled(t)
                      \/ CommitHybridDelivery(t) \/ AckLost(t)
         PROVE  Turn /\ Event /\ Delivery
    <2>1. Event /\ Delivery
      BY <1>1, <1>3, <1>10 DEF InWork
    <2>2. ASSUME UNCHANGED <<channel, shown>>
          PROVE  Turn
      BY <1>1, <1>10, <2>2 DEF InWork
    <2>3. ASSUME NEW t \in Turns,
                 \/ PluginGivesUp(t) \/ TelegramAccepts(t) \/ PacingCancelled(t)
                 \/ CommitHybridDelivery(t) \/ AckLost(t)
          PROVE  Turn
      <3>1. \/ /\ channel' = [channel EXCEPT ![t] = "closed"]
               /\ shown' = shown
            \/ /\ channel[t] = "replied" /\ channel' = [channel EXCEPT ![t] = "shown"]
               /\ shown' = shown \cup {t}
        BY <2>3 DEF PluginGivesUp, TelegramAccepts, PacingCancelled, CommitHybridDelivery,
                    AckLost, Moves
      <3> QED BY <1>1, <1>2, <1>10, <3>1 DEF InWork
    <2> QED BY <1>10, <2>1, <2>2, <2>3
  <1>11. Turn /\ Event /\ Delivery
    BY <1>5, <1>6, <1>7, <1>8, <1>9, <1>10, GatewaySteps
  <1> QED BY <1>4, <1>11 DEF InWork

\* Every temporal command is recorded once.
LEMMA EventsKept ==
  ASSUME MemoryInv, MemoryNext
  PROVE  EventsOnce' /\ p08' \in Seq(Turns)
  <1>1. EventsOnce /\ p08 \in Seq(Turns) /\ InWork
    BY DEF MemoryInv, MemoryTypeOK
  <1>2. claimed \subseteq claimed'
    <2>1. CASE \E t \in Turns : ClaimInbound(t)
      BY <2>1 DEF ClaimInbound
    <2>2. CASE ~\E t \in Turns : ClaimInbound(t)
      <3>1. claimed' = claimed
        BY <2>2 DEF MemoryNext, MemoryStep, Initialize, InitializeStops, Crash, Dies,
             TemporalRecorded, TurnAbandoned, BuildContext, ContextRejected, ContextCrash,
             CoreReplies, ReplyPrepared, OutcomeRecorded, OutcomeRejected, OutcomeFails, Respond,
             RespondFails, DeliveryResolved, CancellationResolved, DerivativesWritten,
             DerivativeGap, DeriveCrash, ProfileCommitted, PluginGivesUp, TelegramAccepts,
             PacingCancelled, CommitHybridDelivery, AckLost
      <3> QED BY <3>1
    <2> QED BY <2>1, <2>2
  <1>3. CASE UNCHANGED p08
    BY <1>1, <1>2, <1>3 DEF EventsOnce
  <1>4. CASE /\ gateway.at = "command" /\ gateway.turn \in Turns
             /\ p08' = Append(p08, gateway.turn)
    <2>1. PICK t \in Turns : t = gateway.turn
      BY <1>4
    <2>2. /\ p08' \in Seq(Turns) /\ Len(p08) \in Nat
          /\ DOMAIN p08 = 1..Len(p08) /\ DOMAIN p08' = 1..(Len(p08) + 1)
          /\ p08'[Len(p08) + 1] = t
          /\ \A i \in 1..Len(p08) : p08'[i] = p08[i]
      BY <1>1, <1>4, <2>1, EventAppended
    <2>3. t \in claimed /\ \A i \in DOMAIN p08 : p08[i] # t
      BY <1>1, <1>4, <2>1 DEF InWork, TurnStages
    <2>4. \A i \in DOMAIN p08' : i = Len(p08) + 1 \/ i \in DOMAIN p08
      BY <2>2
    <2>5. \A i \in DOMAIN p08' : p08'[i] \in claimed
      BY <1>1, <2>2, <2>3, <2>4 DEF EventsOnce
    <2>6. \A i, j \in DOMAIN p08' : p08'[i] = p08'[j] => i = j
      BY <1>1, <2>2, <2>3, <2>4 DEF EventsOnce
    <2> QED BY <1>2, <2>2, <2>5, <2>6 DEF EventsOnce
  <1> QED BY <1>3, <1>4, EventSteps

--------------------------------------------------------------------------------
(* Every step keeps the invariant: the profile changes. *)

\* A step stages the request of a turn that is being prepared, forgets requests, or writes
\* one that was staged to the diary.
LEMMA DiarySteps ==
  ASSUME MemoryNext
  PROVE  \/ diary' = diary /\ staged' \subseteq staged
         \/ /\ diary' = diary /\ gateway.at = "prepare"
            /\ staged' = staged \cup ({gateway.turn} \cap Requests)
         \/ /\ gateway.at = "profile" /\ gateway.turn \in staged
            /\ staged' = staged \ {gateway.turn} /\ diary' = Append(diary, gateway.turn)
  <1>1. CASE ReplyPrepared
    BY <1>1 DEF ReplyPrepared
  <1>2. CASE ProfileCommitted
    BY <1>2 DEF ProfileCommitted
  <1>3. CASE \/ Initialize \/ InitializeStops \/ Crash \/ ContextCrash \/ DeriveCrash
             \/ OutcomeRejected \/ RespondFails
    BY <1>3 DEF Initialize, InitializeStops, Crash, ContextCrash, DeriveCrash, Dies,
                OutcomeRejected, RespondFails
  <1>4. CASE \/ TemporalRecorded \/ TurnAbandoned \/ BuildContext \/ ContextRejected
             \/ CoreReplies \/ OutcomeRecorded \/ OutcomeFails \/ Respond
             \/ DerivativesWritten \/ DerivativeGap
    BY <1>4 DEF TemporalRecorded, TurnAbandoned, BuildContext, ContextRejected, CoreReplies,
                OutcomeRecorded, OutcomeFails, Respond, DerivativesWritten, DerivativeGap
  <1>5. CASE \E a \in acks : DeliveryResolved(a) \/ CancellationResolved(a)
    BY <1>5 DEF DeliveryResolved, CancellationResolved
  <1>6. CASE \E t \in Turns :
                 \/ ClaimInbound(t) \/ PluginGivesUp(t) \/ TelegramAccepts(t)
                 \/ PacingCancelled(t) \/ CommitHybridDelivery(t) \/ AckLost(t)
    BY <1>6 DEF ClaimInbound, PluginGivesUp, TelegramAccepts, PacingCancelled,
                CommitHybridDelivery, AckLost, runtimeVars
  <1> QED BY <1>1, <1>2, <1>3, <1>4, <1>5, <1>6 DEF MemoryNext, MemoryStep

\* A request is written once, after its turn was archived: it is staged before its reply
\* leaves, and what is staged is not in the diary.
LEMMA ProfileKept ==
  ASSUME MemoryInv, MemoryNext
  PROVE  ProfileAppliedOnce' /\ staged' \subseteq Requests /\ diary' \in Seq(Turns)
  <1>1. /\ ProfileAppliedOnce /\ staged \subseteq Requests /\ diary \in Seq(Turns)
        /\ InWork /\ ArchiveIsWhatWasShown /\ TypeOK
    BY DEF MemoryInv, MemoryTypeOK
  <1>2. Archived \subseteq Archived'
    BY <1>1, StepsOfArchive, ArchiveGrows DEF MemoryInv
  <1>3. CASE diary' = diary /\ staged' \subseteq staged
    BY <1>1, <1>2, <1>3 DEF ProfileAppliedOnce
  <1>4. CASE /\ diary' = diary /\ gateway.at = "prepare"
             /\ staged' = staged \cup ({gateway.turn} \cap Requests)
    <2>1. gateway.turn \notin Archived
      BY <1>1, <1>4 DEF InWork, TurnStages, ArchiveIsWhatWasShown
    <2> QED BY <1>1, <1>2, <1>4, <2>1 DEF ProfileAppliedOnce
  <1>5. CASE /\ gateway.at = "profile" /\ gateway.turn \in staged
             /\ staged' = staged \ {gateway.turn} /\ diary' = Append(diary, gateway.turn)
    <2>1. PICK t : t = gateway.turn
      OBVIOUS
    <2>2. t \in staged /\ t \in Requests /\ t \in Turns /\ t \in Archived
      BY <1>1, <1>5, <2>1, KindAssumption DEF InWork
    <2>3. /\ diary' \in Seq(Turns) /\ Len(diary) \in Nat
          /\ DOMAIN diary = 1..Len(diary) /\ DOMAIN diary' = 1..(Len(diary) + 1)
          /\ diary'[Len(diary) + 1] = t
          /\ \A i \in 1..Len(diary) : diary'[i] = diary[i]
      BY <1>1, <1>5, <2>1, <2>2
    <2>4. \A i \in DOMAIN diary : diary[i] # t /\ diary[i] \in (Requests \cap Archived) \ staged
      BY <1>1, <2>2 DEF ProfileAppliedOnce
    <2>5. \A i \in DOMAIN diary' : i = Len(diary) + 1 \/ i \in DOMAIN diary
      BY <2>3
    <2>6. \A i, j \in DOMAIN diary' : diary'[i] = diary'[j] => i = j
      BY <1>1, <2>3, <2>4, <2>5 DEF ProfileAppliedOnce
    <2>7. \A i \in DOMAIN diary' : diary'[i] \in (Requests \cap Archived') \ staged'
      BY <1>2, <1>5, <2>1, <2>2, <2>3, <2>4, <2>5
    <2> QED BY <1>1, <1>5, <2>3, <2>6, <2>7 DEF ProfileAppliedOnce
  <1> QED BY <1>3, <1>4, <1>5, DiarySteps

--------------------------------------------------------------------------------
(* Every step keeps the invariant: types. *)

\* The gateway and the plugin keep their types.
LEMMA ProcessesTyped ==
  ASSUME MemoryInv, MemoryNext
  PROVE  /\ gateway' \in [at: GatewayAt, turn: Turns \cup {NoTurn}, head: Digest \cup {NoHead}]
         /\ claimed' \subseteq Turns
         /\ channel' \in [Turns -> ChannelAt]
         /\ acks' \subseteq Ack
         /\ shown' \subseteq Turns
         /\ brittle' \in BOOLEAN
  <1> DEFINE Doing == [at: GatewayAt, turn: Turns \cup {NoTurn}, head: Digest \cup {NoHead}]
             Kept == UNCHANGED <<claimed, channel, acks, shown>>
  <1>1. /\ gateway \in Doing /\ claimed \subseteq Turns /\ channel \in [Turns -> ChannelAt]
        /\ acks \subseteq Ack /\ shown \subseteq Turns /\ brittle \in BOOLEAN
        /\ metadata.head \in Digest
    BY DEF MemoryInv, MemoryTypeOK, TypeOK
  <1>2. /\ Accepting \in Doing /\ Down \in Doing
        /\ \A at \in GatewayAt :
              /\ [gateway EXCEPT !.at = at] \in Doing
              /\ \A t \in Turns : [Accepting EXCEPT !.at = at, !.turn = t] \in Doing
    BY <1>1 DEF Accepting, Down, GatewayAt
  <1>3. ASSUME NEW t, NEW at \in ChannelAt
        PROVE  [channel EXCEPT ![t] = at] \in [Turns -> ChannelAt]
    BY <1>1
  <1>4. brittle' \in BOOLEAN
    BY <1>1 DEF MemoryNext
  <1>5. CASE \/ Initialize \/ InitializeStops \/ ProfileCommitted \/ RespondFails
    BY <1>1, <1>2, <1>4, <1>5 DEF Initialize, InitializeStops, ProfileCommitted, RespondFails,
                                  pluginVars
  <1>6. CASE \/ TurnAbandoned \/ ContextRejected \/ OutcomeRejected \/ OutcomeFails \/ Respond
             \/ Crash \/ ContextCrash \/ DeriveCrash
    <2>1. "closed" \in ChannelAt /\ "replied" \in ChannelAt
      BY DEF ChannelAt
    <2>2. gateway' \in {Accepting, Down} /\ UNCHANGED <<claimed, acks, shown>>
      BY <1>6 DEF TurnAbandoned, ContextRejected, OutcomeRejected, OutcomeFails, Respond, Crash,
                  ContextCrash, DeriveCrash, Dies
    <2>3. \/ channel' = channel
          \/ channel' = [channel EXCEPT ![gateway.turn] = "closed"]
          \/ channel' = [channel EXCEPT ![gateway.turn] = "replied"]
      BY <1>6 DEF TurnAbandoned, ContextRejected, OutcomeRejected, OutcomeFails, Respond, Crash,
                  ContextCrash, DeriveCrash, Dies, Dismissed
    <2>4. channel' \in [Turns -> ChannelAt]
      BY <1>1, <1>3, <2>1, <2>3
    <2> QED BY <1>1, <1>2, <1>4, <2>2, <2>4
  <1>7. CASE \/ TemporalRecorded \/ CoreReplies \/ ReplyPrepared \/ OutcomeRecorded
             \/ DerivativesWritten \/ DerivativeGap
    <2>1. {"prepare", "outcome", "respond", "profile"} \subseteq GatewayAt
      BY DEF GatewayAt
    <2> QED BY <1>1, <1>2, <1>4, <1>7, <2>1
            DEF TemporalRecorded, CoreReplies, ReplyPrepared, OutcomeRecorded,
                DerivativesWritten, DerivativeGap, Goto, pluginVars
  <1>8. CASE BuildContext
    <2>1. gateway' = [gateway EXCEPT !.at = "chat", !.head = metadata.head] /\ Kept
      BY <1>8 DEF BuildContext, pluginVars
    <2>2. gateway' \in Doing
      BY <1>1, <2>1 DEF GatewayAt
    <2> QED BY <1>1, <1>4, <2>1, <2>2
  <1>9. ASSUME NEW a \in acks, DeliveryResolved(a) \/ CancellationResolved(a)
        PROVE  /\ gateway' \in Doing /\ claimed' = claimed /\ channel' = channel
               /\ acks' \subseteq acks /\ shown' = shown
    <2>1. a.turn \in Turns /\ "derive" \in GatewayAt
      BY <1>1 DEF Ack, GatewayAt
    <2> QED BY <1>1, <1>2, <1>9, <2>1 DEF DeliveryResolved, CancellationResolved
  <1>10. ASSUME NEW t \in Turns, ClaimInbound(t)
         PROVE  /\ gateway' \in Doing /\ claimed' \subseteq Turns
                /\ channel' \in [Turns -> ChannelAt] /\ UNCHANGED <<acks, shown>>
    <2>1. "command" \in GatewayAt /\ "context" \in GatewayAt /\ "waiting" \in ChannelAt
      BY DEF GatewayAt, ChannelAt
    <2>2. PICK at \in GatewayAt : gateway' = [Accepting EXCEPT !.at = at, !.turn = t]
      BY <1>10, <2>1 DEF ClaimInbound
    <2> QED BY <1>1, <1>2, <1>3, <1>10, <2>1, <2>2 DEF ClaimInbound
  <1>11. ASSUME NEW t \in Turns,
                \/ PluginGivesUp(t) \/ TelegramAccepts(t) \/ PacingCancelled(t)
                \/ CommitHybridDelivery(t) \/ AckLost(t)
         PROVE  /\ gateway' = gateway /\ claimed' = claimed
                /\ channel' \in [Turns -> ChannelAt]
                /\ acks' \subseteq Ack /\ shown' \subseteq Turns
    <2>1. {"closed", "shown"} \subseteq ChannelAt
      BY DEF ChannelAt
    <2>2. /\ [turn |-> t, outcome |-> "cancelled"] \in Ack
          /\ [turn |-> t, outcome |-> "delivered"] \in Ack
      BY DEF Ack
    <2> QED BY <1>1, <1>3, <1>11, <2>1, <2>2
            DEF PluginGivesUp, TelegramAccepts, PacingCancelled, CommitHybridDelivery, AckLost,
                Moves, runtimeVars
  <1> QED BY <1>1, <1>4, <1>5, <1>6, <1>7, <1>8, <1>9, <1>10, <1>11 DEF MemoryNext, MemoryStep

--------------------------------------------------------------------------------
(* The invariant. *)

\* It holds of a fresh archive, with nothing beside it and the gateway down.
LEMMA MemoryInitially == MemoryInit => MemoryInv
  <1> SUFFICES ASSUME MemoryInit PROVE MemoryInv
    OBVIOUS
  <1>1. ArchiveInv
    BY ArchiveInitially DEF MemoryInit
  <1>2. /\ files = [temporal |-> Absent, tmp |-> FALSE, index |-> Absent, next |-> Absent]
        /\ files.temporal = Absent /\ files.index = Absent /\ files.next = Absent
        /\ gateway = [at |-> "down", turn |-> NoTurn, head |-> NoHead]
        /\ gateway.at = "down"
    BY DEF MemoryInit, Down, Accepting
  <1>3. files \in Files
    BY <1>2 DEF Files
  <1>4. gateway \in [at: GatewayAt, turn: Turns \cup {NoTurn}, head: Digest \cup {NoHead}]
    BY <1>2 DEF GatewayAt
  <1>5. channel \in [Turns -> ChannelAt]
    BY DEF MemoryInit, ChannelAt
  <1>6. /\ diary \in Seq(Turns) /\ p08 \in Seq(Turns) /\ DOMAIN diary = {} /\ DOMAIN p08 = {}
        /\ staged = {} /\ claimed = {} /\ acks = {} /\ shown = {} /\ brittle \in BOOLEAN
        /\ \A t \in Turns : channel[t] = "none"
    BY DEF MemoryInit
  <1>7. MemoryTypeOK
    BY <1>1, <1>3, <1>4, <1>5, <1>6 DEF MemoryTypeOK, ArchiveInv
  <1>8. InWork
    BY <1>2 DEF InWork, TurnStages
  <1>9. Archived = {} /\ \A t : ~Withheld(t)
    BY DEF MemoryInit, Init, Archived, Withheld, Has
  <1>10. Reports /\ ArchiveIsWhatWasShown
    BY <1>6, <1>9, ShownMeans DEF Reports, Unreported
  <1>11. ProfileAppliedOnce /\ EventsOnce
    BY <1>6 DEF ProfileAppliedOnce, EventsOnce
  <1>12. FilesSound(files) /\ SidecarCurrent
    BY <1>2, <1>3 DEF FilesSound, SnapshotSound, Behind, SidecarCurrent, Current, Whole
  <1> QED BY <1>1, <1>6, <1>7, <1>8, <1>10, <1>11, <1>12 DEF MemoryInv

\* Every step of the composition keeps it.
LEMMA MemoryStepKeeps ==
  ASSUME MemoryInv, [MemoryNext]_vars
  PROVE  MemoryInv'
  <1>1. CASE MemoryNext
    <2>1. ArchiveInv'
      BY <1>1, StepsOfArchive, ArchiveStep DEF MemoryInv
    <2>2. FilesSound(files)' /\ SidecarCurrent'
      BY <1>1, FilesKept
    <2>3. EventsOnce' /\ p08' \in Seq(Turns)
      BY <1>1, EventsKept
    <2>4. ProfileAppliedOnce' /\ staged' \subseteq Requests /\ diary' \in Seq(Turns)
      BY <1>1, ProfileKept
    <2>5. MemoryTypeOK'
      BY <1>1, <2>1, <2>2, <2>3, <2>4, ProcessesTyped, KindAssumption
         DEF MemoryTypeOK, ArchiveInv, FilesSound
    <2>6. InWork' /\ Reports' /\ ArchiveIsWhatWasShown'
      BY <1>1, InWorkKept, ReportsKept
    <2> QED BY <2>1, <2>2, <2>3, <2>4, <2>5, <2>6 DEF MemoryInv
  <1>2. CASE UNCHANGED vars
    <2>1. /\ UNCHANGED archiveVars
          /\ UNCHANGED <<files, diary, gateway, staged, p08, claimed, channel, acks, shown, brittle>>
      BY <1>2 DEF vars, runtimeVars, pluginVars
    <2>2. ArchiveInv'
      BY <2>1, ArchiveStep DEF MemoryInv
    <2>3. MemoryTypeOK'
      BY <2>1, <2>2 DEF MemoryInv, MemoryTypeOK, ArchiveInv
    <2>4. SameTurns
      BY <2>1, TurnsSame
    <2>5. Reports' /\ ArchiveIsWhatWasShown'
      BY <2>1, <2>4, ChannelQuiet DEF MemoryInv
    <2>6. InWork' /\ ProfileAppliedOnce' /\ EventsOnce' /\ staged' \subseteq Requests
      BY <2>1, <2>4 DEF MemoryInv, InWork, ProfileAppliedOnce, EventsOnce, SameTurns
    <2>7. UNCHANGED <<completeTurns, metadata>>
      BY <2>1 DEF archiveVars
    <2>8. FilesSound(files)' /\ SidecarCurrent'
      BY <2>1, <2>7 DEF MemoryInv, FilesSound, SnapshotSound, Behind, SidecarCurrent, Current,
                        Closure, Archived
    <2> QED BY <2>2, <2>3, <2>5, <2>6, <2>8 DEF MemoryInv
  <1> QED BY <1>1, <1>2

\* It holds throughout.
LEMMA MemoryInvariant == MemorySpec => []MemoryInv
  BY MemoryInitially, MemoryStepKeeps, PTL DEF MemorySpec

--------------------------------------------------------------------------------
(* What follows from it. *)

\* The archive, the runtime, its files and the plugin keep their types.
THEOREM MemoryTypeCorrect == MemorySpec => []MemoryTypeOK
  <1>1. MemoryInv => MemoryTypeOK
    BY DEF MemoryInv
  <1> QED BY <1>1, MemoryInvariant, PTL

\* The runtime, its restarts and its channel drive the archive only through the archive's
\* own operations: what is proved of the archive holds in the composition.
THEOREM MemoryUsesArchive == MemorySpec => Spec
  <1>1. MemoryInit => Init
    BY DEF MemoryInit
  <1>2. MemoryInv /\ [MemoryNext]_vars => [Next]_archiveVars
    <2>1. ASSUME MemoryInv, MemoryNext PROVE [Next]_archiveVars
      BY <2>1, StepsOfArchive DEF MemoryInv
    <2> QED BY <2>1 DEF vars
  <1> QED BY <1>1, <1>2, MemoryInvariant, PTL DEF MemorySpec, Spec

\* In particular the chain verifies at every resolution, and the tables implement the log
\* of delivered turns, under every restart of the runtime.
THEOREM ArchiveSoundInRuntime == MemorySpec => []ArchiveSound /\ ImplementsLog
  BY MemoryUsesArchive, ArchiveIsSound, ArchiveImplementsLog, PTL

\* However turns, reports and crashes interleave, the archive holds only replies Telegram
\* accepted, and nothing it accepted is recorded as withheld or abandoned.
THEOREM ArchiveHoldsWhatWasShown == MemorySpec => []ArchiveIsWhatWasShown
  <1>1. MemoryInv => ArchiveIsWhatWasShown
    BY DEF MemoryInv
  <1> QED BY <1>1, MemoryInvariant, PTL

\* A profile change is applied at most once, and only for a turn of the archive.
THEOREM ProfileChangesOnce == MemorySpec => []ProfileAppliedOnce
  <1>1. MemoryInv => ProfileAppliedOnce
    BY DEF MemoryInv
  <1> QED BY <1>1, MemoryInvariant, PTL

\* A temporal interval rests on turns of the archive alone.
THEOREM IntervalsFromArchive == MemorySpec => []TemporalSourcesArchived
  <1>1. MemoryInv => TemporalSourcesArchived
    BY DEF MemoryInv, FilesSound, SnapshotSound, TemporalSourcesArchived
  <1> QED BY <1>1, MemoryInvariant, PTL

\* No crash and no failed write leaves an index ahead of the archive, and a crash alone
\* leaves no whole sidecar that a start would refuse.
THEOREM IndexNeverAhead == MemorySpec => []IndexSound
  <1>1. ASSUME MemoryInv PROVE IndexBehindArchive
    BY <1>1 DEF MemoryInv, FilesSound, Behind, IndexBehindArchive
  <1>2. ASSUME MemoryInv PROVE SidecarPromotable
    <2> SUFFICES ASSUME ~brittle, Whole(files.next), ~RebindFails(files)
                 PROVE  Derived(files, TRUE) # {}
      BY DEF SidecarPromotable
    <2>1. /\ files.temporal # Absent /\ files.temporal.head = metadata.head
          /\ files.next = Closure(files) /\ files.next # Absent
          /\ files \in Files
      BY <1>2 DEF MemoryInv, SidecarCurrent, Current, Whole, FilesSound
    <2>2. files.temporal \in TemporalSnapshot
      BY <2>1, FileFields
    <2>3. Rebound(files) = files.temporal
      <3>1. [files.temporal EXCEPT !.head = metadata.head] = files.temporal
        BY <2>1, <2>2 DEF TemporalSnapshot
      <3> QED BY <2>1, <3>1 DEF Rebound
    <2>4. AfterRebind(files) = files
      BY <2>1, <2>3 DEF AfterRebind, Files
    <2>5. Recovered(files, TRUE) # {}
      BY <2>1 DEF Recovered
    <2> QED BY <2>4, <2>5 DEF Derived
  <1>3. MemoryInv => IndexSound
    BY <1>1, <1>2 DEF IndexSound
  <1> QED BY <1>3, MemoryInvariant, PTL

\* A delivery report that is taken in archives its turn in the same step.
THEOREM ReportsArchiveAtOnce == MemorySpec => ArchivalNeverWaits
  <1> DEFINE Archives == \A a \in acks \ acks' : a.outcome = "delivered" => a.turn \in Archived'
  <1>1. ASSUME MemoryInv, MemoryNext PROVE Archives
    <2> SUFFICES ASSUME NEW a \in acks, a \notin acks', a.outcome = "delivered"
                 PROVE  a.turn \in Archived'
      OBVIOUS
    <2>1. \E b \in acks : (DeliveryResolved(b) \/ CancellationResolved(b))
      BY <1>1 DEF MemoryNext, MemoryStep, Initialize, InitializeStops, Crash, Dies,
           TemporalRecorded, TurnAbandoned, BuildContext, ContextRejected, ContextCrash,
           CoreReplies, ReplyPrepared, OutcomeRecorded, OutcomeRejected, OutcomeFails, Respond,
           RespondFails, DerivativesWritten, DerivativeGap, DeriveCrash, ProfileCommitted,
           ClaimInbound, PluginGivesUp, TelegramAccepts, PacingCancelled, CommitHybridDelivery,
           AckLost, pluginVars
    <2>2. PICK b \in acks : DeliveryResolved(b) \/ CancellationResolved(b)
      BY <2>1
    <2>3. b = a
      BY <2>2 DEF DeliveryResolved, CancellationResolved
    <2>4. ResolveDelivered(a.turn)
      BY <2>2, <2>3 DEF DeliveryResolved, CancellationResolved
    <2>5. a.turn \in Turns /\ TypeOK
      BY <1>1 DEF MemoryInv, MemoryTypeOK, Ack
    <2> QED BY <2>4, <2>5, ArchivedAfter
  <1>2. MemoryInv /\ [MemoryNext]_vars => [Archives]_vars
    BY <1>1
  <1> QED BY <1>2, MemoryInvariant, PTL DEF MemorySpec, ArchivalNeverWaits
================================================================================
