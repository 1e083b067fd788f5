---------------------------- MODULE ProviderBudget ----------------------------
(***************************************************************************)
(* The daily budget ledger of the paid provider                            *)
(* (myuna_core/providers/budget.py) and the calls it accounts for          *)
(* (providers/audited.py, providers/deepseek.py).                          *)
(*                                                                         *)
(* Core serves each request in a thread of its own.  A ledger operation    *)
(* runs under a thread lock and an flock, so two of them never overlap,    *)
(* but it writes up to four files: the exact bytes of yesterday's ledger   *)
(* to the archive, today's ledger, a receipt, and the ledger again with    *)
(* the operation applied.  An operation is one action; when the process    *)
(* dies or a file operation raises in the middle of it, the files are left *)
(* at one of those Stages.                                                 *)
(***************************************************************************)
EXTENDS Integers, FiniteSets, Functions

CONSTANTS
    Requests,       \* provider requests, each with an id of its own
    DailyLimit,     \* daily_limit_usd
    AttemptCost,    \* worst_case_cost_usd of one attempt of a request
    MaxAttempts,    \* attempts the provider may make for one request
    LastDay         \* days the clock may show

ASSUME CostAssumption == /\ IsFiniteSet(Requests)
                         /\ AttemptCost \in [Requests -> Nat \ {0}]
                         /\ DailyLimit \in Nat \ {0}
                         /\ MaxAttempts \in Nat \ {0}
                         /\ LastDay \in Nat \ {0}

VARIABLES
    today,      \* the UTC date the clock shows
    disk,       \* the ledger file, the archive directory, the receipts
    call,       \* where each request is, and what its thread knows
    billed,     \* history: what the provider has charged for a request
    opened      \* history: the ledger day of a request's reservation, or 0

budgetVars == <<today, disk, call, billed, opened>>

Days == 1..LastDay

HoldStates == {"none", "active", "uncertain"}
Page == [day: 0..LastDay, spent: Nat, held: [Requests -> HoldStates]]
LedgerFile == [day: 0..LastDay, spent: Nat, held: [Requests -> HoldStates],
               from: SUBSET Page]
Disk == [ledger: LedgerFile, archives: SUBSET Page, receipts: SUBSET Page]

CallAt == {"idle", "calling", "settling", "cancelling", "marking",
           "ended"}
Call == [at: CallAt, attempts: Nat, owed: Nat, doubtful: BOOLEAN]

TypeOK ==
    /\ today \in Days
    /\ disk \in Disk
    /\ call \in [Requests -> Call]
    /\ billed \in [Requests -> Nat]
    /\ opened \in [Requests -> 0..LastDay]

NothingHeld == [r \in Requests |-> "none"]

\* A new ledger; "from" is the rollover field, naming the archived page.
Fresh(d, from) == [day |-> d, spent |-> 0, held |-> NothingHeld, from |-> from]

At(place) == [at |-> place, attempts |-> 0, owed |-> 0, doubtful |-> FALSE]

Init ==
    /\ today \in Days
    /\ disk = [ledger |-> Fresh(0, {}), archives |-> {}, receipts |-> {}]  \* no file yet
    /\ call = [r \in Requests |-> At("idle")]
    /\ billed = [r \in Requests |-> 0]
    /\ opened = [r \in Requests |-> 0]

--------------------------------------------------------------------------------
(* The ledger operations. *)

Reservation(r) == AttemptCost[r] * MaxAttempts

Reserved(page) ==
    SumFunctionOnSet([r \in Requests |-> Reservation(r)],
                     {r \in Requests : page.held[r] # "none"})
Committed(page) == page.spent + Reserved(page)

PageOf(ledger) == [day |-> ledger.day, spent |-> ledger.spent, held |-> ledger.held]

\* _load_state accepts the file: no clock regression, within the limit, and the
\* archive its rollover field names is there.
Loadable ==
    /\ disk.ledger.day <= today
    /\ Committed(disk.ledger) <= DailyLimit
    /\ disk.ledger.from \subseteq disk.archives

Missing == disk.ledger.day = 0
Stale == disk.ledger.day \in 1..(today - 1)

\* The files after each write of a load: the old ledger's receipt, the archive,
\* the new ledger, its receipt.
Receipted(d) == [d EXCEPT !.receipts = @ \cup d.ledger.from]
\* The receipt is written in place of the archive.
Mutant_ArchivedReceiptFirst ==
    [Receipted(disk) EXCEPT !.receipts = @ \cup {PageOf(disk.ledger)}]

Archived == [Receipted(disk) EXCEPT !.archives = @ \cup {PageOf(disk.ledger)}]

\* The old ledger is not archived.
Mutant_ReopenedUnarchived == [Receipted(disk) EXCEPT !.ledger = Fresh(today, {})]

Reopened == [Archived EXCEPT !.ledger = Fresh(today, {PageOf(disk.ledger)})]

\* A ledger with a rollover field is changed before its receipt exists.
Mutant_LoadedUnreceipted ==
    IF Missing THEN [disk EXCEPT !.ledger = Fresh(today, {})]
    ELSE IF Stale THEN Reopened
    ELSE disk

Loaded ==
    IF Missing THEN [disk EXCEPT !.ledger = Fresh(today, {})]
    ELSE IF Stale THEN Receipted(Reopened)
    ELSE Receipted(disk)

LoadStages ==
    {disk, Loaded} \cup (IF Stale THEN {Receipted(disk), Archived, Reopened} ELSE {})

\* reserve forgets the limit.
Mutant_OpAllowedOverLimit(r) ==
    IF call[r].at = "idle" THEN Loaded.ledger.held[r] = "none"
    ELSE Loaded.ledger.held[r] # "none" /\ call[r].owed <= Reservation(r)

\* What reserve, settle, cancel and mark_uncertain check once the ledger is loaded.
OpAllowed(r) ==
    \/ /\ call[r].at = "idle"
       /\ Loaded.ledger.held[r] = "none"
       /\ Committed(Loaded.ledger) + Reservation(r) <= DailyLimit
    \/ /\ call[r].at = "settling"
       /\ Loaded.ledger.held[r] # "none"
       /\ call[r].owed <= Reservation(r)
    \/ /\ call[r].at \in {"cancelling", "marking"}
       /\ Loaded.ledger.held[r] # "none"

\* mark_uncertain deletes the reservation, as cancel does.
Mutant_AppliedMarkReleases(r) ==
    LET page == Loaded.ledger IN
    CASE call[r].at = "idle"     -> [page EXCEPT !.held[r] = "active"]
      [] call[r].at = "settling" -> [page EXCEPT !.spent = @ + call[r].owed, !.held[r] = "none"]
      [] OTHER                   -> [page EXCEPT !.held[r] = "none"]

\* settle gives back what was not used, though reserve never took it.
Mutant_AppliedRefunds(r) ==
    LET page == Loaded.ledger IN
    CASE call[r].at = "idle"     -> [page EXCEPT !.held[r] = "active"]
      [] call[r].at = "settling" -> [page EXCEPT !.spent = @ + call[r].owed - Reservation(r),
                                                 !.held[r] = "none"]
      [] OTHER                   -> [page EXCEPT !.held[r] = "uncertain"]

\* The page reserve, settle, cancel or mark_uncertain writes.
Applied(r) ==
    LET page == Loaded.ledger IN
    IF call[r].at = "idle" THEN [page EXCEPT !.held[r] = "active"]
    ELSE IF call[r].at = "settling"
         THEN [page EXCEPT !.spent = @ + call[r].owed, !.held[r] = "none"]
    ELSE IF call[r].at = "cancelling" THEN [page EXCEPT !.held[r] = "none"]
    ELSE [page EXCEPT !.held[r] = "uncertain"]

Written(r) == [Loaded EXCEPT !.ledger = Applied(r)]

\* Where an operation of r that is cut short can leave the files. The last stage
\* is complete: os.replace is done and the fsync of the directory raises.
Stages(r) ==
    IF ~Loadable THEN {disk}
    ELSE LoadStages \cup (IF OpAllowed(r) THEN {Written(r)} ELSE {})

AtLedger == {"idle", "settling", "cancelling", "marking"}

\* The thread returns an answer or an error, and its locals are gone; doubtful is kept,
\* as history, for a request that was to be cancelled all the same.
Ended(r) == [At("ended") EXCEPT !.doubtful = call[r].doubtful /\ call[r].at = "cancelling"]
Ends(r) == call' = [call EXCEPT ![r] = Ended(r)]

OpSucceeds(r) ==
    /\ call[r].at \in AtLedger
    /\ Loadable
    /\ OpAllowed(r)
    /\ disk' = Written(r)
    /\ IF call[r].at = "idle" THEN call' = [call EXCEPT ![r] = At("calling")] ELSE Ends(r)
    /\ opened' = IF call[r].at = "idle" THEN [opened EXCEPT ![r] = today] ELSE opened
    /\ UNCHANGED <<today, billed>>

\* BudgetExceededError or BudgetAccountingError. A rollover done on the way stays.
OpRejected(r) ==
    /\ call[r].at \in AtLedger
    /\ ~(Loadable /\ OpAllowed(r))
    /\ disk' = IF Loadable THEN Loaded ELSE disk
    /\ Ends(r)
    /\ UNCHANGED <<today, billed, opened>>

\* A file operation raises OSError: the caller sees BudgetAccountingError.
StorageFails(r) ==
    /\ call[r].at \in AtLedger
    /\ disk' \in Stages(r)
    /\ Ends(r)
    /\ UNCHANGED <<today, billed, opened>>

--------------------------------------------------------------------------------
(* The provider's attempts for one request. *)

Charge(r, c) == billed' = [billed EXCEPT ![r] = @ + c]

LastAttempt(r) == call[r].attempts + 1 = MaxAttempts

\* 200 with a valid body: every earlier attempt is accounted at its worst case.
AttemptSucceeds(r) ==
    /\ call[r].at = "calling"
    /\ \E c \in 0..AttemptCost[r] :
        /\ call' = [call EXCEPT ![r].at = "settling", ![r].attempts = @ + 1,
                       ![r].owed = c + AttemptCost[r] * call[r].attempts]
        /\ Charge(r, c)
    /\ UNCHANGED <<today, disk, opened>>

\* A transport failure, a 5xx, or (not retried) a 200 that does not validate:
\* the attempt may have been charged.
AttemptUncertain(r) ==
    /\ call[r].at = "calling"
    /\ \E c \in 0..AttemptCost[r], retried \in BOOLEAN :
        /\ retried => ~LastAttempt(r)
        /\ call' = [call EXCEPT ![r].at = IF retried THEN "calling" ELSE "marking",
                       ![r].attempts = @ + 1, ![r].doubtful = TRUE]
        /\ Charge(r, c)
    /\ UNCHANGED <<today, disk, opened>>

\* 429 (retried while attempts are left) or another refusal: not charged.
AttemptRefused(r) ==
    /\ call[r].at = "calling"
    /\ \E retried \in BOOLEAN :
        /\ retried => ~LastAttempt(r)
        /\ call' = [call EXCEPT ![r].at = IF retried THEN "calling" ELSE "cancelling",
                       ![r].attempts = @ + 1]
    /\ UNCHANGED <<today, disk, billed, opened>>

\* Anything that is not a ProviderError passes through without accounting.
CallRaises(r) ==
    /\ call[r].at = "calling"
    /\ \E c \in 0..AttemptCost[r] : Charge(r, c)
    /\ Ends(r)
    /\ UNCHANGED <<today, disk, opened>>

--------------------------------------------------------------------------------
(* The environment. *)

\* snapshot() loads, and so rolls over, without applying anything.
Snapshot ==
    /\ Loadable
    /\ disk' = Loaded
    /\ UNCHANGED <<today, call, billed, opened>>

\* The clock may be stepped, forwards or backwards.
ClockMoves ==
    /\ today' \in Days \ {today}
    /\ UNCHANGED <<disk, call, billed, opened>>

InFlight == {r \in Requests : call[r].at \in {"calling", "settling", "cancelling", "marking"}}

\* Core dies, perhaps in the middle of one request's ledger operation; requests
\* under way are lost, and those at the provider may be charged in full.
Crash ==
    /\ \E cut \in SUBSET Requests :
        /\ Cardinality(cut) <= 1
        /\ \A r \in cut : call[r].at \in AtLedger /\ disk' \in Stages(r)
        /\ cut = {} => disk' = disk
        /\ call' = [r \in Requests |->
              IF r \in InFlight \cup cut THEN Ended(r) ELSE call[r]]
    /\ \E charged \in SUBSET {r \in Requests : call[r].at = "calling"} :
        billed' = [r \in Requests |->
              IF r \in charged THEN billed[r] + AttemptCost[r] ELSE billed[r]]
    /\ UNCHANGED <<today, opened>>

\* The operator's tool (deploy: reconcile_stale_provider_budget_v1.py) archives a
\* stale ledger and opens the day without a rollover field. If its receipt cannot
\* be written it restores the old ledger, and the archive stays.
Reconcile ==
    /\ Stale
    /\ LET kept == [disk EXCEPT !.archives = @ \cup {PageOf(disk.ledger)}] IN
       disk' \in {kept, [kept EXCEPT !.ledger = Fresh(today, {})]}
    /\ UNCHANGED <<today, call, billed, opened>>

Next ==
    \/ \E r \in Requests :
        \/ OpSucceeds(r)
        \/ OpRejected(r)
        \/ StorageFails(r)
        \/ AttemptSucceeds(r)
        \/ AttemptUncertain(r)
        \/ AttemptRefused(r)
        \/ CallRaises(r)
    \/ Snapshot
    \/ ClockMoves
    \/ Crash
    \/ Reconcile

Spec == Init /\ [][Next]_budgetVars

--------------------------------------------------------------------------------
(* Properties. *)

\* However many threads reserve at once, and whatever is cut short, no page of the
\* ledger, live or archived, commits more than the day's limit.
LimitHolds ==
    \A page \in disk.archives \cup {PageOf(disk.ledger)} : Committed(page) <= DailyLimit

\* A request given more than one attempt, whose last was refused after an earlier one
\* that may have been charged: its reservation is given back (audited.py:67-79). Core
\* gives every request one attempt (providers/runtime.py:19,78), so it never meets this case.
RefusedAfterDoubt(r) == MaxAttempts > 1 /\ call[r].at = "ended" /\ call[r].doubtful

\* What the provider charged for the requests admitted on a day is covered by what
\* that day's page has spent or still reserves: crashes, lost settlements and late
\* answers after midnight may only make the books too high. With one attempt a
\* request, as Core runs it, this has no exception.
ChargesCovered ==
    \A d \in Days :
        LET admitted == {r \in Requests : opened[r] = d /\ ~RefusedAfterDoubt(r)}
        IN admitted # {} =>
            \E page \in disk.archives \cup {PageOf(disk.ledger)} :
                /\ page.day = d
                /\ SumFunctionOnSet(billed, admitted) <= Committed(page)

\* Wherever a rollover is cut short, the ledger that is left can be loaded again:
\* it names no archive that is not there, and every receipt has its archive.
RolloverRecoverable ==
    /\ disk.ledger.from \subseteq disk.archives
    /\ disk.receipts \subseteq disk.archives

\* A request reaches the provider only while the live ledger or an archived page
\* of the day it was admitted holds its reservation.
CallsHoldReservations ==
    \A r \in Requests :
        call[r].at \in {"calling", "settling", "cancelling", "marking"} =>
            \E page \in disk.archives \cup {PageOf(disk.ledger)} :
                page.day = opened[r] /\ page.held[r] # "none"

\* However a request and its day end, no charge is left without a page that holds it.
CostsHeld == ChargesCovered /\ CallsHoldReservations

\* Archives and receipts are never withdrawn, the ledger's day never goes back, a
\* page is left only by archiving it, and a ledger opened by a rollover is not
\* changed before the receipt of that rollover exists.
BooksPermanent ==
    [][ /\ disk.archives \subseteq disk'.archives
        /\ disk.receipts \subseteq disk'.receipts
        /\ disk.ledger.day <= disk'.ledger.day
        /\ disk.ledger.day \notin {0, disk'.ledger.day} =>
              PageOf(disk.ledger) \in disk'.archives
        /\ /\ disk.ledger.day = disk'.ledger.day
           /\ PageOf(disk.ledger) # PageOf(disk'.ledger)
           => disk.ledger.from \subseteq disk'.receipts
      ]_budgetVars
================================================================================
