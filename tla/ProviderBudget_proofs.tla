------------------------- MODULE ProviderBudget_proofs -------------------------
(***************************************************************************)
(* The budget ledger keeps its limit and its books for every set of        *)
(* requests, cost, limit and number of days, wherever an operation is cut  *)
(* short.                                                                  *)
(***************************************************************************)
EXTENDS ProviderBudget, FiniteSums

\* What a thread knows is enough to bound what the provider charged for its request.
ChargesBounded ==
    \A r \in Requests :
        /\ billed[r] <= Reservation(r)
        /\ call[r].at = "idle" => billed[r] = 0 /\ opened[r] = 0
        /\ call[r].at = "calling" =>
              /\ call[r].attempts < MaxAttempts
              /\ billed[r] <= AttemptCost[r] * call[r].attempts
              /\ ~call[r].doubtful => billed[r] = 0
        /\ call[r].at = "settling" => billed[r] <= call[r].owed
        /\ call[r].at = "cancelling" => (~call[r].doubtful => billed[r] = 0)
        /\ r \in InFlight => opened[r] \in Days

GivenBack(r) == call[r].at = "ended" /\ call[r].doubtful
Admitted(d) == {r \in Requests : opened[r] = d /\ ~GivenBack(r)}
Released(page, d) == {r \in Admitted(d) : page.held[r] = "none"}

\* A page accounts for the requests of its day: it holds the reservations of those under
\* way, and has spent what those it no longer holds were charged.
Accounts(page, d) ==
    /\ \A r \in InFlight : opened[r] = d => page.held[r] # "none"
    /\ SumFunctionOnSet(billed, Released(page, d)) <= page.spent

\* The live page accounts for the ledger's day, an archived one for each day before it;
\* no request was admitted on a day after it.
Books(dk) ==
    /\ \A r \in Requests : opened[r] <= dk.ledger.day
    /\ dk.ledger.day \in Days => Accounts(PageOf(dk.ledger), dk.ledger.day)
    /\ \A d \in Days :
          d < dk.ledger.day /\ Admitted(d) # {} =>
              \E page \in dk.archives : page.day = d /\ Accounts(page, d)

\* The files alone.
Limits(dk) ==
    \A page \in dk.archives \cup {PageOf(dk.ledger)} : Committed(page) <= DailyLimit
Recoverable(dk) ==
    /\ dk.ledger.from \subseteq dk.archives
    /\ dk.receipts \subseteq dk.archives

\* The inductive invariant: the charges are covered because every page accounts for its
\* day request by request, not only in total.
BudgetInv ==
    /\ TypeOK
    /\ ChargesBounded
    /\ Limits(disk) /\ Recoverable(disk)
    /\ Books(disk)

--------------------------------------------------------------------------------
(* What a page commits. *)

Reservations == [r \in Requests |-> Reservation(r)]
Held(page) == {r \in Requests : page.held[r] # "none"}

\* The costs are positive, so the reservations are.
LEMMA ReservationType ==
  /\ Reservations \in [Requests -> Nat]
  /\ \A r \in Requests : Reservation(r) \in Nat /\ Reservations[r] = Reservation(r)
  <1>1. \A r \in Requests : AttemptCost[r] \in Nat /\ MaxAttempts \in Nat
    BY CostAssumption
  <1>2. \A r \in Requests : Reservation(r) \in Nat
    BY <1>1 DEF Reservation
  <1> QED BY <1>2 DEF Reservations

\* One attempt more is still covered by the reservation.
LEMMA AttemptFits ==
  ASSUME NEW r \in Requests, NEW n \in Nat, n < MaxAttempts
  PROVE  /\ AttemptCost[r] \in Nat /\ AttemptCost[r] * n \in Nat
         /\ AttemptCost[r] * (n + 1) = AttemptCost[r] * n + AttemptCost[r]
         /\ AttemptCost[r] * n + AttemptCost[r] <= Reservation(r)
  <1>1. AttemptCost[r] \in Nat /\ MaxAttempts \in Nat
    BY CostAssumption
  <1>2. \A a, b, c \in Nat : b < c =>
           /\ a * b \in Nat /\ a * (b + 1) = a * b + a /\ a * b + a <= a * c
    <2> SUFFICES ASSUME NEW a \in Nat, NEW b \in Nat, NEW c \in Nat, b < c
                 PROVE  /\ a * b \in Nat /\ a * (b + 1) = a * b + a
                        /\ a * b + a <= a * c
      OBVIOUS
    <2>1. PICK k \in Nat : c = b + 1 + k
      <3>1. c - (b + 1) \in Nat /\ c = b + 1 + (c - (b + 1))
        OBVIOUS
      <3> QED BY <3>1
    <2>2. a * c = a * b + a + a * k /\ a * k \in Nat /\ a * b \in Nat
      BY <2>1
    <2> QED BY <2>2
  <1> QED BY <1>1, <1>2 DEF Reservation

\* What is reserved is the sum over the held requests.
LEMMA ReservedIs ==
  ASSUME NEW page
  PROVE  /\ Reserved(page) = SumFunctionOnSet(Reservations, Held(page))
         /\ Reserved(page) \in Nat
  <1>1. Reserved(page) = SumFunctionOnSet(Reservations, Held(page))
    BY DEF Reserved, Reservations, Held
  <1>2. Held(page) \in SUBSET Requests
    BY DEF Held
  <1> QED BY <1>1, <1>2, ReservationType, CostAssumption, SumType

\* A ledger and its page commit the same.
LEMMA PageCommits ==
  ASSUME NEW ledger
  PROVE  Committed(PageOf(ledger)) = Committed(ledger)
  BY DEF Committed, Reserved, PageOf

\* A new ledger commits nothing.
LEMMA FreshCommits ==
  ASSUME NEW d, NEW from
  PROVE  Committed(PageOf(Fresh(d, from))) = 0
  <1> DEFINE page == PageOf(Fresh(d, from))
  <1>1. page.spent = 0 /\ page.held = NothingHeld
    BY DEF PageOf, Fresh
  <1>2. Held(page) = {}
    BY <1>1 DEF Held, NothingHeld
  <1>3. Reserved(page) = 0
    BY <1>2, ReservedIs, SumEmpty
  <1> QED BY <1>1, <1>3 DEF Committed

\* Holding and releasing a request moves its reservation.
LEMMA HoldingReserves ==
  ASSUME NEW p, NEW q, NEW r \in Requests, NEW hold,
         p.held \in [Requests -> HoldStates],
         q.held = [p.held EXCEPT ![r] = hold]
  PROVE  /\ p.held[r] = "none" /\ hold # "none" => Reserved(q) = Reserved(p) + Reservation(r)
         /\ p.held[r] # "none" /\ hold = "none" => Reserved(p) = Reserved(q) + Reservation(r)
         /\ p.held[r] # "none" /\ hold # "none" => Reserved(q) = Reserved(p)
  <1>1. /\ Reserved(p) = SumFunctionOnSet(Reservations, Held(p))
        /\ Reserved(q) = SumFunctionOnSet(Reservations, Held(q))
        /\ Reserved(p) \in Nat /\ Reserved(q) \in Nat
    BY ReservedIs
  <1>2. q.held[r] = hold /\ \A s \in Requests : s # r => q.held[s] = p.held[s]
    OBVIOUS
  <1>3. Held(p) \in SUBSET Requests /\ Held(q) \in SUBSET Requests
    BY DEF Held
  <1>4. /\ Reservations \in [Requests -> Nat] /\ Reservations[r] = Reservation(r)
        /\ Reservation(r) \in Nat /\ IsFiniteSet(Requests)
    BY ReservationType, CostAssumption
  <1>5. CASE p.held[r] = "none" /\ hold # "none"
    <2>1. Held(q) = Held(p) \cup {r} /\ r \notin Held(p)
      BY <1>2, <1>5 DEF Held
    <2>2. SumFunctionOnSet(Reservations, Held(q)) =
             Reservations[r] + SumFunctionOnSet(Reservations, Held(p))
      BY <1>3, <1>4, <2>1, SumAdds
    <2> QED BY <1>1, <1>4, <1>5, <2>2
  <1>6. CASE p.held[r] # "none" /\ hold = "none"
    <2>1. Held(p) = Held(q) \cup {r} /\ r \notin Held(q)
      BY <1>2, <1>6 DEF Held
    <2>2. SumFunctionOnSet(Reservations, Held(p)) =
             Reservations[r] + SumFunctionOnSet(Reservations, Held(q))
      BY <1>3, <1>4, <2>1, SumAdds
    <2> QED BY <1>1, <1>4, <1>6, <2>2
  <1>7. CASE p.held[r] # "none" /\ hold # "none"
    <2>1. Held(p) = Held(q)
      BY <1>2, <1>7 DEF Held
    <2> QED BY <1>1, <1>7, <2>1
  <1> QED BY <1>5, <1>6, <1>7

\* Holding a request takes its reservation.
LEMMA HoldingTakes ==
  ASSUME NEW p, NEW q, NEW r \in Requests,
         p.held \in [Requests -> HoldStates], p.held[r] = "none",
         q.held = [p.held EXCEPT ![r] = "active"]
  PROVE  Reserved(q) = Reserved(p) + Reservation(r)
  <1>1. \A hold : q.held = [p.held EXCEPT ![r] = hold] /\ hold = "active" =>
           Reserved(q) = Reserved(p) + Reservation(r)
    BY HoldingReserves
  <1> QED BY <1>1

\* Releasing a held request frees its reservation.
LEMMA ReleasingFrees ==
  ASSUME NEW p, NEW q, NEW r \in Requests,
         p.held \in [Requests -> HoldStates], p.held[r] # "none",
         q.held = [p.held EXCEPT ![r] = "none"]
  PROVE  Reserved(p) = Reserved(q) + Reservation(r)
  <1>1. \A hold : q.held = [p.held EXCEPT ![r] = hold] /\ hold = "none" =>
           Reserved(p) = Reserved(q) + Reservation(r)
    BY HoldingReserves
  <1> QED BY <1>1

--------------------------------------------------------------------------------
(* The stages of a load. *)

\* Between two ledger writes the files have only grown, and the ledger is the old one or
\* a new one, opened after the old one was archived.
Filed(s) ==
    /\ s \in Disk
    /\ disk.archives \subseteq s.archives
    /\ s.archives \subseteq disk.archives \cup {PageOf(disk.ledger)}
    /\ disk.receipts \subseteq s.receipts
    /\ Recoverable(s)
    /\ \/ s.ledger = disk.ledger
       \/ /\ disk.ledger.day < today
          /\ \E from : s.ledger = Fresh(today, from)
          /\ disk.ledger.day # 0 => PageOf(disk.ledger) \in s.archives

\* The page of a ledger is a page.
LEMMA PageType ==
  ASSUME NEW ledger \in LedgerFile
  PROVE  PageOf(ledger) \in Page
  BY DEF LedgerFile, PageOf, Page

\* A new ledger is a ledger.
LEMMA FreshType ==
  ASSUME TypeOK, NEW from \in SUBSET Page
  PROVE  /\ Fresh(today, from) \in LedgerFile
         /\ Fresh(today, from).day = today /\ Fresh(today, from).from = from
         /\ Fresh(today, from).held = NothingHeld
  <1>1. NothingHeld \in [Requests -> HoldStates]
    BY DEF NothingHeld, HoldStates
  <1>2. today \in 0..LastDay
    BY CostAssumption DEF TypeOK, Days
  <1> QED BY <1>1, <1>2 DEF Fresh, LedgerFile

\* The fields of the files at each stage of a load.
LEMMA StageFields ==
  ASSUME TypeOK
  PROVE  /\ disk.ledger \in LedgerFile /\ disk.archives \subseteq Page
         /\ disk.receipts \subseteq Page /\ disk.ledger.from \subseteq Page
         /\ PageOf(disk.ledger) \in Page /\ today \in Nat /\ disk.ledger.day \in Nat
         /\ Receipted(disk) = [ledger |-> disk.ledger, archives |-> disk.archives,
                               receipts |-> disk.receipts \cup disk.ledger.from]
         /\ Archived = [ledger |-> disk.ledger,
                        archives |-> disk.archives \cup {PageOf(disk.ledger)},
                        receipts |-> disk.receipts \cup disk.ledger.from]
         /\ Reopened = [ledger |-> Fresh(today, {PageOf(disk.ledger)}),
                        archives |-> disk.archives \cup {PageOf(disk.ledger)},
                        receipts |-> disk.receipts \cup disk.ledger.from]
         /\ Receipted(Reopened) =
               [ledger |-> Fresh(today, {PageOf(disk.ledger)}),
                archives |-> disk.archives \cup {PageOf(disk.ledger)},
                receipts |-> disk.receipts \cup disk.ledger.from \cup {PageOf(disk.ledger)}]
  <1>1. /\ disk \in Disk /\ disk.ledger \in LedgerFile /\ disk.archives \subseteq Page
        /\ disk.receipts \subseteq Page /\ disk.ledger.from \subseteq Page
        /\ today \in Nat /\ disk.ledger.day \in Nat
    BY DEF TypeOK, Disk, LedgerFile, Days
  <1>2. PageOf(disk.ledger) \in Page
    BY <1>1, PageType
  <1>3. Receipted(disk) = [ledger |-> disk.ledger, archives |-> disk.archives,
                           receipts |-> disk.receipts \cup disk.ledger.from]
    BY <1>1 DEF Receipted, Disk
  <1>4. Archived = [ledger |-> disk.ledger,
                    archives |-> disk.archives \cup {PageOf(disk.ledger)},
                    receipts |-> disk.receipts \cup disk.ledger.from]
    BY <1>3 DEF Archived
  <1>5. Reopened = [ledger |-> Fresh(today, {PageOf(disk.ledger)}),
                    archives |-> disk.archives \cup {PageOf(disk.ledger)},
                    receipts |-> disk.receipts \cup disk.ledger.from]
    BY <1>4 DEF Reopened
  <1>6. Fresh(today, {PageOf(disk.ledger)}).from = {PageOf(disk.ledger)}
    BY DEF Fresh
  <1>7. Receipted(Reopened) =
               [ledger |-> Fresh(today, {PageOf(disk.ledger)}),
                archives |-> disk.archives \cup {PageOf(disk.ledger)},
                receipts |-> disk.receipts \cup disk.ledger.from \cup {PageOf(disk.ledger)}]
    BY <1>5, <1>6 DEF Receipted
  <1> QED BY <1>1, <1>2, <1>3, <1>4, <1>5, <1>7

\* Wherever a load is cut short, the files are filed.
LEMMA StagesFiled ==
  ASSUME TypeOK, Recoverable(disk), NEW s \in LoadStages
  PROVE  Filed(s)
  <1> DEFINE old == PageOf(disk.ledger)
  <1>1. /\ disk \in Disk /\ disk.ledger \in LedgerFile /\ disk.archives \subseteq Page
        /\ disk.receipts \subseteq Page /\ disk.ledger.from \subseteq Page
        /\ old \in Page /\ today \in Nat /\ disk.ledger.day \in Nat
    BY StageFields DEF TypeOK
  <1>2. /\ Fresh(today, {old}) \in LedgerFile /\ Fresh(today, {old}).from = {old}
        /\ Fresh(today, {}) \in LedgerFile /\ Fresh(today, {}).from = {}
    BY <1>1, FreshType
  <1>3. disk.ledger.from \subseteq disk.archives /\ disk.receipts \subseteq disk.archives
    BY DEF Recoverable
  <1>4. Filed(disk)
    BY <1>1 DEF Filed
  <1>5. Filed(Receipted(disk))
    <2>1. Receipted(disk) = [ledger |-> disk.ledger, archives |-> disk.archives,
                             receipts |-> disk.receipts \cup disk.ledger.from]
      BY StageFields
    <2> QED BY <1>1, <1>3, <2>1 DEF Filed, Recoverable, Disk
  <1>6. Filed(Archived)
    <2>1. Archived = [ledger |-> disk.ledger, archives |-> disk.archives \cup {old},
                      receipts |-> disk.receipts \cup disk.ledger.from]
      BY StageFields
    <2> HIDE DEF old
    <2> QED BY <1>1, <1>3, <2>1 DEF Filed, Recoverable, Disk, old
  <1>7. CASE Stale
    <2>1. disk.ledger.day < today
      BY <1>1, <1>7 DEF Stale
    <2>2. Reopened = [ledger |-> Fresh(today, {old}), archives |-> disk.archives \cup {old},
                      receipts |-> disk.receipts \cup disk.ledger.from]
      BY StageFields
    <2>3. Receipted(Reopened) =
            [ledger |-> Fresh(today, {old}), archives |-> disk.archives \cup {old},
             receipts |-> disk.receipts \cup disk.ledger.from \cup {old}]
      BY StageFields
    <2>4. Filed(Reopened)
      <3>1. Reopened \in Disk
        BY <1>1, <1>2, <2>2 DEF Disk
      <3>2. Recoverable(Reopened)
        BY <1>2, <1>3, <2>2 DEF Recoverable
      <3> QED BY <1>3, <2>1, <2>2, <3>1, <3>2 DEF Filed
    <2>5. Filed(Receipted(Reopened))
      <3>1. Receipted(Reopened) \in Disk
        BY <1>1, <1>2, <2>3 DEF Disk
      <3>2. Recoverable(Receipted(Reopened))
        BY <1>2, <1>3, <2>3 DEF Recoverable
      <3> QED BY <1>3, <2>1, <2>3, <3>1, <3>2 DEF Filed
    <2>6. ~Missing
      BY <1>7 DEF Stale, Missing
    <2> QED BY <1>4, <1>5, <1>6, <1>7, <2>4, <2>5, <2>6 DEF LoadStages, Loaded
  <1>8. CASE ~Stale /\ Missing
    <2>1. Loaded = [ledger |-> Fresh(today, {}), archives |-> disk.archives,
                    receipts |-> disk.receipts]
      BY <1>1, <1>8 DEF Loaded, Disk
    <2>2. disk.ledger.day < today /\ disk.ledger.day = 0
      BY <1>8 DEF Missing, TypeOK, Days
    <2>3. Loaded \in Disk
      BY <1>1, <1>2, <2>1 DEF Disk
    <2>4. Recoverable(Loaded)
      BY <1>2, <1>3, <2>1 DEF Recoverable
    <2>5. Filed(Loaded)
      BY <2>1, <2>2, <2>3, <2>4 DEF Filed
    <2> QED BY <1>4, <1>8, <2>5 DEF LoadStages
  <1>9. CASE ~Stale /\ ~Missing
    BY <1>4, <1>5, <1>9 DEF LoadStages, Loaded
  <1> QED BY <1>7, <1>8, <1>9

\* A load ends with a ledger of today whose receipt exists.
LEMMA LoadEnds ==
  ASSUME TypeOK, Loadable
  PROVE  /\ Loaded \in LoadStages
         /\ Loaded.ledger.day = today
         /\ disk.ledger.day = today => /\ Loaded.ledger = disk.ledger
                                       /\ disk.ledger.from \subseteq Loaded.receipts
  <1>1. today \in Nat /\ today >= 1 /\ disk.ledger.day \in Nat /\ disk.ledger.day <= today
    BY StageFields DEF Loadable, TypeOK, Days
  <1>2. CASE Missing
    <2>1. Loaded.ledger = Fresh(today, {})
      BY <1>2, StageFields DEF Loaded, TypeOK, Disk
    <2> QED BY <1>1, <1>2, <2>1 DEF Missing, Fresh, LoadStages
  <1>3. CASE ~Missing /\ Stale
    <2>1. Loaded.ledger = Fresh(today, {PageOf(disk.ledger)})
      BY <1>3, StageFields DEF Loaded
    <2> QED BY <1>1, <1>3, <2>1 DEF Stale, Fresh, LoadStages
  <1>4. CASE ~Missing /\ ~Stale
    <2>1. Loaded.ledger = disk.ledger /\ disk.ledger.from \subseteq Loaded.receipts
      BY <1>4, StageFields DEF Loaded
    <2>2. disk.ledger.day = today
      BY <1>1, <1>4 DEF Missing, Stale
    <2> QED BY <2>1, <2>2 DEF LoadStages
  <1> QED BY <1>2, <1>3, <1>4

--------------------------------------------------------------------------------
(* Filing keeps the limit and the books. *)

\* The requests a page released are among the finitely many there are.
LEMMA ReleasedFinite ==
  ASSUME TypeOK, NEW page, NEW d
  PROVE  /\ IsFiniteSet(Requests) /\ Released(page, d) \in SUBSET Requests
         /\ billed \in [Requests -> Nat]
         /\ SumFunctionOnSet(billed, Released(page, d)) \in Nat
  <1>1. Released(page, d) \in SUBSET Requests /\ billed \in [Requests -> Nat]
    BY DEF Released, Admitted, TypeOK
  <1> QED BY <1>1, CostAssumption, SumType

\* A page accounts for a day on which nothing was admitted.
LEMMA NothingToAccount ==
  ASSUME TypeOK, NEW page, page.spent \in Nat, NEW d \in Days,
         \A r \in Requests : opened[r] # d
  PROVE  Accounts(page, d)
  <1>1. Released(page, d) = {}
    BY DEF Released, Admitted
  <1>2. SumFunctionOnSet(billed, Released(page, d)) = 0
    BY <1>1, SumEmpty
  <1> QED BY <1>2 DEF Accounts, InFlight

\* The limit is on the pages, and filing makes none but an empty one.
LEMMA FiledKeepsLimits ==
  ASSUME Limits(disk), NEW s, Filed(s)
  PROVE  Limits(s)
  <1>1. PageOf(disk.ledger) \in disk.archives \cup {PageOf(disk.ledger)}
    OBVIOUS
  <1>2. \A page \in s.archives : Committed(page) <= DailyLimit
    BY DEF Limits, Filed
  <1>3. Committed(PageOf(s.ledger)) <= DailyLimit
    <2>1. CASE s.ledger = disk.ledger
      BY <2>1, <1>1 DEF Limits
    <2>2. CASE \E from : s.ledger = Fresh(today, from)
      BY <2>2, FreshCommits, CostAssumption
    <2> QED BY <2>1, <2>2 DEF Filed
  <1> QED BY <1>2, <1>3 DEF Limits

\* When a ledger is replaced its page is archived, as the account of its day.
LEMMA FiledKeepsBooks ==
  ASSUME TypeOK, Books(disk), NEW s, Filed(s)
  PROVE  Books(s)
  <1>1. /\ disk.ledger \in LedgerFile /\ today \in Nat /\ disk.ledger.day \in Nat
        /\ today \in Days
    BY StageFields DEF TypeOK
  <1>2. \A r \in Requests : opened[r] \in Nat
    BY DEF TypeOK
  <1>3. CASE s.ledger = disk.ledger
    BY <1>3 DEF Filed, Books
  <1>4. CASE s.ledger # disk.ledger
    <2>1. PICK from : s.ledger = Fresh(today, from)
      BY <1>4 DEF Filed
    <2>2. /\ disk.ledger.day < today /\ s.ledger.day = today
          /\ disk.ledger.day # 0 => PageOf(disk.ledger) \in s.archives
      BY <1>4, <2>1 DEF Filed, Fresh
    <2>3. \A r \in Requests : opened[r] <= disk.ledger.day /\ opened[r] < today
      BY <1>1, <1>2, <2>2 DEF Books
    <2>4. PageOf(s.ledger).spent = 0
      BY <2>1 DEF PageOf, Fresh
    <2>5. Accounts(PageOf(s.ledger), s.ledger.day)
      BY <1>1, <1>2, <2>2, <2>3, <2>4, NothingToAccount
    <2>6. ASSUME NEW d \in Days, d < s.ledger.day, Admitted(d) # {}
          PROVE  \E page \in s.archives : page.day = d /\ Accounts(page, d)
      <3>1. d \in Nat /\ d # 0 /\ d <= disk.ledger.day
        <4>1. PICK r \in Requests : opened[r] = d
          BY <2>6 DEF Admitted
        <4> QED BY <2>3, <4>1 DEF Days
      <3>2. CASE d < disk.ledger.day
        <4>1. \E page \in disk.archives : page.day = d /\ Accounts(page, d)
          BY <2>6, <3>2 DEF Books
        <4> QED BY <4>1 DEF Filed
      <3>3. CASE d = disk.ledger.day
        <4>1. Accounts(PageOf(disk.ledger), d) /\ PageOf(disk.ledger) \in s.archives
          BY <2>2, <3>1, <3>3 DEF Books
        <4>2. PageOf(disk.ledger).day = d
          BY <3>3 DEF PageOf
        <4> QED BY <4>1, <4>2
      <3> QED BY <1>1, <3>1, <3>2, <3>3
    <2> QED BY <1>1, <1>2, <2>2, <2>3, <2>5, <2>6 DEF Books
  <1> QED BY <1>3, <1>4

--------------------------------------------------------------------------------
(* What the threads do to the accounts of a page. *)

\* A step admits nothing, brings no request under way, charges only requests under way,
\* and takes back no reservation given back.
CallsEnd ==
    /\ opened' = opened
    /\ billed' \in [Requests -> Nat]
    /\ \A r \in Requests :
          /\ r \in InFlight' => r \in InFlight
          /\ r \notin InFlight => billed'[r] = billed[r]
          /\ GivenBack(r) => GivenBack(r)'

\* Such a step leaves every page the account of its day.
LEMMA CallsEndAccounts ==
  ASSUME TypeOK, CallsEnd, NEW page \in Page, NEW d, Accounts(page, d)
  PROVE  Accounts(page, d)'
  <1>1. Admitted(d)' \subseteq Admitted(d)
    BY DEF Admitted, CallsEnd
  <1>2. Released(page, d)' \subseteq Released(page, d)
    BY <1>1 DEF Released
  <1>3. \A r \in Released(page, d)' : billed'[r] <= billed[r]
    <2> SUFFICES ASSUME NEW r \in Released(page, d)' PROVE billed'[r] <= billed[r]
      OBVIOUS
    <2>1. r \in Requests /\ opened[r] = d /\ page.held[r] = "none"
      BY <1>2 DEF Released, Admitted
    <2>2. r \notin InFlight
      BY <2>1 DEF Accounts
    <2> QED BY <2>1, <2>2 DEF CallsEnd, TypeOK
  <1>4. /\ Released(page, d) \in SUBSET Requests /\ Released(page, d)' \in SUBSET Requests
        /\ billed \in [Requests -> Nat] /\ billed' \in [Requests -> Nat]
    BY DEF Released, Admitted, CallsEnd, TypeOK
  <1>5. SumFunctionOnSet(billed', Released(page, d)') <= SumFunctionOnSet(billed, Released(page, d))
    BY <1>2, <1>3, <1>4, CostAssumption, SumMonotone
  <1>6. /\ SumFunctionOnSet(billed, Released(page, d)) <= page.spent
        /\ SumFunctionOnSet(billed, Released(page, d)) \in Nat
        /\ SumFunctionOnSet(billed', Released(page, d)') \in Nat
        /\ page.spent \in Nat
    BY <1>4, CostAssumption, SumType DEF Accounts, Page
  <1>7. SumFunctionOnSet(billed', Released(page, d)') <= page.spent
    BY <1>5, <1>6
  <1>8. \A r \in InFlight' : opened'[r] = d => page.held[r] # "none"
    BY DEF CallsEnd, Accounts, InFlight
  <1> QED BY <1>7, <1>8 DEF Accounts

\* ... and so leaves the books.
LEMMA CallsEndBooks ==
  ASSUME TypeOK, CallsEnd, NEW dk \in Disk, Books(dk)
  PROVE  Books(dk)'
  <1>1. dk.ledger \in LedgerFile /\ dk.archives \subseteq Page /\ PageOf(dk.ledger) \in Page
    BY PageType DEF Disk
  <1>2. \A d : Admitted(d)' \subseteq Admitted(d)
    BY DEF Admitted, CallsEnd
  <1>3. \A r \in Requests : opened'[r] <= dk.ledger.day
    BY DEF Books, CallsEnd
  <1>4. dk.ledger.day \in Days => Accounts(PageOf(dk.ledger), dk.ledger.day)'
    <2> DEFINE page == PageOf(dk.ledger)
               d == dk.ledger.day
    <2>1. d \in Days => Accounts(page, d)
      BY DEF Books
    <2>2. page \in Page
      BY <1>1
    <2> HIDE DEF page, d
    <2>3. d \in Days => Accounts(page, d)'
      BY <2>1, <2>2, CallsEndAccounts
    <2> QED BY <2>3 DEF page, d
  <1>5. ASSUME NEW d \in Days, d < dk.ledger.day, Admitted(d)' # {}
        PROVE  \E page \in dk.archives : page.day = d /\ Accounts(page, d)'
    <2>1. PICK page \in dk.archives : page.day = d /\ Accounts(page, d)
      BY <1>2, <1>5 DEF Books
    <2>2. Accounts(page, d)'
      BY <1>1, <2>1, CallsEndAccounts
    <2> QED BY <2>1, <2>2
  <1> QED BY <1>3, <1>4, <1>5 DEF Books

--------------------------------------------------------------------------------
(* The write of an operation. *)

\* The page an operation writes, and what stays of the files around it.
LEMMA AppliedIs ==
  ASSUME TypeOK, Recoverable(disk), Loadable, NEW r \in Requests, OpAllowed(r)
  PROVE  LET p == PageOf(Loaded.ledger)
             q == PageOf(Applied(r))
             at == call[r].at
         IN
         /\ Filed(Loaded) /\ Loaded \in Disk /\ p \in Page /\ p.day = today
         /\ Written(r) \in Disk /\ Written(r).ledger = Applied(r)
         /\ Written(r).archives = Loaded.archives /\ Written(r).receipts = Loaded.receipts
         /\ Applied(r).day = today /\ Applied(r).from = Loaded.ledger.from
         /\ q \in Page /\ q.day = today
         /\ at \in {"idle", "settling", "cancelling", "marking"}
         /\ at = "idle" => /\ p.held[r] = "none" /\ q.spent = p.spent
                           /\ q.held = [p.held EXCEPT ![r] = "active"]
         /\ at = "settling" => /\ p.held[r] # "none" /\ q.spent = p.spent + call[r].owed
                               /\ q.held = [p.held EXCEPT ![r] = "none"]
         /\ at = "cancelling" => /\ p.held[r] # "none" /\ q.spent = p.spent
                                 /\ q.held = [p.held EXCEPT ![r] = "none"]
         /\ at = "marking" => /\ p.held[r] # "none" /\ q.spent = p.spent
                              /\ q.held = [p.held EXCEPT ![r] = "uncertain"]
  <1> DEFINE p == PageOf(Loaded.ledger)
             q == PageOf(Applied(r))
             at == call[r].at
  <1>1. Loaded \in LoadStages /\ Loaded.ledger.day = today
    BY LoadEnds
  <1>2. Filed(Loaded) /\ Loaded \in Disk
    BY <1>1, StagesFiled DEF Filed
  <1>3. Loaded.ledger \in LedgerFile
    BY <1>2 DEF Disk
  <1>4. p \in Page /\ p.day = today /\ p.spent = Loaded.ledger.spent
        /\ p.held = Loaded.ledger.held
    BY <1>1, <1>3, PageType DEF PageOf
  <1>5. call[r].owed \in Nat
    BY DEF TypeOK, Call
  <1>6. at \in {"idle", "settling", "cancelling", "marking"}
    BY DEF OpAllowed
  <1>7. /\ at = "idle" => /\ Loaded.ledger.held[r] = "none"
                          /\ Applied(r) = [Loaded.ledger EXCEPT !.held[r] = "active"]
        /\ at = "settling" =>
              /\ Loaded.ledger.held[r] # "none"
              /\ Applied(r) = [Loaded.ledger EXCEPT !.spent = @ + call[r].owed,
                                                    !.held[r] = "none"]
        /\ at = "cancelling" => /\ Loaded.ledger.held[r] # "none"
                                /\ Applied(r) = [Loaded.ledger EXCEPT !.held[r] = "none"]
        /\ at = "marking" => /\ Loaded.ledger.held[r] # "none"
                             /\ Applied(r) = [Loaded.ledger EXCEPT !.held[r] = "uncertain"]
    BY DEF OpAllowed, Applied
  <1> HIDE DEF at
  <1>8. /\ Applied(r) \in LedgerFile /\ Applied(r).day = today
        /\ Applied(r).from = Loaded.ledger.from
        /\ at = "idle" => /\ Applied(r).spent = p.spent
                          /\ Applied(r).held = [p.held EXCEPT ![r] = "active"]
        /\ at = "settling" => /\ Applied(r).spent = p.spent + call[r].owed
                              /\ Applied(r).held = [p.held EXCEPT ![r] = "none"]
        /\ at = "cancelling" => /\ Applied(r).spent = p.spent
                                /\ Applied(r).held = [p.held EXCEPT ![r] = "none"]
        /\ at = "marking" => /\ Applied(r).spent = p.spent
                             /\ Applied(r).held = [p.held EXCEPT ![r] = "uncertain"]
    <2>1. \A hold \in HoldStates : [p.held EXCEPT ![r] = hold] \in [Requests -> HoldStates]
      BY <1>4 DEF Page
    <2>2. {"none", "active", "uncertain"} = HoldStates
      BY DEF HoldStates
    <2>3. CASE at = "idle"
      BY <1>1, <1>3, <1>4, <1>7, <2>1, <2>2, <2>3 DEF LedgerFile
    <2>4. CASE at = "settling"
      <3>1. PICK ledger \in LedgerFile : ledger = Loaded.ledger
        BY <1>3
      <3>2. PICK held \in [Requests -> HoldStates] : held = [ledger.held EXCEPT ![r] = "none"]
        BY <1>4, <2>1, <2>2, <3>1
      <3>3. Applied(r) = [ledger EXCEPT !.spent = ledger.spent + call[r].owed, !.held = held]
        BY <1>7, <2>4, <3>1, <3>2 DEF LedgerFile
      <3>4. Applied(r) = [day |-> ledger.day, spent |-> ledger.spent + call[r].owed,
                          held |-> held, from |-> ledger.from]
        BY <3>1, <3>3 DEF LedgerFile
      <3>5. Applied(r) \in LedgerFile
        BY <1>5, <3>1, <3>2, <3>4 DEF LedgerFile
      <3> HIDE DEF p, q
      <3> QED BY <1>1, <1>4, <2>4, <3>1, <3>2, <3>4, <3>5
    <2>5. CASE at = "cancelling"
      BY <1>1, <1>3, <1>4, <1>7, <2>1, <2>2, <2>5 DEF LedgerFile
    <2>6. CASE at = "marking"
      BY <1>1, <1>3, <1>4, <1>7, <2>1, <2>2, <2>6 DEF LedgerFile
    <2> QED BY <1>6, <2>3, <2>4, <2>5, <2>6
  <1>9. q \in Page /\ q.day = today /\ q.spent = Applied(r).spent /\ q.held = Applied(r).held
    BY <1>8, PageType DEF PageOf
  <1>10. /\ Written(r) \in Disk /\ Written(r).ledger = Applied(r)
         /\ Written(r).archives = Loaded.archives /\ Written(r).receipts = Loaded.receipts
    BY <1>2, <1>8 DEF Written, Disk
  <1> HIDE DEF p, q
  <1>11. /\ at = "idle" => p.held[r] = "none"
         /\ at \in {"settling", "cancelling", "marking"} => p.held[r] # "none"
    BY <1>4, <1>7
  <1>12. /\ at = "idle" => /\ p.held[r] = "none" /\ q.spent = p.spent
                           /\ q.held = [p.held EXCEPT ![r] = "active"]
         /\ at = "settling" => /\ p.held[r] # "none" /\ q.spent = p.spent + call[r].owed
                               /\ q.held = [p.held EXCEPT ![r] = "none"]
         /\ at = "cancelling" => /\ p.held[r] # "none" /\ q.spent = p.spent
                                 /\ q.held = [p.held EXCEPT ![r] = "none"]
         /\ at = "marking" => /\ p.held[r] # "none" /\ q.spent = p.spent
                              /\ q.held = [p.held EXCEPT ![r] = "uncertain"]
    BY <1>8, <1>9, <1>11
  <1> QED BY <1>2, <1>4, <1>6, <1>8, <1>9, <1>10, <1>12 DEF p, q, at

\* The operation keeps the limit: a reservation is granted within it, and a settlement
\* is never more than the reservation it replaces.
LEMMA WrittenKeepsLimits ==
  ASSUME TypeOK, Recoverable(disk), Limits(disk), Loadable,
         NEW r \in Requests, OpAllowed(r)
  PROVE  Limits(Written(r)) /\ Recoverable(Written(r))
  <1> DEFINE p == PageOf(Loaded.ledger)
             q == PageOf(Applied(r))
             at == call[r].at
  <1>1. /\ Filed(Loaded) /\ p \in Page
        /\ Written(r).ledger = Applied(r) /\ Written(r).archives = Loaded.archives
        /\ Written(r).receipts = Loaded.receipts /\ Applied(r).from = Loaded.ledger.from
        /\ q \in Page /\ at \in {"idle", "settling", "cancelling", "marking"}
    BY AppliedIs
  <1>2. /\ at = "idle" => /\ p.held[r] = "none" /\ q.spent = p.spent
                          /\ q.held = [p.held EXCEPT ![r] = "active"]
        /\ at = "settling" => /\ p.held[r] # "none" /\ q.spent = p.spent + call[r].owed
                              /\ q.held = [p.held EXCEPT ![r] = "none"]
        /\ at = "cancelling" => /\ p.held[r] # "none" /\ q.spent = p.spent
                                /\ q.held = [p.held EXCEPT ![r] = "none"]
        /\ at = "marking" => /\ p.held[r] # "none" /\ q.spent = p.spent
                             /\ q.held = [p.held EXCEPT ![r] = "uncertain"]
    BY AppliedIs
  <1>3. Limits(Loaded) /\ Recoverable(Loaded)
    BY <1>1, FiledKeepsLimits DEF Filed
  <1>4. Committed(p) <= DailyLimit
    BY <1>3 DEF Limits
  <1>5. /\ at = "idle" => Committed(p) + Reservation(r) <= DailyLimit
        /\ at = "settling" => call[r].owed <= Reservation(r)
    BY PageCommits DEF OpAllowed
  <1>6. /\ call[r].owed \in Nat /\ Reservation(r) \in Nat /\ p.spent \in Nat
        /\ Reserved(p) \in Nat /\ Reserved(q) \in Nat /\ DailyLimit \in Nat
        /\ Committed(p) = p.spent + Reserved(p) /\ Committed(q) = q.spent + Reserved(q)
        /\ p.held \in [Requests -> HoldStates]
    BY <1>1, ReservationType, ReservedIs, CostAssumption DEF TypeOK, Call, Page, Committed
  <1> HIDE DEF p, q, at
  <1>7. Committed(q) <= DailyLimit
    <2>1. CASE at = "idle"
      <3>1. Reserved(q) = Reserved(p) + Reservation(r)
        BY <1>2, <1>6, <2>1, HoldingTakes
      <3> QED BY <1>2, <1>5, <1>6, <2>1, <3>1
    <2>2. CASE at = "settling"
      <3>1. Reserved(p) = Reserved(q) + Reservation(r)
        BY <1>2, <1>6, <2>2, ReleasingFrees
      <3> QED BY <1>2, <1>4, <1>5, <1>6, <2>2, <3>1
    <2>3. CASE at = "cancelling"
      <3>1. Reserved(p) = Reserved(q) + Reservation(r)
        BY <1>2, <1>6, <2>3, ReleasingFrees
      <3> QED BY <1>2, <1>4, <1>6, <2>3, <3>1
    <2>4. CASE at = "marking"
      <3>1. Reserved(q) = Reserved(p)
        BY <1>2, <1>6, <2>4, HoldingReserves
      <3> QED BY <1>2, <1>4, <1>6, <2>4, <3>1
    <2> QED BY <1>1, <2>1, <2>2, <2>3, <2>4
  <1>8. Limits(Written(r))
    BY <1>1, <1>3, <1>7 DEF Limits, q
  <1>9. Recoverable(Written(r))
    BY <1>1, <1>3 DEF Recoverable
  <1> QED BY <1>8, <1>9

\* The operation that ends a request replaces its reservation by at least what it was
\* charged, or gives it back.
LEMMA WrittenAccounts ==
  ASSUME TypeOK, ChargesBounded, Recoverable(disk), Books(disk), Loadable,
         NEW r \in Requests, OpAllowed(r), CallsEnd,
         call'[r] = Ended(r), billed'[r] = billed[r],
         NEW q, q = PageOf(Applied(r)), NEW d, d = today
  PROVE  Accounts(q, d)'
  <1>0. PICK p : p = PageOf(Loaded.ledger)
    OBVIOUS
  <1>1. /\ Filed(Loaded) /\ p \in Page /\ p.day = today /\ q \in Page /\ q.day = today
        /\ call[r].at \in {"idle", "settling", "cancelling", "marking"}
    BY <1>0, AppliedIs
  <1>2. /\ call[r].at = "idle" => /\ p.held[r] = "none" /\ q.spent = p.spent
                                  /\ q.held = [p.held EXCEPT ![r] = "active"]
        /\ call[r].at = "settling" => /\ p.held[r] # "none"
                                      /\ q.spent = p.spent + call[r].owed
                                      /\ q.held = [p.held EXCEPT ![r] = "none"]
        /\ call[r].at = "cancelling" => /\ p.held[r] # "none" /\ q.spent = p.spent
                                        /\ q.held = [p.held EXCEPT ![r] = "none"]
        /\ call[r].at = "marking" => /\ p.held[r] # "none" /\ q.spent = p.spent
                                     /\ q.held = [p.held EXCEPT ![r] = "uncertain"]
    BY <1>0, AppliedIs
  <1>3. Accounts(p, d)
    <2>1. Books(Loaded) /\ today \in Days
      BY <1>1, FiledKeepsBooks DEF TypeOK
    <2>2. Loaded.ledger.day = today
      BY LoadEnds
    <2> QED BY <1>0, <2>1, <2>2 DEF Books
  <1>4. /\ p.spent \in Nat /\ q.spent \in Nat /\ call[r].owed \in Nat
        /\ p.held \in [Requests -> HoldStates] /\ billed[r] \in Nat /\ today \in Days
        /\ billed' \in [Requests -> Nat] /\ billed \in [Requests -> Nat]
    BY <1>1 DEF TypeOK, Call, Page, CallsEnd
  <1>5. call'[r].at = "ended" /\ r \notin InFlight'
    BY DEF Ended, At, InFlight
  <1>6. \A s \in Requests : s # r => q.held[s] = p.held[s]
    BY <1>1, <1>2, <1>4
  <1>7. \A s \in InFlight' : opened'[s] = d => q.held[s] # "none"
    BY <1>3, <1>5, <1>6 DEF CallsEnd, Accounts, InFlight
  <1>8. Released(q, d)' \subseteq Released(p, d) \cup {r}
    BY <1>6 DEF Released, Admitted, CallsEnd
  <1>9. \A s \in Released(q, d)' : billed'[s] <= billed[s]
    <2> SUFFICES ASSUME NEW s \in Released(q, d)', s # r PROVE billed'[s] <= billed[s]
      BY <1>4
    <2>1. s \in Requests /\ s \in Released(p, d)
      BY <1>8 DEF Released, Admitted
    <2>2. s \notin InFlight
      BY <1>3, <2>1 DEF Accounts, Released, Admitted
    <2> QED BY <1>4, <2>1, <2>2 DEF CallsEnd
  <1>10. /\ Released(q, d)' \in SUBSET Requests /\ Released(p, d) \in SUBSET Requests
         /\ IsFiniteSet(Requests)
    BY CostAssumption DEF Released, Admitted
  <1>11. /\ SumFunctionOnSet(billed, Released(p, d)) \in Nat
         /\ SumFunctionOnSet(billed', Released(q, d)') \in Nat
         /\ SumFunctionOnSet(billed, Released(p, d)) <= p.spent
    BY <1>3, <1>4, <1>10, SumType DEF Accounts
  <1>12. SumFunctionOnSet(billed', Released(q, d)') <= q.spent
    <2>1. CASE r \notin Released(q, d)'
      <3>1. Released(q, d)' \subseteq Released(p, d)
        BY <1>8, <2>1
      <3>2. SumFunctionOnSet(billed', Released(q, d)') <=
               SumFunctionOnSet(billed, Released(p, d))
        BY <1>4, <1>9, <1>10, <3>1, SumMonotone
      <3>3. p.spent <= q.spent
        BY <1>1, <1>2, <1>4
      <3> QED BY <1>4, <1>11, <3>2, <3>3
    <2>2. CASE r \in Released(q, d)'
      <3>1. q.held[r] = "none" /\ ~GivenBack(r)'
        BY <2>2 DEF Released, Admitted
      <3>2. /\ call[r].at \in {"settling", "cancelling"}
            /\ call[r].at = "cancelling" => ~call[r].doubtful
        BY <1>1, <1>2, <1>4, <1>5, <3>1 DEF Ended, At, GivenBack, HoldStates
      <3>3. p.spent + billed[r] <= q.spent
        <4>1. CASE call[r].at = "settling"
          BY <1>2, <1>4, <4>1 DEF ChargesBounded
        <4>2. CASE call[r].at = "cancelling"
          BY <1>2, <1>4, <3>2, <4>2 DEF ChargesBounded
        <4> QED BY <3>2, <4>1, <4>2
      <3>4. r \notin Released(p, d)
        BY <1>2, <3>2 DEF Released
      <3>5. Released(p, d) \cup {r} \in SUBSET Requests
        BY <1>10
      <3>6. SumFunctionOnSet(billed', Released(q, d)') <=
               SumFunctionOnSet(billed, Released(p, d) \cup {r})
        BY <1>4, <1>8, <1>9, <1>10, <3>5, SumMonotone
      <3>7. SumFunctionOnSet(billed, Released(p, d) \cup {r}) =
               billed[r] + SumFunctionOnSet(billed, Released(p, d))
        BY <1>4, <1>10, <3>4, SumAdds
      <3> QED BY <1>4, <1>11, <3>3, <3>6, <3>7
    <2> QED BY <2>1, <2>2
  <1> QED BY <1>7, <1>12 DEF Accounts

\* With its write, the operation that ends a request keeps the books.
LEMMA WrittenBooks ==
  ASSUME TypeOK, ChargesBounded, Recoverable(disk), Books(disk), Loadable,
         NEW r \in Requests, OpAllowed(r), CallsEnd,
         call'[r] = Ended(r), billed'[r] = billed[r],
         NEW s, s = Written(r)
  PROVE  Books(s)'
  <1>1. PICK q : q = PageOf(Applied(r))
    OBVIOUS
  <1>2. PICK l : l = Loaded
    OBVIOUS
  <1>3. PICK d : d = today
    OBVIOUS
  <1>4. Accounts(q, d)'
    BY <1>1, <1>3, WrittenAccounts
  <1>5. /\ Filed(l) /\ l \in Disk /\ s.ledger = Applied(r) /\ s.archives = l.archives
        /\ s.ledger.day = d /\ PageOf(s.ledger) = q
    BY <1>1, <1>2, <1>3, AppliedIs
  <1>6. Books(l)'
    BY <1>5, FiledKeepsBooks, CallsEndBooks
  <1>7. l.ledger.day = d
    BY <1>2, <1>3, LoadEnds
  <1> QED BY <1>4, <1>5, <1>6, <1>7 DEF Books

\* The reservation of a request that was not under way.
LEMMA AdmittedBooks ==
  ASSUME TypeOK, ChargesBounded, Recoverable(disk), Books(disk), Loadable,
         NEW r \in Requests, OpAllowed(r), call[r].at = "idle",
         call' = [call EXCEPT ![r] = At("calling")],
         opened' = [opened EXCEPT ![r] = today], billed' = billed,
         NEW s, s = Written(r)
  PROVE  Books(s)'
  <1>1. PICK q : q = PageOf(Applied(r))
    OBVIOUS
  <1>2. PICK l : l = Loaded
    OBVIOUS
  <1>3. PICK d : d = today
    OBVIOUS
  <1>4. PICK p : p = PageOf(l.ledger)
    OBVIOUS
  <1>5. /\ Filed(l) /\ l \in Disk /\ s.ledger = Applied(r) /\ s.archives = l.archives
        /\ s.ledger.day = d /\ PageOf(s.ledger) = q /\ l.ledger.day = d /\ p \in Page
    BY <1>1, <1>2, <1>3, <1>4, AppliedIs, LoadEnds
  <1>6. /\ p.held[r] = "none" /\ q.spent = p.spent /\ q.held = [p.held EXCEPT ![r] = "active"]
    BY <1>1, <1>2, <1>4, AppliedIs
  <1>7. Books(l)
    BY <1>5, FiledKeepsBooks
  <1>8. /\ d \in Days /\ d # 0 /\ opened[r] = 0 /\ r \notin InFlight
        /\ \A t \in Requests : opened[t] \in Nat
        /\ p.held \in [Requests -> HoldStates]
    BY <1>3, <1>5 DEF TypeOK, ChargesBounded, InFlight, Days, Page
  <1>9. /\ opened'[r] = d /\ \A t \in Requests : t # r => opened'[t] = opened[t]
        /\ call'[r].at = "calling" /\ \A t \in Requests : t # r => call'[t] = call[t]
    BY <1>3 DEF TypeOK, At
  <1>10. \A t \in Requests : t # r => /\ t \in InFlight' <=> t \in InFlight
                                      /\ GivenBack(t)' <=> GivenBack(t)
    BY <1>9 DEF InFlight, GivenBack
  <1>11. Accounts(q, d)'
    <2>1. Accounts(p, d)
      BY <1>4, <1>5, <1>7, <1>8 DEF Books
    <2>2. q.held[r] = "active" /\ \A t \in Requests : t # r => q.held[t] = p.held[t]
      BY <1>6, <1>8
    <2>3. \A t \in InFlight' : opened'[t] = d => q.held[t] # "none"
      BY <1>9, <1>10, <2>1, <2>2 DEF Accounts, InFlight
    <2>4. Released(q, d)' = Released(p, d)
      BY <1>6, <1>8, <1>9, <1>10, <2>2 DEF Released, Admitted
    <2> QED BY <1>6, <2>1, <2>3, <2>4 DEF Accounts
  <1>12. ASSUME NEW e \in Days, e < d, Admitted(e)' # {}
         PROVE  \E page \in s.archives : page.day = e /\ Accounts(page, e)'
    <2>1. e # d /\ e # 0
      BY <1>8, <1>12 DEF Days
    <2>2. Admitted(e)' = Admitted(e)
      BY <1>8, <1>9, <1>10, <2>1 DEF Admitted
    <2>3. PICK page \in l.archives : page.day = e /\ Accounts(page, e)
      BY <1>5, <1>7, <1>12, <2>2 DEF Books
    <2>4. Released(page, e)' = Released(page, e)
      BY <2>2 DEF Released
    <2>5. \A t \in InFlight' : opened'[t] = e => page.held[t] # "none"
      BY <1>9, <1>10, <2>1, <2>3 DEF Accounts, InFlight
    <2> QED BY <1>5, <2>3, <2>4, <2>5 DEF Accounts
  <1>13. \A t \in Requests : opened'[t] <= d
    BY <1>5, <1>7, <1>8, <1>9 DEF Books, Days
  <1> QED BY <1>5, <1>11, <1>12, <1>13 DEF Books

\* Wherever an operation is cut short, the files can be loaded and keep the limit.
LEMMA StagesKeepFiles ==
  ASSUME TypeOK, Recoverable(disk), Limits(disk), NEW r \in Requests, NEW s \in Stages(r)
  PROVE  s \in Disk /\ Limits(s) /\ Recoverable(s)
  <1>1. CASE s = disk
    BY <1>1 DEF TypeOK
  <1>2. CASE s \in LoadStages
    <2>1. Filed(s)
      BY <1>2, StagesFiled
    <2> QED BY <2>1, FiledKeepsLimits DEF Filed
  <1>3. CASE Loadable /\ OpAllowed(r) /\ s = Written(r)
    <2>1. Written(r) \in Disk
      BY <1>3, AppliedIs
    <2> QED BY <1>3, <2>1, WrittenKeepsLimits
  <1> QED BY <1>1, <1>2, <1>3 DEF Stages

\* ... and keep the books, when the thread of the operation ends with it.
LEMMA StagesKeepBooks ==
  ASSUME TypeOK, ChargesBounded, Recoverable(disk), Books(disk), CallsEnd,
         NEW r \in Requests, NEW s \in Stages(r),
         call'[r] = Ended(r), billed'[r] = billed[r]
  PROVE  Books(s)'
  <1>1. CASE s = disk
    <2>1. s \in Disk /\ Books(s)
      BY <1>1 DEF TypeOK
    <2> QED BY <2>1, CallsEndBooks
  <1>2. CASE s \in LoadStages
    <2>1. Filed(s) /\ s \in Disk
      BY <1>2, StagesFiled DEF Filed
    <2>2. Books(s)
      BY <2>1, FiledKeepsBooks
    <2> QED BY <2>1, <2>2, CallsEndBooks
  <1>3. CASE Loadable /\ OpAllowed(r) /\ s = Written(r)
    BY <1>3, WrittenBooks
  <1> QED BY <1>1, <1>2, <1>3 DEF Stages

\* The files of the next state.
LEMMA NextDisk ==
  ASSUME NEW s, disk' = s
  PROVE  /\ Books(disk)' <=> Books(s)'
         /\ Limits(disk)' <=> Limits(s)
         /\ Recoverable(disk)' <=> Recoverable(s)
  <1>1. Books(disk)' <=> Books(s)'
    BY DEF Books, Accounts, Released, Admitted, GivenBack, InFlight, PageOf
  <1>2. Limits(disk)' <=> Limits(s)
    BY DEF Limits, PageOf, Committed, Reserved
  <1> QED BY <1>1, <1>2 DEF Recoverable

--------------------------------------------------------------------------------
(* The steps. *)

\* Where a step that ends one request leaves its thread, and what it can have cost.
LEMMA EndsCalls ==
  ASSUME TypeOK, ChargesBounded, NEW r \in Requests, call[r].at # "ended", Ends(r),
         opened' = opened, NEW b \in Nat, billed' = [billed EXCEPT ![r] = b],
         b <= Reservation(r), b = billed[r] \/ r \in InFlight
  PROVE  /\ CallsEnd /\ ChargesBounded'
         /\ call' \in [Requests -> Call] /\ call'[r] = Ended(r)
  <1>1. /\ call'[r] = Ended(r) /\ call'[r].at = "ended" /\ call'[r] \in Call
        /\ \A s \in Requests : s # r => call'[s] = call[s]
        /\ call' \in [Requests -> Call]
    BY DEF Ends, Ended, At, TypeOK, Call, CallAt
  <1>2. /\ billed' \in [Requests -> Nat] /\ billed'[r] = b
        /\ \A s \in Requests : s # r => billed'[s] = billed[s]
    BY DEF TypeOK
  <1>3. /\ r \notin InFlight'
        /\ \A s \in Requests : s # r => /\ s \in InFlight' <=> s \in InFlight
                                        /\ GivenBack(s)' <=> GivenBack(s)
    BY <1>1 DEF InFlight, GivenBack
  <1>4. CallsEnd
    BY <1>2, <1>3 DEF CallsEnd, GivenBack
  <1>5. ChargesBounded'
    <2> SUFFICES ASSUME NEW s \in Requests
                 PROVE  /\ billed'[s] <= Reservation(s)
                        /\ call'[s].at = "idle" => billed'[s] = 0 /\ opened'[s] = 0
                        /\ call'[s].at = "calling" =>
                              /\ call'[s].attempts < MaxAttempts
                              /\ billed'[s] <= AttemptCost[s] * call'[s].attempts
                              /\ ~call'[s].doubtful => billed'[s] = 0
                        /\ call'[s].at = "settling" => billed'[s] <= call'[s].owed
                        /\ call'[s].at = "cancelling" =>
                              (~call'[s].doubtful => billed'[s] = 0)
                        /\ s \in InFlight' => opened'[s] \in Days
      BY DEF ChargesBounded, Reservation
    <2>1. CASE s = r
      BY <1>1, <1>2, <1>3, <2>1
    <2>2. CASE s # r
      BY <1>1, <1>2, <1>3, <2>2 DEF ChargesBounded
    <2> QED BY <2>1, <2>2
  <1> QED BY <1>1, <1>4, <1>5

\* ... when nothing was charged.
LEMMA EndsFree ==
  ASSUME TypeOK, ChargesBounded, NEW r \in Requests, call[r].at # "ended", Ends(r),
         opened' = opened, billed' = billed
  PROVE  /\ CallsEnd /\ ChargesBounded'
         /\ call' \in [Requests -> Call] /\ call'[r] = Ended(r) /\ billed'[r] = billed[r]
  <1>1. billed[r] \in Nat /\ billed' = [billed EXCEPT ![r] = billed[r]]
        /\ billed[r] <= Reservation(r)
    BY DEF TypeOK, ChargesBounded
  <1> QED BY <1>1, EndsCalls

\* An attempt at the provider charges its request and moves its thread on.
LEMMA MovesOn ==
  ASSUME TypeOK, ChargesBounded, NEW r \in Requests, call[r].at = "calling",
         NEW c \in Call, call' = [call EXCEPT ![r] = c],
         opened' = opened, NEW b \in Nat, billed' = [billed EXCEPT ![r] = b],
         b <= Reservation(r),
         c.at \in {"calling", "settling", "cancelling", "marking"},
         c.at = "calling" => /\ c.attempts < MaxAttempts
                             /\ b <= AttemptCost[r] * c.attempts
                             /\ ~c.doubtful => b = 0,
         c.at = "settling" => b <= c.owed,
         c.at = "cancelling" => (~c.doubtful => b = 0)
  PROVE  CallsEnd /\ ChargesBounded' /\ call' \in [Requests -> Call]
  <1>1. /\ call'[r] = c
        /\ \A s \in Requests : s # r => call'[s] = call[s]
        /\ call' \in [Requests -> Call]
    BY DEF TypeOK
  <1>2. /\ billed' \in [Requests -> Nat] /\ billed'[r] = b
        /\ \A s \in Requests : s # r => billed'[s] = billed[s]
    BY DEF TypeOK
  <1>3. /\ r \in InFlight /\ opened'[r] \in Days
        /\ \A s \in Requests : s # r => /\ s \in InFlight' <=> s \in InFlight
                                        /\ GivenBack(s)' <=> GivenBack(s)
    BY <1>1 DEF InFlight, GivenBack, ChargesBounded
  <1>4. CallsEnd
    BY <1>2, <1>3 DEF CallsEnd, GivenBack
  <1>5. ChargesBounded'
    <2> SUFFICES ASSUME NEW s \in Requests
                 PROVE  /\ billed'[s] <= Reservation(s)
                        /\ call'[s].at = "idle" => billed'[s] = 0 /\ opened'[s] = 0
                        /\ call'[s].at = "calling" =>
                              /\ call'[s].attempts < MaxAttempts
                              /\ billed'[s] <= AttemptCost[s] * call'[s].attempts
                              /\ ~call'[s].doubtful => billed'[s] = 0
                        /\ call'[s].at = "settling" => billed'[s] <= call'[s].owed
                        /\ call'[s].at = "cancelling" =>
                              (~call'[s].doubtful => billed'[s] = 0)
                        /\ s \in InFlight' => opened'[s] \in Days
      BY DEF ChargesBounded, Reservation
    <2>1. CASE s = r
      BY <1>1, <1>2, <1>3, <2>1
    <2>2. CASE s # r
      BY <1>1, <1>2, <1>3, <2>2 DEF ChargesBounded
    <2> QED BY <2>1, <2>2
  <1> QED BY <1>1, <1>4, <1>5

\* The threads alone step: the files are as they were.
LEMMA FilesStay ==
  ASSUME BudgetInv, CallsEnd, disk' = disk
  PROVE  Limits(disk)' /\ Recoverable(disk)' /\ Books(disk)'
  <1>1. PICK dk \in Disk : dk = disk
    BY DEF BudgetInv, TypeOK
  <1>2. Books(dk)'
    BY <1>1, CallsEndBooks DEF BudgetInv
  <1>3. disk' = dk
    BY <1>1
  <1>4. Limits(dk) /\ Recoverable(dk)
    BY <1>1 DEF BudgetInv
  <1> QED BY <1>2, <1>3, <1>4, NextDisk

\* The invariant from its parts.
LEMMA Parts ==
  ASSUME today' \in Days, disk' \in Disk, call' \in [Requests -> Call],
         billed' \in [Requests -> Nat], opened' \in [Requests -> 0..LastDay],
         ChargesBounded', Limits(disk)', Recoverable(disk)', Books(disk)'
  PROVE  BudgetInv'
  <1>1. TypeOK'
    BY DEF TypeOK, Days
  <1> QED BY <1>1 DEF BudgetInv

\* No ledger, no request: the books are empty.
LEMMA BudgetInit ==
  ASSUME Init PROVE BudgetInv
  <1>1. /\ NothingHeld \in [Requests -> HoldStates] /\ 0 \in 0..LastDay /\ Fresh(0, {}).day = 0
        /\ Fresh(0, {}).from = {}
    BY CostAssumption DEF NothingHeld, HoldStates, Fresh
  <1>2. Fresh(0, {}) \in LedgerFile
    BY <1>1 DEF Fresh, LedgerFile
  <1>3. /\ disk = [ledger |-> Fresh(0, {}), archives |-> {}, receipts |-> {}]
        /\ call = [r \in Requests |-> At("idle")] /\ billed = [r \in Requests |-> 0]
        /\ opened = [r \in Requests |-> 0] /\ today \in Days
    BY DEF Init
  <1>4. TypeOK
    <2>1. disk \in Disk
      BY <1>2, <1>3 DEF Disk
    <2>2. At("idle") \in Call
      BY DEF At, Call, CallAt
    <2> QED BY <1>1, <1>3, <2>1, <2>2 DEF TypeOK
  <1>5. ChargesBounded
    <2>1. \A r \in Requests : /\ billed[r] = 0 /\ opened[r] = 0 /\ call[r].at = "idle"
                              /\ r \notin InFlight
      BY <1>3 DEF At, InFlight
    <2>2. \A r \in Requests : 0 <= Reservation(r)
      BY ReservationType
    <2> QED BY <2>1, <2>2 DEF ChargesBounded
  <1>6. Limits(disk)
    BY <1>3, FreshCommits, CostAssumption DEF Limits
  <1>7. Recoverable(disk)
    BY <1>1, <1>3 DEF Recoverable
  <1>8. Books(disk)
    BY <1>1, <1>3 DEF Books, Days
  <1> QED BY <1>4, <1>5, <1>6, <1>7, <1>8 DEF BudgetInv

\* reserve, settle, cancel or mark_uncertain: the thread waits for the answer or is done.
LEMMA OpSucceedsKeeps ==
  ASSUME BudgetInv, NEW r \in Requests, OpSucceeds(r)
  PROVE  BudgetInv'
  <1>1. /\ TypeOK /\ ChargesBounded /\ Limits(disk) /\ Recoverable(disk) /\ Books(disk)
        /\ Loadable /\ OpAllowed(r) /\ call[r].at \in AtLedger /\ billed' = billed
    BY DEF BudgetInv, OpSucceeds
  <1>2. PICK s \in Disk : s = Written(r)
    BY <1>1, AppliedIs
  <1>3. disk' = s /\ Limits(s) /\ Recoverable(s)
    BY <1>1, <1>2, WrittenKeepsLimits DEF OpSucceeds
  <1>4. /\ today' \in Days /\ billed' \in [Requests -> Nat] /\ today \in 0..LastDay
    BY <1>1 DEF OpSucceeds, TypeOK, Days
  <1>5. CASE call[r].at = "idle"
    <2>1. call' = [call EXCEPT ![r] = At("calling")] /\ opened' = [opened EXCEPT ![r] = today]
      BY <1>5 DEF OpSucceeds
    <2>2. Books(s)'
      BY <1>1, <1>2, <1>5, <2>1, AdmittedBooks
    <2>3. At("calling") \in Call
      BY DEF At, Call, CallAt
    <2>4. call' \in [Requests -> Call] /\ opened' \in [Requests -> 0..LastDay]
      BY <1>1, <1>4, <2>1, <2>3 DEF TypeOK
    <2>5. ChargesBounded'
      <3>1. /\ call'[r].at = "calling" /\ call'[r].attempts = 0 /\ opened'[r] \in Days
            /\ billed'[r] = 0 /\ 0 <= Reservation(r)
        BY <1>1, <1>5, <2>1, ReservationType DEF TypeOK, At, ChargesBounded
      <3>2. 0 < MaxAttempts /\ 0 <= AttemptCost[r] * 0
        BY CostAssumption
      <3>3. \A t \in Requests : t # r => /\ call'[t] = call[t] /\ opened'[t] = opened[t]
                                         /\ billed'[t] = billed[t]
                                         /\ t \in InFlight' <=> t \in InFlight
        BY <1>1, <2>1 DEF TypeOK, InFlight
      <3> QED BY <1>1, <3>1, <3>2, <3>3 DEF ChargesBounded, Reservation
    <2> QED BY <1>3, <1>4, <2>2, <2>4, <2>5, NextDisk, Parts
  <1>6. CASE call[r].at # "idle"
    <2>1. Ends(r) /\ opened' = opened /\ call[r].at # "ended"
      BY <1>1, <1>6 DEF OpSucceeds, AtLedger
    <2>2. /\ CallsEnd /\ ChargesBounded' /\ call' \in [Requests -> Call]
          /\ call'[r] = Ended(r) /\ billed'[r] = billed[r]
      BY <1>1, <2>1, EndsFree
    <2>3. Books(s)'
      BY <1>1, <1>2, <2>2, WrittenBooks
    <2>4. opened' \in [Requests -> 0..LastDay]
      BY <1>1, <2>1 DEF TypeOK
    <2> QED BY <1>3, <1>4, <2>2, <2>3, <2>4, NextDisk, Parts
  <1> QED BY <1>5, <1>6

\* The operation is refused or cut short: its thread ends with it.
LEMMA StagesKeep ==
  ASSUME BudgetInv, NEW r \in Requests, call[r].at # "ended", Ends(r),
         disk' \in Stages(r), UNCHANGED <<today, billed, opened>>
  PROVE  BudgetInv'
  <1>1. TypeOK /\ ChargesBounded /\ Limits(disk) /\ Recoverable(disk) /\ Books(disk)
    BY DEF BudgetInv
  <1>2. /\ CallsEnd /\ ChargesBounded' /\ call' \in [Requests -> Call]
        /\ call'[r] = Ended(r) /\ billed'[r] = billed[r]
    BY <1>1, EndsFree
  <1>3. PICK s \in Stages(r) : s = disk'
    OBVIOUS
  <1>4. s \in Disk /\ Limits(s) /\ Recoverable(s)
    BY <1>1, StagesKeepFiles
  <1>5. Books(s)'
    BY <1>1, <1>2, StagesKeepBooks
  <1>6. /\ today' \in Days /\ billed' \in [Requests -> Nat]
        /\ opened' \in [Requests -> 0..LastDay]
    BY <1>1 DEF TypeOK
  <1> QED BY <1>2, <1>3, <1>4, <1>5, <1>6, NextDisk, Parts

\* The rejected operation leaves the files as the load did.
LEMMA RejectedStage ==
  ASSUME TypeOK, NEW r \in Requests, OpRejected(r)
  PROVE  disk' \in Stages(r)
  <1>1. CASE Loadable
    <2>1. disk' = Loaded /\ Loaded \in LoadStages
      BY <1>1, LoadEnds DEF OpRejected
    <2> QED BY <1>1, <2>1 DEF Stages
  <1>2. CASE ~Loadable
    BY <1>2 DEF OpRejected, Stages
  <1> QED BY <1>1, <1>2

\* What the provider does is not in the files.
LEMMA ThreadsKeep ==
  ASSUME BudgetInv, CallsEnd, ChargesBounded', call' \in [Requests -> Call],
         UNCHANGED <<today, disk, opened>>
  PROVE  BudgetInv'
  <1>1. Limits(disk)' /\ Recoverable(disk)' /\ Books(disk)'
    BY FilesStay
  <1>2. /\ today' \in Days /\ disk' \in Disk /\ billed' \in [Requests -> Nat]
        /\ opened' \in [Requests -> 0..LastDay]
    BY DEF BudgetInv, TypeOK, CallsEnd
  <1> QED BY <1>1, <1>2, Parts

\* One more attempt, whatever its answer, was paid for by the reservation.
LEMMA AttemptKeeps ==
  ASSUME BudgetInv, NEW r \in Requests,
         \/ AttemptSucceeds(r)
         \/ AttemptUncertain(r)
         \/ AttemptRefused(r)
         \/ CallRaises(r)
  PROVE  BudgetInv'
  <1>1. /\ TypeOK /\ ChargesBounded /\ call[r].at = "calling" /\ call[r] \in Call
        /\ r \in InFlight /\ billed[r] \in Nat /\ UNCHANGED <<today, disk, opened>>
    BY DEF BudgetInv, TypeOK, AttemptSucceeds, AttemptUncertain, AttemptRefused, CallRaises,
           InFlight
  <1>2. PICK n \in Nat : n = call[r].attempts
    BY <1>1 DEF Call
  <1>3. n < MaxAttempts /\ billed[r] <= AttemptCost[r] * n /\ billed[r] <= Reservation(r)
        /\ (~call[r].doubtful => billed[r] = 0)
    BY <1>1, <1>2 DEF ChargesBounded
  <1>4. PICK cost \in Nat : cost = AttemptCost[r]
    BY CostAssumption
  <1>5. PICK paid \in Nat : paid = AttemptCost[r] * n
    BY <1>3, AttemptFits
  <1>6. /\ AttemptCost[r] * (n + 1) = paid + cost /\ paid + cost <= Reservation(r)
        /\ Reservation(r) \in Nat /\ billed[r] <= paid
    BY <1>3, <1>4, <1>5, AttemptFits, ReservationType
  <1>7. MaxAttempts \in Nat /\ (~LastAttempt(r) => n + 1 < MaxAttempts)
    BY <1>2, <1>3, CostAssumption DEF LastAttempt
  <1>8. CASE AttemptSucceeds(r)
    <2>1. PICK c \in 0..cost :
             /\ call' = [call EXCEPT ![r].at = "settling", ![r].attempts = @ + 1,
                            ![r].owed = c + AttemptCost[r] * call[r].attempts]
             /\ billed' = [billed EXCEPT ![r] = billed[r] + c]
      BY <1>4, <1>8 DEF AttemptSucceeds, Charge
    <2>2. PICK next : next = [at |-> "settling", attempts |-> n + 1, owed |-> c + paid,
                              doubtful |-> call[r].doubtful]
      OBVIOUS
    <2>3. next \in Call /\ next.at = "settling" /\ next.owed = c + paid
      BY <1>1, <2>2 DEF Call, CallAt
    <2>4. /\ billed[r] + c \in Nat /\ billed[r] + c <= Reservation(r)
          /\ billed[r] + c <= next.owed
      BY <1>1, <1>6, <2>3
    <2>5. call' = [call EXCEPT ![r] = next]
      BY <1>1, <1>2, <1>5, <2>1, <2>2 DEF TypeOK, Call
    <2>6. CallsEnd /\ ChargesBounded' /\ call' \in [Requests -> Call]
      BY <1>1, <2>1, <2>3, <2>4, <2>5, MovesOn
    <2> QED BY <1>1, <2>6, ThreadsKeep
  <1>9. CASE AttemptUncertain(r)
    <2>1. PICK c \in 0..cost, retried \in BOOLEAN :
             /\ retried => ~LastAttempt(r)
             /\ call' = [call EXCEPT ![r].at = IF retried THEN "calling" ELSE "marking",
                            ![r].attempts = @ + 1, ![r].doubtful = TRUE]
             /\ billed' = [billed EXCEPT ![r] = billed[r] + c]
      BY <1>4, <1>9 DEF AttemptUncertain, Charge
    <2>20. PICK place \in {"calling", "marking"} :
             place = IF retried THEN "calling" ELSE "marking"
      OBVIOUS
    <2>2. PICK next : next = [at |-> place, attempts |-> n + 1, owed |-> call[r].owed,
                              doubtful |-> TRUE]
      OBVIOUS
    <2>3. /\ next \in Call /\ next.at \in {"calling", "marking"}
          /\ next.at = "calling" => ~LastAttempt(r)
          /\ next.attempts = n + 1 /\ next.doubtful
      <3>1. next \in Call /\ next.at = place /\ next.attempts = n + 1 /\ next.doubtful
        BY <1>1, <2>2 DEF Call, CallAt
      <3> QED BY <2>1, <2>20, <3>1
    <2>4. /\ billed[r] + c \in Nat /\ billed[r] + c <= Reservation(r)
          /\ billed[r] + c <= AttemptCost[r] * next.attempts
      BY <1>1, <1>6, <2>3
    <2>5. call' = [call EXCEPT ![r] = next]
      BY <1>1, <1>2, <2>1, <2>20, <2>2 DEF TypeOK, Call
    <2>6. CallsEnd /\ ChargesBounded' /\ call' \in [Requests -> Call]
      BY <1>1, <1>7, <2>1, <2>3, <2>4, <2>5, MovesOn
    <2> QED BY <1>1, <2>6, ThreadsKeep
  <1>10. CASE AttemptRefused(r)
    <2>1. PICK retried \in BOOLEAN :
             /\ retried => ~LastAttempt(r)
             /\ call' = [call EXCEPT ![r].at = IF retried THEN "calling" ELSE "cancelling",
                            ![r].attempts = @ + 1]
      BY <1>10 DEF AttemptRefused
    <2>20. PICK place \in {"calling", "cancelling"} :
             place = IF retried THEN "calling" ELSE "cancelling"
      OBVIOUS
    <2>2. PICK next : next = [at |-> place, attempts |-> n + 1, owed |-> call[r].owed,
                              doubtful |-> call[r].doubtful]
      OBVIOUS
    <2>3. /\ next \in Call /\ next.at \in {"calling", "cancelling"}
          /\ next.at = "calling" => ~LastAttempt(r)
          /\ next.attempts = n + 1 /\ next.doubtful = call[r].doubtful
      <3>1. /\ next \in Call /\ next.at = place /\ next.attempts = n + 1
            /\ next.doubtful = call[r].doubtful
        BY <1>1, <2>2 DEF Call, CallAt
      <3> QED BY <2>1, <2>20, <3>1
    <2>4. billed[r] <= AttemptCost[r] * next.attempts
      BY <1>1, <1>6, <2>3
    <2>5. call' = [call EXCEPT ![r] = next] /\ billed' = [billed EXCEPT ![r] = billed[r]]
      BY <1>1, <1>2, <1>10, <2>1, <2>20, <2>2 DEF AttemptRefused, TypeOK, Call
    <2>6. CallsEnd /\ ChargesBounded' /\ call' \in [Requests -> Call]
      BY <1>1, <1>3, <1>7, <2>3, <2>4, <2>5, MovesOn
    <2> QED BY <1>1, <2>6, ThreadsKeep
  <1>11. CASE CallRaises(r)
    <2>1. PICK c \in 0..cost : billed' = [billed EXCEPT ![r] = billed[r] + c]
      BY <1>1, <1>4, <1>11 DEF CallRaises, Charge
    <2>2. Ends(r) /\ billed[r] + c \in Nat /\ billed[r] + c <= Reservation(r)
      BY <1>1, <1>6, <1>11 DEF CallRaises
    <2>3. CallsEnd /\ ChargesBounded' /\ call' \in [Requests -> Call]
      BY <1>1, <2>1, <2>2, EndsCalls
    <2> QED BY <1>1, <2>3, ThreadsKeep
  <1> QED BY <1>8, <1>9, <1>10, <1>11

\* A load on its own, or a new ledger opened by the operator's tool.
LEMMA FiledKeeps ==
  ASSUME BudgetInv, Filed(disk'), UNCHANGED <<today, call, billed, opened>>
  PROVE  BudgetInv'
  <1>1. TypeOK /\ ChargesBounded /\ Limits(disk) /\ Recoverable(disk) /\ Books(disk)
    BY DEF BudgetInv
  <1>2. PICK s : s = disk'
    OBVIOUS
  <1>3. s \in Disk /\ Filed(s) /\ Limits(s) /\ Recoverable(s) /\ Books(s)
    <2>1. Filed(s)
      BY <1>2
    <2> QED BY <1>1, <2>1, FiledKeepsLimits, FiledKeepsBooks DEF Filed
  <1>4. CallsEnd /\ ChargesBounded'
    BY <1>1 DEF CallsEnd, ChargesBounded, InFlight, GivenBack, Reservation, TypeOK
  <1>5. Books(s)'
    BY <1>1, <1>3, <1>4, CallsEndBooks
  <1>6. /\ today' \in Days /\ call' \in [Requests -> Call] /\ billed' \in [Requests -> Nat]
        /\ opened' \in [Requests -> 0..LastDay]
    BY <1>1 DEF TypeOK
  <1> QED BY <1>2, <1>3, <1>4, <1>5, <1>6, NextDisk, Parts

\* What the operator's tool leaves is filed too.
LEMMA ReconcileFiles ==
  ASSUME TypeOK, Recoverable(disk), Reconcile
  PROVE  Filed(disk')
  <1> DEFINE old == PageOf(disk.ledger)
             kept == [disk EXCEPT !.archives = @ \cup {old}]
  <1>1. /\ disk \in Disk /\ disk.ledger \in LedgerFile /\ disk.archives \subseteq Page
        /\ disk.receipts \subseteq Page /\ old \in Page
        /\ today \in Nat /\ disk.ledger.day \in Nat
    BY StageFields DEF TypeOK
  <1>2. /\ Fresh(today, {}) \in LedgerFile /\ Fresh(today, {}).from = {}
    BY FreshType
  <1>3. disk.ledger.from \subseteq disk.archives /\ disk.receipts \subseteq disk.archives
    BY DEF Recoverable
  <1>4. disk.ledger.day < today
    BY <1>1 DEF Reconcile, Stale
  <1>5. kept = [ledger |-> disk.ledger, archives |-> disk.archives \cup {old},
                receipts |-> disk.receipts]
    BY <1>1 DEF Disk
  <1> HIDE DEF kept, old
  <1>6. [kept EXCEPT !.ledger = Fresh(today, {})] =
           [ledger |-> Fresh(today, {}), archives |-> disk.archives \cup {old},
            receipts |-> disk.receipts]
    BY <1>5
  <1>7. PICK s : s = disk'
    OBVIOUS
  <1>8. \/ s = [ledger |-> disk.ledger, archives |-> disk.archives \cup {old},
                receipts |-> disk.receipts]
        \/ s = [ledger |-> Fresh(today, {}), archives |-> disk.archives \cup {old},
                receipts |-> disk.receipts]
    <2>1. disk' \in {kept, [kept EXCEPT !.ledger = Fresh(today, {})]}
      BY DEF Reconcile, kept, old
    <2> QED BY <1>5, <1>6, <1>7, <2>1
  <1>9. s \in Disk /\ Recoverable(s)
    BY <1>1, <1>2, <1>3, <1>8 DEF Disk, Recoverable
  <1>10. Filed(s)
    BY <1>1, <1>3, <1>4, <1>8, <1>9 DEF Filed, old
  <1> QED BY <1>7, <1>10

\* A crash ends what was under way, and cuts short at most one operation.
LEMMA CrashKeeps ==
  ASSUME BudgetInv, Crash
  PROVE  BudgetInv'
  <1>1. TypeOK /\ ChargesBounded /\ Limits(disk) /\ Recoverable(disk) /\ Books(disk)
    BY DEF BudgetInv
  <1>2. PICK cut \in SUBSET Requests :
           /\ Cardinality(cut) <= 1
           /\ \A r \in cut : call[r].at \in AtLedger /\ disk' \in Stages(r)
           /\ cut = {} => disk' = disk
           /\ call' = [r \in Requests |->
                 IF r \in InFlight \cup cut THEN Ended(r) ELSE call[r]]
    BY DEF Crash
  <1>3. PICK charged \in SUBSET {r \in Requests : call[r].at = "calling"} :
           billed' = [r \in Requests |->
              IF r \in charged THEN billed[r] + AttemptCost[r] ELSE billed[r]]
    BY DEF Crash
  <1>4. /\ today' = today /\ opened' = opened
        /\ today' \in Days /\ opened' \in [Requests -> 0..LastDay]
    BY <1>1 DEF Crash, TypeOK
  <1>5. \A r \in Requests :
           /\ r \in InFlight \cup cut => call'[r] = Ended(r) /\ call'[r].at = "ended"
           /\ r \notin InFlight \cup cut => call'[r] = call[r]
           /\ r \notin InFlight'
           /\ call'[r].at \in {"idle", "ended"}
           /\ call'[r] \in Call
           /\ GivenBack(r) => call'[r] = call[r]
    <2> TAKE r \in Requests
    <2>1. CASE r \in InFlight \cup cut
      <3>1. call'[r] = Ended(r) /\ call'[r].at = "ended"
        BY <1>2, <2>1 DEF Ended, At
      <3>2. Ended(r) \in Call /\ call[r].at # "ended"
        BY <1>2, <2>1 DEF Ended, At, Call, CallAt, InFlight, AtLedger
      <3> QED BY <2>1, <3>1, <3>2 DEF InFlight, GivenBack
    <2>2. CASE r \notin InFlight \cup cut
      <3>1. call'[r] = call[r] /\ call[r] \in Call
        BY <1>1, <1>2, <2>2 DEF TypeOK
      <3> QED BY <2>2, <3>1 DEF InFlight, Call, CallAt
    <2> QED BY <2>1, <2>2
  <1>6. call' \in [Requests -> Call]
    BY <1>2, <1>5
  <1>7. ASSUME NEW r \in Requests
        PROVE  /\ billed'[r] \in Nat /\ billed'[r] <= Reservation(r)
               /\ r \notin charged => billed'[r] = billed[r]
               /\ r \in charged => call[r].at = "calling"
    <2>1. billed[r] \in Nat /\ AttemptCost[r] \in Nat /\ Reservation(r) \in Nat
          /\ billed[r] <= Reservation(r)
      BY <1>1, CostAssumption, ReservationType DEF TypeOK, ChargesBounded
    <2>2. CASE r \in charged
      <3>1. /\ call[r].at = "calling" /\ call[r].attempts \in Nat
            /\ call[r].attempts < MaxAttempts
            /\ billed[r] <= AttemptCost[r] * call[r].attempts
        BY <1>1, <2>2 DEF TypeOK, Call, ChargesBounded
      <3>2. PICK paid \in Nat : paid = AttemptCost[r] * call[r].attempts
        BY <3>1, AttemptFits
      <3>3. paid + AttemptCost[r] <= Reservation(r)
        BY <3>1, <3>2, AttemptFits
      <3> QED BY <1>3, <2>1, <2>2, <3>1, <3>2, <3>3
    <2>3. CASE r \notin charged
      BY <1>3, <2>1, <2>3
    <2> QED BY <2>2, <2>3
  <1>8. billed' \in [Requests -> Nat]
    BY <1>3, <1>7
  <1>9. CallsEnd
    <2>1. \A r \in Requests : r \notin InFlight => billed'[r] = billed[r]
      BY <1>7 DEF InFlight
    <2>2. \A r \in Requests : GivenBack(r) => GivenBack(r)'
      BY <1>5 DEF GivenBack
    <2> QED BY <1>4, <1>5, <1>8, <2>1, <2>2 DEF CallsEnd
  <1>10. ChargesBounded'
    <2>1. ASSUME NEW r \in Requests, call'[r].at = "idle"
          PROVE  billed'[r] = 0 /\ opened'[r] = 0
      <3>1. call[r].at = "idle"
        BY <1>5, <2>1
      <3> QED BY <1>1, <1>4, <1>7, <3>1 DEF ChargesBounded
    <2> QED BY <1>5, <1>7, <2>1 DEF ChargesBounded, Reservation
  <1>11. Limits(disk)' /\ Recoverable(disk)' /\ Books(disk)' /\ disk' \in Disk
    <2>1. CASE cut = {}
      <3>1. disk' = disk
        BY <1>2, <2>1
      <3> QED BY <1>1, <1>9, <3>1, FilesStay DEF TypeOK
    <2>2. CASE cut # {}
      <3>1. PICK r \in cut : TRUE
        BY <2>2
      <3>2. /\ r \in Requests /\ disk' \in Stages(r) /\ call'[r] = Ended(r)
            /\ call[r].at # "calling"
        BY <1>2, <1>5, <3>1 DEF AtLedger
      <3>3. billed'[r] = billed[r]
        BY <1>7, <3>2
      <3>4. PICK s \in Stages(r) : s = disk'
        BY <3>2
      <3>5. s \in Disk /\ Limits(s) /\ Recoverable(s)
        BY <1>1, <3>2, StagesKeepFiles
      <3>6. Books(s)'
        BY <1>1, <1>9, <3>2, <3>3, StagesKeepBooks
      <3> QED BY <3>4, <3>5, <3>6, NextDisk
    <2> QED BY <2>1, <2>2
  <1> QED BY <1>4, <1>6, <1>8, <1>10, <1>11, Parts

\* The clock is in no file.
LEMMA ClockKeeps ==
  ASSUME BudgetInv, ClockMoves
  PROVE  BudgetInv'
  <1>1. TypeOK /\ ChargesBounded
    BY DEF BudgetInv
  <1>2. /\ disk' = disk /\ call' = call /\ billed' = billed /\ opened' = opened
        /\ today' \in Days
    BY DEF ClockMoves
  <1>3. CallsEnd /\ ChargesBounded'
    BY <1>1, <1>2 DEF CallsEnd, ChargesBounded, InFlight, GivenBack, Reservation, TypeOK
  <1>4. Limits(disk)' /\ Recoverable(disk)' /\ Books(disk)'
    BY <1>2, <1>3, FilesStay
  <1> QED BY <1>1, <1>2, <1>3, <1>4, Parts DEF TypeOK

\* Every step keeps the invariant.
LEMMA BudgetStep ==
  ASSUME BudgetInv, [Next]_budgetVars
  PROVE  BudgetInv'
  <1>0. TypeOK /\ Recoverable(disk)
    BY DEF BudgetInv
  <1>1. ASSUME NEW r \in Requests, OpSucceeds(r) PROVE BudgetInv'
    BY <1>1, OpSucceedsKeeps
  <1>2. ASSUME NEW r \in Requests, OpRejected(r) PROVE BudgetInv'
    <2>1. disk' \in Stages(r) /\ Ends(r) /\ UNCHANGED <<today, billed, opened>>
          /\ call[r].at # "ended"
      BY <1>0, <1>2, RejectedStage DEF OpRejected, AtLedger
    <2> QED BY <2>1, StagesKeep
  <1>3. ASSUME NEW r \in Requests, StorageFails(r) PROVE BudgetInv'
    <2>1. disk' \in Stages(r) /\ Ends(r) /\ UNCHANGED <<today, billed, opened>>
          /\ call[r].at # "ended"
      BY <1>3 DEF StorageFails, AtLedger
    <2> QED BY <2>1, StagesKeep
  <1>4. ASSUME NEW r \in Requests,
               \/ AttemptSucceeds(r)
               \/ AttemptUncertain(r)
               \/ AttemptRefused(r)
               \/ CallRaises(r)
        PROVE  BudgetInv'
    BY <1>4, AttemptKeeps
  <1>5. CASE Snapshot
    <2>1. Filed(disk')
      <3>1. disk' = Loaded /\ Loaded \in LoadStages
        BY <1>0, <1>5, LoadEnds DEF Snapshot
      <3>2. PICK s \in LoadStages : s = disk'
        BY <3>1
      <3>3. Filed(s)
        BY <1>0, StagesFiled
      <3> QED BY <3>2, <3>3
    <2> QED BY <1>5, <2>1, FiledKeeps DEF Snapshot
  <1>6. CASE ClockMoves
    BY <1>6, ClockKeeps
  <1>7. CASE Crash
    BY <1>7, CrashKeeps
  <1>8. CASE Reconcile
    <2>1. Filed(disk')
      BY <1>0, <1>8, ReconcileFiles
    <2> QED BY <1>8, <2>1, FiledKeeps DEF Reconcile
  <1>9. CASE UNCHANGED budgetVars
    <2>1. /\ today' = today /\ disk' = disk /\ call' = call /\ billed' = billed
          /\ opened' = opened
      BY <1>9 DEF budgetVars
    <2>2. CallsEnd /\ ChargesBounded' /\ call' \in [Requests -> Call]
      BY <2>1 DEF BudgetInv, CallsEnd, ChargesBounded, InFlight, GivenBack, Reservation, TypeOK
    <2> QED BY <2>1, <2>2, ThreadsKeep
  <1> QED BY <1>1, <1>2, <1>3, <1>4, <1>5, <1>6, <1>7, <1>8, <1>9 DEF Next

\* The invariant holds throughout.
LEMMA BudgetInvariant == Spec => []BudgetInv
  <1>1. Init => BudgetInv
    BY BudgetInit
  <1>2. BudgetInv /\ [Next]_budgetVars => BudgetInv'
    BY BudgetStep
  <1> QED BY <1>1, <1>2, PTL DEF Spec

--------------------------------------------------------------------------------
(* What follows from the invariant. *)

\* The ledger, the threads and the history keep their types (budget.py, audited.py).
THEOREM BudgetTypeCorrect == Spec => []TypeOK
  <1>1. BudgetInv => TypeOK
    BY DEF BudgetInv
  <1> QED BY <1>1, BudgetInvariant, PTL

\* No page, live or archived, commits more than the day's limit, whatever threads reserve
\* at once and wherever an operation is cut short (budget.py, reserve).
THEOREM BudgetLimitHolds == Spec => []LimitHolds
  <1>1. BudgetInv => LimitHolds
    BY DEF BudgetInv, Limits, LimitHolds
  <1> QED BY <1>1, BudgetInvariant, PTL

\* Whatever a rollover leaves behind can be loaded again (budget.py, _load_state).
THEOREM BudgetRecoverable == Spec => []RolloverRecoverable
  <1>1. BudgetInv => RolloverRecoverable
    BY DEF BudgetInv, Recoverable, RolloverRecoverable
  <1> QED BY <1>1, BudgetInvariant, PTL

\* A page that accounts for its day commits at least what the day was charged.
LEMMA AccountCovers ==
  ASSUME TypeOK, ChargesBounded, NEW page \in Page, NEW d, Accounts(page, d)
  PROVE  SumFunctionOnSet(billed, Admitted(d)) <= Committed(page)
  <1> DEFINE gone == Released(page, d)
             kept == Admitted(d) \ gone
  <1>1. /\ gone \in SUBSET Requests /\ kept \in SUBSET Requests /\ gone \cap kept = {}
        /\ Admitted(d) = gone \cup kept /\ Held(page) \in SUBSET Requests
        /\ kept \subseteq Held(page)
    BY DEF Released, Admitted, Held
  <1>2. /\ IsFiniteSet(Requests) /\ billed \in [Requests -> Nat]
        /\ Reservations \in [Requests -> Nat]
        /\ \A r \in kept : billed[r] <= Reservations[r]
    BY CostAssumption, ReservationType DEF TypeOK, ChargesBounded, Admitted
  <1> HIDE DEF gone, kept
  <1>3. SumFunctionOnSet(billed, Admitted(d)) =
           SumFunctionOnSet(billed, gone) + SumFunctionOnSet(billed, kept)
    BY <1>1, <1>2, SumSplits
  <1>4. SumFunctionOnSet(billed, kept) <= Reserved(page)
    <2>1. SumFunctionOnSet(billed, kept) <= SumFunctionOnSet(Reservations, Held(page))
      BY <1>1, <1>2, SumMonotone
    <2> QED BY <2>1, ReservedIs
  <1>5. SumFunctionOnSet(billed, gone) <= page.spent
    BY DEF Accounts, gone
  <1>6. /\ SumFunctionOnSet(billed, gone) \in Nat /\ SumFunctionOnSet(billed, kept) \in Nat
        /\ Reserved(page) \in Nat /\ page.spent \in Nat
    BY <1>1, <1>2, SumType, ReservedIs DEF Page
  <1> QED BY <1>3, <1>4, <1>5, <1>6 DEF Committed

\* With one attempt a request, only one to be marked uncertain may have been charged in
\* doubt: nothing doubtful is ever refused, and no reservation given back.
SingleAttempt ==
    MaxAttempts = 1 => \A r \in Requests : call[r].doubtful => call[r].at = "marking"

\* An attempt that leaves a doubt is the last, so its request is marked uncertain.
LEMMA SingleAttemptStep ==
  ASSUME BudgetInv, SingleAttempt, [Next]_budgetVars
  PROVE  SingleAttempt'
  <1> SUFFICES ASSUME MaxAttempts = 1, NEW s \in Requests, call'[s].doubtful
               PROVE  call'[s].at = "marking"
    BY DEF SingleAttempt
  <1>1. /\ call \in [Requests -> Call]
        /\ \A r \in Requests : call[r].doubtful => call[r].at = "marking"
        /\ \A r \in Requests : call[r].at = "calling" => LastAttempt(r)
    <2>1. \A r \in Requests : call[r].attempts \in Nat
      BY DEF BudgetInv, TypeOK, Call
    <2> QED BY <2>1 DEF BudgetInv, TypeOK, ChargesBounded, SingleAttempt, LastAttempt
  <1>2. \A r \in Requests : ~Ended(r).doubtful
    BY <1>1 DEF Ended, At
  <1>3. ASSUME NEW r \in Requests, Ends(r) PROVE call'[s].at = "marking"
    BY <1>1, <1>2, <1>3 DEF Ends
  <1>4. ASSUME NEW r \in Requests, OpSucceeds(r) PROVE call'[s].at = "marking"
    <2>1. CASE call[r].at = "idle"
      BY <1>1, <1>4, <2>1 DEF OpSucceeds, At
    <2>2. CASE call[r].at # "idle"
      BY <1>3, <1>4, <2>2 DEF OpSucceeds
    <2> QED BY <2>1, <2>2
  <1>5. ASSUME NEW r \in Requests, AttemptSucceeds(r) PROVE call'[s].at = "marking"
    BY <1>1, <1>5 DEF AttemptSucceeds
  <1>6. ASSUME NEW r \in Requests, AttemptUncertain(r) PROVE call'[s].at = "marking"
    BY <1>1, <1>6 DEF AttemptUncertain
  <1>7. ASSUME NEW r \in Requests, AttemptRefused(r) PROVE call'[s].at = "marking"
    BY <1>1, <1>7 DEF AttemptRefused
  <1>8. CASE Crash
    BY <1>1, <1>2, <1>8 DEF Crash
  <1>9. CASE Snapshot \/ ClockMoves \/ Reconcile \/ UNCHANGED budgetVars
    BY <1>1, <1>9 DEF Snapshot, ClockMoves, Reconcile, budgetVars
  <1> QED BY <1>3, <1>4, <1>5, <1>6, <1>7, <1>8, <1>9
          DEF Next, OpRejected, StorageFails, CallRaises

\* So it holds throughout.
LEMMA SingleAttemptInvariant == Spec => []SingleAttempt
  <1>1. Init => SingleAttempt
    BY DEF Init, SingleAttempt, At
  <1>2. BudgetInv /\ SingleAttempt /\ [Next]_budgetVars => SingleAttempt'
    BY SingleAttemptStep
  <1> QED BY <1>1, <1>2, BudgetInvariant, PTL DEF Spec

\* However a request and its day end, the page of the day holds what it was charged
\* (audited.py, the outcomes of a call; budget.py, settle, cancel, mark_uncertain):
\* every request with the one attempt Core gives it (providers/runtime.py:19,78), and with more
\* all but those refused after a doubtful attempt.
THEOREM BudgetCostsHeld == Spec => []CostsHeld
  <1>1. ASSUME BudgetInv, SingleAttempt PROVE CostsHeld
    <2>1. /\ TypeOK /\ ChargesBounded /\ Books(disk) /\ disk.ledger.day \in Nat
          /\ disk.archives \subseteq Page /\ PageOf(disk.ledger) \in Page
      BY <1>1, StageFields DEF BudgetInv
    <2>2. ASSUME NEW d \in Days, Admitted(d) # {}
          PROVE  \E page \in disk.archives \cup {PageOf(disk.ledger)} :
                    page.day = d /\ Accounts(page, d)
      <3>1. d \in Nat /\ d <= disk.ledger.day
        BY <2>1, <2>2 DEF Books, Admitted, Days
      <3>2. CASE d = disk.ledger.day
        <4>1. Accounts(PageOf(disk.ledger), d) /\ PageOf(disk.ledger).day = d
          BY <2>1, <3>2 DEF Books, PageOf
        <4> QED BY <4>1
      <3>3. CASE d < disk.ledger.day
        BY <2>1, <2>2, <3>3 DEF Books
      <3> QED BY <2>1, <3>1, <3>2, <3>3
    <2>3. ChargesCovered
      <3> SUFFICES ASSUME NEW d \in Days, Admitted(d) # {}
                   PROVE  \E page \in disk.archives \cup {PageOf(disk.ledger)} :
                             /\ page.day = d
                             /\ SumFunctionOnSet(billed, Admitted(d)) <= Committed(page)
        <4>1. \A r \in Requests : GivenBack(r) <=> RefusedAfterDoubt(r)
          BY <1>1, CostAssumption DEF GivenBack, RefusedAfterDoubt, SingleAttempt
        <4> QED BY <4>1 DEF ChargesCovered, Admitted
      <3>1. PICK page \in disk.archives \cup {PageOf(disk.ledger)} :
               page.day = d /\ Accounts(page, d)
        BY <2>2
      <3>2. page \in Page
        BY <2>1
      <3> QED BY <2>1, <3>1, <3>2, AccountCovers
    <2>4. CallsHoldReservations
      <3> SUFFICES ASSUME NEW r \in InFlight
                   PROVE  \E page \in disk.archives \cup {PageOf(disk.ledger)} :
                             page.day = opened[r] /\ page.held[r] # "none"
        BY DEF CallsHoldReservations, InFlight
      <3>1. opened[r] \in Days /\ r \in Admitted(opened[r])
        BY <2>1 DEF ChargesBounded, InFlight, Admitted, GivenBack
      <3>2. PICK page \in disk.archives \cup {PageOf(disk.ledger)} :
               page.day = opened[r] /\ Accounts(page, opened[r])
        BY <2>2, <3>1
      <3> QED BY <3>2 DEF Accounts
    <2> QED BY <2>3, <2>4 DEF CostsHeld
  <1> QED BY <1>1, BudgetInvariant, SingleAttemptInvariant, PTL

--------------------------------------------------------------------------------
(* What a step may never do. *)

Permanent(s) ==
    /\ disk.archives \subseteq s.archives
    /\ disk.receipts \subseteq s.receipts
    /\ disk.ledger.day <= s.ledger.day
    /\ disk.ledger.day \notin {0, s.ledger.day} => PageOf(disk.ledger) \in s.archives
    /\ /\ disk.ledger.day = s.ledger.day
       /\ PageOf(disk.ledger) # PageOf(s.ledger)
       => disk.ledger.from \subseteq s.receipts

\* A new ledger is opened on a later day, with the old one archived.
LEMMA FiledPermanent ==
  ASSUME TypeOK, NEW s, Filed(s)
  PROVE  Permanent(s)
  <1>1. disk.ledger.day \in Nat /\ today \in Nat
    BY StageFields
  <1>2. CASE s.ledger = disk.ledger
    BY <1>1, <1>2 DEF Filed, Permanent
  <1>3. CASE s.ledger # disk.ledger
    <2>1. disk.ledger.day < today /\ s.ledger.day = today
          /\ (disk.ledger.day # 0 => PageOf(disk.ledger) \in s.archives)
      <3>1. PICK from : s.ledger = Fresh(today, from)
        BY <1>3 DEF Filed
      <3> QED BY <1>3, <3>1 DEF Filed, Fresh
    <2>2. disk.archives \subseteq s.archives /\ disk.receipts \subseteq s.receipts
      BY DEF Filed
    <2>3. disk.ledger.day <= s.ledger.day /\ disk.ledger.day # s.ledger.day
      BY <1>1, <2>1
    <2> QED BY <2>1, <2>2, <2>3 DEF Permanent
  <1> QED BY <1>2, <1>3

\* An operation changes the ledger of today, whose receipt the load has written.
LEMMA WrittenPermanent ==
  ASSUME TypeOK, Recoverable(disk), Loadable, NEW r \in Requests, OpAllowed(r)
  PROVE  Permanent(Written(r))
  <1>1. /\ Filed(Loaded) /\ Written(r).archives = Loaded.archives
        /\ Written(r).receipts = Loaded.receipts /\ Written(r).ledger.day = today
    BY AppliedIs
  <1>2. /\ Loaded.ledger.day = today
        /\ disk.ledger.day = today => disk.ledger.from \subseteq Loaded.receipts
    BY LoadEnds
  <1>3. Permanent(Loaded)
    BY <1>1, FiledPermanent
  <1> QED BY <1>1, <1>2, <1>3 DEF Permanent

\* Wherever an operation is cut short.
LEMMA StagesPermanent ==
  ASSUME TypeOK, Recoverable(disk), NEW r \in Requests, NEW s \in Stages(r)
  PROVE  Permanent(s)
  <1>1. CASE s = disk
    BY <1>1, StageFields DEF Permanent
  <1>2. CASE s \in LoadStages
    <2>1. Filed(s)
      BY <1>2, StagesFiled
    <2> QED BY <2>1, FiledPermanent
  <1>3. CASE Loadable /\ OpAllowed(r) /\ s = Written(r)
    BY <1>3, WrittenPermanent
  <1> QED BY <1>1, <1>2, <1>3 DEF Stages

\* Archives and receipts stay, a page is left only by archiving it, and a ledger opened by
\* a rollover changes only once its receipt exists (budget.py, _load_state and _write_json).
THEOREM BudgetBooksPermanent == Spec => BooksPermanent
  <1> DEFINE Step == /\ disk.archives \subseteq disk'.archives
                     /\ disk.receipts \subseteq disk'.receipts
                     /\ disk.ledger.day <= disk'.ledger.day
                     /\ disk.ledger.day \notin {0, disk'.ledger.day} =>
                           PageOf(disk.ledger) \in disk'.archives
                     /\ /\ disk.ledger.day = disk'.ledger.day
                        /\ PageOf(disk.ledger) # PageOf(disk'.ledger)
                        => disk.ledger.from \subseteq disk'.receipts
  <1>1. ASSUME BudgetInv, Next PROVE Step
    <2>1. TypeOK /\ Recoverable(disk)
      BY <1>1 DEF BudgetInv
    <2>2. PICK s : s = disk'
      OBVIOUS
    <2>3. Permanent(s) => Step
      BY <2>2 DEF Permanent
    <2>4. s = disk => Permanent(s)
      BY <2>1, StageFields DEF Permanent
    <2>5. \A r \in Requests : s \in Stages(r) => Permanent(s)
      BY <2>1, StagesPermanent
    <2>6. Filed(s) => Permanent(s)
      BY <2>1, FiledPermanent
    <2> HIDE DEF Step
    <2>7. ASSUME NEW r \in Requests, OpSucceeds(r) PROVE Step
      <3>1. s \in Stages(r)
        BY <2>2, <2>7 DEF OpSucceeds, Stages
      <3> QED BY <2>3, <2>5, <3>1
    <2>8. ASSUME NEW r \in Requests, OpRejected(r) PROVE Step
      <3>1. s \in Stages(r)
        BY <2>1, <2>2, <2>8, RejectedStage
      <3> QED BY <2>3, <2>5, <3>1
    <2>9. ASSUME NEW r \in Requests, StorageFails(r) PROVE Step
      <3>1. s \in Stages(r)
        BY <2>2, <2>9 DEF StorageFails
      <3> QED BY <2>3, <2>5, <3>1
    <2>10. ASSUME NEW r \in Requests,
                  \/ AttemptSucceeds(r)
                  \/ AttemptUncertain(r)
                  \/ AttemptRefused(r)
                  \/ CallRaises(r)
           PROVE  Step
      <3>1. s = disk
        BY <2>2, <2>10 DEF AttemptSucceeds, AttemptUncertain, AttemptRefused, CallRaises
      <3> QED BY <2>3, <2>4, <3>1
    <2>11. CASE Snapshot
      <3>1. s = Loaded /\ Loaded \in LoadStages
        BY <2>1, <2>2, <2>11, LoadEnds DEF Snapshot
      <3>2. Filed(s)
        BY <2>1, <3>1, StagesFiled
      <3> QED BY <2>3, <2>6, <3>2
    <2>12. CASE ClockMoves
      <3>1. s = disk
        BY <2>2, <2>12 DEF ClockMoves
      <3> QED BY <2>3, <2>4, <3>1
    <2>13. CASE Crash
      <3>1. PICK cut \in SUBSET Requests :
               /\ \A r \in cut : disk' \in Stages(r)
               /\ cut = {} => disk' = disk
        BY <2>13 DEF Crash
      <3>2. s = disk \/ \E r \in Requests : s \in Stages(r)
        BY <2>2, <3>1
      <3> QED BY <2>3, <2>4, <2>5, <3>2
    <2>14. CASE Reconcile
      <3>1. Filed(s)
        BY <2>1, <2>2, <2>14, ReconcileFiles
      <3> QED BY <2>3, <2>6, <3>1
    <2> QED BY <1>1, <2>7, <2>8, <2>9, <2>10, <2>11, <2>12, <2>13, <2>14 DEF Next
  <1>2. ASSUME BudgetInv, [Next]_budgetVars PROVE [Step]_budgetVars
    BY <1>1, <1>2
  <1> QED BY <1>2, BudgetInvariant, PTL DEF Spec, BooksPermanent
================================================================================
