---------------------------- MODULE DayWaitlist -----------------------------
(***************************************************************************)
(* The waitlist of one full day: joining, the one standing offer, claiming *)
(* it, and every path that hands the day on: a cancellation, the expiry    *)
(* cron, and the SMS outbox giving up on the text of an offer.             *)
(*                                                                         *)
(* Every path is a REPEATABLE READ transaction with two steps here. It     *)
(* begins, and what it reads is fixed in seen[w]. It finishes, and its     *)
(* writes are checked against the live table: a row that has changed since *)
(* the snapshot is a serialization failure, a second 'offered' row of the  *)
(* day is refused by the index modryn_one_offer_per_day. The rows written  *)
(* stay locked until the commit, so writing and committing are one step.   *)
(***************************************************************************)
EXTENDS Integers, FiniteSets

CONSTANTS
    Phones,          \* customers who may ask for the day
    Legacy,          \* waiting since before numbers were normalised: untextable
    Clerks,          \* HTTP workers
    Expirer,         \* the offer expiry cron
    Drainer,         \* the outbox drain cron
    MaxCandidates,   \* MAX_OFFER_CANDIDATES
    Hours,           \* bookable hours of the day, counted in seats
    MaxOffers,       \* bound: offers made to one customer
    MaxCrashes       \* bound: workers recycled in the middle of a transaction

ASSUME PhonesFinite   == IsFiniteSet(Phones)
ASSUME ClerksFinite   == IsFiniteSet(Clerks)
ASSUME LegacyPhones   == Legacy \subseteq Phones
ASSUME ProcsDistinct  == Expirer # Drainer /\ {Expirer, Drainer} \cap Clerks = {}
ASSUME BoundsNat      == Hours \in Nat /\ MaxOffers \in Nat \ {0} /\ MaxCrashes \in Nat
ASSUME CandidatesPos  == MaxCandidates \in Nat \ {0}

Procs == Clerks \cup {Expirer, Drainer}

VARIABLES
    entry,           \* committed rows: the state, and how many offers were made
    born,            \* rank by create_date; 0 while she has never joined
    lapsed,          \* customers whose standing offer has outlived its two hours
    free,            \* seats of the day nobody has booked
    claims,          \* history: hours booked through her claim links
    doing,           \* what each process's transaction is
    subject,         \* the customers it is about
    seen,            \* its snapshot of the entries
    crashes          \* crashes so far

vars == <<entry, born, lapsed, free, claims, doing, subject, seen, crashes>>

States == {"absent", "waiting", "offered", "claimed", "expired"}
Kinds  == {"idle", "join", "cancel", "claim", "expire", "reclaim"}
Rows   == [state : States, offer : 0 .. MaxOffers]

NoRows == [p \in Phones |-> [state |-> "absent", offer |-> 0]]

TypeOK ==
    /\ entry   \in [Phones -> Rows]
    /\ born    \in [Phones -> Nat]
    /\ lapsed  \subseteq Phones
    /\ free    \in 0 .. Hours
    /\ claims  \in [Phones -> Nat]
    /\ doing   \in [Procs -> Kinds]
    /\ subject \in [Procs -> SUBSET Phones]
    /\ seen    \in [Procs -> [Phones -> Rows]]
    /\ crashes \in 0 .. MaxCrashes

\* A day that is sold out; only rows written by older code are waiting.
Init ==
    /\ entry   = [p \in Phones |-> [state |-> IF p \in Legacy THEN "waiting" ELSE "absent",
                                    offer |-> 0]]
    /\ born    \in [Phones -> 0 .. Cardinality(Phones)]
    /\ \A p \in Phones : born[p] > 0 <=> p \in Legacy
    /\ \A p, q \in Legacy : born[p] = born[q] => p = q
    /\ \A p \in Legacy : born[p] <= Cardinality(Legacy)
    /\ lapsed  = {}
    /\ free    = 0
    /\ claims  = [p \in Phones |-> 0]
    /\ doing   = [w \in Procs |-> "idle"]
    /\ subject = [w \in Procs |-> {}]
    /\ seen    = [w \in Procs |-> NoRows]
    /\ crashes = 0

-----------------------------------------------------------------------------
(* Transactions.                                                           *)

\* Of the snapshot, only the rows the transaction will look at are kept.
Begin(w, kind, about, reads) ==
    /\ doing[w] = "idle"
    /\ doing'   = [doing EXCEPT ![w] = kind]
    /\ subject' = [subject EXCEPT ![w] = about]
    /\ seen'    = [seen EXCEPT ![w] =
                      [p \in Phones |-> IF p \in reads THEN entry[p] ELSE NoRows[p]]]
    /\ UNCHANGED <<entry, born, lapsed, free, claims, crashes>>

\* The transaction is over; its snapshot means nothing any more.
End(w) ==
    /\ doing'   = [doing EXCEPT ![w] = "idle"]
    /\ subject' = [subject EXCEPT ![w] = {}]
    /\ seen'    = [seen EXCEPT ![w] = NoRows]

\* No row of R has been updated by another transaction since w's snapshot. A
\* row is never twice in one (state, offer), so comparing values finds every
\* update.
Unchanged(w, R) == \A p \in R : entry[p] = seen[w][p]

Standing(rows) == {p \in Phones : rows[p].state = "offered"}

ExpireIn(rows, R) ==
    [p \in Phones |-> IF p \in R THEN [rows[p] EXCEPT !.state = "expired"] ELSE rows[p]]

-----------------------------------------------------------------------------
(* modryn_offer_next: give the front of the line first refusal.            *)

Waiting(rows) == {p \in Phones : rows[p].state = "waiting"}

\* search(..., order='create_date asc', limit=MAX_OFFER_CANDIDATES)
Candidates(rows) ==
    {p \in Waiting(rows) :
        Cardinality({q \in Waiting(rows) : born[q] < born[p]}) < MaxCandidates}

\* Variant: order='create_date desc'.
LastOf(R) == {p \in R : \A q \in R : born[q] <= born[p]}

FirstOf(R) == {p \in R : \A q \in R : born[p] <= born[q]}

\* Variant: only the front of the line is tried, textable or not.
ChosenFrontOnly(rows) == FirstOf(Candidates(rows)) \ Legacy

\* The candidate who gets the offer (none, or one), and those walked past.
Chosen(rows) == FirstOf(Candidates(rows) \ Legacy)
Skipped(rows) == {p \in Candidates(rows) \cap Legacy :
                     \A c \in Chosen(rows) : born[p] < born[c]}
Walked(rows)  == Chosen(rows) \cup Skipped(rows)

\* _make_offer of each candidate walked: an untextable one ends 'expired'.
MakeOffers(rows, view) ==
    [p \in Phones |->
        IF p \in Walked(view)
            THEN [state |-> IF p \in Chosen(view) THEN "offered" ELSE "expired",
                  offer |-> rows[p].offer + 1]
            ELSE rows[p]]

\* What w, having itself expired the rows `own`, believes the table to be.
View(w, own) == ExpireIn(seen[w], own)

\* Variant: no index; the count of standing offers alone decides.
RivalsUnindexed(own) == {}

Rivals(own) == Standing(entry) \ own

WantsToOffer(w, own) == Standing(View(w, own)) = {} /\ Walked(View(w, own)) # {}

\* An offer already stands, or nobody waits: nothing more to do.
NothingToOffer(w, own) ==
    /\ Unchanged(w, own)
    /\ ~WantsToOffer(w, own)
    /\ entry' = ExpireIn(entry, own)

\* UniqueViolation: another worker made the day's offer first.
LosesOffer(w, own) ==
    /\ WantsToOffer(w, own)
    /\ Unchanged(w, own \cup FirstOf(Walked(View(w, own))))
    /\ Rivals(own) # {}
    /\ entry' = ExpireIn(entry, own)

MakesOffer(w, own) ==
    /\ WantsToOffer(w, own)
    /\ Unchanged(w, own \cup Walked(View(w, own)))
    /\ Rivals(own) = {}
    /\ entry' = MakeOffers(ExpireIn(entry, own), View(w, own))

OfferNext(w, own) ==
    NothingToOffer(w, own) \/ LosesOffer(w, own) \/ MakesOffer(w, own)

\* "could not serialize access": a row w has to write was updated meanwhile.
CannotSerialize(w, own) ==
    \/ ~Unchanged(w, own)
    \/ /\ WantsToOffer(w, own)
       /\ IF Rivals(own) = {}
             THEN ~Unchanged(w, Walked(View(w, own)))
             ELSE ~Unchanged(w, FirstOf(Walked(View(w, own))))

-----------------------------------------------------------------------------
(* Joining: /waitlist/join and modryn_join. A number stored by older code    *)
(* is not the normalised one, so a legacy row is never found again.          *)

BeginJoin(w, p) ==
    /\ p \notin Legacy
    /\ entry[p].offer < MaxOffers        \* bound
    /\ Begin(w, "join", {p}, IF entry[p].state = "absent" THEN Phones ELSE {p})

\* create_date is the time the transaction began: after every row it can see,
\* before or after the rows of the transactions that ran beside it.
Places(w, p) ==
    {k \in 1 .. Cardinality({q \in Phones : born[q] > 0}) + 1 :
        \A q \in Phones : seen[w][q].state # "absent" => born[q] < k}

\* A first row, or, if a request that ran beside this one inserted it, the
\* violation of PHONE_DAY_INDEX: she is on the list already.
JoinNew(w, p) ==
    /\ seen[w][p].state = "absent"
    /\ IF entry[p].state = "absent"
         THEN /\ entry' = [entry EXCEPT ![p].state = "waiting"]
              /\ \E k \in Places(w, p) :
                    born' = [q \in Phones |-> IF q = p THEN k
                                              ELSE IF born[q] >= k THEN born[q] + 1
                                              ELSE born[q]]
         ELSE UNCHANGED <<entry, born>>

\* Expired entries are revived in their old place; all others stay as they are.
JoinAgain(w, p) ==
    /\ seen[w][p].state # "absent"
    /\ IF seen[w][p].state = "expired"
         THEN /\ Unchanged(w, {p})
              /\ entry' = [entry EXCEPT ![p].state = "waiting"]
         ELSE UNCHANGED entry
    /\ UNCHANGED born

FinishJoin(w, p) ==
    /\ doing[w] = "join"
    /\ subject[w] = {p}
    /\ JoinNew(w, p) \/ JoinAgain(w, p)
    /\ End(w)
    /\ UNCHANGED <<lapsed, free, claims, crashes>>

-----------------------------------------------------------------------------
(* A bride cancels (modryn_cancel), or books a freed hour from the public    *)
(* page. Each cancellation in flight is about a booking of its own.          *)

CancelsInFlight == {w \in Procs : doing[w] = "cancel"}

BeginCancel(w) ==
    /\ free + Cardinality(CancelsInFlight) < Hours
    /\ Begin(w, "cancel", {}, Phones)

FinishCancel(w) ==
    /\ doing[w] = "cancel"
    /\ OfferNext(w, {})
    /\ free' = free + 1
    /\ End(w)
    /\ UNCHANGED <<born, lapsed, claims, crashes>>

Book ==
    /\ free > 0
    /\ free' = free - 1
    /\ UNCHANGED <<entry, born, lapsed, claims, doing, subject, seen, crashes>>

-----------------------------------------------------------------------------
(* Claiming: POST /claim/<token>. SlotBooking models the search for a seat. *)

\* _offer(token): the entry is 'offered' and its window is still open.
BeginClaim(w, p) ==
    /\ entry[p].state = "offered"
    /\ p \notin lapsed
    /\ Begin(w, "claim", {p}, {p})

\* Variant: the write of the entry is not checked against the snapshot, as it
\* would not be under READ COMMITTED.
FinishClaimUnserialized(w, p) ==
    /\ doing[w] = "claim"
    /\ subject[w] = {p}
    /\ free > 0
    /\ entry'  = [entry EXCEPT ![p].state = "claimed"]
    /\ free'   = free - 1
    /\ claims' = [claims EXCEPT ![p] = @ + 1]
    /\ lapsed' = lapsed \ {p}
    /\ End(w)
    /\ UNCHANGED <<born, crashes>>

FinishClaim(w, p) ==
    /\ doing[w] = "claim"
    /\ subject[w] = {p}
    /\ Unchanged(w, {p})
    /\ free > 0
    /\ entry'  = [entry EXCEPT ![p].state = "claimed"]
    /\ free'   = free - 1
    /\ claims' = [claims EXCEPT ![p] = @ + 1]
    /\ lapsed' = lapsed \ {p}
    /\ End(w)
    /\ UNCHANGED <<born, crashes>>

\* The hour she chose is gone, or the form is incomplete: the offer stands.
RefuseClaim(w) ==
    /\ doing[w] = "claim"
    /\ End(w)
    /\ UNCHANGED <<entry, born, lapsed, free, claims, crashes>>

-----------------------------------------------------------------------------
(* The offer's two hours, and the cron that ends it (_modryn_expire_offers). *)

Lapse(p) ==
    /\ entry[p].state = "offered"
    /\ p \notin lapsed
    /\ lapsed' = lapsed \cup {p}
    /\ UNCHANGED <<entry, born, free, claims, doing, subject, seen, crashes>>

\* Variant: offer_expires_at > now.
StaleReversed == Standing(entry) \ lapsed

Stale == Standing(entry) \cap lapsed

BeginExpire ==
    /\ Stale # {}
    /\ Begin(Expirer, "expire", Stale, Phones)

FinishExpire ==
    /\ doing[Expirer] = "expire"
    /\ OfferNext(Expirer, subject[Expirer])
    /\ lapsed' = lapsed \ subject[Expirer]
    /\ End(Expirer)
    /\ UNCHANGED <<born, free, claims, crashes>>

-----------------------------------------------------------------------------
(* The outbox gives up on the text of an offer (_modryn_offer_undeliverable) *)
(* Only an offer that stands in the drain's snapshot is withdrawn.           *)

BeginReclaim(p) ==
    /\ entry[p].offer > 0
    /\ Begin(Drainer, "reclaim", {p},
             IF entry[p].state = "offered" THEN Phones ELSE {p})

FinishReclaim ==
    /\ doing[Drainer] = "reclaim"
    /\ IF subject[Drainer] \subseteq Standing(seen[Drainer])
         THEN OfferNext(Drainer, subject[Drainer]) /\ lapsed' = lapsed \ subject[Drainer]
         ELSE UNCHANGED <<entry, lapsed>>
    /\ End(Drainer)
    /\ UNCHANGED <<born, free, claims, crashes>>

-----------------------------------------------------------------------------
(* What ends a transaction without a trace.                                *)

Conflicts(w) ==
    CASE doing[w] = "join"    -> \E p \in subject[w] :
                                     seen[w][p].state = "expired" /\ ~Unchanged(w, {p})
      [] doing[w] = "claim"   -> ~Unchanged(w, subject[w])
      [] doing[w] = "cancel"  -> CannotSerialize(w, {})
      [] doing[w] = "expire"  -> CannotSerialize(w, subject[w])
      [] doing[w] = "reclaim" -> /\ subject[w] \subseteq Standing(seen[w])
                                 /\ CannotSerialize(w, subject[w])
      [] OTHER                -> FALSE

\* A serialization failure. A request runs again from the start, a cron at its
\* next turn; the drain swallows it, and the offer is left to the expiry cron.
RollBack(w) ==
    /\ Conflicts(w)
    /\ End(w)
    /\ UNCHANGED <<entry, born, lapsed, free, claims, crashes>>

\* The worker is recycled in the middle of the transaction.
Crash(w) ==
    /\ doing[w] # "idle"
    /\ crashes < MaxCrashes              \* bound
    /\ crashes' = crashes + 1
    /\ End(w)
    /\ UNCHANGED <<entry, born, lapsed, free, claims>>

-----------------------------------------------------------------------------

Finish(w) ==
    \/ \E p \in Phones : FinishJoin(w, p) \/ FinishClaim(w, p)
    \/ FinishCancel(w)
    \/ RefuseClaim(w)
    \/ RollBack(w)

FinishExpiry  == FinishExpire \/ RollBack(Expirer)
FinishRelease == FinishReclaim \/ RollBack(Drainer)

Next ==
    \/ \E w \in Clerks :
          \/ \E p \in Phones : BeginJoin(w, p) \/ BeginClaim(w, p)
          \/ BeginCancel(w)
          \/ Finish(w)
    \/ BeginExpire \/ FinishExpiry
    \/ \E p \in Phones : BeginReclaim(p) \/ Lapse(p)
    \/ FinishRelease
    \/ Book
    \/ \E w \in Procs : Crash(w)

Spec == Init /\ [][Next]_vars

\* Requests end, time passes, and the cron gets its turn every ten minutes.
Fairness ==
    /\ \A w \in Clerks : WF_vars(Finish(w))
    /\ \A p \in Phones : WF_vars(Lapse(p))
    /\ WF_vars(BeginExpire)
    /\ WF_vars(FinishExpiry)
    /\ WF_vars(FinishRelease)

FairSpec == Spec /\ Fairness

-----------------------------------------------------------------------------
(* Properties.                                                             *)

\* Two people never hold claim links for the same day, whichever of the four
\* paths to modryn_offer_next run side by side.
OneOfferPerDay == Cardinality(Standing(entry)) <= 1

\* An entry is 'claimed' exactly when a booking was made through her link, and
\* then exactly one was: no double submit, and no claim of an offer that was
\* withdrawn in the meantime, leaves two bookings or a revived entry.
OfferYieldsOneBooking ==
    \A p \in Phones : claims[p] = IF entry[p].state = "claimed" THEN 1 ELSE 0

\* She who is served and she who waited longer: nobody texts q while a reachable
\* p, ahead of q in the line when the offering transaction began, still waits.
FirstComeFirstServed ==
    [][\A p, q \in Phones \ Legacy :
          /\ entry[q].state # "offered" /\ entry'[q].state = "offered"
          /\ entry[p].state = "waiting" /\ entry'[p].state = "waiting"
          /\ born[p] < born[q]
          => \E w \in Procs : doing[w] # doing'[w] /\ seen[w][p] # entry[p]]_vars

\* A transaction that frees an hour or withdraws an offer leaves somebody holding
\* the offer of the day when it commits, unless its snapshot shows an offer of
\* somebody else, or nobody it could text among the first MAX_OFFER_CANDIDATES.
DayIsHandedOn ==
    [][\A w \in Procs :
          /\ doing[w] # "idle" /\ doing'[w] = "idle"
          /\ \/ free' > free
             \/ \E p \in Phones \ Legacy :
                    entry[p].state = "offered" /\ entry'[p].state = "expired"
          => \/ Standing(entry') # {}
             \/ Standing(seen[w]) \ subject[w] # {}
             \/ Candidates(seen[w]) \subseteq Legacy]_vars

\* The line and the day together: nobody is jumped over by an offer whose
\* transaction could see her, and an offer that ends while somebody reachable
\* waits is followed by the next one.
DayPassesDownTheLine == FirstComeFirstServed /\ DayIsHandedOn

\* An offer never holds the day for good: it is claimed, or lapses and is
\* withdrawn by the cron, whatever conflicts with it.
EveryOfferEnds ==
    \A p \in Phones : \A n \in 1 .. MaxOffers :
        entry[p] = [state |-> "offered", offer |-> n]
            ~> entry[p] # [state |-> "offered", offer |-> n]

\* "The freed hour belongs to whoever asked for this day first": with two hours
\* free, one of them on offer, p waiting and nothing else going on, p is made an
\* offer in the end, or every freed hour has gone.
FreedHourOffered ==
    \A p \in Phones \ Legacy :
        (/\ free > 1
         /\ Standing(entry) # {}
         /\ entry[p].state = "waiting"
         /\ \A w \in Procs : doing[w] = "idle")
            ~> (entry[p].state # "waiting" \/ free = 0)

-----------------------------------------------------------------------------
(* The inductive invariant behind OneOfferPerDay and OfferYieldsOneBooking.  *)

\* Exactly the rows that exist have a place in the line, each its own.
LineIsAnOrder ==
    /\ \A p \in Phones : born[p] = 0 <=> entry[p].state = "absent"
    /\ \A p, q \in Phones : born[p] # 0 /\ born[p] = born[q] => p = q

OneStandingOffer == \A p, q \in Standing(entry) : p = q

\* Offers are numbered from 1, and whoever waits has one to come.
OffersFit ==
    \A p \in Phones : /\ entry[p].state = "waiting" => entry[p].offer < MaxOffers
                      /\ entry[p].state = "absent" => entry[p].offer = 0

\* Whoever is claiming or expiring has read its subjects as offered, whoever is
\* joining has read a row that may wait once more.
SubjectsWereRead ==
    \A w \in Procs : \A p \in subject[w] :
        /\ doing[w] \in {"claim", "expire"} => seen[w][p].state = "offered"
        /\ doing[w] = "join" => seen[w][p].offer < MaxOffers

CancellationsFit == free + Cardinality(CancelsInFlight) <= Hours

IInv ==
    /\ TypeOK
    /\ LineIsAnOrder
    /\ OneStandingOffer
    /\ OffersFit
    /\ SubjectsWereRead
    /\ CancellationsFit
    /\ OfferYieldsOneBooking

=============================================================================
