------------------------ MODULE DayWaitlist_proofs --------------------------
(***************************************************************************)
(* The safety of one day's waitlist, for any customers, any number of HTTP *)
(* workers and any bounds: the invariant IInv of DayWaitlist is inductive, *)
(* and from it, with what a transaction has read, the line is kept.        *)
(***************************************************************************)
EXTENDS DayWaitlist, FiniteSetTheorems, WellFoundedInduction, TLAPS

\* The rows of the line, without how they came about: what each write of the
\* entries has to keep.
LineOK ==
    /\ entry \in [Phones -> Rows]
    /\ LineIsAnOrder
    /\ OneStandingOffer
    /\ OffersFit
    /\ OfferYieldsOneBooking

-----------------------------------------------------------------------------
(* The writes of the entries.                                              *)

\* Withdrawing offers that stand leaves a sound line.
LEMMA WithdrawKeepsLine ==
    ASSUME LineOK, NEW own \in SUBSET Standing(entry),
           entry' = ExpireIn(entry, own), UNCHANGED <<born, claims>>
    PROVE  LineOK'
<1>1. \A p \in Phones : /\ p \in own => /\ entry[p].state = "offered"
                                        /\ entry'[p] = [entry[p] EXCEPT !.state = "expired"]
                        /\ p \notin own => entry'[p] = entry[p]
  BY DEF ExpireIn, Standing
<1>2. entry \in [Phones -> Rows]
  BY DEF LineOK
<1>3. \A p \in Phones : /\ p \in own => entry'[p] = [state |-> "expired", offer |-> entry[p].offer]
                        /\ entry'[p] \in Rows
  BY <1>1, <1>2 DEF Rows, States
<1>4. entry' \in [Phones -> Rows]
  BY <1>3 DEF ExpireIn
<1>5. LineIsAnOrder'
  BY <1>1, <1>3 DEF LineOK, LineIsAnOrder
<1>6. OneStandingOffer'
  BY <1>1, <1>3 DEF LineOK, OneStandingOffer, Standing
<1>7. OffersFit'
  BY <1>1, <1>3 DEF LineOK, OffersFit
<1>8. OfferYieldsOneBooking'
  BY <1>1, <1>3 DEF LineOK, OfferYieldsOneBooking
<1> QED
  BY <1>4, <1>5, <1>6, <1>7, <1>8 DEF LineOK

\* So does making the day's offer, when the index lets it through and no row that
\* is written has changed since it was read.
LEMMA OfferKeepsLine ==
    ASSUME TypeOK, LineOK, NEW w \in Procs, NEW own \in SUBSET Standing(entry),
           MakesOffer(w, own), UNCHANGED <<born, claims>>
    PROVE  LineOK'
<1> DEFINE view == View(w, own)
<1>1. entry \in [Phones -> Rows]
  BY DEF LineOK
<1>2. Walked(view) \subseteq Waiting(view) /\ Chosen(view) \subseteq Walked(view)
  BY DEF Walked, Chosen, Skipped, FirstOf, Candidates
<1> HIDE DEF view
<1>3. \A p \in Walked(view) : /\ p \in Phones /\ p \notin own
                              /\ entry[p].state = "waiting"
                              /\ born[p] # 0
  <2> SUFFICES ASSUME NEW p \in Walked(view)
               PROVE  /\ p \in Phones /\ p \notin own
                      /\ entry[p].state = "waiting"
                      /\ born[p] # 0
    OBVIOUS
  <2>1. p \in Phones /\ view[p].state = "waiting"
    BY <1>2 DEF Waiting
  <2>2. entry[p] = seen[w][p]
    BY DEF MakesOffer, Unchanged, view
  <2>3. p \notin own
    <3> SUFFICES ASSUME p \in own PROVE FALSE
      OBVIOUS
    <3>1. view[p] = [seen[w][p] EXCEPT !.state = "expired"]
      BY <2>1 DEF view, View, ExpireIn
    <3>2. seen[w][p] \in Rows
      BY <2>1 DEF TypeOK
    <3> QED
      BY <2>1, <3>1, <3>2 DEF Rows
  <2>4. view[p] = seen[w][p]
    BY <2>1, <2>3 DEF view, View, ExpireIn
  <2> QED
    BY <2>1, <2>2, <2>3, <2>4 DEF LineOK, LineIsAnOrder
<1>4. ASSUME NEW p \in Phones
      PROVE  /\ entry'[p] \in Rows
             /\ p \in Walked(view) =>
                  entry'[p].state = IF p \in Chosen(view) THEN "offered" ELSE "expired"
             /\ p \in own => entry'[p].state = "expired"
             /\ p \notin Walked(view) \cup own => entry'[p] = entry[p]
  <2>1. entry' = MakeOffers(ExpireIn(entry, own), view)
    BY DEF MakesOffer, view
  <2>2. entry[p] \in Rows /\ entry[p].offer \in 0 .. MaxOffers
    BY <1>1 DEF Rows
  <2>3. ExpireIn(entry, own)[p] = IF p \in own THEN [entry[p] EXCEPT !.state = "expired"] ELSE entry[p]
    BY DEF ExpireIn
  <2>4. entry'[p] = IF p \in Walked(view)
                      THEN [state |-> IF p \in Chosen(view) THEN "offered" ELSE "expired",
                            offer |-> ExpireIn(entry, own)[p].offer + 1]
                      ELSE ExpireIn(entry, own)[p]
    BY <2>1 DEF MakeOffers
  <2>5. CASE p \in Walked(view)
    <3>1. p \notin own /\ entry[p].offer < MaxOffers
      BY <1>3, <2>5 DEF LineOK, OffersFit
    <3>2. entry[p].offer + 1 \in 0 .. MaxOffers
      BY <2>2, <3>1, BoundsNat
    <3>3. entry'[p] = [state |-> IF p \in Chosen(view) THEN "offered" ELSE "expired",
                       offer |-> entry[p].offer + 1]
      BY <2>3, <2>4, <2>5, <3>1
    <3> QED
      BY <2>5, <3>1, <3>2, <3>3 DEF Rows, States
  <2>6. CASE p \in own
    <3>1. entry'[p] = [entry[p] EXCEPT !.state = "expired"]
      BY <1>3, <2>3, <2>4, <2>6
    <3> QED
      BY <1>3, <2>2, <2>6, <3>1 DEF Rows, States
  <2>7. CASE p \notin Walked(view) \cup own
    BY <2>2, <2>3, <2>4, <2>7
  <2> QED
    BY <2>5, <2>6, <2>7
<1>5. entry' = [p \in Phones |-> entry'[p]]
  BY DEF MakesOffer, MakeOffers
<1>6. entry' \in [Phones -> Rows]
  BY <1>4, <1>5
<1>7. \A p \in own : entry[p].state = "offered"
  BY DEF Standing
<1>8. LineIsAnOrder'
  BY <1>3, <1>4, <1>7 DEF LineOK, LineIsAnOrder
<1>9. OneStandingOffer'
  <2>1. \A p \in Standing(entry)' : p \in Chosen(view)
    <3> SUFFICES ASSUME NEW p \in Phones, entry'[p].state = "offered"
                 PROVE  p \in Chosen(view)
      BY DEF Standing
    <3>1. p \notin own
      BY <1>4
    <3>2. p \notin Standing(entry)
      BY <3>1 DEF MakesOffer, Rivals
    <3> QED
      BY <1>4, <3>1, <3>2 DEF Standing
  <2>2. \A p, q \in Chosen(view) : p = q
    <3> SUFFICES ASSUME NEW p \in Chosen(view), NEW q \in Chosen(view)
                 PROVE  p = q
      OBVIOUS
    <3>1. /\ p \in Phones /\ q \in Phones
          /\ born[p] # 0 /\ born[p] \in Nat /\ born[q] \in Nat
      BY <1>2, <1>3 DEF TypeOK
    <3>2. born[p] <= born[q] /\ born[q] <= born[p]
      BY DEF Chosen, FirstOf
    <3> QED
      BY <1>2, <1>3, <3>1, <3>2 DEF LineOK, LineIsAnOrder
  <2> QED
    BY <2>1, <2>2 DEF OneStandingOffer, Standing
<1>10. OffersFit'
  BY <1>3, <1>4, <1>7 DEF LineOK, OffersFit
<1>11. OfferYieldsOneBooking'
  BY <1>3, <1>4, <1>7 DEF LineOK, OfferYieldsOneBooking
<1> QED
  BY <1>6, <1>8, <1>9, <1>10, <1>11 DEF LineOK

\* Whatever a hand-on finds, the line is sound after it.
LEMMA HandOnKeepsLine ==
    ASSUME TypeOK, LineOK, NEW w \in Procs, NEW own \in SUBSET Phones,
           \A p \in own : seen[w][p].state = "offered",
           OfferNext(w, own), UNCHANGED <<born, claims>>
    PROVE  LineOK'
<1>1. Unchanged(w, own)
  BY DEF OfferNext, NothingToOffer, LosesOffer, MakesOffer, Unchanged
<1>2. own \subseteq Standing(entry)
  BY <1>1 DEF Unchanged, Standing
<1>3. CASE NothingToOffer(w, own) \/ LosesOffer(w, own)
  BY <1>2, <1>3, WithdrawKeepsLine DEF NothingToOffer, LosesOffer
<1>4. CASE MakesOffer(w, own)
  BY <1>2, <1>4, OfferKeepsLine
<1> QED
  BY <1>3, <1>4 DEF OfferNext

\* A join adds one row to the line in a place of its own, or revives one.
LEMMA JoinKeepsLine ==
    ASSUME IInv, NEW w \in Procs, NEW p \in Phones, FinishJoin(w, p)
    PROVE  LineOK' /\ born' \in [Phones -> Nat]
<1> USE DEF FinishJoin
<1>1. /\ LineOK
      /\ born \in [Phones -> Nat]
      /\ entry \in [Phones -> Rows]
      /\ seen[w][p].offer < MaxOffers
  BY DEF IInv, LineOK, TypeOK, SubjectsWereRead
<1>2. CASE UNCHANGED <<entry, born>>
  BY <1>1, <1>2 DEF LineOK, LineIsAnOrder, OneStandingOffer, Standing, OffersFit,
                    OfferYieldsOneBooking
<1>3. CASE /\ entry[p].state \in {"absent", "expired"}
           /\ entry[p].offer < MaxOffers
           /\ entry' = [entry EXCEPT ![p].state = "waiting"]
           /\ born' \in [Phones -> Nat]
           /\ \A q \in Phones : born'[q] = 0 <=> entry'[q].state = "absent"
           /\ \A q, r \in Phones : born'[q] # 0 /\ born'[q] = born'[r] => q = r
  <2>1. \A q \in Phones : entry[q] \in Rows
    BY <1>1
  <2>2. /\ entry'[p].state = "waiting" /\ entry'[p].offer = entry[p].offer
        /\ \A q \in Phones \ {p} : entry'[q] = entry[q]
        /\ entry' \in [Phones -> Rows]
    BY <1>1, <1>3, <2>1 DEF Rows, States
  <2>3. OneStandingOffer'
    BY <1>1, <2>2 DEF LineOK, OneStandingOffer, Standing
  <2>4. OffersFit'
    BY <1>1, <1>3, <2>2 DEF LineOK, OffersFit
  <2>5. OfferYieldsOneBooking'
    BY <1>1, <1>3, <2>2 DEF LineOK, OfferYieldsOneBooking
  <2> QED
    BY <1>3, <2>2, <2>3, <2>4, <2>5 DEF LineOK, LineIsAnOrder
<1>4. CASE JoinNew(w, p) /\ entry[p].state = "absent"
  <2>1. PICK k \in Places(w, p) :
          born' = [q \in Phones |-> IF q = p THEN k
                                    ELSE IF born[q] >= k THEN born[q] + 1
                                    ELSE born[q]]
    BY <1>4 DEF JoinNew
  <2>2. k \in Nat /\ k >= 1
    <3>1. IsFiniteSet({q \in Phones : born[q] > 0})
      BY PhonesFinite, FS_Subset
    <3>2. Cardinality({q \in Phones : born[q] > 0}) \in Nat
      BY <3>1, FS_CardinalityType
    <3> QED
      BY <3>2 DEF Places
  <2>3. entry' = [entry EXCEPT ![p].state = "waiting"]
    BY <1>4 DEF JoinNew
  <2>4. \A q \in Phones : entry'[q].state = "absent" <=> (q # p /\ entry[q].state = "absent")
    <3>1. entry[p] \in Rows
      BY <1>1
    <3> QED
      BY <1>1, <2>3, <3>1 DEF Rows
  <2>5. \A q \in Phones : /\ born'[q] \in Nat
                          /\ born'[q] = 0 <=> (q # p /\ born[q] = 0)
    BY <1>1, <2>1, <2>2
  <2>6. \A q, r \in Phones : born'[q] # 0 /\ born'[q] = born'[r] => q = r
    <3> SUFFICES ASSUME NEW q \in Phones, NEW r \in Phones,
                        born'[q] # 0, born'[q] = born'[r]
                 PROVE  q = r
      OBVIOUS
    <3>1. born[q] \in Nat /\ born[r] \in Nat
      BY <1>1
    <3>2. CASE q = p \/ r = p
      BY <2>1, <2>2, <3>1, <3>2
    <3>3. CASE q # p /\ r # p
      <4>1. born[q] = born[r] /\ born[q] # 0
        BY <2>1, <2>2, <3>1, <3>3
      <4> QED
        BY <1>1, <4>1 DEF LineOK, LineIsAnOrder
    <3> QED
      BY <3>2, <3>3
  <2>7. entry[p].offer < MaxOffers
    BY <1>1, <1>4, BoundsNat DEF LineOK, OffersFit
  <2>8. born' \in [Phones -> Nat]
    BY <2>1, <2>5
  <2>9. \A q \in Phones : born'[q] = 0 <=> entry'[q].state = "absent"
    BY <1>1, <2>4, <2>5 DEF LineOK, LineIsAnOrder
  <2> QED
    BY <1>3, <1>4, <2>3, <2>6, <2>7, <2>8, <2>9
<1>5. CASE JoinAgain(w, p) /\ seen[w][p].state = "expired"
  <2>1. /\ entry[p] = seen[w][p]
        /\ entry' = [entry EXCEPT ![p].state = "waiting"]
        /\ born' = born
    BY <1>5 DEF JoinAgain, Unchanged
  <2>2. entry[p] \in Rows
    BY <1>1
  <2>3. \A q \in Phones : entry'[q].state = "absent" <=> entry[q].state = "absent"
    BY <1>1, <1>5, <2>1, <2>2 DEF Rows
  <2> QED
    BY <1>1, <1>3, <1>5, <2>1, <2>3 DEF LineOK, LineIsAnOrder
<1> QED
  BY <1>2, <1>4, <1>5 DEF JoinNew, JoinAgain

\* A claim turns the offer it has read, and nobody has touched since, into one
\* booking.
LEMMA ClaimKeepsLine ==
    ASSUME IInv, NEW w \in Procs, NEW p \in Phones, FinishClaim(w, p)
    PROVE  LineOK' /\ claims' \in [Phones -> Nat]
<1>1. /\ LineOK /\ entry[p] \in Rows /\ claims \in [Phones -> Nat]
      /\ entry \in [Phones -> Rows]
  BY DEF IInv, LineOK, TypeOK
<1>2. entry[p].state = "offered"
  BY DEF IInv, SubjectsWereRead, FinishClaim, Unchanged
<1>3. /\ entry' = [entry EXCEPT ![p].state = "claimed"]
      /\ claims' = [claims EXCEPT ![p] = @ + 1]
      /\ born' = born
  BY DEF FinishClaim
<1>4. /\ entry'[p] = [state |-> "claimed", offer |-> entry[p].offer]
      /\ \A q \in Phones \ {p} : entry'[q] = entry[q] /\ claims'[q] = claims[q]
      /\ claims'[p] = claims[p] + 1
      /\ entry' \in [Phones -> Rows]
      /\ claims' \in [Phones -> Nat]
  BY <1>1, <1>3 DEF Rows, States
<1>5. LineIsAnOrder'
  BY <1>1, <1>2, <1>3, <1>4 DEF LineOK, LineIsAnOrder
<1>6. OneStandingOffer'
  BY <1>1, <1>4 DEF LineOK, OneStandingOffer, Standing
<1>7. OffersFit'
  BY <1>1, <1>4 DEF LineOK, OffersFit
<1>8. OfferYieldsOneBooking'
  BY <1>1, <1>2, <1>4 DEF LineOK, OfferYieldsOneBooking
<1> QED
  BY <1>4, <1>5, <1>6, <1>7, <1>8 DEF LineOK

-----------------------------------------------------------------------------
(* The other variables.                                                    *)

\* What Begin and End leave of the processes other than w.
LEMMA OthersUntouched ==
    ASSUME TypeOK, NEW w \in Procs,
           doing' = [doing EXCEPT ![w] = "idle"],
           subject' = [subject EXCEPT ![w] = {}],
           seen' = [seen EXCEPT ![w] = NoRows],
           SubjectsWereRead
    PROVE  /\ doing' \in [Procs -> Kinds]
           /\ subject' \in [Procs -> SUBSET Phones]
           /\ seen' \in [Procs -> [Phones -> Rows]]
           /\ SubjectsWereRead'
           /\ CancelsInFlight' = CancelsInFlight \ {w}
<1>1. NoRows \in [Phones -> Rows]
  BY BoundsNat DEF NoRows, Rows, States
<1>2. /\ doing' \in [Procs -> Kinds]
      /\ subject' \in [Procs -> SUBSET Phones]
      /\ seen' \in [Procs -> [Phones -> Rows]]
  BY <1>1 DEF TypeOK, Kinds
<1>3. SubjectsWereRead'
  BY DEF TypeOK, SubjectsWereRead
<1>4. CancelsInFlight' = CancelsInFlight \ {w}
  BY DEF TypeOK, CancelsInFlight
<1> QED
  BY <1>2, <1>3, <1>4

\* Only finitely many cancellations are under way.
LEMMA CancelsFinite == IsFiniteSet(CancelsInFlight)
<1>1. IsFiniteSet({Expirer} \cup {Drainer})
  BY FS_Singleton, FS_AddElement
<1>2. Procs = Clerks \cup ({Expirer} \cup {Drainer})
  BY DEF Procs
<1>3. IsFiniteSet(Procs)
  BY <1>1, <1>2, ClerksFinite, FS_Union
<1> QED
  BY <1>3, FS_Subset DEF CancelsInFlight

\* The number of cancellations under way is a number, one more or one less when
\* another is begun or ended.
LEMMA CancelsCounted ==
    /\ Cardinality(CancelsInFlight) \in Nat
    /\ \A w \in Procs :
          /\ Cardinality(CancelsInFlight \ {w}) =
               IF w \in CancelsInFlight THEN Cardinality(CancelsInFlight) - 1
                                        ELSE Cardinality(CancelsInFlight)
          /\ Cardinality(CancelsInFlight \cup {w}) =
               IF w \in CancelsInFlight THEN Cardinality(CancelsInFlight)
                                        ELSE Cardinality(CancelsInFlight) + 1
BY CancelsFinite, FS_CardinalityType, FS_RemoveElement, FS_AddElement

\* There is one under way when w's is.
LEMMA CancelsNotNone ==
    ASSUME NEW w \in CancelsInFlight
    PROVE  Cardinality(CancelsInFlight) # 0
<1>1. Cardinality(CancelsInFlight \ {w}) = Cardinality(CancelsInFlight) - 1
  BY CancelsCounted DEF CancelsInFlight
<1>2. IsFiniteSet(CancelsInFlight \ {w})
  BY CancelsFinite, FS_Subset
<1> QED
  BY <1>1, <1>2, FS_CardinalityType

-----------------------------------------------------------------------------
(* Steps.                                                                  *)

\* A transaction that begins changes nothing the invariant says of the day.
LEMMA BeginKeepsInvariant ==
    ASSUME IInv, NEW w \in Procs, NEW kind \in Kinds, NEW about \in SUBSET Phones,
           NEW reads, Begin(w, kind, about, reads), about \subseteq reads,
           kind \in {"claim", "expire"} => \A p \in about : entry[p].state = "offered",
           kind = "join" => \A p \in about : entry[p].offer < MaxOffers,
           kind = "cancel" => free + Cardinality(CancelsInFlight) < Hours
    PROVE  IInv'
<1>1. /\ TypeOK /\ SubjectsWereRead /\ CancellationsFit
      /\ entry \in [Phones -> Rows] /\ seen \in [Procs -> [Phones -> Rows]]
      /\ doing \in [Procs -> Kinds] /\ subject \in [Procs -> SUBSET Phones]
      /\ free \in 0 .. Hours
  BY DEF IInv, TypeOK
<1> DEFINE snap == [p \in Phones |-> IF p \in reads THEN entry[p] ELSE NoRows[p]]
<1>2. /\ doing[w] = "idle"
      /\ doing' = [doing EXCEPT ![w] = kind]
      /\ subject' = [subject EXCEPT ![w] = about]
      /\ seen' = [seen EXCEPT ![w] = snap]
      /\ UNCHANGED <<entry, born, lapsed, free, claims, crashes>>
  BY DEF Begin
<1>3. NoRows \in [Phones -> Rows]
  BY BoundsNat DEF NoRows, Rows, States
<1>4. snap \in [Phones -> Rows]
  BY <1>1, <1>3
<1>5. TypeOK'
  BY <1>1, <1>2, <1>4 DEF TypeOK
<1>6. SubjectsWereRead'
  <2> SUFFICES ASSUME NEW v \in Procs, NEW p \in subject'[v]
               PROVE  /\ doing'[v] \in {"claim", "expire"} => seen'[v][p].state = "offered"
                      /\ doing'[v] = "join" => seen'[v][p].offer < MaxOffers
    BY DEF SubjectsWereRead
  <2>1. CASE v = w
    <3>1. p \in about /\ p \in Phones /\ seen'[v][p] = entry[p] /\ doing'[v] = kind
      BY <1>1, <1>2, <2>1
    <3> QED
      BY <3>1
  <2>2. CASE v # w
    BY <1>1, <1>2, <2>2 DEF SubjectsWereRead
  <2> QED
    BY <2>1, <2>2
<1>7. CancellationsFit'
  <2>1. w \notin CancelsInFlight
    BY <1>2 DEF CancelsInFlight
  <2>2. CASE kind = "cancel"
    <3>1. CancelsInFlight' = CancelsInFlight \cup {w}
      BY <1>1, <1>2, <2>2 DEF CancelsInFlight
    <3>2. Cardinality(CancelsInFlight') = Cardinality(CancelsInFlight) + 1
      BY <2>1, <3>1, CancelsCounted
    <3> QED
      BY <1>1, <1>2, <2>2, <3>2, CancelsCounted, BoundsNat DEF CancellationsFit
  <2>3. CASE kind # "cancel"
    <3>1. CancelsInFlight' = CancelsInFlight
      BY <1>1, <1>2, <2>3 DEF CancelsInFlight
    <3> QED
      BY <1>1, <1>2, <3>1 DEF CancellationsFit
  <2> QED
    BY <2>2, <2>3
<1> QED
  BY <1>2, <1>5, <1>6, <1>7 DEF IInv, LineIsAnOrder, OneStandingOffer, Standing, OffersFit,
                               OfferYieldsOneBooking

\* A transaction that ends keeps the invariant if its writes keep the line sound
\* and free no more hours than its own cancellation.
LEMMA EndKeepsInvariant ==
    ASSUME IInv, NEW w \in Procs, End(w), LineOK',
           born' \in [Phones -> Nat], claims' \in [Phones -> Nat],
           lapsed' \subseteq lapsed, crashes' \in 0 .. MaxCrashes,
           \/ free' \in 0 .. free
           \/ doing[w] = "cancel" /\ free' = free + 1
    PROVE  IInv'
<1>1. /\ TypeOK /\ SubjectsWereRead /\ CancellationsFit
  BY DEF IInv
<1>2. /\ doing' \in [Procs -> Kinds]
      /\ subject' \in [Procs -> SUBSET Phones]
      /\ seen' \in [Procs -> [Phones -> Rows]]
      /\ SubjectsWereRead'
      /\ CancelsInFlight' = CancelsInFlight \ {w}
  BY <1>1, OthersUntouched DEF End
<1>3. free \in 0 .. Hours /\ Cardinality(CancelsInFlight) \in Nat
  BY <1>1, CancelsCounted DEF TypeOK
<1>4. /\ free' \in Nat
      /\ free' + Cardinality(CancelsInFlight)' <= Hours
      /\ Cardinality(CancelsInFlight)' \in Nat
  <2>1. CASE free' \in 0 .. free
    <3>1. /\ Cardinality(CancelsInFlight \ {w}) \in Nat
          /\ Cardinality(CancelsInFlight \ {w}) <= Cardinality(CancelsInFlight)
      <4>1. CASE w \in CancelsInFlight
        <5>1. Cardinality(CancelsInFlight) # 0
          BY <4>1, CancelsNotNone
        <5> QED
          BY <1>3, <4>1, <5>1, CancelsCounted
      <4>2. CASE w \notin CancelsInFlight
        BY <1>3, <4>2, CancelsCounted
      <4> QED
        BY <4>1, <4>2
    <3> QED
      BY <1>1, <1>2, <1>3, <2>1, <3>1, BoundsNat DEF CancellationsFit
  <2>2. CASE doing[w] = "cancel" /\ free' = free + 1
    <3>1. w \in CancelsInFlight
      BY <2>2 DEF CancelsInFlight
    <3>2. Cardinality(CancelsInFlight) # 0
      BY <3>1, CancelsNotNone
    <3>3. Cardinality(CancelsInFlight)' = Cardinality(CancelsInFlight) - 1
      BY <1>2, <3>1, CancelsCounted
    <3> QED
      BY <1>1, <1>3, <2>2, <3>2, <3>3, BoundsNat DEF CancellationsFit
  <2> QED
    BY <2>1, <2>2
<1>5. TypeOK'
  BY <1>1, <1>2, <1>4, BoundsNat DEF TypeOK, LineOK
<1>6. CancellationsFit'
  BY <1>4 DEF CancellationsFit
<1> QED
  BY <1>2, <1>5, <1>6 DEF IInv, LineOK

\* A step that leaves the rows and the line alone leaves them sound.
LEMMA UntouchedLine ==
    ASSUME LineOK, UNCHANGED <<entry, born, claims>>
    PROVE  LineOK'
BY DEF LineOK, LineIsAnOrder, OneStandingOffer, Standing, OffersFit, OfferYieldsOneBooking

\* A sold-out day on which only legacy rows wait.
LEMMA InitInvariant == Init => IInv
<1> SUFFICES ASSUME Init PROVE IInv
  OBVIOUS
<1>1. \A p \in Phones : /\ entry[p].state = IF p \in Legacy THEN "waiting" ELSE "absent"
                        /\ entry[p].offer = 0
  BY DEF Init
<1>2. NoRows \in [Phones -> Rows] /\ entry \in [Phones -> Rows]
  BY BoundsNat DEF Init, NoRows, Rows, States
<1>3. TypeOK
  <2>1. Cardinality(Phones) \in Nat
    BY PhonesFinite, FS_CardinalityType
  <2>2. born \in [Phones -> Nat]
    BY <2>1 DEF Init
  <2> QED
    BY <1>2, <2>2, BoundsNat DEF Init, TypeOK, Kinds
<1>4. LineIsAnOrder
  <2>1. \A p \in Phones : born[p] \in Nat /\ (born[p] > 0 <=> p \in Legacy)
    BY <1>3 DEF Init, TypeOK
  <2> QED
    BY <1>1, <2>1 DEF Init, LineIsAnOrder
<1>5. OneStandingOffer
  BY <1>1 DEF OneStandingOffer, Standing
<1>6. OffersFit
  BY <1>1, BoundsNat DEF OffersFit
<1>7. SubjectsWereRead
  BY DEF Init, SubjectsWereRead
<1>8. CancellationsFit
  <2>1. CancelsInFlight = {}
    BY DEF Init, CancelsInFlight
  <2> QED
    BY <2>1, FS_EmptySet, BoundsNat DEF Init, CancellationsFit
<1>9. OfferYieldsOneBooking
  BY <1>1 DEF Init, OfferYieldsOneBooking
<1> QED
  BY <1>3, <1>4, <1>5, <1>6, <1>7, <1>8, <1>9 DEF IInv

\* Every step of every process keeps the invariant.
LEMMA NextInvariant == IInv /\ [Next]_vars => IInv'
<1> SUFFICES ASSUME IInv, [Next]_vars PROVE IInv'
  OBVIOUS
<1>1. /\ TypeOK /\ LineOK
      /\ born \in [Phones -> Nat] /\ claims \in [Phones -> Nat]
      /\ crashes \in 0 .. MaxCrashes
      /\ free \in 0 .. Hours
      /\ entry \in [Phones -> Rows]
  BY DEF IInv, LineOK, TypeOK
<1>2. Clerks \subseteq Procs /\ Expirer \in Procs /\ Drainer \in Procs
  BY DEF Procs
<1>3. free \in 0 .. free
  BY <1>1, BoundsNat
<1>4. ASSUME NEW w \in Clerks, NEW p \in Phones, BeginJoin(w, p)
      PROVE  IInv'
  <2> DEFINE reads == IF entry[p].state = "absent" THEN Phones ELSE {p}
  <2>1. Begin(w, "join", {p}, reads) /\ entry[p].offer < MaxOffers
    BY <1>4 DEF BeginJoin
  <2>2. {p} \subseteq reads
    OBVIOUS
  <2> HIDE DEF reads
  <2> QED
    BY <1>2, <2>1, <2>2, BeginKeepsInvariant DEF Kinds
<1>5. ASSUME NEW w \in Clerks, NEW p \in Phones, BeginClaim(w, p)
      PROVE  IInv'
  <2>1. Begin(w, "claim", {p}, {p}) /\ entry[p].state = "offered"
    BY <1>5 DEF BeginClaim
  <2>2. {p} \in SUBSET Phones /\ \A q \in {p} : entry[q].state = "offered"
    BY <2>1
  <2> QED
    BY <1>2, <2>1, <2>2, BeginKeepsInvariant DEF Kinds
<1>6. ASSUME NEW w \in Clerks, BeginCancel(w)
      PROVE  IInv'
  <2>1. Begin(w, "cancel", {}, Phones) /\ free + Cardinality(CancelsInFlight) < Hours
    BY <1>6 DEF BeginCancel
  <2>2. {} \in SUBSET Phones /\ {} \subseteq Phones /\ "cancel" \in Kinds /\ w \in Procs
    BY <1>2 DEF Kinds
  <2> QED
    BY <2>1, <2>2, BeginKeepsInvariant
<1>7. ASSUME BeginExpire
      PROVE  IInv'
  <2>1. Stale \subseteq Phones /\ \A p \in Stale : entry[p].state = "offered"
    BY DEF Stale, Standing
  <2> QED
    BY <1>2, <1>7, <2>1, BeginKeepsInvariant DEF BeginExpire, Kinds
<1>8. ASSUME NEW p \in Phones, BeginReclaim(p)
      PROVE  IInv'
  <2> DEFINE reads == IF entry[p].state = "offered" THEN Phones ELSE {p}
  <2>1. Begin(Drainer, "reclaim", {p}, reads)
    BY <1>8 DEF BeginReclaim
  <2>2. {p} \subseteq reads
    OBVIOUS
  <2> HIDE DEF reads
  <2> QED
    BY <1>2, <2>1, <2>2, BeginKeepsInvariant DEF Kinds
<1>9. ASSUME NEW w \in Clerks, NEW p \in Phones, FinishJoin(w, p)
      PROVE  IInv'
  <2>1. LineOK' /\ born' \in [Phones -> Nat]
    BY <1>2, <1>9, JoinKeepsLine
  <2> QED
    BY <1>1, <1>2, <1>3, <1>9, <2>1, EndKeepsInvariant DEF FinishJoin
<1>10. ASSUME NEW w \in Clerks, NEW p \in Phones, FinishClaim(w, p)
       PROVE  IInv'
  <2>1. LineOK' /\ claims' \in [Phones -> Nat]
    BY <1>2, <1>10, ClaimKeepsLine
  <2>2. free' \in 0 .. free
    BY <1>1, <1>10, BoundsNat DEF FinishClaim
  <2> QED
    BY <1>1, <1>2, <1>10, <2>1, <2>2, EndKeepsInvariant DEF FinishClaim
<1>11. ASSUME NEW w \in Clerks, FinishCancel(w)
       PROVE  IInv'
  <2>1. LineOK'
    BY <1>1, <1>2, <1>11, HandOnKeepsLine DEF FinishCancel
  <2> QED
    BY <1>1, <1>2, <1>11, <2>1, EndKeepsInvariant DEF FinishCancel
<1>12. ASSUME NEW w \in Procs,
              \/ w \in Clerks /\ RefuseClaim(w)
              \/ RollBack(w)
              \/ Crash(w)
       PROVE  IInv'
  <2>1. /\ End(w) /\ UNCHANGED <<entry, born, lapsed, free, claims>>
        /\ crashes' \in 0 .. MaxCrashes
    BY <1>1, <1>12, BoundsNat DEF RefuseClaim, RollBack, Crash
  <2>2. LineOK'
    BY <1>1, <2>1, UntouchedLine
  <2> QED
    BY <1>1, <1>3, <2>1, <2>2, EndKeepsInvariant
<1>13. ASSUME FinishExpire
       PROVE  IInv'
  <2>1. LineOK'
    <3>1. subject[Expirer] \in SUBSET Phones
      BY <1>1, <1>2 DEF TypeOK
    <3>2. \A p \in subject[Expirer] : seen[Expirer][p].state = "offered"
      BY <1>2, <1>13 DEF IInv, SubjectsWereRead, FinishExpire
    <3> QED
      BY <1>1, <1>2, <1>13, <3>1, <3>2, HandOnKeepsLine DEF FinishExpire
  <2> QED
    BY <1>1, <1>2, <1>3, <1>13, <2>1, EndKeepsInvariant DEF FinishExpire
<1>14. ASSUME FinishReclaim
       PROVE  IInv'
  <2>1. LineOK'
    <3>1. CASE subject[Drainer] \subseteq Standing(seen[Drainer])
      <4>1. subject[Drainer] \in SUBSET Phones
        BY <1>1, <1>2 DEF TypeOK
      <4>2. \A p \in subject[Drainer] : seen[Drainer][p].state = "offered"
        BY <3>1 DEF Standing
      <4> QED
        BY <1>1, <1>2, <1>14, <3>1, <4>1, <4>2, HandOnKeepsLine DEF FinishReclaim
    <3>2. CASE ~ (subject[Drainer] \subseteq Standing(seen[Drainer]))
      BY <1>1, <1>14, <3>2, UntouchedLine DEF FinishReclaim
    <3> QED
      BY <3>1, <3>2
  <2>2. lapsed' \subseteq lapsed
    BY <1>14 DEF FinishReclaim
  <2> QED
    BY <1>1, <1>2, <1>3, <1>14, <2>1, <2>2, EndKeepsInvariant DEF FinishReclaim
<1>15. ASSUME NEW p \in Phones, Lapse(p)
       PROVE  IInv'
  BY <1>15 DEF Lapse, IInv, TypeOK, LineIsAnOrder, OneStandingOffer, Standing, OffersFit,
               SubjectsWereRead, CancellationsFit, CancelsInFlight, OfferYieldsOneBooking
<1>16. ASSUME Book
       PROVE  IInv'
  <2>1. /\ UNCHANGED <<entry, born, lapsed, claims, doing, subject, seen, crashes>>
        /\ free > 0 /\ free' = free - 1
    BY <1>16 DEF Book
  <2>2. free' \in 0 .. Hours /\ CancellationsFit'
    <3>1. Cardinality(CancelsInFlight)' = Cardinality(CancelsInFlight)
      BY <2>1 DEF CancelsInFlight
    <3>2. free + Cardinality(CancelsInFlight) <= Hours
      BY DEF IInv, CancellationsFit
    <3> QED
      BY <1>1, <2>1, <3>1, <3>2, CancelsCounted, BoundsNat DEF CancellationsFit
  <2> QED
    BY <2>1, <2>2 DEF IInv, TypeOK, LineIsAnOrder, OneStandingOffer, Standing, OffersFit,
                      SubjectsWereRead, OfferYieldsOneBooking
<1>17. CASE UNCHANGED vars
  BY <1>17 DEF vars, IInv, TypeOK, LineIsAnOrder, OneStandingOffer, Standing, OffersFit,
               SubjectsWereRead, CancellationsFit, CancelsInFlight, OfferYieldsOneBooking
<1> QED
  BY <1>2, <1>4, <1>5, <1>6, <1>7, <1>8, <1>9, <1>10, <1>11, <1>12, <1>13, <1>14, <1>15,
     <1>16, <1>17 DEF Next, Finish, FinishExpiry, FinishRelease

-----------------------------------------------------------------------------
(* Theorems.                                                               *)

\* IInv holds in every reachable state.
THEOREM InductiveInvariant == Spec => []IInv
<1>1. Init => IInv
  BY InitInvariant
<1>2. IInv /\ [Next]_vars => IInv'
  BY NextInvariant
<1> QED
  BY <1>1, <1>2, PTL DEF Spec

\* The variables have their types: in particular no hour is freed twice, and no
\* customer is made more offers than the bound allows.
THEOREM TypeCorrect == Spec => []TypeOK
<1>1. IInv => TypeOK
  BY DEF IInv
<1> QED
  BY <1>1, InductiveInvariant, PTL

\* Nobody else holds a claim link for a day while one stands, although four
\* paths call modryn_offer_next without a lock.
THEOREM OneOfferADay == Spec => []OneOfferPerDay
<1>1. IInv => OneOfferPerDay
  <2> SUFFICES ASSUME IInv PROVE OneOfferPerDay
    OBVIOUS
  <2>1. CASE Standing(entry) = {}
    BY <2>1, FS_EmptySet DEF OneOfferPerDay
  <2>2. CASE Standing(entry) # {}
    <3>1. PICK p \in Standing(entry) : TRUE
      BY <2>2
    <3>2. Standing(entry) = {p}
      BY <3>1 DEF IInv, OneStandingOffer
    <3>3. Cardinality(Standing(entry)) = 1
      BY <3>2, FS_Singleton
    <3> QED
      BY <3>3 DEF OneOfferPerDay
  <2> QED
    BY <2>1, <2>2
<1> QED
  BY <1>1, InductiveInvariant, PTL

\* An entry is 'claimed' exactly when one booking was made through its links.
THEOREM OneBookingPerOffer == Spec => []OfferYieldsOneBooking
<1>1. IInv => OfferYieldsOneBooking
  BY DEF IInv
<1> QED
  BY <1>1, InductiveInvariant, PTL

-----------------------------------------------------------------------------
(* The line.                                                               *)

\* A cancellation withdraws no offer.
CancelsAboutNobody == \A w \in Procs : doing[w] = "cancel" => subject[w] = {}

\* w hands the day on, and is done.
HandsOn(w) ==
    /\ doing[w] # "idle" /\ doing' = [doing EXCEPT ![w] = "idle"]
    /\ OfferNext(w, subject[w])
    /\ UNCHANGED born
    /\ \A p \in subject[w] : seen[w][p].state = "offered"

\* No other step makes or withdraws an offer, or frees an hour.
Quiet ==
    /\ \A p \in Phones : entry'[p] # entry[p] => entry'[p].state \in {"waiting", "claimed"}
    /\ free' <= free

LEMMA CancelsStayAboutNobody ==
    ASSUME IInv, CancelsAboutNobody, [Next]_vars
    PROVE  CancelsAboutNobody'
<1>1. doing \in [Procs -> Kinds] /\ subject \in [Procs -> SUBSET Phones]
  BY DEF IInv, TypeOK
<1>2. ASSUME NEW w \in Procs, End(w) PROVE CancelsAboutNobody'
  BY <1>1, <1>2 DEF End, CancelsAboutNobody
<1>3. ASSUME NEW w \in Procs, NEW k \in Kinds, NEW about, NEW reads, Begin(w, k, about, reads),
             k = "cancel" => about = {}
      PROVE  CancelsAboutNobody'
  BY <1>1, <1>3 DEF Begin, CancelsAboutNobody
<1>4. ASSUME UNCHANGED <<doing, subject>> PROVE CancelsAboutNobody'
  BY <1>4 DEF CancelsAboutNobody
<1>5. ASSUME NEW w \in Clerks, NEW p \in Phones, BeginJoin(w, p) \/ BeginClaim(w, p)
      PROVE  CancelsAboutNobody'
  BY <1>3, <1>5 DEF BeginJoin, BeginClaim, Procs, Kinds
<1>6. ASSUME NEW w \in Clerks, BeginCancel(w) PROVE CancelsAboutNobody'
  BY <1>3, <1>6 DEF BeginCancel, Procs, Kinds
<1>7. ASSUME NEW p \in Phones, BeginReclaim(p) PROVE CancelsAboutNobody'
  BY <1>3, <1>7 DEF BeginReclaim, Procs, Kinds
<1>8. ASSUME BeginExpire PROVE CancelsAboutNobody'
  BY <1>3, <1>8 DEF BeginExpire, Procs, Kinds
<1>9. ASSUME NEW w \in Clerks, Finish(w) PROVE CancelsAboutNobody'
  BY <1>2, <1>9 DEF Finish, FinishJoin, FinishClaim, FinishCancel, RefuseClaim, RollBack, Procs
<1>10. ASSUME FinishExpiry \/ FinishRelease PROVE CancelsAboutNobody'
  BY <1>2, <1>10 DEF FinishExpiry, FinishRelease, FinishExpire, FinishReclaim, RollBack, Procs
<1>11. ASSUME NEW w \in Procs, Crash(w) PROVE CancelsAboutNobody'
  BY <1>2, <1>11 DEF Crash
<1>12. ASSUME NEW p \in Phones, Lapse(p) PROVE CancelsAboutNobody'
  BY <1>4, <1>12 DEF Lapse
<1>13. ASSUME Book \/ UNCHANGED vars PROVE CancelsAboutNobody'
  BY <1>4, <1>13 DEF Book, vars
<1> QED
  BY <1>5, <1>6, <1>7, <1>8, <1>9, <1>10, <1>11, <1>12, <1>13 DEF Next

LEMMA HandsOnOrQuiet ==
    ASSUME IInv, CancelsAboutNobody, [Next]_vars
    PROVE  Quiet \/ \E w \in Procs : HandsOn(w)
<1>1. /\ entry \in [Phones -> Rows] /\ free \in Nat
      /\ doing \in [Procs -> Kinds] /\ subject \in [Procs -> SUBSET Phones]
  BY BoundsNat DEF IInv, TypeOK
<1>2. Clerks \subseteq Procs /\ Expirer \in Procs /\ Drainer \in Procs
  BY DEF Procs
<1>3. UNCHANGED <<entry, free>> => Quiet
  BY <1>1 DEF Quiet
<1>4. ASSUME NEW w \in Clerks, NEW p \in Phones, FinishJoin(w, p) PROVE Quiet
  <2>1. entry' = entry \/ entry' = [entry EXCEPT ![p].state = "waiting"]
    BY <1>4 DEF FinishJoin, JoinNew, JoinAgain
  <2>2. entry[p] \in Rows
    BY <1>1
  <2> QED
    BY <1>1, <1>4, <2>1, <2>2 DEF FinishJoin, Quiet, Rows
<1>5. ASSUME NEW w \in Clerks, NEW p \in Phones, FinishClaim(w, p) PROVE Quiet
  <2>1. entry' = [entry EXCEPT ![p].state = "claimed"] /\ free' = free - 1
    BY <1>5 DEF FinishClaim
  <2>2. entry[p] \in Rows
    BY <1>1
  <2> QED
    BY <1>1, <2>1, <2>2 DEF Quiet, Rows
<1>6. ASSUME NEW w \in Clerks, FinishCancel(w) PROVE HandsOn(w)
  <2>1. subject[w] = {}
    BY <1>2, <1>6 DEF FinishCancel, CancelsAboutNobody
  <2> QED
    BY <1>6, <2>1 DEF FinishCancel, HandsOn, End
<1>7. ASSUME FinishExpire PROVE HandsOn(Expirer)
  BY <1>2, <1>7 DEF FinishExpire, HandsOn, End, IInv, SubjectsWereRead
<1>8. ASSUME FinishReclaim PROVE Quiet \/ HandsOn(Drainer)
  <2>1. CASE subject[Drainer] \subseteq Standing(seen[Drainer])
    BY <1>8, <2>1 DEF FinishReclaim, HandsOn, End, Standing
  <2>2. CASE ~ (subject[Drainer] \subseteq Standing(seen[Drainer]))
    BY <1>3, <1>8, <2>2 DEF FinishReclaim
  <2> QED
    BY <2>1, <2>2
<1>9. ASSUME NEW w \in Procs, RefuseClaim(w) \/ RollBack(w) \/ Crash(w) PROVE Quiet
  BY <1>3, <1>9 DEF RefuseClaim, RollBack, Crash
<1>10. ASSUME NEW w \in Clerks, NEW p \in Phones, BeginJoin(w, p) \/ BeginClaim(w, p) PROVE Quiet
  BY <1>3, <1>10 DEF BeginJoin, BeginClaim, Begin
<1>11. ASSUME NEW w \in Clerks, BeginCancel(w) PROVE Quiet
  BY <1>3, <1>11 DEF BeginCancel, Begin
<1>12. ASSUME BeginExpire PROVE Quiet
  BY <1>3, <1>12 DEF BeginExpire, Begin
<1>13. ASSUME NEW p \in Phones, BeginReclaim(p) \/ Lapse(p) PROVE Quiet
  BY <1>3, <1>13 DEF BeginReclaim, Lapse, Begin
<1>14. ASSUME Book PROVE Quiet
  BY <1>1, <1>14 DEF Book, Quiet
<1>15. CASE UNCHANGED vars
  BY <1>3, <1>15 DEF vars
<1> QED
  BY <1>2, <1>4, <1>5, <1>6, <1>7, <1>8, <1>9, <1>10, <1>11, <1>12, <1>13, <1>14, <1>15
  DEF Next, Finish, FinishExpiry, FinishRelease

\* What w has withdrawn itself is all its view and its snapshot differ in.
LEMMA ViewWaits ==
    ASSUME IInv, NEW w \in Procs, NEW own, \A p \in own : seen[w][p].state = "offered"
    PROVE  /\ Waiting(View(w, own)) = Waiting(seen[w])
           /\ Candidates(View(w, own)) = Candidates(seen[w])
           /\ Standing(View(w, own)) = Standing(seen[w]) \ own
<1>1. \A p \in Phones : seen[w][p] \in Rows
  BY DEF IInv, TypeOK
<1>2. \A p \in Phones : View(w, own)[p].state = IF p \in own THEN "expired" ELSE seen[w][p].state
  BY <1>1 DEF View, ExpireIn, Rows
<1>3. Waiting(View(w, own)) = Waiting(seen[w])
  BY <1>2 DEF Waiting
<1>4. Standing(View(w, own)) = Standing(seen[w]) \ own
  BY <1>2 DEF Standing
<1> QED
  BY <1>3, <1>4 DEF Candidates

\* Some customers have one who is first.
LEMMA FirstExists ==
    ASSUME TypeOK, NEW R \in SUBSET Phones, R # {}
    PROVE  FirstOf(R) # {}
<1> DEFINE B == {born[p] : p \in R}
<1>1. B \in SUBSET Nat /\ B # {}
  BY DEF TypeOK
<1>2. PICK m \in B : \A k \in B : <<k, m>> \notin OpToRel(<, Nat)
  <2>1. IsWellFoundedOn(OpToRel(<, Nat), Nat)
    BY NatLessThanWellFounded
  <2> HIDE DEF B
  <2> QED
    BY <1>1, <2>1, WFMin
<1>3. PICK p \in R : m = born[p]
  BY <1>2
<1>4. ASSUME NEW q \in R PROVE born[p] <= born[q]
  <2>1. ~ (born[q] < born[p])
    BY <1>1, <1>2, <1>3, <1>4 DEF OpToRel
  <2>2. born[p] \in Nat /\ born[q] \in Nat
    BY DEF TypeOK
  <2> QED
    BY <2>1, <2>2
<1> QED
  BY <1>3, <1>4 DEF FirstOf

\* Who waits before a candidate is a candidate.
LEMMA CandidatesFromTheFront ==
    ASSUME TypeOK, NEW rows, NEW p \in Waiting(rows), NEW q \in Candidates(rows), born[p] < born[q]
    PROVE  p \in Candidates(rows)
<1> DEFINE Before(r) == {x \in Waiting(rows) : born[x] < born[r]}
<1>1. p \in Phones /\ q \in Phones
  BY DEF Waiting, Candidates
<1>2. Before(p) \subseteq Before(q)
  BY <1>1 DEF Waiting, TypeOK
<1>3. IsFiniteSet(Before(q)) /\ IsFiniteSet(Before(p))
  BY PhonesFinite, FS_Subset DEF Waiting
<1>4. Cardinality(Before(p)) <= Cardinality(Before(q))
      /\ Cardinality(Before(p)) \in Nat /\ Cardinality(Before(q)) \in Nat
  BY <1>2, <1>3, FS_Subset, FS_CardinalityType
<1>5. Cardinality(Before(q)) < MaxCandidates
  BY DEF Candidates
<1> QED
  BY <1>4, <1>5, CandidatesPos DEF Candidates

\* Whoever is made an offer came first of those the transaction knows to wait as they do.
LEMMA OfferedIsFirst ==
    ASSUME IInv, NEW w \in Procs, HandsOn(w), NEW p \in Phones \ Legacy, NEW q \in Phones \ Legacy,
           entry[q].state # "offered", entry'[q].state = "offered",
           entry[p].state = "waiting", born[p] < born[q]
    PROVE  seen[w][p] # entry[p]
<1> DEFINE own == subject[w]
           view == View(w, own)
<1> SUFFICES ASSUME seen[w][p] = entry[p] PROVE FALSE
  OBVIOUS
<1>1. \A x \in own : seen[w][x].state = "offered"
  BY DEF HandsOn
<1>2. entry \in [Phones -> Rows] /\ own \subseteq Phones /\ TypeOK
  BY DEF IInv, TypeOK
<1>3. \A x \in Phones : ExpireIn(entry, own)[x].state = IF x \in own THEN "expired" ELSE entry[x].state
  BY <1>2 DEF ExpireIn, Rows
<1>4. entry' # ExpireIn(entry, own)
  BY <1>3
<1>5. MakesOffer(w, own)
  BY <1>4 DEF HandsOn, OfferNext, NothingToOffer, LosesOffer
<1>6. q \in Chosen(view)
  BY <1>3, <1>5 DEF MakesOffer, MakeOffers
<1>7. Candidates(view) = Candidates(seen[w])
  BY <1>1, ViewWaits
<1>8. q \in Candidates(seen[w]) /\ \A c \in Candidates(seen[w]) \ Legacy : born[q] <= born[c]
  BY <1>6, <1>7 DEF Chosen, FirstOf
<1>9. p \in Candidates(seen[w])
  BY <1>2, <1>8, CandidatesFromTheFront DEF Waiting
<1>10. born[p] \in Nat /\ born[q] \in Nat
  BY <1>2 DEF TypeOK
<1> QED
  BY <1>8, <1>9, <1>10

\* Whoever hands the day on leaves an offer standing, if it knows whom to make one.
LEMMA DayHandedOn ==
    ASSUME IInv, NEW w \in Procs, HandsOn(w)
    PROVE  \/ Standing(entry') # {}
           \/ Standing(seen[w]) \ subject[w] # {}
           \/ Candidates(seen[w]) \subseteq Legacy
<1> DEFINE own == subject[w]
           view == View(w, own)
<1>1. \A x \in own : seen[w][x].state = "offered"
  BY DEF HandsOn
<1>2. entry \in [Phones -> Rows] /\ own \subseteq Phones /\ TypeOK
  BY DEF IInv, TypeOK
<1>3. \A x \in Phones : ExpireIn(entry, own)[x].state = IF x \in own THEN "expired" ELSE entry[x].state
  BY <1>2 DEF ExpireIn, Rows
<1>4. /\ Candidates(view) = Candidates(seen[w])
      /\ Standing(view) = Standing(seen[w]) \ own
  BY <1>1, ViewWaits
<1>5. Chosen(view) = {} => Candidates(seen[w]) \subseteq Legacy
  <2>1. Candidates(view) \ Legacy \in SUBSET Phones
    BY DEF Candidates, Waiting
  <2>2. Candidates(view) \ Legacy # {} => Chosen(view) # {}
    BY <1>2, <2>1, FirstExists DEF Chosen
  <2> QED
    BY <1>4, <2>2
<1>6. CASE NothingToOffer(w, own)
  <2>1. Standing(view) # {} \/ Chosen(view) = {}
    BY <1>6 DEF NothingToOffer, WantsToOffer, Walked
  <2> QED
    BY <1>4, <1>5, <2>1
<1>7. CASE LosesOffer(w, own)
  <2>1. PICK r \in Phones \ own : entry[r].state = "offered"
    BY <1>7 DEF LosesOffer, Rivals, Standing
  <2>2. entry'[r].state = "offered"
    BY <1>3, <1>7, <2>1 DEF LosesOffer
  <2> QED
    BY <2>2 DEF Standing
<1>8. CASE MakesOffer(w, own)
  <2>1. ASSUME NEW c \in Chosen(view) PROVE c \in Phones /\ entry'[c].state = "offered"
    BY <1>8, <2>1 DEF MakesOffer, MakeOffers, Walked, Chosen, FirstOf, Candidates, Waiting
  <2> QED
    BY <1>5, <2>1 DEF Standing
<1> QED
  BY <1>6, <1>7, <1>8 DEF HandsOn, OfferNext

\* Nobody is jumped over by an offer whose transaction could see her, and whoever frees an
\* hour or withdraws an offer hands the day on if there is somebody to text (modryn_offer_next
\* on each of its four paths), for any line, workers and bounds.
THEOREM DayGoesDownTheLine == Spec => DayPassesDownTheLine
<1>1. Init => IInv /\ CancelsAboutNobody
  BY InitInvariant DEF Init, CancelsAboutNobody
<1>2. IInv /\ CancelsAboutNobody /\ [Next]_vars => IInv' /\ CancelsAboutNobody'
  BY NextInvariant, CancelsStayAboutNobody
<1>3. IInv /\ CancelsAboutNobody /\ [Next]_vars =>
        [\A p, q \in Phones \ Legacy :
          /\ entry[q].state # "offered" /\ entry'[q].state = "offered"
          /\ entry[p].state = "waiting" /\ entry'[p].state = "waiting"
          /\ born[p] < born[q]
          => \E w \in Procs : doing[w] # doing'[w] /\ seen[w][p] # entry[p]]_vars
  <2> SUFFICES ASSUME IInv, CancelsAboutNobody, [Next]_vars,
                      NEW p \in Phones \ Legacy, NEW q \in Phones \ Legacy,
                      entry[q].state # "offered", entry'[q].state = "offered",
                      entry[p].state = "waiting", born[p] < born[q]
               PROVE  \E w \in Procs : doing[w] # doing'[w] /\ seen[w][p] # entry[p]
    OBVIOUS
  <2>1. ~Quiet
    BY DEF Quiet
  <2>2. PICK w \in Procs : HandsOn(w)
    BY <2>1, HandsOnOrQuiet
  <2>3. doing[w] # doing'[w]
    BY <2>2 DEF HandsOn, IInv, TypeOK
  <2> QED
    BY <2>2, <2>3, OfferedIsFirst
<1>4. IInv /\ CancelsAboutNobody /\ [Next]_vars =>
        [\A w \in Procs :
          /\ doing[w] # "idle" /\ doing'[w] = "idle"
          /\ \/ free' > free
             \/ \E p \in Phones \ Legacy :
                    entry[p].state = "offered" /\ entry'[p].state = "expired"
          => \/ Standing(entry') # {}
             \/ Standing(seen[w]) \ subject[w] # {}
             \/ Candidates(seen[w]) \subseteq Legacy]_vars
  <2> SUFFICES ASSUME IInv, CancelsAboutNobody, [Next]_vars, NEW w \in Procs,
                      doing[w] # "idle", doing'[w] = "idle",
                      \/ free' > free
                      \/ \E p \in Phones \ Legacy :
                             entry[p].state = "offered" /\ entry'[p].state = "expired"
               PROVE  \/ Standing(entry') # {}
                      \/ Standing(seen[w]) \ subject[w] # {}
                      \/ Candidates(seen[w]) \subseteq Legacy
    OBVIOUS
  <2>1. ~Quiet
    <3>1. free \in Int /\ free' \in Int
      BY NextInvariant, BoundsNat DEF IInv, TypeOK
    <3> QED
      BY <3>1 DEF Quiet
  <2>2. PICK v \in Procs : HandsOn(v)
    BY <2>1, HandsOnOrQuiet
  <2>3. v = w
    BY <2>2 DEF HandsOn, IInv, TypeOK
  <2> QED
    BY <2>2, <2>3, DayHandedOn
<1> QED
  BY <1>1, <1>2, <1>3, <1>4, PTL DEF Spec, DayPassesDownTheLine, FirstComeFirstServed, DayIsHandedOn

=============================================================================
