------------------------ MODULE WalkInQueue_proofs --------------------------
(***************************************************************************)
(* The safety of the walk-in line for any visits, numbers, managers and    *)
(* number of transactions side by side: the invariant IInv of WalkInQueue  *)
(* is inductive.                                                           *)
(***************************************************************************)
EXTENDS WalkInQueue, FiniteSetTheorems, TLAPS

-----------------------------------------------------------------------------
(* Transactions.                                                           *)

\* The fields of a row are typed and make up the row.
LEMMA RowFields ==
    ASSUME NEW r \in Rows
    PROVE  /\ r = [state |-> r.state, nextTold |-> r.nextTold, turnTold |-> r.turnTold]
           /\ r.state \in States /\ r.nextTold \in BOOLEAN /\ r.turnTold \in BOOLEAN
BY DEF Rows

\* Three typed fields make a row.
LEMMA FieldsRow ==
    ASSUME NEW a \in States, NEW b \in BOOLEAN, NEW c \in BOOLEAN
    PROVE  [state |-> a, nextTold |-> b, turnTold |-> c] \in Rows
BY DEF Rows

\* Stamping the heads-up of a row keeps its other fields.
LEMMA StampedRow ==
    ASSUME NEW r \in Rows, NEW b \in BOOLEAN
    PROVE  [r EXCEPT !.nextTold = b]
              = [state |-> r.state, nextTold |-> b, turnTold |-> r.turnTold]
BY DEF Rows

\* Moving a row to another state keeps its stamps.
LEMMA MovedRow ==
    ASSUME NEW r \in Rows, NEW a \in States
    PROVE  /\ [r EXCEPT !.state = a] \in Rows
           /\ [r EXCEPT !.state = a].state = a
           /\ [r EXCEPT !.state = a].nextTold = r.nextTold
           /\ [r EXCEPT !.state = a].turnTold = r.turnTold
BY DEF Rows

\* A transaction that begins sees the rows as they are.
LEMMA BeginKeepsSnapshots ==
    ASSUME TypeOK, SnapshotsHold, AskedAbout, NEW w \in Procs, NEW kind \in Kinds,
           NEW about \in SUBSET Visits, Begin(w, kind, about),
           kind \in {"call", "finish", "redirect", "accept"} => \E t \in Visits : about = {t},
           kind \notin {"idle", "checkin", "refused"} =>
               \A t \in about : ticket[t].state # "absent"
    PROVE  SnapshotsHold' /\ AskedAbout'
<1>1. ticket' = ticket /\ dirty' = dirty
  BY DEF Begin
<1>2. \A v \in Procs : /\ v # w => /\ doing'[v] = doing[v] /\ on'[v] = on[v] /\ seen'[v] = seen[v]
                       /\ doing'[w] = kind /\ on'[w] = about /\ seen'[w] = ticket
  BY DEF Begin, TypeOK
<1>3. SnapshotsHold'
  BY <1>1, <1>2 DEF SnapshotsHold, Begin
<1>4. AskedAbout'
  BY <1>1, <1>2 DEF AskedAbout
<1> QED
  BY <1>3, <1>4

\* A transaction that commits the rows R, and takes no stamp back, leaves the
\* others what they may still trust.
LEMMA EndKeepsSnapshots ==
    ASSUME TypeOK, SnapshotsHold, AskedAbout, NEW w \in Procs, NEW R \in SUBSET Visits,
           End(w, R),
           \A t \in Visits \ R : ticket'[t] = ticket[t],
           \A t \in Visits : ticket[t].nextTold => ticket'[t].nextTold
    PROVE  SnapshotsHold' /\ AskedAbout'
<1>1. \A v \in Procs : /\ v = w => doing'[v] = "idle" /\ on'[v] = {}
                       /\ v # w => /\ doing'[v] = doing[v] /\ on'[v] = on[v] /\ seen'[v] = seen[v]
                                   /\ doing[v] # "idle" => dirty'[v] = dirty[v] \cup R
  BY DEF End, TypeOK
<1>2. SnapshotsHold'
  <2> SUFFICES ASSUME NEW v \in Procs, doing'[v] # "idle", NEW t \in Visits
               PROVE  /\ t \notin dirty'[v] => seen'[v][t] = ticket'[t]
                      /\ seen'[v][t].nextTold => ticket'[t].nextTold
    BY DEF SnapshotsHold
  <2>1. v # w /\ doing[v] # "idle" /\ seen'[v] = seen[v] /\ dirty'[v] = dirty[v] \cup R
    BY <1>1
  <2>2. seen'[v][t].nextTold => ticket'[t].nextTold
    BY <2>1 DEF SnapshotsHold
  <2>3. t \notin dirty'[v] => seen'[v][t] = ticket'[t]
    BY <2>1 DEF SnapshotsHold
  <2> QED
    BY <2>2, <2>3
<1>3. AskedAbout'
  BY <1>1 DEF AskedAbout
<1> QED
  BY <1>2, <1>3

\* The variables of the transactions keep their types.
LEMMA EndKeepsTypes ==
    ASSUME TypeOK, NEW w \in Procs, NEW R \in SUBSET Visits, End(w, R)
    PROVE  /\ doing' \in [Procs -> Kinds]
           /\ on'    \in [Procs -> SUBSET Visits]
           /\ seen'  \in [Procs -> [Visits -> Rows]]
           /\ dirty' \in [Procs -> SUBSET Visits]
<1>1. NoRows \in [Visits -> Rows]
  BY DEF NoRows, NoRow, Rows, States
<1>2. \A v \in Procs : dirty'[v] \in SUBSET Visits
  BY DEF End, TypeOK
<1> QED
  BY <1>1, <1>2 DEF End, TypeOK, Kinds

-----------------------------------------------------------------------------
(* The floor.                                                              *)

ManagerKinds == {"call", "finish", "redirect", "accept"}

\* What Serve writes: the tickets it moves and the one it promotes, none of which
\* has changed since it was read.
LEMMA ServeWrites ==
    ASSUME TypeOK, SnapshotsHold, AskedAbout, NEW w \in Procs, NEW R \in SUBSET on[w],
           NEW s \in States, doing[w] \in ManagerKinds, Serve(w, R, s),
           NEW t \in Visits
    PROVE  LET next == Promoted(View(w, R, s))
           IN  /\ next \in SUBSET Visits
               /\ t \notin R \cup next => ticket'[t] = ticket[t]
               /\ t \in R => /\ ticket[t].state # "absent"
                             /\ seen[w][t] = ticket[t]
                             /\ ticket'[t] = [state    |-> s,
                                             nextTold |-> ticket[t].nextTold \/ t \in next,
                                             turnTold |-> ticket[t].turnTold \/ s = "called"]
               /\ t \in next => ~ticket[t].nextTold
               /\ t \in next \ R => /\ ticket[t].state = "waiting"
                                    /\ ticket'[t] = [state    |-> "waiting",
                                                    nextTold |-> TRUE,
                                                    turnTold |-> ticket[t].turnTold]
<1> DEFINE view == View(w, R, s)
           next == Promoted(view)
<1>1. seen[w][t] \in Rows /\ ticket[t] \in Rows /\ R \in SUBSET Visits
  BY DEF TypeOK
<1>2. /\ t \in R => view[t] = [state    |-> s,
                              nextTold |-> seen[w][t].nextTold,
                              turnTold |-> seen[w][t].turnTold \/ s = "called"]
      /\ t \notin R => view[t] = seen[w][t]
  BY <1>1 DEF View, Rows
<1>3. next \in SUBSET Visits /\ (t \in next => view[t].state = "waiting" /\ ~view[t].nextTold)
  BY DEF Promoted, Front, WithState
<1>4. ticket'[t] = IF t \in next THEN [view[t] EXCEPT !.nextTold = TRUE]
                   ELSE IF t \in R THEN view[t] ELSE ticket[t]
  BY DEF Serve
<1>5. (R \cup next) \cap dirty[w] = {}
  BY DEF Serve
<1>6. t \in R \cup next => seen[w][t] = ticket[t]
  BY <1>5 DEF SnapshotsHold, ManagerKinds
<1>7. t \in R => ticket[t].state # "absent"
  BY <1>6 DEF AskedAbout, ManagerKinds
<1> HIDE DEF view, next
<1>8. t \in R => ticket'[t] = [state    |-> s,
                             nextTold |-> ticket[t].nextTold \/ t \in next,
                             turnTold |-> ticket[t].turnTold \/ s = "called"]
  <2>1. CASE t \in R /\ t \in next
    <3>1. ticket'[t] = [view[t] EXCEPT !.nextTold = TRUE]
      BY <2>1, <1>4
    <3>2. ticket'[t] = [state |-> s, nextTold |-> TRUE,
                        turnTold |-> seen[w][t].turnTold \/ s = "called"]
      <4>1. view[t] \in Rows
        <5>1. (seen[w][t].turnTold \/ s = "called") \in BOOLEAN /\ seen[w][t].nextTold \in BOOLEAN
          BY <1>1 DEF Rows
        <5> QED
          BY <2>1, <5>1, <1>2, FieldsRow, Zenon
      <4>2. view[t].state = s /\ view[t].turnTold = (seen[w][t].turnTold \/ s = "called")
        BY <2>1, <1>2
      <4>3. [view[t] EXCEPT !.nextTold = TRUE]
            = [state |-> view[t].state, nextTold |-> TRUE, turnTold |-> view[t].turnTold]
        BY <4>1, StampedRow, Zenon
      <4> QED
        BY <3>1, <4>2, <4>3, Zenon
    <3>3. (ticket[t].nextTold \/ t \in next) = TRUE
      BY <2>1
    <3> QED
      BY <2>1, <3>2, <3>3, <1>6
  <2>2. CASE t \in R /\ t \notin next
    <3>1. ticket'[t] = view[t]
      BY <2>2, <1>4
    <3>2. (ticket[t].nextTold \/ t \in next) = ticket[t].nextTold
      BY <2>2, <1>1 DEF Rows
    <3> QED
      BY <2>2, <3>1, <3>2, <1>2, <1>6
  <2> QED
    BY <2>1, <2>2
<1>9. t \in next => ~ticket[t].nextTold
  BY <1>2, <1>3, <1>6
<1>10. t \in next \ R => /\ ticket[t].state = "waiting"
                        /\ ticket'[t] = [state |-> "waiting", nextTold |-> TRUE,
                                        turnTold |-> ticket[t].turnTold]
  BY <1>1, <1>2, <1>3, <1>4, <1>6 DEF Rows
<1>11. t \notin R \cup next => ticket'[t] = ticket[t]
  BY <1>4
<1> QED
  BY <1>3, <1>6, <1>7, <1>8, <1>9, <1>10, <1>11 DEF view, next

\* One more text is one more stamp.
LEMMA CountedOnce ==
    ASSUME NEW texts \in [Visits -> Nat], NEW R \in SUBSET Visits,
           NEW old \in [Visits -> BOOLEAN], NEW new \in [Visits -> BOOLEAN],
           \A t \in Visits : texts[t] = Counted(old[t]),
           \A t \in Visits : t \in R => ~old[t] /\ new[t],
           \A t \in Visits : t \notin R => new[t] = old[t]
    PROVE  /\ Count(texts, R) \in [Visits -> Nat]
           /\ \A t \in Visits : Count(texts, R)[t] = Counted(new[t])
BY DEF Count, Counted

\* The same field by field: the moved take the new state, and stamps are only set.
LEMMA ServeFields ==
    ASSUME IInv, NEW w \in Procs, NEW R \in SUBSET on[w], NEW s \in States,
           doing[w] \in ManagerKinds, Serve(w, R, s), NEW t \in Visits
    PROVE  /\ ticket'[t].state = IF t \in R THEN s ELSE ticket[t].state
           /\ ticket'[t].nextTold = (ticket[t].nextTold \/ t \in Promoted(View(w, R, s)))
           /\ ticket'[t].turnTold = (ticket[t].turnTold \/ (t \in R /\ s = "called"))
           /\ ticket'[t] \in Rows
<1> DEFINE next == Promoted(View(w, R, s))
<1> SUFFICES /\ ticket'[t].state = IF t \in R THEN s ELSE ticket[t].state
             /\ ticket'[t].nextTold = (ticket[t].nextTold \/ t \in next)
             /\ ticket'[t].turnTold = (ticket[t].turnTold \/ (t \in R /\ s = "called"))
             /\ ticket'[t] \in Rows
  OBVIOUS
<1>1. /\ t \notin R \cup next => ticket'[t] = ticket[t]
      /\ t \in R => ticket'[t] = [state    |-> s,
                                 nextTold |-> ticket[t].nextTold \/ t \in next,
                                 turnTold |-> ticket[t].turnTold \/ s = "called"]
      /\ t \in next \ R => /\ ticket[t].state = "waiting"
                           /\ ticket'[t] = [state    |-> "waiting",
                                           nextTold |-> TRUE,
                                           turnTold |-> ticket[t].turnTold]
  BY ServeWrites DEF IInv
<1> HIDE DEF next
<1>2. /\ ticket[t] \in Rows /\ ticket[t].state \in States
      /\ ticket[t].nextTold \in BOOLEAN /\ ticket[t].turnTold \in BOOLEAN
  BY RowFields DEF IInv, TypeOK
<1>3. CASE t \notin R \cup next
  BY <1>3, <1>1, <1>2 DEF TypeOK
<1>4. CASE t \in R
  <2>1. (ticket[t].nextTold \/ t \in next) \in BOOLEAN /\ (ticket[t].turnTold \/ s = "called") \in BOOLEAN
    OBVIOUS
  <2>2. ticket'[t] \in Rows
    BY <1>4, <1>1, <2>1, FieldsRow, Zenon
  <2> DEFINE a == ticket[t].nextTold \/ t \in next
             b == ticket[t].turnTold \/ s = "called"
  <2>0. ticket'[t] = [state |-> s, nextTold |-> a, turnTold |-> b]
    BY <1>4, <1>1, Zenon
  <2> HIDE DEF a, b
  <2>3. ticket'[t].state = s /\ ticket'[t].nextTold = a /\ ticket'[t].turnTold = b
    BY <2>0
  <2> USE DEF a, b
  <2>4. ticket'[t].nextTold = (ticket[t].nextTold \/ t \in next)
    BY <2>3
  <2>5. ticket'[t].turnTold = (ticket[t].turnTold \/ s = "called")
    BY <2>3
  <2>6. (t \in R /\ s = "called") = (s = "called")
    BY <1>4
  <2> QED
    BY <1>4, <2>2, <2>3, <2>4, <2>5, <2>6, Zenon
<1>5. CASE t \in next \ R
  <2>1. ticket'[t] \in Rows
    <3>1. "waiting" \in States /\ TRUE \in BOOLEAN
      BY DEF States
    <3> QED
      BY <1>5, <1>1, <1>2, <3>1, FieldsRow, Zenon
  <2>0. /\ ticket[t].state = "waiting"
        /\ ticket'[t] = [state |-> "waiting", nextTold |-> TRUE, turnTold |-> ticket[t].turnTold]
    BY <1>5, <1>1, Zenon
  <2>2. ticket'[t].state = ticket[t].state
    BY <2>0
  <2>3. ticket'[t].nextTold = (ticket[t].nextTold \/ t \in next)
    <3>1. ticket'[t].nextTold = TRUE
      BY <2>0
    <3>2. (ticket[t].nextTold \/ t \in next) = TRUE
      BY <1>5
    <3> QED
      BY <3>1, <3>2
  <2>4. ticket'[t].turnTold = ticket[t].turnTold
    BY <2>0
  <2>5. (ticket[t].turnTold \/ (t \in R /\ s = "called")) = ticket[t].turnTold
    BY <1>5, <1>2
  <2> QED
    BY <1>5, <2>1, <2>2, <2>3, <2>4, <2>5, Zenon
<1> QED
  BY <1>3, <1>4, <1>5

\* Whatever a manager moves and whoever is promoted, the invariant is kept.
LEMMA ServeKeepsInvariant ==
    ASSUME IInv, NEW w \in Managers, NEW R \in SUBSET on[w],
           NEW s \in {"waiting", "called", "closed"},
           doing[w] \in ManagerKinds, Serve(w, R, s)
    PROVE  IInv'
<1> DEFINE next == Promoted(View(w, R, s))
<1>1. /\ w \in Procs /\ w \notin Visits /\ s \in States
      /\ TypeOK /\ SnapshotsHold /\ AskedAbout /\ NoTicketYet /\ StampsCount /\ OneOpenTicket
  BY ProcsDistinct DEF Procs, States, IInv
<1>2. \A t \in Visits :
         /\ next \in SUBSET Visits
         /\ t \notin R \cup next => ticket'[t] = ticket[t]
         /\ t \in R => /\ ticket[t].state # "absent"
                       /\ seen[w][t] = ticket[t]
                       /\ ticket'[t] = [state    |-> s,
                                       nextTold |-> ticket[t].nextTold \/ t \in next,
                                       turnTold |-> ticket[t].turnTold \/ s = "called"]
         /\ t \in next => ~ticket[t].nextTold
         /\ t \in next \ R => /\ ticket[t].state = "waiting"
                              /\ ticket'[t] = [state    |-> "waiting",
                                              nextTold |-> TRUE,
                                              turnTold |-> ticket[t].turnTold]
  BY <1>1, ServeWrites
<1>3. /\ headsUps' = Count(headsUps, next)
      /\ turns' = IF s = "called" THEN Count(turns, {t \in R : ~seen[w][t].turnTold}) ELSE turns
      /\ End(w, R \cup next)
      /\ s \in Open => \A t \in R : Rivals(t) = {}
      /\ DOMAIN ticket' = Visits /\ ticket' = [t \in Visits |-> ticket'[t]]
      /\ UNCHANGED <<born, answer>>
  BY DEF Serve
<1>4. R \in SUBSET Visits /\ next \in SUBSET Visits
  BY <1>1 DEF TypeOK, Promoted, Front, WithState
<1> HIDE DEF next
<1>5. \A t \in Visits : /\ ticket[t].state \in States
                        /\ ticket[t].nextTold \in BOOLEAN /\ ticket[t].turnTold \in BOOLEAN
  BY <1>1, RowFields DEF TypeOK
<1>6. \A t \in Visits :
         /\ ticket'[t].state = IF t \in R THEN s ELSE ticket[t].state
         /\ ticket'[t].nextTold = (ticket[t].nextTold \/ t \in next)
         /\ ticket'[t].turnTold = (ticket[t].turnTold \/ (t \in R /\ s = "called"))
         /\ ticket'[t] \in Rows
  BY <1>1, ServeFields DEF next
<1>7. ticket' \in [Visits -> Rows]
  BY <1>3, <1>6
<1>8. SnapshotsHold' /\ AskedAbout'
  BY <1>1, <1>2, <1>3, <1>4, <1>6, EndKeepsSnapshots
<1>9. NoTicketYet'
  <2>1. \A v \in Visits : doing'[v] = doing[v]
    BY <1>1, <1>3 DEF End, TypeOK, Procs
  <2>2. \A v \in Visits : answer[v] = "none" => v \notin R \cup next
    <3>1. \A v \in Visits : answer[v] = "none" => ticket[v].state = "absent"
      BY <1>1 DEF NoTicketYet, NoRow
    <3> QED
      BY <1>2, <3>1
  <2> QED
    BY <1>1, <1>2, <1>3, <2>1, <2>2 DEF NoTicketYet
<1>10. StampsCount' /\ headsUps' \in [Visits -> Nat] /\ turns' \in [Visits -> Nat]
  <2> DEFINE nextOld == [t \in Visits |-> ticket[t].nextTold]
             nextNew == [t \in Visits |-> ticket'[t].nextTold]
             turnOld == [t \in Visits |-> ticket[t].turnTold]
             turnNew == [t \in Visits |-> ticket'[t].turnTold]
             called  == {t \in R : ~seen[w][t].turnTold}
  <2>1. /\ nextOld \in [Visits -> BOOLEAN] /\ nextNew \in [Visits -> BOOLEAN]
        /\ turnOld \in [Visits -> BOOLEAN] /\ turnNew \in [Visits -> BOOLEAN]
    BY <1>5, <1>6, RowFields
  <2>2. headsUps' \in [Visits -> Nat] /\ \A t \in Visits : headsUps'[t] = Counted(nextNew[t])
    <3>1. \A t \in Visits : headsUps[t] = Counted(nextOld[t])
      BY <1>1 DEF StampsCount
    <3>2. \A t \in Visits : /\ t \in next => ~nextOld[t] /\ nextNew[t]
                            /\ t \notin next => nextNew[t] = nextOld[t]
      BY <1>2, <1>5, <1>6
    <3>3. headsUps \in [Visits -> Nat]
      BY <1>1 DEF TypeOK
    <3> HIDE DEF nextOld, nextNew
    <3> QED
      BY <1>3, <1>4, <2>1, <3>1, <3>2, <3>3, CountedOnce
  <2>3. turns' \in [Visits -> Nat] /\ \A t \in Visits : turns'[t] = Counted(turnNew[t])
    <3>1. \A t \in Visits : turns[t] = Counted(turnOld[t])
      BY <1>1 DEF StampsCount
    <3>2. turns \in [Visits -> Nat]
      BY <1>1 DEF TypeOK
    <3>3. CASE s = "called"
      <4>1. \A t \in Visits : /\ t \in called => ~turnOld[t] /\ turnNew[t]
                              /\ t \notin called => turnNew[t] = turnOld[t]
        BY <3>3, <1>2, <1>5, <1>6
      <4>2. called \in SUBSET Visits /\ turns' = Count(turns, called)
        BY <3>3, <1>3, <1>4
      <4> HIDE DEF turnOld, turnNew, called
      <4> QED
        BY <2>1, <3>1, <3>2, <4>1, <4>2, CountedOnce
    <3>4. CASE s # "called"
      <4>1. \A t \in Visits : turnNew[t] = turnOld[t]
        BY <3>4, <1>5, <1>6
      <4> QED
        BY <3>1, <3>2, <3>4, <4>1, <1>3
    <3> QED
      BY <3>3, <3>4
  <2>4. \A t \in Visits : ticket'[t].state = "called" => ticket'[t].turnTold
    BY <1>1, <1>6 DEF StampsCount
  <2> QED
    BY <2>2, <2>3, <2>4 DEF StampsCount
<1>11. OneOpenTicket'
  <2> SUFFICES ASSUME NEW t \in Visits, NEW u \in Visits,
                      ticket'[t].state \in Open, ticket'[u].state \in Open,
                      PhoneOf[t] = PhoneOf[u], t # u
               PROVE  FALSE
    BY DEF OneOpenTicket, WithState
  <2>1. CASE t \notin R /\ u \notin R
    BY <2>1, <1>1, <1>6 DEF OneOpenTicket, WithState
  <2>2. CASE t \in R /\ u \notin R
    BY <2>2, <1>3, <1>6 DEF Rivals, SamePhone, WithState
  <2>3. CASE t \notin R /\ u \in R
    BY <2>3, <1>3, <1>6 DEF Rivals, SamePhone, WithState
  <2>4. CASE t \in R /\ u \in R
    BY <2>4, <1>1 DEF AskedAbout, ManagerKinds
  <2> QED
    BY <2>1, <2>2, <2>3, <2>4
<1>12. TypeOK'
  BY <1>1, <1>3, <1>4, <1>7, <1>10, EndKeepsTypes DEF TypeOK
<1> QED
  BY <1>8, <1>9, <1>10, <1>11, <1>12 DEF IInv

\* The floor and the closing begin: nothing is written yet.
LEMMA BeginKeepsInvariant ==
    ASSUME IInv, NEW w \in Managers \cup {Closer}, NEW kind \in ManagerKinds \cup {"close"},
           NEW about \in SUBSET Visits, Begin(w, kind, about), UNCHANGED <<born, answer>>,
           kind \in ManagerKinds => \E t \in Visits : about = {t},
           \A t \in about : ticket[t].state # "absent"
    PROVE  IInv'
<1>1. w \in Procs /\ w \notin Visits /\ kind \in Kinds
  BY ProcsDistinct DEF Procs, ManagerKinds, Kinds
<1>2. SnapshotsHold' /\ AskedAbout'
  BY <1>1, BeginKeepsSnapshots DEF IInv, ManagerKinds
<1>3. TypeOK'
  BY <1>1 DEF IInv, TypeOK, Begin
<1>4. \A v \in Visits : doing'[v] = doing[v]
  BY <1>1 DEF IInv, TypeOK, Begin, Procs
<1>5. NoTicketYet'
  BY <1>4 DEF IInv, NoTicketYet, Begin
<1>6. StampsCount' /\ OneOpenTicket'
  BY DEF IInv, StampsCount, OneOpenTicket, WithState, Begin
<1> QED
  BY <1>2, <1>3, <1>5, <1>6 DEF IInv

\* A transaction that wrote nothing ends: rolled back, or with an answer.
LEMMA NothingWritten ==
    ASSUME IInv, NEW w \in Procs, End(w, {}), UNCHANGED <<ticket, born, headsUps, turns>>,
           answer' \in [Visits -> {"none", "created", "given_back", "failed"}],
           w \in Visits => answer'[w] # "none",
           \A v \in Visits \ {w} : answer'[v] = answer[v]
    PROVE  IInv'
<1>1. SnapshotsHold' /\ AskedAbout'
  <2>1. {} \in SUBSET Visits
    OBVIOUS
  <2> QED
    BY <2>1, EndKeepsSnapshots DEF IInv
<1>2. TypeOK'
  <2>1. {} \in SUBSET Visits
    OBVIOUS
  <2> QED
    BY <2>1, EndKeepsTypes DEF IInv, TypeOK
<1>3. \A v \in Visits : /\ v # w => doing'[v] = doing[v]
                        /\ v = w => doing'[v] = "idle" /\ answer'[v] # "none"
  BY DEF IInv, TypeOK, End, Procs
<1>4. NoTicketYet'
  BY <1>3 DEF IInv, NoTicketYet
<1>5. StampsCount' /\ OneOpenTicket'
  BY DEF IInv, StampsCount, OneOpenTicket, WithState
<1> QED
  BY <1>1, <1>2, <1>4, <1>5 DEF IInv

-----------------------------------------------------------------------------
(* Checking in.                                                            *)

\* A new place at the end of the line is counted.
LEMMA CheckInKeepsInvariant ==
    ASSUME IInv, NEW v \in Visits, BeginCheckIn(v)
    PROVE  IInv'
<1>1. v \in Procs /\ "checkin" \in Kinds /\ Begin(v, "checkin", {v}) /\ doing[v] = "idle"
  BY DEF BeginCheckIn, Begin, Procs, Kinds
<1>2. SnapshotsHold' /\ AskedAbout'
  BY <1>1, BeginKeepsSnapshots DEF IInv
<1>3. Cardinality({t \in Visits : born[t] > 0}) + 1 \in 1 .. Cardinality(Visits)
  <2> DEFINE B == {t \in Visits : born[t] > 0}
  <2>1. v \notin B
    BY <1>1 DEF IInv, NoTicketYet, BeginCheckIn
  <2>2. B \subseteq Visits \ {v} /\ IsFiniteSet(Visits \ {v})
        /\ Cardinality(Visits \ {v}) = Cardinality(Visits) - 1
    BY <2>1, VisitsFinite, FS_RemoveElement
  <2> HIDE DEF B
  <2>3. IsFiniteSet(B) /\ Cardinality(B) <= Cardinality(Visits) - 1
    BY <2>2, FS_Subset
  <2>4. Cardinality(B) \in Nat /\ Cardinality(Visits) \in Nat
    BY <2>3, VisitsFinite, FS_CardinalityType
  <2>5. Cardinality(B) + 1 \in 1 .. Cardinality(Visits)
    BY <2>3, <2>4
  <2> QED
    BY <2>5 DEF B
<1>4. Cardinality(Visits) \in Nat
  BY VisitsFinite, FS_CardinalityType
<1>5. born' \in [Visits -> 0 .. Cardinality(Visits)]
  BY <1>3, <1>4 DEF BeginCheckIn, IInv, TypeOK
<1>6. TypeOK'
  BY <1>1, <1>5 DEF IInv, TypeOK, Begin, BeginCheckIn
<1>7. NoTicketYet'
  <2>1. \A u \in Visits : /\ u # v => doing'[u] = doing[u] /\ born'[u] = born[u]
                          /\ doing'[v] = "checkin" /\ answer[v] = "none" /\ answer' = answer
                          /\ ticket' = ticket
    BY <1>1 DEF IInv, TypeOK, Begin, BeginCheckIn, Procs
  <2> QED
    BY <2>1 DEF IInv, NoTicketYet
<1>8. StampsCount' /\ OneOpenTicket'
  BY DEF IInv, StampsCount, OneOpenTicket, WithState, Begin, BeginCheckIn
<1> QED
  BY <1>2, <1>6, <1>7, <1>8 DEF IInv

\* The index lets a ticket in only where no rival is open.
LEMMA JoinKeepsInvariant ==
    ASSUME IInv, NEW v \in Visits, Join(v)
    PROVE  IInv'
<1> DEFINE next == IsNext(v)
<1>1. /\ v \in Procs /\ doing[v] = "checkin" /\ answer[v] = "none"
      /\ ticket[v] = NoRow("absent") /\ headsUps[v] = 0 /\ turns[v] = 0
  BY DEF Procs, Join, IInv, NoTicketYet, StampsCount, NoRow, Counted
<1>2. /\ ticket' = [ticket EXCEPT ![v] = [NoRow("waiting") EXCEPT !.nextTold = next]]
      /\ headsUps' = IF next THEN Count(headsUps, {v}) ELSE headsUps
      /\ answer' = [answer EXCEPT ![v] = "created"]
      /\ End(v, {v}) /\ Rivals(v) = {}
      /\ UNCHANGED <<born, turns>>
  BY DEF Join
<1>3. next \in BOOLEAN
  BY DEF IsNext
<1> HIDE DEF next
<1>4. [NoRow("waiting") EXCEPT !.nextTold = next]
      = [state |-> "waiting", nextTold |-> next, turnTold |-> FALSE]
  <2>1. "waiting" \in States /\ FALSE \in BOOLEAN
    BY DEF States
  <2>2. NoRow("waiting") \in Rows
    BY <2>1, FieldsRow, Zenon DEF NoRow
  <2>3. NoRow("waiting").state = "waiting" /\ NoRow("waiting").turnTold = FALSE
    BY DEF NoRow
  <2> QED
    BY <1>3, <2>2, <2>3, StampedRow, Zenon
<1>5. \A t \in Visits : /\ t # v => ticket'[t] = ticket[t]
                        /\ t = v => ticket'[t] = [state |-> "waiting", nextTold |-> next, turnTold |-> FALSE]
  BY <1>2, <1>4 DEF IInv, TypeOK
<1>6. ticket' \in [Visits -> Rows]
  <2>1. [state |-> "waiting", nextTold |-> next, turnTold |-> FALSE] \in Rows
    <3>1. "waiting" \in States /\ FALSE \in BOOLEAN
      BY DEF States
    <3> QED
      BY <1>3, <3>1, FieldsRow, Zenon
  <2> QED
    BY <2>1, <1>2, <1>4 DEF IInv, TypeOK
<1>7. SnapshotsHold' /\ AskedAbout'
  <2>1. \A t \in Visits : ticket[t].nextTold => ticket'[t].nextTold
    BY <1>1, <1>5 DEF NoRow
  <2> QED
    BY <1>1, <1>2, <1>5, <2>1, EndKeepsSnapshots DEF IInv
<1>8. headsUps' \in [Visits -> Nat] /\ \A t \in Visits : headsUps'[t] = Counted(ticket'[t].nextTold)
  <2>1. \A t \in Visits : headsUps'[t] = IF t = v /\ next THEN headsUps[t] + 1 ELSE headsUps[t]
    BY <1>2 DEF Count
  <2>2. headsUps \in [Visits -> Nat] /\ DOMAIN headsUps' = Visits /\ headsUps' = [t \in Visits |-> headsUps'[t]]
    BY <1>2 DEF IInv, TypeOK, Count
  <2>3. headsUps' \in [Visits -> Nat]
    BY <2>1, <2>2
  <2>4. \A t \in Visits : t # v => headsUps'[t] = Counted(ticket'[t].nextTold)
    BY <2>1, <1>5 DEF IInv, StampsCount
  <2>5. ticket'[v].nextTold = next
    BY <1>5
  <2>6. headsUps'[v] = Counted(next)
    BY <2>1, <1>1 DEF Counted
  <2> QED
    BY <2>3, <2>4, <2>5, <2>6
<1>9. StampsCount'
  <2>1. \A t \in Visits : turns'[t] = Counted(ticket'[t].turnTold)
    BY <1>1, <1>2, <1>5 DEF IInv, StampsCount, Counted
  <2>2. \A t \in Visits : ticket'[t].state = "called" => ticket'[t].turnTold
    BY <1>5 DEF IInv, StampsCount
  <2> QED
    BY <1>8, <2>1, <2>2 DEF StampsCount
<1>10. NoTicketYet'
  <2>1. \A u \in Visits : /\ u # v => doing'[u] = doing[u] /\ answer'[u] = answer[u]
                          /\ doing'[v] = "idle" /\ answer'[v] = "created"
    BY <1>1, <1>2 DEF IInv, TypeOK, End, Procs
  <2> QED
    BY <2>1, <1>2, <1>5 DEF IInv, NoTicketYet
<1>11. OneOpenTicket'
  BY <1>2, <1>5 DEF IInv, OneOpenTicket, WithState, Rivals, SamePhone
<1>12. TypeOK'
  BY <1>1, <1>2, <1>6, <1>8, EndKeepsTypes DEF IInv, TypeOK
<1> QED
  BY <1>7, <1>9, <1>10, <1>11, <1>12 DEF IInv

\* Closing time shuts what it saw open, if nobody touched it since.
LEMMA CloseKeepsInvariant ==
    ASSUME IInv, FinishClose
    PROVE  IInv'
<1> DEFINE R == on[Closer]
<1>1. /\ Closer \in Procs /\ Closer \notin Visits /\ R \in SUBSET Visits
      /\ doing[Closer] = "close" /\ End(Closer, R) /\ R \cap dirty[Closer] = {}
      /\ UNCHANGED <<born, answer, headsUps, turns>>
  BY ProcsDistinct DEF Procs, FinishClose, IInv, TypeOK
<1>2. \A t \in R : ticket[t].state # "absent"
  BY <1>1 DEF IInv, AskedAbout, SnapshotsHold
<1>3. \A t \in Visits : /\ t \notin R => ticket'[t] = ticket[t]
                        /\ t \in R => ticket'[t] = [ticket[t] EXCEPT !.state = "closed"]
  BY DEF FinishClose
<1>4. \A t \in Visits : t \in R =>
         /\ ticket'[t].state = "closed" /\ ticket'[t] \in Rows
         /\ ticket'[t].nextTold = ticket[t].nextTold /\ ticket'[t].turnTold = ticket[t].turnTold
  <2> SUFFICES ASSUME NEW t \in R
               PROVE  /\ ticket'[t].state = "closed" /\ ticket'[t] \in Rows
                      /\ ticket'[t].nextTold = ticket[t].nextTold
                      /\ ticket'[t].turnTold = ticket[t].turnTold
    OBVIOUS
  <2>1. ticket'[t] = [ticket[t] EXCEPT !.state = "closed"] /\ ticket[t] \in Rows
    BY <1>1, <1>3 DEF IInv, TypeOK
  <2>2. "closed" \in States
    BY DEF States
  <2> DEFINE new == [ticket[t] EXCEPT !.state = "closed"]
  <2>3. /\ new.state = "closed" /\ new \in Rows
        /\ new.nextTold = ticket[t].nextTold /\ new.turnTold = ticket[t].turnTold
    BY <2>1, <2>2, MovedRow
  <2> HIDE DEF new
  <2>4. ticket'[t] = new
    BY <2>1 DEF new
  <2> QED
    BY <2>3, <2>4, Zenon
<1>5. ticket' \in [Visits -> Rows]
  BY <1>3, <1>4 DEF FinishClose, IInv, TypeOK
<1>6. SnapshotsHold' /\ AskedAbout'
  BY <1>1, <1>3, <1>4, EndKeepsSnapshots DEF IInv
<1>7. NoTicketYet'
  <2>1. \A v \in Visits : doing'[v] = doing[v]
    BY <1>1 DEF End, IInv, TypeOK, Procs
  <2>2. \A v \in Visits : answer[v] = "none" => v \notin R
    BY <1>2 DEF IInv, NoTicketYet, NoRow
  <2> QED
    BY <1>1, <1>3, <2>1, <2>2 DEF IInv, NoTicketYet
<1>8. StampsCount'
  BY <1>1, <1>3, <1>4 DEF IInv, StampsCount
<1>9. OneOpenTicket'
  <2>1. \A t \in Visits : ticket'[t].state \in Open => ticket[t].state \in Open
    BY <1>3, <1>4 DEF Open
  <2> QED
    BY <2>1 DEF IInv, OneOpenTicket, WithState
<1>10. TypeOK'
  BY <1>1, <1>5, EndKeepsTypes DEF IInv, TypeOK
<1> QED
  BY <1>6, <1>7, <1>8, <1>9, <1>10 DEF IInv

-----------------------------------------------------------------------------
(* Behaviours.                                                             *)

\* Nothing has happened: only the tickets of the older front door are there.
LEMMA InitInvariant == Init => IInv
<1> SUFFICES ASSUME Init PROVE IInv
  OBVIOUS
<1>1. \A a \in {"pending", "absent"} : NoRow(a) \in Rows
  <2>1. FALSE \in BOOLEAN /\ \A a \in {"pending", "absent"} : a \in States
    BY DEF States
  <2> QED
    BY <2>1, FieldsRow, Zenon DEF NoRow
<1>2. \A t \in Visits : /\ ticket[t] = NoRow("pending") \/ ticket[t] = NoRow("absent")
                        /\ ticket[t] \in Rows
                        /\ ticket[t].state = "pending" => t \in Parked
  BY <1>1 DEF Init, WithState
<1>3. NoRows \in [Visits -> Rows] /\ ticket \in [Visits -> Rows]
  BY <1>1, <1>2 DEF NoRows, Init
<1>4. born \in [Visits -> 0 .. Cardinality(Visits)]
  <2>1. IsFiniteSet(Parked) /\ Cardinality(Parked) <= Cardinality(Visits)
        /\ Cardinality(Parked) \in Nat /\ Cardinality(Visits) \in Nat
    BY ParkedVisits, VisitsFinite, FS_Subset, FS_CardinalityType
  <2>2. 0 .. Cardinality(Parked) \subseteq 0 .. Cardinality(Visits)
    BY <2>1
  <2> QED
    BY <2>2 DEF Init
<1>5. TypeOK
  BY <1>3, <1>4 DEF TypeOK, Init, Kinds
<1>6. SnapshotsHold /\ AskedAbout
  BY DEF Init, SnapshotsHold, AskedAbout
<1>7. NoTicketYet
  <2> SUFFICES ASSUME NEW v \in Visits
               PROVE  /\ doing[v] \notin {"checkin", "refused"}
                      /\ answer[v] = "none" => ticket[v] = NoRow("absent") /\ born[v] = 0
    BY DEF NoTicketYet
  <2>1. doing[v] = "idle"
    BY DEF Init, Procs
  <2>2. answer[v] = "none" => ticket[v].state # "pending"
    BY DEF Init
  <2>3. ticket[v].state # "pending" => born[v] = 0
    <3>1. born[v] \in 0 .. Cardinality(Visits) /\ Cardinality(Visits) \in Nat
      BY <1>4, VisitsFinite, FS_CardinalityType
    <3> QED
      BY <3>1 DEF Init
  <2>4. ticket[v].state # "pending" => ticket[v] = NoRow("absent")
    BY <1>2 DEF NoRow
  <2> QED
    BY <2>1, <2>2, <2>3, <2>4
<1>8. StampsCount
  BY <1>2 DEF StampsCount, Init, NoRow, Counted
<1>9. OneOpenTicket
  BY <1>2, ParkedApart DEF OneOpenTicket, WithState, NoRow, Open
<1> QED
  BY <1>5, <1>6, <1>7, <1>8, <1>9 DEF IInv

\* The parts of a finished transaction of the floor.
LEMMA FinishServes ==
    ASSUME IInv, NEW w \in Managers,
           FinishCall(w) \/ FinishFinish(w) \/ FinishRedirect(w) \/ FinishAccept(w)
    PROVE  /\ doing[w] \in ManagerKinds
           /\ \E R \in SUBSET on[w], s \in {"waiting", "called", "closed"} : Serve(w, R, s)
<1>1. CASE FinishCall(w)
  BY <1>1 DEF FinishCall, ManagerKinds
<1>2. CASE FinishFinish(w)
  BY <1>2 DEF FinishFinish, ManagerKinds
<1>3. CASE FinishRedirect(w)
  BY <1>3 DEF FinishRedirect, ManagerKinds
<1>4. CASE FinishAccept(w)
  BY <1>4 DEF FinishAccept, ManagerKinds
<1> QED
  BY <1>1, <1>2, <1>3, <1>4

\* Every step keeps the invariant.
LEMMA NextInvariant == IInv /\ [Next]_vars => IInv'
<1> SUFFICES ASSUME IInv, [Next]_vars PROVE IInv'
  OBVIOUS
<1>1. ASSUME NEW v \in Visits, BeginCheckIn(v) PROVE IInv'
  BY <1>1, CheckInKeepsInvariant
<1>2. ASSUME NEW v \in Visits, HandBack(v) \/ SearchAgain(v) PROVE IInv'
  <2>1. /\ v \in Procs /\ End(v, {}) /\ UNCHANGED <<ticket, born, headsUps, turns>>
        /\ answer' = [answer EXCEPT ![v] = "given_back"] \/ answer' = [answer EXCEPT ![v] = "failed"]
    BY <1>2 DEF Procs, HandBack, SearchAgain
  <2>2. /\ answer' \in [Visits -> {"none", "created", "given_back", "failed"}]
        /\ answer'[v] # "none" /\ \A u \in Visits \ {v} : answer'[u] = answer[u]
    BY <2>1 DEF IInv, TypeOK
  <2> QED
    BY <2>1, <2>2, NothingWritten
<1>3. ASSUME NEW v \in Visits, Join(v) PROVE IInv'
  BY <1>3, JoinKeepsInvariant
<1>4. ASSUME NEW v \in Visits, Refused(v) PROVE IInv'
  <2>1. /\ v \in Procs /\ doing[v] = "checkin" /\ doing' = [doing EXCEPT ![v] = "refused"]
        /\ UNCHANGED <<ticket, born, on, seen, dirty, answer, headsUps, turns>>
    BY <1>4 DEF Refused, Procs
  <2>2. TypeOK'
    BY <2>1 DEF IInv, TypeOK, Kinds
  <2>3. \A u \in Procs : /\ u # v => doing'[u] = doing[u]
                         /\ u = v => doing'[u] = "refused"
    BY <2>1 DEF IInv, TypeOK
  <2>4. SnapshotsHold' /\ AskedAbout'
    BY <2>1, <2>3 DEF IInv, SnapshotsHold, AskedAbout
  <2>5. NoTicketYet'
    BY <2>1, <2>3 DEF IInv, NoTicketYet, Procs
  <2>6. StampsCount' /\ OneOpenTicket'
    BY <2>1 DEF IInv, StampsCount, OneOpenTicket, WithState
  <2> QED
    BY <2>2, <2>4, <2>5, <2>6 DEF IInv
<1>5. ASSUME NEW w \in Managers, NEW t \in Visits,
             BeginCall(w, t) \/ BeginFinish(w, t) \/ BeginRedirect(w, t) \/ BeginAccept(w, t)
      PROVE  IInv'
  <2>1. /\ \E kind \in ManagerKinds : Begin(w, kind, {t})
        /\ ticket[t].state # "absent" /\ UNCHANGED <<born, answer>>
    BY <1>5 DEF BeginCall, BeginFinish, BeginRedirect, BeginAccept, ManagerKinds, OnBoard, Open
  <2> QED
    BY <2>1, BeginKeepsInvariant
<1>6. ASSUME NEW w \in Managers,
             FinishCall(w) \/ FinishFinish(w) \/ FinishRedirect(w) \/ FinishAccept(w)
      PROVE  IInv'
  BY <1>6, FinishServes, ServeKeepsInvariant
<1>7. CASE BeginClose
  <2>1. /\ Begin(Closer, "close", WithState(ticket, Open)) /\ UNCHANGED <<born, answer>>
        /\ WithState(ticket, Open) \in SUBSET Visits /\ "close" \notin ManagerKinds
        /\ \A t \in WithState(ticket, Open) : ticket[t].state # "absent"
    BY <1>7 DEF BeginClose, WithState, Open, ManagerKinds
  <2> QED
    BY <2>1, BeginKeepsInvariant
<1>8. CASE FinishClose
  BY <1>8, CloseKeepsInvariant
<1>9. ASSUME NEW w \in Procs, RollBack(w) PROVE IInv'
  <2>1. answer \in [Visits -> {"none", "created", "given_back", "failed"}]
    BY DEF IInv, TypeOK
  <2> QED
    BY <1>9, <2>1, NothingWritten DEF RollBack
<1>10. CASE UNCHANGED vars
  BY <1>10 DEF vars, IInv, TypeOK, SnapshotsHold, AskedAbout, NoTicketYet, StampsCount,
               OneOpenTicket, WithState
<1> QED
  BY <1>1, <1>2, <1>3, <1>4, <1>5, <1>6, <1>7, <1>8, <1>9, <1>10 DEF Next

\* In every behaviour one row per number is open, the stamps on the rows count the
\* texts sent, and a transaction may trust what nobody has updated since it began.
THEOREM InductiveInvariant == Spec => []IInv
BY InitInvariant, NextInvariant, PTL DEF Spec

\* Every variable of the line keeps its type.
THEOREM TypeCorrect == Spec => []TypeOK
<1>1. IInv => TypeOK
  BY DEF IInv
<1> QED
  BY <1>1, InductiveInvariant, PTL

\* A number never holds two places in the line.
THEOREM OneTicketANumber == Spec => []OneOpenTicket
<1>1. IInv => OneOpenTicket
  BY DEF IInv
<1> QED
  BY <1>1, InductiveInvariant, PTL

\* No ticket is told twice that it is next or that it is its turn, and whoever has
\* been called has been told.
THEOREM EachTextOnce == Spec => []TextsOnce
<1>1. IInv => TextsOnce
  <2> SUFFICES ASSUME IInv, NEW t \in Visits
               PROVE  /\ headsUps[t] <= 1 /\ turns[t] <= 1
                      /\ ticket[t].state = "called" => turns[t] = 1
    BY DEF TextsOnce
  <2>1. /\ headsUps[t] = Counted(ticket[t].nextTold) /\ turns[t] = Counted(ticket[t].turnTold)
        /\ ticket[t].state = "called" => ticket[t].turnTold
    BY DEF IInv, StampsCount
  <2> QED
    BY <2>1 DEF Counted
<1> QED
  BY <1>1, InductiveInvariant, PTL

-----------------------------------------------------------------------------
(* Promotion.                                                              *)

\* Whoever is at the front after an exit that saw the line as it is, has been told.
LEMMA ServePromotes ==
    ASSUME IInv, NEW w \in Managers, NEW R \in SUBSET on[w],
           NEW s \in {"waiting", "called", "closed"}, doing[w] \in ManagerKinds, Serve(w, R, s),
           WithState(seen[w], {"waiting"}) = WithState(ticket, {"waiting"}),
           NEW t \in Front(ticket')
    PROVE  ticket'[t].nextTold
<1> DEFINE view == View(w, R, s)
<1>1. w \in Procs /\ s \in States /\ t \in Visits
  BY DEF Procs, States, Front, WithState
<1>2. \A u \in Visits :
         /\ ticket'[u].state = IF u \in R THEN s ELSE ticket[u].state
         /\ view[u].state = IF u \in R THEN s ELSE seen[w][u].state
         /\ view[u].nextTold = seen[w][u].nextTold
  <2> SUFFICES ASSUME NEW u \in Visits
               PROVE  /\ ticket'[u].state = IF u \in R THEN s ELSE ticket[u].state
                      /\ view[u].state = IF u \in R THEN s ELSE seen[w][u].state
                      /\ view[u].nextTold = seen[w][u].nextTold
    OBVIOUS
  <2>1. /\ ticket'[u].state = IF u \in R THEN s ELSE ticket[u].state
        /\ ticket'[u].nextTold = (ticket[u].nextTold \/ u \in Promoted(View(w, R, s)))
        /\ ticket'[u].turnTold = (ticket[u].turnTold \/ (u \in R /\ s = "called"))
        /\ ticket'[u] \in Rows
    BY <1>1, ServeFields, Zenon
  <2>2. seen[w][u] \in Rows
    BY <1>1 DEF IInv, TypeOK
  <2> QED
    BY <2>1, <2>2 DEF View, Rows
<1>3. \A u \in Visits : seen[w][u].state = "waiting" <=> ticket[u].state = "waiting"
  BY DEF WithState
<1> HIDE DEF view
<1>4. WithState(view, {"waiting"}) = WithState(ticket', {"waiting"})
  BY <1>2, <1>3 DEF WithState
<1>5. t \in Front(view)
  BY <1>4 DEF Front
<1>6. ticket'[t].nextTold = (ticket[t].nextTold \/ t \in Promoted(view))
  BY <1>1, ServeFields DEF view
<1>7. seen[w][t].nextTold => ticket[t].nextTold
  BY <1>1 DEF IInv, SnapshotsHold, ManagerKinds
<1>8. CASE view[t].nextTold
  BY <1>1, <1>2, <1>6, <1>7, <1>8
<1>9. CASE ~view[t].nextTold
  BY <1>5, <1>6, <1>9 DEF Promoted
<1> QED
  BY <1>8, <1>9

\* Every exit from the line by a manager who saw it as it is promotes: whoever it
\* brings to the front has been told when it commits.
THEOREM PromotionIsTold == Spec => PromotedIsTold
<1> DEFINE Told == \A w \in Managers : \A t \in Visits :
                      /\ doing[w] # "idle" /\ doing'[w] = "idle" /\ ticket' # ticket
                      /\ WithState(seen[w], {"waiting"}) = WithState(ticket, {"waiting"})
                      /\ t \in Front(ticket') \ Front(ticket)
                      => ticket'[t].nextTold
<1>1. IInv /\ [Next]_vars => [Told]_vars
  <2> SUFFICES ASSUME IInv, Next, NEW w \in Managers, NEW t \in Visits,
                      doing[w] # "idle", doing'[w] = "idle", ticket' # ticket,
                      WithState(seen[w], {"waiting"}) = WithState(ticket, {"waiting"}),
                      t \in Front(ticket')
               PROVE  ticket'[t].nextTold
    OBVIOUS
  <2>1. w \in Procs /\ w \notin Visits /\ w # Closer
    BY ProcsDistinct DEF Procs
  <2>2. ASSUME NEW v \in Visits,
               BeginCheckIn(v) \/ HandBack(v) \/ Join(v) \/ Refused(v) \/ SearchAgain(v)
        PROVE  FALSE
    BY <2>1, <2>2 DEF IInv, TypeOK, Procs, BeginCheckIn, Begin, HandBack, Join, Refused, SearchAgain, End
  <2>3. ASSUME NEW m \in Managers, NEW u \in Visits,
               BeginCall(m, u) \/ BeginFinish(m, u) \/ BeginRedirect(m, u) \/ BeginAccept(m, u)
        PROVE  FALSE
    BY <2>3 DEF BeginCall, BeginFinish, BeginRedirect, BeginAccept, Begin
  <2>4. ASSUME NEW m \in Managers,
               FinishCall(m) \/ FinishFinish(m) \/ FinishRedirect(m) \/ FinishAccept(m)
        PROVE  ticket'[t].nextTold
    <3>1. PICK R \in SUBSET on[m], s \in {"waiting", "called", "closed"} : Serve(m, R, s)
      BY <2>4, FinishServes
    <3>2. m = w
      BY <2>1, <3>1 DEF Serve, End, IInv, TypeOK
    <3>3. doing[m] \in ManagerKinds
      BY <2>4, FinishServes
    <3> QED
      BY <3>1, <3>2, <3>3, ServePromotes
  <2>5. CASE BeginClose
    BY <2>5 DEF BeginClose, Begin
  <2>6. CASE FinishClose
    BY <2>1, <2>6 DEF FinishClose, End, IInv, TypeOK, Procs
  <2>7. ASSUME NEW p \in Procs, RollBack(p) PROVE FALSE
    BY <2>7 DEF RollBack
  <2> QED
    BY <2>2, <2>3, <2>4, <2>5, <2>6, <2>7 DEF Next
<1> QED
  BY <1>1, InductiveInvariant, PTL DEF Spec, PromotedIsTold

=============================================================================
