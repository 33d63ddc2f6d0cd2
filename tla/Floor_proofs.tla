---------------------------- MODULE Floor_proofs ----------------------------
(*****************************************************************************)
(* What holds on the floor and in the workshop: the team of a card, the      *)
(* fitting rooms and the alterations rail. For each component an inductive   *)
(* invariant, the lemmas that every step keeps it, and the theorems that     *)
(* follow; at the end, that the three keep their types side by side.         *)
(*****************************************************************************)
EXTENDS MCFloor, FiniteSetTheorems, WellFoundedInduction, TLAPS

-----------------------------------------------------------------------------
(*****************************************************************************)
(* CardTeam.                                                                 *)
(*                                                                           *)
(* The team of a card, for any staff and managers. The invariant says that   *)
(* a card in order stays so - a helper needs a primary, and nobody is on     *)
(* it twice - and that a request which nobody has overtaken still sees the   *)
(* card as it is.                                                            *)
(*****************************************************************************)

CardRows == [state : States, primary : Team \cup {Vacant}, helpers : Seq(Team)]

\* A card in order.
InOrder(r) ==
    /\ r \in CardRows
    /\ r.helpers # << >> => r.primary # Vacant
    /\ r.primary \notin ToSet(r.helpers)
    /\ IsInjective(r.helpers)

\* A request that nobody has overtaken sees the card.
UnovertakenSees == \A m \in FloorManagers : asked[m] # Nothing /\ ~stale[m] => seen[m] = row

TeamInv ==
    /\ TeamTypeOK
    /\ InOrder(row)
    /\ UnovertakenSees
    /\ PrimaryKnows

-----------------------------------------------------------------------------
(* Helper lists.                                                           *)

LEMMA ToSetOfSeq ==
    ASSUME NEW h \in Seq(Team)
    PROVE  /\ DOMAIN h = 1..Len(h) /\ Len(h) \in Nat
           /\ \A e : e \in ToSet(h) <=> \E i \in 1..Len(h) : h[i] = e
           /\ ToSet(h) \subseteq Team
           /\ h = << >> <=> ToSet(h) = {}
BY DEF ToSet

\* Taking a helper away leaves the others, in their order.
LEMMA LeavingFits ==
    ASSUME NEW h \in Seq(Team), IsInjective(h), NEW e
    PROVE  /\ Leaving(h, e) \in Seq(Team)
           /\ ToSet(Leaving(h, e)) = ToSet(h) \ {e}
           /\ IsInjective(Leaving(h, e))
<1> DEFINE n == Len(h)
<1>1. CASE e \notin ToSet(h)
    <2>1. ~\E i \in 1..n : h[i] = e
        BY <1>1, ToSetOfSeq
    <2>2. Leaving(h, e) = h
        BY <2>1 DEF Leaving, RemoveFirst
    <2> QED
        BY <1>1, <2>2
<1>2. CASE e \in ToSet(h)
    <2>1. PICK k \in 1..n : h[k] = e
        BY <1>2, ToSetOfSeq
    <2>2. {i \in 1..n : h[i] = e} = {k}
        BY <2>1, ToSetOfSeq DEF IsInjective
    <2>3. Min({k}) = k
        BY <2>1, ToSetOfSeq DEF Min
    <2>4. SelectInSeq(h, LAMBDA v : v = e) = k
        BY <2>2, <2>3 DEF SelectInSeq
    <2>5. Leaving(h, e) = RemoveAt(h, k)
        BY <2>1, <2>4 DEF Leaving, RemoveFirst
    <2> DEFINE s == RemoveAt(h, k)
    <2>6. /\ s \in Seq(Team) /\ Len(s) = n - 1
          /\ \A i \in 1..(n - 1) : s[i] = IF i < k THEN h[i] ELSE h[i + 1]
        <3>1. n \in Nat /\ k \in 1..n
            BY <2>1, ToSetOfSeq
        <3> DEFINE a == SubSeq(h, 1, k - 1)
                   b == SubSeq(h, k + 1, n)
        <3>2. a \in Seq(Team) /\ Len(a) = k - 1 /\ \A i \in 1..(k - 1) : a[i] = h[i]
            BY <3>1
        <3>3. b \in Seq(Team) /\ Len(b) = n - k /\ \A i \in 1..(n - k) : b[i] = h[k + i]
            BY <3>1
        <3>4. s = a \o b
            BY DEF RemoveAt
        <3> HIDE DEF a, b
        <3>5. s \in Seq(Team) /\ Len(s) = n - 1
            BY <3>1, <3>2, <3>3, <3>4
        <3>6. ASSUME NEW i \in 1..(n - 1) PROVE s[i] = IF i < k THEN h[i] ELSE h[i + 1]
            <4>1. i < k => s[i] = a[i]
                BY <3>1, <3>2, <3>3, <3>4, <3>6
            <4>2. i >= k => s[i] = b[i - (k - 1)] /\ i - (k - 1) \in 1..(n - k)
                BY <3>1, <3>2, <3>3, <3>4, <3>6
            <4>3. i >= k => b[i - (k - 1)] = h[i + 1]
                BY <3>1, <3>3, <4>2
            <4> QED
                BY <3>1, <3>2, <3>6, <4>1, <4>2, <4>3
        <3> QED
            BY <3>5, <3>6
    <2> HIDE DEF s
    <2>a. \A i, j \in 1..n : h[i] = h[j] => i = j
        BY DEF IsInjective
    <2>b. n \in Nat
        OBVIOUS
    <2>7. IsInjective(s)
        <3> SUFFICES ASSUME NEW i \in 1..(n - 1), NEW j \in 1..(n - 1), s[i] = s[j] PROVE i = j
            BY <2>6 DEF IsInjective
        <3> QED
            BY <2>1, <2>6, <2>a, <2>b
    <2>8. ASSUME NEW x PROVE x \in ToSet(s) <=> x \in ToSet(h) \ {e}
        <3>1. ASSUME x \in ToSet(s) PROVE x \in ToSet(h) \ {e}
            <4>1. PICK i \in 1..(n - 1) : s[i] = x
                BY <2>6, <3>1, ToSetOfSeq
            <4>2. CASE i < k
                BY <2>1, <2>6, <2>a, <2>b, <4>1, <4>2, ToSetOfSeq
            <4>3. CASE i >= k
                <5>1. i + 1 \in 1..n /\ h[i + 1] = x /\ i + 1 # k
                    BY <2>1, <2>6, <2>b, <4>1, <4>3
                <5> QED
                    BY <2>1, <2>a, <5>1, ToSetOfSeq
            <4> QED
                BY <2>1, <4>1, <4>2, <4>3, ToSetOfSeq
        <3>2. ASSUME x \in ToSet(h) \ {e} PROVE x \in ToSet(s)
            <4>1. PICK j \in 1..n : h[j] = x
                BY <3>2, ToSetOfSeq
            <4>2. j # k
                BY <2>1, <3>2, <4>1
            <4>3. CASE j < k
                <5>1. j \in 1..(n - 1) /\ s[j] = x
                    BY <2>1, <2>6, <4>1, <4>3, ToSetOfSeq
                <5> QED
                    BY <2>6, <5>1, ToSetOfSeq
            <4>4. CASE j > k
                <5>1. j - 1 \in 1..(n - 1) /\ s[j - 1] = x
                    BY <2>1, <2>6, <4>1, <4>4, ToSetOfSeq
                <5> QED
                    BY <2>6, <5>1, ToSetOfSeq
            <4> QED
                BY <2>1, <4>2, <4>3, <4>4, ToSetOfSeq
        <3> QED
            BY <3>1, <3>2
    <2> QED
        BY <2>5, <2>6, <2>7, <2>8 DEF s
<1> QED
    BY <1>1, <1>2

LEMMA JoiningFits ==
    ASSUME NEW h \in Seq(Team), IsInjective(h), NEW e \in Team
    PROVE  /\ Joining(h, e) \in Seq(Team)
           /\ ToSet(Joining(h, e)) = ToSet(h) \cup {e}
           /\ IsInjective(Joining(h, e))
           /\ Joining(h, e) # << >>
<1>1. CASE e \in ToSet(h)
    BY <1>1, ToSetOfSeq DEF Joining
<1>2. CASE e \notin ToSet(h)
    <2> DEFINE s == Append(h, e)
    <2>1. /\ s \in Seq(Team) /\ Len(s) = Len(h) + 1 /\ s[Len(h) + 1] = e
          /\ \A i \in 1..Len(h) : s[i] = h[i]
        BY ToSetOfSeq
    <2>2. Joining(h, e) = s
        BY <1>2 DEF Joining
    <2> HIDE DEF s
    <2>3. IsInjective(s)
        BY <1>2, <2>1, ToSetOfSeq DEF IsInjective
    <2>4. ASSUME NEW x PROVE x \in ToSet(s) <=> x \in ToSet(h) \cup {e}
        BY <2>1, ToSetOfSeq
    <2> QED
        BY <2>1, <2>2, <2>3, <2>4, ToSetOfSeq
<1> QED
    BY <1>1, <1>2

\* Distinct helpers, and a primary beside them: fewer helpers than there are people.
LEMMA HelpersBounded ==
    ASSUME NEW r, InOrder(r)
    PROVE  Len(r.helpers) \in Nat /\ Cardinality(Team) \in Nat /\ Len(r.helpers) < Cardinality(Team)
<1> DEFINE h == r.helpers
           n == Len(h)
<1>1. h \in Seq(Team) /\ n \in Nat /\ IsInjective(h)
    BY DEF InOrder, CardRows
<1>2. IsFiniteSet(Team) /\ Cardinality(Team) \in Nat
    BY TeamFinite, FS_CardinalityType
<1>3. Cardinality(Team) > 0
    BY <1>2, TeamFinite, FS_EmptySet
<1>4. CASE h = << >>
    BY <1>2, <1>3, <1>4
<1>5. CASE h # << >>
    <2>1. r.primary \in Team /\ r.primary \notin ToSet(h)
        BY <1>5 DEF InOrder, CardRows
    <2> DEFINE T == Team \ {r.primary}
    <2>2. IsFiniteSet(T) /\ Cardinality(T) = Cardinality(Team) - 1
        BY <1>2, <2>1, FS_RemoveElement
    <2>3. h \in [1..n -> T]
        <3>1. h \in [1..n -> Team]
            BY <1>1
        <3>2. \A i \in 1..n : h[i] \in ToSet(h)
            BY <1>1, ToSetOfSeq
        <3> QED
            BY <2>1, <3>1, <3>2
    <2>4. h \in Injection(1..n, T)
        BY <1>1, <2>3 DEF Injection
    <2>5. Cardinality(1..n) <= Cardinality(T)
        BY <2>2, <2>4, FS_Injection
    <2>6. Cardinality(1..n) = n
        BY <1>1, FS_Interval
    <2> QED
        BY <1>1, <1>2, <2>2, <2>5, <2>6
<1> QED
    BY <1>4, <1>5

-----------------------------------------------------------------------------
(* What the requests make of a card.                                       *)

LEMMA CardFields ==
    ASSUME NEW r \in CardRows
    PROVE  r.state \in States /\ r.primary \in Team \cup {Vacant} /\ r.helpers \in Seq(Team)
BY DEF CardRows

LEMMA CardWithHelpers ==
    ASSUME NEW r \in CardRows, NEW h \in Seq(Team), NEW x, x = [r EXCEPT !.helpers = h]
    PROVE  x \in CardRows /\ x.primary = r.primary /\ x.helpers = h
BY DEF CardRows

LEMMA CardWithState ==
    ASSUME NEW r \in CardRows, NEW s \in States, NEW x, x = [r EXCEPT !.state = s]
    PROVE  x \in CardRows /\ x.primary = r.primary /\ x.helpers = r.helpers
BY DEF CardRows

\* Calling the customer over touches nobody on the card.
LEMMA CalledOverFits ==
    ASSUME NEW r \in CardRows
    PROVE  /\ CalledOver(r) \in CardRows
           /\ CalledOver(r).primary = r.primary /\ CalledOver(r).helpers = r.helpers
BY CardWithState DEF CalledOver, States

\* An assignment takes nobody off the card.
LEMMA AssignedFits ==
    ASSUME NEW r, InOrder(r), NEW q \in Requests, ~AlreadyThere(r, q)
    PROVE  InOrder(Assigned(r, q)) /\ People(r) \subseteq People(Assigned(r, q))
<1> DEFINE h == r.helpers
           p == r.primary
           rest == Leaving(h, q.who)
<1>1. /\ r \in CardRows /\ h \in Seq(Team) /\ IsInjective(h) /\ p \in Team \cup {Vacant}
      /\ p \notin ToSet(h) /\ (h # << >> => p # Vacant) /\ q.who \in Team /\ q.who # p
      /\ q.who # Vacant
    BY CardFields, VacantApart DEF InOrder, AlreadyThere, Requests
<1>2. CASE q.primary \/ p = Vacant
    <2> DEFINE k == IF p = Vacant THEN rest ELSE Joining(rest, p)
    <2>1. rest \in Seq(Team) /\ ToSet(rest) = ToSet(h) \ {q.who} /\ IsInjective(rest)
        BY <1>1, LeavingFits
    <2>2. /\ k \in Seq(Team) /\ IsInjective(k) /\ q.who \notin ToSet(k)
          /\ ToSet(h) \subseteq ToSet(k) \cup {q.who} /\ (p # Vacant => p \in ToSet(k))
        <3>1. CASE p = Vacant
            BY <1>1, <2>1, <3>1
        <3>2. CASE p # Vacant
            <4>1. p \in Team /\ k = Joining(rest, p)
                BY <1>1, <3>2
            <4>2. k \in Seq(Team) /\ IsInjective(k) /\ ToSet(k) = ToSet(rest) \cup {p}
                BY <2>1, <4>1, JoiningFits
            <4> QED
                BY <1>1, <2>1, <4>1, <4>2
        <3> QED
            BY <3>1, <3>2
    <2> DEFINE x == [r EXCEPT !.primary = q.who, !.helpers = k]
    <2>3. Assigned(r, q) = CalledOver(x)
        BY <1>2 DEF Assigned, MakePrimary
    <2> HIDE DEF k
    <2>a. x = [r EXCEPT !.primary = q.who, !.helpers = k] /\ q.who \in Team \cup {Vacant}
        BY <1>1
    <2> HIDE DEF x
    <2>4. x \in CardRows /\ x.primary = q.who /\ x.helpers = k
        BY <1>1, <2>2, <2>a DEF CardRows
    <2>5. Assigned(r, q) \in CardRows /\ Assigned(r, q).primary = q.who /\ Assigned(r, q).helpers = k
        BY <2>3, <2>4, CalledOverFits
    <2> QED
        BY <1>1, <2>2, <2>5 DEF InOrder, People
<1>3. CASE ~(q.primary \/ p = Vacant)
    <2> DEFINE k == Joining(h, q.who)
               x == [r EXCEPT !.helpers = k]
    <2>1. k \in Seq(Team) /\ ToSet(k) = ToSet(h) \cup {q.who} /\ IsInjective(k)
        BY <1>1, JoiningFits
    <2>2. Assigned(r, q) = CalledOver(x)
        BY <1>3 DEF Assigned
    <2> HIDE DEF k
    <2>3. x \in CardRows /\ x.primary = p /\ x.helpers = k
        BY <1>1, <2>1, CardWithHelpers
    <2> HIDE DEF x
    <2>4. Assigned(r, q) \in CardRows /\ Assigned(r, q).primary = p /\ Assigned(r, q).helpers = k
        BY <2>2, <2>3, CalledOverFits
    <2> QED
        BY <1>1, <1>3, <2>1, <2>4 DEF InOrder, People
<1> QED
    BY <1>2, <1>3

\* A removal takes off whom it names, and promotes the first of the helpers.
LEMMA UnassignedFits ==
    ASSUME NEW r, InOrder(r), NEW q \in Requests
    PROVE  /\ InOrder(Unassigned(r, q))
           /\ People(r) \ People(Unassigned(r, q)) \subseteq {q.who}
           /\ Unassigned(r, q).primary = IF q.who = r.primary THEN Oldest(r) ELSE r.primary
<1> DEFINE h == r.helpers
           p == r.primary
<1>1. /\ r \in CardRows /\ h \in Seq(Team) /\ IsInjective(h) /\ p \in Team \cup {Vacant}
      /\ p \notin ToSet(h) /\ (h # << >> => p # Vacant) /\ q.who \in Team /\ q.who # Vacant
    BY CardFields, VacantApart DEF InOrder, Requests
<1>2. CASE q.who = p
    <2> DEFINE o == Oldest(r)
               k == Leaving(h, o)
    <2>1. h = << >> => o = Vacant
        BY DEF Oldest
    <2>2. h # << >> => o = h[1] /\ o \in ToSet(h) /\ o \in Team
        BY <1>1, ToSetOfSeq DEF Oldest
    <2>3. k \in Seq(Team) /\ ToSet(k) = ToSet(h) \ {o} /\ IsInjective(k)
        BY <1>1, LeavingFits
    <2>4. Unassigned(r, q) = [r EXCEPT !.primary = o, !.helpers = k]
        BY <1>2 DEF Unassigned
    <2> HIDE DEF k, o
    <2>5. /\ Unassigned(r, q) \in CardRows
          /\ Unassigned(r, q).primary = o /\ Unassigned(r, q).helpers = k
        <3>1. o \in Team \cup {Vacant}
            BY <2>1, <2>2
        <3>2. ASSUME NEW x, x = [r EXCEPT !.primary = o, !.helpers = k]
              PROVE  x \in CardRows /\ x.primary = o /\ x.helpers = k
            BY <1>1, <2>3, <3>1, <3>2 DEF CardRows
        <3> QED
            BY <2>4, <3>2
    <2>6. k # << >> => h # << >>
        BY <1>1, <2>3, ToSetOfSeq
    <2> QED
        BY <1>1, <1>2, <2>1, <2>2, <2>3, <2>5, <2>6, VacantApart DEF InOrder, People, o
<1>3. CASE q.who # p
    <2> DEFINE k == Leaving(h, q.who)
    <2>1. k \in Seq(Team) /\ ToSet(k) = ToSet(h) \ {q.who} /\ IsInjective(k)
        BY <1>1, LeavingFits
    <2>2. Unassigned(r, q) = [r EXCEPT !.helpers = k]
        BY <1>3 DEF Unassigned
    <2> HIDE DEF k
    <2>3. /\ Unassigned(r, q) \in CardRows
          /\ Unassigned(r, q).primary = p /\ Unassigned(r, q).helpers = k
        BY <1>1, <2>1, <2>2, CardWithHelpers
    <2>4. k # << >> => h # << >>
        BY <1>1, <2>1, ToSetOfSeq
    <2> QED
        BY <1>1, <1>3, <2>1, <2>3, <2>4 DEF InOrder, People
<1> QED
    BY <1>2, <1>3

-----------------------------------------------------------------------------
(* The steps.                                                              *)

LEMMA TeamInitInv == TeamInit => TeamInv
<1> SUFFICES ASSUME TeamInit PROVE TeamInv
    OBVIOUS
<1>1. PICK s \in States : row = [state |-> s, primary |-> Vacant, helpers |-> << >>]
    BY DEF TeamInit, States
<1>2. row \in CardRows /\ row.primary = Vacant /\ row.helpers = << >>
    BY <1>1 DEF CardRows
<1>3. ToSet(<< >>) = {} /\ IsInjective(<< >>)
    BY DEF ToSet, IsInjective
<1>4. InOrder(row)
    BY <1>2, <1>3 DEF InOrder
<1>5. Unread \in CardRows
    BY DEF Unread, CardRows, States
<1>6. TeamTypeOK
    BY <1>2, <1>4, <1>5, HelpersBounded DEF TeamInit, TeamTypeOK, CardRows
<1>7. UnovertakenSees
    BY DEF TeamInit, UnovertakenSees
<1> QED
    BY <1>2, <1>4, <1>6, <1>7, TeamPhones, VacantApart DEF TeamInv, PrimaryKnows

LEMMA EndTeamFits ==
    ASSUME TeamInv, NEW m \in FloorManagers, EndTeam(m)
    PROVE  /\ asked' \in [FloorManagers -> Requests \cup {Nothing}] /\ seen' \in [FloorManagers -> CardRows]
           /\ asked'[m] = Nothing
           /\ \A w \in FloorManagers \ {m} : asked'[w] = asked[w] /\ seen'[w] = seen[w]
<1>1. Unread \in CardRows
    BY DEF Unread, CardRows, States
<1> QED
    BY <1>1 DEF EndTeam, TeamInv, TeamTypeOK, CardRows

LEMMA AskTeamStep == ASSUME TeamInv, NEW m \in FloorManagers, AskTeam(m) PROVE TeamInv'
<1>1. PICK q \in Requests : asked' = [asked EXCEPT ![m] = q]
    BY DEF AskTeam
<1>2. /\ seen' = [seen EXCEPT ![m] = row] /\ stale' = [stale EXCEPT ![m] = FALSE]
      /\ UNCHANGED <<kind, row, knows>>
    BY DEF AskTeam
<1>3. TeamTypeOK'
    BY <1>1, <1>2 DEF TeamInv, TeamTypeOK
<1>4. UnovertakenSees'
    BY <1>1, <1>2 DEF TeamInv, TeamTypeOK, UnovertakenSees
<1> QED
    BY <1>2, <1>3, <1>4 DEF TeamInv, PrimaryKnows

LEMMA AnswerBoardStep == ASSUME TeamInv, NEW m \in FloorManagers, AnswerBoard(m) PROVE TeamInv'
<1>1. EndTeam(m) /\ stale' = [stale EXCEPT ![m] = FALSE] /\ UNCHANGED <<kind, row, knows>>
    BY DEF AnswerBoard
<1>2. TeamTypeOK'
    BY <1>1, EndTeamFits DEF TeamInv, TeamTypeOK, CardRows
<1>3. UnovertakenSees'
    BY <1>1, EndTeamFits DEF TeamInv, TeamTypeOK, UnovertakenSees
<1> QED
    BY <1>1, <1>2, <1>3 DEF TeamInv, PrimaryKnows

LEMMA RunAgainStep == ASSUME TeamInv, NEW m \in FloorManagers, RunAgain(m) PROVE TeamInv'
<1>1. /\ seen' = [seen EXCEPT ![m] = row] /\ stale' = [stale EXCEPT ![m] = FALSE]
      /\ UNCHANGED <<kind, row, asked, knows>>
    BY DEF RunAgain
<1>2. TeamTypeOK'
    BY <1>1 DEF TeamInv, TeamTypeOK
<1>3. UnovertakenSees'
    BY <1>1 DEF TeamInv, TeamTypeOK, UnovertakenSees
<1> QED
    BY <1>1, <1>2, <1>3 DEF TeamInv, PrimaryKnows

LEMMA ProceedStep == ASSUME TeamInv, NEW s \in States, Proceed(s) PROVE TeamInv'
<1>1. /\ row' = [row EXCEPT !.state = s]
      /\ stale' = [m \in FloorManagers |-> asked[m] # Nothing]
      /\ UNCHANGED <<kind, asked, seen, knows>>
    BY DEF Proceed
<1>2. row \in CardRows
    BY DEF TeamInv, InOrder
<1>3. row' \in CardRows /\ row'.primary = row.primary /\ row'.helpers = row.helpers
    BY <1>1, <1>2, CardWithState
<1>4. InOrder(row')
    BY <1>3 DEF TeamInv, InOrder
<1>5. TeamTypeOK'
    BY <1>1, <1>3 DEF TeamInv, TeamTypeOK, CardRows
<1>6. UnovertakenSees'
    BY <1>1 DEF UnovertakenSees
<1> QED
    BY <1>1, <1>3, <1>4, <1>5, <1>6 DEF TeamInv, PrimaryKnows

\* The card a save writes.
LEMMA SavedCard ==
    ASSUME TeamInv, NEW m \in FloorManagers, SaveTeam(m)
    PROVE  /\ asked[m] \in Requests /\ seen[m] = row /\ InOrder(row')
           /\ asked[m].op = "assign" => People(row) \subseteq People(row')
           /\ asked[m].op = "unassign" =>
                 /\ People(row) \ People(row') \subseteq {asked[m].who}
                 /\ row'.primary = IF asked[m].who = row.primary THEN Oldest(row) ELSE row.primary
<1>1. asked[m] \in Requests /\ seen[m] = row /\ InOrder(row)
    BY DEF SaveTeam, Writes, TeamInv, TeamTypeOK, UnovertakenSees
<1>2. CASE asked[m].op = "assign"
    <2>1. row' = Assigned(row, asked[m]) /\ ~AlreadyThere(row, asked[m])
        BY <1>1, <1>2 DEF SaveTeam, Writes
    <2> QED
        BY <1>1, <1>2, <2>1, AssignedFits
<1>3. CASE asked[m].op = "unassign"
    <2>1. row' = Unassigned(row, asked[m])
        BY <1>1, <1>3 DEF SaveTeam
    <2> QED
        BY <1>1, <1>3, <2>1, UnassignedFits
<1> QED
    BY <1>1, <1>2, <1>3 DEF Requests

LEMMA SaveTeamStep == ASSUME TeamInv, NEW m \in FloorManagers, SaveTeam(m) PROVE TeamInv'
<1>1. /\ knows' = Notify(m, row') /\ EndTeam(m) /\ UNCHANGED kind
      /\ stale' = [w \in FloorManagers |-> w # m /\ asked[w] # Nothing]
    BY DEF SaveTeam, Overtake
<1>2. InOrder(row') /\ row' \in CardRows
    BY SavedCard DEF InOrder
<1>3. row'.primary \in Team \cup {Vacant}
    BY <1>2, CardFields
<1>4. knows' \in Team \cup {Vacant} /\ (row'.primary \in Reachable => knows' = row'.primary)
    BY <1>1, <1>3, TeamPhones, VacantApart DEF Notify, TeamInv, TeamTypeOK, PrimaryKnows
<1>5. TeamTypeOK'
    BY <1>1, <1>2, <1>4, EndTeamFits, HelpersBounded DEF TeamInv, TeamTypeOK, CardRows
<1>6. UnovertakenSees'
    BY <1>1, EndTeamFits DEF UnovertakenSees
<1> QED
    BY <1>2, <1>4, <1>5, <1>6 DEF TeamInv, PrimaryKnows

LEMMA TeamStep == TeamInv /\ [TeamNext]_teamVars => TeamInv'
<1> SUFFICES ASSUME TeamInv, [TeamNext]_teamVars PROVE TeamInv'
    OBVIOUS
<1>1. CASE UNCHANGED teamVars
    BY <1>1 DEF teamVars, TeamInv, TeamTypeOK, InOrder, UnovertakenSees, PrimaryKnows
<1>2. CASE \E m \in FloorManagers : AskTeam(m) \/ AnswerBoard(m) \/ SaveTeam(m) \/ RunAgain(m)
    BY <1>2, AskTeamStep, AnswerBoardStep, SaveTeamStep, RunAgainStep
<1>3. CASE \E s \in States : Proceed(s)
    BY <1>3, ProceedStep
<1> QED
    BY <1>1, <1>2, <1>3 DEF TeamNext

\* The people of a card change by a save only.
LEMMA PeopleChange ==
    ASSUME TeamInv, [TeamNext]_teamVars
    PROVE  \/ row'.primary = row.primary /\ row'.helpers = row.helpers
           \/ \E m \in FloorManagers : SaveTeam(m)
<1>1. row \in CardRows
    BY DEF TeamInv, InOrder
<1>2. ASSUME NEW s \in States, Proceed(s) PROVE row'.primary = row.primary /\ row'.helpers = row.helpers
    BY <1>1, <1>2, CardWithState DEF Proceed
<1> QED
    BY <1>2 DEF TeamNext, teamVars, AskTeam, AnswerBoard, RunAgain

LEMMA SlipsAway ==
    ASSUME TeamInv, [TeamNext]_teamVars, NEW e \in People(row) \ People(row')
    PROVE  \E m \in FloorManagers : asked[m].op = "unassign" /\ asked[m].who = e
<1>1. PICK m \in FloorManagers : SaveTeam(m)
    BY PeopleChange DEF People
<1>2. asked[m].op \in {"assign", "unassign"}
    BY <1>1, SavedCard DEF Requests
<1> QED
    BY <1>1, <1>2, SavedCard

LEMMA StepsUp ==
    ASSUME TeamInv, [TeamNext]_teamVars, row.primary \notin People(row'), row.helpers # << >>
    PROVE  row.primary = Vacant \/ row'.primary = Head(row.helpers)
<1> SUFFICES ASSUME row.primary # Vacant PROVE row'.primary = Head(row.helpers)
    OBVIOUS
<1>1. row.primary \in People(row)
    BY DEF People
<1>2. PICK m \in FloorManagers : SaveTeam(m)
    BY <1>1, PeopleChange DEF People
<1>3. asked[m].op \in {"assign", "unassign"}
    BY <1>2, SavedCard DEF Requests
<1>4. asked[m].op = "unassign" /\ asked[m].who = row.primary
    BY <1>1, <1>2, <1>3, SavedCard
<1> QED
    BY <1>2, <1>4, SavedCard DEF Oldest

\* The team of a card, for any staff and managers: whatever drops, swaps, removals and retries
\* of _modryn_assign and _modryn_unassign meet on it, nobody leaves it but by name, the longest
\* serving helper steps up, and the card keeps a primary, who has learned of it if she has a phone, and everybody once.
THEOREM CardStaysInOrder == TeamSpec => []TeamTypeOK /\ CardInOrder
<1>1. TeamInv /\ [TeamNext]_teamVars =>
        [\A e \in People(row) \ People(row') :
          \E m \in FloorManagers : asked[m].op = "unassign" /\ asked[m].who = e]_teamVars
    BY SlipsAway
<1>2. TeamInv /\ [TeamNext]_teamVars =>
        [row.primary \notin People(row') /\ row.helpers # << >>
          => row.primary = Vacant \/ row'.primary = Head(row.helpers)]_teamVars
    BY StepsUp
<1>3. TeamInv => TeamTypeOK /\ NotHeadless /\ NobodyTwice /\ PrimaryKnows
    BY DEF TeamInv, InOrder, NotHeadless, NobodyTwice
<1> QED
    BY TeamInitInv, TeamStep, <1>1, <1>2, <1>3, PTL
       DEF TeamSpec, CardInOrder, NobodySlipsAway, LongestServingStepsUp

-----------------------------------------------------------------------------
(*****************************************************************************)
(* FittingRooms.                                                             *)
(*                                                                           *)
(* Two customers share a fitting room only through a card that came to be    *)
(* open with its room on it or through requests that overlapped, for any     *)
(* number of cards, rooms and stylists. The invariant adds what ties the     *)
(* check to the moment of the write: a request that found its card not open  *)
(* still finds it so, unless the card was written since.                     *)
(*****************************************************************************)

\* A request that found its card not open, and has not lost it, is right about it.
ShutAsSeen ==
    \A w \in Stylists :
        asks[w] # Free /\ ~lost[w] /\ ~view[w].open => stage[asks[w].card] # "open"

RoomInv ==
    /\ RoomTypeOK
    /\ ShutAsSeen
    /\ SharedRoomNeedsOverlap

-----------------------------------------------------------------------------

LEMMA RoomInitInv == RoomInit => RoomInv
<1> SUFFICES ASSUME RoomInit PROVE RoomInv
    OBVIOUS
<1>1. RoomTypeOK
  BY DEF RoomInit, RoomTypeOK, Unseen
<1>2. ShutAsSeen /\ SharedRoomNeedsOverlap
  BY DEF RoomInit, ShutAsSeen, SharedRoomNeedsOverlap, Share
<1> QED BY <1>1, <1>2 DEF RoomInv

LEMMA SightType ==
  ASSUME RoomTypeOK, NEW q \in Asks \cup {Free}
  PROVE  Sight(q) \in [open : BOOLEAN, rivals : SUBSET Cards]
<1>1. (stage[q.card] = "open") \in BOOLEAN
  OBVIOUS
<1>2. OpenIn(q.room) \subseteq Cards
  BY DEF OpenIn
<1> QED BY <1>1, <1>2 DEF Sight

LEMMA RoomTypeStep ==
  ASSUME RoomTypeOK, [RoomNext]_roomVars PROVE RoomTypeOK'
<1>1. ASSUME NEW w \in Stylists, AskRoom(w) PROVE RoomTypeOK'
  <2>1. PICK q \in Asks : /\ asks' = [asks EXCEPT ![w] = q]
                          /\ view' = [view EXCEPT ![w] = Sight(q)]
    BY <1>1 DEF AskRoom
  <2>2. Sight(q) \in [open : BOOLEAN, rivals : SUBSET Cards]
    BY SightType
  <2> QED BY <1>1, <2>1, <2>2 DEF AskRoom, RoomTypeOK
<1>2. ASSUME NEW w \in Stylists, GiveRoom(w) PROVE RoomTypeOK'
  <2>1. asks[w] \in Asks
    BY <1>2 DEF GiveRoom, RoomTypeOK
  <2>2. /\ asks[w].card \in Cards
        /\ asks[w].room \in Rooms \cup {NoRoom}
    BY <2>1 DEF Asks
  <2>3. OpenIn(asks[w].room) \subseteq Cards
    BY DEF OpenIn
  <2>4. lost' \in [Stylists -> BOOLEAN]
    BY <1>2 DEF GiveRoom, Losing
  <2>5. room' \in [Cards -> Rooms \cup {NoRoom}] /\ unchecked' \subseteq Cards
    BY <1>2, <2>2 DEF GiveRoom, RoomTypeOK
  <2>6. behind' \in [Cards -> SUBSET Cards]
    BY <1>2, <2>2, <2>3 DEF GiveRoom, RoomTypeOK
  <2> QED BY <1>2, <2>4, <2>5, <2>6 DEF GiveRoom, Leave, Unseen, RoomTypeOK
<1>3. ASSUME NEW w \in Stylists, RefuseRoom(w) PROVE RoomTypeOK'
  BY <1>3 DEF RefuseRoom, Leave, Unseen, RoomTypeOK
<1>4. ASSUME NEW w \in Stylists, AskRoomAgain(w) PROVE RoomTypeOK'
  <2>1. Sight(asks[w]) \in [open : BOOLEAN, rivals : SUBSET Cards]
    BY SightType DEF RoomTypeOK
  <2> QED BY <1>4, <2>1 DEF AskRoomAgain, RoomTypeOK
<1>5. ASSUME NEW c \in Cards, CardMoves(c) PROVE RoomTypeOK'
  <2>1. lost' \in [Stylists -> BOOLEAN]
    BY <1>5 DEF CardMoves, RoomTypeOK
  <2> QED BY <1>5, <2>1 DEF CardMoves, RoomTypeOK
<1>6. ASSUME NEW c \in Visits, VisitEnds(c) PROVE RoomTypeOK'
  BY <1>6 DEF VisitEnds, RoomTypeOK
<1>7. CASE UNCHANGED roomVars
  BY <1>7 DEF roomVars, RoomTypeOK
<1> QED BY <1>1, <1>2, <1>3, <1>4, <1>5, <1>6, <1>7 DEF RoomNext

LEMMA ShutAsSeenStep ==
  ASSUME RoomInv, [RoomNext]_roomVars PROVE ShutAsSeen'
<1> USE DEF RoomInv, RoomTypeOK, ShutAsSeen
<1>1. ASSUME NEW w \in Stylists, AskRoom(w) PROVE ShutAsSeen'
  <2>1. PICK q \in Asks : /\ asks' = [asks EXCEPT ![w] = q]
                          /\ view' = [view EXCEPT ![w] = Sight(q)]
    BY <1>1 DEF AskRoom
  <2>2. ~view'[w].open => stage[q.card] # "open"
    BY <2>1 DEF Sight
  <2>3. ASSUME NEW v \in Stylists, v # w
        PROVE  asks'[v] = asks[v] /\ view'[v] = view[v]
    BY <2>1, <2>3
  <2> QED BY <1>1, <2>1, <2>2, <2>3 DEF AskRoom
<1>2. ASSUME NEW w \in Stylists, GiveRoom(w) PROVE ShutAsSeen'
  BY <1>2 DEF GiveRoom, Leave, Losing
<1>3. ASSUME NEW w \in Stylists, RefuseRoom(w) PROVE ShutAsSeen'
  BY <1>3 DEF RefuseRoom, Leave
<1>4. ASSUME NEW w \in Stylists, AskRoomAgain(w) PROVE ShutAsSeen'
  BY <1>4 DEF AskRoomAgain, Sight
<1>5. ASSUME NEW c \in Cards, CardMoves(c) PROVE ShutAsSeen'
  <2>1. \A d \in Cards : d # c => stage'[d] = stage[d]
    BY <1>5 DEF CardMoves
  <2>2. \A w \in Stylists : ~lost'[w] => ~lost[w] /\ asks[w].card # c
    BY <1>5 DEF CardMoves
  <2>3. \A w \in Stylists : asks[w] # Free => asks[w].card \in Cards
    BY DEF Asks
  <2>4. asks' = asks /\ view' = view
    BY <1>5 DEF CardMoves
  <2> QED BY <2>1, <2>2, <2>3, <2>4
<1>6. ASSUME NEW c \in Visits, VisitEnds(c) PROVE ShutAsSeen'
  BY <1>6 DEF VisitEnds
<1>7. CASE UNCHANGED roomVars
  BY <1>7 DEF roomVars
<1> QED BY <1>1, <1>2, <1>3, <1>4, <1>5, <1>6, <1>7 DEF RoomNext

LEMMA ShareStep ==
  ASSUME RoomInv, [RoomNext]_roomVars PROVE SharedRoomNeedsOverlap'
<1> USE DEF RoomInv, RoomTypeOK, SharedRoomNeedsOverlap, Share
<1>1. ASSUME NEW w \in Stylists, AskRoom(w) PROVE SharedRoomNeedsOverlap'
  BY <1>1 DEF AskRoom
<1>2. ASSUME NEW w \in Stylists, GiveRoom(w) PROVE SharedRoomNeedsOverlap'
  <2>1. PICK c \in Cards, r \in Rooms \cup {NoRoom} : c = asks[w].card /\ r = asks[w].room
    BY <1>2 DEF GiveRoom, Asks
  <2>2. ASSUME NEW d \in Cards, d # c, r # NoRoom, view[w].open,
               stage[c] = "open", stage[d] = "open", room[d] = r
        PROVE  d \in behind'[c]
    <3>1. d \in OpenIn(r)
      BY <2>2 DEF OpenIn
    <3>2. d \notin view[w].rivals
      BY <1>2, <2>1, <2>2 DEF GiveRoom, Collides
    <3>3. behind'[c] = OpenIn(r) \ ({c} \cup view[w].rivals)
      BY <1>2, <2>1, <2>2 DEF GiveRoom
    <3> QED BY <2>2, <3>1, <3>2, <3>3
  <2>3. ASSUME NEW d \in Cards, Share(c, d)' PROVE d \in behind'[c]
    <3>1. /\ d # c /\ stage[c] = "open" /\ stage[d] = "open"
          /\ r # NoRoom /\ room[d] = r
      BY <1>2, <2>1, <2>3 DEF GiveRoom
    <3>2. CASE view[w].open
      BY <2>2, <3>1, <3>2
    <3>3. CASE ~view[w].open
      BY <1>2, <2>1, <3>1, <3>3 DEF GiveRoom, ShutAsSeen
    <3> QED BY <3>2, <3>3
  <2>4. ASSUME NEW a \in Cards, NEW b \in Cards, a # c, b # c, Share(a, b)'
        PROVE  unchecked' \cap {a, b} # {} \/ b \in behind'[a] \/ a \in behind'[b]
    BY <1>2, <2>1, <2>4 DEF GiveRoom
  <2>5. \A a, b \in Cards : Share(a, b)' => Share(b, a)'
    OBVIOUS
  <2>6. ASSUME NEW a \in Cards, NEW b \in Cards, Share(a, b)'
        PROVE  unchecked' \cap {a, b} # {} \/ b \in behind'[a] \/ a \in behind'[b]
    <3>1. CASE a = c
      BY <2>3, <2>6, <3>1
    <3>2. CASE b = c
      BY <2>3, <2>5, <2>6, <3>2
    <3>3. CASE a # c /\ b # c
      BY <2>4, <2>6, <3>3
    <3> QED BY <3>1, <3>2, <3>3
  <2> QED BY <2>6
<1>3. ASSUME NEW w \in Stylists, RefuseRoom(w) PROVE SharedRoomNeedsOverlap'
  BY <1>3 DEF RefuseRoom
<1>4. ASSUME NEW w \in Stylists, AskRoomAgain(w) PROVE SharedRoomNeedsOverlap'
  BY <1>4 DEF AskRoomAgain
<1>5. ASSUME NEW c \in Cards, CardMoves(c) PROVE SharedRoomNeedsOverlap'
  <2>1. PICK s \in {"open", "closed"} :
            /\ stage' = [stage EXCEPT ![c] = s]
            /\ unchecked' = IF BringsRoom(c, s) THEN unchecked \cup {c} ELSE unchecked \ {c}
    BY <1>5 DEF CardMoves
  <2>2. room' = room /\ behind' = behind
    BY <1>5 DEF CardMoves
  <2>3. ASSUME stage'[c] = "open", room[c] # NoRoom, c \notin unchecked'
        PROVE  stage[c] = "open" /\ c \notin unchecked
    BY <2>1, <2>3 DEF BringsRoom
  <2>4. ASSUME NEW d \in Cards, stage'[d] = "open", room[d] # NoRoom, d \notin unchecked'
        PROVE  stage[d] = "open" /\ d \notin unchecked
    <3>1. CASE d = c
      BY <2>3, <2>4, <3>1
    <3>2. CASE d # c
      BY <2>1, <2>4, <3>2
    <3> QED BY <3>1, <3>2
  <2>5. ASSUME NEW a \in Cards, NEW b \in Cards, Share(a, b)', a \notin unchecked', b \notin unchecked'
        PROVE  b \in behind[a] \/ a \in behind[b]
    <3>1. /\ a # b /\ stage'[a] = "open" /\ stage'[b] = "open"
          /\ room[a] = room[b] /\ room[a] # NoRoom
      BY <2>2, <2>5
    <3>2. Share(a, b) /\ a \notin unchecked /\ b \notin unchecked
      BY <2>4, <2>5, <3>1
    <3> QED BY <3>2
  <2> QED BY <2>2, <2>5
<1>6. ASSUME NEW c \in Visits, VisitEnds(c) PROVE SharedRoomNeedsOverlap'
  BY <1>6 DEF VisitEnds
<1>7. CASE UNCHANGED roomVars
  BY <1>7 DEF roomVars
<1> QED BY <1>1, <1>2, <1>3, <1>4, <1>5, <1>6, <1>7 DEF RoomNext

-----------------------------------------------------------------------------

LEMMA RoomStep == RoomInv /\ [RoomNext]_roomVars => RoomInv'
BY RoomTypeStep, ShutAsSeenStep, ShareStep DEF RoomInv

\* The check of the room route, which reads a snapshot and no index, lets two
\* open cards into one room only when a card came to be open with the room on it
\* (admitted with it, or called again after it was done) or when the two requests
\* overlapped.
THEOREM RoomsShared == RoomSpec => []SharedRoomNeedsOverlap
<1>1. RoomInv => SharedRoomNeedsOverlap
  BY DEF RoomInv
<1> QED BY RoomInitInv, RoomStep, <1>1, PTL DEF RoomSpec

-----------------------------------------------------------------------------
(*****************************************************************************)
(* Workshop.                                                                 *)
(*                                                                           *)
(* The alterations rail, for any tasks, seamstresses and requests at once.   *)
(* The invariant says what a request can rely on: the tasks it saw queued    *)
(* are queued unless it has been told otherwise, and a queued task is        *)
(* locked by one delivery, which nothing can send back any more. So nobody   *)
(* is idle beside a queued task unless each of those is on its way to        *)
(* somebody, which is stronger than the property.                            *)
(*****************************************************************************)

\* A non-empty set of numbers has a least member.
LEMMA LeastExists ==
    ASSUME NEW S \in SUBSET Nat, S # {}
    PROVE  \E m \in S : \A k \in S : m <= k
<1>1. PICK m \in S : \A k \in S : <<k, m>> \notin OpToRel(<, Nat)
    <2>1. IsWellFoundedOn(OpToRel(<, Nat), Nat)
        BY NatLessThanWellFounded
    <2> QED
        BY <2>1, WFMin
<1>2. ASSUME NEW k \in S PROVE m <= k
    <2>1. ~ (k < m)
        BY <1>1 DEF OpToRel
    <2> QED
        BY <2>1
<1> QED
    BY <1>2

LEMMA LowestIsLeast ==
    ASSUME NEW S \in SUBSET Nat, S # {}
    PROVE  Lowest(S) \in S /\ \A k \in S : Lowest(S) <= k
BY LeastExists DEF Lowest

\* A task that is being created is nobody else's business.
CreatesApart ==
    \A h \in Hands :
        job[h].op = "create" => /\ rail[job[h].chore] = Unborn
                                /\ \A g \in Hands \ {h} : job[g].chore # job[h].chore

\* The others are about tasks there are.
JobsStand ==
    \A h \in Hands : job[h].op \in {"assign", "deliver"} => rail[job[h].chore] # Unborn

\* What a request saw holds as far as it has not been told otherwise: the tasks it saw
\* queued are queued, and the seamstress it frees has the task it delivers.
SightStands ==
    \A h \in Hands :
        /\ \A t \in sight[h].queue :
              rail[t] # Unborn /\ (t \notin outdated[h] => rail[t] = Nobody)
        /\ sight[h].queue # {} => /\ job[h].op = "deliver" /\ sight[h].who # Nobody
                                  /\ job[h].chore \notin sight[h].queue
        /\ job[h].op = "deliver" /\ sight[h].who # Nobody /\ job[h].chore \notin outdated[h]
              => rail[job[h].chore] = sight[h].who

\* A queued task is locked by one delivery, which nothing can send back any more.
LocksStand ==
    \A h \in Hands :
        lock[h] # 0 => /\ job[h].op = "deliver"
                       /\ lock[h] \in sight[h].queue \ outdated[h]
                       /\ job[h].chore \notin outdated[h]
                       /\ \A g \in Hands \ {h} : lock[g] # lock[h]

\* Nobody is idle beside a queued task, unless each of those is on its way to somebody.
IdleOrOnTheWay ==
    ~excused => IdleBut(0) = {} \/ \A t \in Queue : \E h \in Hands : lock[h] = t

ShopInv ==
    /\ ShopTypeOK
    /\ CreatesApart
    /\ JobsStand
    /\ SightStands
    /\ LocksStand
    /\ IdleOrOnTheWay

LEMMA ShopInitInv == ShopInit => ShopInv
<1> SUFFICES ASSUME ShopInit PROVE ShopInv
    OBVIOUS
<1>1. ShopTypeOK
    <2>1. Dark \in [who : Holders, queue : SUBSET Chores]
        BY DEF Dark, Holders
    <2> QED
        BY <2>1 DEF ShopInit, ShopTypeOK
<1>2. CreatesApart /\ JobsStand /\ SightStands /\ LocksStand
    BY DEF ShopInit, CreatesApart, JobsStand, SightStands, LocksStand, NoJob, Dark
<1>3. Queue = {}
    BY MarksApart DEF ShopInit, Queue
<1> QED
    BY <1>1, <1>2, <1>3 DEF ShopInv, IdleOrOnTheWay

LEMMA NumbersApart == 0 \notin Chores /\ Chores \subseteq Nat
BY TaskCountBound DEF Chores

LEMMA IdleAreWomen ==
    ASSUME ShopTypeOK, NEW c
    PROVE  IdleBut(c) \subseteq Women /\ IdleBut(c) \in SUBSET Nat /\ Nobody \notin IdleBut(c)
BY WomenAreIds DEF IdleBut, ShopTypeOK

\* What a request sees that begins.
LEMMA VisionFits ==
    ASSUME ShopInv, NEW j \in Jobs
    PROVE  /\ Vision(j) \in [who : Holders, queue : SUBSET Chores]
           /\ \A t \in Vision(j).queue : rail[t] = Nobody
           /\ Vision(j).queue # {} => /\ j.op = "deliver" /\ Vision(j).who # Nobody
                                      /\ j.chore \notin Vision(j).queue
           /\ j.op = "deliver" /\ Vision(j).who # Nobody => rail[j.chore] = Vision(j).who
<1> DEFINE r == Recipient(j)
<1>1. r \in Holders
    <2>1. \A w \in IdleBut(j.chore) : w \in Holders
        BY IdleAreWomen DEF ShopInv, Holders
    <2>2. IdleBut(j.chore) # {} => Lowest(IdleBut(j.chore)) \in IdleBut(j.chore)
        BY IdleAreWomen, LowestIsLeast DEF ShopInv
    <2>3. j.who \in Holders /\ Nobody \in Holders
        BY DEF Jobs, Holders
    <2> QED
        BY <2>1, <2>2, <2>3 DEF Recipient
<1>2. j.op = "deliver" /\ r # Nobody => rail[j.chore] = r
    BY DEF Recipient, Jobs
<1>3. Queue \subseteq Chores /\ \A t \in Queue : rail[t] = Nobody
    BY DEF Queue
<1> QED
    BY <1>1, <1>2, <1>3 DEF Vision

\* The hand that leaves, and the others.
LEMMA Left ==
    ASSUME ShopInv, NEW h \in Hands, LeaveShop(h)
    PROVE  /\ job' \in [Hands -> Jobs \cup {NoJob}] /\ lock' \in [Hands -> {0} \cup Chores]
           /\ sight' \in [Hands -> [who : Holders, queue : SUBSET Chores]]
           /\ job'[h] = NoJob /\ job'[h].op = "none" /\ job'[h].chore = 0
           /\ sight'[h].queue = {} /\ lock'[h] = 0
           /\ \A g \in Hands \ {h} : job'[g] = job[g] /\ sight'[g] = sight[g] /\ lock'[g] = lock[g]
<1>1. Dark \in [who : Holders, queue : SUBSET Chores]
    BY DEF Dark, Holders
<1> QED
    BY <1>1 DEF LeaveShop, ShopInv, ShopTypeOK, NoJob, Dark

\* What the hands know is kept when h ends with a write of the tasks in ts, which nobody has
\* locked or delivers beside a lock, and which never become unborn.
LEMMA WriteKeeps ==
    ASSUME ShopInv, NEW h \in Hands, NEW ts, LeaveShop(h), Publish(h, ts),
           rail' \in [Chores -> Holders \cup {Unborn, Delivered}],
           \A t \in Chores \ ts : rail'[t] = rail[t],
           \A t \in Chores : rail'[t] = Unborn => rail[t] = Unborn,
           \A g \in Hands \ {h} : job[g].op = "create" => job[g].chore \notin ts,
           \A g \in Hands \ {h} : lock[g] # 0 => lock[g] \notin ts /\ job[g].chore \notin ts
    PROVE  /\ outdated' \in [Hands -> SUBSET Chores]
           /\ CreatesApart' /\ JobsStand' /\ SightStands' /\ LocksStand'
<1>1. ASSUME NEW g \in Hands \ {h}
      PROVE  /\ outdated'[g] \in SUBSET Chores /\ outdated'[h] = {}
             /\ job[g] # NoJob => /\ outdated[g] \subseteq outdated'[g]
                                  /\ outdated'[g] = outdated[g] \cup (ts \cap Stakes(g))
    <2>1. job[g] # NoJob => Stakes(g) \subseteq Chores
        BY <1>1 DEF Stakes, ShopInv, ShopTypeOK, Jobs
    <2> QED
        BY <1>1, <2>1 DEF Publish, ShopInv, ShopTypeOK
<1>2. outdated' \in [Hands -> SUBSET Chores]
    <2>1. outdated' = [g \in Hands |-> outdated'[g]] /\ outdated'[h] = {}
        BY DEF Publish
    <2> QED
        BY <1>1, <2>1
<1>3. \A g \in Hands : job[g].op # "none" => job[g] # NoJob /\ job[g].chore \in Chores
    BY DEF ShopInv, ShopTypeOK, Jobs, NoJob
<1>4. CreatesApart'
    <2> SUFFICES ASSUME NEW g \in Hands, job'[g].op = "create"
                 PROVE  /\ rail'[job'[g].chore] = Unborn
                        /\ \A f \in Hands \ {g} : job'[f].chore # job'[g].chore
        BY DEF CreatesApart
    <2>1. g # h /\ job'[g] = job[g] /\ job[g].chore \in Chores
        BY <1>3, Left
    <2>2. rail'[job[g].chore] = Unborn
        BY <2>1 DEF ShopInv, CreatesApart
    <2>3. \A f \in Hands \ {g} : job'[f].chore # job[g].chore
        BY <2>1, Left, NumbersApart DEF ShopInv, CreatesApart
    <2> QED
        BY <2>1, <2>2, <2>3
<1>5. JobsStand'
    BY <1>3, Left DEF ShopInv, JobsStand
<1>6. SightStands'
    <2> SUFFICES ASSUME NEW g \in Hands \ {h}
                 PROVE  /\ \A t \in sight[g].queue :
                              rail'[t] # Unborn /\ (t \notin outdated'[g] => rail'[t] = Nobody)
                        /\ job[g].op = "deliver" /\ sight[g].who # Nobody
                               /\ job[g].chore \notin outdated'[g] => rail'[job[g].chore] = sight[g].who
        BY Left DEF SightStands, ShopInv
    <2>1. ASSUME NEW t \in sight[g].queue
          PROVE  rail'[t] # Unborn /\ (t \notin outdated'[g] => rail'[t] = Nobody)
        <3>1. t \in Chores /\ t \in Stakes(g) /\ job[g] # NoJob
            BY <1>3, <2>1 DEF Stakes, ShopInv, ShopTypeOK, SightStands
        <3> QED
            BY <1>1, <2>1, <3>1 DEF ShopInv, SightStands
    <2>2. ASSUME job[g].op = "deliver", sight[g].who # Nobody, job[g].chore \notin outdated'[g]
          PROVE  rail'[job[g].chore] = sight[g].who
        <3>1. job[g].chore \in Chores /\ job[g].chore \in Stakes(g) /\ job[g] # NoJob
            BY <1>3, <2>2 DEF Stakes
        <3> QED
            BY <1>1, <2>2, <3>1 DEF ShopInv, SightStands
    <2> QED
        BY <2>1, <2>2
<1>7. LocksStand'
    <2> SUFFICES ASSUME NEW g \in Hands, lock'[g] # 0
                 PROVE  /\ job'[g].op = "deliver"
                        /\ lock'[g] \in sight'[g].queue \ outdated'[g]
                        /\ job'[g].chore \notin outdated'[g]
                        /\ \A f \in Hands \ {g} : lock'[f] # lock'[g]
        BY DEF LocksStand
    <2>1. g # h /\ job'[g] = job[g] /\ sight'[g] = sight[g] /\ lock'[g] = lock[g]
        BY Left
    <2>2. job[g].op = "deliver" /\ lock[g] \in sight[g].queue \ outdated'[g]
            /\ job[g].chore \notin outdated'[g]
        BY <1>1, <1>3, <2>1 DEF ShopInv, LocksStand
    <2>3. \A f \in Hands \ {g} : lock'[f] # lock[g]
        BY <2>1, Left DEF ShopInv, LocksStand
    <2> QED
        BY <2>1, <2>2, <2>3
<1> QED
    BY <1>2, <1>4, <1>5, <1>6, <1>7

\* A request starts, or starts again, on what is there now.
LEMMA TakeStep == ASSUME ShopInv, NEW h \in Hands, Take(h) PROVE ShopInv'
<1>1. PICK j \in Jobs :
        /\ IF j.op = "create"
           THEN rail[j.chore] = Unborn /\ \A g \in Hands : job[g].chore # j.chore
           ELSE rail[j.chore] \in Holders
        /\ job' = [job EXCEPT ![h] = j]
        /\ sight' = [sight EXCEPT ![h] = Vision(j)]
    BY DEF Take
<1>2. job[h] = NoJob /\ UNCHANGED <<rail, employed, lock, outdated, excused>>
    BY DEF Take
<1>3. /\ job' \in [Hands -> Jobs \cup {NoJob}]
      /\ sight' \in [Hands -> [who : Holders, queue : SUBSET Chores]]
      /\ job'[h] = j /\ sight'[h] = Vision(j)
      /\ \A g \in Hands \ {h} : job'[g] = job[g] /\ sight'[g] = sight[g]
    BY <1>1, VisionFits DEF ShopInv, ShopTypeOK
<1>4. ShopTypeOK'
    BY <1>2, <1>3 DEF ShopInv, ShopTypeOK
<1>5. Unborn \notin Holders
    BY WomenAreIds, MarksApart DEF Holders
<1>6. CreatesApart'
    BY <1>1, <1>2, <1>3, <1>5 DEF ShopInv, CreatesApart
<1>7. JobsStand'
    BY <1>1, <1>2, <1>3, <1>5 DEF ShopInv, JobsStand
<1>8. SightStands'
    BY <1>2, <1>3, VisionFits, MarksApart DEF ShopInv, SightStands
<1>9. lock[h] = 0
    BY <1>2 DEF ShopInv, LocksStand, NoJob
<1>10. LocksStand'
    BY <1>2, <1>3, <1>9 DEF ShopInv, LocksStand
<1>11. IdleOrOnTheWay'
    BY <1>2 DEF ShopInv, IdleOrOnTheWay, Queue, IdleBut
<1> QED
    BY <1>4, <1>6, <1>7, <1>8, <1>10, <1>11 DEF ShopInv

\* A request that had locked nothing ends without a write.
LEMMA LeaveKeeps ==
    ASSUME ShopInv, NEW h \in Hands, LeaveShop(h), lock[h] = 0,
           outdated' = [outdated EXCEPT ![h] = {}], UNCHANGED <<rail, employed, excused>>
    PROVE  ShopInv'
<1>1. /\ outdated' \in [Hands -> SUBSET Chores] /\ outdated'[h] = {}
      /\ \A g \in Hands \ {h} : outdated'[g] = outdated[g]
    BY DEF ShopInv, ShopTypeOK
<1>2. ShopTypeOK'
    BY <1>1, Left DEF ShopInv, ShopTypeOK
<1>3. CreatesApart'
    <2> SUFFICES ASSUME NEW g \in Hands, job'[g].op = "create"
                 PROVE  /\ rail[job'[g].chore] = Unborn
                        /\ \A f \in Hands \ {g} : job'[f].chore # job'[g].chore
        BY DEF CreatesApart
    <2>1. g # h /\ job'[g] = job[g] /\ job[g].chore \in Chores
        BY Left DEF ShopInv, ShopTypeOK, Jobs, NoJob
    <2> QED
        BY <2>1, Left, NumbersApart DEF ShopInv, CreatesApart
<1>4. JobsStand'
    BY Left DEF ShopInv, JobsStand
<1>5. SightStands'
    <2> SUFFICES ASSUME NEW g \in Hands \ {h}
                 PROVE  /\ \A t \in sight[g].queue :
                              rail[t] # Unborn /\ (t \notin outdated[g] => rail[t] = Nobody)
                        /\ sight[g].queue # {} => /\ job[g].op = "deliver" /\ sight[g].who # Nobody
                                                  /\ job[g].chore \notin sight[g].queue
                        /\ job[g].op = "deliver" /\ sight[g].who # Nobody
                               /\ job[g].chore \notin outdated[g] => rail[job[g].chore] = sight[g].who
        BY <1>1, Left DEF SightStands
    <2> QED
        BY DEF ShopInv, SightStands
<1>6. LocksStand'
    <2> SUFFICES ASSUME NEW g \in Hands \ {h}, lock[g] # 0
                 PROVE  /\ job[g].op = "deliver" /\ lock[g] \in sight[g].queue \ outdated[g]
                        /\ job[g].chore \notin outdated[g]
                        /\ \A f \in Hands \ {g} : lock'[f] # lock[g]
        BY <1>1, Left DEF LocksStand
    <2> QED
        BY Left DEF ShopInv, LocksStand
<1>7. IdleOrOnTheWay'
    BY Left, NumbersApart DEF ShopInv, IdleOrOnTheWay, Queue, IdleBut
<1> QED
    BY <1>2, <1>3, <1>4, <1>5, <1>6, <1>7 DEF ShopInv

LEMMA JobAgainStep == ASSUME ShopInv, NEW h \in Hands, JobAgain(h) PROVE ShopInv'
<1>1. /\ Conflict(h) /\ outdated' = [outdated EXCEPT ![h] = {}]
      /\ UNCHANGED <<rail, employed, excused>>
      /\ \/ LeaveShop(h)
         \/ sight' = [sight EXCEPT ![h] = Vision(job[h])] /\ UNCHANGED <<job, lock>>
    BY DEF JobAgain
<1>2. lock[h] = 0 /\ job[h].op \in {"assign", "deliver"} /\ job[h] \in Jobs
    BY <1>1 DEF Conflict, Pulls, ShopInv, ShopTypeOK, LocksStand, NoJob
<1>3. /\ outdated' \in [Hands -> SUBSET Chores] /\ outdated'[h] = {}
      /\ \A g \in Hands \ {h} : outdated'[g] = outdated[g]
    BY <1>1 DEF ShopInv, ShopTypeOK
<1>4. CASE LeaveShop(h)
    BY <1>1, <1>2, <1>4, LeaveKeeps
<1>5. CASE sight' = [sight EXCEPT ![h] = Vision(job[h])] /\ UNCHANGED <<job, lock>>
    <2>1. /\ sight' \in [Hands -> [who : Holders, queue : SUBSET Chores]]
          /\ sight'[h] = Vision(job[h]) /\ \A g \in Hands \ {h} : sight'[g] = sight[g]
        BY <1>2, <1>5, VisionFits DEF ShopInv, ShopTypeOK
    <2>2. ShopTypeOK'
        BY <1>1, <1>3, <1>5, <2>1 DEF ShopInv, ShopTypeOK
    <2>3. CreatesApart' /\ JobsStand'
        BY <1>1, <1>5 DEF ShopInv, CreatesApart, JobsStand
    <2>4. SightStands'
        BY <1>1, <1>2, <1>3, <1>5, <2>1, VisionFits, MarksApart DEF ShopInv, SightStands
    <2>5. LocksStand'
        BY <1>2, <1>3, <1>5, <2>1 DEF ShopInv, LocksStand
    <2>6. IdleOrOnTheWay'
        BY <1>1, <1>5 DEF ShopInv, IdleOrOnTheWay, Queue, IdleBut
    <2> QED
        BY <2>2, <2>3, <2>4, <2>5, <2>6 DEF ShopInv
<1> QED
    BY <1>1, <1>4, <1>5

LEMMA RefuseHireStep == ASSUME ShopInv, NEW h \in Hands, RefuseHire(h) PROVE ShopInv'
<1>1. job[h].op = "deliver" => job[h].who = Nobody
    BY DEF ShopInv, ShopTypeOK, Jobs, NoJob
<1>2. lock[h] = 0
    BY <1>1 DEF RefuseHire, NotHired, ShopInv, LocksStand
<1> QED
    BY <1>2, LeaveKeeps DEF RefuseHire

\* The lock taken is on the most urgent of the tasks offered.
LEMMA TopIsLeast ==
    ASSUME ShopInv, NEW h \in Hands, Pulls(h)
    PROVE  /\ Top(h) \in Offered(h) /\ Top(h) \in sight[h].queue /\ Top(h) \in Chores /\ Top(h) # 0
           /\ \A t \in Offered(h) : Top(h) <= t
<1>1. Offered(h) \in SUBSET Nat /\ Offered(h) # {} /\ Offered(h) \subseteq Chores
    BY NumbersApart DEF Offered, Pulls, ShopInv, ShopTypeOK
<1> QED
    BY <1>1, LowestIsLeast, NumbersApart DEF Top, Offered

LEMMA PullNextStep == ASSUME ShopInv, NEW h \in Hands, PullNext(h) PROVE ShopInv'
<1>1. /\ Pulls(h) /\ ~Conflict(h) /\ lock' = [lock EXCEPT ![h] = Top(h)]
      /\ UNCHANGED <<rail, employed, job, sight, outdated, excused>>
    BY DEF PullNext
<1>2. /\ job[h].op = "deliver" /\ lock[h] = 0 /\ Top(h) \in sight[h].queue \ outdated[h]
      /\ job[h].chore \notin outdated[h] /\ Top(h) \in Chores
      /\ \A g \in Hands \ {h} : lock[g] # Top(h)
    BY <1>1, TopIsLeast DEF Pulls, Conflict, Offered
<1>3. /\ lock' \in [Hands -> {0} \cup Chores] /\ lock'[h] = Top(h)
      /\ \A g \in Hands \ {h} : lock'[g] = lock[g]
    BY <1>1, <1>2 DEF ShopInv, ShopTypeOK
<1>4. ShopTypeOK'
    BY <1>1, <1>3 DEF ShopInv, ShopTypeOK
<1>5. CreatesApart' /\ JobsStand' /\ SightStands'
    BY <1>1 DEF ShopInv, CreatesApart, JobsStand, SightStands
<1>6. LocksStand'
    BY <1>1, <1>2, <1>3 DEF ShopInv, LocksStand
<1>7. IdleOrOnTheWay'
    BY <1>1, <1>2, <1>3, NumbersApart DEF ShopInv, IdleOrOnTheWay, Queue, IdleBut
<1> QED
    BY <1>4, <1>5, <1>6, <1>7 DEF ShopInv

LEMMA ArchiveWomanStep == ASSUME ShopInv, NEW w \in Women, ArchiveWoman(w) PROVE ShopInv'
<1>1. /\ employed' = IF w \in employed THEN employed \ {w} ELSE employed \cup {w}
      /\ excused' = (excused \/ w \notin employed)
      /\ UNCHANGED <<rail, job, sight, lock, outdated>>
    BY DEF ArchiveWoman
<1>2. ShopTypeOK'
    BY <1>1 DEF ShopInv, ShopTypeOK
<1>3. CreatesApart' /\ JobsStand' /\ SightStands' /\ LocksStand'
    BY <1>1 DEF ShopInv, CreatesApart, JobsStand, SightStands, LocksStand
<1>4. IdleOrOnTheWay'
    BY <1>1 DEF ShopInv, IdleOrOnTheWay, Queue, IdleBut
<1> QED
    BY <1>2, <1>3, <1>4 DEF ShopInv

LEMMA CreateTaskStep == ASSUME ShopInv, NEW h \in Hands, CreateTask(h) PROVE ShopInv'
<1> DEFINE c == job[h].chore
           r == sight[h].who
<1>1. /\ job[h].op = "create" /\ ~NotHired(h) /\ rail' = [rail EXCEPT ![c] = r]
      /\ excused' = (excused \/ OutOfDate(h)) /\ Publish(h, {c}) /\ LeaveShop(h)
      /\ UNCHANGED employed
    BY DEF CreateTask
<1>2. job[h] \in Jobs /\ c \in Chores /\ r \in Holders /\ rail[c] = Unborn /\ lock[h] = 0
    BY <1>1 DEF ShopInv, ShopTypeOK, Jobs, NoJob, CreatesApart, LocksStand
<1>3. /\ rail' \in [Chores -> Holders \cup {Unborn, Delivered}] /\ rail'[c] = r
      /\ \A t \in Chores \ {c} : rail'[t] = rail[t]
    BY <1>1, <1>2 DEF ShopInv, ShopTypeOK
<1>4. \A g \in Hands \ {h} : job[g].chore # c /\ lock[g] # c
    <2>1. \A g \in Hands \ {h} : job[g].chore # c
        BY <1>1 DEF ShopInv, CreatesApart
    <2>2. \A g \in Hands \ {h} : lock[g] = c => FALSE
        BY <1>2, NumbersApart DEF ShopInv, LocksStand, SightStands
    <2> QED
        BY <2>1, <2>2
<1>5. \A t \in Chores : rail'[t] = Unborn => rail[t] = Unborn
    BY <1>2, <1>3
<1>6. outdated' \in [Hands -> SUBSET Chores]
        /\ CreatesApart' /\ JobsStand' /\ SightStands' /\ LocksStand'
    BY <1>1, <1>3, <1>4, <1>5, WriteKeeps
<1>7. ShopTypeOK'
    <2>1. excused' \in BOOLEAN
        BY <1>1 DEF OutOfDate, ShopInv, ShopTypeOK
    <2> QED
        BY <1>1, <1>3, <1>6, <2>1, Left DEF ShopInv, ShopTypeOK
<1>8. IdleOrOnTheWay'
    <2> SUFFICES ASSUME ~excused, ~OutOfDate(h)
                 PROVE  IdleBut(0)' = {} \/ \A t \in Queue' : \E g \in Hands : lock'[g] = t
        BY <1>1 DEF IdleOrOnTheWay, ShopInv, ShopTypeOK
    <2>1. r = Recipient(job[h])
        BY DEF OutOfDate, Vision
    <2>2. IdleBut(c) = IdleBut(0)
        <3>1. rail[c] \notin employed /\ 0 \notin Chores
            BY <1>2, WomenAreIds, NumbersApart DEF ShopInv, ShopTypeOK
        <3> QED
            BY <3>1 DEF IdleBut
    <2>3. CASE r # Nobody
        <3>1. Queue' = Queue /\ \A g \in Hands : lock'[g] = lock[g]
            BY <1>1, <1>2, <1>3, <2>3, Left, MarksApart DEF Queue
        <3>2. IdleBut(0)' \subseteq IdleBut(0)
            BY <1>1, <1>2, <1>3, WomenAreIds DEF IdleBut, ShopInv, ShopTypeOK
        <3> QED
            BY <3>1, <3>2 DEF ShopInv, IdleOrOnTheWay
    <2>4. CASE r = Nobody
        <3>1. IdleBut(c) = {}
            <4>1. job[h].who = Nobody
                BY <1>1, <2>4 DEF NotHired
            <4>2. IdleBut(c) # {} => Recipient(job[h]) = Lowest(IdleBut(c))
                BY <1>1, <4>1 DEF Recipient
            <4>3. IdleBut(c) # {} => Lowest(IdleBut(c)) \in IdleBut(c)
                BY IdleAreWomen, LowestIsLeast DEF ShopInv
            <4> QED
                BY <2>1, <2>4, <4>2, <4>3, IdleAreWomen DEF ShopInv
        <3>2. IdleBut(0)' \subseteq IdleBut(0)
            BY <1>1, <1>2, <1>3, WomenAreIds DEF IdleBut, ShopInv, ShopTypeOK
        <3> QED
            BY <2>2, <3>1, <3>2
    <2> QED
        BY <2>3, <2>4
<1> QED
    BY <1>6, <1>7, <1>8 DEF ShopInv

LEMMA AssignStep == ASSUME ShopInv, NEW h \in Hands, Assign(h) PROVE ShopInv'
<1> DEFINE c == job[h].chore
           r == job[h].who
<1>1. /\ job[h].op = "assign" /\ rail' = [rail EXCEPT ![c] = r] /\ ~Awaits(h, c)
      /\ excused' = (excused \/ rail[c] \notin {Nobody, r}) /\ Publish(h, {c}) /\ LeaveShop(h)
      /\ UNCHANGED employed
    BY DEF Assign
<1>2. job[h] \in Jobs /\ c \in Chores /\ r \in Holders /\ rail[c] # Unborn /\ lock[h] = 0
    BY <1>1 DEF ShopInv, ShopTypeOK, Jobs, NoJob, JobsStand, LocksStand
<1>3. /\ rail' \in [Chores -> Holders \cup {Unborn, Delivered}] /\ rail'[c] = r
      /\ \A t \in Chores \ {c} : rail'[t] = rail[t]
    BY <1>1, <1>2 DEF ShopInv, ShopTypeOK
<1>4. \A g \in Hands \ {h} : /\ job[g].op = "create" => job[g].chore # c
                             /\ lock[g] # 0 => lock[g] # c /\ job[g].chore # c
    BY <1>1, <1>2 DEF ShopInv, CreatesApart, Awaits
<1>5. \A t \in Chores : rail'[t] = Unborn => rail[t] = Unborn
    BY <1>2, <1>3, WomenAreIds, MarksApart DEF Holders
<1>6. outdated' \in [Hands -> SUBSET Chores]
        /\ CreatesApart' /\ JobsStand' /\ SightStands' /\ LocksStand'
    BY <1>1, <1>3, <1>4, <1>5, WriteKeeps
<1>7. ShopTypeOK'
    <2>1. excused' \in BOOLEAN
        BY <1>1 DEF ShopInv, ShopTypeOK
    <2> QED
        BY <1>1, <1>3, <1>6, <2>1, Left DEF ShopInv, ShopTypeOK
<1>8. IdleOrOnTheWay'
    <2> SUFFICES ASSUME ~excused, rail[c] \in {Nobody, r}
                 PROVE  IdleBut(0)' = {} \/ \A t \in Queue' : \E g \in Hands : lock'[g] = t
        BY <1>1 DEF IdleOrOnTheWay, ShopInv, ShopTypeOK
    <2>1. Queue' \subseteq Queue
        BY <1>2, <1>3 DEF Queue
    <2>2. IdleBut(0)' \subseteq IdleBut(0)
        <3> SUFFICES ASSUME NEW w \in IdleBut(0)' PROVE w \in IdleBut(0)
            OBVIOUS
        <3>1. w \in employed /\ \A t \in Chores : rail'[t] # w
            BY <1>1, NumbersApart DEF IdleBut
        <3>2. w # Nobody
            BY <3>1, WomenAreIds DEF ShopInv, ShopTypeOK
        <3>3. rail[c] # w
            BY <1>2, <1>3, <3>1, <3>2
        <3> QED
            BY <1>3, <3>1, <3>3 DEF IdleBut
    <2>3. \A g \in Hands : lock'[g] = lock[g]
        BY <1>1, <1>2, Left
    <2> QED
        BY <2>1, <2>2, <2>3 DEF ShopInv, IdleOrOnTheWay
<1> QED
    BY <1>6, <1>7, <1>8 DEF ShopInv

LEMMA DeliverStep == ASSUME ShopInv, NEW h \in Hands, Deliver(h) PROVE ShopInv'
<1> DEFINE c == job[h].chore
           k == lock[h]
           r == sight[h].who
<1>1. /\ job[h].op = "deliver" /\ ~Pulls(h) /\ ~Conflict(h) /\ ~Awaits(h, c)
      /\ rail' = [t \in Chores |-> IF t = c THEN Delivered ELSE IF t = k THEN r ELSE rail[t]]
      /\ excused' = (excused \/ OutOfDate(h)) /\ Publish(h, {c, k}) /\ LeaveShop(h)
      /\ UNCHANGED employed
    BY DEF Deliver
<1>2. /\ job[h] \in Jobs /\ c \in Chores /\ r \in Holders /\ rail[c] # Unborn /\ k \in {0} \cup Chores
      /\ k # 0 => /\ k \in sight[h].queue /\ rail[k] = Nobody /\ rail[c] = r /\ r # Nobody /\ k # c
                  /\ r \in Women
    BY <1>1 DEF ShopInv, ShopTypeOK, Jobs, NoJob, JobsStand, LocksStand, SightStands, Holders
<1>3. /\ rail' \in [Chores -> Holders \cup {Unborn, Delivered}] /\ rail'[c] = Delivered
      /\ k # 0 => rail'[k] = r
      /\ \A t \in Chores \ {c, k} : rail'[t] = rail[t]
    BY <1>1, <1>2 DEF ShopInv, ShopTypeOK
<1>4. \A g \in Hands \ {h} :
        /\ job[g].op = "create" => job[g].chore \notin {c, k}
        /\ lock[g] # 0 => lock[g] \notin {c, k} /\ job[g].chore \notin {c, k}
    <2> SUFFICES ASSUME NEW g \in Hands \ {h}
                 PROVE  /\ job[g].op = "create" => job[g].chore \notin {c, k}
                        /\ lock[g] # 0 => lock[g] \notin {c, k} /\ job[g].chore \notin {c, k}
        OBVIOUS
    <2>1. job[g].op # "none" => job[g].chore \in Chores /\ job[g].chore # 0
        BY NumbersApart DEF ShopInv, ShopTypeOK, Jobs, NoJob
    <2>2. ASSUME job[g].op = "create" PROVE job[g].chore \notin {c, k}
        <3>1. rail[job[g].chore] = Unborn
            BY <2>2 DEF ShopInv, CreatesApart
        <3> QED
            BY <1>2, <2>1, <2>2, <3>1, MarksApart
    <2>3. ASSUME lock[g] # 0 PROVE lock[g] \notin {c, k} /\ job[g].chore \notin {c, k}
        <3>1. lock[g] # c /\ job[g].chore # c
            BY <1>1, <2>3 DEF Awaits
        <3>2. lock[g] # k
            BY <2>3 DEF ShopInv, LocksStand
        <3>3. job[g].op = "deliver" /\ rail[job[g].chore] = sight[g].who /\ sight[g].who # Nobody
            BY <2>3 DEF ShopInv, LocksStand, SightStands
        <3>4. job[g].chore # k
            BY <1>2, <2>1, <3>3
        <3> QED
            BY <3>1, <3>2, <3>4
    <2> QED
        BY <2>2, <2>3
<1>5. \A t \in Chores : rail'[t] = Unborn => rail[t] = Unborn
    <2> SUFFICES ASSUME NEW t \in Chores, rail'[t] = Unborn PROVE rail[t] = Unborn
        OBVIOUS
    <2>1. t # c
        BY <1>3, MarksApart
    <2>2. t # k
        BY <1>2, <1>3, WomenAreIds, NumbersApart
    <2> QED
        BY <1>3, <2>1, <2>2
<1>6. outdated' \in [Hands -> SUBSET Chores]
        /\ CreatesApart' /\ JobsStand' /\ SightStands' /\ LocksStand'
    BY <1>1, <1>3, <1>4, <1>5, WriteKeeps
<1>7. ShopTypeOK'
    <2>1. excused' \in BOOLEAN
        BY <1>1 DEF OutOfDate, ShopInv, ShopTypeOK
    <2> QED
        BY <1>1, <1>3, <1>6, <2>1, Left DEF ShopInv, ShopTypeOK
<1>8. IdleOrOnTheWay'
    <2> SUFFICES ASSUME ~excused, ~OutOfDate(h)
                 PROVE  IdleBut(0)' = {} \/ \A t \in Queue' : \E g \in Hands : lock'[g] = t
        BY <1>1 DEF IdleOrOnTheWay, ShopInv, ShopTypeOK
    <2>1. r = Recipient(job[h]) /\ sight[h] = Vision(job[h]) /\ job[h].who = Nobody
        BY <1>1 DEF OutOfDate, Vision, ShopInv, ShopTypeOK, Jobs, NoJob
    <2>2. Delivered \notin employed /\ Nobody \notin employed /\ employed \subseteq Women
        BY WomenAreIds DEF ShopInv, ShopTypeOK
    <2>3. CASE k # 0
        <3>1. IdleBut(0)' \subseteq IdleBut(0)
            <4> SUFFICES ASSUME NEW w \in IdleBut(0)' PROVE w \in IdleBut(0)
                OBVIOUS
            <4>1. w \in employed /\ \A t \in Chores : rail'[t] # w
                BY <1>1, NumbersApart DEF IdleBut
            <4>2. w # r /\ k \in Chores
                BY <1>2, <1>3, <2>3, <4>1
            <4>3. \A t \in Chores : rail[t] # w
                BY <1>2, <1>3, <2>2, <2>3, <4>1, <4>2
            <4> QED
                BY <4>1, <4>3 DEF IdleBut
        <3>2. \A t \in Queue' : t \in Queue /\ t # k
            BY <1>2, <1>3, <2>3, MarksApart DEF Queue
        <3>3. ASSUME NEW t \in Queue', NEW g \in Hands, lock[g] = t PROVE lock'[g] = t
            BY <1>1, <3>2, <3>3, Left
        <3> QED
            BY <3>1, <3>2, <3>3 DEF ShopInv, IdleOrOnTheWay
    <2>4. CASE k = 0 /\ r # Nobody
        <3>1. rail[c] = r /\ sight[h].queue = Queue \ {c} /\ Offered(h) = {}
            <4>1. rail[c] = r
                BY <1>1, <1>2, <2>1, <2>4, VisionFits
            <4>2. sight[h].queue = Queue \ {c}
                BY <1>1, <2>1, <2>4 DEF Vision
            <4>3. Offered(h) = {}
                BY <1>1, <2>4 DEF Pulls
            <4> QED
                BY <4>1, <4>2, <4>3
        <3>2. Queue' \subseteq Queue \ {c}
            BY <1>2, <1>3, <2>4, MarksApart, NumbersApart DEF Queue
        <3>3. ASSUME NEW t \in Queue' PROVE \E g \in Hands : lock'[g] = t
            <4>1. PICK g \in Hands \ {h} : lock[g] = t
                BY <3>1, <3>2 DEF Offered
            <4> QED
                BY <1>1, <4>1, Left
        <3> QED
            BY <3>3
    <2>5. CASE k = 0 /\ r = Nobody
        <3>1. rail[c] \notin IdleBut(c)
            <4>1. rail[c] \in IdleBut(c) => Recipient(job[h]) = rail[c]
                BY <1>1, <2>1 DEF Recipient
            <4> QED
                BY <2>1, <2>5, <4>1, IdleAreWomen DEF ShopInv
        <3>2. IdleBut(0)' \subseteq IdleBut(0)
            <4> SUFFICES ASSUME NEW w \in IdleBut(0)' PROVE w \in IdleBut(0)
                OBVIOUS
            <4>1. w \in employed /\ \A t \in Chores : rail'[t] # w
                BY <1>1, NumbersApart DEF IdleBut
            <4>2. \A t \in Chores \ {c} : rail[t] # w
                BY <1>3, <2>5, <4>1, NumbersApart
            <4>3. rail[c] # w
                BY <3>1, <4>1, <4>2 DEF IdleBut
            <4> QED
                BY <4>1, <4>2, <4>3 DEF IdleBut
        <3>3. Queue' \subseteq Queue
            BY <1>2, <1>3, <2>5, MarksApart, NumbersApart DEF Queue
        <3>4. \A g \in Hands : lock'[g] = lock[g]
            BY <1>1, <2>5, Left
        <3> QED
            BY <3>2, <3>3, <3>4 DEF ShopInv, IdleOrOnTheWay
    <2> QED
        BY <2>3, <2>4, <2>5
<1> QED
    BY <1>6, <1>7, <1>8 DEF ShopInv

LEMMA ShopStep == ShopInv /\ [ShopNext]_shopVars => ShopInv'
<1> SUFFICES ASSUME ShopInv, [ShopNext]_shopVars PROVE ShopInv'
    OBVIOUS
<1>1. CASE UNCHANGED shopVars
    BY <1>1 DEF shopVars, ShopInv, ShopTypeOK, CreatesApart, JobsStand, SightStands, LocksStand,
       IdleOrOnTheWay, Queue, IdleBut
<1>2. ASSUME NEW h \in Hands, Take(h) \/ RefuseHire(h) \/ PullNext(h) \/ JobAgain(h) PROVE ShopInv'
    BY <1>2, TakeStep, RefuseHireStep, PullNextStep, JobAgainStep
<1>3. ASSUME NEW h \in Hands, CreateTask(h) \/ Deliver(h) \/ Assign(h) PROVE ShopInv'
    BY <1>3, CreateTaskStep, DeliverStep, AssignStep
<1>4. CASE \E w \in Women : ArchiveWoman(w)
    BY <1>4, ArchiveWomanStep
<1> QED
    BY <1>1, <1>2, <1>3, <1>4 DEF ShopNext

LEMMA NobodyIdle == ShopInv => NobodyIdleBesideWork
<1> SUFFICES ASSUME ShopInv, \A h \in Hands : job[h] = NoJob, ~excused
             PROVE  Queue = {} \/ IdleBut(0) = {}
    BY DEF NobodyIdleBesideWork
<1>1. \A h \in Hands : lock[h] = 0
    BY DEF ShopInv, LocksStand, NoJob
<1>2. 0 \notin Queue
    BY NumbersApart DEF Queue
<1> QED
    BY <1>1, <1>2 DEF ShopInv, IdleOrOnTheWay

\* A task is taken from its seamstress by its delivery, or by an assignment.
LEMMA HandedOut ==
    ASSUME ShopInv, [ShopNext]_shopVars, NEW t \in Chores, rail[t] \in Women, rail'[t] # rail[t]
    PROVE  \E h \in Hands : /\ job[h].chore = t /\ job'[h] = NoJob
                            /\ job[h].op = IF rail'[t] = Delivered THEN "deliver" ELSE "assign"
<1>1. PICK h \in Hands : CreateTask(h) \/ Deliver(h) \/ Assign(h)
    BY DEF ShopNext, shopVars, Take, RefuseHire, PullNext, JobAgain, ArchiveWoman
<1>2. job'[h] = NoJob
    BY <1>1, Left DEF CreateTask, Deliver, Assign
<1>3. CASE CreateTask(h)
    BY <1>3, WomenAreIds DEF CreateTask, ShopInv, ShopTypeOK, CreatesApart
<1>4. CASE Deliver(h)
    <2>1. t # lock[h]
        BY <1>4, WomenAreIds, NumbersApart DEF ShopInv, LocksStand, SightStands
    <2>2. t = job[h].chore /\ rail'[t] = Delivered
        BY <1>4, <2>1 DEF Deliver
    <2> QED
        BY <1>2, <1>4, <2>2 DEF Deliver
<1>5. CASE Assign(h)
    <2>1. t = job[h].chore /\ rail'[t] = job[h].who
        BY <1>5 DEF Assign, ShopInv, ShopTypeOK
    <2>2. job[h].who \in Holders
        BY <1>5 DEF Assign, ShopInv, ShopTypeOK, Jobs, NoJob
    <2> QED
        BY <1>2, <1>5, <2>1, <2>2, WomenAreIds, MarksApart DEF Assign, Holders
<1> QED
    BY <1>1, <1>3, <1>4, <1>5

LEMMA UrgentFirst ==
    ASSUME ShopInv, [ShopNext]_shopVars, NEW h \in Hands, lock'[h] # lock[h], lock'[h] # 0,
           NEW t \in Queue, t < lock'[h]
    PROVE  t \notin sight[h].queue \/ \E g \in Hands : lock[g] = t
<1>1. \A g \in Hands : ~LeaveShop(g) 
    BY Left
<1>2. PICK g \in Hands : PullNext(g)
    BY <1>1 DEF ShopNext, shopVars, Take, CreateTask, RefuseHire, Deliver, Assign, JobAgain, ArchiveWoman
<1>3. g = h /\ lock'[h] = Top(h) /\ Pulls(h)
    BY <1>2 DEF PullNext, ShopInv, ShopTypeOK
<1>4. Top(h) \in Nat /\ t \in Nat /\ \A u \in Offered(h) : Top(h) <= u
    BY <1>3, TopIsLeast, NumbersApart DEF Queue
<1>5. t \notin Offered(h)
    BY <1>3, <1>4
<1> QED
    BY <1>5 DEF Offered

LEMMA ShopInductive == ShopSpec => []ShopInv
BY ShopInitInv, ShopStep, PTL DEF ShopSpec

\* Nobody of the pool is left idle beside queued work, for any tasks, seamstresses and number
\* of requests at once, unless a request decided on what was no longer so (the recipient of
\* create and deliver, and _modryn_pull_next).
THEOREM NobodyLeftIdle == ShopSpec => [](ShopTypeOK /\ NobodyIdleBesideWork)
<1>1. ShopInv => ShopTypeOK /\ NobodyIdleBesideWork
    BY NobodyIdle DEF ShopInv
<1> QED
    BY ShopInductive, <1>1, PTL

\* The queue hands a task out once, and the most urgent one that nobody is taking first
\* (FOR UPDATE SKIP LOCKED in _modryn_pull_next).
THEOREM QueueInOrder == ShopSpec => QueueDiscipline
<1>1. ShopInv /\ [ShopNext]_shopVars =>
        [\A t \in Chores :
          rail[t] \in Women /\ rail'[t] # rail[t]
             => \E h \in Hands : /\ job[h].chore = t /\ job'[h] = NoJob
                                 /\ job[h].op = IF rail'[t] = Delivered THEN "deliver"
                                                                        ELSE "assign"]_shopVars
    BY HandedOut
<1>2. ShopInv /\ [ShopNext]_shopVars =>
        [\A h \in Hands :
          lock'[h] # lock[h] /\ lock'[h] # 0
             => \A t \in Queue : t < lock'[h]
                   => t \notin sight[h].queue \/ \E g \in Hands : lock[g] = t]_shopVars
    BY UrgentFirst
<1> QED
    BY ShopInductive, <1>1, <1>2, PTL DEF ShopSpec, QueueDiscipline, HandedOutOnce, MostUrgentFirst

-----------------------------------------------------------------------------
(* The components side by side.                                             *)

LEMMA FloorStarts == FloorInit => TeamInit /\ RoomInit /\ ShopInit
BY DEF FloorInit

LEMMA FloorMoves ==
    [FloorNext]_floorVars =>
        [TeamNext]_teamVars /\ [RoomNext]_roomVars /\ [ShopNext]_shopVars
<1> SUFFICES ASSUME [FloorNext]_floorVars
             PROVE  [TeamNext]_teamVars /\ [RoomNext]_roomVars /\ [ShopNext]_shopVars
    OBVIOUS
<1>1. CASE UNCHANGED floorVars
    BY <1>1 DEF floorVars
<1>2. CASE FloorNext
    BY <1>2 DEF FloorNext, Only
<1> QED
    BY <1>1, <1>2

\* Side by side the components behave as each does alone, so what is proved of one holds in MCFloor.
THEOREM FloorRunsThem == FloorSpec => TeamSpec /\ RoomSpec /\ ShopSpec
BY FloorStarts, FloorMoves, PTL
   DEF FloorSpec, TeamSpec, RoomSpec, ShopSpec

\* All of them keep their types side by side, in every behaviour of MCFloor.
THEOREM FloorIsTyped == FloorSpec => []FloorTypeOK
<1>1. TeamInv /\ RoomInv /\ ShopInv => FloorTypeOK
    BY DEF TeamInv, RoomInv, ShopInv, FloorTypeOK
<1>2. (TeamInit => TeamInv) /\ (TeamInv /\ [TeamNext]_teamVars => TeamInv')
    BY TeamInitInv, TeamStep
<1>3. (RoomInit => RoomInv) /\ (RoomInv /\ [RoomNext]_roomVars => RoomInv')
    BY RoomInitInv, RoomStep
<1>4. (ShopInit => ShopInv) /\ (ShopInv /\ [ShopNext]_shopVars => ShopInv')
    BY ShopInitInv, ShopStep
<1> QED
    BY FloorStarts, FloorMoves, <1>2, <1>3, <1>4, <1>1, PTL DEF FloorSpec

=============================================================================
