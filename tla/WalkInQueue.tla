---------------------------- MODULE WalkInQueue -----------------------------
(***************************************************************************)
(* The walk-in line (modryn_queue_poc): checking in with a verified        *)
(* number, being called, sent home or served, the nightly closing, and the *)
(* two texts a customer gets: "you're next" and "we're ready for you".     *)
(*                                                                         *)
(* Each operation is one REPEATABLE READ transaction. It begins, and what  *)
(* it reads is fixed in seen[w]; it finishes, and may not write a row that *)
(* was updated in the meantime (dirty[w]). A check-in creates at most one  *)
(* ticket, so ticket and visit are one.                                    *)
(***************************************************************************)
EXTENDS Integers, FiniteSets

CONSTANTS
    Visits,          \* verified check-ins; each may own one ticket
    PhoneOf,         \* the number a visit was verified with
    Parked,          \* tickets that the older front door may have left 'pending'
    Managers,        \* workers acting for the floor and the queue board
    Closer,          \* the cron that closes the floor for the day
    Workers          \* bound: transactions that run side by side

ASSUME VisitsFinite  == IsFiniteSet(Visits)
ASSUME ParkedVisits  == Parked \subseteq Visits
ASSUME ProcsDistinct == /\ Visits \cap Managers = {}
                        /\ Closer \notin Visits \cup Managers
ASSUME WorkersPos    == Workers \in Nat \ {0}
ASSUME ParkedApart   == \A p, q \in Parked : PhoneOf[p] = PhoneOf[q] => p = q

Procs == Visits \cup Managers \cup {Closer}

VARIABLES
    ticket,          \* committed rows: the state, and which texts are stamped as sent
    born,            \* rank by create_date, the time the check-in began
    doing,           \* what each process's transaction is
    on,              \* the tickets it was asked to act on
    seen,            \* its snapshot of the tickets
    dirty,           \* tickets updated by others since its snapshot
    answer,          \* what became of each visit
    headsUps,        \* history: "you're next" texts queued
    turns            \* history: "we're ready for you" texts queued

vars == <<ticket, born, doing, on, seen, dirty, answer, headsUps, turns>>

\* "closed" stands for done, redirected and expired: nothing in the line tells
\* them apart.
States == {"absent", "pending", "waiting", "called", "closed"}
Open   == {"pending", "waiting", "called"}          \* OPEN_STATES
Rows   == [state : States, nextTold : BOOLEAN, turnTold : BOOLEAN]
Kinds  == {"idle", "checkin", "refused", "call", "finish", "redirect", "accept", "close"}

NoRow(s) == [state |-> s, nextTold |-> FALSE, turnTold |-> FALSE]
NoRows   == [t \in Visits |-> NoRow("absent")]

WithState(rows, S) == {t \in Visits : rows[t].state \in S}

TypeOK ==
    /\ ticket   \in [Visits -> Rows]
    /\ born     \in [Visits -> 0 .. Cardinality(Visits)]
    /\ doing    \in [Procs -> Kinds]
    /\ on       \in [Procs -> SUBSET Visits]
    /\ seen     \in [Procs -> [Visits -> Rows]]
    /\ dirty    \in [Procs -> SUBSET Visits]
    /\ answer   \in [Visits -> {"none", "created", "given_back", "failed"}]
    /\ headsUps \in [Visits -> Nat]
    /\ turns    \in [Visits -> Nat]

\* Before the first check-in there may be tickets that were left pending.
Init ==
    /\ ticket   \in [Visits -> {NoRow("absent"), NoRow("pending")}]
    /\ WithState(ticket, {"pending"}) \subseteq Parked
    /\ born     \in [Visits -> 0 .. Cardinality(Parked)]
    /\ \A t \in Visits : born[t] > 0 <=> ticket[t].state = "pending"
    /\ \A t, u \in WithState(ticket, {"pending"}) : born[t] = born[u] => t = u
    /\ doing    = [w \in Procs |-> "idle"]
    /\ on       = [w \in Procs |-> {}]
    /\ seen     = [w \in Procs |-> NoRows]
    /\ dirty    = [w \in Procs |-> {}]
    /\ answer   = [t \in Visits |-> IF ticket[t].state = "pending" THEN "created" ELSE "none"]
    /\ headsUps = [t \in Visits |-> 0]
    /\ turns    = [t \in Visits |-> 0]

-----------------------------------------------------------------------------
(* Transactions.                                                           *)

Begin(w, kind, about) ==
    /\ doing[w] = "idle"
    /\ Cardinality({v \in Procs : doing[v] # "idle"}) < Workers          \* bound
    /\ doing' = [doing EXCEPT ![w] = kind]
    /\ on'    = [on EXCEPT ![w] = about]
    /\ seen'  = [seen EXCEPT ![w] = ticket]
    /\ UNCHANGED <<ticket, dirty, headsUps, turns>>

\* w commits the rows R, or rolls back with R = {}: whoever runs beside it may
\* not update them any more.
End(w, R) ==
    /\ doing' = [doing EXCEPT ![w] = "idle"]
    /\ on'    = [on EXCEPT ![w] = {}]
    /\ seen'  = [seen EXCEPT ![w] = NoRows]
    /\ dirty' = [v \in Procs |-> IF v = w \/ doing[v] = "idle" THEN {} ELSE dirty[v] \cup R]

SamePhone(t) == {u \in Visits \ {t} : PhoneOf[u] = PhoneOf[t]}

\* Variant: no index; the search in modryn_check_in alone decides.
RivalsUnindexed(t) == {}

\* Open tickets of the same number, as modryn_open_phone_uniq finds them.
Rivals(t) == SamePhone(t) \cap WithState(ticket, Open)

\* search([('state', '=', 'waiting')], order='create_date asc', limit=1)
Front(rows) == {t \in WithState(rows, {"waiting"}) :
                   \A u \in WithState(rows, {"waiting"}) : born[t] <= born[u]}

\* _notify_next_in_line: the front of the line, unless she has been told before.
Promoted(rows) == {t \in Front(rows) : ~rows[t].nextTold}

Count(texts, R) == [t \in Visits |-> IF t \in R THEN texts[t] + 1 ELSE texts[t]]

-----------------------------------------------------------------------------
(* Checking in: the POST of /queue/verify, and modryn_check_in. Two posts   *)
(* of one code conflict on its row and the second is turned away, so the    *)
(* check-ins here have each a code of their own; those of one number overlap *)
(* when a code is issued and typed in while an older one is being verified.  *)

BeginCheckIn(v) ==
    /\ answer[v] = "none"
    /\ Begin(v, "checkin", {v})
    /\ born' = [born EXCEPT ![v] = Cardinality({t \in Visits : born[t] > 0}) + 1]
    /\ UNCHANGED answer

\* She has an open ticket: it is handed back.
HandBack(v) ==
    /\ doing[v] = "checkin"
    /\ SamePhone(v) \cap WithState(seen[v], Open) # {}
    /\ answer' = [answer EXCEPT ![v] = "given_back"]
    /\ End(v, {})
    /\ UNCHANGED <<ticket, born, headsUps, turns>>

\* _notify_joined: nobody she sees is waiting, so she is at the front.
IsNext(v) == WithState(seen[v], {"waiting"}) = {}

\* A new ticket, and the text that says so: "and you're next", if she is.
Join(v) ==
    /\ doing[v] = "checkin"
    /\ SamePhone(v) \cap WithState(seen[v], Open) = {}
    /\ Rivals(v) = {}
    /\ ticket'   = [ticket EXCEPT ![v] = [NoRow("waiting") EXCEPT !.nextTold = IsNext(v)]]
    /\ headsUps' = IF IsNext(v) THEN Count(headsUps, {v}) ELSE headsUps
    /\ answer' = [answer EXCEPT ![v] = "created"]
    /\ End(v, {v})
    /\ UNCHANGED <<born, turns>>

\* UniqueViolation: a rival ticket was opened since her snapshot.
Refused(v) ==
    /\ doing[v] = "checkin"
    /\ SamePhone(v) \cap WithState(seen[v], Open) = {}
    /\ Rivals(v) # {}
    /\ doing' = [doing EXCEPT ![v] = "refused"]
    /\ UNCHANGED <<ticket, born, on, seen, dirty, answer, headsUps, turns>>

\* The search is made again, in the same snapshot; nothing found, the violation
\* is raised and the request fails.
SearchAgain(v) ==
    /\ doing[v] = "refused"
    /\ answer' = [answer EXCEPT ![v] =
                     IF SamePhone(v) \cap WithState(seen[v], Open) = {}
                        THEN "failed" ELSE "given_back"]
    /\ End(v, {})
    /\ UNCHANGED <<ticket, born, headsUps, turns>>

-----------------------------------------------------------------------------
(* The floor: call, finish, redirect, accept, each promoting the next.     *)

\* What w's snapshot becomes by its own writes: R in state s. A ticket that is
\* called is stamped with its turn.
View(w, R, s) ==
    [t \in Visits |->
        IF t \in R THEN [seen[w][t] EXCEPT !.state = s, !.turnTold = @ \/ s = "called"]
                   ELSE seen[w][t]]

\* Variant: READ COMMITTED, where a row updated meanwhile is updated all the same.
ServeUnserialized(w, R, s) ==
    /\ s \in Open => \A t \in R : Rivals(t) = {}
    /\ LET view == View(w, R, s)
           next == Promoted(view)
       IN  /\ ticket'   = [t \in Visits |->
                              IF t \in next THEN [view[t] EXCEPT !.nextTold = TRUE]
                              ELSE IF t \in R THEN view[t] ELSE ticket[t]]
           /\ headsUps' = Count(headsUps, next)
           /\ End(w, R \cup next)
    /\ turns' = IF s = "called" THEN Count(turns, {t \in R : ~seen[w][t].turnTold}) ELSE turns
    /\ UNCHANGED <<born, answer>>

\* w moves the tickets R to state s, and tells whoever it finds at the front.
Serve(w, R, s) ==
    /\ s \in Open => \A t \in R : Rivals(t) = {}
    /\ LET view == View(w, R, s)
           next == Promoted(view)
       IN  /\ (R \cup next) \cap dirty[w] = {}
           /\ ticket'   = [t \in Visits |->
                              IF t \in next THEN [view[t] EXCEPT !.nextTold = TRUE]
                              ELSE IF t \in R THEN view[t] ELSE ticket[t]]
           /\ headsUps' = Count(headsUps, next)
           /\ End(w, R \cup next)
    /\ turns' = IF s = "called" THEN Count(turns, {t \in R : ~seen[w][t].turnTold}) ELSE turns
    /\ UNCHANGED <<born, answer>>

\* A board shows t in the line, or did: what it shows may be out of date.
OnBoard(t) == ticket[t].state \in {"waiting", "called", "closed"}

\* action_call_next, or the assignment of a stylist to a ticket that is waiting
\* (then the call follows from the same snapshot).
BeginCall(w, t) ==
    /\ OnBoard(t)
    /\ Begin(w, "call", {t})
    /\ UNCHANGED <<born, answer>>

FinishCall(w) == doing[w] = "call" /\ Serve(w, on[w], "called")

\* (Here and below, a ticket found closed would be closed again, which only
\* promotes, like a redirect of one that is called.)
BeginFinish(w, t) ==
    /\ ticket[t].state \in {"waiting", "called"}
    /\ Begin(w, "finish", {t})
    /\ UNCHANGED <<born, answer>>

\* Variant: /floor/finish writes the state itself, and nobody looks who is next.
FinishFinishSilent(w) ==
    /\ doing[w] = "finish"
    /\ on[w] \cap dirty[w] = {}
    /\ ticket' = [t \in Visits |-> IF t \in on[w] THEN [ticket[t] EXCEPT !.state = "closed"]
                                                  ELSE ticket[t]]
    /\ End(w, on[w])
    /\ UNCHANGED <<born, answer, headsUps, turns>>

FinishFinish(w) == doing[w] = "finish" /\ Serve(w, on[w], "closed")

BeginRedirect(w, t) ==
    /\ ticket[t].state \in Open
    /\ Begin(w, "redirect", {t})
    /\ UNCHANGED <<born, answer>>

\* Whoever has been called meanwhile is not sent home.
FinishRedirect(w) ==
    /\ doing[w] = "redirect"
    /\ Serve(w, on[w] \cap WithState(seen[w], {"pending", "waiting"}), "closed")

BeginAccept(w, t) ==
    /\ ticket[t].state \in Open
    /\ Begin(w, "accept", {t})
    /\ UNCHANGED <<born, answer>>

\* "Idempotent by state".
FinishAccept(w) ==
    /\ doing[w] = "accept"
    /\ Serve(w, on[w] \cap WithState(seen[w], {"pending"}), "waiting")

-----------------------------------------------------------------------------
(* Closing time: _modryn_expire_open_tickets.                              *)

BeginClose ==
    /\ WithState(ticket, Open) # {}
    /\ Begin(Closer, "close", WithState(ticket, Open))
    /\ UNCHANGED <<born, answer>>

FinishClose ==
    /\ doing[Closer] = "close"
    /\ on[Closer] \cap dirty[Closer] = {}
    /\ ticket' = [t \in Visits |-> IF t \in on[Closer] THEN [ticket[t] EXCEPT !.state = "closed"]
                                                       ELSE ticket[t]]
    /\ End(Closer, on[Closer])
    /\ UNCHANGED <<born, answer, headsUps, turns>>

\* A serialization failure, a violated index, or a recycled worker: no trace is
\* left, and the manager or the cron may begin again.
RollBack(w) ==
    /\ doing[w] # "idle"
    /\ w \notin Visits
    /\ End(w, {})
    /\ UNCHANGED <<ticket, born, answer, headsUps, turns>>

-----------------------------------------------------------------------------

Next ==
    \/ \E v \in Visits :
          BeginCheckIn(v) \/ HandBack(v) \/ Join(v) \/ Refused(v) \/ SearchAgain(v)
    \/ \E w \in Managers :
          \/ \E t \in Visits :
                BeginCall(w, t) \/ BeginFinish(w, t) \/ BeginRedirect(w, t) \/ BeginAccept(w, t)
          \/ FinishCall(w) \/ FinishFinish(w) \/ FinishRedirect(w) \/ FinishAccept(w)
    \/ BeginClose \/ FinishClose
    \/ \E w \in Procs : RollBack(w)

Spec == Init /\ [][Next]_vars

-----------------------------------------------------------------------------
(* Properties.                                                             *)

Counted(told) == IF told THEN 1 ELSE 0

\* What a transaction saw is still there, unless another has updated it; and no
\* stamp is taken back.
SnapshotsHold ==
    \A w \in Procs : doing[w] # "idle" =>
        \A t \in Visits : /\ t \notin dirty[w] => seen[w][t] = ticket[t]
                          /\ seen[w][t].nextTold => ticket[t].nextTold

\* What a transaction was asked to act on.
AskedAbout ==
    \A w \in Procs :
        /\ doing[w] \in {"call", "finish", "redirect", "accept"} => \E t \in Visits : on[w] = {t}
        /\ doing[w] \notin {"idle", "checkin", "refused"} =>
               \A t \in on[w] : seen[w][t].state # "absent"

\* A visit that has no answer yet has no ticket, and no place before it begins.
NoTicketYet ==
    \A v \in Visits : /\ doing[v] \in {"checkin", "refused"} => answer[v] = "none"
                      /\ answer[v] = "none" => ticket[v] = NoRow("absent")
                      /\ answer[v] = "none" /\ doing[v] = "idle" => born[v] = 0

\* Each stamp counts a text.
StampsCount ==
    \A t \in Visits : /\ headsUps[t] = Counted(ticket[t].nextTold)
                      /\ turns[t] = Counted(ticket[t].turnTold)
                      /\ ticket[t].state = "called" => ticket[t].turnTold

\* "One place in the line per number": however check-ins and the floor overlap,
\* and although the queue board may call a ticket that has been closed.
OneOpenTicket ==
    \A t, u \in WithState(ticket, Open) : PhoneOf[t] = PhoneOf[u] => t = u

\* "Once, ever": no ticket is told twice that it is next, or that it is its turn,
\* and nobody is called without being told.
TextsOnce ==
    \A t \in Visits : /\ headsUps[t] <= 1
                      /\ turns[t] <= 1
                      /\ ticket[t].state = "called" => turns[t] = 1

\* The inductive invariant: one row per number is open, the stamps on the rows
\* count the texts, and a transaction may trust what nobody has updated.
IInv == TypeOK /\ SnapshotsHold /\ AskedAbout /\ NoTicketYet /\ StampsCount /\ OneOpenTicket

\* "Every exit from the line" promotes: when a manager's transaction that has seen
\* the line as it is brings t to its front, t has been told when it commits.
PromotedIsTold ==
    [][\A w \in Managers : \A t \in Visits :
          /\ doing[w] # "idle" /\ doing'[w] = "idle" /\ ticket' # ticket
          /\ WithState(seen[w], {"waiting"}) = WithState(ticket, {"waiting"})
          /\ t \in Front(ticket') \ Front(ticket)
          => ticket'[t].nextTold]_vars

\* "Text whoever is now at the front": when nothing is going on, the front of the
\* line knows that she is next.
FrontIsTold ==
    (\A w \in Procs : doing[w] = "idle") => \A t \in Front(ticket) : ticket[t].nextTold

=============================================================================
