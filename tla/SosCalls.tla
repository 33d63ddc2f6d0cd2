------------------------------ MODULE SosCalls ------------------------------
(***************************************************************************)
(* Calls for help on the floor (modryn_staff). A call is for a colleague   *)
(* or, without a target, for any manager; it is open, acknowledged or      *)
(* resolved; and a call to a colleague that nobody acknowledges within     *)
(* half a minute is handed to the managers by a cron.                      *)
(*                                                                         *)
(* Every request and every cron run is a REPEATABLE READ transaction: it   *)
(* acts on what it saw when it began and may write a call only if nobody   *)
(* wrote it since. Nothing keeps two open calls of one cry for help apart. *)
(***************************************************************************)
EXTENDS Integers, Sequences

CONSTANTS
    Crew, Chiefs,      \* the staff, and those of them who are managers
    Callers,           \* those who press the bell
    Called,            \* the colleagues they call by name
    Anybody,           \* no target, that is, any manager; nobody yet
    Screens,           \* open boards, each sending one request at a time
    Cries,             \* what a call can be about: a customer card
    MaxCalls           \* bound on the calls raised

ASSUME ChiefsInCrew  == Chiefs \cup Callers \cup Called \subseteq Crew
ASSUME AnybodyApart  == Anybody \notin Crew
ASSUME MaxCallsBound == MaxCalls \in Nat

VARIABLES
    alarms,            \* the committed calls, in the order of their creation
    sent,              \* the request of each screen
    known,             \* for a call being raised: the live call it found, or 0
    passed,            \* the call it acts on was written since
    sweep,             \* the calls a running cron picked; {} between runs
    torn               \* one of them was written since

sosVars == <<alarms, sent, known, passed, sweep, torn>>

CallIds == 1..MaxCalls
Call    == [caller : Crew, about : Cries, target : Called \cup {Anybody},
            state : {"open", "acked", "resolved"}, by : Crew \cup {Anybody},
            old : BOOLEAN, escalated : BOOLEAN, after : 0..MaxCalls]
Idle    == [op |-> "none", who |-> Anybody, about |-> Anybody, target |-> Anybody, id |-> 0]
Raises  == [op : {"raise"}, who : Callers, about : Cries, target : Called \cup {Anybody}, id : {0}]
Acks    == [op : {"ack"}, who : Crew, about : {Anybody}, target : {Anybody}, id : CallIds]
           \cup [op : {"resolve"}, who : {Anybody}, about : {Anybody}, target : {Anybody},
                 id : CallIds]

SosTypeOK ==
    /\ alarms \in Seq(Call) /\ Len(alarms) <= MaxCalls
    /\ sent   \in [Screens -> Raises \cup Acks \cup {Idle}]
    /\ known  \in [Screens -> [live : 0..MaxCalls, count : 0..MaxCalls]]
    /\ passed \in [Screens -> BOOLEAN]
    /\ sweep  \subseteq CallIds /\ torn \in BOOLEAN

SosInit ==
    /\ alarms = << >>
    /\ sent   = [s \in Screens |-> Idle]
    /\ known  = [s \in Screens |-> [live |-> 0, count |-> 0]]
    /\ passed = [s \in Screens |-> FALSE]
    /\ sweep  = {} /\ torn = FALSE

-----------------------------------------------------------------------------
(* Raising.                                                                *)

\* The calls a second press of the bell finds.
Live(who, about) ==
    {i \in DOMAIN alarms : alarms[i].caller = who /\ alarms[i].about = about
                          /\ alarms[i].state # "resolved"}

Press(s) ==
    /\ sent[s] = Idle
    /\ \E q \in Raises :
          /\ sent' = [sent EXCEPT ![s] = q]
          /\ \E i \in Live(q.who, q.about) \cup {0} :
                /\ i = 0 => Live(q.who, q.about) = {}
                /\ known' = [known EXCEPT ![s] = [live |-> i, count |-> Len(alarms)]]
    /\ UNCHANGED <<alarms, passed, sweep, torn>>

Done(s) ==
    /\ sent'  = [sent EXCEPT ![s] = Idle]
    /\ known' = [known EXCEPT ![s] = [live |-> 0, count |-> 0]]

\* modryn_raise: an open call is used again instead of a second overlay.
Raise(s) ==
    /\ sent[s].op = "raise"
    /\ \/ known[s].live # 0 /\ UNCHANGED alarms
       \/ /\ known[s].live = 0 /\ Len(alarms) < MaxCalls
          /\ alarms' = Append(alarms,
                [caller |-> sent[s].who, about |-> sent[s].about, target |-> sent[s].target,
                 state |-> "open", by |-> Anybody, old |-> FALSE, escalated |-> FALSE,
                 after |-> known[s].count])
    /\ Done(s)
    /\ UNCHANGED <<passed, sweep, torn>>

-----------------------------------------------------------------------------
(* Answering.                                                              *)

\* Boards show the calls that are not resolved.
Tap(s) ==
    /\ sent[s] = Idle
    /\ \E q \in Acks :
          /\ q.id \in DOMAIN alarms /\ alarms[q.id].state # "resolved"
          /\ sent' = [sent EXCEPT ![s] = q]
    /\ UNCHANGED <<alarms, known, passed, sweep, torn>>

\* Variant: every responder is recorded.
ChangeAnyway(q) ==
    CASE q.op = "ack" /\ alarms[q.id].state # "resolved" ->
            [alarms EXCEPT ![q.id].state = "acked", ![q.id].by = q.who]
      [] q.op = "resolve" /\ alarms[q.id].state # "resolved" ->
            [alarms EXCEPT ![q.id].state = "resolved"]
      [] OTHER -> alarms

\* modryn_ack, modryn_resolve
Change(q) ==
    CASE q.op = "ack" /\ alarms[q.id].state = "open" ->
            [alarms EXCEPT ![q.id].state = "acked", ![q.id].by = q.who]
      [] q.op = "resolve" /\ alarms[q.id].state # "resolved" ->
            [alarms EXCEPT ![q.id].state = "resolved"]
      [] OTHER -> alarms

Answer(s) ==
    /\ sent[s].op \in {"ack", "resolve"} /\ ~passed[s]
    /\ alarms' = Change(sent[s])
    /\ IF alarms' = alarms THEN UNCHANGED <<passed, torn>>
       ELSE /\ passed' = [t \in Screens |-> t # s /\ (passed[t] \/ sent[t].id = sent[s].id)]
            /\ torn'   = (torn \/ sent[s].id \in sweep)
    /\ Done(s)
    /\ UNCHANGED sweep

\* A serialization failure: the request runs again.
AnswerAgain(s) ==
    /\ passed[s]
    /\ passed' = [passed EXCEPT ![s] = FALSE]
    /\ UNCHANGED <<alarms, sent, known, sweep, torn>>

-----------------------------------------------------------------------------
(* Escalation.                                                             *)

HalfAMinute(i) ==
    /\ alarms[i].state = "open" /\ alarms[i].target # Anybody /\ ~alarms[i].old
    /\ alarms' = [alarms EXCEPT ![i].old = TRUE]
    /\ UNCHANGED <<sent, known, passed, sweep, torn>>

\* Variant: one call is looked at, the newest.
StaleNewest == {i \in DOMAIN alarms : /\ alarms[i].state = "open" /\ ~alarms[i].escalated
                                     /\ alarms[i].target # Anybody /\ alarms[i].old
                                     /\ i = Len(alarms)}

\* _modryn_escalate_unanswered, the calls it picks
Stale == {i \in DOMAIN alarms : /\ alarms[i].state = "open" /\ ~alarms[i].escalated
                               /\ alarms[i].target # Anybody /\ alarms[i].old}

CronReads ==
    /\ sweep = {} /\ Stale # {}
    /\ sweep' = Stale
    /\ UNCHANGED <<alarms, sent, known, passed, torn>>

\* Clearing the target is what hands the call to the managers.
CronWrites ==
    /\ sweep # {} /\ ~torn
    /\ alarms' = [i \in DOMAIN alarms |->
                    IF i \in sweep THEN [alarms[i] EXCEPT !.escalated = TRUE, !.target = Anybody]
                                   ELSE alarms[i]]
    /\ passed' = [s \in Screens |-> passed[s] \/ sent[s].id \in sweep]
    /\ sweep' = {}
    /\ UNCHANGED <<sent, known, torn>>

\* One of the rows was written meanwhile: the run is rolled back, all of it.
CronFails ==
    /\ torn
    /\ sweep' = {} /\ torn' = FALSE
    /\ UNCHANGED <<alarms, sent, known, passed>>

SosNext ==
    \/ \E s \in Screens : Press(s) \/ Raise(s) \/ Tap(s) \/ Answer(s) \/ AnswerAgain(s)
    \/ \E i \in CallIds : i \in DOMAIN alarms /\ HalfAMinute(i)
    \/ CronReads \/ CronWrites \/ CronFails

\* The clock goes on and the cron runs every minute.
SosFairness ==
    /\ \A i \in CallIds : WF_sosVars(i \in DOMAIN alarms /\ HalfAMinute(i))
    /\ WF_sosVars(CronReads) /\ WF_sosVars(CronWrites) /\ WF_sosVars(CronFails)

SosSpec     == SosInit /\ [][SosNext]_sosVars
SosFairSpec == SosSpec /\ SosFairness

-----------------------------------------------------------------------------
(* Properties.                                                             *)

\* The first responder wins: her name stays on the call however many colleagues
\* tap at once, and a resolved call never comes back.
FirstResponderWins ==
    [][\A i \in DOMAIN alarms :
          /\ alarms[i].by # Anybody => alarms'[i].by = alarms[i].by
          /\ alarms[i].state = "resolved" => alarms'[i].state = "resolved"]_sosVars

\* One cry for help is two live calls only if the second was raised by a request
\* that began before the first call existed.
DuplicateCallNeedsOverlap ==
    \A i, j \in DOMAIN alarms :
        /\ i < j /\ alarms[i].caller = alarms[j].caller /\ alarms[i].about = alarms[j].about
        /\ alarms[i].state # "resolved" /\ alarms[j].state # "resolved"
        => alarms[j].after < i

\* A call somebody answered is not taken to the managers behind her back, though
\* the cron picks its calls before it writes them.
AnsweredNotEscalated ==
    [][\A i \in DOMAIN alarms :
          alarms'[i].escalated /\ ~alarms[i].escalated => alarms[i].state = "open"]_sosVars

\* A call to a colleague that nobody answers reaches the managers.
UnansweredReachesManagers ==
    \A i \in CallIds :
        []<>~(i \in DOMAIN alarms /\ alarms[i].state = "open" /\ alarms[i].target # Anybody)

\* The board of floor.py: calls she raised, calls for her, and for a manager the
\* calls for any manager.
OnBoard(e, c) ==
    /\ c.state # "resolved"
    /\ c.caller = e \/ c.target = e \/ (c.target = Anybody /\ e \in Chiefs)

\* What the comment on the escalation says: the colleague who was called still
\* sees the call when it has been escalated.
ColleagueStillSees ==
    [][\A i \in DOMAIN alarms :
          alarms'[i].escalated /\ ~alarms[i].escalated
             => OnBoard(alarms[i].target, alarms'[i])]_sosVars

\* Answers and calls under double taps, simultaneous answers and the cron: the
\* first answer stands, no answered call is escalated, and one person has two
\* live calls only if she made both before either could be seen.
AnswersStand ==
    /\ FirstResponderWins
    /\ AnsweredNotEscalated
    /\ []DuplicateCallNeedsOverlap

=============================================================================
