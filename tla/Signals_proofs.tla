--------------------------- MODULE Signals_proofs ---------------------------
(*****************************************************************************)
(* What must reach somebody: the texts of the outbox, the calls for help     *)
(* and the reminders. For each component an inductive invariant, the         *)
(* lemmas that every step keeps it, and the theorems that follow; at the     *)
(* end, that the three keep their types side by side.                        *)
(*****************************************************************************)
EXTENDS MCSignals, FiniteSetTheorems, TLAPS

-----------------------------------------------------------------------------
(*****************************************************************************)
(* SmsOutbox.                                                                *)
(*                                                                           *)
(* A text goes out twice only for a call of it whose outcome was never       *)
(* written, and its calls stop at the limit but for those. Between Send      *)
(* and Record a call has been made and counts in no row, so the invariant    *)
(* counts the call under way apart. It also says why a drain cannot touch    *)
(* what it should not: the rows it has still to send are pending and below   *)
(* the limit, and those it reaps are finished.                               *)
(*****************************************************************************)

\* A text that was never queued has no row, and no attempt of a queued one is the last.
RowsSound ==
    \A t \in Texts :
        /\ id[t] = 0 => row[t] = "none"
        /\ row[t] = "none" => id[t] = 0 /\ attempts[t] = 0
        /\ row[t] = "pending" => attempts[t] < MaxAttempts

\* A drain sends pending rows.
BatchPending == \A t \in batch : row[t] = "pending"

\* While a text waits, whatever was accepted of it went unrecorded, but for the call
\* under way.
AcceptedKnown ==
    \A t \in Texts :
        /\ accepted[t] <= 1 + unrecorded[t]
        /\ row[t] \in {"none", "pending"} /\ ~(sending = t /\ answer = "ok")
              => accepted[t] <= unrecorded[t]

\* The calls of a text are its attempts, those unrecorded and the one under way.
CallsKnown ==
    \A t \in Texts :
        calls[t] <= attempts[t] + unrecorded[t] + (IF sending = t THEN 1 ELSE 0)

IInv == TypeOK /\ RowsSound /\ BatchPending /\ AcceptedKnown /\ CallsKnown

\* The id the next row gets is one of those there are.
LEMMA NextId ==
    ASSUME TypeOK, NEW t \in Texts, id[t] = 0
    PROVE  Cardinality({u \in Texts : id[u] > 0}) + 1 \in 0 .. Cardinality(Texts)
<1> DEFINE Q == {u \in Texts : id[u] > 0}
<1>1. Q \subseteq Texts /\ t \notin Q
    OBVIOUS
<1>2. IsFiniteSet(Q) /\ IsFiniteSet(Q \cup {t}) /\ Q \cup {t} \subseteq Texts
    BY <1>1, TextsFinite, FS_Subset, FS_AddElement
<1>3. Cardinality(Q \cup {t}) = Cardinality(Q) + 1
    BY <1>1, <1>2, FS_AddElement
<1>4. Cardinality(Q \cup {t}) <= Cardinality(Texts)
    BY <1>2, TextsFinite, FS_Subset
<1>5. Cardinality(Q) \in Nat /\ Cardinality(Texts) \in Nat
    BY <1>2, TextsFinite, FS_CardinalityType
<1> QED
    BY <1>3, <1>4, <1>5

LEMMA InitOK == Init => IInv
<1> SUFFICES ASSUME Init PROVE IInv
    OBVIOUS
<1>1. /\ 0 \in 0 .. Cardinality(Texts) /\ 0 \in 0 .. MaxAttempts /\ 0 \in 0 .. MaxLost
      /\ 0 \in Nat
    BY TextsFinite, FS_CardinalityType, AttemptsPos, MaxLostNat
<1>2. TypeOK
    <2>1. /\ row \in [Texts -> {"none", "pending", "sent", "failed", "gone"}]
          /\ lastError \in [Texts -> Errors]
        BY DEF Init, Errors
    <2>2. /\ id \in [Texts -> 0 .. Cardinality(Texts)]
          /\ attempts \in [Texts -> 0 .. MaxAttempts]
        BY <1>1 DEF Init
    <2>3. /\ calls \in [Texts -> Nat] /\ accepted \in [Texts -> Nat]
          /\ unrecorded \in [Texts -> Nat] /\ lost \in 0 .. MaxLost
        BY <1>1 DEF Init
    <2>4. /\ due \subseteq Texts /\ old \subseteq Texts /\ batch \subseteq Texts
          /\ reaped \subseteq Finished /\ sending \in batch \cup {Nothing}
          /\ answer \in Answers
        BY DEF Init, Answers
    <2>5. draining \in BOOLEAN
        BY DEF Init
    <2> QED
        BY <2>1, <2>2, <2>3, <2>4, <2>5 DEF TypeOK
<1>3. RowsSound /\ BatchPending /\ AcceptedKnown
    BY DEF Init, RowsSound, BatchPending, AcceptedKnown
<1>4. CallsKnown
    BY NothingFresh DEF Init, CallsKnown
<1> QED
    BY <1>2, <1>3, <1>4 DEF IInv

\* What the drain reaps it never sends.
LEMMA SendingPending ==
    ASSUME IInv, NEW t \in Texts, sending = t
    PROVE  /\ t \in batch /\ row[t] = "pending" /\ t \notin reaped
           /\ attempts[t] < MaxAttempts
BY NothingFresh DEF IInv, TypeOK, Finished, RowsSound, BatchPending

LEMMA EnqueueOK == ASSUME IInv, NEW t \in Texts, Enqueue(t) PROVE IInv'
<1>1. Cardinality({u \in Texts : id[u] > 0}) + 1 \in 0 .. Cardinality(Texts)
    BY NextId DEF IInv, Enqueue
<1>2. Cardinality({u \in Texts : id[u] > 0}) \in Nat
    BY TextsFinite, FS_Subset, FS_CardinalityType
<1>3. row[t] = "none" /\ attempts[t] = 0
    BY DEF IInv, RowsSound, Enqueue
<1> DEFINE k == Cardinality({u \in Texts : id[u] > 0}) + 1
<1>4. id' = [id EXCEPT ![t] = k] /\ k \in 0 .. Cardinality(Texts) /\ k # 0
    BY <1>1, <1>2 DEF Enqueue
<1> HIDE DEF k
<1>5. TypeOK'
    BY <1>3, <1>4 DEF Enqueue, IInv, TypeOK, Finished
<1>6. RowsSound'
    BY <1>3, <1>4, AttemptsPos DEF Enqueue, IInv, TypeOK, RowsSound
<1>7. BatchPending'
    BY DEF Enqueue, IInv, TypeOK, BatchPending
<1>8. AcceptedKnown' /\ CallsKnown'
    BY <1>3 DEF Enqueue, IInv, TypeOK, AcceptedKnown, CallsKnown
<1> QED
    BY <1>5, <1>6, <1>7, <1>8 DEF IInv

LEMMA TimeOK == ASSUME IInv, NEW t \in Texts, BackoffEnds(t) \/ Age(t) PROVE IInv'
BY DEF BackoffEnds, Age, IInv, TypeOK, Finished, RowsSound, BatchPending, AcceptedKnown,
       CallsKnown

LEMMA StartDrainOK == ASSUME IInv, StartDrain, sending = Nothing PROVE IInv'
<1>1. Oldest(Sendable) \subseteq Sendable /\ Reapable \subseteq Finished
    BY DEF Oldest, Reapable
<1> QED
    BY <1>1 DEF StartDrain, Sendable, IInv, TypeOK, Finished, RowsSound, BatchPending,
                AcceptedKnown, CallsKnown

LEMMA SendOK == ASSUME IInv, NEW t \in Texts, Send(t) PROVE IInv'
<1>1. t \in batch /\ row[t] = "pending" /\ sending = Nothing /\ sending' = t
    BY DEF Send, Front, IInv, BatchPending
<1>2. /\ calls' = [calls EXCEPT ![t] = @ + 1]
      /\ UNCHANGED <<row, id, attempts, lastError, due, old, batch, reaped, draining>>
    BY DEF Send
<1>3. \/ answer' = "ok" /\ accepted' = [accepted EXCEPT ![t] = @ + 1]
            /\ UNCHANGED <<lost, unrecorded>>
      \/ answer' \in {"transient", "permanent"} /\ UNCHANGED <<accepted, lost, unrecorded>>
      \/ /\ lost < MaxLost /\ answer' = "transient" /\ lost' = lost + 1
         /\ accepted' = [accepted EXCEPT ![t] = @ + 1]
         /\ unrecorded' = [unrecorded EXCEPT ![t] = @ + 1]
    BY DEF Send
<1>4. TypeOK'
    BY <1>1, <1>2, <1>3, MaxLostNat DEF IInv, TypeOK, Finished, Answers
<1>5. RowsSound' /\ BatchPending'
    BY <1>2 DEF IInv, RowsSound, BatchPending
<1>6. AcceptedKnown'
    BY <1>1, <1>2, <1>3, NothingFresh DEF IInv, TypeOK, AcceptedKnown
<1>7. CallsKnown'
    BY <1>1, <1>2, <1>3, NothingFresh DEF IInv, TypeOK, CallsKnown
<1> QED
    BY <1>4, <1>5, <1>6, <1>7 DEF IInv

LEMMA RecordOK == ASSUME IInv, NEW t \in Texts, Record(t) PROVE IInv'
<1>1. t \in batch /\ row[t] = "pending" /\ t \notin reaped /\ sending = t
        /\ attempts[t] < MaxAttempts
    BY SendingPending DEF Record
<1>2. /\ attempts' = [attempts EXCEPT ![t] = @ + 1]
      /\ lastError' = [lastError EXCEPT ![t] = IF answer = "ok" THEN "none" ELSE answer]
      /\ batch' = batch \ {t} /\ reaped' = {} /\ sending' = Nothing /\ answer' = "none"
      /\ UNCHANGED <<id, old, draining, calls, accepted, lost, unrecorded>>
      /\ due' \subseteq due \cup {t}
    BY DEF Record
<1>3. PICK s \in {"pending", "sent", "failed"} :
          /\ row' = [u \in Texts |-> IF u \in reaped THEN "gone"
                                     ELSE IF u = t THEN s ELSE row[u]]
          /\ answer = "ok" <=> s = "sent"
          /\ s = "pending" => attempts[t] + 1 < MaxAttempts
    BY <1>1 DEF Record, Commit, IInv, TypeOK
<1>4. attempts[t] + 1 \in 0 .. MaxAttempts /\ attempts[t] \in Nat
    BY <1>1, AttemptsPos DEF IInv, TypeOK
<1>5. TypeOK'
    BY <1>1, <1>2, <1>3, <1>4 DEF IInv, TypeOK, Finished, Answers, Errors
<1>6. RowsSound'
    BY <1>1, <1>2, <1>3, <1>4 DEF IInv, TypeOK, Finished, RowsSound
<1>7. BatchPending'
    BY <1>1, <1>2, <1>3 DEF IInv, TypeOK, Finished, BatchPending
<1>8. AcceptedKnown'
    BY <1>1, <1>2, <1>3 DEF IInv, TypeOK, Finished, AcceptedKnown
<1>9. CallsKnown'
    BY <1>1, <1>2, <1>4, NothingFresh DEF IInv, TypeOK, CallsKnown
<1> QED
    BY <1>5, <1>6, <1>7, <1>8, <1>9 DEF IInv

LEMMA EndDrainOK == ASSUME IInv, EndDrain PROVE IInv'
<1>1. sending = Nothing
    BY DEF EndDrain, IInv, TypeOK
<1>2. /\ row' = [t \in Texts |-> IF t \in reaped THEN "gone" ELSE row[t]]
      /\ batch = {} /\ reaped' = {} /\ draining' = FALSE
      /\ UNCHANGED <<id, attempts, lastError, due, old, batch, sending, answer, calls,
                     accepted, lost, unrecorded>>
    BY DEF EndDrain, Commit
<1>3. TypeOK'
    BY <1>1, <1>2 DEF IInv, TypeOK, Finished
<1>4. RowsSound' /\ BatchPending'
    BY <1>2 DEF IInv, TypeOK, Finished, RowsSound, BatchPending
<1>5. AcceptedKnown'
    BY <1>1, <1>2 DEF IInv, TypeOK, Finished, AcceptedKnown
<1>6. CallsKnown'
    BY <1>1, <1>2 DEF IInv, CallsKnown
<1> QED
    BY <1>3, <1>4, <1>5, <1>6 DEF IInv

LEMMA CrashOK == ASSUME IInv, Crash PROVE IInv'
<1>1. /\ lost' = lost + 1 /\ lost < MaxLost
      /\ unrecorded' = [t \in Texts |-> IF t = sending THEN unrecorded[t] + 1
                                                       ELSE unrecorded[t]]
      /\ batch' = {} /\ reaped' = {} /\ sending' = Nothing /\ answer' = "none"
      /\ UNCHANGED <<row, id, attempts, lastError, due, old, calls, accepted>>
    BY DEF Crash
<1>2. TypeOK'
    <2>1. draining' \in BOOLEAN
        BY DEF Crash
    <2>2. lost' \in 0 .. MaxLost
        BY <1>1, MaxLostNat DEF IInv, TypeOK
    <2>3. unrecorded' \in [Texts -> Nat]
        BY <1>1 DEF IInv, TypeOK
    <2> QED
        BY <1>1, <2>1, <2>2, <2>3 DEF IInv, TypeOK, Finished, Answers
<1>3. RowsSound' /\ BatchPending'
    BY <1>1 DEF IInv, RowsSound, BatchPending
<1>4. AcceptedKnown'
    BY <1>1, NothingFresh DEF IInv, TypeOK, AcceptedKnown
<1>5. CallsKnown'
    BY <1>1, NothingFresh DEF IInv, TypeOK, CallsKnown
<1> QED
    BY <1>2, <1>3, <1>4, <1>5 DEF IInv

\* A call is under way only while the drain runs.
Awake == ~draining => sending = Nothing

LEMMA StepOK == ASSUME IInv, Awake, [Next]_vars PROVE IInv' /\ Awake'
<1>1. CASE Next
    <2>1. CASE \E t \in Texts : Enqueue(t) \/ BackoffEnds(t) \/ Age(t)
        BY <2>1, EnqueueOK, TimeOK DEF Awake, Enqueue, BackoffEnds, Age
    <2>2. CASE StartDrain
        BY <2>2, StartDrainOK DEF Awake, StartDrain
    <2>3. CASE EndDrain
        BY <2>3, EndDrainOK DEF Awake, EndDrain, IInv, TypeOK
    <2>4. CASE \E t \in Texts : Send(t) \/ Record(t)
        <3>1. ASSUME NEW t \in Texts, Send(t) PROVE IInv' /\ Awake'
            <4>1. draining /\ UNCHANGED draining
                BY <3>1 DEF Send
            <4> QED
                BY <3>1, <4>1, SendOK DEF Awake
        <3>2. ASSUME NEW t \in Texts, Record(t) PROVE IInv' /\ Awake'
            <4>1. sending' = Nothing
                BY <3>2 DEF Record
            <4> QED
                BY <3>2, <4>1, RecordOK DEF Awake
        <3> QED
            BY <2>4, <3>1, <3>2
    <2>5. CASE Crash
        BY <2>5, CrashOK DEF Awake, Crash
    <2> QED
        BY <1>1, <2>1, <2>2, <2>3, <2>4, <2>5 DEF Next, Drain
<1>2. CASE UNCHANGED vars
    BY <1>2 DEF vars, Awake, IInv, TypeOK, Finished, RowsSound, BatchPending,
                AcceptedKnown, CallsKnown
<1> QED
    BY <1>1, <1>2

OutboxInv == IInv /\ Awake

LEMMA OutboxInitInv == Init => OutboxInv
BY InitOK DEF Init, Awake, OutboxInv

LEMMA OutboxStep == OutboxInv /\ [Next]_vars => OutboxInv'
BY StepOK DEF OutboxInv

\* The drain, its batch and the attempts it has recorded fit together at every moment of every
\* behaviour (_drain, its retries and the sweep of finished rows).
THEOREM OutboxInductive == Spec => []OutboxInv
BY OutboxInitInv, OutboxStep, PTL DEF Spec

\* A duplicate is owed to an outcome that was never recorded, one for each, and
\* only such outcomes buy a text more calls than the limit (_drain, MAX_ATTEMPTS).
THEOREM LossesAlwaysAccounted == Spec => []LossesAccounted
<1>1. OutboxInv => LossesAccounted
    <2> SUFFICES ASSUME IInv, NEW t \in Texts
                 PROVE  /\ accepted[t] <= 1 + unrecorded[t]
                        /\ calls[t] <= MaxAttempts + unrecorded[t]
        BY DEF OutboxInv, LossesAccounted, OneDuplicatePerLoss, CallsBounded
    <2>1. attempts[t] <= MaxAttempts /\ (sending = t => attempts[t] < MaxAttempts)
        BY SendingPending, AttemptsPos DEF IInv, TypeOK
    <2> QED
        BY <2>1, AttemptsPos DEF IInv, TypeOK, AcceptedKnown, CallsKnown
<1> QED
    BY <1>1, OutboxInductive, PTL

-----------------------------------------------------------------------------
(*****************************************************************************)
(* SosCalls.                                                                 *)
(*                                                                           *)
(* Calls for help, for any staff, screens and number of calls. The           *)
(* invariant says what a press and the escalation have read: a press that    *)
(* found no live call of hers overlooks only later ones, and the calls the   *)
(* cron has picked are open still unless its run is lost.                    *)
(*****************************************************************************)

LEMMA SeqOver ==
    ASSUME NEW S, NEW n \in Nat, NEW f \in [1..n -> S]
    PROVE  f \in Seq(S) /\ Len(f) = n /\ DOMAIN f = 1..n
OBVIOUS

\* An open call has no responder.
OpenUntouched == \A i \in DOMAIN alarms : alarms[i].state = "open" => alarms[i].by = Anybody

\* A tap is on a call there is.
TapsStand == \A s \in Screens : sent[s].op \in {"ack", "resolve"} => sent[s].id \in DOMAIN alarms

\* A press that found no live call of hers overlooks only calls made since it began.
PressesSee ==
    \A s \in Screens :
        /\ known[s].count <= Len(alarms)
        /\ sent[s].op = "raise" /\ known[s].live = 0 =>
              \A i \in DOMAIN alarms :
                  /\ alarms[i].caller = sent[s].who /\ alarms[i].about = sent[s].about
                  /\ alarms[i].state # "resolved"
                  => known[s].count < i

\* The calls the cron has picked are open still, unless the run is lost.
SweepStands ==
    /\ sweep \subseteq DOMAIN alarms
    /\ ~torn => \A i \in sweep : alarms[i].state = "open"

SosInv ==
    /\ SosTypeOK
    /\ OpenUntouched
    /\ TapsStand
    /\ PressesSee
    /\ SweepStands
    /\ DuplicateCallNeedsOverlap

LEMMA SosInitInv == SosInit => SosInv
<1> SUFFICES ASSUME SosInit PROVE SosInv
    OBVIOUS
<1>1. alarms \in Seq(Call) /\ Len(alarms) = 0 /\ DOMAIN alarms = {}
    BY DEF SosInit
<1>2. SosTypeOK
    <2>1. [live |-> 0, count |-> 0] \in [live : 0..MaxCalls, count : 0..MaxCalls]
            /\ Len(alarms) <= MaxCalls
        BY <1>1, MaxCallsBound
    <2>2. /\ sent \in [Screens -> Raises \cup Acks \cup {Idle}]
          /\ passed \in [Screens -> BOOLEAN] /\ sweep \subseteq CallIds /\ torn \in BOOLEAN
        BY DEF SosInit
    <2>3. known \in [Screens -> [live : 0..MaxCalls, count : 0..MaxCalls]]
        BY <2>1 DEF SosInit
    <2> QED
        BY <1>1, <2>1, <2>2, <2>3 DEF SosTypeOK
<1> QED
    BY <1>1, <1>2 DEF SosInit, SosInv, OpenUntouched, TapsStand, PressesSee, SweepStands,
       DuplicateCallNeedsOverlap, Idle

LEMMA AlarmTypes ==
    ASSUME SosInv
    PROVE  /\ alarms \in [1..Len(alarms) -> Call] /\ Len(alarms) \in Nat /\ Len(alarms) <= MaxCalls
           /\ DOMAIN alarms = 1..Len(alarms) /\ DOMAIN alarms \subseteq CallIds
BY MaxCallsBound DEF SosInv, SosTypeOK, CallIds

\* Requests come to an end; calls are neither raised nor changed.
LEMMA SameAlarms ==
    ASSUME SosInv, UNCHANGED alarms
    PROVE  OpenUntouched' /\ DuplicateCallNeedsOverlap'
BY DEF SosInv, OpenUntouched, DuplicateCallNeedsOverlap

\* Calls are only taken further: their caller and cause stay, a resolved one stays so, and
\* none is open that was not.
Further ==
    /\ alarms' \in [1..Len(alarms) -> Call]
    /\ \A i \in DOMAIN alarms :
          /\ alarms'[i].caller = alarms[i].caller /\ alarms'[i].about = alarms[i].about
          /\ alarms'[i].after = alarms[i].after
          /\ alarms[i].state = "resolved" => alarms'[i].state = "resolved"
          /\ alarms'[i].state = "open" => alarms[i].state = "open" /\ alarms'[i].by = alarms[i].by

\* ...and each request stays or ends.
Ends ==
    /\ sent'  \in [Screens -> Raises \cup Acks \cup {Idle}]
    /\ known' \in [Screens -> [live : 0..MaxCalls, count : 0..MaxCalls]]
    /\ \A s \in Screens : \/ sent'[s] = sent[s] /\ known'[s] = known[s]
                          \/ sent'[s] = Idle /\ known'[s] = [live |-> 0, count |-> 0]

LEMMA FurtherStep ==
    ASSUME SosInv, Further, Ends
    PROVE  /\ alarms' \in Seq(Call) /\ Len(alarms') = Len(alarms)
           /\ DOMAIN alarms' = DOMAIN alarms
           /\ OpenUntouched' /\ TapsStand' /\ PressesSee' /\ DuplicateCallNeedsOverlap'
<1>1. alarms' \in Seq(Call) /\ Len(alarms') = Len(alarms) /\ DOMAIN alarms' = DOMAIN alarms
    BY AlarmTypes, SeqOver DEF Further
<1>2. OpenUntouched'
    BY <1>1 DEF SosInv, OpenUntouched, Further
<1>3. TapsStand'
    <2>1. Idle.op = "none"
        BY DEF Idle
    <2>2. \A s \in Screens : sent'[s] = sent[s] \/ sent'[s] = Idle
        BY DEF Ends
    <2> QED
        BY <1>1, <2>1, <2>2 DEF SosInv, TapsStand
<1>4. PressesSee'
    <2> SUFFICES ASSUME NEW s \in Screens
                 PROVE  /\ known'[s].count <= Len(alarms')
                        /\ sent'[s].op = "raise" /\ known'[s].live = 0 =>
                              \A i \in DOMAIN alarms' :
                                  /\ alarms'[i].caller = sent'[s].who
                                  /\ alarms'[i].about = sent'[s].about
                                  /\ alarms'[i].state # "resolved"
                                  => known'[s].count < i
        BY DEF PressesSee
    <2>1. CASE sent'[s] = sent[s] /\ known'[s] = known[s]
        BY <1>1, <2>1 DEF SosInv, PressesSee, Further
    <2>2. CASE sent'[s] = Idle /\ known'[s] = [live |-> 0, count |-> 0]
        BY <1>1, <2>2, AlarmTypes DEF Idle
    <2> QED
        BY <2>1, <2>2 DEF Ends
<1>5. DuplicateCallNeedsOverlap'
    BY <1>1 DEF SosInv, DuplicateCallNeedsOverlap, Further
<1> QED
    BY <1>1, <1>2, <1>3, <1>4, <1>5

LEMMA DoneEnds ==
    ASSUME SosInv, NEW s \in Screens, Done(s)
    PROVE  Ends /\ sent'[s] = Idle /\ \A t \in Screens \ {s} : sent'[t] = sent[t]
<1>1. [live |-> 0, count |-> 0] \in [live : 0..MaxCalls, count : 0..MaxCalls]
    BY MaxCallsBound
<1> QED
    BY <1>1 DEF Done, Ends, SosInv, SosTypeOK

LEMMA PressStep == ASSUME SosInv, NEW s \in Screens, Press(s) PROVE SosInv'
<1>a. PICK q \in Raises :
        /\ sent' = [sent EXCEPT ![s] = q]
        /\ \E i \in Live(q.who, q.about) \cup {0} :
              /\ i = 0 => Live(q.who, q.about) = {}
              /\ known' = [known EXCEPT ![s] = [live |-> i, count |-> Len(alarms)]]
    BY DEF Press
<1>1. PICK i \in Live(q.who, q.about) \cup {0} :
        /\ sent' = [sent EXCEPT ![s] = q]
        /\ i = 0 => Live(q.who, q.about) = {}
        /\ known' = [known EXCEPT ![s] = [live |-> i, count |-> Len(alarms)]]
    BY <1>a
<1>2. UNCHANGED <<alarms, passed, sweep, torn>>
    BY DEF Press
<1>3. i \in 0..MaxCalls /\ Len(alarms) \in 0..MaxCalls
    BY AlarmTypes, MaxCallsBound DEF Live, CallIds
<1>4. SosTypeOK'
    BY <1>1, <1>2, <1>3 DEF SosInv, SosTypeOK
<1>5. TapsStand'
    BY <1>1, <1>2 DEF SosInv, SosTypeOK, TapsStand, Raises
<1>6. PressesSee'
    <2> SUFFICES ASSUME NEW t \in Screens
                 PROVE  /\ known'[t].count <= Len(alarms)
                        /\ sent'[t].op = "raise" /\ known'[t].live = 0 =>
                              \A j \in DOMAIN alarms :
                                  /\ alarms[j].caller = sent'[t].who
                                  /\ alarms[j].about = sent'[t].about
                                  /\ alarms[j].state # "resolved"
                                  => known'[t].count < j
        BY <1>2 DEF PressesSee
    <2>1. CASE t # s
        BY <1>1, <2>1 DEF SosInv, SosTypeOK, PressesSee
    <2>2. CASE t = s
        <3>1. sent'[s] = q /\ known'[s] = [live |-> i, count |-> Len(alarms)]
            BY <1>1 DEF SosInv, SosTypeOK
        <3> QED
            BY <1>1, <2>2, <3>1, AlarmTypes DEF Live
    <2> QED
        BY <2>1, <2>2
<1> QED
    BY <1>2, <1>4, <1>5, <1>6, SameAlarms DEF SosInv, SweepStands

LEMMA RaiseStep == ASSUME SosInv, NEW s \in Screens, Raise(s) PROVE SosInv'
<1>1. Done(s) /\ UNCHANGED <<passed, sweep, torn>> /\ sent[s] \in Raises
        /\ known[s].count \in 0..MaxCalls
    BY DEF Raise, SosInv, SosTypeOK, Raises, Acks, Idle
<1>2. Ends
    BY <1>1, DoneEnds
<1>3. CASE UNCHANGED alarms
    <2>1. Further
        BY <1>3, AlarmTypes DEF Further
    <2> QED
        BY <1>1, <1>2, <1>3, <2>1, FurtherStep DEF SosInv, SosTypeOK, Ends, SweepStands
<1>4. CASE known[s].live = 0 /\ Len(alarms) < MaxCalls /\ alarms' # alarms
    <2> DEFINE n == Len(alarms) + 1
               r == [caller |-> sent[s].who, about |-> sent[s].about, target |-> sent[s].target,
                     state |-> "open", by |-> Anybody, old |-> FALSE, escalated |-> FALSE,
                     after |-> known[s].count]
    <2>1. alarms' = Append(alarms, r)
        BY <1>4 DEF Raise
    <2>2. r \in Call
        BY <1>1, ChiefsInCrew DEF Raises, Call
    <2>3. /\ r.caller = sent[s].who /\ r.about = sent[s].about /\ r.after = known[s].count
          /\ r.by = Anybody /\ r.state = "open"
        OBVIOUS
    <2> HIDE DEF r
    <2>4. /\ alarms' \in Seq(Call) /\ Len(alarms') = n /\ DOMAIN alarms' = DOMAIN alarms \cup {n}
          /\ alarms'[n] = r /\ \A i \in DOMAIN alarms : alarms'[i] = alarms[i] /\ i < n
        BY <2>1, <2>2, AlarmTypes
    <2>5. SosTypeOK'
        BY <1>1, <1>2, <1>4, <2>4, AlarmTypes, MaxCallsBound DEF SosInv, SosTypeOK, Ends
    <2>6. OpenUntouched'
        BY <2>3, <2>4 DEF SosInv, OpenUntouched
    <2>7. TapsStand'
        BY <1>2, <2>4 DEF SosInv, TapsStand, Ends, Idle
    <2>8. PressesSee'
        <3> SUFFICES ASSUME NEW t \in Screens
                     PROVE  /\ known'[t].count <= Len(alarms')
                            /\ sent'[t].op = "raise" /\ known'[t].live = 0 =>
                                  \A j \in DOMAIN alarms' :
                                      /\ alarms'[j].caller = sent'[t].who
                                      /\ alarms'[j].about = sent'[t].about
                                      /\ alarms'[j].state # "resolved"
                                      => known'[t].count < j
            BY DEF PressesSee
        <3>1. known[t].count \in Nat /\ known[t].count <= Len(alarms)
            BY MaxCallsBound DEF SosInv, SosTypeOK, PressesSee
        <3>2. CASE sent'[t] = sent[t] /\ known'[t] = known[t]
            BY <2>4, <3>1, <3>2, AlarmTypes DEF SosInv, PressesSee
        <3>3. CASE sent'[t] = Idle /\ known'[t] = [live |-> 0, count |-> 0]
            BY <2>4, <3>3, AlarmTypes DEF Idle
        <3> QED
            BY <1>2, <3>2, <3>3 DEF Ends
    <2>9. SweepStands'
        BY <1>1, <2>4 DEF SosInv, SweepStands
    <2>10. DuplicateCallNeedsOverlap'
        <3> SUFFICES ASSUME NEW i \in DOMAIN alarms', NEW j \in DOMAIN alarms', i < j,
                            alarms'[i].caller = alarms'[j].caller,
                            alarms'[i].about = alarms'[j].about,
                            alarms'[i].state # "resolved", alarms'[j].state # "resolved"
                     PROVE  alarms'[j].after < i
            BY DEF DuplicateCallNeedsOverlap
        <3>1. i \in DOMAIN alarms
            BY <2>4, AlarmTypes
        <3>2. CASE j = n
            BY <1>4, <2>3, <2>4, <3>1, <3>2 DEF SosInv, PressesSee, Raise
        <3>3. CASE j # n
            BY <2>4, <3>1, <3>3 DEF SosInv, DuplicateCallNeedsOverlap
        <3> QED
            BY <3>2, <3>3
    <2> QED
        BY <2>5, <2>6, <2>7, <2>8, <2>9, <2>10 DEF SosInv
<1> QED
    BY <1>3, <1>4 DEF Raise

LEMMA TapStep == ASSUME SosInv, NEW s \in Screens, Tap(s) PROVE SosInv'
<1>1. PICK q \in Acks : q.id \in DOMAIN alarms /\ sent' = [sent EXCEPT ![s] = q]
    BY DEF Tap
<1>2. UNCHANGED <<alarms, known, passed, sweep, torn>>
    BY DEF Tap
<1>3. q.op # "raise"
    BY DEF Acks
<1>4. SosTypeOK' /\ TapsStand'
    BY <1>1, <1>2 DEF SosInv, SosTypeOK, TapsStand
<1>5. PressesSee'
    BY <1>1, <1>2, <1>3 DEF SosInv, SosTypeOK, PressesSee
<1> QED
    BY <1>2, <1>4, <1>5, SameAlarms DEF SosInv, SweepStands

\* What an answer does to the call it is about.
LEMMA Changed ==
    ASSUME SosInv, NEW s \in Screens, Answer(s)
    PROVE  /\ sent[s].id \in DOMAIN alarms
           /\ \A i \in DOMAIN alarms \ {sent[s].id} : alarms'[i] = alarms[i]
           /\ \/ alarms' = alarms
              \/ LET a == alarms[sent[s].id]
                     b == alarms'[sent[s].id] IN
                 /\ a \in Call /\ b \in Call /\ alarms' # alarms
                 /\ alarms' \in [1..Len(alarms) -> Call]
                 /\ \/ a.state = "open" /\ b = [a EXCEPT !.state = "acked", !.by = sent[s].who]
                    \/ a.state # "resolved" /\ b = [a EXCEPT !.state = "resolved"]
<1> DEFINE q == sent[s]
           k == q.id
           a == alarms[k]
           acked == [a EXCEPT !.state = "acked", !.by = q.who]
           resolved == [a EXCEPT !.state = "resolved"]
<1>1. q.op \in {"ack", "resolve"} /\ k \in DOMAIN alarms /\ alarms' = Change(q) /\ a \in Call
    BY AlarmTypes DEF Answer, SosInv, TapsStand
<1>2. q.op = "ack" => q.who \in Crew
    BY DEF SosInv, SosTypeOK, Raises, Acks, Idle
<1>3. (q.op = "ack" => acked \in Call) /\ resolved \in Call
    BY <1>1, <1>2 DEF Call
<1>4. \/ alarms' = alarms
      \/ q.op = "ack" /\ a.state = "open" /\ alarms' = [alarms EXCEPT ![k] = acked]
      \/ q.op = "resolve" /\ a.state # "resolved" /\ alarms' = [alarms EXCEPT ![k] = resolved]
    BY <1>1 DEF Change
<1> HIDE DEF acked, resolved
<1>5. CASE alarms' = alarms
    BY <1>1, <1>5
<1>6. CASE alarms' # alarms /\ q.op = "ack" /\ a.state = "open"
                /\ alarms' = [alarms EXCEPT ![k] = acked]
    <2>1. alarms' \in [1..Len(alarms) -> Call] /\ alarms'[k] = acked
            /\ \A i \in DOMAIN alarms \ {k} : alarms'[i] = alarms[i]
        BY <1>1, <1>3, <1>6, AlarmTypes
    <2> QED
        BY <1>1, <1>3, <1>6, <2>1 DEF acked
<1>7. CASE alarms' # alarms /\ q.op = "resolve" /\ a.state # "resolved"
                /\ alarms' = [alarms EXCEPT ![k] = resolved]
    <2>1. alarms' \in [1..Len(alarms) -> Call] /\ alarms'[k] = resolved
            /\ \A i \in DOMAIN alarms \ {k} : alarms'[i] = alarms[i]
        BY <1>1, <1>3, <1>7, AlarmTypes
    <2> QED
        BY <1>1, <1>3, <1>7, <2>1 DEF resolved
<1> QED
    BY <1>4, <1>5, <1>6, <1>7

LEMMA AnswerStep == ASSUME SosInv, NEW s \in Screens, Answer(s) PROVE SosInv'
<1> DEFINE k == sent[s].id
<1>1. Done(s) /\ UNCHANGED sweep
        /\ IF alarms' = alarms THEN UNCHANGED <<passed, torn>>
           ELSE /\ passed' = [t \in Screens |-> t # s /\ (passed[t] \/ sent[t].id = k)]
                /\ torn' = (torn \/ k \in sweep)
    BY DEF Answer
<1>2. Ends
    BY <1>1, DoneEnds
<1>3. Further
    <2>1. CASE alarms' = alarms
        BY <2>1, AlarmTypes DEF Further
    <2>2. CASE alarms' # alarms
        <3>1. /\ alarms[k] \in Call /\ alarms' \in [1..Len(alarms) -> Call]
              /\ \/ alarms[k].state = "open"
                      /\ alarms'[k] = [alarms[k] EXCEPT !.state = "acked", !.by = sent[s].who]
                 \/ alarms[k].state # "resolved"
                      /\ alarms'[k] = [alarms[k] EXCEPT !.state = "resolved"]
            BY <2>2, Changed
        <3>2. /\ alarms'[k].caller = alarms[k].caller /\ alarms'[k].about = alarms[k].about
              /\ alarms'[k].after = alarms[k].after
              /\ alarms[k].state # "resolved" /\ alarms'[k].state # "open"
            BY <3>1 DEF Call
        <3> QED
            BY <3>1, <3>2, Changed DEF Further
    <2> QED
        BY <2>1, <2>2
<1>4. passed' \in [Screens -> BOOLEAN] /\ torn' \in BOOLEAN
    BY <1>1 DEF SosInv, SosTypeOK
<1>5. SweepStands'
    BY <1>1, <1>2, <1>3, FurtherStep, Changed DEF SosInv, SweepStands
<1> QED
    BY <1>1, <1>2, <1>3, <1>4, <1>5, FurtherStep DEF SosInv, SosTypeOK, Ends

LEMMA AnswerAgainStep == ASSUME SosInv, NEW s \in Screens, AnswerAgain(s) PROVE SosInv'
BY SameAlarms DEF AnswerAgain, SosInv, SosTypeOK, TapsStand, PressesSee, SweepStands

LEMMA HalfAMinuteStep ==
    ASSUME SosInv, NEW i \in DOMAIN alarms, HalfAMinute(i) PROVE SosInv'
<1> DEFINE r == [alarms[i] EXCEPT !.old = TRUE]
<1>1. alarms' = [alarms EXCEPT ![i] = r] /\ alarms[i] \in Call
        /\ UNCHANGED <<sent, known, passed, sweep, torn>>
    BY AlarmTypes DEF HalfAMinute
<1>2. r \in Call
    BY <1>1 DEF Call
<1>3. /\ r.caller = alarms[i].caller /\ r.about = alarms[i].about /\ r.after = alarms[i].after
      /\ r.state = alarms[i].state /\ r.by = alarms[i].by
    BY <1>1 DEF Call
<1> HIDE DEF r
<1>4. alarms' \in [1..Len(alarms) -> Call]
        /\ \A j \in DOMAIN alarms : alarms'[j] = IF j = i THEN r ELSE alarms[j]
    BY <1>1, <1>2, AlarmTypes
<1>5. Further
    BY <1>3, <1>4 DEF Further
<1>6. Ends
    BY <1>1 DEF Ends, SosInv, SosTypeOK
<1>7. SweepStands'
    BY <1>1, <1>3, <1>4, <1>5, <1>6, FurtherStep DEF SosInv, SweepStands
<1> QED
    BY <1>1, <1>5, <1>6, <1>7, FurtherStep DEF SosInv, SosTypeOK

LEMMA CronReadsStep == ASSUME SosInv, CronReads PROVE SosInv'
<1>1. sweep' = Stale /\ UNCHANGED <<alarms, sent, known, passed, torn>>
    BY DEF CronReads
<1>2. Stale \subseteq DOMAIN alarms /\ \A i \in Stale : alarms[i].state = "open"
    BY DEF Stale
<1> QED
    BY <1>1, <1>2, SameAlarms, AlarmTypes DEF SosInv, SosTypeOK, TapsStand, PressesSee, SweepStands

\* What the cron writes: the calls it picked, which are open, go to the managers.
LEMMA CronWrote ==
    ASSUME SosInv, CronWrites, NEW i \in DOMAIN alarms
    PROVE  /\ i \notin sweep => alarms'[i] = alarms[i]
           /\ i \in sweep => /\ alarms[i].state = "open"
                             /\ alarms'[i].state = "open" /\ alarms'[i].by = alarms[i].by
           /\ alarms'[i] \in Call
           /\ alarms'[i].caller = alarms[i].caller /\ alarms'[i].about = alarms[i].about
           /\ alarms'[i].after = alarms[i].after
           /\ alarms'[i].state = alarms[i].state
<1>1. alarms[i] \in Call
    BY AlarmTypes
<1>2. CASE i \notin sweep
    BY <1>1, <1>2 DEF CronWrites
<1>3. CASE i \in sweep
    <2>1. alarms'[i] = [alarms[i] EXCEPT !.escalated = TRUE, !.target = Anybody]
        BY <1>3 DEF CronWrites
    <2>2. alarms[i].state = "open"
        BY <1>3 DEF CronWrites, SosInv, SweepStands
    <2> QED
        BY <1>1, <1>3, <2>1, <2>2 DEF Call
<1> QED
    BY <1>2, <1>3

LEMMA CronWritesStep == ASSUME SosInv, CronWrites PROVE SosInv'
<1>1. /\ passed' = [s \in Screens |-> passed[s] \/ sent[s].id \in sweep]
      /\ sweep' = {} /\ UNCHANGED <<sent, known, torn>>
      /\ alarms' = [i \in DOMAIN alarms |-> alarms'[i]]
    BY DEF CronWrites
<1>2. Further
    BY <1>1, CronWrote, AlarmTypes DEF Further
<1>3. Ends
    BY <1>1 DEF Ends, SosInv, SosTypeOK
<1>4. passed' \in [Screens -> BOOLEAN]
    BY <1>1
<1> QED
    BY <1>1, <1>2, <1>3, <1>4, FurtherStep DEF SosInv, SosTypeOK, SweepStands

LEMMA CronFailsStep == ASSUME SosInv, CronFails PROVE SosInv'
BY SameAlarms DEF CronFails, SosInv, SosTypeOK, TapsStand, PressesSee, SweepStands

LEMMA SosStep == SosInv /\ [SosNext]_sosVars => SosInv'
<1> SUFFICES ASSUME SosInv, [SosNext]_sosVars PROVE SosInv'
    OBVIOUS
<1>1. CASE UNCHANGED sosVars
    BY <1>1, SameAlarms DEF sosVars, SosInv, SosTypeOK, TapsStand, PressesSee, SweepStands
<1>2. CASE \E s \in Screens : Press(s) \/ Raise(s) \/ Tap(s) \/ Answer(s) \/ AnswerAgain(s)
    BY <1>2, PressStep, RaiseStep, TapStep, AnswerStep, AnswerAgainStep
<1>3. CASE \E i \in CallIds : i \in DOMAIN alarms /\ HalfAMinute(i)
    BY <1>3, HalfAMinuteStep
<1>4. CASE CronReads \/ CronWrites \/ CronFails
    BY <1>4, CronReadsStep, CronWritesStep, CronFailsStep
<1> QED
    BY <1>1, <1>2, <1>3, <1>4 DEF SosNext

\* What each step leaves of a call: who answered it, that it is resolved, and that one which
\* has been answered is not escalated.
LEMMA CallStands ==
    ASSUME SosInv, [SosNext]_sosVars, NEW i \in DOMAIN alarms
    PROVE  /\ alarms[i].by # Anybody => alarms'[i].by = alarms[i].by
           /\ alarms[i].state = "resolved" => alarms'[i].state = "resolved"
           /\ alarms'[i].escalated /\ ~alarms[i].escalated => alarms[i].state = "open"
<1>1. alarms[i] \in Call
    BY AlarmTypes
<1>2. ASSUME NEW s \in Screens, Raise(s), alarms' # alarms PROVE alarms'[i] = alarms[i]
    BY <1>2, AlarmTypes DEF Raise
<1>3. ASSUME NEW s \in Screens, Answer(s), alarms' # alarms
      PROVE  /\ alarms[i].by # Anybody => alarms'[i].by = alarms[i].by
             /\ alarms[i].state = "resolved" => alarms'[i].state = "resolved"
             /\ alarms'[i].escalated = alarms[i].escalated
    <2>1. CASE i # sent[s].id
        BY <1>3, <2>1, Changed
    <2>2. CASE i = sent[s].id
        <3>1. \/ alarms[i].state = "open"
                   /\ alarms'[i] = [alarms[i] EXCEPT !.state = "acked", !.by = sent[s].who]
              \/ alarms[i].state # "resolved"
                   /\ alarms'[i] = [alarms[i] EXCEPT !.state = "resolved"]
            BY <1>3, <2>2, Changed
        <3>2. alarms[i].state = "open" => alarms[i].by = Anybody
            BY DEF SosInv, OpenUntouched
        <3> QED
            BY <1>1, <3>1, <3>2 DEF Call
    <2> QED
        BY <2>1, <2>2
<1>4. ASSUME NEW k \in CallIds, k \in DOMAIN alarms, HalfAMinute(k)
      PROVE  /\ alarms'[i].by = alarms[i].by /\ alarms'[i].state = alarms[i].state
             /\ alarms'[i].escalated = alarms[i].escalated
    <2>1. alarms'[i] = IF i = k THEN [alarms[i] EXCEPT !.old = TRUE] ELSE alarms[i]
        BY <1>4, AlarmTypes DEF HalfAMinute
    <2> QED
        BY <1>1, <2>1 DEF Call
<1>5. CASE CronWrites
    BY <1>5, CronWrote
<1>6. CASE alarms' = alarms
    BY <1>6
<1> QED
    BY <1>2, <1>3, <1>4, <1>5, <1>6
       DEF SosNext, sosVars, Press, Tap, AnswerAgain, CronReads, CronFails

\* Calls for help, for any staff, screens and number of calls, under simultaneous answers,
\* double presses and an escalation that runs between: the first answer stands and a resolved
\* call stays resolved, no answered call is escalated, and one cry is two live calls only when
\* the second press began before the first call was there.
THEOREM AnswersAreKept == SosSpec => []SosTypeOK /\ AnswersStand
<1>1. SosInv /\ [SosNext]_sosVars =>
        [\A i \in DOMAIN alarms :
          /\ alarms[i].by # Anybody => alarms'[i].by = alarms[i].by
          /\ alarms[i].state = "resolved" => alarms'[i].state = "resolved"]_sosVars
    BY CallStands
<1>2. SosInv /\ [SosNext]_sosVars =>
        [\A i \in DOMAIN alarms :
          alarms'[i].escalated /\ ~alarms[i].escalated => alarms[i].state = "open"]_sosVars
    BY CallStands
<1>3. SosInv => SosTypeOK /\ DuplicateCallNeedsOverlap
    BY DEF SosInv
<1> QED
    BY SosInitInv, SosStep, <1>1, <1>2, <1>3, PTL
       DEF SosSpec, AnswersStand, FirstResponderWins, AnsweredNotEscalated

-----------------------------------------------------------------------------
(*****************************************************************************)
(* Reminders.                                                                *)
(*                                                                           *)
(* The daily reminders, for any fittings. The invariant counts: the texts    *)
(* of a fitting are those a rollback took back and the one that is stamped   *)
(* or will be when the run ends, and who has not been texted has lost        *)
(* every chance that is behind to a mishap or is still to be reached.        *)
(*****************************************************************************)

One(b) == IF b THEN 1 ELSE 0

\* Every text that was not taken back is stamped, or will be when the run ends.
TextsAreStamped ==
    /\ texts   \in [Fittings -> Nat]
    /\ spoilt  \in [Fittings -> Nat]
    /\ mishaps \in [Fittings -> 0..2]
    /\ taken \cap stamped = {}
    /\ \A f \in Fittings : texts[f] = spoilt[f] + One(f \in stamped \cup reached)

\* A run takes what is not cancelled; what is cancelled in its course has been written.
TakenStand == \A f \in taken : fitting[f] = "live" \/ f \in written

\* The chances of a fitting that are behind: two quarters, each over once its run has started.
Spent(f) == IF quarter < dayAhead[f] - 1 THEN 0
            ELSE IF quarter = dayAhead[f] - 1 THEN One(ran)
            ELSE IF quarter = dayAhead[f] THEN 1 + One(ran)
            ELSE 2

\* Who has not been texted either lost each chance that is behind to a mishap, or is still to
\* be reached by the run under way.
ChancesCounted ==
    \A f \in Fittings :
        fitting[f] = "live" /\ early[f] /\ texts[f] = 0
            => mishaps[f] + One(f \in unsent) >= Spent(f)

ReminderInv ==
    /\ ReminderTypeOK
    /\ TextsAreStamped
    /\ TakenStand
    /\ ChancesCounted

LEMMA ReminderInitInv == ReminderInit => ReminderInv
<1> SUFFICES ASSUME ReminderInit PROVE ReminderInv
    OBVIOUS
<1>1. ReminderTypeOK
    <2>1. dayAhead \in [Fittings -> 1..LastQuarter]
        <3>1. 1..(LastQuarter - 1) \subseteq 1..LastQuarter
            BY QuartersBound
        <3> QED
            BY <3>1 DEF ReminderInit
    <2>2. 0 \in 0..LastQuarter /\ 0 \in 0..MaxRollbacks /\ 0 \in 0..2
        BY QuartersBound, RollbacksBound
    <2> QED
        BY <2>1, <2>2 DEF ReminderInit, ReminderTypeOK
<1>2. TextsAreStamped /\ TakenStand /\ ChancesCounted
    BY DEF ReminderInit, TextsAreStamped, One, TakenStand, ChancesCounted
<1> QED
    BY <1>1, <1>2 DEF ReminderInv

\* Mishaps are counted up to two.
LEMMA LoseCounts ==
    ASSUME ReminderInv, NEW fs, Lose(fs)
    PROVE  /\ mishaps' \in [Fittings -> 0..2]
           /\ \A f \in Fittings : /\ mishaps'[f] >= mishaps[f]
                                  /\ f \in fs => mishaps'[f] = 2 \/ mishaps'[f] = mishaps[f] + 1
BY DEF Lose, ReminderInv, TextsAreStamped

LEMMA RunStartsStep == ASSUME ReminderInv, RunStarts PROVE ReminderInv'
<1>1. /\ ~ran /\ taken = {} /\ ran' = TRUE /\ taken' = Picks /\ unsent' = Picks
      /\ UNCHANGED <<quarter, dayAhead, fitting, early, stamped, reached, written, texts, spoilt,
                     mishaps, deaths>>
    BY DEF RunStarts
<1>2. Picks \subseteq Fittings /\ Picks \cap stamped = {} /\ reached = {} /\ written = {}
        /\ unsent = {}
    BY <1>1 DEF Picks, ReminderInv, ReminderTypeOK
<1>3. ReminderTypeOK'
    BY <1>1, <1>2 DEF ReminderInv, ReminderTypeOK
<1>4. TextsAreStamped' /\ TakenStand'
    BY <1>1, <1>2 DEF ReminderInv, TextsAreStamped, TakenStand, Picks
<1>5. ChancesCounted'
    <2> SUFFICES ASSUME NEW f \in Fittings, fitting[f] = "live", early[f], texts[f] = 0
                 PROVE  mishaps[f] + One(f \in Picks) >= Spent(f)'
        BY <1>1 DEF ChancesCounted
    <2>1. f \notin stamped
        BY DEF ReminderInv, TextsAreStamped, One
    <2>2. mishaps[f] \in 0..2 /\ mishaps[f] >= Spent(f)
        BY <1>2 DEF ReminderInv, TextsAreStamped, ChancesCounted, One
    <2>3. quarter \in Nat /\ dayAhead[f] \in Nat
        BY QuartersBound DEF ReminderInv, ReminderTypeOK
    <2>4. f \in Picks <=> quarter \in {dayAhead[f] - 1, dayAhead[f]}
        BY <2>1, <2>3 DEF Picks
    <2> QED
        BY <1>1, <2>2, <2>3, <2>4 DEF Spent, One
<1> QED
    BY <1>3, <1>4, <1>5 DEF ReminderInv

LEMMA TextOneStep == ASSUME ReminderInv, NEW f \in Fittings, TextOne(f) PROVE ReminderInv'
<1>1. /\ f \in unsent /\ unsent' = unsent \ {f} /\ f \in taken /\ f \notin stamped \cup reached
      /\ UNCHANGED <<quarter, dayAhead, fitting, early, stamped, ran, taken, written, spoilt, deaths>>
    BY DEF TextOne, ReminderInv, ReminderTypeOK, TextsAreStamped
<1>2. TakenStand'
    BY <1>1 DEF ReminderInv, TakenStand
<1>3. \A g \in Fittings : Spent(g)' = Spent(g)
    BY <1>1 DEF Spent
<1>4. \A g \in Fittings : /\ mishaps[g] \in 0..2 /\ texts[g] \in Nat /\ spoilt[g] \in Nat
                          /\ Spent(g) \in 0..2
    BY DEF ReminderInv, TextsAreStamped, Spent, One
<1>5. CASE texts' = [texts EXCEPT ![f] = @ + 1] /\ reached' = reached \cup {f} /\ UNCHANGED mishaps
    <2>1. texts' \in [Fittings -> Nat]
            /\ \A g \in Fittings : texts'[g] = IF g = f THEN texts[f] + 1 ELSE texts[g]
        BY <1>4, <1>5 DEF ReminderInv, TextsAreStamped
    <2>2. ReminderTypeOK'
        BY <1>1, <1>5, <2>1 DEF ReminderInv, ReminderTypeOK
    <2>3. TextsAreStamped'
        BY <1>1, <1>4, <1>5, <2>1 DEF ReminderInv, TextsAreStamped, One
    <2>4. ChancesCounted'
        BY <1>1, <1>3, <1>4, <1>5, <2>1 DEF ReminderInv, ChancesCounted, One
    <2> QED
        BY <1>2, <2>2, <2>3, <2>4 DEF ReminderInv
<1>6. CASE Lose({f}) /\ UNCHANGED <<texts, reached>>
    <2>1. ReminderTypeOK'
        BY <1>1, <1>6, LoseCounts DEF ReminderInv, ReminderTypeOK
    <2>2. TextsAreStamped'
        BY <1>1, <1>6, LoseCounts DEF ReminderInv, TextsAreStamped
    <2>3. ChancesCounted'
        <3> SUFFICES ASSUME NEW g \in Fittings, fitting[g] = "live", early[g], texts[g] = 0
                     PROVE  mishaps'[g] + One(g \in unsent') >= Spent(g)
            BY <1>1, <1>3, <1>6 DEF ChancesCounted
        <3>1. mishaps[g] + One(g \in unsent) >= Spent(g)
            BY DEF ReminderInv, ChancesCounted
        <3>2. mishaps'[g] \in 0..2 /\ mishaps'[g] >= mishaps[g]
                /\ (g = f => mishaps'[g] = 2 \/ mishaps'[g] = mishaps[g] + 1)
            BY <1>6, LoseCounts
        <3> QED
            BY <1>1, <1>4, <3>1, <3>2 DEF One
    <2> QED
        BY <1>2, <2>1, <2>2, <2>3 DEF ReminderInv
<1> QED
    BY <1>5, <1>6 DEF TextOne

LEMMA RunCommitsStep == ASSUME ReminderInv, RunCommits PROVE ReminderInv'
<1>1. /\ unsent = {} /\ stamped' = stamped \cup reached
      /\ taken' = {} /\ unsent' = {} /\ reached' = {} /\ written' = {}
      /\ UNCHANGED <<quarter, dayAhead, fitting, early, ran, texts, spoilt, mishaps, deaths>>
    BY DEF RunCommits, RunOver
<1>2. ReminderTypeOK'
    BY <1>1 DEF ReminderInv, ReminderTypeOK
<1>3. TextsAreStamped' /\ TakenStand'
    BY <1>1 DEF ReminderInv, TextsAreStamped, TakenStand
<1>4. ChancesCounted'
    BY <1>1 DEF ReminderInv, ChancesCounted, Spent
<1> QED
    BY <1>2, <1>3, <1>4 DEF ReminderInv

LEMMA TakenBackStep ==
    ASSUME ReminderInv, TakenBack, deaths' \in 0..MaxRollbacks PROVE ReminderInv'
<1>1. /\ spoilt' = [f \in Fittings |-> IF f \in reached THEN spoilt[f] + 1 ELSE spoilt[f]]
      /\ Lose(taken) /\ taken' = {} /\ unsent' = {} /\ reached' = {} /\ written' = {}
      /\ UNCHANGED <<quarter, dayAhead, fitting, early, stamped, ran, texts>>
    BY DEF TakenBack, RunOver
<1>2. spoilt' \in [Fittings -> Nat]
    BY <1>1 DEF ReminderInv, TextsAreStamped
<1>3. ReminderTypeOK'
    BY <1>1, <1>2, LoseCounts DEF ReminderInv, ReminderTypeOK
<1>4. TextsAreStamped' /\ TakenStand'
    <2>1. \A f \in Fittings : texts[f] = spoilt'[f] + One(f \in stamped)
        BY <1>1 DEF ReminderInv, ReminderTypeOK, TextsAreStamped, One
    <2> QED
        BY <1>1, <1>2, <2>1, LoseCounts DEF ReminderInv, TextsAreStamped, TakenStand
<1>5. ChancesCounted'
    <2> SUFFICES ASSUME NEW f \in Fittings, fitting[f] = "live", early[f], texts[f] = 0
                 PROVE  mishaps'[f] >= Spent(f)
        BY <1>1, LoseCounts DEF ChancesCounted, Spent, One
    <2>1. mishaps[f] + One(f \in unsent) >= Spent(f)
        BY DEF ReminderInv, ChancesCounted
    <2>2. /\ mishaps[f] \in 0..2 /\ mishaps'[f] \in 0..2 /\ mishaps'[f] >= mishaps[f]
          /\ f \in unsent => mishaps'[f] = 2 \/ mishaps'[f] = mishaps[f] + 1
        BY <1>1, LoseCounts DEF ReminderInv, ReminderTypeOK, TextsAreStamped
    <2>3. Spent(f) \in 0..2
        BY DEF Spent, One
    <2> QED
        BY <2>1, <2>2, <2>3 DEF One
<1> QED
    BY <1>3, <1>4, <1>5 DEF ReminderInv

LEMMA BookFittingStep == ASSUME ReminderInv, NEW f \in Fittings, BookFitting(f) PROVE ReminderInv'
<1>1. /\ fitting[f] = "none"
      /\ fitting' = [fitting EXCEPT ![f] = "live"]
      /\ early' = [early EXCEPT ![f] = quarter < dayAhead[f] - 1]
      /\ UNCHANGED <<quarter, dayAhead, stamped, ran, taken, unsent, reached, written, texts, spoilt,
                     mishaps, deaths>>
    BY DEF BookFitting
<1>2. quarter \in Nat /\ dayAhead[f] \in Nat /\ (quarter < dayAhead[f] - 1) \in BOOLEAN
    BY QuartersBound DEF ReminderInv, ReminderTypeOK
<1>3. ReminderTypeOK'
    BY <1>1, <1>2 DEF ReminderInv, ReminderTypeOK
<1>4. TextsAreStamped' /\ TakenStand'
    BY <1>1 DEF ReminderInv, ReminderTypeOK, TextsAreStamped, TakenStand
<1>5. ChancesCounted'
    <2> SUFFICES ASSUME NEW g \in Fittings, fitting'[g] = "live", early'[g], texts[g] = 0
                 PROVE  mishaps[g] + One(g \in unsent) >= Spent(g)
        BY <1>1 DEF ChancesCounted, Spent
    <2>1. CASE g # f
        BY <1>1, <2>1 DEF ReminderInv, ReminderTypeOK, ChancesCounted
    <2>2. CASE g = f
        <3>1. quarter < dayAhead[f] - 1
            BY <1>1, <2>2 DEF ReminderInv, ReminderTypeOK
        <3>2. mishaps[g] \in 0..2
            BY DEF ReminderInv, TextsAreStamped
        <3> QED
            BY <2>2, <3>1, <3>2 DEF Spent, One
    <2> QED
        BY <2>1, <2>2
<1> QED
    BY <1>3, <1>4, <1>5 DEF ReminderInv

LEMMA AnswerLinkStep == ASSUME ReminderInv, NEW f \in Fittings, AnswerLink(f) PROVE ReminderInv'
<1>1. PICK s \in {"live", "cancelled"} : fitting' = [fitting EXCEPT ![f] = s]
    BY DEF AnswerLink
<1>2. /\ fitting[f] = "live" /\ written' = written \cup ({f} \cap taken)
      /\ UNCHANGED <<quarter, dayAhead, early, stamped, ran, taken, unsent, reached, texts, spoilt,
                     mishaps, deaths>>
    BY DEF AnswerLink
<1>3. ReminderTypeOK'
    BY <1>1, <1>2 DEF ReminderInv, ReminderTypeOK
<1>4. TextsAreStamped' /\ TakenStand'
    BY <1>1, <1>2 DEF ReminderInv, ReminderTypeOK, TextsAreStamped, TakenStand
<1>5. ChancesCounted'
    BY <1>1, <1>2 DEF ReminderInv, ReminderTypeOK, ChancesCounted, Spent
<1> QED
    BY <1>3, <1>4, <1>5 DEF ReminderInv

LEMMA NextQuarterStep == ASSUME ReminderInv, NextQuarter PROVE ReminderInv'
<1>1. /\ quarter < LastQuarter /\ quarter' = quarter + 1 /\ ran' = FALSE
      /\ IF ran THEN UNCHANGED mishaps ELSE Lose({f \in Fittings : Chance(f)})
      /\ UNCHANGED <<dayAhead, fitting, early, stamped, taken, unsent, reached, written, texts,
                     spoilt, deaths>>
    BY DEF NextQuarter
<1>2. mishaps' \in [Fittings -> 0..2]
    BY <1>1, LoseCounts DEF ReminderInv, TextsAreStamped
<1>3. ReminderTypeOK'
    <2>1. quarter' \in 0..LastQuarter
        BY <1>1, QuartersBound DEF ReminderInv, ReminderTypeOK
    <2> QED
        BY <1>1, <1>2, <2>1 DEF ReminderInv, ReminderTypeOK
<1>4. TextsAreStamped' /\ TakenStand'
    BY <1>1, <1>2 DEF ReminderInv, TextsAreStamped, TakenStand
<1>5. ChancesCounted'
    <2> SUFFICES ASSUME NEW f \in Fittings, fitting[f] = "live", early[f], texts[f] = 0
                 PROVE  mishaps'[f] + One(f \in unsent) >= Spent(f)'
        BY <1>1 DEF ChancesCounted
    <2>1. mishaps[f] + One(f \in unsent) >= Spent(f)
        BY DEF ReminderInv, ChancesCounted
    <2>2. quarter \in Nat /\ dayAhead[f] \in Nat /\ mishaps[f] \in 0..2 /\ mishaps'[f] \in 0..2
        BY <1>2, QuartersBound DEF ReminderInv, ReminderTypeOK, TextsAreStamped
    <2>3. CASE ran
        <3>1. Spent(f)' <= Spent(f) /\ Spent(f) \in 0..2 /\ Spent(f)' \in 0..2
            BY <1>1, <2>2, <2>3 DEF Spent, One
        <3> QED
            BY <1>1, <2>1, <2>2, <2>3, <3>1 DEF One
    <2>4. CASE ~ran
        <3>1. mishaps'[f] >= mishaps[f] /\ (Chance(f) => mishaps'[f] = 2 \/ mishaps'[f] = mishaps[f] + 1)
            BY <1>1, <2>4, LoseCounts
        <3>2. Chance(f) <=> quarter \in {dayAhead[f] - 1, dayAhead[f]}
            BY DEF Chance
        <3>3. Spent(f) \in 0..2 /\ Spent(f)' \in 0..2
                /\ Spent(f)' = Spent(f) + One(Chance(f))
            BY <1>1, <2>2, <2>4, <3>2 DEF Spent, One
        <3> QED
            BY <2>1, <2>2, <3>1, <3>3 DEF One
    <2> QED
        BY <2>3, <2>4
<1> QED
    BY <1>3, <1>4, <1>5 DEF ReminderInv

LEMMA ReminderStep == ReminderInv /\ [ReminderNext]_reminderVars => ReminderInv'
<1> SUFFICES ASSUME ReminderInv, [ReminderNext]_reminderVars PROVE ReminderInv'
    OBVIOUS
<1>1. CASE UNCHANGED reminderVars
    BY <1>1 DEF reminderVars, ReminderInv, ReminderTypeOK, TextsAreStamped, TakenStand,
       ChancesCounted, Spent
<1>2. CASE RunStarts \/ RunCommits \/ NextQuarter
    BY <1>2, RunStartsStep, RunCommitsStep, NextQuarterStep
<1>3. CASE RunConflicts \/ RunDies
    <2>1. TakenBack /\ deaths' \in 0..MaxRollbacks
        BY <1>3, RollbacksBound DEF RunConflicts, RunDies, ReminderInv, ReminderTypeOK
    <2> QED
        BY <2>1, TakenBackStep
<1>4. CASE \E f \in Fittings : TextOne(f) \/ BookFitting(f) \/ AnswerLink(f)
    BY <1>4, TextOneStep, BookFittingStep, AnswerLinkStep
<1> QED
    BY <1>1, <1>2, <1>3, <1>4 DEF ReminderNext

LEMMA RemindersCount == ReminderInv => TextedAgainOnlyAfterRollback /\ OneMishapIsSurvived
<1> SUFFICES ASSUME ReminderInv PROVE TextedAgainOnlyAfterRollback /\ OneMishapIsSurvived
    OBVIOUS
<1>1. TextedAgainOnlyAfterRollback
    BY DEF ReminderInv, TextsAreStamped, TextedAgainOnlyAfterRollback, One
<1>2. ASSUME NEW f \in Fittings, fitting[f] = "live", early[f], quarter > dayAhead[f], f \notin taken
      PROVE  texts[f] > 0 \/ mishaps[f] = 2
    <2>1. texts[f] \in Nat /\ mishaps[f] \in 0..2 /\ f \notin unsent
            /\ quarter \in Nat /\ dayAhead[f] \in Nat
        BY <1>2, QuartersBound DEF ReminderInv, ReminderTypeOK, TextsAreStamped
    <2>2. Spent(f) = 2
        BY <1>2, <2>1 DEF Spent
    <2> QED
        BY <1>2, <2>1, <2>2 DEF ReminderInv, ChancesCounted, One
<1> QED
    BY <1>1, <1>2 DEF OneMishapIsSurvived

LEMMA CancelledStep ==
    ASSUME ReminderInv, [ReminderNext]_reminderVars, NEW f \in Fittings,
           texts'[f] # texts[f], fitting[f] = "cancelled"
    PROVE  f \in written
<1>1. PICK g \in Fittings : TextOne(g)
    BY DEF ReminderNext, reminderVars, RunStarts, RunCommits, RunConflicts, RunDies, TakenBack,
           NextQuarter, BookFitting, AnswerLink
<1>2. f = g
    BY <1>1 DEF TextOne, ReminderInv, TextsAreStamped
<1> QED
    BY <1>1, <1>2 DEF TextOne, ReminderInv, ReminderTypeOK, TakenStand

\* The reminders of _modryn_send_reminders, for any fittings, any length of the clock and any
\* number of runs lost: one text per fitting unless a rollback took its stamp back, no reminder
\* lost to a single mishap, none for a fitting a run can see is cancelled.
THEOREM RemindersAreKept == ReminderSpec => []ReminderTypeOK /\ ReminderKept
<1>1. ReminderInv /\ [ReminderNext]_reminderVars =>
        [\A f \in Fittings : texts'[f] # texts[f] /\ fitting[f] = "cancelled"
                              => f \in written]_reminderVars
    BY CancelledStep
<1>2. ReminderInv => ReminderTypeOK
    BY DEF ReminderInv
<1> QED
    BY ReminderInitInv, ReminderStep, RemindersCount, <1>1, <1>2, PTL
       DEF ReminderSpec, ReminderKept, CancelledNotReminded

-----------------------------------------------------------------------------
(* The components side by side.                                             *)

LEMMA SignalsStarts == SignalsInit => Init /\ SosInit /\ ReminderInit
BY DEF SignalsInit

LEMMA SignalsMoves ==
    [SignalsNext]_signalsVars =>
        [Next]_vars /\ [SosNext]_sosVars /\ [ReminderNext]_reminderVars
<1> SUFFICES ASSUME [SignalsNext]_signalsVars
             PROVE  [Next]_vars /\ [SosNext]_sosVars /\ [ReminderNext]_reminderVars
    OBVIOUS
<1>1. CASE UNCHANGED signalsVars
    BY <1>1 DEF signalsVars
<1>2. CASE SignalsNext
    BY <1>2 DEF SignalsNext, Only
<1> QED
    BY <1>1, <1>2

\* Side by side the components behave as each does alone, so what is proved of one holds in MCSignals.
THEOREM SignalsRunsThem == SignalsSpec => Spec /\ SosSpec /\ ReminderSpec
BY SignalsStarts, SignalsMoves, PTL
   DEF SignalsSpec, Spec, SosSpec, ReminderSpec

\* All of them keep their types side by side, in every behaviour of MCSignals.
THEOREM SignalsIsTyped == SignalsSpec => []SignalsTypeOK
<1>1. OutboxInv /\ SosInv /\ ReminderInv => SignalsTypeOK
    BY DEF OutboxInv, SosInv, ReminderInv, IInv, SignalsTypeOK
<1>2. (Init => OutboxInv) /\ (OutboxInv /\ [Next]_vars => OutboxInv')
    BY OutboxInitInv, OutboxStep
<1>3. (SosInit => SosInv) /\ (SosInv /\ [SosNext]_sosVars => SosInv')
    BY SosInitInv, SosStep
<1>4. (ReminderInit => ReminderInv) /\ (ReminderInv /\ [ReminderNext]_reminderVars => ReminderInv')
    BY ReminderInitInv, ReminderStep
<1> QED
    BY SignalsStarts, SignalsMoves, <1>2, <1>3, <1>4, <1>1, PTL DEF SignalsSpec

=============================================================================
