----------------------------- MODULE SmsOutbox ------------------------------
(***************************************************************************)
(* modryn.sms.outbox: queued texts and the cron that drains them.          *)
(*                                                                         *)
(* The drain sends a batch, oldest first, and commits after every row. The *)
(* call to Twilio cannot be rolled back, so each row takes two steps: Send *)
(* reaches Twilio, Record writes the answer and commits. A worker recycled *)
(* in between, or an answer lost on the way, leaves a text delivered that  *)
(* the outbox knows nothing of.                                            *)
(***************************************************************************)
EXTENDS Integers, FiniteSets

CONSTANTS
    Texts,          \* messages to be queued
    Batch,          \* DRAIN_BATCH
    MaxAttempts,    \* MAX_ATTEMPTS
    MaxLost,        \* bound: answers lost, and workers recycled before recording one
    Nothing         \* stands for no text

ASSUME TextsFinite   == IsFiniteSet(Texts)
ASSUME BatchPos      == Batch \in Nat \ {0}
ASSUME AttemptsPos   == MaxAttempts \in Nat \ {0}
ASSUME MaxLostNat    == MaxLost \in Nat
ASSUME NothingFresh  == Nothing \notin Texts

VARIABLES
    row,            \* the text's row: its state, or that it has none (yet, or any more)
    id,             \* the row's id; 0 while it was never queued
    attempts,
    lastError,      \* class of last_error
    due,            \* retry_after is unset or past
    old,            \* past RETENTION_DAYS
    batch,          \* rows the running drain has still to send
    reaped,         \* rows the running drain has unlinked and not committed
    sending,        \* the row being sent, or Nothing
    answer,         \* what _send_now returned for it
    draining,       \* the drain is running
    calls,          \* history: requests made to Twilio
    accepted,       \* history: of these, those Twilio accepted
    lost,           \* how many answers were lost and workers recycled
    unrecorded      \* history: calls whose outcome the row does not know

vars == <<row, id, attempts, lastError, due, old, batch, reaped, sending, answer,
          draining, calls, accepted, lost, unrecorded>>

\* is_permanent_rejection tells two classes of error apart.
Errors  == {"none", "transient", "permanent"}
Answers == {"none", "ok", "transient", "permanent"}

Finished == {t \in Texts : row[t] \in {"sent", "failed"}}

TypeOK ==
    /\ row       \in [Texts -> {"none", "pending", "sent", "failed", "gone"}]
    /\ id        \in [Texts -> 0 .. Cardinality(Texts)]
    /\ attempts  \in [Texts -> 0 .. MaxAttempts]
    /\ lastError \in [Texts -> Errors]
    /\ due       \subseteq Texts
    /\ old       \subseteq Texts
    /\ batch     \subseteq Texts
    /\ reaped    \subseteq Finished
    /\ sending   \in batch \cup {Nothing}
    /\ answer    \in Answers
    /\ draining  \in BOOLEAN
    /\ calls     \in [Texts -> Nat]
    /\ accepted  \in [Texts -> Nat]
    /\ lost      \in 0 .. MaxLost
    /\ unrecorded \in [Texts -> Nat]

Init ==
    /\ row       = [t \in Texts |-> "none"]
    /\ id        = [t \in Texts |-> 0]
    /\ attempts  = [t \in Texts |-> 0]
    /\ lastError = [t \in Texts |-> "none"]
    /\ due       = {}
    /\ old       = {}
    /\ batch     = {}
    /\ reaped    = {}
    /\ sending   = Nothing
    /\ answer    = "none"
    /\ draining  = FALSE
    /\ calls     = [t \in Texts |-> 0]
    /\ accepted  = [t \in Texts |-> 0]
    /\ lost      = 0
    /\ unrecorded = [t \in Texts |-> 0]

-----------------------------------------------------------------------------
(* Requests, and time.                                                     *)

\* send_async and _enqueue. The wake-up is the fairness of StartDrain.
Enqueue(t) ==
    /\ id[t] = 0
    /\ row' = [row EXCEPT ![t] = "pending"]
    /\ id'  = [id EXCEPT ![t] = Cardinality({u \in Texts : id[u] > 0}) + 1]
    /\ due' = due \cup {t}
    /\ UNCHANGED <<attempts, lastError, old, batch, reaped, sending, answer, draining,
                   calls, accepted, lost, unrecorded>>

\* RETRY_BACKOFF_MINUTES have passed.
BackoffEnds(t) ==
    /\ row[t] = "pending"
    /\ t \notin due
    /\ due' = due \cup {t}
    /\ UNCHANGED <<row, id, attempts, lastError, old, batch, reaped, sending, answer,
                   draining, calls, accepted, lost, unrecorded>>

\* RETENTION_DAYS have passed since the row was created.
Age(t) ==
    /\ row[t] \in {"pending", "sent", "failed"}
    /\ t \notin old
    /\ old' = old \cup {t}
    /\ UNCHANGED <<row, id, attempts, lastError, due, batch, reaped, sending, answer,
                   draining, calls, accepted, lost, unrecorded>>

-----------------------------------------------------------------------------
(* The drain.                                                              *)

Oldest(S) == {t \in S : Cardinality({u \in S : id[u] < id[t]}) < Batch}

Front(S) == {t \in S : \A u \in S : id[t] <= id[u]}

\* Variant: the retention sweep does not look at the state.
ReapableAll == {t \in old : row[t] # "gone"}

Reapable == Finished \cap old

\* Variant: the search forgets `retry_after <= now`.
SendableFresh == {t \in Texts : row[t] = "pending" /\ attempts[t] = 0}

Sendable == {t \in Texts : row[t] = "pending" /\ t \in due}

\* _gc, then the search of the batch; with nothing to send, the drain is over.
StartDrain ==
    /\ ~draining
    /\ Sendable # {} \/ Reapable # {}
    /\ draining' = TRUE
    /\ reaped'   = Reapable
    /\ batch'    = Oldest(Sendable)
    /\ UNCHANGED <<row, id, attempts, lastError, due, old, sending, answer, calls,
                   accepted, lost, unrecorded>>

\* Variant: an accepted text whose response body cannot be read counts as failed.
SendUnparsed(t) ==
    /\ draining
    /\ sending = Nothing
    /\ t \in Front(batch)
    /\ sending' = t
    /\ calls' = [calls EXCEPT ![t] = @ + 1]
    /\ answer' \in {"ok", "transient"}
    /\ accepted' = [accepted EXCEPT ![t] = @ + 1]
    /\ UNCHANGED <<row, id, attempts, lastError, due, old, batch, reaped, draining, lost,
                   unrecorded>>

\* Twilio takes the text and says so; or says no; or an exception or a timeout
\* hides the answer, which counts as a transient failure.
Send(t) ==
    /\ draining
    /\ sending = Nothing
    /\ t \in Front(batch)
    /\ sending' = t
    /\ calls' = [calls EXCEPT ![t] = @ + 1]
    /\ \/ /\ answer' = "ok"
          /\ accepted' = [accepted EXCEPT ![t] = @ + 1]
          /\ UNCHANGED <<lost, unrecorded>>
       \/ /\ answer' \in {"transient", "permanent"}
          /\ UNCHANGED <<accepted, lost, unrecorded>>
       \/ /\ lost < MaxLost               \* bound
          /\ answer' = "transient"
          /\ accepted' = [accepted EXCEPT ![t] = @ + 1]
          /\ lost' = lost + 1
          /\ unrecorded' = [unrecorded EXCEPT ![t] = @ + 1]
    /\ UNCHANGED <<row, id, attempts, lastError, due, old, batch, reaped, draining>>

Commit(rows) == [t \in Texts |-> IF t \in reaped THEN "gone" ELSE rows[t]]

\* What the attempt came to, written to the row and committed.
Record(t) ==
    /\ sending = t
    /\ attempts' = [attempts EXCEPT ![t] = @ + 1]
    /\ lastError' = [lastError EXCEPT ![t] = IF answer = "ok" THEN "none" ELSE answer]
    /\ \/ /\ answer = "ok"
          /\ row' = Commit([row EXCEPT ![t] = "sent"])
          /\ UNCHANGED due
       \/ /\ answer # "ok" /\ attempts[t] + 1 >= MaxAttempts
          /\ row' = Commit([row EXCEPT ![t] = "failed"])
          /\ UNCHANGED due
       \/ /\ answer # "ok" /\ attempts[t] + 1 < MaxAttempts
          /\ row' = Commit(row)
          /\ due' = due \ {t}
    /\ batch' = batch \ {t}
    /\ reaped' = {}
    /\ sending' = Nothing
    /\ answer' = "none"
    /\ UNCHANGED <<id, old, draining, calls, accepted, lost, unrecorded>>

\* The cron commits; a full batch or a retry wakes it again.
EndDrain ==
    /\ draining
    /\ batch = {}
    /\ row' = Commit(row)
    /\ reaped' = {}
    /\ draining' = FALSE
    /\ UNCHANGED <<id, attempts, lastError, due, old, batch, sending, answer, calls,
                   accepted, lost, unrecorded>>

\* The worker is recycled, and what a call under way came to is never written.
Crash ==
    /\ draining
    /\ lost < MaxLost                     \* bound
    /\ lost' = lost + 1
    /\ unrecorded' = [t \in Texts |-> IF t = sending THEN unrecorded[t] + 1
                                                     ELSE unrecorded[t]]
    /\ draining' = FALSE
    /\ batch' = {}
    /\ reaped' = {}
    /\ sending' = Nothing
    /\ answer' = "none"
    /\ UNCHANGED <<row, id, attempts, lastError, due, old, calls, accepted>>

Drain == StartDrain \/ EndDrain \/ \E t \in Texts : Send(t) \/ Record(t)

Next ==
    \/ \E t \in Texts : Enqueue(t) \/ BackoffEnds(t) \/ Age(t)
    \/ Drain
    \/ Crash

Spec == Init /\ [][Next]_vars

\* The drain runs every five minutes and on every wake-up; time passes.
Fairness == WF_vars(Drain) /\ \A t \in Texts : WF_vars(BackoffEnds(t))

FairSpec == Spec /\ Fairness

-----------------------------------------------------------------------------
(* Properties.                                                             *)

\* "A worker recycled mid-batch must not re-send the texts it has already
\* delivered": every duplicate her phone sees is owed to a call of that very text
\* whose outcome could not be recorded, one for each.
OneDuplicatePerLoss == \A t \in Texts : accepted[t] <= 1 + unrecorded[t]

\* Three shots, then stop: only a call of the text that went unrecorded buys it
\* another.
CallsBounded == \A t \in Texts : calls[t] <= MaxAttempts + unrecorded[t]

\* No text waits for ever: not one that always fails, and not those behind it.
EveryTextSettles == \A t \in Texts : row[t] = "pending" ~> row[t] # "pending"

\* "21610 recipient sent STOP (must not retry)": a number that Twilio has rejected
\* for good is not sent the text again.
DeadNumberNotRetried ==
    [][\A t \in Texts : lastError[t] = "permanent" => calls'[t] = calls[t]]_vars

\* A text goes out twice only for an answer or a commit that was lost, and the
\* retries stop at the limit but for the attempts nobody recorded.
LossesAccounted == OneDuplicatePerLoss /\ CallsBounded

=============================================================================
