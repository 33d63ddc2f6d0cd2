------------------------------ MODULE Workshop ------------------------------
(***************************************************************************)
(* Alteration tasks and the seamstresses they are given to                 *)
(* (modryn_atelier). A new task goes to an idle member of the workshop     *)
(* pool or waits in the queue; a seamstress who delivers her last task     *)
(* takes the top of the queue; a manager assigns by hand.                  *)
(*                                                                         *)
(* Each is a REPEATABLE READ transaction: it counts and chooses on the     *)
(* snapshot it began with and fails, to run again, on a row written since. *)
(* The seamstresses' rows are only read, so two requests can give one of   *)
(* them work, or leave her without, behind each other's back.              *)
(***************************************************************************)
EXTENDS Integers, FiniteSets

CONSTANTS
    TaskCount,         \* tasks 1, 2, ... by priority, due date and id
    Women,             \* the seamstresses of today's workshop pool, by id
    Hands,             \* requests in progress
    Nobody, Unborn, Delivered

ASSUME TaskCountBound == TaskCount \in Nat
ASSUME WomenAreIds    == Women \subseteq Nat /\ {Nobody, Unborn, Delivered} \cap Women = {}
ASSUME MarksApart     == Unborn # Nobody /\ Delivered \notin {Nobody, Unborn}

VARIABLES
    rail,              \* whose rail each open task hangs on
    employed,          \* the seamstresses who are not archived
    job,               \* the request of each hand
    sight,             \* what its snapshot says: who gets work, what is queued
    lock,              \* the queued task its transaction has locked, 0 for none
    outdated,          \* the tasks written since that it may not write any more
    excused            \* history: a step after which nobody is woken

shopVars == <<rail, employed, job, sight, lock, outdated, excused>>

Chores  == 1..TaskCount
Holders == Women \cup {Nobody}
NoJob   == [op |-> "none", chore |-> 0, who |-> Nobody]
Jobs    == [op : {"create", "assign"}, chore : Chores, who : Holders]
      \cup [op : {"deliver"}, chore : Chores, who : {Nobody}]
Dark    == [who |-> Nobody, queue |-> {}]

ShopTypeOK ==
    /\ rail     \in [Chores -> Holders \cup {Unborn, Delivered}]
    /\ employed \in SUBSET Women
    /\ job      \in [Hands -> Jobs \cup {NoJob}]
    /\ sight    \in [Hands -> [who : Holders, queue : SUBSET Chores]]
    /\ lock     \in [Hands -> {0} \cup Chores]
    /\ outdated \in [Hands -> SUBSET Chores]
    /\ excused  \in BOOLEAN

ShopInit ==
    /\ rail     = [t \in Chores |-> Unborn]
    /\ employed = Women
    /\ job      = [h \in Hands |-> NoJob]
    /\ sight    = [h \in Hands |-> Dark]
    /\ lock     = [h \in Hands |-> 0]
    /\ outdated = [h \in Hands |-> {}]
    /\ excused  = FALSE

-----------------------------------------------------------------------------
(* What a request sees.                                                    *)

Queue == {t \in Chores : rail[t] = Nobody}

\* _modryn_open_count is zero, without the task that is being delivered.
IdleBut(but) == {w \in employed : \A t \in Chores \ {but} : rail[t] # w}

Lowest(s) == CHOOSE n \in s : \A m \in s : n <= m

\* Whom the request gives work, on its snapshot: the one it names, unless she
\* has left; for a new task the first idle one; for a delivery the one it frees.
Recipient(j) ==
    LET idle == IdleBut(j.chore) IN
    IF j.who # Nobody THEN IF j.who \in employed THEN j.who ELSE Nobody
    ELSE CASE j.op = "create" /\ idle # {}              -> Lowest(idle)
           [] j.op = "deliver" /\ rail[j.chore] \in idle -> rail[j.chore]
           [] OTHER                                      -> Nobody

Vision(j) ==
    [who   |-> Recipient(j),
     queue |-> IF j.op = "deliver" /\ Recipient(j) # Nobody THEN Queue \ {j.chore} ELSE {}]

\* The tasks the request may have to write.
Stakes(h) == {job[h].chore} \cup sight[h].queue

Take(h) ==
    /\ job[h] = NoJob
    /\ \E j \in Jobs :
          /\ IF j.op = "create"
             THEN rail[j.chore] = Unborn /\ \A g \in Hands : job[g].chore # j.chore
             ELSE rail[j.chore] \in Holders
          /\ j.op = "assign" => rail[j.chore] # j.who
          /\ job'   = [job   EXCEPT ![h] = j]
          /\ sight' = [sight EXCEPT ![h] = Vision(j)]
    /\ UNCHANGED <<rail, employed, lock, outdated, excused>>

LeaveShop(h) ==
    /\ job'   = [job   EXCEPT ![h] = NoJob]
    /\ sight' = [sight EXCEPT ![h] = Dark]
    /\ lock'  = [lock  EXCEPT ![h] = 0]

\* h commits a write of the tasks in ts.
Publish(h, ts) ==
    outdated' = [g \in Hands |-> IF g = h \/ job[g] = NoJob THEN {}
                                 ELSE outdated[g] \cup (ts \cap Stakes(g))]

\* The view is no longer what a request starting now would see.
OutOfDate(h) == sight[h] # Vision(job[h])

-----------------------------------------------------------------------------
(* Creating a task: _modryn_assign_idle.                                   *)

\* _check_seamstress: the one the request names is archived.
NotHired(h) == job[h].who # Nobody /\ sight[h].who = Nobody

CreateTask(h) ==
    /\ job[h].op = "create" /\ ~NotHired(h)
    /\ rail' = [rail EXCEPT ![job[h].chore] = sight[h].who]
    /\ excused' = (excused \/ OutOfDate(h))
    /\ Publish(h, {job[h].chore})
    /\ LeaveShop(h)
    /\ UNCHANGED employed

RefuseHire(h) ==
    /\ NotHired(h)
    /\ outdated' = [outdated EXCEPT ![h] = {}]
    /\ LeaveShop(h)
    /\ UNCHANGED <<rail, employed, excused>>

-----------------------------------------------------------------------------
(* Delivering one: action_advance, _modryn_pull_next.                      *)

\* SKIP LOCKED
Offered(h) == {t \in sight[h].queue : \A g \in Hands \ {h} : lock[g] # t}

\* Variant: the next task is not pulled.
PullsNever(h) == FALSE

\* The seamstress is in the pool, this was her last open task, and one is queued.
Pulls(h) == job[h].op = "deliver" /\ lock[h] = 0 /\ Offered(h) # {}

Top(h) == Lowest(Offered(h))

\* Variant: rows are written whether or not they changed.
ConflictNever(h) == FALSE

\* A row the request has to write or to lock was written since its snapshot.
Conflict(h) ==
    \/ job[h].op \in {"assign", "deliver"} /\ job[h].chore \in outdated[h]
    \/ Pulls(h) /\ Top(h) \in outdated[h]

\* Somebody else is between locking the row and committing: a write waits.
Awaits(h, t) == \E g \in Hands \ {h} : lock[g] # 0 /\ t \in {lock[g], job[g].chore}

\* The delivery is written and the top of the queue locked, not yet committed.
PullNext(h) ==
    /\ Pulls(h) /\ ~Conflict(h) /\ ~Awaits(h, job[h].chore)
    /\ lock' = [lock EXCEPT ![h] = Top(h)]
    /\ UNCHANGED <<rail, employed, job, sight, outdated, excused>>

Deliver(h) ==
    LET t == job[h].chore IN
    /\ job[h].op = "deliver" /\ ~Pulls(h) /\ ~Conflict(h) /\ ~Awaits(h, t)
    /\ rail' = [c \in Chores |-> IF c = t THEN Delivered
                                 ELSE IF c = lock[h] THEN sight[h].who ELSE rail[c]]
    /\ excused' = (excused \/ OutOfDate(h))
    /\ Publish(h, {t, lock[h]})
    /\ LeaveShop(h)
    /\ UNCHANGED employed

-----------------------------------------------------------------------------
(* The rest.                                                               *)

\* The dashboard's form: to somebody, or back on the queue. Nobody is woken.
Assign(h) ==
    LET t == job[h].chore IN
    /\ job[h].op = "assign" /\ ~NotHired(h)
    /\ ~Conflict(h) /\ ~Awaits(h, t)
    /\ rail' = [rail EXCEPT ![t] = job[h].who]
    /\ excused' = (excused \/ rail[t] \notin {Nobody, job[h].who})
    /\ Publish(h, {t})
    /\ LeaveShop(h)
    /\ UNCHANGED employed

\* Serialization failure: it runs again, and leaves alone a task delivered since.
JobAgain(h) ==
    /\ Conflict(h)
    /\ IF rail[job[h].chore] = Delivered
       THEN LeaveShop(h)
       ELSE /\ sight' = [sight EXCEPT ![h] = Vision(job[h])]
            /\ UNCHANGED <<job, lock>>
    /\ outdated' = [outdated EXCEPT ![h] = {}]
    /\ UNCHANGED <<rail, employed, excused>>

\* staff_archive, which toggles. Her tasks stay hers.
ArchiveWoman(w) ==
    /\ employed' = IF w \in employed THEN employed \ {w} ELSE employed \cup {w}
    /\ excused'  = (excused \/ w \notin employed)
    /\ UNCHANGED <<rail, job, sight, lock, outdated>>

ShopNext ==
    \/ \E h \in Hands : \/ Take(h) \/ CreateTask(h) \/ RefuseHire(h) \/ PullNext(h)
                        \/ Deliver(h) \/ Assign(h) \/ JobAgain(h)
    \/ \E w \in Women : ArchiveWoman(w)

ShopSpec == ShopInit /\ [][ShopNext]_shopVars

-----------------------------------------------------------------------------
(* Properties.                                                             *)

\* Only a manager's hand takes a task from the seamstress who has it: what the
\* queue hands out, it hands out once, to however many finish at a time.
HandedOutOnce ==
    [][\A t \in Chores :
          rail[t] \in Women /\ rail'[t] # rail[t]
             => \E h \in Hands : /\ job[h].chore = t /\ job'[h] = NoJob
                                 /\ job[h].op = IF rail'[t] = Delivered THEN "deliver"
                                                                        ELSE "assign"]_shopVars

\* A seamstress who is freed takes the most urgent task of the queue; a more
\* urgent one stays behind only if it was locked for another, or came later.
MostUrgentFirst ==
    [][\A h \in Hands :
          lock'[h] # lock[h] /\ lock'[h] # 0
             => \A t \in Queue : t < lock'[h]
                   => t \notin sight[h].queue \/ \E g \in Hands : lock[g] = t]_shopVars

\* Nobody in the pool sits idle while work is queued, once the requests are
\* done, except after a step that wakes nobody: a reassignment by hand, the
\* return of a seamstress, or requests that ran at the same time.
NobodyIdleBesideWork ==
    (\A h \in Hands : job[h] = NoJob) /\ ~excused => Queue = {} \/ IdleBut(0) = {}

\* The queue under concurrent deliveries and manual drops: no task is handed
\* out twice, and none is handed out before a more urgent one that was free.
QueueDiscipline == HandedOutOnce /\ MostUrgentFirst

=============================================================================
