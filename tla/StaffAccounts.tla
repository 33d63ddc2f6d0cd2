--------------------------- MODULE StaffAccounts ---------------------------
(***************************************************************************)
(* The team page (modryn_staff, /manage/staff): owners hire, edit and      *)
(* archive people, and every person has an account to sign in with. The    *)
(* person and the account are two rows that have to say the same thing.    *)
(* Each request is a transaction over the snapshot it began with.          *)
(***************************************************************************)
EXTENDS FiniteSets

CONSTANTS
    Hires,             \* the employees to be
    Logins,            \* the usernames
    NoLogin,           \* stands for no username
    Owners             \* the owners' browsers

ASSUME NoLoginApart == NoLogin \notin Logins \cup Hires

Levels == {"owner", "manager", "staff"}

VARIABLES
    person,            \* hr.employee: [row, level, login]
    account,           \* res.users: [row, the boutique's group, the base group]
    form               \* each owner's request under way

staffVars == <<person, account, form>>

NoForm == [does |-> "nothing", on |-> NoLogin, level |-> "staff", read |-> "staff",
           wasActive |-> TRUE, login |-> NoLogin, behind |-> FALSE]

StaffTypeOK ==
    /\ person  \in [Hires -> [row : {"none", "active", "archived"}, level : Levels,
                              login : Logins \cup {NoLogin}]]
    /\ account \in [Logins -> [row : {"none", "active", "archived"}, group : Levels,
                              base : {"internal", "portal"}]]
    /\ form    \in [Owners -> [does : {"nothing", "hire", "edit", "archive"},
                               on : Hires \cup {NoLogin}, level : Levels, read : Levels,
                               wasActive : BOOLEAN, login : Logins \cup {NoLogin},
                               behind : BOOLEAN]]

StaffInit ==
    /\ person  = [e \in Hires  |-> [row |-> "none", level |-> "staff", login |-> NoLogin]]
    /\ account = [u \in Logins |-> [row |-> "none", group |-> "staff", base |-> "portal"]]
    /\ form    = [o \in Owners |-> NoForm]

OnTeam(e) == person[e].row # "none"

\* The request of o is over; those that read e's row before are behind.
Closed(o, e) == form' = [p \in Owners |->
    IF p = o THEN NoForm
    ELSE IF form[p].on = e THEN [form[p] EXCEPT !.behind = TRUE] ELSE form[p]]

Dropped(o) == form' = [form EXCEPT ![o] = NoForm]

-----------------------------------------------------------------------------
(* Hiring: staff_new_submit, modryn_provision_login.                       *)

\* The search for the username finds archived accounts too.
HireBegins(o, e) ==
    /\ form[o] = NoForm /\ ~OnTeam(e) /\ \A p \in Owners : form[p].on # e
    /\ \E l \in Levels, u \in Logins :
           form' = [form EXCEPT ![o] = [NoForm EXCEPT
               !.does = "hire", !.on = e, !.level = l, !.login = u,
               !.behind = account[u].row # "none"]]
    /\ UNCHANGED <<person, account>>

\* The employee created a moment ago is unlinked, and the form comes back.
Refused(o) == Dropped(o) /\ UNCHANGED <<person, account>>

\* An account is internal or portal, never both, and the hire chooses.
BaseGroup(l) == IF l = "owner" THEN "internal" ELSE "portal"

HireSubmitted(o) ==
    LET f == form[o] IN
    /\ f.does = "hire"
    /\ IF f.behind
       THEN Refused(o)
       \* Taken since: the unique index fails the whole request.
       ELSE IF account[f.login].row # "none"
       THEN Dropped(o) /\ UNCHANGED <<person, account>>
       ELSE /\ person'  = [person EXCEPT ![f.on] = [row |-> "active", level |-> f.level,
                                                    login |-> f.login]]
            /\ account' = [account EXCEPT ![f.login] = [row |-> "active", group |-> f.level,
                                                           base |-> BaseGroup(f.level)]]
            /\ Dropped(o)

-----------------------------------------------------------------------------
(* Editing and archiving: staff_edit_submit, staff_archive.                *)

\* The level may be any: the form was loaded before, and others may have saved.
EditBegins(o, e) ==
    /\ form[o] = NoForm /\ OnTeam(e)
    /\ \E l \in Levels : form' = [form EXCEPT ![o] = [NoForm EXCEPT
           !.does = "edit", !.on = e, !.level = l, !.read = person[e].level]]
    /\ UNCHANGED <<person, account>>

\* The account moves only when the level is seen to change, and then between the
\* boutique's three groups: its base group stays what the hire made it.
Edited(o) ==
    LET f == form[o]  u == person[f.on].login IN
    /\ person' = [person EXCEPT ![f.on].level = f.level]
    /\ account' = IF f.level # f.read /\ u # NoLogin
                  THEN [account EXCEPT ![u].group = f.level] ELSE account
    /\ Closed(o, f.on)

ArchiveBegins(o, e) ==
    /\ form[o] = NoForm /\ OnTeam(e)
    /\ form' = [form EXCEPT ![o] = [NoForm EXCEPT
           !.does = "archive", !.on = e, !.wasActive = person[e].row = "active"]]
    /\ UNCHANGED <<person, account>>

AccountFollows(f, row) ==
    IF person[f.on].login # NoLogin
    THEN [account EXCEPT ![person[f.on].login].row = row] ELSE account

\* The button turns what the request read, whatever it showed on the page.
Archived(o) ==
    LET f == form[o]  row == IF f.wasActive THEN "archived" ELSE "active" IN
    /\ person'  = [person EXCEPT ![f.on].row = row]
    /\ account' = AccountFollows(f, row)
    /\ Closed(o, f.on)

\* Variant: the rows are written whoever wrote them since.
SaveFormBlind(o) ==
    \/ form[o].does = "edit"    /\ Edited(o)
    \/ form[o].does = "archive" /\ Archived(o)

SaveForm(o) ==
    /\ ~form[o].behind
    /\ \/ form[o].does = "edit"    /\ Edited(o)
       \/ form[o].does = "archive" /\ Archived(o)

\* The row was written since: the request runs again, and reads it anew.
RunsAgain(o) ==
    LET f == form[o] IN
    /\ f.does \in {"edit", "archive"} /\ f.behind
    /\ form' = [form EXCEPT ![o].behind = FALSE,
           ![o].read      = IF f.does = "edit" THEN person[f.on].level ELSE @,
           ![o].wasActive = IF f.does = "archive" THEN person[f.on].row = "active" ELSE @]
    /\ UNCHANGED <<person, account>>

StaffNext == \E o \in Owners :
    \/ HireSubmitted(o) \/ SaveForm(o) \/ RunsAgain(o)
    \/ \E e \in Hires : HireBegins(o, e) \/ EditBegins(o, e) \/ ArchiveBegins(o, e)

StaffSpec == StaffInit /\ [][StaffNext]_staffVars

-----------------------------------------------------------------------------
(* Properties.                                                             *)

\* Nobody is on the team without an account of her own, however a hire ends
\* and whoever chose the same username at the same moment.
EveryPersonCanSignIn == \A e \in Hires : OnTeam(e) =>
    /\ person[e].login # NoLogin
    /\ \A d \in Hires \ {e} : person[d].login # person[e].login

\* An account is in the boutique's group of its person's level, and signs in exactly
\* while she is on the active team, whatever owners save at once: no former employee
\* can sign in, and no promotion is without the boutique's pages. Of the base group,
\* which opens the back office, this says nothing.
AccountMatchesPerson == \A e \in Hires : person[e].login # NoLogin =>
    /\ account[person[e].login].group = person[e].level
    /\ account[person[e].login].row   = person[e].row

\* Everybody on the team can sign in, with the group and the mark of her person.
AccountsFit == EveryPersonCanSignIn /\ AccountMatchesPerson

\* What the docstring of modryn_provision_login says of the base group: owners are
\* internal users, and everybody else is structurally unable to reach the back office.
OnlyOwnersAreInternal == \A e \in Hires : OnTeam(e) =>
    (account[person[e].login].base = "internal" <=> person[e].level = "owner")

=============================================================================
