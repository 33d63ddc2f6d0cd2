--------------------------- MODULE Office_proofs ----------------------------
(*****************************************************************************)
(* What holds in the office of the owner, at the sign-in of the customer and *)
(* when a deploy runs: eight components that share no state. For each an     *)
(* inductive invariant, the lemmas that every step keeps it, and the         *)
(* theorems that follow; at the end, that they keep their types side by side.*)
(*****************************************************************************)
EXTENDS MCOffice, FiniteSetTheorems, WellFoundedInduction, TLAPS

\* A non-empty set of numbers has a least member.
LEMMA LeastExists ==
    ASSUME NEW S \in SUBSET Nat, S # {}
    PROVE  \E m \in S : \A k \in S : m <= k
<1>1. PICK m \in S : \A k \in S : <<k, m>> \notin OpToRel(<, Nat)
    <2>1. IsWellFoundedOn(OpToRel(<, Nat), Nat)
        BY NatLessThanWellFounded
    <2> QED
        BY <2>1, WFMin
<1>2. ASSUME NEW k \in S PROVE m <= k
    <2>1. ~ (k < m)
        BY <1>1 DEF OpToRel
    <2> QED
        BY <2>1
<1> QED
    BY <1>2

-----------------------------------------------------------------------------
(*****************************************************************************)
(* StaffAccounts.                                                            *)
(*                                                                           *)
(* Everybody on the team has an account of her own that fits her, for any    *)
(* number of people, usernames and owners. The invariant adds what ties a    *)
(* request to the rows it read: a hire has its person to itself, and an      *)
(* edit that is not behind has read the level the person still has.          *)
(*****************************************************************************)

\* A person without an account is one who was never hired.
StrangersHaveNone == \A e \in Hires : person[e].row = "none" => person[e].login = NoLogin

\* No other request is about a person who is being hired.
HireAlone ==
    \A o \in Owners : form[o].does = "hire" =>
        /\ form[o].on \in Hires /\ ~OnTeam(form[o].on)
        /\ form[o].login \in Logins
        /\ \A p \in Owners \ {o} : form[p].on # form[o].on

\* Edits and archivings are of people on the team.
EditsOfTeam ==
    \A o \in Owners : form[o].does \in {"edit", "archive"} =>
        form[o].on \in Hires /\ OnTeam(form[o].on)

\* What an edit has read still stands unless it knows better.
ReadStands ==
    \A o \in Owners : form[o].does = "edit" /\ ~form[o].behind =>
        form[o].read = person[form[o].on].level

StaffInv ==
    /\ StaffTypeOK
    /\ StrangersHaveNone
    /\ HireAlone
    /\ EditsOfTeam
    /\ ReadStands
    /\ AccountsFit

Forms == [does : {"nothing", "hire", "edit", "archive"}, on : Hires \cup {NoLogin},
          level : Levels, read : Levels, wasActive : BOOLEAN,
          login : Logins \cup {NoLogin}, behind : BOOLEAN]

-----------------------------------------------------------------------------

LEMMA NoFormType == NoForm \in Forms
  BY DEF NoForm, Forms, Levels

LEMMA StaffInitInv == StaffInit => StaffInv
<1> SUFFICES ASSUME StaffInit PROVE StaffInv
    OBVIOUS
<1>1. StaffTypeOK
  BY NoFormType DEF StaffInit, StaffTypeOK, Levels, Forms
<1>2. \A o \in Owners : form[o].does = "nothing"
  BY DEF StaffInit, NoForm
<1>3. \A e \in Hires : person[e].row = "none" /\ person[e].login = NoLogin
  BY DEF StaffInit
<1> QED
  BY <1>1, <1>2, <1>3
  DEF StaffInv, StrangersHaveNone, HireAlone, EditsOfTeam, ReadStands, AccountsFit,
      EveryPersonCanSignIn, AccountMatchesPerson, OnTeam

-----------------------------------------------------------------------------
(* The steps that leave the rows alone.                                    *)

\* The forms of the three kinds of request.
HireForm(e, l, u, b) ==
    [NoForm EXCEPT !.does = "hire", !.on = e, !.level = l, !.login = u, !.behind = b]

EditForm(e, l, r) == [NoForm EXCEPT !.does = "edit", !.on = e, !.level = l, !.read = r]

ArchiveForm(e, b) == [NoForm EXCEPT !.does = "archive", !.on = e, !.wasActive = b]

LEMMA HireFormFits ==
  ASSUME NEW e \in Hires, NEW l \in Levels, NEW u \in Logins, NEW b \in BOOLEAN
  PROVE  /\ HireForm(e, l, u, b) \in Forms
         /\ HireForm(e, l, u, b).does = "hire"
         /\ HireForm(e, l, u, b).on = e
         /\ HireForm(e, l, u, b).login = u
  BY DEF HireForm, NoForm, Forms, Levels

LEMMA EditFormFits ==
  ASSUME NEW e \in Hires, NEW l \in Levels, NEW r \in Levels
  PROVE  /\ EditForm(e, l, r) \in Forms
         /\ EditForm(e, l, r).does = "edit"
         /\ EditForm(e, l, r).on = e
         /\ EditForm(e, l, r).read = r
  BY DEF EditForm, NoForm, Forms, Levels

LEMMA ArchiveFormFits ==
  ASSUME NEW e \in Hires, NEW b \in BOOLEAN
  PROVE  /\ ArchiveForm(e, b) \in Forms
         /\ ArchiveForm(e, b).does = "archive"
         /\ ArchiveForm(e, b).on = e
  BY DEF ArchiveForm, NoForm, Forms, Levels

LEMMA HireBeginsStep ==
  ASSUME StaffInv, NEW o \in Owners, NEW e \in Hires, HireBegins(o, e) PROVE StaffInv'
<1>1. PICK h \in Forms : /\ h.does = "hire" /\ h.on = e /\ h.login \in Logins
                         /\ form' = [form EXCEPT ![o] = h]
  <2>1. PICK l \in Levels, u \in Logins :
            form' = [form EXCEPT ![o] = HireForm(e, l, u, account[u].row # "none")]
    BY DEF HireBegins, HireForm
  <2>2. PICK b \in BOOLEAN : form' = [form EXCEPT ![o] = HireForm(e, l, u, b)]
    <3>1. (account[u].row # "none") \in BOOLEAN
      OBVIOUS
    <3> QED BY <2>1, <3>1, Zenon
  <2>3. /\ HireForm(e, l, u, b) \in Forms
        /\ HireForm(e, l, u, b).does = "hire"
        /\ HireForm(e, l, u, b).on = e
        /\ HireForm(e, l, u, b).login \in Logins
    BY HireFormFits
  <2> QED BY <2>2, <2>3, Zenon
<1> USE DEF StaffInv
<1>3. StaffTypeOK'
  BY <1>1 DEF HireBegins, StaffTypeOK, Forms
<1>4. HireAlone'
  BY <1>1 DEF HireBegins, HireAlone, StaffTypeOK, OnTeam
<1>5. EditsOfTeam' /\ ReadStands'
  BY <1>1 DEF HireBegins, EditsOfTeam, ReadStands, StaffTypeOK, OnTeam
<1>6. StrangersHaveNone' /\ AccountsFit'
  BY DEF HireBegins, StrangersHaveNone, AccountsFit, EveryPersonCanSignIn,
         AccountMatchesPerson, OnTeam
<1> QED BY <1>3, <1>4, <1>5, <1>6

\* An edit or an archiving begins: form h of o is about e, who is on the team.
LEMMA TeamFormStep ==
  ASSUME StaffInv, NEW o \in Owners, NEW e \in Hires, OnTeam(e),
         UNCHANGED <<person, account>>,
         NEW h \in Forms, h.does \in {"edit", "archive"}, h.on = e,
         h.does = "edit" => h.read = person[e].level,
         form' = [form EXCEPT ![o] = h]
  PROVE  StaffInv'
<1> USE DEF StaffInv
<1>1. StaffTypeOK'
  BY DEF StaffTypeOK, Forms
<1>2. HireAlone'
  BY DEF HireAlone, StaffTypeOK, OnTeam
<1>3. EditsOfTeam' /\ ReadStands'
  BY DEF EditsOfTeam, ReadStands, StaffTypeOK, OnTeam
<1>4. StrangersHaveNone' /\ AccountsFit'
  BY DEF StrangersHaveNone, AccountsFit, EveryPersonCanSignIn, AccountMatchesPerson, OnTeam
<1> QED BY <1>1, <1>2, <1>3, <1>4

LEMMA EditBeginsStep ==
  ASSUME StaffInv, NEW o \in Owners, NEW e \in Hires, EditBegins(o, e) PROVE StaffInv'
<1>1. person[e].level \in Levels
  BY DEF StaffInv, StaffTypeOK
<1>2. PICK h \in Forms : /\ h.does = "edit" /\ h.on = e /\ h.read = person[e].level
                         /\ form' = [form EXCEPT ![o] = h]
  <2>1. PICK l \in Levels : form' = [form EXCEPT ![o] = EditForm(e, l, person[e].level)]
    BY DEF EditBegins, EditForm
  <2>2. /\ EditForm(e, l, person[e].level) \in Forms
        /\ EditForm(e, l, person[e].level).does = "edit"
        /\ EditForm(e, l, person[e].level).on = e
        /\ EditForm(e, l, person[e].level).read = person[e].level
    BY <1>1, EditFormFits
  <2> QED BY <2>1, <2>2, Zenon
<1> QED BY <1>2, TeamFormStep DEF EditBegins

LEMMA ArchiveBeginsStep ==
  ASSUME StaffInv, NEW o \in Owners, NEW e \in Hires, ArchiveBegins(o, e) PROVE StaffInv'
<1>1. (person[e].row = "active") \in BOOLEAN
  OBVIOUS
<1>2. PICK h \in Forms : /\ h.does = "archive" /\ h.on = e
                         /\ form' = [form EXCEPT ![o] = h]
  <2>1. form' = [form EXCEPT ![o] = ArchiveForm(e, person[e].row = "active")]
    BY DEF ArchiveBegins, ArchiveForm
  <2> QED BY <1>1, <2>1, ArchiveFormFits, Zenon
<1> QED BY <1>2, TeamFormStep DEF ArchiveBegins

\* A request that ends without having written anything.
LEMMA DroppedStep ==
  ASSUME StaffInv, NEW o \in Owners, Dropped(o), UNCHANGED <<person, account>>
  PROVE  StaffInv'
<1> USE DEF StaffInv
<1>1. form' = [form EXCEPT ![o] = NoForm] /\ NoForm \in Forms /\ NoForm.does = "nothing"
      /\ NoForm.on = NoLogin
  BY NoFormType DEF Dropped, NoForm
<1>2. StaffTypeOK'
  BY <1>1 DEF StaffTypeOK, Forms
<1>3. HireAlone' /\ EditsOfTeam' /\ ReadStands'
  BY <1>1, NoLoginApart DEF HireAlone, EditsOfTeam, ReadStands, StaffTypeOK, OnTeam
<1>4. StrangersHaveNone' /\ AccountsFit'
  BY DEF StrangersHaveNone, AccountsFit, EveryPersonCanSignIn, AccountMatchesPerson, OnTeam
<1> QED BY <1>2, <1>3, <1>4

\* The request runs again: what it reads anew is what stands.
LEMMA RunsAgainStep ==
  ASSUME StaffInv, NEW o \in Owners, RunsAgain(o) PROVE StaffInv'
<1> DEFINE f == form[o]
<1>1. f \in Forms /\ f.on \in Hires /\ f.does \in {"edit", "archive"}
  BY DEF StaffInv, StaffTypeOK, Forms, EditsOfTeam, RunsAgain
<1>2. PICK h \in Forms : /\ h.does = f.does /\ h.on = f.on
                         /\ h.does = "edit" => h.read = person[f.on].level
                         /\ form' = [form EXCEPT ![o] = h]
  <2>1. person[f.on].level \in Levels /\ (person[f.on].row = "active") \in BOOLEAN
    BY <1>1 DEF StaffInv, StaffTypeOK
  <2>2. CASE f.does = "edit"
    <3>1. form' = [form EXCEPT ![o] = [f EXCEPT !.behind = FALSE,
                                                !.read = person[f.on].level]]
      BY <1>1, <2>2 DEF RunsAgain, StaffInv, StaffTypeOK
    <3> QED BY <1>1, <2>1, <2>2, <3>1 DEF Forms
  <2>3. CASE f.does = "archive"
    <3>1. form' = [form EXCEPT ![o] = [f EXCEPT !.behind = FALSE,
                                                !.wasActive = (person[f.on].row = "active")]]
      BY <1>1, <2>3 DEF RunsAgain, StaffInv, StaffTypeOK
    <3> QED BY <1>1, <2>1, <2>3, <3>1 DEF Forms
  <2> QED BY <1>1, <2>2, <2>3
<1>3. OnTeam(f.on)
  BY <1>1 DEF StaffInv, EditsOfTeam
<1>4. UNCHANGED <<person, account>>
  BY DEF RunsAgain
<1>5. /\ h.does \in {"edit", "archive"} /\ h.on = form[o].on
      /\ h.does = "edit" => h.read = person[form[o].on].level
      /\ form' = [form EXCEPT ![o] = h]
  BY <1>1, <1>2
<1> HIDE DEF f
<1> QED BY <1>1, <1>2, <1>3, <1>4, <1>5, TeamFormStep DEF f

-----------------------------------------------------------------------------
(* The steps that write a person and her account.                          *)

\* A hire that is let in: her name is new, and nobody else has her username.
LEMMA HiredStep ==
  ASSUME StaffInv, NEW o \in Owners, form[o].does = "hire",
         account[form[o].login].row = "none",
         person'  = [person EXCEPT ![form[o].on] =
                       [row |-> "active", level |-> form[o].level, login |-> form[o].login]],
         account' = [account EXCEPT ![form[o].login] =
                       [row |-> "active", group |-> form[o].level, base |-> BaseGroup(form[o].level)]],
         Dropped(o)
  PROVE  StaffInv'
<1> USE DEF StaffInv
<1>1. PICK e \in Hires, u \in Logins, l \in Levels :
          /\ e = form[o].on /\ u = form[o].login /\ l = form[o].level
          /\ ~OnTeam(e) /\ \A p \in Owners \ {o} : form[p].on # e
  BY DEF HireAlone, StaffTypeOK
<1>2. /\ person'  = [person EXCEPT ![e] = [row |-> "active", level |-> l, login |-> u]]
      /\ account' = [account EXCEPT ![u] = [row |-> "active", group |-> l, base |-> BaseGroup(l)]]
  BY <1>1
<1>3. form' = [form EXCEPT ![o] = NoForm] /\ NoForm \in Forms /\ NoForm.does = "nothing"
      /\ NoForm.on = NoLogin
  BY NoFormType DEF Dropped, NoForm
<1>4. \A d \in Hires : person[d].login # u
  BY <1>1, NoLoginApart
  DEF AccountsFit, AccountMatchesPerson, StrangersHaveNone, StaffTypeOK
<1>5. StaffTypeOK'
  <2>1. person' \in [Hires -> [row : {"none", "active", "archived"}, level : Levels,
                               login : Logins \cup {NoLogin}]]
    <3>1. [row |-> "active", level |-> l, login |-> u]
             \in [row : {"none", "active", "archived"}, level : Levels,
                  login : Logins \cup {NoLogin}]
      OBVIOUS
    <3> QED BY <1>2, <3>1 DEF StaffTypeOK
  <2>2. account' \in [Logins -> [row : {"none", "active", "archived"}, group : Levels,
                                 base : {"internal", "portal"}]]
    <3>1. [row |-> "active", group |-> l, base |-> BaseGroup(l)]
             \in [row : {"none", "active", "archived"}, group : Levels,
                  base : {"internal", "portal"}]
      BY DEF BaseGroup
    <3> QED BY <1>2, <3>1 DEF StaffTypeOK
  <2>3. form' \in [Owners -> Forms]
    BY <1>3 DEF StaffTypeOK, Forms
  <2> QED BY <2>1, <2>2, <2>3 DEF StaffTypeOK, Forms
<1>6. HireAlone'
  BY <1>1, <1>2, <1>3, NoLoginApart DEF HireAlone, StaffTypeOK, OnTeam
<1>7. EditsOfTeam' /\ ReadStands'
  BY <1>1, <1>2, <1>3 DEF EditsOfTeam, ReadStands, StaffTypeOK, OnTeam
<1>8. StrangersHaveNone'
  BY <1>1, <1>2 DEF StrangersHaveNone, StaffTypeOK
<1>9. EveryPersonCanSignIn'
  BY <1>1, <1>2, <1>4, NoLoginApart DEF AccountsFit, EveryPersonCanSignIn, StaffTypeOK, OnTeam
<1>10. AccountMatchesPerson'
  BY <1>1, <1>2, <1>4 DEF AccountsFit, AccountMatchesPerson, StaffTypeOK
<1> QED BY <1>5, <1>6, <1>7, <1>8, <1>9, <1>10 DEF AccountsFit

\* Ending a request and putting the others behind keeps the forms in their type.
LEMMA ClosedForms ==
  ASSUME StaffTypeOK, NEW o \in Owners, NEW e \in Hires, Closed(o, e)
  PROVE  form' \in [Owners -> Forms]
<1>1. \A p \in Owners : form[p] \in Forms /\ [form[p] EXCEPT !.behind = TRUE] \in Forms
  BY DEF StaffTypeOK, Forms
<1> QED BY <1>1, NoFormType DEF Closed

\* A write of person e by o, who is done; those who read e before are behind.
LEMMA ClosedStep ==
  ASSUME StaffInv, NEW o \in Owners, NEW e \in Hires, OnTeam(e), Closed(o, e),
         NEW n, n \in [row : {"active", "archived"}, level : Levels, login : {person[e].login}],
         person'  = [person EXCEPT ![e] = n],
         StaffTypeOK', AccountMatchesPerson'
  PROVE  StaffInv'
<1> USE DEF StaffInv
<1>1. \A p \in Owners :
          /\ p # o => /\ form'[p].does = form[p].does /\ form'[p].on = form[p].on
                      /\ form'[p].login = form[p].login /\ form'[p].read = form[p].read
                      /\ form[p].on # e => form'[p].behind = form[p].behind
                      /\ form[p].on = e => form'[p].behind
          /\ p = o => form'[p] = NoForm
  <2>1. ASSUME NEW p \in Owners, p # o, form[p].on # e PROVE form'[p] = form[p]
    BY <2>1 DEF Closed
  <2>2. ASSUME NEW p \in Owners, p # o, form[p].on = e
        PROVE  form'[p] = [form[p] EXCEPT !.behind = TRUE]
    BY <2>2 DEF Closed
  <2>3. form'[o] = NoForm
    BY DEF Closed
  <2>4. ASSUME NEW p \in Owners, p # o, form[p].on = e
        PROVE  /\ form'[p].does = form[p].does /\ form'[p].on = form[p].on
               /\ form'[p].login = form[p].login /\ form'[p].read = form[p].read
               /\ form'[p].behind
    <3>1. form[p] \in Forms
      BY DEF StaffTypeOK, Forms
    <3> QED BY <2>2, <2>4, <3>1 DEF Forms
  <2> QED BY <2>1, <2>3, <2>4
<1>2. NoForm.does = "nothing" /\ NoForm.on = NoLogin
  BY DEF NoForm
<1>3. \A d \in Hires : /\ person'[d].login = person[d].login
                       /\ (person'[d].row = "none") <=> (person[d].row = "none")
                       /\ d # e => person'[d] = person[d]
  BY DEF StaffTypeOK, OnTeam
<1>4. HireAlone'
  BY <1>1, <1>2, <1>3, NoLoginApart DEF HireAlone, OnTeam
<1>5. EditsOfTeam'
  BY <1>1, <1>2, <1>3 DEF EditsOfTeam, OnTeam
<1>6. ReadStands'
  BY <1>1, <1>2, <1>3, <1>5 DEF ReadStands, EditsOfTeam
<1>7. StrangersHaveNone' /\ EveryPersonCanSignIn'
  BY <1>3 DEF StrangersHaveNone, AccountsFit, EveryPersonCanSignIn, OnTeam
<1> QED BY <1>4, <1>5, <1>6, <1>7 DEF AccountsFit

LEMMA EditedStep ==
  ASSUME StaffInv, NEW o \in Owners, form[o].does = "edit", ~form[o].behind, Edited(o)
  PROVE  StaffInv'
<1> USE DEF StaffInv
<1>1. PICK e \in Hires, l \in Levels :
          /\ e = form[o].on /\ l = form[o].level /\ OnTeam(e)
          /\ form[o].read = person[e].level
  BY DEF EditsOfTeam, ReadStands, StaffTypeOK
<1>2. PICK u \in Logins : u = person[e].login
  BY <1>1 DEF AccountsFit, EveryPersonCanSignIn, StaffTypeOK
<1>3. person[e] \in [row : {"active", "archived"}, level : Levels, login : {u}]
  BY <1>1, <1>2 DEF OnTeam, StaffTypeOK
<1>4. PICK n \in [row : {"active", "archived"}, level : Levels, login : {u}] :
          /\ n.level = l /\ n.row = person[e].row
          /\ person' = [person EXCEPT ![e] = n]
  <2>1. [person[e] EXCEPT !.level = l]
           \in [row : {"active", "archived"}, level : Levels, login : {u}]
    BY <1>3
  <2>2. person' = [person EXCEPT ![e] = [person[e] EXCEPT !.level = l]]
    BY <1>1 DEF Edited, StaffTypeOK
  <2> QED BY <1>3, <2>1, <2>2
<1>5. account' = [account EXCEPT ![u].group = l]
  <2>1. CASE l = person[e].level
    <3>1. account[u].group = l
      BY <1>1, <1>2, <2>1, NoLoginApart DEF AccountsFit, AccountMatchesPerson
    <3>2. account' = account
      BY <1>1, <2>1 DEF Edited
    <3> QED BY <3>1, <3>2 DEF StaffTypeOK
  <2>2. CASE l # person[e].level
    BY <1>1, <1>2, <2>2, NoLoginApart DEF Edited
  <2> QED BY <2>1, <2>2
<1>6. Closed(o, e)
  BY <1>1 DEF Edited
<1>7. StaffTypeOK'
  <2>1. person' \in [Hires -> [row : {"none", "active", "archived"}, level : Levels,
                               login : Logins \cup {NoLogin}]]
    <3>1. n \in [row : {"none", "active", "archived"}, level : Levels,
                 login : Logins \cup {NoLogin}]
      OBVIOUS
    <3> QED BY <1>4, <3>1 DEF StaffTypeOK
  <2>2. account' \in [Logins -> [row : {"none", "active", "archived"}, group : Levels,
                                 base : {"internal", "portal"}]]
    BY <1>5 DEF StaffTypeOK
  <2>3. form' \in [Owners -> Forms]
    BY <1>6, ClosedForms
  <2> QED BY <2>1, <2>2, <2>3 DEF StaffTypeOK, Forms
<1>8. AccountMatchesPerson'
  BY <1>1, <1>2, <1>3, <1>4, <1>5, NoLoginApart
  DEF AccountsFit, EveryPersonCanSignIn, AccountMatchesPerson, StaffTypeOK, OnTeam, StrangersHaveNone
<1> QED BY <1>1, <1>2, <1>4, <1>6, <1>7, <1>8, ClosedStep

LEMMA ArchivedStep ==
  ASSUME StaffInv, NEW o \in Owners, form[o].does = "archive", Archived(o)
  PROVE  StaffInv'
<1> USE DEF StaffInv
<1>1. PICK e \in Hires : e = form[o].on /\ OnTeam(e)
  BY DEF EditsOfTeam
<1>2. PICK u \in Logins : u = person[e].login
  BY <1>1 DEF AccountsFit, EveryPersonCanSignIn, StaffTypeOK
<1>3. person[e] \in [row : {"active", "archived"}, level : Levels, login : {u}]
  BY <1>1, <1>2 DEF OnTeam, StaffTypeOK
<1>4. PICK r \in {"archived", "active"} :
          /\ person'  = [person EXCEPT ![e].row = r]
          /\ account' = [account EXCEPT ![u].row = r]
  BY <1>1, <1>2, NoLoginApart DEF Archived, AccountFollows
<1>5. PICK n \in [row : {"active", "archived"}, level : Levels, login : {u}] :
          /\ n.level = person[e].level /\ n.row = r
          /\ person' = [person EXCEPT ![e] = n]
  <2>1. [person[e] EXCEPT !.row = r]
           \in [row : {"active", "archived"}, level : Levels, login : {u}]
    BY <1>3
  <2>2. person' = [person EXCEPT ![e] = [person[e] EXCEPT !.row = r]]
    BY <1>4 DEF StaffTypeOK
  <2> QED BY <1>3, <2>1, <2>2
<1>6. Closed(o, e)
  BY <1>1 DEF Archived
<1>7. StaffTypeOK'
  <2>1. person' \in [Hires -> [row : {"none", "active", "archived"}, level : Levels,
                               login : Logins \cup {NoLogin}]]
    <3>1. n \in [row : {"none", "active", "archived"}, level : Levels,
                 login : Logins \cup {NoLogin}]
      OBVIOUS
    <3> QED BY <1>5, <3>1 DEF StaffTypeOK
  <2>2. account' \in [Logins -> [row : {"none", "active", "archived"}, group : Levels,
                                 base : {"internal", "portal"}]]
    BY <1>4 DEF StaffTypeOK
  <2>3. form' \in [Owners -> Forms]
    BY <1>6, ClosedForms
  <2> QED BY <2>1, <2>2, <2>3 DEF StaffTypeOK, Forms
<1>8. AccountMatchesPerson'
  BY <1>1, <1>2, <1>3, <1>4, <1>5, NoLoginApart
  DEF AccountsFit, EveryPersonCanSignIn, AccountMatchesPerson, StaffTypeOK, OnTeam, StrangersHaveNone
<1> QED BY <1>1, <1>2, <1>5, <1>6, <1>7, <1>8, ClosedStep

LEMMA HireSubmittedStep ==
  ASSUME StaffInv, NEW o \in Owners, HireSubmitted(o) PROVE StaffInv'
<1>1. CASE form[o].behind \/ account[form[o].login].row # "none"
  BY <1>1, DroppedStep DEF HireSubmitted, Refused
<1>2. CASE ~form[o].behind /\ account[form[o].login].row = "none"
  BY <1>2, HiredStep DEF HireSubmitted
<1> QED BY <1>1, <1>2

LEMMA StaffStep == StaffInv /\ [StaffNext]_staffVars => StaffInv'
<1> SUFFICES ASSUME StaffInv, [StaffNext]_staffVars PROVE StaffInv'
    OBVIOUS
<1>1. CASE UNCHANGED staffVars
  BY <1>1
  DEF staffVars, StaffInv, StaffTypeOK, StrangersHaveNone, HireAlone, EditsOfTeam,
      ReadStands, AccountsFit, EveryPersonCanSignIn, AccountMatchesPerson, OnTeam
<1>2. ASSUME NEW o \in Owners, HireSubmitted(o) \/ SaveForm(o) \/ RunsAgain(o)
      PROVE  StaffInv'
  BY <1>2, HireSubmittedStep, EditedStep, ArchivedStep, RunsAgainStep DEF SaveForm
<1>3. ASSUME NEW o \in Owners, NEW e \in Hires,
             HireBegins(o, e) \/ EditBegins(o, e) \/ ArchiveBegins(o, e)
      PROVE  StaffInv'
  BY <1>3, HireBeginsStep, EditBeginsStep, ArchiveBeginsStep
<1> QED BY <1>1, <1>2, <1>3 DEF StaffNext

-----------------------------------------------------------------------------

\* Whatever owners hire, edit and archive at once, everybody on the team signs in
\* with an account of her own that is in the boutique's group of her level and has her
\* mark (staff_new_submit, staff_edit_submit, staff_archive). The base group, internal
\* or portal, is not claimed to follow: an edit leaves it, as OnlyOwnersAreInternal shows.
THEOREM AccountsAlwaysFit == StaffSpec => []AccountsFit
<1>1. StaffInv => AccountsFit
  BY DEF StaffInv
<1> QED BY StaffInitInv, StaffStep, <1>1, PTL DEF StaffSpec

-----------------------------------------------------------------------------
(*****************************************************************************)
(* Closures.                                                                 *)
(*                                                                           *)
(* A fitting in a dark shop has its excuse, for any number of fittings and   *)
(* closures. The invariant says the same of bookings still under way and     *)
(* of closures still being entered: each side has either seen the other or   *)
(* overlapped with it.                                                       *)
(*****************************************************************************)

\* The fittings in the middle of the date, which the count of a closure reaches.
Midday == {f \in DayFittings : fit[f].part = "day"}

\* Whoever is still booking began before the date was closed.
BookersExcused == IsClosed => booking \cap Midday \subseteq raced

\* Whoever has booked while a closure is being entered crossed it.
ClosersExcused == closing # {} => Live \cap Midday \subseteq raced

\* The row whose button has been pressed has been entered before.
TurnedExists == turning # NotTurning => /\ turning.row \in ClosureRows
                                        /\ closure[turning.row] # "none"

ClosureInv ==
    /\ ClosureTypeOK
    /\ TurnedExists
    /\ DarkShopIsExcused
    /\ BookersExcused
    /\ ClosersExcused

-----------------------------------------------------------------------------

LEMMA ClosureInitInv == ClosureInit => ClosureInv
<1> SUFFICES ASSUME ClosureInit PROVE ClosureInv
    OBVIOUS
<1>1. ClosureTypeOK
  <2>1. fit \in [DayFittings -> [row : {"none", "live", "cancelled"}, part : Parts]]
    BY DEF ClosureInit
  <2> QED BY <2>1 DEF ClosureInit, ClosureTypeOK, NotTurning
<1>2. Live = {} /\ closing = {} /\ booking = {} /\ turning = NotTurning
  BY DEF ClosureInit, Live
<1> QED
  BY <1>1, <1>2
  DEF ClosureInv, TurnedExists, DarkShopIsExcused, BookersExcused, ClosersExcused

LEMMA ClosureTypeStep ==
  ASSUME ClosureTypeOK, TurnedExists, [ClosureNext]_closureVars
  PROVE  ClosureTypeOK' /\ TurnedExists'
<1> USE DEF ClosureTypeOK, TurnedExists, Live
<1>1. ASSUME NEW f \in DayFittings, BookingStarts(f) PROVE ClosureTypeOK' /\ TurnedExists'
  BY <1>1 DEF BookingStarts
<1>2. ASSUME NEW f \in DayFittings, BookingEnds(f) PROVE ClosureTypeOK' /\ TurnedExists'
  BY <1>2 DEF BookingEnds
<1>3. ASSUME NEW f \in DayFittings, Cancel(f) PROVE ClosureTypeOK' /\ TurnedExists'
  BY <1>3 DEF Cancel
<1>4. ASSUME NEW c \in ClosureRows, ClosingStarts(c) PROVE ClosureTypeOK' /\ TurnedExists'
  BY <1>4 DEF ClosingStarts
<1>5. ASSUME NEW c \in ClosureRows, ClosingEnds(c) PROVE ClosureTypeOK' /\ TurnedExists'
  BY <1>5 DEF ClosingEnds
<1>6. ASSUME NEW c \in ClosureRows, TurnStarts(c) PROVE ClosureTypeOK' /\ TurnedExists'
  BY <1>6 DEF TurnStarts
<1>7. ASSUME TurnEnds PROVE ClosureTypeOK' /\ TurnedExists'
  BY <1>7 DEF TurnEnds, NotTurning
<1>8. CASE UNCHANGED closureVars
  BY <1>8 DEF closureVars
<1> QED BY <1>1, <1>2, <1>3, <1>4, <1>5, <1>6, <1>7, <1>8 DEF ClosureNext

\* The three excuses hold each other up, so they are taken together.
LEMMA ExcusesStep ==
  ASSUME ClosureInv, [ClosureNext]_closureVars
  PROVE  DarkShopIsExcused' /\ BookersExcused' /\ ClosersExcused'
<1> DEFINE Excused == DarkShopIsExcused /\ BookersExcused /\ ClosersExcused
<1> USE DEF ClosureInv, ClosureTypeOK, DarkShopIsExcused, BookersExcused, ClosersExcused,
            Midday, Live, IsClosed
<1>1. ASSUME NEW f \in DayFittings, BookingStarts(f) PROVE Excused'
  BY <1>1 DEF BookingStarts, OffersPart
<1>2. ASSUME NEW f \in DayFittings, BookingEnds(f) PROVE Excused'
  BY <1>2 DEF BookingEnds
<1>3. ASSUME NEW f \in DayFittings, Cancel(f) PROVE Excused'
  BY <1>3 DEF Cancel
<1>4. ASSUME NEW c \in ClosureRows, ClosingStarts(c) PROVE Excused'
  BY <1>4 DEF ClosingStarts, Counted
<1>5. ASSUME NEW c \in ClosureRows, ClosingEnds(c) PROVE Excused'
  BY <1>5 DEF ClosingEnds
<1>6. ASSUME NEW c \in ClosureRows, TurnStarts(c) PROVE Excused'
  BY <1>6 DEF TurnStarts
<1>7. ASSUME TurnEnds PROVE Excused'
  <2>1. CASE turning.was = "archived"
    BY <1>7, <2>1 DEF TurnEnds
  <2>2. CASE turning.was # "archived"
    <3>1. IsClosed' => IsClosed
      BY <1>7, <2>2 DEF TurnEnds
    <3> QED BY <1>7, <2>2, <3>1 DEF TurnEnds
  <2> QED BY <2>1, <2>2
<1>8. CASE UNCHANGED closureVars
  BY <1>8 DEF closureVars
<1> QED BY <1>1, <1>2, <1>3, <1>4, <1>5, <1>6, <1>7, <1>8 DEF ClosureNext

-----------------------------------------------------------------------------

LEMMA ClosureStep == ClosureInv /\ [ClosureNext]_closureVars => ClosureInv'
BY ClosureTypeStep, ExcusesStep DEF ClosureInv

\* A bride is left with a fitting in a dark shop only if her booking crossed the
\* closure, a closure was switched back on over her, or her hour is not counted
\* (closure_new, closure_archive and book_submit of one date).
THEOREM DarkShopExcused == ClosureSpec => []DarkShopIsExcused
<1>1. ClosureInv => DarkShopIsExcused
  BY DEF ClosureInv
<1> QED BY ClosureInitInv, ClosureStep, <1>1, PTL DEF ClosureSpec

-----------------------------------------------------------------------------
(*****************************************************************************)
(* OwnerLists.                                                               *)
(*                                                                           *)
(* The lists an owner keeps, for any names and owners and whichever way a    *)
(* list is guarded. The invariant follows two who found a name free: while   *)
(* both are adding it, and from when the first has, the name is among the    *)
(* twins.                                                                    *)
(*****************************************************************************)

\* A request to add asks for a name, and one to archive is about a row there is.
FormsFilled ==
    \A v \in Visitors :
        /\ entry[v].does = "add" => entry[v].name \in Names
        /\ entry[v].does = "archive" => entry[v].row \in Rows

AddsName(v, n) == entry[v].does = "add" /\ entry[v].name = n /\ ~entry[v].clash

\* Two who found a name free were adding it at once.
TwoAddersAreTwins ==
    \A v, w \in Visitors : \A n \in Names : v # w /\ AddsName(v, n) /\ AddsName(w, n) => n \in twins

\* So were, once, one who found a name free and whoever has added it since.
LateAdderIsTwin ==
    \A v \in Visitors : \A n \in Names : AddsName(v, n) /\ Taken(n, 0) => n \in twins

ListInv ==
    /\ ListTypeOK
    /\ FormsFilled
    /\ TwoAddersAreTwins
    /\ LateAdderIsTwin
    /\ DoubleNeedsOverlap
    /\ IndexedHasNoDouble

\* The rows are the first ones, as many as there are.
LEMMA RowsAreTheFirst ==
    ASSUME ListTypeOK
    PROVE  Cardinality(Rows) \in Nat /\ Rows = 1..Cardinality(Rows)
<1> DEFINE m == Cardinality(Rows)
<1>1. Rows \subseteq 1..MaxRows
    BY DEF Rows
<1>2. IsFiniteSet(1..MaxRows)
    BY MaxRowsNat, FS_Interval
<1>3. IsFiniteSet(Rows) /\ m \in Nat
    BY <1>1, <1>2, FS_Subset, FS_CardinalityType
<1>4. Rows \subseteq 1..m
    <2> SUFFICES ASSUME NEW i \in Rows PROVE i \in 1..m
        OBVIOUS
    <2>1. i \in 1..MaxRows /\ 1..i \subseteq Rows
        BY <1>1 DEF ListTypeOK
    <2>2. i \in Int /\ 1 <= i
        BY <2>1, MaxRowsNat
    <2>3. Cardinality(1..i) = i
        BY <2>2, FS_Interval
    <2>4. Cardinality(1..i) <= m
        BY <1>3, <2>1, FS_Subset
    <2> QED
        BY <1>3, <2>2, <2>3, <2>4
<1>5. IsFiniteSet(1..m) /\ Cardinality(1..m) = m
    BY <1>3, FS_Interval
<1>6. Rows = 1..m
    BY <1>3, <1>4, <1>5, FS_Subset
<1> QED
    BY <1>3, <1>6

LEMMA ListInitInv == ListInit => ListInv
<1> SUFFICES ASSUME ListInit PROVE ListInv
    OBVIOUS
<1>1. Rows = {}
    BY DEF ListInit, Rows
<1>2. NoEntry \in [does : {"nothing", "add", "archive"}, name : Names \cup {NoName},
                   row : 0..MaxRows, clash : BOOLEAN, wasActive : BOOLEAN, behind : BOOLEAN]
    BY MaxRowsNat DEF NoEntry
<1>3. ListTypeOK
    BY <1>1, <1>2 DEF ListInit, ListTypeOK
<1>4. FormsFilled /\ TwoAddersAreTwins /\ LateAdderIsTwin
    BY DEF ListInit, NoEntry, FormsFilled, AddsName, TwoAddersAreTwins, LateAdderIsTwin
<1>5. Doubles = {}
    BY <1>1 DEF Doubles
<1> QED
    BY <1>3, <1>4, <1>5 DEF ListInv, DoubleNeedsOverlap, IndexedHasNoDouble

\* What a visitor does to the form alone.
LEMMA SameList ==
    ASSUME UNCHANGED <<kind, list>>
    PROVE  /\ Rows' = Rows /\ Doubles' = Doubles
           /\ \A n : Taken(n, 0)' = Taken(n, 0)
BY DEF Rows, Doubles, Taken

Entries == [does : {"nothing", "add", "archive"}, name : Names \cup {NoName},
            row : 0..MaxRows, clash : BOOLEAN, wasActive : BOOLEAN, behind : BOOLEAN]

LEMMA OverStep ==
    ASSUME ListInv, NEW v \in Visitors, Over(v), UNCHANGED <<kind, list, twins>>
    PROVE  ListInv'
<1>1. NoEntry \in Entries
    BY MaxRowsNat DEF NoEntry, Entries
<1>2. /\ entry' \in [Visitors -> Entries]
      /\ entry'[v] = NoEntry /\ \A w \in Visitors \ {v} : entry'[w] = entry[w]
    BY <1>1 DEF Over, ListInv, ListTypeOK, Entries
<1>3. ListTypeOK'
    BY <1>2, SameList DEF ListInv, ListTypeOK, Entries
<1>4. FormsFilled'
    BY <1>2, SameList DEF ListInv, FormsFilled, NoEntry
<1>5. TwoAddersAreTwins' /\ LateAdderIsTwin'
    BY <1>2, SameList DEF ListInv, TwoAddersAreTwins, LateAdderIsTwin, AddsName, NoEntry
<1> QED
    BY <1>3, <1>4, <1>5, SameList DEF ListInv, DoubleNeedsOverlap, IndexedHasNoDouble

LEMMA AddBeginsStep ==
    ASSUME ListInv, NEW v \in Visitors, NEW n \in Names, AddBegins(v, n)
    PROVE  ListInv'
<1> DEFINE e == [NoEntry EXCEPT !.does = "add", !.name = n, !.clash = Taken(n, 0)]
<1>1. e \in Entries
    <2>1. ASSUME NEW b \in BOOLEAN
          PROVE  [NoEntry EXCEPT !.does = "add", !.name = n, !.clash = b] \in Entries
        <3>1. NoEntry \in Entries
            BY MaxRowsNat DEF NoEntry, Entries
        <3>2. ASSUME NEW a \in Entries
              PROVE  [a EXCEPT !.does = "add", !.name = n, !.clash = b] \in Entries
            BY DEF Entries
        <3> QED
            BY <3>1, <3>2
    <2>2. Taken(n, 0) \in BOOLEAN
        BY DEF Taken
    <2> QED
        BY <2>1, <2>2
<1>2. e.does = "add" /\ e.name = n /\ (e.clash <=> Taken(n, 0))
    BY DEF NoEntry
<1>3. entry' = [entry EXCEPT ![v] = e] /\ UNCHANGED <<kind, list>>
    BY DEF AddBegins
<1>4. twins \subseteq twins' /\ twins' \subseteq Names
        /\ \A w \in Visitors : AddsName(w, n) => n \in twins'
    BY DEF AddBegins, ListInv, ListTypeOK, AddsName
<1> HIDE DEF e
<1>5. /\ entry' \in [Visitors -> Entries]
      /\ entry'[v] = e /\ \A w \in Visitors \ {v} : entry'[w] = entry[w]
    BY <1>1, <1>3 DEF ListInv, ListTypeOK, Entries
<1>6. ListTypeOK'
    BY <1>3, <1>4, <1>5, SameList DEF ListInv, ListTypeOK, Entries
<1>7. FormsFilled'
    BY <1>2, <1>3, <1>5, SameList DEF ListInv, FormsFilled
<1>8. TwoAddersAreTwins'
    BY <1>2, <1>4, <1>5 DEF ListInv, TwoAddersAreTwins, AddsName
<1>9. LateAdderIsTwin'
    BY <1>2, <1>3, <1>4, <1>5, SameList DEF ListInv, LateAdderIsTwin, AddsName
<1> QED
    BY <1>3, <1>4, <1>6, <1>7, <1>8, <1>9, SameList DEF ListInv, DoubleNeedsOverlap, IndexedHasNoDouble

LEMMA AddCommitsStep == ASSUME ListInv, NEW v \in Visitors, AddCommits(v) PROVE ListInv'
<1> DEFINE n == entry[v].name
           k == Cardinality(Rows) + 1
<1>1. /\ n \in Names /\ AddsName(v, n) /\ IndexAllows(n) /\ Cardinality(Rows) < MaxRows
      /\ list' = [list EXCEPT ![k].name = n] /\ Over(v) /\ UNCHANGED <<kind, twins>>
    BY DEF AddCommits, AddsName, ListInv, FormsFilled
<1>2. Cardinality(Rows) \in Nat /\ Rows = 1..(k - 1) /\ k \in 1..MaxRows /\ k \notin Rows
    BY <1>1, MaxRowsNat, RowsAreTheFirst DEF ListInv
<1> HIDE DEF k
<1> DEFINE r == [list[k] EXCEPT !.name = n]
<1>3. r \in [name : Names \cup {NoName}, active : BOOLEAN] /\ r.name = n
    BY <1>1, <1>2 DEF ListInv, ListTypeOK
<1>4. list' = [list EXCEPT ![k] = r]
    BY <1>1
<1> HIDE DEF r
<1>5. /\ list' \in [1..MaxRows -> [name : Names \cup {NoName}, active : BOOLEAN]]
      /\ list'[k] = r /\ \A i \in (1..MaxRows) \ {k} : list'[i] = list[i]
    BY <1>2, <1>3, <1>4 DEF ListInv, ListTypeOK
<1>6. Rows' = Rows \cup {k}
    BY <1>1, <1>2, <1>3, <1>5, NoNameApart DEF Rows
<1>7. \A i \in 1..MaxRows : i \in Rows' => 1..i \subseteq Rows'
    <2> SUFFICES ASSUME NEW i \in Rows', NEW j \in 1..i PROVE j \in Rows'
        OBVIOUS
    <2>1. Rows' = 1..k
        BY <1>2, <1>6
    <2> QED
        BY <1>2, <2>1
<1>8. NoEntry \in Entries
    BY MaxRowsNat DEF NoEntry, Entries
<1>9. /\ entry' \in [Visitors -> Entries]
      /\ entry'[v] = NoEntry /\ \A w \in Visitors \ {v} : entry'[w] = entry[w]
    BY <1>1, <1>8 DEF Over, ListInv, ListTypeOK, Entries
<1>10. ListTypeOK'
    BY <1>1, <1>5, <1>7, <1>9 DEF ListInv, ListTypeOK, Entries
<1>11. FormsFilled'
    BY <1>6, <1>9 DEF ListInv, FormsFilled, NoEntry
<1>12. TwoAddersAreTwins'
    BY <1>1, <1>9 DEF ListInv, TwoAddersAreTwins, AddsName, NoEntry
<1>13. LateAdderIsTwin'
    <2> SUFFICES ASSUME NEW w \in Visitors, NEW m \in Names, AddsName(w, m)', Taken(m, 0)'
                 PROVE  m \in twins
        BY <1>1 DEF LateAdderIsTwin
    <2>1. w # v /\ AddsName(w, m)
        BY <1>9 DEF AddsName, NoEntry
    <2>2. CASE m = n
        BY <1>1, <2>1, <2>2 DEF ListInv, TwoAddersAreTwins
    <2>3. CASE m # n
        <3>1. PICK i \in Rows' \ {0} : list'[i].name = m
            BY DEF Taken
        <3>2. i \in Rows \ {0} /\ list[i].name = m
            BY <1>3, <1>5, <1>6, <2>3, <3>1 DEF Rows
        <3> QED
            BY <2>1, <3>2 DEF ListInv, LateAdderIsTwin, Taken
    <2> QED
        BY <2>2, <2>3
<1>14. ASSUME NEW m \in Doubles' PROVE m \in Doubles \/ (m = n /\ \E i \in Rows : list[i].name = n)
    <2>1. PICK i \in Rows', j \in Rows' : i # j /\ list'[i].name = m /\ list'[j].name = m
        BY <1>14 DEF Doubles
    <2>2. m \in Names
        BY <1>14 DEF Doubles
    <2>3. CASE i = k
        <3>1. m = n /\ j \in Rows /\ list[j].name = n
            BY <1>3, <1>5, <1>6, <2>1, <2>3 DEF Rows
        <3> QED
            BY <3>1
    <2>4. CASE j = k
        <3>1. m = n /\ i \in Rows /\ list[i].name = n
            BY <1>3, <1>5, <1>6, <2>1, <2>4 DEF Rows
        <3> QED
            BY <3>1
    <2>5. CASE i # k /\ j # k
        <3>1. i \in Rows /\ j \in Rows /\ list[i].name = m /\ list[j].name = m
            BY <1>5, <1>6, <2>1, <2>5 DEF Rows
        <3> QED
            BY <2>1, <2>2, <3>1 DEF Doubles
    <2> QED
        BY <2>3, <2>4, <2>5
<1>15. DoubleNeedsOverlap'
    <2>1. ASSUME NEW i \in Rows, list[i].name = n PROVE n \in twins
        BY <1>1, <1>2, <2>1 DEF ListInv, LateAdderIsTwin, Taken
    <2> QED
        BY <1>1, <1>14, <2>1 DEF ListInv, DoubleNeedsOverlap
<1>16. IndexedHasNoDouble'
    BY <1>1, <1>14 DEF ListInv, IndexedHasNoDouble, IndexAllows
<1> QED
    BY <1>10, <1>11, <1>12, <1>13, <1>15, <1>16 DEF ListInv

\* Turning a mark changes no name.
LEMMA NamesStay ==
    ASSUME \A i \in 1..MaxRows : list'[i].name = list[i].name
    PROVE  /\ Rows' = Rows /\ Doubles' = Doubles
           /\ \A n : Taken(n, 0)' = Taken(n, 0)
<1>1. Rows' = Rows
    BY DEF Rows
<1>2. \A i \in Rows : list'[i].name = list[i].name
    BY DEF Rows
<1> QED
    BY <1>1, <1>2 DEF Doubles, Taken

LEMMA TurnBeginsStep ==
    ASSUME ListInv, NEW v \in Visitors, NEW i \in Rows, TurnBegins(v, i) PROVE ListInv'
<1> DEFINE e == [NoEntry EXCEPT !.does = "archive", !.row = i, !.wasActive = list[i].active,
                                !.clash = kind = "constrained" /\ Taken(list[i].name, i)]
<1>1. i \in 1..MaxRows /\ i \in 0..MaxRows /\ list[i].active \in BOOLEAN
    BY MaxRowsNat DEF Rows, ListInv, ListTypeOK
<1>2. e \in Entries
    BY <1>1 DEF NoEntry, Entries, Taken
<1>3. e.does = "archive" /\ e.row = i
    BY DEF NoEntry
<1>4. entry' = [entry EXCEPT ![v] = e] /\ UNCHANGED <<kind, list, twins>>
    BY DEF TurnBegins
<1> HIDE DEF e
<1>5. /\ entry' \in [Visitors -> Entries]
      /\ entry'[v] = e /\ \A w \in Visitors \ {v} : entry'[w] = entry[w]
    BY <1>2, <1>4 DEF ListInv, ListTypeOK, Entries
<1>6. ListTypeOK'
    BY <1>4, <1>5, SameList DEF ListInv, ListTypeOK, Entries
<1>7. FormsFilled'
    BY <1>3, <1>4, <1>5, SameList DEF ListInv, FormsFilled
<1>8. TwoAddersAreTwins' /\ LateAdderIsTwin'
    BY <1>3, <1>4, <1>5, SameList DEF ListInv, TwoAddersAreTwins, LateAdderIsTwin, AddsName
<1> QED
    BY <1>4, <1>6, <1>7, <1>8, SameList DEF ListInv, DoubleNeedsOverlap, IndexedHasNoDouble

LEMMA TurnCommitsStep == ASSUME ListInv, NEW v \in Visitors, TurnCommits(v) PROVE ListInv'
<1> DEFINE i == entry[v].row
           r == [list[i] EXCEPT !.active = ~entry[v].wasActive]
<1>1. i \in Rows /\ i \in 1..MaxRows
    BY DEF TurnCommits, ListInv, FormsFilled, Rows
<1>2. r \in [name : Names \cup {NoName}, active : BOOLEAN] /\ r.name = list[i].name
    <2>1. list[i] \in [name : Names \cup {NoName}, active : BOOLEAN]
        BY <1>1 DEF ListInv, ListTypeOK
    <2>2. (~entry[v].wasActive) \in BOOLEAN
        OBVIOUS
    <2>3. ASSUME NEW b \in BOOLEAN, NEW a \in [name : Names \cup {NoName}, active : BOOLEAN]
          PROVE  LET d == [a EXCEPT !.active = b]
                 IN  d \in [name : Names \cup {NoName}, active : BOOLEAN] /\ d.name = a.name
        OBVIOUS
    <2> QED
        BY <2>1, <2>2, <2>3
<1>3. list' = [list EXCEPT ![i] = r] /\ UNCHANGED <<kind, twins>>
    BY DEF TurnCommits
<1> HIDE DEF r
<1>4. /\ list' \in [1..MaxRows -> [name : Names \cup {NoName}, active : BOOLEAN]]
      /\ \A j \in 1..MaxRows : list'[j].name = list[j].name
    BY <1>1, <1>2, <1>3 DEF ListInv, ListTypeOK
<1>5. NoEntry \in Entries
    BY MaxRowsNat DEF NoEntry, Entries
<1>6. \A w \in Visitors \ {v} :
        /\ entry'[w] = [entry[w] EXCEPT !.behind = entry[w].behind \/ entry[w].row = i]
        /\ entry[w] \in Entries
    BY DEF TurnCommits, ListInv, ListTypeOK, Entries
<1>7. \A w \in Visitors \ {v} :
        /\ entry'[w] \in Entries
        /\ entry'[w].does = entry[w].does /\ entry'[w].name = entry[w].name
        /\ entry'[w].row = entry[w].row /\ entry'[w].clash = entry[w].clash
    BY <1>6 DEF Entries
<1>8. entry'[v] = NoEntry /\ entry' = [w \in Visitors |-> entry'[w]]
    BY DEF TurnCommits
<1>9. entry' \in [Visitors -> Entries]
    BY <1>5, <1>7, <1>8
<1>10. ListTypeOK'
    BY <1>3, <1>4, <1>9, NamesStay DEF ListInv, ListTypeOK, Entries
<1>11. FormsFilled'
    BY <1>4, <1>7, <1>8, NamesStay DEF ListInv, FormsFilled, NoEntry
<1>12. \A w \in Visitors : \A n \in Names : AddsName(w, n)' => w # v /\ AddsName(w, n)
    BY <1>7, <1>8 DEF AddsName, NoEntry
<1>13. TwoAddersAreTwins' /\ LateAdderIsTwin'
    BY <1>3, <1>4, <1>12, NamesStay DEF ListInv, TwoAddersAreTwins, LateAdderIsTwin
<1> QED
    BY <1>3, <1>4, <1>10, <1>11, <1>13, NamesStay DEF ListInv, DoubleNeedsOverlap, IndexedHasNoDouble

LEMMA TurnAgainStep == ASSUME ListInv, NEW v \in Visitors, TurnAgain(v) PROVE ListInv'
<1> DEFINE i == entry[v].row
           e == [entry[v] EXCEPT !.behind = FALSE, !.wasActive = list[i].active,
                                 !.clash = kind = "constrained" /\ Taken(list[i].name, i)]
<1>1. i \in Rows /\ i \in 1..MaxRows /\ list[i].active \in BOOLEAN /\ entry[v] \in Entries
    BY DEF TurnAgain, ListInv, ListTypeOK, FormsFilled, Rows, Entries
<1>2. e \in Entries
    BY <1>1 DEF Entries, Taken
<1>3. e.does = "archive" /\ e.row = i
    BY <1>1 DEF TurnAgain, Entries
<1>4. entry' = [entry EXCEPT ![v] = e] /\ UNCHANGED <<kind, list, twins>>
    BY <1>1 DEF TurnAgain, ListInv, ListTypeOK
<1> HIDE DEF e
<1>5. /\ entry' \in [Visitors -> Entries]
      /\ entry'[v] = e /\ \A w \in Visitors \ {v} : entry'[w] = entry[w]
    BY <1>2, <1>4 DEF ListInv, ListTypeOK, Entries
<1>6. ListTypeOK'
    BY <1>4, <1>5, SameList DEF ListInv, ListTypeOK, Entries
<1>7. FormsFilled'
    BY <1>1, <1>3, <1>4, <1>5, SameList DEF ListInv, FormsFilled
<1>8. TwoAddersAreTwins' /\ LateAdderIsTwin'
    BY <1>3, <1>4, <1>5, SameList DEF ListInv, TwoAddersAreTwins, LateAdderIsTwin, AddsName
<1> QED
    BY <1>4, <1>6, <1>7, <1>8, SameList DEF ListInv, DoubleNeedsOverlap, IndexedHasNoDouble

LEMMA ListStep == ListInv /\ [ListNext]_listVars => ListInv'
<1> SUFFICES ASSUME ListInv, [ListNext]_listVars PROVE ListInv'
    OBVIOUS
<1>1. CASE UNCHANGED listVars
    BY <1>1, SameList DEF listVars, ListInv, ListTypeOK, FormsFilled, TwoAddersAreTwins, AddsName,
       LateAdderIsTwin, DoubleNeedsOverlap, IndexedHasNoDouble
<1>2. ASSUME NEW v \in Visitors, AddRefused(v) \/ TurnFails(v) PROVE ListInv'
    BY <1>2, OverStep DEF AddRefused, TurnFails
<1>3. ASSUME NEW v \in Visitors, AddCommits(v) \/ TurnCommits(v) \/ TurnAgain(v) PROVE ListInv'
    BY <1>3, AddCommitsStep, TurnCommitsStep, TurnAgainStep
<1>4. ASSUME NEW v \in Visitors, \E n \in Names : AddBegins(v, n) PROVE ListInv'
    BY <1>4, AddBeginsStep
<1>5. ASSUME NEW v \in Visitors, \E i \in Rows : TurnBegins(v, i) PROVE ListInv'
    BY <1>5, TurnBeginsStep
<1> QED
    BY <1>1, <1>2, <1>3, <1>4, <1>5 DEF ListNext

\* The lists an owner keeps, for any names, owners and length, and whichever of the three ways
\* the list is guarded: a name stands on it twice only without an index and after two owners
\* were adding it at once (the searches of roles_new and its like, the indexes of the tables).
THEOREM ListsAreSingle == ListSpec => [](ListTypeOK /\ ListsSingle)
<1>1. ListInv => ListTypeOK /\ ListsSingle
    BY DEF ListInv, ListsSingle
<1> QED
    BY <1>1, ListInitInv, ListStep, PTL DEF ListSpec

-----------------------------------------------------------------------------
(*****************************************************************************)
(* Roster.                                                                   *)
(*                                                                           *)
(* The week of the rota, for any shifts, staff and browsers. The invariant   *)
(* says what a request on its way knows: the slots a publisher has not       *)
(* found were unseen, and an offer is for an open slot or for one            *)
(* published meanwhile.                                                      *)
(*****************************************************************************)

\* What a browser can be doing.
PenRequests == [does : {"nothing", "view", "offer", "withdraw", "assign", "publish"},
                on : Shifts \cup {NoShift}, who : SUBSET Workers, found : SUBSET Shifts,
                lacks : SUBSET Shifts, behind : SUBSET Shifts]

OffersOn(q, s) == request[q].does \in {"offer", "withdraw"} /\ request[q].on = s

\* Only a publisher has found slots, of no one shift, and those it has not found are unseen.
PublisherSaw ==
    \A q \in Pens :
        /\ request[q].found \subseteq Slots
        /\ request[q].does # "publish" => request[q].found = {}
        /\ request[q].does = "publish" =>
              request[q].on = NoShift /\ Slots \ request[q].found \subseteq unseen

\* An offer on its way is for an open slot, or for one that was published meanwhile.
OffersCross ==
    \A q \in Pens, s \in Shifts : OffersOn(q, s) => slot[s] # "none" /\ (s \in Published => s \in crossed)

RosterInv ==
    /\ RosterTypeOK
    /\ request \in [Pens -> PenRequests]
    /\ \A q \in Pens : request[q].does = "assign" => request[q].on \in Shifts
    /\ PublisherSaw
    /\ OffersCross
    /\ PublicationFreezes
    /\ OpenSlotWasUnseen

LEMMA PenRequestFields ==
    ASSUME NEW r \in PenRequests
    PROVE  /\ r.does \in {"nothing", "view", "offer", "withdraw", "assign", "publish"}
           /\ r.on \in Shifts \cup {NoShift} /\ r.who \subseteq Workers
           /\ \A f \in {"found", "lacks", "behind"} : r[f] \subseteq Shifts
           /\ r.found \subseteq Shifts /\ r.lacks \subseteq Shifts /\ r.behind \subseteq Shifts
BY DEF PenRequests

LEMMA RosterInitInv == RosterInit => RosterInv
<1> SUFFICES ASSUME RosterInit PROVE RosterInv
    OBVIOUS
<1>1. NoRequest \in PenRequests
    BY DEF NoRequest, PenRequests
<1>2. request \in [Pens -> PenRequests] /\ \A q \in Pens : request[q].does = "nothing" /\ request[q].found = {}
    BY <1>1 DEF RosterInit, NoRequest
<1>3. RosterTypeOK
    BY <1>2, PenRequestFields DEF RosterInit, RosterTypeOK
<1> QED
    BY <1>2, <1>3 DEF RosterInit, RosterInv, PublisherSaw, OffersCross, OffersOn, Slots, Published,
                      PublicationFreezes, OpenSlotWasUnseen

\* The owner's changes leave slots, offers and requests alone.
LEMMA OfficeStep ==
    ASSUME RosterInv, RosterTypeOK',
           UNCHANGED <<slot, offer, request, atPublication, crossed, unseen>>
    PROVE  RosterInv'
BY DEF RosterInv, PublisherSaw, OffersCross, OffersOn, Slots, Published, PublicationFreezes, OpenSlotWasUnseen

\* A request that has begun.
LEMMA BeginStep ==
    ASSUME RosterInv, NEW p \in Pens, NEW does, NEW on, NEW who, NEW found,
           Begin(p, does, on, who, found),
           does \in {"view", "offer", "withdraw", "assign", "publish"},
           on \in Shifts \cup {NoShift}, who \subseteq Workers, does # "publish" => found = {},
           does = "publish" => on = NoShift /\ found = Slots,
           found \subseteq Slots,
           does = "assign" => on \in Shifts,
           does \in {"offer", "withdraw"} => on \in Shifts /\ slot[on] = "open"
    PROVE  RosterInv'
<1> DEFINE r == [does |-> does, on |-> on, who |-> who, found |-> found, lacks |-> Lacking,
                 behind |-> {}]
<1>1. /\ request' = [request EXCEPT ![p] = r]
      /\ UNCHANGED <<template, slot, working, offer, offFloor, atPublication, crossed, unseen>>
    BY DEF Begin
<1>2. r \in PenRequests
    <2>1. /\ Lacking \in SUBSET Shifts /\ found \in SUBSET Shifts /\ {} \in SUBSET Shifts
          /\ who \in SUBSET Workers
          /\ does \in {"nothing", "view", "offer", "withdraw", "assign", "publish"}
        BY DEF Lacking, Slots
    <2> QED
        BY <2>1 DEF PenRequests
<1>3. r.does = does /\ r.on = on /\ r.found = found
    OBVIOUS
<1> HIDE DEF r
<1>4. request' \in [Pens -> PenRequests]
    BY <1>1, <1>2 DEF RosterInv
<1>5. request'[p] = r /\ \A q \in Pens \ {p} : request'[q] = request[q]
    BY <1>1 DEF RosterInv
<1>6. RosterTypeOK'
    <2>1. \A q \in Pens : request'[q] \in PenRequests
        BY <1>4
    <2> QED
        BY <1>1, <2>1, PenRequestFields DEF RosterInv, RosterTypeOK
<1>7. PublisherSaw'
    BY <1>1, <1>3, <1>5 DEF RosterInv, PublisherSaw, Slots
<1>8. OffersCross'
    BY <1>1, <1>3, <1>5, NoShiftApart DEF RosterInv, OffersCross, OffersOn, Published
<1>9. PublicationFreezes' /\ OpenSlotWasUnseen'
    BY <1>1 DEF RosterInv, PublicationFreezes, OpenSlotWasUnseen, Slots, Published
<1>10. \A q \in Pens : request'[q].does = "assign" => request'[q].on \in Shifts
    BY <1>3, <1>5 DEF RosterInv
<1> QED
    BY <1>4, <1>6, <1>7, <1>8, <1>9, <1>10 DEF RosterInv

\* A request that ends in nothing.
LEMMA AnsweredStep ==
    ASSUME RosterInv, NEW p \in Pens, Answered(p),
           UNCHANGED <<template, slot, working, offer, offFloor, atPublication, crossed, unseen>>
    PROVE  RosterInv'
<1>1. NoRequest \in PenRequests /\ NoRequest.does = "nothing" /\ NoRequest.found = {}
    BY DEF NoRequest, PenRequests
<1>2. request' \in [Pens -> PenRequests]
    BY <1>1 DEF RosterInv, Answered
<1>3. request'[p] = NoRequest /\ \A q \in Pens \ {p} : request'[q] = request[q]
    BY DEF RosterInv, Answered
<1>4. RosterTypeOK'
    <2>1. \A q \in Pens : request'[q] \in PenRequests
        BY <1>2
    <2> QED
        BY <2>1, PenRequestFields DEF RosterInv, RosterTypeOK
<1>5. PublisherSaw' /\ OffersCross'
    BY <1>1, <1>3 DEF RosterInv, PublisherSaw, OffersCross, OffersOn, Slots, Published
<1>6. PublicationFreezes' /\ OpenSlotWasUnseen'
    BY DEF RosterInv, PublicationFreezes, OpenSlotWasUnseen, Slots, Published
<1>7. \A q \in Pens : request'[q].does = "assign" => request'[q].on \in Shifts
    BY <1>1, <1>3 DEF RosterInv
<1> QED
    BY <1>2, <1>4, <1>5, <1>6, <1>7 DEF RosterInv

\* A request that commits: what is published with an offer on its way is crossed, and what is
\* made under a publisher is unseen.
LEMMA CommitStep == ASSUME RosterInv, NEW p \in Pens, RequestCommits(p) PROVE RosterInv'
<1> DEFINE r == request[p]
<1>1. /\ r \in PenRequests /\ r # NoRequest
      /\ r.lacks \cap Slots = {}
      /\ slot' = [s \in Shifts |-> IF s \in r.found THEN "published"
                                   ELSE IF s \in r.lacks THEN "open" ELSE slot[s]]
      /\ atPublication' = [s \in Shifts |-> IF s \in r.found /\ slot[s] = "open"
                                            THEN offer[s] ELSE atPublication[s]]
      /\ crossed' = crossed \cup {s \in r.found : \E q \in Pens : OffersOn(q, s)}
      /\ unseen' = IF Published # {} \/ \E q \in Pens : request[q].does = "publish"
                   THEN unseen \cup r.lacks ELSE unseen
      /\ UNCHANGED <<template, offFloor>>
    BY DEF RequestCommits, RosterInv, Collides, OffersOn
<1>2. offer' = [s \in Shifts |->
           IF s # r.on THEN offer[s]
           ELSE IF r.does = "offer"    THEN offer[s] \cup r.who
           ELSE IF r.does = "withdraw" THEN offer[s] \ r.who ELSE offer[s]]
    BY DEF RequestCommits
<1>3. \/ r.does = "assign"
         /\ \E on \in BOOLEAN : working' = [working EXCEPT ![r.on] =
                                                IF on THEN @ \cup r.who ELSE @ \ r.who]
      \/ r.does # "assign" /\ UNCHANGED working
    BY DEF RequestCommits
<1>4. /\ request' \in [Pens -> PenRequests]
      /\ \A q \in Pens : \/ request'[q] = NoRequest
                         \/ /\ request'[q].does = request[q].does /\ request'[q].on = request[q].on
                            /\ request'[q].found = request[q].found
    <2> DEFINE new(q) == IF q = p \/ request[q] = NoRequest THEN NoRequest
                         ELSE [request[q] EXCEPT !.behind = @ \cup (Writes(r) \cap Writes(request[q]))]
    <2>1. request' = [q \in Pens |-> new(q)]
        BY DEF RequestCommits
    <2>2. NoRequest \in PenRequests
        BY DEF NoRequest, PenRequests
    <2>3. ASSUME NEW q \in Pens
          PROVE  /\ new(q) \in PenRequests
                 /\ \/ new(q) = NoRequest
                    \/ /\ new(q).does = request[q].does /\ new(q).on = request[q].on
                       /\ new(q).found = request[q].found
        <3>1. request[q] \in PenRequests
            BY DEF RosterInv
        <3>2. request[q].does = "assign" => request[q].on \in Shifts
            BY DEF RosterInv
        <3>3. Writes(request[q]) \subseteq Shifts
            BY <3>1, <3>2, PenRequestFields DEF Writes
        <3>4. request[q].behind \cup (Writes(r) \cap Writes(request[q])) \in SUBSET Shifts
            BY <3>1, <3>3, PenRequestFields
        <3> DEFINE b == request[q].behind \cup (Writes(r) \cap Writes(request[q]))
        <3> HIDE DEF b
        <3>5. [request[q] EXCEPT !.behind = b] \in PenRequests
            BY <3>1, <3>4 DEF PenRequests, b
        <3> QED
            BY <2>2, <3>1, <3>5 DEF b, PenRequests
    <2> HIDE DEF new
    <2> QED
        BY <2>1, <2>3
<1>a. NoRequest.does = "nothing" /\ NoRequest.found = {}
    BY DEF NoRequest
<1>b. \A q \in Pens : request'[q].does = "assign" => request'[q].on \in Shifts
    BY <1>4, <1>a DEF RosterInv
<1>c. r.found \subseteq Shifts /\ r.lacks \subseteq Shifts /\ r.on \in Shifts \cup {NoShift} /\ r.who \subseteq Workers
    BY <1>1, PenRequestFields
<1>d. r.found \subseteq Slots /\ (r.does # "publish" => r.found = {})
    BY DEF RosterInv, PublisherSaw
<1>e. r.does = "publish" => r.on = NoShift /\ Slots \ r.found \subseteq unseen
    BY DEF RosterInv, PublisherSaw
<1>5. RosterTypeOK'
    <2>1. \A q \in Pens : request'[q] \in PenRequests
        BY <1>4
    <2>2. \A q \in Pens : /\ request'[q].does \in {"nothing", "view", "offer", "withdraw", "assign", "publish"}
                          /\ request'[q].on \in Shifts \cup {NoShift}
                          /\ request'[q].who \subseteq Workers
                          /\ \A f \in {"found", "lacks", "behind"} : request'[q][f] \subseteq Shifts
        BY <2>1, PenRequestFields
    <2>3. slot' \in [Shifts -> {"none", "open", "published"}]
        BY <1>1 DEF RosterInv, RosterTypeOK
    <2>4. working' \in [Shifts -> SUBSET Workers]
        BY <1>3, <1>c DEF RosterInv, RosterTypeOK
    <2>5. offer' \in [Shifts -> SUBSET Workers]
        BY <1>2, <1>c DEF RosterInv, RosterTypeOK
    <2>6. atPublication' \in [Shifts -> SUBSET Workers]
        BY <1>1 DEF RosterInv, RosterTypeOK
    <2>7. crossed' \subseteq Shifts /\ unseen' \subseteq Shifts
        BY <1>1, <1>c DEF RosterInv, RosterTypeOK
    <2> QED
        BY <1>1, <2>2, <2>3, <2>4, <2>5, <2>6, <2>7 DEF RosterInv, RosterTypeOK
<1> DEFINE NewSlots == {s \in Shifts : slot'[s] # "none"}
           NewPublished == {s \in Shifts : slot'[s] = "published"}
<1>6. /\ \A s \in Shifts : slot[s] \in {"none", "open", "published"}
      /\ \A s \in Shifts : s \in r.lacks => slot[s] = "none"
    BY <1>1 DEF Slots, RosterInv, RosterTypeOK
<1>7. NewSlots \subseteq Slots \cup r.lacks \cup r.found /\ Slots \cup r.lacks \subseteq NewSlots /\ NewPublished = Published \cup r.found
    BY <1>1, <1>6, <1>c DEF Slots, Published
<1>8. Slots' = NewSlots /\ Published' = NewPublished
    BY DEF Slots, Published
<1> HIDE DEF NewSlots, NewPublished
<1>9. unseen \subseteq unseen'
    BY <1>1
<1>f. Slots' = Slots \cup r.lacks /\ Published' = Published \cup r.found
    BY <1>7, <1>8, <1>d
<1>10. PublisherSaw'
    <2> SUFFICES ASSUME NEW q \in Pens
                 PROVE  /\ request'[q].found \subseteq Slots'
                        /\ request'[q].does # "publish" => request'[q].found = {}
                        /\ request'[q].does = "publish" =>
                              request'[q].on = NoShift /\ Slots' \ request'[q].found \subseteq unseen'
        BY DEF PublisherSaw
    <2>1. CASE request'[q] = NoRequest
        BY <2>1, <1>a
    <2>2. CASE /\ request'[q].does = request[q].does /\ request'[q].on = request[q].on
               /\ request'[q].found = request[q].found
        <3>1. /\ request[q].found \subseteq Slots
              /\ request[q].does # "publish" => request[q].found = {}
              /\ request[q].does = "publish" =>
                              request[q].on = NoShift /\ Slots \ request[q].found \subseteq unseen
            BY DEF RosterInv, PublisherSaw
        <3>2. CASE request[q].does # "publish"
            BY <2>2, <3>1, <3>2
        <3>3. CASE request[q].does = "publish"
            <4>1. unseen' = unseen \cup r.lacks
                BY <1>1, <3>3
            <4> QED
                BY <1>d, <1>f, <2>2, <3>1, <3>3, <4>1
        <3> QED
            BY <3>2, <3>3
    <2> QED
        BY <1>4, <2>1, <2>2
<1>11. OffersCross'
    <2> SUFFICES ASSUME NEW q \in Pens, NEW s \in Shifts, OffersOn(q, s)'
                 PROVE  slot'[s] # "none" /\ (s \in Published' => s \in crossed')
        BY DEF OffersCross
    <2>1. OffersOn(q, s)
        BY <1>4, <1>a DEF OffersOn
    <2>2. slot[s] # "none" /\ (s \in Published => s \in crossed)
        BY <2>1 DEF RosterInv, OffersCross
    <2>3. s \in Slots'
        BY <1>f, <2>2 DEF Slots
    <2>4. s \in Published' => s \in crossed'
        BY <1>1, <1>f, <2>1, <2>2
    <2> QED
        BY <2>3, <2>4 DEF Slots
<1>12. PublicationFreezes'
    <2> SUFFICES ASSUME NEW s \in Published' \ crossed'
                 PROVE  offer'[s] = atPublication'[s]
        BY DEF PublicationFreezes
    <2>1. s \in Shifts /\ s \notin crossed
        BY <1>1 DEF Published
    <2>2. CASE s \in Published
        <3>1. offer[s] = atPublication[s] /\ slot[s] = "published"
            BY <2>1, <2>2 DEF RosterInv, PublicationFreezes, Published
        <3>2. ~OffersOn(p, s)
            BY <2>1, <2>2 DEF RosterInv, OffersCross
        <3>3. offer'[s] = offer[s]
            BY <1>2, <2>1, <3>2 DEF OffersOn
        <3> QED
            BY <1>1, <2>1, <3>1, <3>3
    <2>3. CASE s \notin Published
        <3>1. s \in r.found /\ slot[s] = "open"
            BY <1>6, <1>d, <1>f, <2>1, <2>3 DEF Published, Slots
        <3>2. offer'[s] = offer[s]
            BY <1>2, <1>d, <1>e, <2>1, <3>1, NoShiftApart
        <3> QED
            BY <1>1, <2>1, <3>1, <3>2
    <2> QED
        BY <2>2, <2>3
<1>13. OpenSlotWasUnseen'
    <2> SUFFICES ASSUME Published' # {} PROVE Slots' \ Published' \subseteq unseen'
        BY DEF OpenSlotWasUnseen
    <2>1. CASE r.does = "publish"
        BY <1>1, <1>e, <1>f, <2>1
    <2>2. CASE r.does # "publish"
        <3>1. Published' = Published /\ Slots \ Published \subseteq unseen
            BY <1>d, <1>f, <2>2 DEF RosterInv, OpenSlotWasUnseen
        <3> QED
            BY <1>1, <1>f, <3>1
    <2> QED
        BY <2>1, <2>2
<1> QED
    BY <1>4, <1>b, <1>5, <1>10, <1>11, <1>12, <1>13 DEF RosterInv

LEMMA RosterStep == RosterInv /\ [RosterNext]_rosterVars => RosterInv'
<1> SUFFICES ASSUME RosterInv, [RosterNext]_rosterVars PROVE RosterInv'
    OBVIOUS
<1>1. CASE UNCHANGED rosterVars
    <2>1. RosterTypeOK'
        BY <1>1 DEF rosterVars, RosterInv, RosterTypeOK
    <2> QED
        BY <1>1, <2>1, OfficeStep DEF rosterVars
<1>2. ASSUME NEW s \in Shifts, TurnTemplate(s) PROVE RosterInv'
    <2>1. RosterTypeOK'
        BY <1>2 DEF TurnTemplate, RosterInv, RosterTypeOK
    <2> QED
        BY <1>2, <2>1, OfficeStep DEF TurnTemplate
<1>3. ASSUME NEW w \in Workers, LeaveFloor(w) PROVE RosterInv'
    <2>1. RosterTypeOK'
        BY <1>3 DEF LeaveFloor, RosterInv, RosterTypeOK
    <2> QED
        BY <1>3, <2>1, OfficeStep DEF LeaveFloor
<1>4. ASSUME NEW p \in Pens, ViewBegins(p) PROVE RosterInv'
    BY <1>4, BeginStep DEF ViewBegins
<1>5. ASSUME NEW p \in Pens, PublishBegins(p) PROVE RosterInv'
    BY <1>5, BeginStep DEF PublishBegins, Publishable
<1>6. ASSUME NEW p \in Pens, NEW s \in Shifts, NEW w \in Workers, ToggleBegins(p, s, w) PROVE RosterInv'
    <2> DEFINE does == IF w \in offer[s] THEN "withdraw" ELSE "offer"
    <2>1. does \in {"offer", "withdraw"} /\ slot[s] = "open" /\ Begin(p, does, s, {w}, {})
        BY <1>6 DEF ToggleBegins, OffersOpen
    <2> HIDE DEF does
    <2> QED
        BY <2>1, BeginStep
<1>7. ASSUME NEW p \in Pens, NEW s \in Shifts, NEW w \in Workers, AssignBegins(p, s, w) PROVE RosterInv'
    BY <1>7, BeginStep DEF AssignBegins
<1>8. ASSUME NEW p \in Pens, RequestFails(p) \/ RequestAgain(p) PROVE RosterInv'
    BY <1>8, AnsweredStep DEF RequestFails, RequestAgain
<1> QED
    BY <1>1, <1>2, <1>3, <1>4, <1>5, <1>6, <1>7, <1>8, CommitStep DEF RosterNext

\* Whoever reads the rota counts the same people.
LEMMA ReadersAgree == RosterInv => CapAgreesWithBoard
BY DEF CapAgreesWithBoard, Capping, ShiftsToday, OffRota, Rostered

\* The week of the rota, for any shifts, staff and browsers: its readers agree, publication
\* freezes the offers, and only a slot the publisher could not see is left open.
THEOREM RosterHolds == RosterSpec => [](RosterTypeOK /\ RotaHolds)
<1>1. RosterInv => RosterTypeOK /\ RotaHolds
    BY ReadersAgree DEF RosterInv, RotaHolds
<1> QED
    BY RosterInitInv, RosterStep, <1>1, PTL DEF RosterSpec

-----------------------------------------------------------------------------
(*****************************************************************************)
(* AccessMatrix.                                                             *)
(*                                                                           *)
(* The grid of pages, for any roles, pages and tabs. The invariant bounds    *)
(* how far a grid may be from the rows: what its owner ticked and what       *)
(* others have changed since it was drawn, and, for a save, only what        *)
(* others have changed behind it.                                            *)
(*****************************************************************************)

\* What a tab can hold.
Grids == [phase : {"closed", "drawn", "saving"}, ticks : SUBSET Pairs, touched : SUBSET Pairs,
          drifted : SUBSET Pairs, have : SUBSET Pairs, behind : SUBSET Pairs]

\* The pairs in which two sets of them differ.
Apart(a, b) == (a \ b) \cup (b \ a)

\* An open grid differs from the rows only where its owner ticked or others have changed them,
\* and a save knows the rows but for what others changed behind it.
GridKnows(g, js, rows) ==
    /\ g.behind \subseteq g.drifted
    /\ g.phase # "closed" => /\ g.ticks \subseteq js \X Pages
                             /\ Apart(g.ticks, rows) \subseteq g.touched \cup g.drifted
    /\ g.phase = "saving" => Apart(g.have, rows) \subseteq g.behind

AccessInv ==
    /\ jobs \subseteq Jobs /\ grants \subseteq jobs \X Pages
    /\ grid \in [Tabs -> Grids]
    /\ \A t \in Tabs : GridKnows(grid[t], jobs, grants)

LEMMA GridFields ==
    ASSUME NEW g \in Grids
    PROVE  /\ g.phase \in {"closed", "drawn", "saving"}
           /\ \A f \in {"ticks", "touched", "drifted", "have", "behind"} : g[f] \subseteq Pairs
           /\ g.ticks \subseteq Pairs /\ g.touched \subseteq Pairs /\ g.drifted \subseteq Pairs
           /\ g.have \subseteq Pairs /\ g.behind \subseteq Pairs
BY DEF Grids

LEMMA AccessTyped == AccessInv => AccessTypeOK
BY GridFields DEF AccessInv, AccessTypeOK, GridKnows

LEMMA NoGridFits == NoGrid \in Grids /\ NoGrid.phase = "closed" /\ \A js, rows : GridKnows(NoGrid, js, rows)
BY DEF NoGrid, Grids, GridKnows

LEMMA AccessInitInv == AccessInit => AccessInv
BY OldJobsExist, DefaultsArePages, NoGridFits DEF AccessInit, AccessInv, NoGrid

\* Telling a grid of the pairs that changed keeps what it knows.
LEMMA MissingFits ==
    ASSUME NEW g \in Grids, GridKnows(g, jobs, grants), NEW ps \in SUBSET Pairs,
           jobs \subseteq jobs', Apart(grants, grants') \subseteq ps
    PROVE  Missing(g, ps) \in Grids /\ GridKnows(Missing(g, ps), jobs', grants')
<1> DEFINE d == IF g.phase = "closed" THEN {} ELSE g.drifted \cup ps
           b == IF g.phase = "saving" THEN g.behind \cup ps ELSE {}
           x == [g EXCEPT !.drifted = d, !.behind = b]
<1>1. d \in SUBSET Pairs /\ b \in SUBSET Pairs
    BY GridFields
<1>2. Missing(g, ps) = x
    BY DEF Missing
<1>3. b \subseteq d /\ (g.phase # "closed" => d = g.drifted \cup ps) /\ (g.phase = "saving" => b = g.behind \cup ps)
    BY DEF GridKnows
<1> HIDE DEF d, b
<1>4. /\ x \in Grids /\ x.phase = g.phase /\ x.ticks = g.ticks /\ x.touched = g.touched
      /\ x.have = g.have /\ x.drifted = d /\ x.behind = b
    BY <1>1 DEF Grids
<1> HIDE DEF x
<1>5. x.phase # "closed" => /\ x.ticks \subseteq jobs' \X Pages
                            /\ Apart(x.ticks, grants') \subseteq x.touched \cup x.drifted
    BY <1>3, <1>4 DEF GridKnows, Apart
<1>6. x.phase = "saving" => Apart(x.have, grants') \subseteq x.behind
    BY <1>3, <1>4 DEF GridKnows, Apart
<1> QED
    BY <1>2, <1>3, <1>4, <1>5, <1>6 DEF GridKnows

LEMMA InventStep == ASSUME AccessInv, NEW j \in Jobs, Invent(j) PROVE AccessInv'
<1> DEFINE ps == {j} \X DefaultPages
<1>1. ps \in SUBSET Pairs
    BY DefaultsArePages DEF Pairs
<1>2. jobs' = jobs \cup {j} /\ grants' = grants \cup ps /\ grid' = [t \in Tabs |-> Missing(grid[t], ps)]
    BY DEF Invent
<1>3. Apart(grants, grants') \subseteq ps
    BY <1>2 DEF Apart
<1>4. jobs' \subseteq Jobs /\ grants' \subseteq jobs' \X Pages
    BY <1>2, DefaultsArePages DEF AccessInv
<1> HIDE DEF ps
<1>5. \A t \in Tabs : Missing(grid[t], ps) \in Grids /\ GridKnows(Missing(grid[t], ps), jobs', grants')
    BY <1>1, <1>2, <1>3, MissingFits DEF AccessInv
<1>6. \A t \in Tabs : grid'[t] = Missing(grid[t], ps)
    BY <1>2
<1>7. \A t \in Tabs : GridKnows(grid'[t], jobs', grants')
    BY <1>5, <1>6 DEF GridKnows
<1> QED
    BY <1>2, <1>4, <1>5, <1>7 DEF AccessInv

\* A step of one tab alone.
LEMMA TabStep ==
    ASSUME AccessInv, NEW t \in Tabs, NEW g \in Grids, GridKnows(g, jobs, grants),
           grid' = [grid EXCEPT ![t] = g], UNCHANGED <<jobs, grants>>
    PROVE  AccessInv'
<1>1. grid' \in [Tabs -> Grids]
    BY DEF AccessInv
<1>2. \A s \in Tabs : GridKnows(grid'[s], jobs, grants)
    BY DEF AccessInv
<1> QED
    BY <1>1, <1>2 DEF AccessInv, GridKnows

LEMMA DrawStep == ASSUME AccessInv, NEW t \in Tabs, Draw(t) PROVE AccessInv'
<1> DEFINE g == [NoGrid EXCEPT !.phase = "drawn", !.ticks = grants]
<1>1. grants \in SUBSET Pairs
    BY DEF AccessInv, Pairs
<1>2. /\ g \in Grids /\ g.phase = "drawn" /\ g.ticks = grants /\ g.behind = {} /\ g.drifted = {}
    BY <1>1 DEF Grids, NoGrid
<1>3. grid' = [grid EXCEPT ![t] = g] /\ UNCHANGED <<jobs, grants>>
    BY DEF Draw
<1> HIDE DEF g
<1>4. GridKnows(g, jobs, grants)
    BY <1>2 DEF GridKnows, Apart, AccessInv
<1> QED
    BY <1>2, <1>3, <1>4, TabStep

LEMMA TickStep == ASSUME AccessInv, NEW t \in Tabs, NEW p \in jobs \X Pages, Tick(t, p) PROVE AccessInv'
<1> DEFINE o == grid[t]
           k == (o.ticks \ {p}) \cup ({p} \ o.ticks)
           g == [o EXCEPT !.touched = {p}, !.ticks = k]
<1>1. o \in Grids /\ GridKnows(o, jobs, grants) /\ o.phase = "drawn" /\ o.touched = {}
    BY DEF Tick, AccessInv
<1>2. p \in Pairs
    BY DEF AccessInv, Pairs
<1>3. k \in SUBSET Pairs /\ {p} \in SUBSET Pairs
    BY <1>1, <1>2, GridFields
<1>4. k \subseteq jobs \X Pages /\ Apart(k, grants) \subseteq {p} \cup o.drifted
    BY <1>1 DEF GridKnows, Apart
<1>5. grid' = [grid EXCEPT ![t] = g] /\ UNCHANGED <<jobs, grants>>
    BY DEF Tick, AccessInv
<1> HIDE DEF k, o
<1>6. /\ g \in Grids /\ g.phase = "drawn" /\ g.ticks = k /\ g.touched = {p}
      /\ g.behind = o.behind /\ g.drifted = o.drifted
    BY <1>1, <1>3 DEF Grids
<1> HIDE DEF g
<1>7. GridKnows(g, jobs, grants)
    BY <1>1, <1>4, <1>6 DEF GridKnows
<1> QED
    BY <1>5, <1>6, <1>7, TabStep

LEMMA SaveBeginsStep == ASSUME AccessInv, NEW t \in Tabs, SaveBegins(t) PROVE AccessInv'
<1> DEFINE o == grid[t]
           g == [o EXCEPT !.phase = "saving", !.have = grants, !.ticks = o.ticks, !.behind = {}]
<1>1. o \in Grids /\ GridKnows(o, jobs, grants) /\ o.phase = "drawn"
    BY DEF SaveBegins, AccessInv
<1>2. Wanted(o) = o.ticks
    <2>1. o.ticks \subseteq jobs \X Pages
        BY <1>1 DEF GridKnows
    <2> QED
        BY <2>1 DEF Wanted
<1>3. grid' = [grid EXCEPT ![t] = g] /\ UNCHANGED <<jobs, grants>>
    BY <1>2 DEF SaveBegins, AccessInv
<1>4. grants \in SUBSET Pairs
    BY DEF AccessInv, Pairs
<1> HIDE DEF o
<1>5. /\ g \in Grids /\ g.phase = "saving" /\ g.ticks = o.ticks /\ g.touched = o.touched
      /\ g.behind = {} /\ g.drifted = o.drifted /\ g.have = grants
    BY <1>1, <1>4 DEF Grids
<1> HIDE DEF g
<1>6. GridKnows(g, jobs, grants)
    BY <1>1, <1>5 DEF GridKnows, Apart
<1> QED
    BY <1>3, <1>5, <1>6, TabStep

LEMMA SaveRunsAgainStep == ASSUME AccessInv, NEW t \in Tabs, SaveRunsAgain(t) PROVE AccessInv'
<1> DEFINE o == grid[t]
           g == [o EXCEPT !.have = grants, !.behind = {}]
<1>1. o \in Grids /\ GridKnows(o, jobs, grants) /\ o.phase = "saving"
    BY DEF SaveRunsAgain, Saving, AccessInv
<1>2. grid' = [grid EXCEPT ![t] = g] /\ UNCHANGED <<jobs, grants>>
    BY DEF SaveRunsAgain, AccessInv
<1>3. grants \in SUBSET Pairs
    BY DEF AccessInv, Pairs
<1> HIDE DEF o
<1>4. /\ g \in Grids /\ g.phase = "saving" /\ g.ticks = o.ticks /\ g.touched = o.touched
      /\ g.behind = {} /\ g.drifted = o.drifted /\ g.have = grants
    BY <1>1, <1>3 DEF Grids
<1> HIDE DEF g
<1>5. GridKnows(g, jobs, grants)
    BY <1>1, <1>4 DEF GridKnows, Apart
<1> QED
    BY <1>2, <1>4, <1>5, TabStep

LEMMA SaveFailsStep == ASSUME AccessInv, NEW t \in Tabs, SaveFails(t) PROVE AccessInv'
BY NoGridFits, TabStep DEF SaveFails

\* A save that lands.
LEMMA SaveLands ==
    ASSUME AccessInv, NEW t \in Tabs, SaveCommits(t)
    PROVE  LET g == grid[t] IN
           /\ g \in Grids /\ GridKnows(g, jobs, grants) /\ g.phase = "saving"
           /\ grants' = (grants \ (g.have \ g.ticks)) \cup (g.ticks \ g.have)
           /\ grid' = Ended(t, Apart(g.have, g.ticks)) /\ jobs' = jobs
BY DEF SaveCommits, Saving, AccessInv, Drops, Adds, Apart

LEMMA SaveCommitsStep == ASSUME AccessInv, NEW t \in Tabs, SaveCommits(t) PROVE AccessInv'
<1> DEFINE g == grid[t]
           ps == Apart(g.have, g.ticks)
<1>1. /\ g \in Grids /\ GridKnows(g, jobs, grants) /\ g.phase = "saving"
      /\ grants' = (grants \ (g.have \ g.ticks)) \cup (g.ticks \ g.have)
      /\ grid' = Ended(t, ps) /\ jobs' = jobs
    BY SaveLands
<1>2. ps \in SUBSET Pairs /\ Apart(grants, grants') \subseteq ps
    BY <1>1, GridFields DEF Apart
<1>3. grants' \subseteq jobs' \X Pages
    BY <1>1 DEF GridKnows, AccessInv
<1> HIDE DEF ps, g
<1>4. \A s \in Tabs : Missing(grid[s], ps) \in Grids /\ GridKnows(Missing(grid[s], ps), jobs', grants')
    BY <1>1, <1>2, MissingFits DEF AccessInv
<1>5. NoGrid \in Grids /\ GridKnows(NoGrid, jobs', grants')
    BY NoGridFits DEF GridKnows, NoGrid
<1>6. grid' \in [Tabs -> Grids]
    BY <1>1, <1>4, <1>5 DEF Ended
<1>7. \A s \in Tabs : grid'[s] = NoGrid \/ grid'[s] = Missing(grid[s], ps)
    BY <1>1 DEF Ended
<1>8. \A s \in Tabs : GridKnows(grid'[s], jobs', grants')
    BY <1>4, <1>5, <1>7 DEF GridKnows
<1> QED
    BY <1>1, <1>3, <1>6, <1>8 DEF AccessInv

LEMMA AccessStep == AccessInv /\ [AccessNext]_accessVars => AccessInv'
<1> SUFFICES ASSUME AccessInv, [AccessNext]_accessVars PROVE AccessInv'
    OBVIOUS
<1>1. CASE UNCHANGED accessVars
    BY <1>1 DEF accessVars, AccessInv, GridKnows
<1> QED
    BY <1>1, InventStep, DrawStep, TickStep, SaveBeginsStep, SaveCommitsStep, SaveRunsAgainStep, SaveFailsStep
       DEF AccessNext

\* Only a commit ends a save so.
LEMMA SavesCommit ==
    ASSUME AccessInv, AccessNext, NEW t \in Tabs, Saves(t)
    PROVE  SaveCommits(t)
<1>1. grid[t] \in Grids /\ grid[t].phase = "saving" /\ grid'[t].phase = "closed"
    BY DEF Saves, Saving, AccessInv
<1>a. \A g \in Grids, ps \in SUBSET Pairs : Missing(g, ps).phase = g.phase
    BY DEF Missing, Grids
<1>2. ASSUME NEW j \in Jobs, Invent(j) PROVE FALSE
    <2>1. grid'[t] = Missing(grid[t], {j} \X DefaultPages)
        BY <1>2 DEF Invent
    <2>2. {j} \X DefaultPages \in SUBSET Pairs
        BY DefaultsArePages DEF Pairs
    <2> QED
        BY <1>1, <1>a, <2>1, <2>2
<1>3. ASSUME NEW s \in Tabs, s # t, Draw(s) \/ SaveBegins(s) \/ SaveRunsAgain(s) \/ SaveFails(s)
                                    \/ \E p \in jobs \X Pages : Tick(s, p)
      PROVE FALSE
    <2>1. grid'[t] = grid[t]
        BY <1>3 DEF Draw, SaveBegins, SaveRunsAgain, SaveFails, Tick, AccessInv
    <2> QED
        BY <1>1, <2>1
<1>4. ASSUME NEW s \in Tabs, s # t, SaveCommits(s) PROVE FALSE
    <2> DEFINE ps == Apart(grid[s].have, grid[s].ticks)
    <2>1. grid' = Ended(s, ps) /\ grid[s] \in Grids
        BY <1>4, SaveLands
    <2>2. ps \in SUBSET Pairs
        BY <2>1, GridFields DEF Apart
    <2>3. grid'[t] = Missing(grid[t], ps)
        BY <1>4, <2>1 DEF Ended
    <2> QED
        BY <1>1, <1>a, <2>2, <2>3
<1>5. ASSUME Draw(t) \/ SaveBegins(t) \/ \E p \in jobs \X Pages : Tick(t, p) PROVE FALSE
    BY <1>1, <1>5 DEF Draw, SaveBegins, Tick
<1>6. ~SaveRunsAgain(t)
    BY <1>1 DEF SaveRunsAgain, AccessInv, Grids
<1>7. ~SaveFails(t)
    BY DEF SaveFails, Saves, Adds
<1> QED
    BY <1>2, <1>3, <1>4, <1>5, <1>6, <1>7 DEF AccessNext

LEMMA SaveIsLocal ==
    ASSUME AccessInv, [AccessNext]_accessVars, NEW t \in Tabs, Saves(t)
    PROVE  /\ (grants' \ grid[t].ticks) \cup (grid[t].ticks \ grants') \subseteq grid[t].behind
           /\ (grants' \ grants) \cup (grants \ grants') \subseteq grid[t].touched \cup grid[t].drifted
<1>1. grid[t].phase = "saving" /\ grid'[t].phase = "closed"
    BY DEF Saves, Saving
<1>2. AccessNext
    BY <1>1 DEF accessVars
<1>3. SaveCommits(t)
    BY <1>2, SavesCommit
<1>4. /\ GridKnows(grid[t], jobs, grants)
      /\ grants' = (grants \ (grid[t].have \ grid[t].ticks)) \cup (grid[t].ticks \ grid[t].have)
    BY <1>3, SaveLands
<1>5. /\ Apart(grid[t].ticks, grants) \subseteq grid[t].touched \cup grid[t].drifted
      /\ Apart(grid[t].have, grants) \subseteq grid[t].behind
    BY <1>1, <1>4 DEF GridKnows
<1> QED
    BY <1>4, <1>5 DEF Apart

\* The grid of pages, for any roles, pages and tabs: a save that lands leaves what is ticked,
\* and changes no pair but those its owner ticked or others changed since it was drawn.
THEOREM SavesStayLocal == AccessSpec => []AccessTypeOK /\ SavesAreLocal
<1>1. AccessInv /\ [AccessNext]_accessVars =>
        [\A t \in Tabs : Saves(t) =>
           (grants' \ grid[t].ticks) \cup (grid[t].ticks \ grants') \subseteq grid[t].behind]_accessVars
    BY SaveIsLocal
<1>2. AccessInv /\ [AccessNext]_accessVars =>
        [\A t \in Tabs : Saves(t) =>
           (grants' \ grants) \cup (grants \ grants')
               \subseteq grid[t].touched \cup grid[t].drifted]_accessVars
    BY SaveIsLocal
<1> QED
    BY AccessInitInv, AccessStep, AccessTyped, <1>1, <1>2, PTL
       DEF AccessSpec, SavesAreLocal, TicksStand, UntouchedPairsStay

-----------------------------------------------------------------------------
(*****************************************************************************)
(* SchemaGuards.                                                             *)
(*                                                                           *)
(* A deploy over old rows, for any kind of table, keys and rows, beside a    *)
(* boutique that goes on. The invariant says of the rows a deploy has seen   *)
(* that one with an earlier twin is a loser, and that a loser has an earlier *)
(* twin which is none and was closed, if at all, by the boutique; and that   *)
(* the index takes the rows as they are and as the deploy leaves them.       *)
(*****************************************************************************)

KnownTables == {"bookings", "offers", "tickets", "checklists"}

SeatOf(r) == IF r.seat = -1 THEN 0 ELSE r.seat

FormOf(r) == IF ~r.live THEN r.form ELSE IF r.form \in {"e164", "typed"} THEN "e164" ELSE "null"

\* Only bookings have seats and only tickets numbers, and a served shop's open rows have theirs
\* in E.164, but for those no deploy saw live.
SeatsAndForms ==
    /\ \A i \in Ids : /\ table # "bookings" => records[i].seat = 0
                      /\ table # "tickets"  => records[i].form = "e164"
    /\ served => \A i \in LiveRows \ late : records[i].form \in {"e164", "null"}

\* Bookings are locked, and the index of a deploy is the one it found, but for the old one.
DeployLocks ==
    /\ index = "old" => table = "bookings"
    /\ deploy.index # "old"
    /\ deploy.step # "idle" => (table = "bookings" => deploy.late = {})
    /\ deploy.step = "cleared" => deploy.index = Surviving

\* An earlier row of i's place that the deploy leaves alone.
Winner(i, j) == /\ j < i /\ j \notin deploy.losers
                /\ j \in deploy.gone \/ (records[j].live /\ j \notin deploy.late)
                /\ records[j].key = records[i].key /\ SeatOf(records[j]) = SeatOf(records[i])

\* The rows a deploy has seen: a row that has an earlier twin among them is a loser, and a
\* loser has a winner.
DeployCleared ==
    deploy.step # "idle" =>
        /\ deploy.losers \cap deploy.late = {} /\ deploy.losers \subseteq LiveRows
        /\ \A i, j \in LiveRows \ deploy.late : j < i /\ Twins(i, j) => i \in deploy.losers
        /\ \A i \in deploy.losers : \E j \in Ids : Winner(i, j)

RowsSingle  == Single(records, index)
AheadSingle == deploy.step # "idle" => Single(Ahead, deploy.index)

GuardInv ==
    /\ GuardTypeOK
    /\ SeatsAndForms
    /\ DeployLocks
    /\ DeployCleared
    /\ RowsSingle
    /\ AheadSingle

-----------------------------------------------------------------------------
(* Rows.                                                                   *)

LEMMA RowIds ==
    ASSUME GuardTypeOK
    PROVE  \E n \in 0..MaxTableRows :
               /\ n \in Nat /\ Ids = 1..n /\ Cardinality(Ids) = n /\ records \in [1..n -> RowValues]
<1>1. PICK n \in 0..MaxTableRows : records \in [1..n -> RowValues]
    BY DEF GuardTypeOK
<1>2. Ids = 1..n /\ n \in Nat
    BY <1>1, TableRowsNat DEF Ids
<1>3. Cardinality(1..n) = n
    BY <1>2, FS_Interval
<1> QED
    BY <1>1, <1>2, <1>3

LEMMA RowFields ==
    ASSUME NEW r \in RowValues
    PROVE  r.live \in BOOLEAN /\ r.key \in Keys /\ r.seat \in -1..1 /\ r.form \in PhoneForms
BY DEF RowValues

LEMMA RowLives ==
    ASSUME NEW r \in RowValues, NEW b \in BOOLEAN
    PROVE  LET x == [r EXCEPT !.live = b] IN
           x \in RowValues /\ x.live = b /\ x.key = r.key /\ x.seat = r.seat /\ x.form = r.form
BY DEF RowValues

LEMMA TidiedFits ==
    ASSUME NEW r \in RowValues
    PROVE  /\ Tidied(r) \in RowValues
           /\ Tidied(r).live = r.live /\ Tidied(r).key = r.key
           /\ Tidied(r).seat = SeatOf(r) /\ Tidied(r).form = FormOf(r)
<1> DEFINE k == SeatOf(r)
           s == [r EXCEPT !.seat = k]
           f == FormOf(s)
<1>1. k \in -1..1
    BY RowFields DEF SeatOf
<1>2. SeatFilled(r) = s
    BY DEF SeatFilled, SeatOf
<1> HIDE DEF k
<1>3. s \in RowValues /\ s.seat = k /\ s.live = r.live /\ s.key = r.key /\ s.form = r.form
    BY <1>1 DEF RowValues
<1> HIDE DEF s
<1>4. f \in PhoneForms /\ f = FormOf(r)
    BY <1>3, RowFields DEF FormOf, PhoneForms
<1>5. Tidied(r) = [s EXCEPT !.form = f]
    BY <1>2 DEF Tidied, Normalized, FormOf
<1> HIDE DEF f
<1>6. LET x == [s EXCEPT !.form = f] IN
      x \in RowValues /\ x.seat = s.seat /\ x.live = s.live /\ x.key = s.key /\ x.form = f
    BY <1>3, <1>4 DEF RowValues
<1> QED
    BY <1>3, <1>4, <1>5, <1>6 DEF k

\* The row as a deploy leaves it.
LEMMA AfterFits ==
    ASSUME GuardTypeOK, NEW i \in Ids
    PROVE  /\ After(i) \in RowValues
           /\ i \in deploy.late => After(i) = records[i]
           /\ i \notin deploy.late =>
                 /\ After(i).live <=> records[i].live /\ i \notin deploy.losers
                 /\ After(i).key = records[i].key
                 /\ After(i).seat = SeatOf(records[i]) /\ After(i).form = FormOf(records[i])
<1>1. records[i] \in RowValues
    BY RowIds
<1>2. CASE i \in deploy.late
    BY <1>1, <1>2 DEF After
<1>3. CASE i \notin deploy.late
    <2> DEFINE t == Tidied(records[i])
               b == t.live /\ i \notin deploy.losers
    <2>1. t \in RowValues /\ t.live = records[i].live /\ t.key = records[i].key
          /\ t.seat = SeatOf(records[i]) /\ t.form = FormOf(records[i])
        BY <1>1, TidiedFits
    <2>2. b \in BOOLEAN
        OBVIOUS
    <2>3. After(i) = [t EXCEPT !.live = b]
        BY <1>3 DEF After
    <2>4. b <=> records[i].live /\ i \notin deploy.losers
        BY <2>1
    <2> HIDE DEF t, b
    <2>5. LET x == [t EXCEPT !.live = b] IN
          x \in RowValues /\ x.live = b /\ x.key = t.key /\ x.seat = t.seat /\ x.form = t.form
        BY <2>1, <2>2, RowLives
    <2> QED
        BY <1>3, <2>1, <2>3, <2>4, <2>5
<1> QED
    BY <1>2, <1>3

\* Its key and seat stay, but for the seat filled in.
LEMMA AfterPlace ==
    ASSUME GuardInv, deploy.step # "idle", NEW i \in Ids
    PROVE  /\ After(i).key = records[i].key /\ After(i).seat = SeatOf(records[i])
           /\ After(i).live <=> records[i].live /\ i \notin deploy.losers
<1>1. CASE i \in deploy.late
    <2>1. records[i].seat = 0 /\ i \notin deploy.losers
        BY <1>1 DEF GuardInv, DeployLocks, DeployCleared, SeatsAndForms
    <2> QED
        BY <1>1, <2>1, AfterFits DEF GuardInv, SeatOf
<1> QED
    BY <1>1, AfterFits DEF GuardInv

\* Twins are rows of one place that have a number.
LEMMA TwinsShare ==
    ASSUME GuardTypeOK, \A k \in Ids : table # "bookings" => records[k].seat = 0,
           \A k \in Ids : table # "tickets" => records[k].form = "e164",
           NEW i \in LiveRows, NEW j \in LiveRows
    PROVE  Twins(i, j) <=> /\ records[i].key = records[j].key
                           /\ SeatOf(records[i]) = SeatOf(records[j])
                           /\ FormOf(records[i]) # "null" /\ FormOf(records[j]) # "null"
<1>1. i \in Ids /\ j \in Ids /\ records[i].live /\ records[j].live
    BY DEF LiveRows
<1>2. records[i] \in RowValues /\ records[j] \in RowValues
    BY <1>1, RowIds
<1>3. /\ Tidied(records[i]).key = records[i].key /\ Tidied(records[j]).key = records[j].key
      /\ Tidied(records[i]).form = FormOf(records[i]) /\ Tidied(records[j]).form = FormOf(records[j])
      /\ Tidied(records[i]).seat = SeatOf(records[i]) /\ Tidied(records[j]).seat = SeatOf(records[j])
    BY <1>2, TidiedFits
<1>4. table \in KnownTables
    BY KnownKinds DEF GuardTypeOK, KnownTables
<1>5. /\ FormOf(records[i]) \in {"e164", "null"} /\ FormOf(records[j]) \in {"e164", "null"}
    BY <1>1 DEF FormOf
<1>6. CASE table = "bookings"
    BY <1>3, <1>6 DEF Twins, Claim, BookingClaim
<1>7. CASE table # "bookings"
    <2>1. SeatOf(records[i]) = 0 /\ SeatOf(records[j]) = 0
        BY <1>1, <1>7 DEF SeatOf
    <2>2. CASE table = "tickets"
        BY <1>3, <1>5, <2>1, <2>2 DEF Twins, Claim, TicketClaim
    <2>3. CASE table # "tickets"
        BY <1>1, <1>3, <1>4, <1>7, <2>1, <2>3 DEF Twins, Claim, OfferClaim, ChecklistClaim, KnownTables
    <2> QED
        BY <2>2, <2>3
<1> QED
    BY <1>6, <1>7

\* An index is unmoved by which of two rows comes first.
LEMMA CollideBoth == \A r, s, ix : Collide(r, s, ix) <=> Collide(s, r, ix)
BY DEF Collide

\* Rows in E.164 of one place, both live, are held together by no index of the code's own.
LEMMA SamePlaceCollides ==
    \A r, s : SamePlace(r, s) /\ r.form = "e164" /\ s.form = "e164" => Collide(r, s, "new")
BY DEF SamePlace, Collide

-----------------------------------------------------------------------------
(* The steps.                                                              *)

LEMMA GuardInitInv == GuardInit => GuardInv
<1> SUFFICES ASSUME GuardInit PROVE GuardInv
    OBVIOUS
<1>1. PICK n \in 0..(MaxTableRows - 1) : records \in [1..n -> RowValues]
    BY DEF GuardInit
<1>2. n \in 0..MaxTableRows
    BY TableRowsNat
<1>3. deploy = Deployed /\ deploy.step = "idle" /\ ~served /\ late = {}
    BY DEF GuardInit, Deployed
<1>4. Deployed \in Deploys
    BY DEF Deployed, Deploys, Indexes
<1>5. GuardTypeOK
    BY <1>1, <1>2, <1>3, <1>4 DEF GuardInit, GuardTypeOK, Indexes
<1>6. SeatsAndForms
    BY <1>3 DEF GuardInit, SeatsAndForms
<1>7. DeployLocks /\ DeployCleared /\ AheadSingle
    BY <1>3 DEF Deployed, GuardInit, DeployLocks, DeployCleared, AheadSingle
<1>8. RowsSingle
    BY DEF GuardInit, RowsSingle
<1> QED
    BY <1>5, <1>6, <1>7, <1>8 DEF GuardInv

\* A loser of a scan has an earlier twin that is none.
LEMMA EarliestWins ==
    ASSUME GuardTypeOK, NEW i \in Losers
    PROVE  \E j \in LiveRows \ Losers : j < i /\ Twins(i, j)
<1> DEFINE S == {j \in LiveRows : j < i /\ Twins(i, j)}
<1>1. PICK n \in 0..MaxTableRows : n \in Nat /\ Ids = 1..n
    BY RowIds
<1>2. S # {} /\ S \subseteq 1..n /\ i \in 1..n
    BY <1>1 DEF Losers, LiveRows
<1>3. S \in SUBSET Nat
    BY <1>1, <1>2
<1>4. \A k : k \in S <=> k \in LiveRows /\ k < i /\ Twins(i, k)
    OBVIOUS
<1> HIDE DEF S
<1>5. PICK m \in S : \A k \in S : m <= k
    BY <1>2, <1>3, LeastExists
<1>6. m \in LiveRows /\ m < i /\ Twins(i, m) /\ m \in 1..n
    BY <1>2, <1>4
<1>7. m \notin Losers
    <2> SUFFICES ASSUME m \in Losers PROVE FALSE
        OBVIOUS
    <2>1. PICK k \in LiveRows : k < m /\ Twins(m, k)
        BY DEF Losers
    <2>2. k \in 1..n
        BY <1>1 DEF LiveRows
    <2>3. k < i /\ Twins(i, k)
        BY <1>1, <1>2, <1>6, <2>1, <2>2 DEF Twins
    <2>4. k \in S /\ m <= k
        BY <1>4, <1>5, <2>1, <2>3
    <2> QED
        BY <1>1, <1>6, <2>1, <2>2, <2>4
<1> QED
    BY <1>6, <1>7

LEMMA ClearStep == ASSUME GuardInv, Clear PROVE GuardInv'
<1>1. /\ deploy' = [step |-> "cleared", losers |-> Losers, index |-> Surviving, late |-> {}, gone |-> {}]
      /\ UNCHANGED <<table, records, index, served, late>>
      /\ Single([i \in Ids |-> Tidied(records[i])], Surviving)
    BY DEF Clear
<1>2. Losers \in SUBSET Ids /\ Surviving \in Indexes
    BY DEF Losers, LiveRows, Surviving, GuardInv, GuardTypeOK, Indexes
<1>3. deploy' \in Deploys' /\ Ids' = Ids
    BY <1>1, <1>2 DEF Deploys, Ids
<1>4. GuardTypeOK'
    BY <1>1, <1>3 DEF GuardInv, GuardTypeOK
<1>5. SeatsAndForms' /\ RowsSingle'
    BY <1>1 DEF GuardInv, SeatsAndForms, RowsSingle, Ids, LiveRows
<1>6. deploy'.step = "cleared" /\ deploy'.losers = Losers /\ deploy'.late = {} /\ deploy'.gone = {}
      /\ deploy'.index = Surviving
    BY <1>1
<1>7. DeployLocks'
    BY <1>1, <1>6 DEF GuardInv, DeployLocks, Surviving
<1>8. DeployCleared'
    <2>1. LiveRows' = LiveRows /\ \A i, j : Twins(i, j)' <=> Twins(i, j)
        BY <1>1 DEF LiveRows, Ids, Twins, Claim
    <2>2. Losers \subseteq LiveRows /\ \A i, j \in LiveRows : j < i /\ Twins(i, j) => i \in Losers
        BY DEF Losers
    <2>3. ASSUME NEW i \in Losers PROVE \E j \in Ids : Winner(i, j)'
        <3>1. PICK j \in LiveRows \ Losers : j < i /\ Twins(i, j)
            BY EarliestWins DEF GuardInv
        <3>2. i \in LiveRows /\ j \in Ids /\ records[j].live
            BY DEF Losers, LiveRows
        <3>3. records[j].key = records[i].key /\ SeatOf(records[j]) = SeatOf(records[i])
            BY <3>1, <3>2, TwinsShare DEF GuardInv, SeatsAndForms
        <3>4. Winner(i, j)'
            BY <1>1, <1>6, <3>1, <3>2, <3>3 DEF Winner
        <3> QED
            BY <3>2, <3>4
    <2> QED
        BY <1>3, <1>6, <2>1, <2>2, <2>3 DEF DeployCleared
<1>9. AheadSingle'
    <2>1. Ahead' = [i \in Ids |-> After(i)']
        BY <1>3 DEF Ahead
    <2>2. ASSUME NEW i \in Ids
          PROVE  LET t == Tidied(records[i]) IN
                 /\ After(i)'.key = t.key /\ After(i)'.seat = t.seat /\ After(i)'.form = t.form
                 /\ After(i)'.live => t.live
        <3>1. records[i] \in RowValues
            BY RowIds DEF GuardInv
        <3>2. After(i)' \in RowValues /\ After(i)'.key = records[i].key /\ (After(i)'.live => records[i].live)
              /\ After(i)'.seat = SeatOf(records[i]) /\ After(i)'.form = FormOf(records[i])
            <4> DEFINE t == Tidied(records[i])
                       b == t.live /\ i \notin Losers
            <4>1. t \in RowValues /\ t.live = records[i].live /\ t.key = records[i].key
                  /\ t.seat = SeatOf(records[i]) /\ t.form = FormOf(records[i])
                BY <3>1, TidiedFits
            <4>2. After(i)' = [t EXCEPT !.live = b]
                BY <1>1, <1>6 DEF After
            <4>3. b \in BOOLEAN /\ (b => t.live)
                OBVIOUS
            <4> HIDE DEF t, b
            <4>4. LET x == [t EXCEPT !.live = b] IN
                  x \in RowValues /\ x.live = b /\ x.key = t.key /\ x.seat = t.seat /\ x.form = t.form
                BY <4>1, <4>3, RowLives
            <4> QED
                BY <4>1, <4>2, <4>3, <4>4
        <3> QED
            BY <3>1, <3>2, TidiedFits
    <2>3. ASSUME NEW i \in Ids, NEW j \in Ids, i # j PROVE ~Collide(After(i)', After(j)', Surviving)
        <3>1. ~Collide(Tidied(records[i]), Tidied(records[j]), Surviving)
            BY <1>1, <2>3 DEF Single
        <3> QED
            BY <2>2, <3>1 DEF Collide
    <2> QED
        BY <1>6, <2>1, <2>3 DEF AheadSingle, Single
<1> QED
    BY <1>4, <1>5, <1>7, <1>8, <1>9 DEF GuardInv

LEMMA BuildStep == ASSUME GuardInv, Build PROVE GuardInv'
<1> DEFINE k == IF deploy.index = "none" /\ Single(Ahead, "new") THEN "new" ELSE deploy.index
<1>1. deploy' = [deploy EXCEPT !.step = "built", !.index = k] /\ deploy.step = "cleared"
      /\ UNCHANGED <<table, records, index, served, late>>
    BY DEF Build
<1>2. deploy \in Deploys /\ k \in Indexes
    BY DEF GuardInv, GuardTypeOK, Deploys, Indexes
<1>3. Single(Ahead, deploy.index)
    BY <1>1 DEF GuardInv, AheadSingle
<1>4. Single(Ahead, k) /\ k # "old"
    BY <1>3 DEF GuardInv, DeployLocks
<1> HIDE DEF k
<1>5. deploy' \in Deploys /\ deploy'.step = "built" /\ deploy'.losers = deploy.losers
      /\ deploy'.late = deploy.late /\ deploy'.gone = deploy.gone /\ deploy'.index = k
    BY <1>1, <1>2 DEF Deploys
<1>6. Ids' = Ids /\ LiveRows' = LiveRows /\ \A i, j : Twins(i, j)' <=> Twins(i, j)
    BY <1>1 DEF LiveRows, Ids, Twins, Claim
<1>7. \A i, j : Winner(i, j)' <=> Winner(i, j)
    BY <1>1, <1>5 DEF Winner
<1>8. GuardTypeOK'
    BY <1>1, <1>5, <1>6 DEF GuardInv, GuardTypeOK, Deploys
<1>9. SeatsAndForms' /\ RowsSingle'
    BY <1>1 DEF GuardInv, SeatsAndForms, RowsSingle, Ids, LiveRows
<1>10. DeployLocks'
    BY <1>1, <1>4, <1>5 DEF GuardInv, DeployLocks
<1>11. DeployCleared'
    BY <1>1, <1>5, <1>6, <1>7 DEF GuardInv, DeployCleared
<1>12. AheadSingle'
    <2>1. Ahead' = Ahead
        BY <1>1, <1>5, <1>6 DEF Ahead, After
    <2> QED
        BY <1>4, <1>5, <2>1 DEF AheadSingle
<1> QED
    BY <1>8, <1>9, <1>10, <1>11, <1>12 DEF GuardInv

LEMMA RollBackStep == ASSUME GuardInv, RollBack PROVE GuardInv'
<1>1. deploy' = Deployed /\ deploy'.step = "idle" /\ UNCHANGED <<table, records, index, served, late>>
    BY DEF RollBack, Deployed
<1>2. deploy' \in Deploys'
    BY <1>1 DEF Deployed, Deploys, Indexes
<1>3. GuardTypeOK'
    BY <1>1, <1>2 DEF GuardInv, GuardTypeOK, Ids
<1>4. SeatsAndForms' /\ RowsSingle' /\ DeployLocks' /\ DeployCleared' /\ AheadSingle'
    BY <1>1 DEF Deployed, GuardInv, SeatsAndForms, RowsSingle, DeployLocks, DeployCleared, AheadSingle, Ids, LiveRows
<1> QED
    BY <1>3, <1>4 DEF GuardInv

LEMMA GoLiveStep == ASSUME GuardInv, GoLive PROVE GuardInv'
<1>1. /\ records' = Ahead /\ index' = deploy.index /\ late' = deploy.late
      /\ served' = TRUE /\ deploy' = Deployed /\ deploy'.step = "idle" /\ table' = table
      /\ deploy.step = "built" /\ Stands
    BY DEF GoLive, Deployed
<1>2. PICK n \in 0..MaxTableRows : n \in Nat /\ Ids = 1..n /\ records \in [1..n -> RowValues]
    BY RowIds DEF GuardInv
<1>3. records' \in [1..n -> RowValues] /\ Ids' = Ids /\ \A i \in Ids : records'[i] = After(i)
    BY <1>1, <1>2, AfterFits DEF GuardInv, Ids, Ahead
<1>4. deploy' \in Deploys'
    BY <1>1 DEF Deployed, Deploys, Indexes
<1>5. deploy.late \subseteq Ids /\ deploy.index \in Indexes
    BY DEF GuardInv, GuardTypeOK, Deploys
<1>6. GuardTypeOK'
    BY <1>1, <1>3, <1>4, <1>5 DEF GuardInv, GuardTypeOK
<1>7. SeatsAndForms'
    <2>1. ASSUME NEW i \in Ids, table # "bookings" PROVE records'[i].seat = 0
        BY <1>1, <1>3, <2>1, AfterPlace DEF GuardInv, SeatsAndForms, SeatOf
    <2>2. ASSUME NEW i \in Ids, table # "tickets" PROVE records'[i].form = "e164"
        BY <1>3, <2>2, AfterFits DEF GuardInv, SeatsAndForms, FormOf
    <2>3. ASSUME NEW i \in Ids \ deploy.late, records'[i].live PROVE records'[i].form \in {"e164", "null"}
        BY <1>3, <2>3, AfterFits DEF GuardInv, FormOf
    <2> QED
        BY <1>1, <1>3, <2>1, <2>2, <2>3 DEF SeatsAndForms, LiveRows
<1>8. RowsSingle'
    BY <1>1 DEF GuardInv, AheadSingle, RowsSingle
<1>9. DeployLocks' /\ DeployCleared' /\ AheadSingle'
    BY <1>1 DEF Deployed, GuardInv, DeployLocks, DeployCleared, AheadSingle
<1> QED
    BY <1>6, <1>7, <1>8, <1>9 DEF GuardInv

\* While rows may be written, the index of the deploy is the one that stands.
LEMMA UnlockedIndex ==
    ASSUME GuardInv, Unlocked, deploy.step # "idle"
    PROVE  deploy.index = index /\ table # "bookings" /\ index # "old"
BY DEF Unlocked, GuardInv, DeployLocks, Surviving, GuardTypeOK, Deploys

\* What a deploy under way notes of a row.
LEMMA NotedFits ==
    ASSUME GuardTypeOK, NEW i, NEW note \in {"late", "gone"}
    PROVE  /\ deploy.step = "idle" => Noted(note, i) = deploy
           /\ LET d == Noted(note, i) IN
              /\ d.step = deploy.step /\ d.losers = deploy.losers /\ d.index = deploy.index
              /\ d.late = IF deploy.step # "idle" /\ note = "late" THEN deploy.late \cup {i} ELSE deploy.late
              /\ d.gone = IF deploy.step # "idle" /\ note = "gone" THEN deploy.gone \cup {i} ELSE deploy.gone
              /\ \A T : Ids \cup {i} \subseteq T =>
                     d \in [step : {"idle", "cleared", "built"}, losers : SUBSET T, index : Indexes,
                            late : SUBSET T, gone : SUBSET T]
<1>1. deploy \in [step : {"idle", "cleared", "built"}, losers : SUBSET Ids, index : Indexes,
                  late : SUBSET Ids, gone : SUBSET Ids]
    BY DEF GuardTypeOK, Deploys
<1>2. CASE deploy.step = "idle"
    BY <1>1, <1>2 DEF Noted
<1>3. CASE deploy.step # "idle" /\ note = "late"
    BY <1>1, <1>3 DEF Noted
<1>4. CASE deploy.step # "idle" /\ note = "gone"
    BY <1>1, <1>4 DEF Noted
<1> QED
    BY <1>2, <1>3, <1>4

\* A row that comes fits beside the others, now and as the deploy leaves them.
LEMMA ComesSingle ==
    ASSUME GuardInv, Unlocked, NEW i, NEW r, Fits(i, r),
           Ids' = Ids \cup {i}, records'[i] = r, \A k \in Ids \ {i} : records'[k] = records[k],
           UNCHANGED <<table, index>>, deploy' = Noted("late", i)
    PROVE  RowsSingle' /\ AheadSingle'
<1>1. RowsSingle'
    BY CollideBoth DEF GuardInv, RowsSingle, Single, Fits, Ids
<1>2. SUFFICES ASSUME deploy.step # "idle" PROVE AheadSingle'
    BY <1>1, NotedFits DEF GuardInv, AheadSingle
<1>3. deploy'.late = deploy.late \cup {i} /\ deploy'.losers = deploy.losers /\ deploy'.index = index
    BY <1>2, NotedFits, UnlockedIndex DEF GuardInv
<1>4. After(i)' = r /\ \A k \in Ids \ {i} : After(k)' = After(k)
    BY <1>3 DEF After
<1>5. \A j \in Ids \ {i} : ~Collide(r, After(j), index) /\ ~Collide(After(j), r, index)
    BY <1>2, CollideBoth DEF Fits
<1>6. \A j, k \in Ids : j # k => ~Collide(After(j), After(k), index)
    BY <1>2, UnlockedIndex DEF GuardInv, AheadSingle, Single, Ahead
<1>7. Ahead' = [k \in Ids' |-> After(k)']
    BY DEF Ahead
<1> QED
    BY <1>3, <1>4, <1>5, <1>6, <1>7 DEF AheadSingle, Single

LEMMA InsertStep == ASSUME GuardInv, NEW r \in RowValues, Insert(r) PROVE GuardInv'
<1>1. PICK n \in 0..MaxTableRows :
          n \in Nat /\ Ids = 1..n /\ Cardinality(Ids) = n /\ records \in [1..n -> RowValues]
    BY RowIds DEF GuardInv
<1> DEFINE m == n + 1
<1>2. /\ m <= MaxTableRows /\ Unlocked /\ Fits(m, r) /\ r.live
      /\ records' = [k \in 1..m |-> IF k \in Ids THEN records[k] ELSE r]
      /\ deploy' = Noted("late", m) /\ UNCHANGED <<table, index, served, late>>
      /\ (table # "bookings" => r.seat = 0) /\ (table # "tickets" => r.form = "e164")
      /\ (served => r.form \in {"e164", "null"})
    <2>1. Cardinality(Ids) + 1 = m
        BY <1>1
    <2>2. table # "bookings" => r.seat = 0
        BY DEF Insert
    <2> QED
        BY <2>1, <2>2 DEF Insert
<1>3. m \in 0..MaxTableRows /\ m \notin Ids /\ 1..m = Ids \cup {m}
    BY <1>1, <1>2, TableRowsNat
<1> HIDE DEF m
<1>4. records' \in [1..m -> RowValues] /\ Ids' = Ids \cup {m} /\ records'[m] = r
      /\ \A k \in Ids : records'[k] = records[k]
    BY <1>1, <1>2, <1>3 DEF Ids
<1>5. LiveRows' = LiveRows \cup {m}
    BY <1>2, <1>4 DEF LiveRows
<1>6. RowsSingle' /\ AheadSingle'
    BY <1>2, <1>3, <1>4, ComesSingle
<1>7. GuardTypeOK'
    <2>1. Ids \cup {m} \subseteq Ids'
        BY <1>4
    <2>2. deploy' \in Deploys'
        BY <1>2, <2>1, NotedFits DEF GuardInv, Deploys
    <2> QED
        BY <1>2, <1>3, <1>4, <2>2 DEF GuardInv, GuardTypeOK
<1>8. SeatsAndForms'
    BY <1>2, <1>4, <1>5 DEF GuardInv, SeatsAndForms, LiveRows
<1>9. deploy'.step = deploy.step /\ deploy'.losers = deploy.losers /\ deploy'.index = deploy.index
      /\ deploy'.gone = deploy.gone
      /\ deploy'.late = IF deploy.step # "idle" THEN deploy.late \cup {m} ELSE deploy.late
    BY <1>2, NotedFits DEF GuardInv
<1>10. DeployLocks'
    BY <1>2, <1>9, UnlockedIndex DEF GuardInv, DeployLocks, Surviving
<1>11. DeployCleared'
    <2> SUFFICES ASSUME deploy.step # "idle" PROVE DeployCleared'
        BY <1>9 DEF DeployCleared
    <2>1. deploy'.late = deploy.late \cup {m} /\ deploy.losers \subseteq LiveRows /\ LiveRows \subseteq Ids
        BY <1>9 DEF LiveRows, GuardInv, DeployCleared
    <2>2. \A i, j \in Ids : Twins(i, j)' <=> Twins(i, j)
        BY <1>2, <1>4 DEF Twins, Claim
    <2>3. LiveRows' \ deploy'.late = LiveRows \ deploy.late
        BY <1>3, <1>5, <2>1
    <2>4. \A i \in deploy.losers : \A j \in Ids : Winner(i, j) => Winner(i, j)'
        BY <1>3, <1>4, <1>9, <2>1 DEF Winner
    <2>5. deploy'.losers \cap deploy'.late = {} /\ deploy'.losers \subseteq LiveRows'
        BY <1>3, <1>5, <1>9, <2>1 DEF GuardInv, DeployCleared
    <2>6. \A i, j \in LiveRows' \ deploy'.late : j < i /\ Twins(i, j)' => i \in deploy'.losers
        BY <1>9, <2>1, <2>2, <2>3 DEF GuardInv, DeployCleared
    <2>7. \A i \in deploy'.losers : \E j \in Ids' : Winner(i, j)'
        BY <1>4, <1>9, <2>4 DEF GuardInv, DeployCleared
    <2> QED
        BY <2>5, <2>6, <2>7 DEF DeployCleared
<1> QED
    BY <1>6, <1>7, <1>8, <1>10, <1>11 DEF GuardInv

\* A row the boutique may write is no loser.
LEMMA WritableStays ==
    ASSUME GuardInv, NEW i \in Ids, Writable(i), deploy.step # "idle", records[i].live
    PROVE  i \notin deploy.losers
BY AfterPlace DEF Writable

LEMMA CloseStep == ASSUME GuardInv, NEW i \in Ids, Close(i) PROVE GuardInv'
<1>1. PICK n \in 0..MaxTableRows : n \in Nat /\ Ids = 1..n /\ records \in [1..n -> RowValues]
    BY RowIds DEF GuardInv
<1>2. /\ records[i].live /\ Writable(i) /\ Unlocked
      /\ records' = [records EXCEPT ![i] = [records[i] EXCEPT !.live = FALSE]]
      /\ deploy' = Noted("gone", i) /\ UNCHANGED <<table, index, served, late>>
    BY DEF Close, Writable
<1> DEFINE x == [records[i] EXCEPT !.live = FALSE]
<1>3. x \in RowValues /\ x.live = FALSE /\ x.key = records[i].key /\ x.seat = records[i].seat
      /\ x.form = records[i].form
    BY <1>1, RowLives
<1>4. records' = [records EXCEPT ![i] = x]
    BY <1>2
<1> HIDE DEF x
<1>5. /\ records' \in [1..n -> RowValues] /\ Ids' = Ids /\ records'[i] = x
      /\ \A k \in Ids \ {i} : records'[k] = records[k]
    BY <1>1, <1>3, <1>4 DEF Ids
<1>6. LiveRows' = LiveRows \ {i}
    BY <1>3, <1>5 DEF LiveRows
<1>7. deploy'.step = deploy.step /\ deploy'.losers = deploy.losers /\ deploy'.index = deploy.index
      /\ deploy'.late = deploy.late
      /\ deploy'.gone = IF deploy.step # "idle" THEN deploy.gone \cup {i} ELSE deploy.gone
    BY <1>2, NotedFits DEF GuardInv
<1>8. GuardTypeOK'
    <2>1. Ids \cup {i} \subseteq Ids'
        BY <1>5
    <2>2. deploy' \in Deploys'
        BY <1>2, <2>1, NotedFits DEF GuardInv, Deploys
    <2> QED
        BY <1>1, <1>2, <1>5, <2>2 DEF GuardInv, GuardTypeOK
<1>9. SeatsAndForms'
    BY <1>2, <1>3, <1>5, <1>6 DEF GuardInv, SeatsAndForms, LiveRows
<1>10. DeployLocks'
    BY <1>2, <1>7 DEF GuardInv, DeployLocks, Surviving
<1>11. RowsSingle'
    BY <1>2, <1>3, <1>5 DEF GuardInv, RowsSingle, Single, Collide, Ids
<1>12. AheadSingle'
    <2> SUFFICES ASSUME deploy.step # "idle" PROVE AheadSingle'
        BY <1>7 DEF AheadSingle
    <2>1. \A k \in Ids \ {i} : After(k)' = After(k)
        BY <1>5, <1>7 DEF After
    <2>2. ~After(i)'.live
        <3>1. CASE i \in deploy.late
            BY <1>3, <1>5, <1>7, <3>1 DEF After
        <3>2. CASE i \notin deploy.late
            <4> DEFINE t == Tidied(x)
                       b == t.live /\ i \notin deploy.losers
            <4>1. t \in RowValues /\ ~b /\ b \in BOOLEAN
                BY <1>3, TidiedFits
            <4>2. After(i)' = [t EXCEPT !.live = b]
                BY <1>5, <1>7, <3>2 DEF After
            <4> HIDE DEF t, b
            <4> QED
                BY <4>1, <4>2, RowLives
        <3> QED
            BY <3>1, <3>2
    <2>3. \A j, k \in Ids : j # k => ~Collide(After(j)', After(k)', deploy.index)
        BY <2>1, <2>2 DEF GuardInv, AheadSingle, Single, Ahead, Collide
    <2>4. Ahead' = [k \in Ids |-> After(k)']
        BY <1>5 DEF Ahead
    <2> QED
        BY <1>7, <2>3, <2>4 DEF AheadSingle, Single
<1>13. DeployCleared'
    <2> SUFFICES ASSUME deploy.step # "idle" PROVE DeployCleared'
        BY <1>7 DEF DeployCleared
    <2>1. i \notin deploy.losers
        BY <1>2, WritableStays
    <2>2. \A j, k \in LiveRows' : Twins(j, k)' <=> Twins(j, k)
        BY <1>2, <1>5, <1>6 DEF Twins, Claim, LiveRows
    <2>3. \A k \in deploy.losers : \A j \in Ids : Winner(k, j) => Winner(k, j)'
        <3>1. deploy.losers \subseteq Ids
            BY DEF GuardInv, DeployCleared, LiveRows
        <3> QED
            BY <1>3, <1>5, <1>7, <2>1, <3>1 DEF Winner, SeatOf
    <2> QED
        BY <1>5, <1>6, <1>7, <2>1, <2>2, <2>3 DEF GuardInv, DeployCleared
<1> QED
    BY <1>8, <1>9, <1>10, <1>11, <1>12, <1>13 DEF GuardInv

LEMMA CallBackStep == ASSUME GuardInv, NEW i \in Ids, CallBack(i) PROVE GuardInv'
<1>1. PICK n \in 0..MaxTableRows : n \in Nat /\ Ids = 1..n /\ records \in [1..n -> RowValues]
    BY RowIds DEF GuardInv
<1> DEFINE x == [records[i] EXCEPT !.live = TRUE]
<1>2. /\ table = "tickets" /\ ~records[i].live /\ Unlocked /\ Fits(i, x)
      /\ records' = [records EXCEPT ![i] = x] /\ deploy' = Noted("late", i)
      /\ late' = late \cup {i} /\ UNCHANGED <<table, index, served>>
    BY DEF CallBack, Writable
<1>3. x \in RowValues /\ x.live = TRUE /\ x.key = records[i].key /\ x.seat = records[i].seat
      /\ x.form = records[i].form
    BY <1>1, RowLives
<1> HIDE DEF x
<1>4. /\ records' \in [1..n -> RowValues] /\ Ids' = Ids /\ records'[i] = x
      /\ \A k \in Ids \ {i} : records'[k] = records[k]
    BY <1>1, <1>2, <1>3 DEF Ids
<1>5. LiveRows' = LiveRows \cup {i} /\ i \notin LiveRows
    BY <1>2, <1>3, <1>4 DEF LiveRows
<1>6. RowsSingle' /\ AheadSingle'
    BY <1>2, <1>4, ComesSingle
<1>7. deploy'.step = deploy.step /\ deploy'.losers = deploy.losers /\ deploy'.index = deploy.index
      /\ deploy'.gone = deploy.gone
      /\ deploy'.late = IF deploy.step # "idle" THEN deploy.late \cup {i} ELSE deploy.late
    BY <1>2, NotedFits DEF GuardInv
<1>8. GuardTypeOK'
    <2>1. Ids \cup {i} \subseteq Ids'
        BY <1>4
    <2>2. deploy' \in Deploys'
        BY <1>2, <2>1, NotedFits DEF GuardInv, Deploys
    <2> QED
        BY <1>1, <1>2, <1>4, <2>2 DEF GuardInv, GuardTypeOK
<1>9. SeatsAndForms'
    BY <1>2, <1>3, <1>4, <1>5 DEF GuardInv, SeatsAndForms, LiveRows
<1>10. DeployLocks'
    BY <1>2, <1>7 DEF GuardInv, DeployLocks, Surviving
<1>11. DeployCleared'
    <2> SUFFICES ASSUME deploy.step # "idle" PROVE DeployCleared'
        BY <1>7 DEF DeployCleared
    <2>1. deploy'.late = deploy.late \cup {i} /\ deploy.losers \subseteq LiveRows /\ LiveRows \subseteq Ids
        BY <1>7 DEF LiveRows, GuardInv, DeployCleared
    <2>2. \A j, k \in LiveRows : Twins(j, k)' <=> Twins(j, k)
        BY <1>2, <1>4, <1>5, <2>1 DEF Twins, Claim
    <2>3. LiveRows' \ deploy'.late \subseteq LiveRows \ deploy.late
        BY <1>5, <2>1
    <2>4. \A k \in deploy.losers : \A j \in Ids : Winner(k, j) => Winner(k, j)'
        BY <1>2, <1>3, <1>4, <1>5, <1>7, <2>1 DEF Winner, SeatOf
    <2>5. deploy'.losers \cap deploy'.late = {} /\ deploy'.losers \subseteq LiveRows'
        BY <1>5, <1>7, <2>1 DEF GuardInv, DeployCleared
    <2>6. \A j, k \in LiveRows' \ deploy'.late : k < j /\ Twins(j, k)' => j \in deploy'.losers
        BY <1>7, <2>1, <2>2, <2>3 DEF GuardInv, DeployCleared
    <2>7. \A k \in deploy'.losers : \E j \in Ids' : Winner(k, j)'
        BY <1>4, <1>7, <2>4 DEF GuardInv, DeployCleared
    <2> QED
        BY <2>5, <2>6, <2>7 DEF DeployCleared
<1> QED
    BY <1>6, <1>8, <1>9, <1>10, <1>11 DEF GuardInv

LEMMA GuardStep == GuardInv /\ [GuardNext]_guardVars => GuardInv'
<1> SUFFICES ASSUME GuardInv, [GuardNext]_guardVars PROVE GuardInv'
    OBVIOUS
<1>1. CASE UNCHANGED guardVars
    BY <1>1 DEF guardVars, GuardInv, GuardTypeOK, SeatsAndForms, DeployLocks, DeployCleared, Winner,
                RowsSingle, AheadSingle, Ahead, After, Ids, LiveRows, Twins, Claim, Surviving, Deploys
<1> QED
    BY <1>1, ClearStep, BuildStep, GoLiveStep, RollBackStep, InsertStep, CloseStep, CallBackStep
       DEF GuardNext

-----------------------------------------------------------------------------
(* What they are for.                                                      *)

\* Only the end of a deploy takes it from built to idle, and writes rows only when its index stands.
LEMMA DeployEnds ==
    ASSUME GuardInv, [GuardNext]_guardVars, deploy.step = "built", deploy'.step = "idle"
    PROVE  IF Stands THEN GoLive ELSE UNCHANGED records
<1>1. ASSUME NEW i, deploy' = Noted("late", i) \/ deploy' = Noted("gone", i) PROVE FALSE
    BY <1>1, NotedFits DEF GuardInv
<1> QED
    BY <1>1 DEF GuardNext, guardVars, Clear, Build, GoLive, RollBack, Insert, Close, CallBack

LEMMA LoserHasTwin ==
    ASSUME GuardInv, [GuardNext]_guardVars, deploy.step = "built", deploy'.step = "idle",
           NEW i \in LiveRows, ~records'[i].live
    PROVE  \E j \in Ids : /\ j < i /\ (records'[j].live \/ j \in deploy.gone)
                          /\ records'[j].key = records'[i].key
                          /\ records'[j].seat = records'[i].seat
<1>1. i \in Ids /\ records[i].live
    BY DEF LiveRows
<1>2. GoLive
    BY <1>1, DeployEnds
<1>3. \A k \in Ids : records'[k] = After(k)
    BY <1>2 DEF GoLive, Ahead
<1>4. i \in deploy.losers
    BY <1>1, <1>3, AfterPlace
<1>5. PICK j \in Ids : Winner(i, j)
    BY <1>4 DEF GuardInv, DeployCleared
<1> QED
    BY <1>1, <1>3, <1>5, AfterPlace DEF Winner

LEMMA NoDoublesLeft ==
    ASSUME GuardInv, [GuardNext]_guardVars, deploy.step = "built", deploy'.step = "idle", Stands,
           NEW i \in Ids' \ late', NEW j \in Ids' \ late', SamePlace(records'[i], records'[j])
    PROVE  i = j
<1> SUFFICES ASSUME i # j PROVE FALSE
    OBVIOUS
<1>1. GoLive
    BY DeployEnds
<1>2. PICK n \in 0..MaxTableRows : n \in Nat /\ Ids = 1..n
    BY RowIds DEF GuardInv
<1>3. Ids' = Ids /\ (\A k \in Ids : records'[k] = After(k)) /\ late' = deploy.late
    BY <1>1 DEF GoLive, Ahead, Ids
<1>4. /\ i \in Ids \ deploy.late /\ j \in Ids \ deploy.late
      /\ SamePlace(After(i), After(j))
    BY <1>3
<1>5. /\ records[i].live /\ i \notin deploy.losers /\ records[j].live /\ j \notin deploy.losers
      /\ records[i].key = records[j].key /\ SeatOf(records[i]) = SeatOf(records[j])
      /\ FormOf(records[i]) # "null" /\ FormOf(records[j]) # "null"
    BY <1>4, AfterFits DEF GuardInv, SamePlace
<1>6. i \in LiveRows /\ j \in LiveRows
    BY <1>4, <1>5 DEF LiveRows
<1>7. Twins(i, j) /\ Twins(j, i)
    BY <1>5, <1>6, TwinsShare DEF GuardInv, SeatsAndForms
<1>8. \A a, b \in LiveRows \ deploy.late : b < a /\ Twins(a, b) => a \in deploy.losers
    BY DEF GuardInv, DeployCleared
<1>9. i < j \/ j < i
    BY <1>2, <1>4
<1> QED
    BY <1>4, <1>5, <1>6, <1>7, <1>8, <1>9

LEMMA GuardInvSingle == GuardInv => ServedIsSingle
<1> SUFFICES ASSUME GuardInv, served, index = "new", NEW i \in Ids \ Misspelled, NEW j \in Ids \ Misspelled,
                    SamePlace(records[i], records[j]), i # j
             PROVE  FALSE
    BY DEF ServedIsSingle
<1>1. ASSUME NEW k \in Ids \ Misspelled, records[k].live, records[k].form # "null"
      PROVE  records[k].form = "e164"
    <2>1. records[k].form \in PhoneForms
        BY RowIds, RowFields DEF GuardInv
    <2> QED
        BY <1>1, <2>1 DEF Misspelled, PhoneForms, GuardInv, SeatsAndForms, LiveRows
<1>2. Collide(records[i], records[j], "new")
    BY <1>1, SamePlaceCollides DEF SamePlace
<1> QED
    BY <1>2 DEF GuardInv, RowsSingle, Single, Ids

\* A deploy over old rows, for any kind of table, keys and rows, beside a boutique that goes
\* on: it leaves no doubles whatever index stands, none come back behind the code's own, and
\* a row goes only to an earlier one of its place.
THEOREM DeployGuards == GuardSpec => []GuardTypeOK /\ DeployIsSound
<1>1. GuardInv /\ [GuardNext]_guardVars =>
        [deploy.step = "built" /\ deploy'.step = "idle" =>
           \A i \in LiveRows : ~records'[i].live =>
               \E j \in Ids : /\ j < i /\ (records'[j].live \/ j \in deploy.gone)
                              /\ records'[j].key = records'[i].key
                              /\ records'[j].seat = records'[i].seat]_guardVars
    BY LoserHasTwin
<1>2. GuardInv /\ [GuardNext]_guardVars =>
        [deploy.step = "built" /\ deploy'.step = "idle" /\ Stands =>
           \A i, j \in Ids' \ late' : SamePlace(records'[i], records'[j]) => i = j]_guardVars
    BY NoDoublesLeft
<1>3. GuardInv => GuardTypeOK /\ ServedIsSingle
    BY GuardInvSingle DEF GuardInv
<1> QED
    BY GuardInitInv, GuardStep, <1>1, <1>2, <1>3, PTL
       DEF GuardSpec, DeployIsSound, LoserHasAnEarlierTwin, DeployLeavesSingles

-----------------------------------------------------------------------------
(*****************************************************************************)
(* OpeningWindows.                                                           *)
(*                                                                           *)
(* The opening hours, for any closing time and capacities. The invariant     *)
(* says that every hour taken is on the grid of some window and has at       *)
(* most as many fittings as the roomiest window ever took, and that the      *)
(* booking under way has a seat that is left. On one lattice no two hours    *)
(* that overlap are then both taken.                                         *)
(*****************************************************************************)

\* An hour that some window, open or archived, is a slot away from.
OnGrid(t) == \E w \in windows : t \in w.opens..LastTick /\ (t - w.opens) % Slot = 0

\* The booking under way has a seat that is left, and ends before closing unless the hours were edited.
ChosenFits ==
    chosen # NoHour =>
        /\ booked[chosen.hour] < chosen.seats /\ chosen.seats <= peak /\ OnGrid(chosen.hour)
        /\ ~moved => \E w \in windows : w.open /\ w.opens <= chosen.hour /\ chosen.hour + Slot <= w.closes

WindowInv ==
    /\ WindowTypeOK
    /\ Peak(windows) <= peak
    /\ ChosenFits
    /\ \A t \in Ticks : booked[t] <= peak /\ (booked[t] > 0 => OnGrid(t))

-----------------------------------------------------------------------------
(* Capacities.                                                             *)

LEMMA LastTickNat == LastTick \in Nat /\ LastTick > 1 /\ MaxCapacityTyped \in Nat \ {0} /\ MaxFittings \in Nat \ {0}
BY WindowBounds

\* Capacities have a highest one.
LEMMA MaxOfSome ==
    ASSUME NEW S \in SUBSET (0..MaxCapacityTyped), S # {}
    PROVE  Max(S) \in S /\ \A k \in S : k <= Max(S)
<1>1. MaxCapacityTyped \in Nat
    BY LastTickNat
<1> DEFINE T == {MaxCapacityTyped - k : k \in S}
<1>2. T \in SUBSET Nat /\ T # {}
    <2>1. \A k \in S : MaxCapacityTyped - k \in Nat
        BY <1>1
    <2> QED
        BY <2>1
<1>3. PICK m \in T : \A k \in T : m <= k
    BY <1>2, LeastExists
<1>4. PICK x \in S : m = MaxCapacityTyped - x
    OBVIOUS
<1>5. \A y \in S : x >= y
    <2> SUFFICES ASSUME NEW y \in S PROVE x >= y
        OBVIOUS
    <2>1. MaxCapacityTyped - x <= MaxCapacityTyped - y
        BY <1>3, <1>4
    <2>2. x \in Nat /\ y \in Nat
        BY <1>1
    <2> QED
        BY <1>1, <2>1, <2>2
<1>6. \A y \in S : Max(S) >= y
    BY <1>5 DEF Max
<1>7. Max(S) \in S
    BY <1>5 DEF Max
<1> QED
    BY <1>1, <1>6, <1>7

LEMMA WindowFields ==
    ASSUME NEW w \in Windows
    PROVE  w.opens \in Ticks /\ w.closes \in Ticks /\ w.capacity \in 1..MaxCapacityTyped /\ w.open \in BOOLEAN
BY DEF Windows

LEMMA PeakFits ==
    ASSUME NEW ws \in SUBSET Windows
    PROVE  /\ Peak(ws) \in 0..MaxCapacityTyped
           /\ \A w \in ws : w.open => w.capacity <= Peak(ws)
<1> DEFINE S == {0} \cup {w.capacity : w \in {v \in ws : v.open}}
<1>1. S \in SUBSET (0..MaxCapacityTyped) /\ S # {}
    BY WindowFields, LastTickNat
<1>2. \A w \in ws : w.open => w.capacity \in S
    OBVIOUS
<1>3. Peak(ws) = Max(S)
    BY DEF Peak
<1> HIDE DEF S
<1> QED
    BY <1>1, <1>2, <1>3, MaxOfSome

LEMMA SeatsFit ==
    ASSUME WindowTypeOK, NEW t \in Ticks
    PROVE  /\ Seats(t) \in 0..MaxCapacityTyped
           /\ Seats(t) > 0 => \E w \in Offering(t) : Seats(t) = w.capacity
<1> DEFINE S == {0} \cup {w.capacity : w \in Offering(t)}
<1>1. S \in SUBSET (0..MaxCapacityTyped) /\ S # {}
    BY WindowFields, LastTickNat DEF Offering, WindowTypeOK
<1>2. \A k \in S : k = 0 \/ \E w \in Offering(t) : k = w.capacity
    OBVIOUS
<1>3. Seats(t) = Max(S)
    BY DEF Seats
<1> HIDE DEF S
<1>4. Seats(t) \in S /\ Seats(t) \in 0..MaxCapacityTyped
    BY <1>1, <1>3, MaxOfSome
<1> QED
    BY <1>2, <1>4

\* An hour on offer is on the grid and ends before a window closes.
LEMMA OfferedFits ==
    ASSUME WindowTypeOK, NEW t \in Ticks, NEW w \in Offering(t)
    PROVE  /\ w \in windows /\ w.open /\ w.opens <= t /\ t + Slot <= w.closes /\ OnGrid(t)
<1>1. w \in windows /\ w.open /\ t \in w.opens..w.closes /\ (t - w.opens) % Slot = 0 /\ t + Slot <= w.closes
    BY DEF Offering, Starts
<1>2. w.opens \in Ticks /\ w.closes \in Ticks /\ t \in 0..LastTick
    BY <1>1, WindowFields DEF WindowTypeOK, Ticks
<1>3. t \in w.opens..LastTick
    BY <1>1, <1>2, LastTickNat DEF Ticks
<1>4. OnGrid(t)
    BY <1>1, <1>3 DEF OnGrid
<1> QED
    BY <1>1, <1>2, <1>4, LastTickNat DEF Ticks

-----------------------------------------------------------------------------
(* The steps.                                                              *)

LEMMA WindowInitInv == WindowInit => WindowInv
<1> SUFFICES ASSUME WindowInit PROVE WindowInv
    OBVIOUS
<1>1. windows \subseteq Windows
    <2>1. [opens |-> 1, closes |-> LastTick, capacity |-> 1, open |-> TRUE] \in Windows
        BY LastTickNat DEF Windows, Ticks
    <2> QED
        BY <2>1 DEF WindowInit
<1>2. Peak(windows) \in 0..MaxCapacityTyped
    BY <1>1, PeakFits
<1>3. \A w \in windows : w.opens < w.closes
    BY LastTickNat DEF WindowInit
<1>a. \A v, w \in windows : v = w
    BY DEF WindowInit
<1>b. booked \in [Ticks -> 0..MaxCapacityTyped]
    BY LastTickNat DEF WindowInit
<1>4. WindowTypeOK
    BY <1>1, <1>2, <1>3, <1>a, <1>b DEF WindowInit, WindowTypeOK
<1> QED
    BY <1>2, <1>4 DEF WindowInit, WindowInv, ChosenFits

\* The windows may change in any way that keeps their opening times.
LEMMA EditStep ==
    ASSUME WindowInv, NEW ws \in SUBSET Windows, Edit(ws),
           \A w \in ws : w.opens < w.closes,
           \A v, w \in ws : v.opens = w.opens => v = w,
           \A w \in windows : \E v \in ws : v.opens = w.opens
    PROVE  WindowInv'
<1>1. /\ windows' = ws /\ moved' = (chosen # NoHour) /\ peak' = Max({peak, Peak(ws)})
      /\ UNCHANGED <<booked, chosen>>
    BY DEF Edit
<1>2. peak \in 0..MaxCapacityTyped /\ Peak(ws) \in 0..MaxCapacityTyped
    BY PeakFits DEF WindowInv, WindowTypeOK
<1>3. {peak, Peak(ws)} \in SUBSET (0..MaxCapacityTyped) /\ {peak, Peak(ws)} # {}
    BY <1>2
<1>4. peak' \in 0..MaxCapacityTyped /\ peak <= peak' /\ Peak(ws) <= peak'
    BY <1>1, <1>2, <1>3, MaxOfSome
<1>5. WindowTypeOK'
    <2>1. moved' \in BOOLEAN
        BY <1>1
    <2> QED
        BY <1>1, <1>4, <2>1 DEF WindowInv, WindowTypeOK
<1>6. \A t \in Ticks : OnGrid(t) => OnGrid(t)'
    BY <1>1 DEF OnGrid
<1>7. chosen # NoHour => chosen.hour \in Ticks /\ chosen.seats \in 1..MaxCapacityTyped
    BY DEF WindowInv, WindowTypeOK
<1>8. ChosenFits'
    <2> SUFFICES ASSUME chosen # NoHour
                 PROVE  /\ booked[chosen.hour] < chosen.seats /\ chosen.seats <= peak'
                        /\ OnGrid(chosen.hour)' /\ moved'
        BY <1>1 DEF ChosenFits, OnGrid
    <2>1. booked[chosen.hour] < chosen.seats /\ chosen.seats <= peak /\ OnGrid(chosen.hour)
        BY DEF WindowInv, ChosenFits
    <2>2. OnGrid(chosen.hour)'
        BY <1>1, <2>1 DEF OnGrid
    <2>3. chosen.seats <= peak'
        BY <1>2, <1>4, <1>7, <2>1, LastTickNat
    <2>4. moved'
        BY <1>1
    <2> QED
        BY <2>1, <2>2, <2>3, <2>4
<1>9. \A t \in Ticks : booked[t] <= peak' /\ (booked[t] > 0 => OnGrid(t)')
    <2>1. \A t \in Ticks : booked[t] \in 0..MaxCapacityTyped /\ booked[t] <= peak /\ (booked[t] > 0 => OnGrid(t))
        BY DEF WindowInv, WindowTypeOK
    <2> QED
        BY <1>2, <1>4, <1>6, <2>1, LastTickNat
<1>10. (\A t \in Ticks : booked[t] <= peak /\ (booked[t] > 0 => OnGrid(t)))'
    BY <1>1, <1>9 DEF OnGrid, Ticks
<1>11. Peak(windows') = Peak(ws)
    BY <1>1
<1> QED
    BY <1>4, <1>5, <1>8, <1>10, <1>11 DEF WindowInv, Peak

LEMMA AddWindowStep == ASSUME WindowInv, AddWindow PROVE WindowInv'
<1>1. PICK o \in Ticks, c \in Ticks, n \in 1..MaxCapacityTyped :
          /\ o < c /\ \A w \in windows : w.opens # o
          /\ Edit(windows \cup {[opens |-> o, closes |-> c, capacity |-> n, open |-> TRUE]})
    BY DEF AddWindow
<1> DEFINE x == [opens |-> o, closes |-> c, capacity |-> n, open |-> TRUE]
           ws == windows \cup {x}
<1>2. x \in Windows /\ x.opens = o /\ x.closes = c
    BY <1>1 DEF Windows
<1> HIDE DEF x
<1>3. /\ ws \in SUBSET Windows
      /\ \A w \in ws : w.opens < w.closes
      /\ \A v, w \in ws : v.opens = w.opens => v = w
      /\ \A w \in windows : \E v \in ws : v.opens = w.opens
    BY <1>1, <1>2 DEF WindowInv, WindowTypeOK
<1>4. Edit(ws)
    BY <1>1 DEF x
<1> HIDE DEF ws
<1> QED
    BY <1>3, <1>4, EditStep

\* A window is put in the place of one with its opening and closing times.
LEMMA ReplaceStep ==
    ASSUME WindowInv, NEW w \in windows, NEW x \in Windows, x.opens = w.opens, x.closes = w.closes,
           Edit((windows \ {w}) \cup {x})
    PROVE  WindowInv'
<1> DEFINE ws == (windows \ {w}) \cup {x}
<1>1. /\ ws \in SUBSET Windows
      /\ \A v \in ws : v.opens < v.closes
      /\ \A u, v \in ws : u.opens = v.opens => u = v
      /\ \A v \in windows : \E u \in ws : u.opens = v.opens
    BY DEF WindowInv, WindowTypeOK
<1> HIDE DEF ws
<1> QED
    BY <1>1, EditStep DEF ws

LEMMA SetCapacityStep == ASSUME WindowInv, SetCapacity PROVE WindowInv'
<1>1. PICK w \in windows, n \in 1..MaxCapacityTyped : Edit((windows \ {w}) \cup {[w EXCEPT !.capacity = n]})
    BY DEF SetCapacity
<1>2. w \in Windows
    BY DEF WindowInv, WindowTypeOK
<1> DEFINE x == [w EXCEPT !.capacity = n]
<1>3. x \in Windows /\ x.opens = w.opens /\ x.closes = w.closes
    BY <1>2 DEF Windows
<1> HIDE DEF x
<1> QED
    BY <1>1, <1>3, ReplaceStep DEF x

LEMMA TurnWindowStep == ASSUME WindowInv, TurnWindow PROVE WindowInv'
<1>1. PICK w \in windows : Edit((windows \ {w}) \cup {[w EXCEPT !.open = ~w.open]})
    BY DEF TurnWindow
<1>2. w \in Windows
    BY DEF WindowInv, WindowTypeOK
<1>3. ASSUME NEW b \in BOOLEAN, NEW x, x = [w EXCEPT !.open = b]
      PROVE  x \in Windows /\ x.opens = w.opens /\ x.closes = w.closes
    BY <1>2, <1>3 DEF Windows
<1> DEFINE x == [w EXCEPT !.open = ~w.open]
<1>4. x \in Windows /\ x.opens = w.opens /\ x.closes = w.closes
    BY <1>3
<1> HIDE DEF x
<1> QED
    BY <1>1, <1>4, ReplaceStep DEF x

LEMMA BookBeginsStep == ASSUME WindowInv, NEW t \in Ticks, BookBegins(t) PROVE WindowInv'
<1> DEFINE x == [hour |-> t, seats |-> Seats(t)]
<1>1. /\ booked[t] < Seats(t) /\ chosen' = x /\ moved' = FALSE /\ UNCHANGED <<windows, booked, peak>>
    BY DEF BookBegins
<1>2. booked[t] \in 0..MaxCapacityTyped /\ Seats(t) \in 0..MaxCapacityTyped
    BY SeatsFit DEF WindowInv, WindowTypeOK
<1>3. Seats(t) \in 1..MaxCapacityTyped
    BY <1>1, <1>2, LastTickNat
<1>4. PICK w \in Offering(t) : Seats(t) = w.capacity
    BY <1>2, <1>3, SeatsFit, LastTickNat DEF WindowInv
<1>5. w \in windows /\ w.open /\ w.opens <= t /\ t + Slot <= w.closes /\ OnGrid(t)
    BY <1>4, OfferedFits DEF WindowInv
<1>6. w.capacity <= Peak(windows)
    BY <1>5, PeakFits DEF WindowInv, WindowTypeOK
<1>7. Seats(t) <= peak
    BY <1>2, <1>4, <1>6, PeakFits DEF WindowInv, WindowTypeOK
<1>8. x \in [hour : Ticks, seats : 1..MaxCapacityTyped] /\ x.hour = t /\ x.seats = Seats(t)
    BY <1>3
<1> HIDE DEF x
<1>9. WindowTypeOK'
    BY <1>1, <1>8 DEF WindowInv, WindowTypeOK
<1>10. ChosenFits'
    BY <1>1, <1>5, <1>7, <1>8 DEF ChosenFits, OnGrid
<1> QED
    BY <1>1, <1>9, <1>10 DEF WindowInv, OnGrid, Peak

\* A fitting is written where a seat was left.
LEMMA BookCommitsStep ==
    ASSUME WindowInv, BookCommits
    PROVE  /\ WindowInv'
           /\ \A t \in Ticks : booked'[t] > booked[t] => t = chosen.hour
<1> DEFINE h == chosen.hour
<1>1. chosen # NoHour /\ booked' = [booked EXCEPT ![h] = booked[h] + 1] /\ chosen' = NoHour
      /\ moved' = FALSE /\ UNCHANGED <<windows, peak>>
    BY DEF BookCommits
<1>2. h \in Ticks /\ chosen.seats \in 1..MaxCapacityTyped /\ booked[h] < chosen.seats
      /\ chosen.seats <= peak /\ OnGrid(h)
    BY <1>1 DEF WindowInv, WindowTypeOK, ChosenFits
<1>3. booked[h] \in 0..MaxCapacityTyped /\ peak \in 0..MaxCapacityTyped
    BY <1>2 DEF WindowInv, WindowTypeOK
<1>4. booked[h] + 1 \in 0..MaxCapacityTyped /\ booked[h] + 1 <= peak
    BY <1>2, <1>3, LastTickNat
<1> HIDE DEF h
<1>5. booked' \in [Ticks -> 0..MaxCapacityTyped] /\ booked'[h] = booked[h] + 1
      /\ \A t \in Ticks : t # h => booked'[t] = booked[t]
    BY <1>1, <1>2, <1>4 DEF WindowInv, WindowTypeOK
<1>6. WindowTypeOK'
    BY <1>1, <1>5 DEF WindowInv, WindowTypeOK
<1>7. \A t \in Ticks : booked'[t] <= peak /\ (booked'[t] > 0 => OnGrid(t))
    BY <1>2, <1>4, <1>5 DEF WindowInv
<1>8. ASSUME NEW t \in Ticks, booked'[t] > booked[t] PROVE t = h
    <2>1. booked[t] \in Nat
        BY LastTickNat DEF WindowInv, WindowTypeOK
    <2> QED
        BY <1>5, <1>8, <2>1
<1> QED
    BY <1>1, <1>6, <1>7, <1>8 DEF WindowInv, ChosenFits, OnGrid, Peak, h

LEMMA CancelFittingStep ==
    ASSUME WindowInv, NEW c \in Ticks, CancelFitting(c)
    PROVE  /\ WindowInv'
           /\ \A t \in Ticks : booked'[t] <= booked[t]
<1>1. booked[c] > 0 /\ booked' = [booked EXCEPT ![c] = booked[c] - 1] /\ UNCHANGED <<windows, chosen, moved, peak>>
    BY DEF CancelFitting
<1>2. \A t \in Ticks : booked[t] \in 0..MaxCapacityTyped
    BY DEF WindowInv, WindowTypeOK
<1>3. booked[c] - 1 \in 0..MaxCapacityTyped
    BY <1>1, <1>2, LastTickNat
<1>4. booked' \in [Ticks -> 0..MaxCapacityTyped] /\ booked'[c] = booked[c] - 1
      /\ \A t \in Ticks : t # c => booked'[t] = booked[t]
    BY <1>1, <1>3 DEF WindowInv, WindowTypeOK
<1>5. \A t \in Ticks : booked'[t] <= booked[t]
    BY <1>2, <1>4, LastTickNat
<1>6. WindowTypeOK'
    BY <1>1, <1>4 DEF WindowInv, WindowTypeOK
<1>7. peak \in 0..MaxCapacityTyped /\ \A t \in Ticks : booked'[t] \in 0..MaxCapacityTyped
    BY <1>4 DEF WindowInv, WindowTypeOK
<1>8. \A t \in Ticks : booked'[t] <= peak /\ (booked'[t] > 0 => OnGrid(t))
    <2> SUFFICES ASSUME NEW t \in Ticks PROVE booked'[t] <= peak /\ (booked'[t] > 0 => OnGrid(t))
        OBVIOUS
    <2>1. booked[t] <= peak /\ (booked[t] > 0 => OnGrid(t)) /\ booked'[t] <= booked[t]
        BY <1>5 DEF WindowInv
    <2> QED
        BY <1>2, <1>7, <2>1, LastTickNat
<1>9. ChosenFits'
    <2> SUFFICES ASSUME chosen # NoHour PROVE booked'[chosen.hour] < chosen.seats
        BY <1>1 DEF WindowInv, ChosenFits, OnGrid
    <2>1. chosen.hour \in Ticks /\ chosen.seats \in 1..MaxCapacityTyped /\ booked[chosen.hour] < chosen.seats
        BY DEF WindowInv, WindowTypeOK, ChosenFits
    <2> QED
        BY <1>2, <1>5, <1>7, <2>1, LastTickNat
<1> QED
    BY <1>1, <1>5, <1>6, <1>8, <1>9 DEF WindowInv, OnGrid, Peak

LEMMA WindowStep == WindowInv /\ [WindowNext]_windowVars => WindowInv'
<1> SUFFICES ASSUME WindowInv, [WindowNext]_windowVars PROVE WindowInv'
    OBVIOUS
<1>1. CASE UNCHANGED windowVars
    BY <1>1 DEF windowVars, WindowInv, WindowTypeOK, ChosenFits, OnGrid, Peak
<1> QED
    BY <1>1, AddWindowStep, SetCapacityStep, TurnWindowStep, BookCommitsStep, BookBeginsStep, CancelFittingStep
       DEF WindowNext

\* On one lattice, an hour and the one before it are not both booked.
LEMMA SeatsSuffice == WindowInv => SeatsAtOnce
<1> SUFFICES ASSUME WindowInv, Aligned, NEW t \in Ticks PROVE Running(t) <= peak
    BY DEF SeatsAtOnce
<1>1. t \in Nat /\ peak \in Nat /\ \A s \in Ticks : booked[s] \in Nat /\ booked[s] <= peak
    BY LastTickNat DEF WindowInv, WindowTypeOK, Ticks
<1>2. CASE t = 0
    BY <1>1, <1>2 DEF Running
<1>3. CASE t # 0
    <2>1. t - 1 \in Ticks /\ Running(t) = booked[t] + booked[t - 1]
        BY <1>1, <1>3, LastTickNat DEF Running, Ticks
    <2>2. booked[t] = 0 \/ booked[t - 1] = 0
        <3> SUFFICES ASSUME booked[t] > 0, booked[t - 1] > 0 PROVE FALSE
            BY <1>1, <2>1
        <3>1. OnGrid(t) /\ OnGrid(t - 1)
            BY <2>1 DEF WindowInv
        <3>2. PICK v \in windows : (t - v.opens) % 2 = 0
            BY <3>1 DEF OnGrid, Slot
        <3>3. PICK w \in windows : (t - 1 - w.opens) % 2 = 0
            BY <3>1 DEF OnGrid, Slot
        <3>4. (v.opens - w.opens) % 2 = 0
            BY DEF Aligned, Slot
        <3>5. v.opens \in Int /\ w.opens \in Int /\ t \in Int
            BY <1>1, WindowFields DEF WindowInv, WindowTypeOK, Ticks
        <3> QED
            BY <3>2, <3>3, <3>4, <3>5
    <2> QED
        BY <1>1, <2>1, <2>2
<1> QED
    BY <1>2, <1>3

LEMMA TakenFinishes ==
    ASSUME WindowInv, [WindowNext]_windowVars, NEW t \in Ticks, booked'[t] > booked[t], ~moved
    PROVE  \E w \in windows : w.open /\ w.opens <= t /\ t + Slot <= w.closes
<1>1. booked[t] \in Nat
    BY LastTickNat DEF WindowInv, WindowTypeOK
<1>2. BookCommits
    <2>1. ASSUME NEW c \in Ticks, CancelFitting(c) PROVE FALSE
        <3>1. booked'[t] <= booked[t] /\ booked'[t] \in Nat
            BY <2>1, CancelFittingStep, LastTickNat DEF WindowInv, WindowTypeOK
        <3> QED
            BY <1>1, <3>1
    <2>2. booked' # booked
        BY <1>1
    <2>3. ASSUME AddWindow \/ SetCapacity \/ TurnWindow PROVE booked' = booked
        BY <2>3 DEF AddWindow, SetCapacity, TurnWindow, Edit
    <2>4. ASSUME NEW c \in Ticks, BookBegins(c) PROVE booked' = booked
        BY <2>4 DEF BookBegins
    <2>5. UNCHANGED windowVars => booked' = booked
        BY DEF windowVars
    <2> QED
        BY <2>1, <2>2, <2>3, <2>4, <2>5 DEF WindowNext
<1>3. t = chosen.hour /\ chosen # NoHour
    BY <1>2, BookCommitsStep DEF BookCommits
<1> QED
    BY <1>3 DEF WindowInv, ChosenFits

\* The opening hours, for any closing time and capacities: a fitting ends before closing, and on
\* one lattice of hours the seats are enough at every moment.
THEOREM HoursFit == WindowSpec => []WindowTypeOK /\ WindowsHold
<1>1. WindowInv /\ [WindowNext]_windowVars =>
        [\A t \in Ticks : booked'[t] > booked[t] /\ ~moved =>
           \E w \in windows : w.open /\ w.opens <= t /\ t + Slot <= w.closes]_windowVars
    BY TakenFinishes
<1>2. WindowInv => WindowTypeOK
    BY DEF WindowInv
<1> QED
    BY WindowInitInv, WindowStep, SeatsSuffice, <1>1, <1>2, PTL DEF WindowSpec, WindowsHold, FinishesByClosing

-----------------------------------------------------------------------------
(*****************************************************************************)
(* Codes.                                                                    *)
(*                                                                           *)
(* Sign-in by code, for any browsers and limits. The invariant ties each     *)
(* request to the rows it has read: a guess stands on its row and knows of   *)
(* every newer code, the codes of the hour and the requests still asking     *)
(* for one stay within the limit together, and whoever has found no card     *)
(* is alone with that or crossed somebody.                                   *)
(*****************************************************************************)

CodeRows == [st : {"none", "live", "used", "gone"}, tries : 0..MaxGuesses, born : 0..LastHour]
Visits   == [doing : {"nothing", "asking", "guessing", "booking"}, code : 0..MaxCodes,
             tries : 0..MaxGuesses, behind : SUBSET CodeNumbers, found : BOOLEAN,
             spell : Spellings]

\* Codes are numbered as they are asked for, and one is asked for once.
AskedOnce ==
    /\ \A c \in CodeNumbers : c > asked => code[c].st = "none"
    /\ \A b \in Browsers : visit[b].doing = "asking" =>
           /\ visit[b].code \in 1..asked /\ code[visit[b].code].st = "none"
           /\ \A o \in Browsers \ {b} : visit[o].doing = "asking" => visit[o].code # visit[b].code

\* A guess stands on the row it has read, and knows of every newer code, as far as it has not
\* been told otherwise.
GuessStands ==
    \A b \in Browsers : visit[b].doing = "guessing" =>
        /\ visit[b].code \in CodeNumbers /\ visit[b].tries < MaxGuesses
        /\ visit[b].code \notin visit[b].behind =>
               /\ code[visit[b].code].st = "live"
               /\ code[visit[b].code].tries = visit[b].tries
        /\ \A d \in Unused : d > visit[b].code => d \in visit[b].behind

\* The attempts of a row are its guesses, and it is used when somebody has signed in with it.
RowsCount ==
    \A c \in CodeNumbers :
        /\ guesses[c] = code[c].tries
        /\ signIns[c] <= 1
        /\ code[c].st \in {"none", "live"} => signIns[c] = 0
        /\ code[c].st = "gone" => hour - code[c].born >= 2
        /\ code[c].born <= hour

Asking == {b \in Browsers : visit[b].doing = "asking"}

\* A text is counted, or the one who asked for it has not committed.
SendsCounted == Cardinality(Recent) + Cardinality(Asking) <= MaxSends + Cardinality(Browsers) - 1

\* Who has found no card is alone with that, or the overlap is on record.
CardlessOverlap ==
    /\ \A b, o \in Browsers :
          b # o /\ ~visit[b].found /\ ~visit[o].found /\ visit[b].spell = visit[o].spell
             => visit[b].spell \in carded
    /\ \A b \in Browsers :
          ~visit[b].found /\ cards[visit[b].spell] > 0 => visit[b].spell \in carded
    /\ \A s \in Spellings : cards[s] > 1 => s \in carded

CodeInv ==
    /\ CodeTypeOK
    /\ AskedOnce
    /\ GuessStands
    /\ RowsCount
    /\ SendsCounted
    /\ CardlessOverlap

-----------------------------------------------------------------------------
(* Rows and visits.                                                        *)

LEMMA CodeNats == MaxGuesses \in Nat \ {0} /\ MaxSends \in Nat \ {0} /\ MaxCodes \in Nat \ {0} /\ LastHour \in Nat \ {0}
BY CodeBounds

LEMMA CodeTypes ==
    CodeTypeOK <=>
    /\ hour    \in 0..LastHour /\ asked \in 0..MaxCodes
    /\ code    \in [CodeNumbers -> CodeRows]
    /\ cards   \in [Spellings -> Nat]
    /\ visit   \in [Browsers -> Visits]
    /\ guesses \in [CodeNumbers -> Nat] /\ signIns \in [CodeNumbers -> Nat]
    /\ carded  \subseteq Spellings
BY DEF CodeTypeOK, CodeRows, Visits

LEMMA VisitFields ==
    ASSUME NEW v \in Visits
    PROVE  /\ v.doing \in {"nothing", "asking", "guessing", "booking"} /\ v.code \in 0..MaxCodes
           /\ v.tries \in 0..MaxGuesses /\ v.behind \in SUBSET CodeNumbers /\ v.found \in BOOLEAN
           /\ v.spell \in Spellings
BY DEF Visits

LEMMA NoVisitFits ==
    /\ NoVisit \in Visits /\ NoVisit.doing = "nothing" /\ NoVisit.found = TRUE
<1>1. 0 \in 0..MaxCodes /\ 0 \in 0..MaxGuesses /\ {} \in SUBSET CodeNumbers
    BY CodeNats
<1> QED
    BY <1>1, SpellingsFit DEF NoVisit, Visits

LEMMA ToldFits ==
    ASSUME NEW v \in Visits, NEW c \in CodeNumbers, NEW x, x = [v EXCEPT !.behind = @ \cup {c}]
    PROVE  /\ x \in Visits /\ x.doing = v.doing /\ x.code = v.code /\ x.tries = v.tries
           /\ x.behind = v.behind \cup {c} /\ x.found = v.found /\ x.spell = v.spell
<1>1. v.behind \cup {c} \in SUBSET CodeNumbers
    BY VisitFields
<1>2. x = [v EXCEPT !.behind = v.behind \cup {c}]
    OBVIOUS
<1> DEFINE d == v.behind \cup {c}
<1> HIDE DEF d
<1>3. d \in SUBSET CodeNumbers /\ x = [v EXCEPT !.behind = d]
    BY <1>1, <1>2 DEF d
<1> QED
    BY <1>3 DEF Visits, d

\* What the others learn of a write.
LEMMA WroteFits ==
    ASSUME CodeTypeOK, NEW b \in Browsers, NEW c \in CodeNumbers, Wrote(b, c)
    PROVE  /\ visit' \in [Browsers -> Visits]
           /\ visit'[b] = NoVisit
           /\ \A o \in Browsers \ {b} :
                 /\ visit'[o].doing = visit[o].doing /\ visit'[o].code = visit[o].code
                 /\ visit'[o].tries = visit[o].tries /\ visit'[o].found = visit[o].found
                 /\ visit'[o].spell = visit[o].spell
                 /\ visit[o].doing = "guessing" =>
                       visit'[o].behind = IF c >= visit[o].code THEN visit[o].behind \cup {c} ELSE visit[o].behind
<1> DEFINE new(o) == IF o = b THEN NoVisit
                     ELSE IF visit[o].doing = "guessing" /\ c >= visit[o].code
                          THEN [visit[o] EXCEPT !.behind = @ \cup {c}]
                     ELSE visit[o]
<1>1. visit' = [o \in Browsers |-> new(o)]
    BY DEF Wrote
<1>2. visit \in [Browsers -> Visits]
    BY CodeTypes
<1>3. \A o \in Browsers : LET x == [visit[o] EXCEPT !.behind = @ \cup {c}] IN
          /\ x \in Visits /\ x.doing = visit[o].doing /\ x.code = visit[o].code /\ x.tries = visit[o].tries
          /\ x.behind = visit[o].behind \cup {c} /\ x.found = visit[o].found /\ x.spell = visit[o].spell
    BY <1>2, ToldFits
<1>4. \A o \in Browsers : new(o) \in Visits
    BY <1>2, <1>3, NoVisitFits
<1>5. new(b) = NoVisit
    OBVIOUS
<1>6. ASSUME NEW o \in Browsers \ {b}
      PROVE  /\ new(o).doing = visit[o].doing /\ new(o).code = visit[o].code
             /\ new(o).tries = visit[o].tries /\ new(o).found = visit[o].found /\ new(o).spell = visit[o].spell
             /\ visit[o].doing = "guessing" =>
                   new(o).behind = IF c >= visit[o].code THEN visit[o].behind \cup {c} ELSE visit[o].behind
    BY <1>3
<1> HIDE DEF new
<1> QED
    BY <1>1, <1>4, <1>5, <1>6

\* A request begins or ends in one browser.
LEMMA VisitPut ==
    ASSUME CodeTypeOK, NEW b \in Browsers, NEW v \in Visits, visit' = [visit EXCEPT ![b] = v]
    PROVE  /\ visit' \in [Browsers -> Visits] /\ visit'[b] = v
           /\ \A o \in Browsers \ {b} : visit'[o] = visit[o]
BY CodeTypes

LEMMA CodesFinite == IsFiniteSet(CodeNumbers) /\ Cardinality(CodeNumbers) \in Nat
BY CodeNats, FS_Interval, FS_CardinalityType DEF CodeNumbers

\* Subsets of codes and browsers are finite.
LEMMA CountsFit ==
    /\ \A S \in SUBSET CodeNumbers : IsFiniteSet(S) /\ Cardinality(S) \in Nat
    /\ \A S \in SUBSET Browsers : IsFiniteSet(S) /\ Cardinality(S) \in Nat /\ Cardinality(S) <= Cardinality(Browsers)
    /\ Cardinality(Browsers) \in Nat
BY CodesFinite, BrowsersFinite, FS_Subset, FS_CardinalityType

-----------------------------------------------------------------------------
(* The steps.                                                              *)

LEMMA CodeInitInv == CodeInit => CodeInv
<1> SUFFICES ASSUME CodeInit PROVE CodeInv
    OBVIOUS
<1> DEFINE r == [st |-> "none", tries |-> 0, born |-> 0]
<1>1. r \in CodeRows
    BY CodeNats DEF CodeRows
<1>2. /\ code \in [CodeNumbers -> CodeRows] /\ visit \in [Browsers -> Visits]
      /\ \A c \in CodeNumbers : code[c].st = "none" /\ code[c].tries = 0 /\ code[c].born = 0
      /\ \A b \in Browsers : visit[b].doing = "nothing" /\ visit[b].found
    BY <1>1, NoVisitFits DEF CodeInit
<1>a. guesses \in [CodeNumbers -> Nat] /\ signIns \in [CodeNumbers -> Nat]
    BY DEF CodeInit
<1>b. hour \in 0..LastHour /\ asked \in 0..MaxCodes /\ cards \in [Spellings -> Nat]
    BY CodeNats DEF CodeInit
<1>c. carded \subseteq Spellings
    BY DEF CodeInit
<1>3. CodeTypeOK
    BY <1>2, <1>a, <1>b, <1>c, CodeTypes
<1>4. Recent = {} /\ Asking = {}
    BY <1>2 DEF Recent, Exists, Asking
<1>5. SendsCounted
    BY <1>4, CountsFit, FS_EmptySet, CodeNats DEF SendsCounted
<1>6. RowsCount
    BY <1>2, CodeNats DEF CodeInit, RowsCount
<1> QED
    BY <1>2, <1>3, <1>5, <1>6 DEF CodeInit, CodeInv, AskedOnce, GuessStands, CardlessOverlap

\* Steps that write no code and start or end no request for one.
LEMMA QuietStep ==
    ASSUME CodeInv, UNCHANGED <<hour, asked, code, guesses, signIns>>, Asking' = Asking
    PROVE  RowsCount' /\ SendsCounted'
<1>1. Recent' = Recent
    BY DEF Recent, Exists
<1>2. SendsCounted'
    BY <1>1 DEF CodeInv, SendsCounted
<1>3. RowsCount'
    BY DEF CodeInv, RowsCount
<1> QED
    BY <1>2, <1>3

LEMMA HourPassesStep == ASSUME CodeInv, HourPasses PROVE CodeInv'
<1>1. /\ hour < LastHour /\ hour' = hour + 1
      /\ UNCHANGED <<asked, code, cards, visit, guesses, signIns, carded>>
    BY DEF HourPasses
<1>2. hour \in Nat /\ hour' \in 0..LastHour
    BY <1>1, CodeNats DEF CodeInv, CodeTypeOK
<1>3. CodeTypeOK'
    BY <1>1, <1>2 DEF CodeInv, CodeTypeOK
<1>4. \A c \in CodeNumbers : code[c].born \in Nat
    BY CodeTypes, CodeNats DEF CodeInv, CodeRows
<1>5. RowsCount'
    BY <1>1, <1>2, <1>4 DEF CodeInv, RowsCount
<1>6. Recent' \subseteq Recent /\ Recent \subseteq CodeNumbers /\ Asking' = Asking
    BY <1>1, <1>2, <1>4 DEF Recent, Exists, Asking
<1>7. Cardinality(Recent') <= Cardinality(Recent) /\ Cardinality(Recent') \in Nat /\ Cardinality(Recent) \in Nat
    <2>1. Recent' \in SUBSET CodeNumbers /\ Recent \in SUBSET CodeNumbers
        BY <1>6
    <2> QED
        BY <1>6, <2>1, CountsFit, FS_Subset
<1>8. SendsCounted'
    <2>1. Asking \in SUBSET Browsers
        BY DEF Asking
    <2> QED
        BY <1>6, <1>7, <2>1, CountsFit, CodeNats DEF CodeInv, SendsCounted
<1> QED
    BY <1>1, <1>3, <1>5, <1>8 DEF CodeInv, AskedOnce, GuessStands, CardlessOverlap, Unused

LEMMA AskBeginsStep == ASSUME CodeInv, NEW b \in Browsers, AskBegins(b) PROVE CodeInv'
<1> DEFINE n == asked + 1
           v == [NoVisit EXCEPT !.doing = "asking", !.code = n]
<1>1. /\ visit[b] = NoVisit /\ asked < MaxCodes /\ Cardinality(Recent) < MaxSends
      /\ asked' = n /\ code' = [code EXCEPT ![n].born = hour]
      /\ visit' = [visit EXCEPT ![b] = v]
      /\ UNCHANGED <<hour, cards, guesses, signIns, carded>>
    BY DEF AskBegins
<1>2. asked \in Nat /\ n \in CodeNumbers /\ n \in 0..MaxCodes /\ hour \in 0..LastHour /\ n > asked
    BY <1>1, CodeNats DEF CodeInv, CodeTypeOK, CodeNumbers
<1>3. v \in Visits /\ v.doing = "asking" /\ v.code = n /\ v.found = TRUE
    BY <1>2, NoVisitFits DEF Visits, NoVisit
<1> HIDE DEF v, n
<1>4. visit' \in [Browsers -> Visits] /\ visit'[b] = v /\ \A o \in Browsers \ {b} : visit'[o] = visit[o]
    BY <1>1, <1>3, VisitPut DEF CodeInv
<1>5. /\ code' \in [CodeNumbers -> CodeRows]
      /\ \A c \in CodeNumbers : code'[c].st = code[c].st /\ code'[c].tries = code[c].tries
      /\ code'[n].born = hour /\ \A c \in CodeNumbers \ {n} : code'[c].born = code[c].born
    BY <1>1, <1>2, CodeTypes DEF CodeInv, CodeRows
<1>6. code[n].st = "none"
    BY <1>2 DEF CodeInv, AskedOnce
<1>7. CodeTypeOK'
    BY <1>1, <1>2, <1>4, <1>5 DEF CodeInv, CodeTypeOK, CodeRows, Visits
<1>8. visit[b].doing = "nothing"
    BY <1>1, NoVisitFits
<1>9. AskedOnce'
    <2>1. \A c \in CodeNumbers : c > n => code'[c].st = "none"
        <3> SUFFICES ASSUME NEW c \in CodeNumbers, c > n PROVE code'[c].st = "none"
            OBVIOUS
        <3>1. c > asked
            BY <1>2 DEF CodeNumbers, n
        <3> QED
            BY <1>5, <3>1 DEF CodeInv, AskedOnce
    <2>2. \A k : k \in 1..asked => k \in 1..n /\ k # n /\ k \in CodeNumbers
        BY <1>2, CodeNats DEF CodeNumbers, n
    <2>3. n \in 1..n
        BY <1>2
    <2>4. ASSUME NEW o \in Browsers, visit'[o].doing = "asking"
          PROVE  /\ visit'[o].code \in 1..n /\ code'[visit'[o].code].st = "none"
                 /\ \A p \in Browsers \ {o} : visit'[p].doing = "asking" => visit'[p].code # visit'[o].code
        <3>1. CASE o = b
            BY <1>2, <1>3, <1>4, <1>5, <1>6, <2>2, <2>3, <3>1 DEF CodeInv, AskedOnce
        <3>2. CASE o # b
            <4>1. /\ visit[o].code \in 1..asked /\ code[visit[o].code].st = "none"
                  /\ \A p \in Browsers \ {o} : visit[p].doing = "asking" => visit[p].code # visit[o].code
                BY <1>4, <2>4, <3>2 DEF CodeInv, AskedOnce
            <4> QED
                BY <1>3, <1>4, <1>5, <2>2, <3>2, <4>1
        <3> QED
            BY <3>1, <3>2
    <2> QED
        BY <1>1, <2>1, <2>4 DEF AskedOnce
<1>10. Unused' = Unused
    BY <1>5 DEF Unused
<1>11. GuessStands'
    BY <1>3, <1>4, <1>5, <1>10 DEF CodeInv, GuessStands
<1>12. RowsCount'
    BY <1>1, <1>2, <1>5, <1>6, CodeNats DEF CodeInv, RowsCount
<1>13. SendsCounted'
    <2>1. Recent' = Recent
        BY <1>1, <1>2, <1>5, <1>6 DEF Recent, Exists
    <2>2. Recent \in SUBSET CodeNumbers /\ Asking' \in SUBSET Browsers
        BY DEF Recent, Asking
    <2>3. Cardinality(Recent) \in Nat /\ Cardinality(Asking') \in Nat
          /\ Cardinality(Asking') <= Cardinality(Browsers) /\ Cardinality(Browsers) \in Nat
        BY <2>2, CountsFit
    <2> QED
        BY <1>1, <2>1, <2>3, CodeNats DEF SendsCounted
<1>14. CardlessOverlap'
    BY <1>1, <1>3, <1>4 DEF CodeInv, CardlessOverlap
<1> QED
    BY <1>7, <1>9, <1>11, <1>12, <1>13, <1>14 DEF CodeInv

LEMMA AskCommitsStep == ASSUME CodeInv, NEW b \in Browsers, AskCommits(b) PROVE CodeInv'
<1> DEFINE n == visit[b].code
<1>1. /\ visit[b].doing = "asking" /\ code' = [code EXCEPT ![n].st = "live"]
      /\ Wrote(b, n) /\ UNCHANGED <<hour, asked, cards, guesses, signIns, carded>>
    BY DEF AskCommits
<1>2. /\ n \in 1..asked /\ code[n].st = "none" /\ asked \in Nat /\ n \in CodeNumbers
      /\ \A o \in Browsers \ {b} : visit[o].doing = "asking" => visit[o].code # n
    BY <1>1, CodeNats DEF CodeInv, AskedOnce, CodeTypeOK, CodeNumbers
<1> HIDE DEF n
<1>3. /\ visit' \in [Browsers -> Visits] /\ visit'[b] = NoVisit
      /\ \A o \in Browsers \ {b} :
            /\ visit'[o].doing = visit[o].doing /\ visit'[o].code = visit[o].code
            /\ visit'[o].tries = visit[o].tries /\ visit'[o].found = visit[o].found
            /\ visit'[o].spell = visit[o].spell
            /\ visit[o].doing = "guessing" =>
                  visit'[o].behind = IF n >= visit[o].code THEN visit[o].behind \cup {n} ELSE visit[o].behind
    BY <1>1, <1>2, WroteFits DEF CodeInv
<1>4. /\ code' \in [CodeNumbers -> CodeRows]
      /\ \A c \in CodeNumbers : code'[c].tries = code[c].tries /\ code'[c].born = code[c].born
      /\ code'[n].st = "live" /\ \A c \in CodeNumbers \ {n} : code'[c].st = code[c].st
    BY <1>1, <1>2, CodeTypes DEF CodeInv, CodeRows
<1>5. CodeTypeOK'
    BY <1>1, <1>3, <1>4 DEF CodeInv, CodeTypeOK, CodeRows, Visits
<1>6. AskedOnce'
    <2>1. ~(n > asked)
        BY <1>2
    <2>2. \A c \in CodeNumbers : c > asked => code'[c].st = "none"
        BY <1>4, <2>1 DEF CodeInv, AskedOnce
    <2>3. ASSUME NEW o \in Browsers, visit'[o].doing = "asking"
          PROVE  /\ visit'[o].code \in 1..asked /\ code'[visit'[o].code].st = "none"
                 /\ \A p \in Browsers \ {o} : visit'[p].doing = "asking" => visit'[p].code # visit'[o].code
        <3>1. o # b /\ visit[o].doing = "asking" /\ visit'[o].code = visit[o].code
            BY <1>3, <2>3, NoVisitFits
        <3>2. /\ visit[o].code \in 1..asked /\ code[visit[o].code].st = "none" /\ visit[o].code # n
              /\ \A p \in Browsers \ {o} : visit[p].doing = "asking" => visit[p].code # visit[o].code
            BY <1>2, <3>1 DEF CodeInv, AskedOnce
        <3>3. visit[o].code \in CodeNumbers
            BY <1>2, <3>2, CodeNats DEF CodeInv, CodeTypeOK, CodeNumbers
        <3>4. code'[visit'[o].code].st = "none"
            BY <1>4, <3>1, <3>2, <3>3
        <3>5. ASSUME NEW p \in Browsers \ {o}, visit'[p].doing = "asking" PROVE visit'[p].code # visit'[o].code
            <4>1. p # b
                BY <1>3, <3>5, NoVisitFits
            <4> QED
                BY <1>3, <3>1, <3>2, <3>5, <4>1
        <3> QED
            BY <3>1, <3>2, <3>4, <3>5
    <2> QED
        BY <1>1, <2>2, <2>3 DEF AskedOnce
<1>7. Unused' = Unused \cup {n}
    BY <1>2, <1>4 DEF Unused
<1>8. GuessStands'
    <2> SUFFICES ASSUME NEW o \in Browsers, visit'[o].doing = "guessing"
                 PROVE  /\ visit'[o].code \in CodeNumbers /\ visit'[o].tries < MaxGuesses
                        /\ visit'[o].code \notin visit'[o].behind =>
                               /\ code'[visit'[o].code].st = "live"
                               /\ code'[visit'[o].code].tries = visit'[o].tries
                        /\ \A d \in Unused' : d > visit'[o].code => d \in visit'[o].behind
        BY DEF GuessStands
    <2>1. /\ o # b /\ visit[o].doing = "guessing" /\ visit'[o].code = visit[o].code /\ visit'[o].tries = visit[o].tries
          /\ visit'[o].behind = IF n >= visit[o].code THEN visit[o].behind \cup {n} ELSE visit[o].behind
        BY <1>3, NoVisitFits
    <2>2. /\ visit[o].code \in CodeNumbers /\ visit[o].tries < MaxGuesses
          /\ visit[o].code \notin visit[o].behind =>
                /\ code[visit[o].code].st = "live" /\ code[visit[o].code].tries = visit[o].tries
          /\ \A d \in Unused : d > visit[o].code => d \in visit[o].behind
        BY <2>1 DEF CodeInv, GuessStands
    <2>3. n > visit[o].code => n >= visit[o].code
        BY <1>2, <2>2 DEF CodeNumbers
    <2> QED
        BY <1>2, <1>4, <1>7, <2>1, <2>2, <2>3
<1>9. RowsCount'
    BY <1>1, <1>2, <1>4 DEF CodeInv, RowsCount
<1>10. SendsCounted'
    <2>1. Recent' \subseteq Recent \cup {n} /\ Recent \in SUBSET CodeNumbers /\ Recent \cup {n} \in SUBSET CodeNumbers
        BY <1>1, <1>2, <1>4 DEF Recent, Exists
    <2>2. Asking \in SUBSET Browsers /\ b \in Asking /\ Asking' = Asking \ {b}
        BY <1>1, <1>3, NoVisitFits DEF Asking
    <2>3. Cardinality(Recent \cup {n}) <= Cardinality(Recent) + 1
        BY <2>1, CountsFit, FS_AddElement
    <2>4. Cardinality(Recent') <= Cardinality(Recent \cup {n}) /\ Cardinality(Recent') \in Nat
          /\ Cardinality(Recent \cup {n}) \in Nat /\ Cardinality(Recent) \in Nat
        BY <2>1, CountsFit, FS_Subset
    <2>5. Cardinality(Asking') = Cardinality(Asking) - 1 /\ Cardinality(Asking) \in Nat
        BY <2>2, CountsFit, FS_RemoveElement
    <2> QED
        BY <2>3, <2>4, <2>5, CountsFit, CodeNats DEF CodeInv, SendsCounted
<1>11. CardlessOverlap'
    <2>1. visit'[b].found /\ \A o \in Browsers : ~visit'[o].found =>
              o # b /\ ~visit[o].found /\ visit'[o].spell = visit[o].spell
        BY <1>3, NoVisitFits
    <2> QED
        BY <1>1, <2>1 DEF CodeInv, CardlessOverlap
<1> QED
    BY <1>5, <1>6, <1>8, <1>9, <1>10, <1>11 DEF CodeInv

\* A request that asks for no code begins: whoever finds no card then is the only one, or on record.
LEMMA BeginsStep ==
    ASSUME CodeInv, NEW b \in Browsers, visit[b] = NoVisit,
           NEW v \in Visits, v.doing \in {"guessing", "booking"},
           NEW S \in SUBSET Spellings, v.spell \in S, v.found = Found(S),
           visit' = [visit EXCEPT ![b] = v], carded' = Meeting(b, S, v.spell),
           UNCHANGED <<hour, asked, code, cards, guesses, signIns>>,
           v.doing = "guessing" =>
               /\ v.code \in CodeNumbers /\ v.tries < MaxGuesses /\ code[v.code].st = "live"
               /\ code[v.code].tries = v.tries /\ \A d \in Unused : ~(d > v.code)
    PROVE  CodeInv'
<1>1. visit' \in [Browsers -> Visits] /\ visit'[b] = v /\ \A o \in Browsers \ {b} : visit'[o] = visit[o]
    BY VisitPut DEF CodeInv
<1>2. CodeTypeOK'
    <2>1. carded' \subseteq Spellings
        BY DEF Meeting, CodeInv, CodeTypeOK
    <2> QED
        BY <1>1, <2>1 DEF CodeInv, CodeTypeOK, CodeRows, Visits
<1>3. visit[b].doing = "nothing" /\ visit[b].found
    BY NoVisitFits
<1>4. Asking' = Asking
    BY <1>1, <1>3 DEF Asking
<1>5. AskedOnce'
    BY <1>1 DEF CodeInv, AskedOnce
<1>6. GuessStands'
    BY <1>1 DEF CodeInv, GuessStands, Unused
<1>7. CardlessOverlap'
    <2>a. cards \in [Spellings -> Nat] /\ v.spell \in Spellings /\ carded \subseteq carded'
        BY DEF CodeInv, CodeTypeOK, Meeting
    <2>b. ~v.found => cards[v.spell] = 0
        BY <2>a DEF Found
    <2>c. ASSUME NEW q \in Browsers \ {b}, ~v.found, ~visit[q].found, visit[q].spell = v.spell
          PROVE  v.spell \in carded'
        BY <2>c DEF Meeting
    <2>1. ASSUME NEW p \in Browsers, NEW o \in Browsers, p # o, ~visit'[p].found, ~visit'[o].found,
                 visit'[p].spell = visit'[o].spell
          PROVE  visit'[p].spell \in carded'
        <3>1. CASE p # b /\ o # b
            BY <1>1, <2>1, <2>a, <3>1 DEF CodeInv, CardlessOverlap
        <3>2. CASE p = b
            BY <1>1, <2>1, <2>c, <3>2
        <3>3. CASE o = b
            BY <1>1, <2>1, <2>c, <3>3
        <3> QED
            BY <3>1, <3>2, <3>3
    <2>2. ASSUME NEW p \in Browsers, ~visit'[p].found, cards[visit'[p].spell] > 0
          PROVE  visit'[p].spell \in carded'
        <3>1. CASE p = b
            BY <1>1, <2>2, <2>b, <3>1
        <3>2. CASE p # b
            BY <1>1, <2>2, <2>a, <3>2 DEF CodeInv, CardlessOverlap
        <3> QED
            BY <3>1, <3>2
    <2>3. \A s \in Spellings : cards[s] > 1 => s \in carded'
        BY <2>a DEF CodeInv, CardlessOverlap
    <2> QED
        BY <2>1, <2>2, <2>3 DEF CardlessOverlap
<1> QED
    BY <1>2, <1>4, <1>5, <1>6, <1>7, QuietStep DEF CodeInv

LEMMA GuessBeginsStep == ASSUME CodeInv, NEW b \in Browsers, GuessBegins(b) PROVE CodeInv'
<1>1. PICK c \in Newest :
          /\ code[c].tries < MaxGuesses
          /\ visit' = [visit EXCEPT ![b] =
                  [doing |-> "guessing", code |-> c, tries |-> code[c].tries,
                   behind |-> {}, found |-> Found(Variants), spell |-> Normal]]
    BY DEF GuessBegins
<1>2. c \in CodeNumbers /\ code[c].st = "live" /\ \A d \in Unused : d <= c
    BY DEF Newest, Unused
<1>3. \A d \in Unused : ~(d > c)
    BY <1>2 DEF Unused, CodeNumbers
<1>4. c \in 0..MaxCodes /\ code[c].tries \in 0..MaxGuesses
    BY <1>2, CodeTypes, CodeNats DEF CodeInv, CodeRows, CodeNumbers
<1>5. ASSUME NEW f \in BOOLEAN, NEW x,
             x = [doing |-> "guessing", code |-> c, tries |-> code[c].tries, behind |-> {}, found |-> f,
                  spell |-> Normal]
      PROVE  /\ x \in Visits /\ x.doing = "guessing" /\ x.code = c /\ x.tries = code[c].tries
             /\ x.found = f /\ x.spell = Normal
    BY <1>4, <1>5, SpellingsFit DEF Visits
<1> DEFINE v == [doing |-> "guessing", code |-> c, tries |-> code[c].tries, behind |-> {}, found |-> Found(Variants),
                 spell |-> Normal]
<1>6. Found(Variants) \in BOOLEAN
    BY DEF Found
<1>7. /\ v \in Visits /\ v.doing = "guessing" /\ v.code = c /\ v.tries = code[c].tries
      /\ v.found = Found(Variants) /\ v.spell = Normal
    BY <1>5, <1>6
<1>8. visit' = [visit EXCEPT ![b] = v]
    BY <1>1
<1> HIDE DEF v
<1>9. /\ visit[b] = NoVisit /\ carded' = Meeting(b, Variants, v.spell)
      /\ UNCHANGED <<hour, asked, code, cards, guesses, signIns>>
    BY <1>7 DEF GuessBegins
<1>10. Variants \in SUBSET Spellings /\ v.spell \in Variants
    BY <1>7, SpellingsFit
<1> QED
    BY <1>1, <1>2, <1>3, <1>7, <1>8, <1>9, <1>10, BeginsStep

LEMMA BookingBeginsStep ==
    ASSUME CodeInv, NEW b \in Browsers, NEW s \in Spellings, BookingBegins(b, s) PROVE CodeInv'
<1>1. ASSUME NEW f \in BOOLEAN, NEW x,
             x = [NoVisit EXCEPT !.doing = "booking", !.spell = s, !.found = f]
      PROVE  x \in Visits /\ x.doing = "booking" /\ x.found = f /\ x.spell = s
    BY <1>1, NoVisitFits DEF Visits, NoVisit
<1> DEFINE v == [NoVisit EXCEPT !.doing = "booking", !.spell = s, !.found = Found({s})]
<1>2. Found({s}) \in BOOLEAN
    BY DEF Found
<1>3. v \in Visits /\ v.doing = "booking" /\ v.found = Found({s}) /\ v.spell = s
    BY <1>1, <1>2
<1>4. /\ visit[b] = NoVisit /\ visit' = [visit EXCEPT ![b] = v]
      /\ carded' = Meeting(b, {s}, v.spell)
      /\ UNCHANGED <<hour, asked, code, cards, guesses, signIns>>
    BY <1>3 DEF BookingBegins
<1>5. {s} \in SUBSET Spellings /\ v.spell \in {s}
    BY <1>3
<1> HIDE DEF v
<1> QED
    BY <1>3, <1>4, <1>5, BeginsStep

\* A card is made, or not, by a request that ends.
LEMMA CardMadeFits ==
    ASSUME CodeInv, NEW b \in Browsers, visit' \in [Browsers -> Visits], visit'[b].found,
           \A o \in Browsers \ {b} : visit'[o].found = visit[o].found /\ visit'[o].spell = visit[o].spell,
           cards' \in {cards, CardMade(b)}, carded' = carded
    PROVE  CardlessOverlap' /\ cards' \in [Spellings -> Nat]
<1> DEFINE s == visit[b].spell
<1>1. cards \in [Spellings -> Nat] /\ s \in Spellings /\ visit \in [Browsers -> Visits]
    BY CodeTypes, VisitFields DEF CodeInv
<1>2. CASE cards' = cards
    BY <1>1, <1>2 DEF CodeInv, CardlessOverlap
<1>3. CASE cards' = [cards EXCEPT ![s] = @ + 1] /\ ~visit[b].found
    <2>1. /\ cards' \in [Spellings -> Nat] /\ cards'[s] = cards[s] + 1 /\ cards[s] \in Nat
          /\ \A u \in Spellings \ {s} : cards'[u] = cards[u]
        BY <1>1, <1>3
    <2>2. cards[s] > 0 => s \in carded
        BY <1>3 DEF CodeInv, CardlessOverlap
    <2>3. \A u \in Spellings : cards'[u] > 1 => u \in carded
        BY <2>1, <2>2 DEF CodeInv, CardlessOverlap
    <2>4. ASSUME NEW o \in Browsers, ~visit'[o].found, cards'[visit'[o].spell] > 0
          PROVE  visit'[o].spell \in carded
        <3>1. /\ o # b /\ ~visit[o].found /\ visit'[o].spell = visit[o].spell
              /\ visit[o].spell \in Spellings
            BY <1>1, <2>4, VisitFields
        <3>2. CASE visit[o].spell = s
            BY <1>3, <3>1, <3>2 DEF CodeInv, CardlessOverlap
        <3>3. CASE visit[o].spell # s
            BY <2>1, <2>4, <3>1, <3>3 DEF CodeInv, CardlessOverlap
        <3> QED
            BY <3>2, <3>3
    <2>5. ASSUME NEW p \in Browsers, NEW o \in Browsers, p # o, ~visit'[p].found, ~visit'[o].found,
                 visit'[p].spell = visit'[o].spell
          PROVE  visit'[p].spell \in carded
        BY <2>5 DEF CodeInv, CardlessOverlap
    <2> QED
        BY <2>1, <2>3, <2>4, <2>5 DEF CardlessOverlap
<1> QED
    BY <1>2, <1>3 DEF CardMade

LEMMA BookingCommitsStep == ASSUME CodeInv, NEW b \in Browsers, BookingCommits(b) PROVE CodeInv'
<1>1. /\ visit[b].doing = "booking" /\ visit' = [visit EXCEPT ![b] = NoVisit]
      /\ UNCHANGED <<hour, asked, code, guesses, signIns, carded>>
    BY DEF BookingCommits
<1>2. visit' \in [Browsers -> Visits] /\ visit'[b] = NoVisit /\ \A o \in Browsers \ {b} : visit'[o] = visit[o]
    BY <1>1, VisitPut, NoVisitFits DEF CodeInv
<1>3. cards' \in {cards, CardMade(b)}
    BY DEF BookingCommits
<1>4. CardlessOverlap' /\ cards' \in [Spellings -> Nat]
    BY <1>1, <1>2, <1>3, NoVisitFits, CardMadeFits
<1>5. CodeTypeOK'
    BY <1>1, <1>2, <1>4 DEF CodeInv, CodeTypeOK, CodeRows, Visits
<1>6. Asking' = Asking
    BY <1>1, <1>2, NoVisitFits DEF Asking
<1>7. AskedOnce' /\ GuessStands'
    BY <1>1, <1>2, NoVisitFits DEF CodeInv, AskedOnce, GuessStands, Unused
<1> QED
    BY <1>1, <1>4, <1>5, <1>6, <1>7, QuietStep DEF CodeInv

LEMMA GuessConflictsStep == ASSUME CodeInv, NEW b \in Browsers, GuessConflicts(b) PROVE CodeInv'
<1>1. /\ visit[b].doing = "guessing" /\ visit' = [visit EXCEPT ![b] = NoVisit]
      /\ UNCHANGED <<hour, asked, code, cards, guesses, signIns, carded>>
    BY DEF GuessConflicts
<1>2. visit' \in [Browsers -> Visits] /\ visit'[b] = NoVisit /\ \A o \in Browsers \ {b} : visit'[o] = visit[o]
    BY <1>1, VisitPut, NoVisitFits DEF CodeInv
<1>4. CardlessOverlap' /\ cards' \in [Spellings -> Nat]
    <2>1. cards' = cards /\ carded' = carded
        BY <1>1
    <2> QED
        BY <1>2, <2>1, NoVisitFits, CardMadeFits
<1>5. CodeTypeOK'
    BY <1>1, <1>2 DEF CodeInv, CodeTypeOK, CodeRows, Visits
<1>6. Asking' = Asking
    BY <1>1, <1>2, NoVisitFits DEF Asking
<1>7. AskedOnce' /\ GuessStands'
    BY <1>1, <1>2, NoVisitFits DEF CodeInv, AskedOnce, GuessStands, Unused
<1> QED
    BY <1>1, <1>4, <1>5, <1>6, <1>7, QuietStep DEF CodeInv

\* What a guess that commits writes.
LEMMA GuessWrites ==
    ASSUME CodeInv, NEW b \in Browsers, GuessCommits(b)
    PROVE  LET n == visit[b].code IN
           /\ visit[b].doing = "guessing" /\ n \in CodeNumbers /\ n \notin visit[b].behind
           /\ code[n].st = "live" /\ code[n].tries = visit[b].tries /\ visit[b].tries < MaxGuesses
           /\ guesses' = [guesses EXCEPT ![n] = @ + 1]
           /\ Wrote(b, n) /\ UNCHANGED <<hour, asked, carded>>
           /\ \E right \in BOOLEAN :
                 /\ code' = [code EXCEPT ![n].tries = visit[b].tries + 1,
                                         ![n].st    = IF right THEN "used" ELSE @]
                 /\ signIns' = [signIns EXCEPT ![n] = IF right THEN @ + 1 ELSE @]
                 /\ cards'   = IF right THEN CardMade(b) ELSE cards
BY DEF GuessCommits, Compared, CodeInv, GuessStands

LEMMA GuessCommitsStep == ASSUME CodeInv, NEW b \in Browsers, GuessCommits(b) PROVE CodeInv'
<1> DEFINE n == visit[b].code
           m == visit[b].tries + 1
<1>1. /\ visit[b].doing = "guessing" /\ n \in CodeNumbers /\ n \notin visit[b].behind
      /\ code[n].st = "live" /\ code[n].tries = visit[b].tries /\ visit[b].tries < MaxGuesses
      /\ guesses' = [guesses EXCEPT ![n] = guesses[n] + 1]
      /\ Wrote(b, n) /\ UNCHANGED <<hour, asked, carded>>
    BY GuessWrites
<1>2. PICK right \in BOOLEAN :
          /\ code' = [code EXCEPT ![n].tries = m, ![n].st = IF right THEN "used" ELSE @]
          /\ signIns' = [signIns EXCEPT ![n] = IF right THEN @ + 1 ELSE @]
          /\ cards'   = IF right THEN CardMade(b) ELSE cards
    BY GuessWrites
<1>3. visit[b].tries \in 0..MaxGuesses /\ m \in 0..MaxGuesses /\ m = code[n].tries + 1
    BY <1>1, CodeTypes, CodeNats DEF CodeInv, Visits
<1> DEFINE s == IF right THEN "used" ELSE "live"
<1>4. s \in {"live", "used"} /\ (right <=> s = "used")
    OBVIOUS
<1>b. code \in [CodeNumbers -> CodeRows] /\ code[n] \in CodeRows
    BY <1>1, CodeTypes DEF CodeInv
<1> DEFINE x == [code[n] EXCEPT !.tries = m]
           y == [x EXCEPT !.st = s]
<1>5. code' = [code EXCEPT ![n] = y]
    BY <1>1, <1>2, <1>b
<1> HIDE DEF n, m, s
<1>c. x \in CodeRows /\ x.tries = m /\ x.st = code[n].st /\ x.born = code[n].born
    BY <1>3, <1>b DEF CodeRows
<1> HIDE DEF x
<1>d. y \in CodeRows /\ y.tries = m /\ y.st = s /\ y.born = code[n].born
    BY <1>4, <1>c DEF CodeRows
<1> HIDE DEF y
<1>6. /\ code' \in [CodeNumbers -> CodeRows]
      /\ code'[n].st = s /\ code'[n].tries = m /\ code'[n].born = code[n].born
      /\ \A c \in CodeNumbers \ {n} : code'[c] = code[c]
    BY <1>1, <1>5, <1>b, <1>d
<1>7. /\ visit' \in [Browsers -> Visits] /\ visit'[b] = NoVisit
      /\ \A o \in Browsers \ {b} :
            /\ visit'[o].doing = visit[o].doing /\ visit'[o].code = visit[o].code
            /\ visit'[o].tries = visit[o].tries /\ visit'[o].found = visit[o].found
            /\ visit'[o].spell = visit[o].spell
            /\ visit[o].doing = "guessing" =>
                  visit'[o].behind = IF n >= visit[o].code THEN visit[o].behind \cup {n} ELSE visit[o].behind
    BY <1>1, WroteFits DEF CodeInv
<1>8. guesses \in [CodeNumbers -> Nat] /\ signIns \in [CodeNumbers -> Nat]
    BY DEF CodeInv, CodeTypeOK
<1>9. guesses' \in [CodeNumbers -> Nat] /\ guesses'[n] = guesses[n] + 1
      /\ \A c \in CodeNumbers \ {n} : guesses'[c] = guesses[c]
    BY <1>1, <1>8
<1>10. /\ signIns' \in [CodeNumbers -> Nat] /\ signIns'[n] = IF right THEN signIns[n] + 1 ELSE signIns[n]
       /\ \A c \in CodeNumbers \ {n} : signIns'[c] = signIns[c]
    BY <1>1, <1>2, <1>8
<1>11. CardlessOverlap' /\ cards' \in [Spellings -> Nat]
    <2>1. cards' \in {cards, CardMade(b)}
        BY <1>2
    <2> QED
        BY <1>1, <1>7, <2>1, NoVisitFits, CardMadeFits
<1>12. CodeTypeOK'
    BY <1>1, <1>6, <1>7, <1>9, <1>10, <1>11 DEF CodeInv, CodeTypeOK, CodeRows, Visits
<1>13. AskedOnce'
    <2>1. \A c \in CodeNumbers : code'[c].st = "none" <=> code[c].st = "none"
        BY <1>1, <1>4, <1>6
    <2>2. \A o \in Browsers : visit'[o].doing = "asking" =>
              o # b /\ visit[o].doing = "asking" /\ visit'[o].code = visit[o].code
        BY <1>7, NoVisitFits
    <2>3. asked \in 0..MaxCodes /\ \A k \in 1..asked : k \in CodeNumbers
        BY CodeNats DEF CodeInv, CodeTypeOK, CodeNumbers
    <2> QED
        BY <1>1, <2>1, <2>2, <2>3 DEF CodeInv, AskedOnce
<1>14. Unused' \subseteq Unused
    BY <1>1, <1>6 DEF Unused
<1>15. GuessStands'
    <2> SUFFICES ASSUME NEW o \in Browsers, visit'[o].doing = "guessing"
                 PROVE  /\ visit'[o].code \in CodeNumbers /\ visit'[o].tries < MaxGuesses
                        /\ visit'[o].code \notin visit'[o].behind =>
                               /\ code'[visit'[o].code].st = "live"
                               /\ code'[visit'[o].code].tries = visit'[o].tries
                        /\ \A d \in Unused' : d > visit'[o].code => d \in visit'[o].behind
        BY DEF GuessStands
    <2>1. /\ o # b /\ visit[o].doing = "guessing" /\ visit'[o].code = visit[o].code /\ visit'[o].tries = visit[o].tries
          /\ visit'[o].behind = IF n >= visit[o].code THEN visit[o].behind \cup {n} ELSE visit[o].behind
        BY <1>7, NoVisitFits
    <2>2. /\ visit[o].code \in CodeNumbers /\ visit[o].tries < MaxGuesses
          /\ visit[o].code \notin visit[o].behind =>
                /\ code[visit[o].code].st = "live" /\ code[visit[o].code].tries = visit[o].tries
          /\ \A d \in Unused : d > visit[o].code => d \in visit[o].behind
        BY <2>1 DEF CodeInv, GuessStands
    <2>3. n >= n
        BY <1>1 DEF CodeNumbers
    <2> QED
        BY <1>6, <1>14, <2>1, <2>2, <2>3
<1>16. RowsCount'
    <2> SUFFICES ASSUME NEW c \in CodeNumbers
                 PROVE  /\ guesses'[c] = code'[c].tries /\ signIns'[c] <= 1
                        /\ code'[c].st \in {"none", "live"} => signIns'[c] = 0
                        /\ code'[c].st = "gone" => hour - code'[c].born >= 2
                        /\ code'[c].born <= hour
        BY <1>1 DEF RowsCount
    <2>1. /\ guesses[c] = code[c].tries /\ signIns[c] <= 1
          /\ code[c].st \in {"none", "live"} => signIns[c] = 0
          /\ code[c].st = "gone" => hour - code[c].born >= 2
          /\ code[c].born <= hour
        BY DEF CodeInv, RowsCount
    <2>2. CASE c # n
        BY <1>6, <1>9, <1>10, <2>1, <2>2
    <2>3. CASE c = n
        BY <1>1, <1>3, <1>4, <1>6, <1>9, <1>10, <2>1, <2>3
    <2> QED
        BY <2>2, <2>3
<1>17. SendsCounted'
    <2>1. Recent' = Recent
        BY <1>1, <1>4, <1>6 DEF Recent, Exists
    <2>2. Asking' = Asking
        BY <1>1, <1>7, NoVisitFits DEF Asking
    <2> QED
        BY <2>1, <2>2 DEF CodeInv, SendsCounted
<1> QED
    BY <1>11, <1>12, <1>13, <1>15, <1>16, <1>17 DEF CodeInv

LEMMA SweepStep == ASSUME CodeInv, NEW n \in CodeNumbers, Sweep(n) PROVE CodeInv'
<1>1. /\ code[n].st \in {"live", "used"} /\ hour - code[n].born >= 2
      /\ code' = [code EXCEPT ![n].st = "gone"]
      /\ UNCHANGED <<hour, asked, cards, guesses, signIns, carded>>
    BY DEF Sweep, Exists
<1>2. /\ code' \in [CodeNumbers -> CodeRows]
      /\ \A c \in CodeNumbers : code'[c].tries = code[c].tries /\ code'[c].born = code[c].born
      /\ code'[n].st = "gone" /\ \A c \in CodeNumbers \ {n} : code'[c].st = code[c].st
    BY <1>1, CodeTypes DEF CodeInv, CodeRows
<1> DEFINE new(o) == IF visit[o].code = n /\ visit[o].doing = "guessing"
                     THEN [visit[o] EXCEPT !.behind = @ \cup {n}] ELSE visit[o]
<1>3. visit' = [o \in Browsers |-> new(o)]
    BY DEF Sweep
<1>4. visit \in [Browsers -> Visits]
    BY CodeTypes DEF CodeInv
<1>5. \A o \in Browsers : LET x == [visit[o] EXCEPT !.behind = @ \cup {n}] IN
          /\ x \in Visits /\ x.doing = visit[o].doing /\ x.code = visit[o].code /\ x.tries = visit[o].tries
          /\ x.behind = visit[o].behind \cup {n} /\ x.found = visit[o].found /\ x.spell = visit[o].spell
    BY <1>4, ToldFits
<1>6. ASSUME NEW o \in Browsers
      PROVE  /\ new(o) \in Visits /\ new(o).doing = visit[o].doing /\ new(o).code = visit[o].code
             /\ new(o).tries = visit[o].tries /\ new(o).found = visit[o].found /\ new(o).spell = visit[o].spell
             /\ visit[o].doing = "guessing" =>
                   new(o).behind = IF visit[o].code = n THEN visit[o].behind \cup {n} ELSE visit[o].behind
    BY <1>4, <1>5
<1> HIDE DEF new
<1>7. /\ visit' \in [Browsers -> Visits]
      /\ \A o \in Browsers :
            /\ visit'[o].doing = visit[o].doing /\ visit'[o].code = visit[o].code
            /\ visit'[o].tries = visit[o].tries /\ visit'[o].found = visit[o].found
            /\ visit'[o].spell = visit[o].spell
            /\ visit[o].doing = "guessing" =>
                  visit'[o].behind = IF visit[o].code = n THEN visit[o].behind \cup {n} ELSE visit[o].behind
    BY <1>3, <1>6
<1>8. CodeTypeOK'
    BY <1>1, <1>2, <1>7 DEF CodeInv, CodeTypeOK, CodeRows, Visits
<1>9. AskedOnce'
    <2>1. \A c \in CodeNumbers : code[c].st = "none" => code'[c].st = "none"
        BY <1>1, <1>2
    <2>2. asked \in 0..MaxCodes /\ \A k \in 1..asked : k \in CodeNumbers
        BY CodeNats DEF CodeInv, CodeTypeOK, CodeNumbers
    <2>3. \A c \in CodeNumbers : c > asked => code'[c].st = "none"
        BY <2>1 DEF CodeInv, AskedOnce
    <2>4. ASSUME NEW o \in Browsers, visit'[o].doing = "asking"
          PROVE  /\ visit'[o].code \in 1..asked /\ code'[visit'[o].code].st = "none"
                 /\ \A p \in Browsers \ {o} : visit'[p].doing = "asking" => visit'[p].code # visit'[o].code
        <3>1. visit[o].doing = "asking" /\ visit'[o].code = visit[o].code
            BY <1>7, <2>4
        <3>2. /\ visit[o].code \in 1..asked /\ code[visit[o].code].st = "none"
              /\ \A p \in Browsers \ {o} : visit[p].doing = "asking" => visit[p].code # visit[o].code
            BY <3>1 DEF CodeInv, AskedOnce
        <3> QED
            BY <1>7, <2>1, <2>2, <3>1, <3>2
    <2> QED
        BY <1>1, <2>3, <2>4 DEF AskedOnce
<1>10. Unused' \subseteq Unused
    BY <1>2 DEF Unused
<1>11. GuessStands'
    <2> SUFFICES ASSUME NEW o \in Browsers, visit'[o].doing = "guessing"
                 PROVE  /\ visit'[o].code \in CodeNumbers /\ visit'[o].tries < MaxGuesses
                        /\ visit'[o].code \notin visit'[o].behind =>
                               /\ code'[visit'[o].code].st = "live"
                               /\ code'[visit'[o].code].tries = visit'[o].tries
                        /\ \A d \in Unused' : d > visit'[o].code => d \in visit'[o].behind
        BY DEF GuessStands
    <2>1. /\ visit[o].code \in CodeNumbers /\ visit[o].tries < MaxGuesses
          /\ visit[o].code \notin visit[o].behind =>
                /\ code[visit[o].code].st = "live" /\ code[visit[o].code].tries = visit[o].tries
          /\ \A d \in Unused : d > visit[o].code => d \in visit[o].behind
        BY <1>7 DEF CodeInv, GuessStands
    <2> QED
        BY <1>2, <1>7, <1>10, <2>1
<1>12. RowsCount'
    BY <1>1, <1>2 DEF CodeInv, RowsCount
<1>13. SendsCounted'
    <2>1. hour - code[n].born \in Int /\ ~(hour - code[n].born < 2)
        <3>1. code[n].born \in 0..LastHour /\ hour \in 0..LastHour
            BY CodeTypes DEF CodeInv, CodeRows
        <3> QED
            BY <1>1, <3>1, CodeNats
    <2>2. Recent' = Recent
        BY <1>1, <1>2, <2>1 DEF Recent, Exists
    <2>3. Asking' = Asking
        BY <1>7 DEF Asking
    <2> QED
        BY <2>2, <2>3 DEF CodeInv, SendsCounted
<1>14. CardlessOverlap'
    BY <1>1, <1>7 DEF CodeInv, CardlessOverlap
<1> QED
    BY <1>8, <1>9, <1>11, <1>12, <1>13, <1>14 DEF CodeInv

LEMMA CodeStep == CodeInv /\ [CodeNext]_codeVars => CodeInv'
<1> SUFFICES ASSUME CodeInv, [CodeNext]_codeVars PROVE CodeInv'
    OBVIOUS
<1>1. CASE UNCHANGED codeVars
    <2>1. CodeTypeOK' /\ AskedOnce' /\ GuessStands' /\ RowsCount' /\ CardlessOverlap'
        BY <1>1 DEF codeVars, CodeInv, CodeTypeOK, AskedOnce, GuessStands, RowsCount, CardlessOverlap, Unused
    <2>2. SendsCounted'
        BY <1>1, QuietStep DEF codeVars, Asking
    <2> QED
        BY <2>1, <2>2 DEF CodeInv
<1> QED
    BY <1>1, HourPassesStep, AskBeginsStep, AskCommitsStep, GuessBeginsStep, GuessCommitsStep, GuessConflictsStep,
       BookingBeginsStep, BookingCommitsStep, SweepStep DEF CodeNext

LEMMA SignInBounds ==
    CodeInv => GuessesBounded /\ EachCodeSignsInOnce /\ SendsBoundedByOverlap /\ SecondCardNeedsOverlap
<1> SUFFICES ASSUME CodeInv
             PROVE  GuessesBounded /\ EachCodeSignsInOnce /\ SendsBoundedByOverlap /\ SecondCardNeedsOverlap
    OBVIOUS
<1>1. code \in [CodeNumbers -> CodeRows] /\ hour \in 0..LastHour
    BY CodeTypes DEF CodeInv
<1>2. GuessesBounded
    <2>1. \A c \in CodeNumbers : code[c].tries <= MaxGuesses
        BY <1>1, CodeNats DEF CodeRows
    <2> QED
        BY <2>1 DEF GuessesBounded, CodeInv, RowsCount
<1>3. SendsBoundedByOverlap
    <2> DEFINE Sent == {c \in CodeNumbers : code[c].st # "none" /\ hour - code[c].born < 2}
    <2>1. Sent = Recent
        <3>1. \A c \in CodeNumbers : code[c].st \in {"none", "live", "used", "gone"} /\ code[c].born \in Nat /\ hour \in Nat
            BY <1>1, CodeNats DEF CodeRows
        <3> QED
            BY <3>1 DEF Recent, Exists, CodeInv, RowsCount
    <2>2. Recent \in SUBSET CodeNumbers /\ Asking \in SUBSET Browsers
        BY DEF Recent, Asking
    <2>3. Cardinality(Recent) \in Nat /\ Cardinality(Asking) \in Nat /\ Cardinality(Browsers) \in Nat
        BY <2>2, CountsFit
    <2> HIDE DEF Sent
    <2>4. Cardinality(Sent) <= MaxSends + Cardinality(Browsers) - 1
        BY <2>1, <2>3, CodeNats DEF CodeInv, SendsCounted
    <2> QED
        BY <2>4 DEF SendsBoundedByOverlap, Sent
<1> QED
    BY <1>2, <1>3 DEF CodeInv, RowsCount, CardlessOverlap, EachCodeSignsInOnce, SecondCardNeedsOverlap

\* Signing in is what a guess that commits does, and that one knows the newer codes.
LEMMA OlderIsDead ==
    ASSUME CodeInv, [CodeNext]_codeVars, NEW b \in Browsers, NEW c \in CodeNumbers,
           visit[b].doing = "guessing", visit'[b] = NoVisit, visit[b].code = c, signIns'[c] > signIns[c],
           NEW d \in Unused, d > c
    PROVE  d \in visit[b].behind
BY DEF CodeInv, GuessStands

\* Sign-in by code, for any browsers and limits: guesses and texts are limited, a code signs in
\* once, an older one is dead, and a second card of one spelling of the number needs requests
\* that overlapped. A card of another spelling needs none.
THEOREM CodesHold == CodeSpec => []CodeTypeOK /\ SignInHolds
<1>1. CodeInv /\ [CodeNext]_codeVars =>
        [\A b \in Browsers, c \in CodeNumbers :
           /\ visit[b].doing = "guessing" /\ visit'[b] = NoVisit
           /\ visit[b].code = c /\ signIns'[c] > signIns[c]
           => \A d \in Unused : d > c => d \in visit[b].behind]_codeVars
    BY OlderIsDead
<1>2. CodeInv => CodeTypeOK
    BY DEF CodeInv
<1> QED
    BY CodeInitInv, CodeStep, SignInBounds, <1>1, <1>2, PTL
       DEF CodeSpec, SignInHolds, OlderCodeIsSuperseded

-----------------------------------------------------------------------------
(* The components side by side.                                             *)

LEMMA OfficeStarts == OfficeInit =>
    /\ CodeInit
    /\ StaffInit
    /\ AccessInit
    /\ ListInit
    /\ WindowInit
    /\ ClosureInit
    /\ RosterInit
    /\ GuardInit
BY DEF OfficeInit

LEMMA OfficeMoves ==
    [OfficeNext]_officeVars =>
        /\ [CodeNext]_codeVars
        /\ [StaffNext]_staffVars
        /\ [AccessNext]_accessVars
        /\ [ListNext]_listVars
        /\ [WindowNext]_windowVars
        /\ [ClosureNext]_closureVars
        /\ [RosterNext]_rosterVars
        /\ [GuardNext]_guardVars
<1> SUFFICES ASSUME [OfficeNext]_officeVars
             PROVE  /\ [CodeNext]_codeVars
                    /\ [StaffNext]_staffVars
                    /\ [AccessNext]_accessVars
                    /\ [ListNext]_listVars
                    /\ [WindowNext]_windowVars
                    /\ [ClosureNext]_closureVars
                    /\ [RosterNext]_rosterVars
                    /\ [GuardNext]_guardVars
    OBVIOUS
<1>1. CASE UNCHANGED officeVars
    BY <1>1 DEF officeVars
<1>2. CASE OfficeNext
    BY <1>2 DEF OfficeNext, Only
<1> QED
    BY <1>1, <1>2

\* Side by side the components behave as each does alone, so what is proved of one holds in MCOffice.
THEOREM OfficeRunsThem == OfficeSpec =>
    /\ CodeSpec
    /\ StaffSpec
    /\ AccessSpec
    /\ ListSpec
    /\ WindowSpec
    /\ ClosureSpec
    /\ RosterSpec
    /\ GuardSpec
BY OfficeStarts, OfficeMoves, PTL
   DEF OfficeSpec, CodeSpec, StaffSpec, AccessSpec, ListSpec, WindowSpec, ClosureSpec,
       RosterSpec, GuardSpec

\* All of them keep their types side by side, in every behaviour of MCOffice.
THEOREM OfficeIsTyped == OfficeSpec => []OfficeTypeOK
<1>1. CodeInv /\ StaffInv /\ AccessInv /\ ListInv /\ WindowInv /\ ClosureInv /\ RosterInv /\ GuardInv =>
      OfficeTypeOK
    BY AccessTyped DEF CodeInv, StaffInv, ListInv, WindowInv, ClosureInv, RosterInv, GuardInv, OfficeTypeOK
<1>2. (CodeInit => CodeInv) /\ (CodeInv /\ [CodeNext]_codeVars => CodeInv')
    BY CodeInitInv, CodeStep
<1>3. (StaffInit => StaffInv) /\ (StaffInv /\ [StaffNext]_staffVars => StaffInv')
    BY StaffInitInv, StaffStep
<1>4. (AccessInit => AccessInv) /\ (AccessInv /\ [AccessNext]_accessVars => AccessInv')
    BY AccessInitInv, AccessStep
<1>5. (ListInit => ListInv) /\ (ListInv /\ [ListNext]_listVars => ListInv')
    BY ListInitInv, ListStep
<1>6. (WindowInit => WindowInv) /\ (WindowInv /\ [WindowNext]_windowVars => WindowInv')
    BY WindowInitInv, WindowStep
<1>7. (ClosureInit => ClosureInv) /\ (ClosureInv /\ [ClosureNext]_closureVars => ClosureInv')
    BY ClosureInitInv, ClosureStep
<1>8. (RosterInit => RosterInv) /\ (RosterInv /\ [RosterNext]_rosterVars => RosterInv')
    BY RosterInitInv, RosterStep
<1>9. (GuardInit => GuardInv) /\ (GuardInv /\ [GuardNext]_guardVars => GuardInv')
    BY GuardInitInv, GuardStep
<1> QED
    BY OfficeStarts, OfficeMoves, <1>2, <1>3, <1>4, <1>5, <1>6, <1>7, <1>8, <1>9, <1>1, PTL DEF OfficeSpec

=============================================================================
