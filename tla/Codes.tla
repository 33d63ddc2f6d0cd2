------------------------------- MODULE Codes -------------------------------
(***************************************************************************)
(* The codes texted to one phone number (modryn_portal): they are issued,  *)
(* guessed at, used, superseded, and swept a day later. Several browsers   *)
(* ask and guess at once; each request reads the snapshot it began with.   *)
(* A code's place in the order is the time its request began.              *)
(***************************************************************************)
EXTENDS Integers, FiniteSets

CONSTANTS
    Browsers,
    MaxGuesses,        \* MAX_VERIFY_ATTEMPTS
    MaxSends,          \* MAX_SENDS_PER_HOUR
    MaxCodes,          \* bound on the codes issued
    LastHour,          \* bound on the clock
    Spellings,         \* the ways to type the number
    Variants,          \* those of them that phone_variants knows
    Normal             \* E.164, the one the sign-in stores

ASSUME CodeBounds     == {MaxGuesses, MaxSends, MaxCodes, LastHour} \subseteq Nat \ {0}
ASSUME BrowsersFinite == IsFiniteSet(Browsers)
ASSUME SpellingsFit   == Variants \subseteq Spellings /\ Normal \in Variants

VARIABLES
    hour,              \* the clock: a code expires after one tick, an hour is two
    asked,             \* how many requests for a code have begun
    code,              \* the rows of modryn.otp.code, by the order of their requests
    cards,             \* how many customer cards carry the number in each spelling
    visit,             \* the request under way in each browser
    guesses,           \* history: how often each code was compared with a guess
    signIns,           \* history: how often each code let somebody in
    carded             \* history: the spellings two overlapping requests found no card for

codeVars == <<hour, asked, code, cards, visit, guesses, signIns, carded>>

CodeNumbers == 1..MaxCodes

\* A request: what it does, the code it issues or tries, the attempts it read,
\* the rows written since it began (its own, and newer ones), whether it found a customer card,
\* and the spelling of the one it would make.
NoVisit == [doing |-> "nothing", code |-> 0, tries |-> 0, behind |-> {}, found |-> TRUE,
            spell |-> Normal]

CodeTypeOK ==
    /\ hour    \in 0..LastHour /\ asked \in 0..MaxCodes
    /\ code    \in [CodeNumbers -> [st : {"none", "live", "used", "gone"},
                                    tries : 0..MaxGuesses, born : 0..LastHour]]
    /\ cards   \in [Spellings -> Nat]
    /\ visit   \in [Browsers -> [doing : {"nothing", "asking", "guessing", "booking"},
                                 code : 0..MaxCodes, tries : 0..MaxGuesses,
                                 behind : SUBSET CodeNumbers, found : BOOLEAN,
                                 spell : Spellings]]
    /\ guesses \in [CodeNumbers -> Nat] /\ signIns \in [CodeNumbers -> Nat]
    /\ carded  \subseteq Spellings

CodeInit ==
    /\ hour = 0 /\ asked = 0 /\ carded = {}
    /\ cards   = [s \in Spellings |-> 0]
    /\ code    = [c \in CodeNumbers |-> [st |-> "none", tries |-> 0, born |-> 0]]
    /\ visit   = [b \in Browsers |-> NoVisit]
    /\ guesses = [c \in CodeNumbers |-> 0]
    /\ signIns = [c \in CodeNumbers |-> 0]

Exists(c) == code[c].st \in {"live", "used"}

\* Every other request under way learns, when it commits, that c was written.
Wrote(b, c) == visit' = [o \in Browsers |->
    IF o = b THEN NoVisit
    ELSE IF visit[o].doing = "guessing" /\ c >= visit[o].code
         THEN [visit[o] EXCEPT !.behind = @ \cup {c}]
    ELSE visit[o]]

-----------------------------------------------------------------------------
(* Asking for a code: issue, called by login_submit.                       *)

Recent == {c \in CodeNumbers : Exists(c) /\ hour - code[c].born < 2}

AskBegins(b) ==
    /\ visit[b] = NoVisit /\ asked < MaxCodes
    /\ Cardinality(Recent) < MaxSends
    /\ asked' = asked + 1
    /\ code'  = [code EXCEPT ![asked'].born = hour]
    /\ visit' = [visit EXCEPT ![b] = [NoVisit EXCEPT !.doing = "asking", !.code = asked']]
    /\ UNCHANGED <<hour, cards, guesses, signIns, carded>>

\* The row stays also when the text cannot be sent.
AskCommits(b) ==
    /\ visit[b].doing = "asking"
    /\ code' = [code EXCEPT ![visit[b].code].st = "live"]
    /\ Wrote(b, visit[b].code)
    /\ UNCHANGED <<hour, asked, cards, guesses, signIns, carded>>

-----------------------------------------------------------------------------
(* Guessing: verify and verify_submit.                                     *)

Unused == {c \in CodeNumbers : code[c].st = "live"}

\* Variant: the search returns the oldest code.
OldestUnused == {c \in Unused : \A d \in Unused : c <= d}

Newest == {c \in Unused : \A d \in Unused : d <= c}

\* There is a card of one of the spellings S.
Found(S) == \E s \in S : cards[s] > 0

\* The request b looks for S and will make a card of spelling s if there is none, and
\* another one that found none and will make such a card is under way.
Meeting(b, S, s) ==
    IF ~Found(S) /\ \E o \in Browsers \ {b} : ~visit[o].found /\ visit[o].spell = s
    THEN carded \cup {s} ELSE carded

\* Refused: no code, too many attempts, or expired. Nothing is written then. The card
\* is looked for under every spelling phone_variants knows.
GuessBegins(b) ==
    /\ visit[b] = NoVisit
    /\ \E c \in Newest :
           /\ code[c].tries < MaxGuesses /\ hour = code[c].born
           /\ visit' = [visit EXCEPT ![b] =
                  [doing |-> "guessing", code |-> c, tries |-> code[c].tries,
                   behind |-> {}, found |-> Found(Variants), spell |-> Normal]]
    /\ carded' = Meeting(b, Variants, Normal)
    /\ UNCHANGED <<hour, asked, code, cards, guesses, signIns>>

\* The customer cards after b has made hers, if it found none.
CardMade(b) ==
    IF visit[b].found THEN cards ELSE [cards EXCEPT ![visit[b].spell] = @ + 1]

Compared(b, c) ==
    /\ guesses' = [guesses EXCEPT ![c] = @ + 1]
    /\ \E right \in BOOLEAN :
           /\ code' = [code EXCEPT ![c].tries = visit[b].tries + 1,
                                   ![c].st    = IF right THEN "used" ELSE @]
           /\ signIns' = [signIns EXCEPT ![c] = IF right THEN @ + 1 ELSE @]
           /\ cards'   = IF right THEN CardMade(b) ELSE cards
    /\ Wrote(b, c)
    /\ UNCHANGED <<hour, asked, carded>>

\* attempts is counted before the comparison, and stays when the guess is wrong.
GuessCommits(b) ==
    /\ visit[b].doing = "guessing" /\ visit[b].code \notin visit[b].behind
    /\ Compared(b, visit[b].code)

\* The row was written since: the request runs again from the start.
GuessConflicts(b) ==
    /\ visit[b].doing = "guessing" /\ visit[b].code \in visit[b].behind
    /\ visit' = [visit EXCEPT ![b] = NoVisit]
    /\ UNCHANGED <<hour, asked, code, cards, guesses, signIns, carded>>

-----------------------------------------------------------------------------
(* A booking in her name, the clock, the daily sweep.                      *)

\* A booking, like a claimed offer and the card on the floor, looks for the number
\* exactly as it is spelled, and makes a card of that spelling.
BookingBegins(b, s) ==
    /\ visit[b] = NoVisit
    /\ visit' = [visit EXCEPT ![b] = [NoVisit EXCEPT !.doing = "booking", !.spell = s,
                                                     !.found = Found({s})]]
    /\ carded' = Meeting(b, {s}, s)
    /\ UNCHANGED <<hour, asked, code, cards, guesses, signIns>>

BookingCommits(b) ==
    /\ visit[b].doing = "booking"
    /\ cards' = CardMade(b)
    /\ visit' = [visit EXCEPT ![b] = NoVisit]
    /\ UNCHANGED <<hour, asked, code, guesses, signIns, carded>>

HourPasses ==
    /\ hour < LastHour /\ hour' = hour + 1
    /\ UNCHANGED <<asked, code, cards, visit, guesses, signIns, carded>>

\* _gc_codes: a code is deleted a day after it was made.
Sweep(c) ==
    /\ Exists(c) /\ hour - code[c].born >= 2
    /\ code' = [code EXCEPT ![c].st = "gone"]
    /\ visit' = [o \in Browsers |->
           IF visit[o].code = c /\ visit[o].doing = "guessing"
           THEN [visit[o] EXCEPT !.behind = @ \cup {c}] ELSE visit[o]]
    /\ UNCHANGED <<hour, asked, cards, guesses, signIns, carded>>

CodeNext ==
    \/ HourPasses
    \/ \E c \in CodeNumbers : Sweep(c)
    \/ \E b \in Browsers :
           \/ AskBegins(b) \/ AskCommits(b)
           \/ GuessBegins(b) \/ GuessCommits(b) \/ GuessConflicts(b)
           \/ BookingCommits(b) \/ \E s \in Spellings : BookingBegins(b, s)

CodeSpec == CodeInit /\ [][CodeNext]_codeVars

-----------------------------------------------------------------------------
(* Properties.                                                             *)

\* However many browsers guess at once, no code is compared with more guesses
\* than the limit.
GuessesBounded == \A c \in CodeNumbers : guesses[c] <= MaxGuesses

\* A code lets somebody in once, whoever else sends it at the same moment.
EachCodeSignsInOnce == \A c \in CodeNumbers : signIns[c] <= 1

\* The limit of texts per hour is a count in a snapshot: it can be exceeded by
\* the requests that counted at the same moment, and by no more than those.
SendsBoundedByOverlap ==
    Cardinality({c \in CodeNumbers : code[c].st # "none" /\ hour - code[c].born < 2})
        <= MaxSends + Cardinality(Browsers) - 1

\* A code lets somebody in only if no newer unused one was there when she sent it.
OlderCodeIsSuperseded ==
    [][\A b \in Browsers, c \in CodeNumbers :
           /\ visit[b].doing = "guessing" /\ visit'[b] = NoVisit
           /\ visit[b].code = c /\ signIns'[c] > signIns[c]
           => \A d \in Unused : d > c => d \in visit[b].behind]_codeVars

\* A number has a second card of one spelling only if two requests looked for the
\* first one before either had made it; a code alone, used once, never makes two.
\* A card of another spelling needs no overlap: signing in and then booking is enough.
SecondCardNeedsOverlap == \A s \in Spellings : cards[s] > 1 => s \in carded

\* Sign-in by code under simultaneous requests: guesses and texts are limited,
\* a code is used once, an older code is dead, and a number gets a second card of
\* the same spelling only from requests that overlapped.
SignInHolds ==
    /\ OlderCodeIsSuperseded
    /\ []GuessesBounded
    /\ []EachCodeSignsInOnce
    /\ []SendsBoundedByOverlap
    /\ []SecondCardNeedsOverlap

=============================================================================
