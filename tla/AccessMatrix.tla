---------------------------- MODULE AccessMatrix ----------------------------
(***************************************************************************)
(* Which pages a role may open (modryn_staff, /manage/roles). The owner    *)
(* saves the whole grid of ticks at once; the save replaces the rows it    *)
(* finds by the ticks it was sent. The grid was drawn earlier, roles are   *)
(* invented meanwhile, and another owner may be saving too.                *)
(***************************************************************************)
EXTENDS FiniteSets

CONSTANTS
    Jobs,              \* the roles
    OldJobs,           \* those that are older than the matrix
    Pages,             \* the staff pages, home left out
    DefaultPages,      \* DEFAULT_PAGE_KEYS
    Tabs               \* browser tabs in which owners have the grid open

ASSUME OldJobsExist     == OldJobs \subseteq Jobs
ASSUME DefaultsArePages == DefaultPages \subseteq Pages

VARIABLES
    jobs,              \* the roles that exist
    grants,            \* the rows of modryn.role.page
    grid               \* each tab: the ticks, the save under way, what it missed

accessVars == <<jobs, grants, grid>>

Pairs == Jobs \X Pages

\* A tab: its phase; the ticks; those its owner changed by hand; the pairs
\* others changed since the grid was drawn; the rows the save found, the roles
\* it knew, and the pairs others changed since it began.
NoGrid == [phase |-> "closed", ticks |-> {}, touched |-> {}, drifted |-> {},
           have |-> {}, behind |-> {}]

AccessTypeOK ==
    /\ jobs \subseteq Jobs /\ grants \subseteq jobs \X Pages
    /\ \A t \in Tabs :
           /\ grid[t].phase \in {"closed", "drawn", "saving"}
           /\ \A f \in {"ticks", "touched", "drifted", "have", "behind"} :
                  grid[t][f] \subseteq Pairs
           /\ grid[t].behind \subseteq grid[t].drifted

\* The migration gives the roles that predate the matrix what create() seeds.
AccessInit ==
    /\ jobs = OldJobs
    /\ grants = OldJobs \X DefaultPages
    /\ grid = [t \in Tabs |-> NoGrid]

\* An open grid misses that the pairs in ps have changed.
Missing(g, ps) ==
    [g EXCEPT !.drifted = IF g.phase = "closed" THEN {} ELSE @ \cup ps,
              !.behind  = IF g.phase = "saving" THEN @ \cup ps ELSE {}]

\* Tab t is done, having changed the pairs in ps.
Ended(t, ps) == [s \in Tabs |-> IF s = t THEN NoGrid ELSE Missing(grid[s], ps)]

-----------------------------------------------------------------------------
(* Roles: roles_new, and create() of modryn.staff.role.                    *)

Invent(j) ==
    /\ j \notin jobs
    /\ jobs'   = jobs \cup {j}
    /\ grants' = grants \cup {j} \X DefaultPages
    /\ grid'   = [t \in Tabs |-> Missing(grid[t], {j} \X DefaultPages)]

-----------------------------------------------------------------------------
(* The grid: roles_list, roles_pages.                                      *)

Draw(t) ==
    /\ grid[t].phase = "closed"
    /\ grid' = [grid EXCEPT ![t] = [NoGrid EXCEPT !.phase = "drawn", !.ticks = grants]]
    /\ UNCHANGED <<jobs, grants>>

\* One tick is changed per grid: the bound on what an owner does by hand.
Tick(t, p) ==
    /\ grid[t].phase = "drawn" /\ grid[t].touched = {}
    /\ grid' = [grid EXCEPT ![t].touched = {p},
                            ![t].ticks   = (@ \ {p}) \cup ({p} \ @)]
    /\ UNCHANGED <<jobs, grants>>

\* Variant: a page that the grid shows is not known to the save.
WantedOfSome(g) == {p \in g.ticks : p[1] \in jobs /\ p[2] \in Pages \ DefaultPages}

\* The ticks the save takes for good.
Wanted(g) == {p \in g.ticks : p[1] \in jobs /\ p[2] \in Pages}

SaveBegins(t) ==
    /\ grid[t].phase = "drawn"
    /\ grid' = [grid EXCEPT ![t].phase = "saving", ![t].have = grants,
                            ![t].ticks = Wanted(grid[t]), ![t].behind = {}]
    /\ UNCHANGED <<jobs, grants>>

Drops(g) == g.have \ g.ticks
Adds(g)  == g.ticks \ g.have

Saving(t) == grid[t].phase = "saving"

SaveCommits(t) ==
    LET g == grid[t] IN
    /\ Saving(t)
    /\ Drops(g) \cap g.behind = {} /\ Adds(g) \cap grants = {}
    /\ grants' = (grants \ Drops(g)) \cup Adds(g)
    /\ grid'   = Ended(t, Drops(g) \cup Adds(g))
    /\ UNCHANGED jobs

\* A row to delete was deleted since: the request runs again.
SaveRunsAgain(t) ==
    /\ Saving(t) /\ Drops(grid[t]) \cap grid[t].behind # {}
    /\ grid' = [grid EXCEPT ![t].have = grants, ![t].behind = {}]
    /\ UNCHANGED <<jobs, grants>>

\* A row to insert was inserted since: the unique index fails the request.
SaveFails(t) ==
    /\ Saving(t)
    /\ Drops(grid[t]) \cap grid[t].behind = {} /\ Adds(grid[t]) \cap grants # {}
    /\ grid' = [grid EXCEPT ![t] = NoGrid]
    /\ UNCHANGED <<jobs, grants>>

AccessNext ==
    \/ \E j \in Jobs : Invent(j)
    \/ \E t \in Tabs :
           \/ Draw(t) \/ SaveBegins(t) \/ SaveCommits(t) \/ SaveRunsAgain(t) \/ SaveFails(t)
           \/ \E p \in jobs \X Pages : Tick(t, p)

AccessSpec == AccessInit /\ [][AccessNext]_accessVars

-----------------------------------------------------------------------------
(* Properties.                                                             *)

\* A save that ends otherwise than by inserting a row that is there by now.
Saves(t) == /\ Saving(t) /\ grid'[t].phase = "closed"
            /\ (grid[t].ticks \ grid[t].have) \cap grants = {}

\* What is ticked when Save lands is what stands, but for the pairs somebody
\* else changed behind the save.
TicksStand ==
    [][\A t \in Tabs : Saves(t) =>
           (grants' \ grid[t].ticks) \cup (grid[t].ticks \ grants') \subseteq grid[t].behind
      ]_accessVars

\* A save changes no pair its owner did not change by hand, unless the pair was
\* changed by somebody else after her grid was drawn.
UntouchedPairsStay ==
    [][\A t \in Tabs : Saves(t) =>
           (grants' \ grants) \cup (grants \ grants')
               \subseteq grid[t].touched \cup grid[t].drifted]_accessVars

\* A saved grid changes what its owner ticked and nothing else.
SavesAreLocal == TicksStand /\ UntouchedPairsStay

=============================================================================
