------------------------------- MODULE CourseFacts -------------------------------
(* What the Datalog and Prolog engines derive about a course, and what a course *)
(* that passed their checks piecewise is as a whole.  An outline is committed;   *)
(* its nodes are written, checked one by one (NodeChecks), approved and edited,  *)
(* while later outlines add nodes, leave nodes out and redraw the entries of     *)
(* those they keep; then the whole is checked (WholeCourseChecks), which asks    *)
(* only some of the questions again: that nothing cites what is not there and    *)
(* nothing refers to what was dropped rests on the cascade having reached every  *)
(* node it should.                                                              *)
(*                                                                              *)
(* Items are numbered in the order they joined the course, their position.      *)
(* Retries and blocks are CourseDraft's, and the trace the whole is also asked   *)
(* for (trace_satisfies_ltl) is Audit's: a course passes here that it may refuse.*)
EXTENDS Naturals, FiniteSets

CONSTANTS
    Items,
    Skills, NoSkill,
    Catalog,          \* the skills the catalogue has
    Objectives,       \* of the brief: an objective is named by the skill closing it
    Chunks, InKB,     \* chunks a node may cite, and the ones of the knowledge base
    Hidden,           \* chunks of an article some audience cannot see
    Contents,         \* what a node's content may cite
    Outlines,         \* outlines that may be proposed: item -> its entry
    MaxEdits, MaxOutlines

Entry == [teaches : Skills \union {NoSkill},
          topics : SUBSET Items, requires : SUBSET Items, refers : SUBSET Items]

ASSUME FactsAssumption ==
    /\ Items \subseteq Nat /\ IsFiniteSet(Items)
    /\ Objectives \subseteq Skills /\ NoSkill \notin Skills
    /\ InKB \subseteq Chunks /\ Hidden \subseteq InKB /\ Contents \subseteq SUBSET Chunks
    /\ \A o \in Outlines : DOMAIN o \subseteq Items /\ o \in [DOMAIN o -> Entry]
    /\ MaxEdits \in Nat /\ MaxOutlines \in Nat

VARIABLES
    spec,         \* each node's outline entry
    outline,      \* committed_outline
    st,           \* the nodes' states
    cites,        \* the chunks each node's content cites
    course,       \* the revision's state
    edits, commits,  \* for the bounds
    \* History, read by no action:
    excused       \* dead references the code did not look at when they died

factVars == <<spec, outline, st, cites, course, edits, commits, excused>>

ItemStates == {"Absent", "Planned", "Validated", "NodeApproved", "NeedsRevalidation",
               "NodeRepair", "Removed"}

--------------------------------------------------------------------------------
\* What the rules derive.

Alive(s) == {n \in Items : s[n] \notin {"Absent", "Removed"}}
ApprovedItems == {n \in Items : st[n] = "NodeApproved"}

\* invented_skill
SkillsGrounded(o) == \A n \in DOMAIN o : o[n].teaches \in Catalog \union {NoSkill}

\* dead_reference
ReferencesLive(n) == spec[n].refers \subseteq outline

\* (a careless edition: a topic dropped from the outline is waited for)
ContentApproved_dropped(n) == spec[n].topics \subseteq ApprovedItems

\* outstanding: only over the topics still in the committed outline
ContentApproved(n) == spec[n].topics \intersect outline \subseteq ApprovedItems

\* Whatever can be reached from n along e, through items not removed
ReachedAlong(e, n, s) ==
    {b \in Items : \A C \in SUBSET Items :
        (e[n] \subseteq C /\ \A x \in C \intersect Alive(s) : e[x] \subseteq C) => b \in C}

\* cycle, out_of_order
OrderingAcyclic ==
    \A n \in Alive(st) :
        /\ n \notin ReachedAlong([m \in Items |-> spec[m].requires], n, st)
        /\ \A b \in spec[n].requires \intersect Alive(st) : b <= n

Edge(sp) == [n \in Items |-> sp[n].topics \union sp[n].requires \union sp[n].refers]

\* (a careless edition, as the code once had it: only prerequisites are dependencies)
Dependents_prerequisites(edited, s, sp) ==
    {n \in Alive(s) \ {edited} : edited \in ReachedAlong([m \in Items |-> sp[m].requires], n, s)}

\* depends
Dependents(edited, s, sp) ==
    {n \in Alive(s) \ {edited} : edited \in ReachedAlong(Edge(sp), n, s)}

\* ungrounded, leak
Grounded(c) == c \subseteq InKB
NoLeak(c) == c \intersect Hidden = {}

\* Coverage asks a node for its own objective, which must be one of the brief's,
\* and an exam for none; it asks the course for all of them, and counts only
\* what is approved.
ClosesItsOwn(n) == spec[n].teaches \in Objectives \union {NoSkill}
ObjectivesCovered == \A o \in Objectives : \E n \in ApprovedItems : spec[n].teaches = o

--------------------------------------------------------------------------------
NodeChecks(n, c) == Grounded(c) /\ ReferencesLive(n) /\ NoLeak(c) /\ ClosesItsOwn(n)

\* An approved node that rests on what changed is verified again.
Cascade(s, changed) ==
    [n \in Items |-> IF s[n] = "NodeApproved" /\ n \in Dependents(changed, s, spec)
                     THEN "NeedsRevalidation" ELSE s[n]]

Entries(o) ==
    [n \in Items |-> IF n \in DOMAIN o THEN o[n]
                     ELSE [teaches |-> NoSkill, topics |-> {}, requires |-> {}, refers |-> {}]]

\* The first outline is committed.
FactsInit ==
    \E o \in Outlines :
        /\ SkillsGrounded(o)
        /\ spec = Entries(o)
        /\ outline = DOMAIN o
        /\ st = [n \in Items |-> IF n \in DOMAIN o THEN "Planned" ELSE "Absent"]
        /\ cites = [n \in Items |-> {}]
        /\ course = "ContentInProgress"
        /\ edits = 0 /\ commits = 0
        /\ excused = [n \in Items |-> {}]

AtWork == course = "ContentInProgress"

\* Content is generated, screened and checked; what rests on it is verified again.
Write(n, c) ==
    /\ AtWork /\ st[n] \in {"Planned", "NodeRepair"} /\ ContentApproved(n)
    /\ st' = Cascade([st EXCEPT ![n] = IF NodeChecks(n, c) THEN "Validated" ELSE "NodeRepair"], n)
    /\ cites' = [cites EXCEPT ![n] = c]
    /\ excused' = [excused EXCEPT ![n] = {}]
    /\ UNCHANGED <<spec, outline, course, edits, commits>>

CheckAgain(n) ==
    /\ AtWork /\ st[n] = "NeedsRevalidation"
    /\ st' = [st EXCEPT ![n] = IF NodeChecks(n, cites[n]) THEN "Validated" ELSE "NodeRepair"]
    /\ excused' = [excused EXCEPT ![n] = {}]
    /\ UNCHANGED <<spec, outline, cites, course, edits, commits>>

Approve(n) ==
    /\ AtWork /\ st[n] = "Validated" /\ ContentApproved(n)
    /\ st' = [st EXCEPT ![n] = "NodeApproved"]
    /\ UNCHANGED <<spec, outline, cites, course, edits, commits, excused>>

\* A person's edit is not screened when it is made: it may cite anything.
Edit(n, c) ==
    /\ AtWork /\ st[n] = "NodeApproved" /\ edits < MaxEdits
    /\ edits' = edits + 1
    /\ st' = Cascade([st EXCEPT ![n] = "NeedsRevalidation"], n)
    /\ cites' = [cites EXCEPT ![n] = c]
    /\ UNCHANGED <<spec, outline, course, commits, excused>>

Known == {n \in Items : st[n] # "Absent"}
Redrawn(o) == [n \in Items |-> IF n \in DOMAIN o THEN o[n] ELSE spec[n]]

\* Only the reason of an approval takes the nodes it leaves out off the course.
Leavers(o, reason) == IF reason THEN Alive(st) \ DOMAIN o ELSE {}
\* The course once n, and those of "out" before it, have left.
Leaving(n, out, s) == [m \in Items |-> IF m \in out /\ m <= n THEN "Removed" ELSE s[m]]

\* The dependencies o gives n that it did not have, among the nodes there are.
Gained(o, n) ==
    ((Edge(Redrawn(o))[n] \ Edge(spec)[n]) \intersect (Known \union DOMAIN o)) \ {n}

\* Nodes leave one by one, each followed by its cascade; then come the
\* dependencies gained.
Recommitted(o, out, joined) ==
    [n \in Items |->
        IF n \in out THEN "Removed"
        ELSE IF /\ joined[n] = "NodeApproved"
                /\ \/ Gained(o, n) # {}
                   \/ \E x \in out : n \in Dependents(x, Leaving(x, out, joined), Redrawn(o))
        THEN "NeedsRevalidation" ELSE joined[n]]

\* The references of n that o leaves dead and that no cascade is about.
LeftDead(o, out, n) ==
    LET dead == Redrawn(o)[n].refers \ DOMAIN o IN
    CASE st[n] = "Validated" -> dead
      [] st[n] = "NodeApproved" -> dead \ (out \union Gained(o, n))
      [] OTHER -> {}

\* A revised outline passes its checks and is approved, with a reason or without:
\* nodes it adds join after those already there, the entry of each of its nodes is
\* replaced, and a node that was removed stays so, in the outline or not.
OutlineApproved(o, reason) ==
    LET out == Leavers(o, reason)
        joined == [n \in Items |-> IF n \in DOMAIN o \ Known THEN "Planned" ELSE st[n]]
    IN  /\ AtWork /\ SkillsGrounded(o) /\ commits < MaxOutlines
        /\ \A n \in DOMAIN o \ Known : \A m \in Known : m < n
        /\ commits' = commits + 1
        /\ outline' = DOMAIN o
        /\ spec' = Redrawn(o)
        /\ st' = Recommitted(o, out, joined)
        /\ excused' = [n \in Items |-> LeftDead(o, out, n)]
        /\ UNCHANGED <<cites, course, edits>>

WholeCourseChecked ==
    /\ AtWork /\ Alive(st) \subseteq ApprovedItems
    /\ ObjectivesCovered /\ OrderingAcyclic /\ \A n \in Alive(st) : NoLeak(cites[n])
    /\ course' = "PendingApproval"
    /\ UNCHANGED <<spec, outline, st, cites, edits, commits, excused>>

\* ApprovalRejected
BackToWork ==
    /\ course = "PendingApproval"
    /\ course' = "ContentInProgress"
    /\ UNCHANGED <<spec, outline, st, cites, edits, commits, excused>>

FactsNext ==
    \/ \E n \in Items, c \in Contents : Write(n, c) \/ Edit(n, c)
    \/ \E n \in Items : CheckAgain(n) \/ Approve(n)
    \/ \E o \in Outlines, reason \in BOOLEAN : OutlineApproved(o, reason)
    \/ WholeCourseChecked \/ BackToWork

FactsSpec == FactsInit /\ [][FactsNext]_factVars

--------------------------------------------------------------------------------
\* A course put up for approval is whole: every objective of the brief is taught
\* by an approved node, in an order that can be followed, from sources that exist
\* and everybody may see, and what it refers to is in its outline.  The code leaves
\* three kinds of reference dead, and no other: of a node that stood validated and
\* not yet approved, one whose target the committed outline does not have; of an
\* approved node, one whose target was left out without a reason, and one the
\* outline gave it to something the course never had.  Any other death is looked
\* at, through the cascade, before the course is shown again.
PassedCourseIsWhole ==
    course = "PendingApproval" =>
        /\ ObjectivesCovered /\ OrderingAcyclic
        /\ \A n \in Alive(st) :
               /\ st[n] = "NodeApproved"
               /\ Grounded(cites[n]) /\ NoLeak(cites[n])
               /\ spec[n].refers \subseteq outline \union excused[n]

\* Nothing waits for ever: as long as some node is not approved, one of those has
\* a move left, to be written, checked or approved.  The code makes two exceptions:
\* exams that test each other, which no check refuses, and a topic that an outline
\* brought back after it was removed, which nobody can write and an exam waits for.
TopicsAreAcyclic ==
    \A n \in Alive(st) :
        n \notin ReachedAlong([m \in Items |-> spec[m].topics \intersect outline], n, st)
WaitsForRemoved(n) == \E t \in spec[n].topics \intersect outline : st[t] = "Removed"
NothingWaitsForEver ==
    AtWork /\ TopicsAreAcyclic /\ ~(Alive(st) \subseteq ApprovedItems) =>
        \E n \in Alive(st) \ ApprovedItems :
            st[n] = "NeedsRevalidation" \/ ContentApproved(n) \/ WaitsForRemoved(n)
=============================================================================
