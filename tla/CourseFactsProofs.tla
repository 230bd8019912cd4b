--------------------------- MODULE CourseFactsProofs ---------------------------
(* What is derived about a course, for every number of items, every outline and  *)
(* every content: the facts a node was approved with stand when the whole is     *)
(* checked, because the cascade reaches every item that rests on a changed one,  *)
(* but for the references an outline leaves dead with no cascade about them; and *)
(* some item always has a move, unless a topic it waits for was removed, because *)
(* exams that do not test each other have one of which no other waits.           *)
EXTENDS CourseFacts, FiniteSetTheorems, WellFoundedInduction, TLAPS

FactsTypeOK ==
    /\ spec \in [Items -> Entry]
    /\ outline \subseteq Items
    /\ st \in [Items -> ItemStates]
    /\ cites \in [Items -> SUBSET Chunks]
    /\ course \in {"ContentInProgress", "PendingApproval"}
    /\ excused \in [Items -> SUBSET Items]

\* What is committed has joined the course.
OutlineIsKnown == \A n \in outline : st[n] # "Absent"

\* What was checked still stands, but for what a redrawn entry says.
CheckedStands(n) ==
    st[n] \in {"Validated", "NodeApproved"} =>
        /\ Grounded(cites[n]) /\ NoLeak(cites[n])
        /\ spec[n].refers \subseteq outline \union excused[n]

FactsInv ==
    /\ FactsTypeOK /\ OutlineIsKnown
    /\ \A n \in Items : CheckedStands(n)
    /\ PassedCourseIsWhole

--------------------------------------------------------------------------------
(* Along an edge                                                                *)

\* The entries of a course after an outline are entries.
LEMMA RedrawnAreEntries ==
    ASSUME spec \in [Items -> Entry], NEW o \in Outlines
    PROVE  /\ Redrawn(o) \in [Items -> Entry]
           /\ \A n \in Items : Redrawn(o)[n].refers \subseteq Items
<1>1. DOMAIN o \subseteq Items /\ \A n \in DOMAIN o : o[n] \in Entry
  BY FactsAssumption
<1>2. Redrawn(o) \in [Items -> Entry]
  BY <1>1 DEF Redrawn
<1>3. \A e \in Entry : e.refers \subseteq Items
  BY DEF Entry
<1> QED  BY <1>2, <1>3

\* What an edge leads to is reached.
LEMMA EdgeReaches ==
    ASSUME NEW e, NEW s, NEW n \in Items, NEW m \in e[n], m \in Items
    PROVE  m \in ReachedAlong(e, n, s)
BY DEF ReachedAlong

\* What is reached from there is reached from here.
LEMMA ReachedFurther ==
    ASSUME NEW e, NEW s, NEW n \in Items, NEW m \in e[n], m \in Alive(s)
    PROVE  ReachedAlong(e, m, s) \subseteq ReachedAlong(e, n, s)
BY DEF ReachedAlong

\* The cascade reaches whoever refers to what changed.
LEMMA ReferrersDepend ==
    ASSUME NEW sp, NEW s, NEW n \in Items, NEW m \in Alive(s), m # n,
           n \in sp[m].refers
    PROVE  m \in Dependents(n, s, sp)
<1>1. m \in Items
  BY DEF Alive
<1>2. n \in Edge(sp)[m]
  BY <1>1 DEF Edge
<1>3. n \in ReachedAlong(Edge(sp), m, s)
  BY <1>1, <1>2, EdgeReaches
<1> QED  BY <1>3 DEF Dependents

\* A cascade takes approvals away and nothing else.
LEMMA CascadeOnlyUnapproves ==
    ASSUME NEW s \in [Items -> ItemStates], NEW n
    PROVE  /\ Cascade(s, n) \in [Items -> ItemStates]
           /\ \A m \in Items : Cascade(s, n)[m] = s[m]
                               \/ (s[m] = "NodeApproved" /\ Cascade(s, n)[m] = "NeedsRevalidation")
BY DEF Cascade, ItemStates

--------------------------------------------------------------------------------
(* The invariant                                                                *)

\* Nothing is checked in a course that has just been committed.
LEMMA FactsInitially == FactsInit => FactsInv
<1> SUFFICES ASSUME FactsInit PROVE FactsInv
  OBVIOUS
<1>1. PICK o \in Outlines :
        /\ spec = Entries(o)
        /\ outline = DOMAIN o
        /\ st = [n \in Items |-> IF n \in DOMAIN o THEN "Planned" ELSE "Absent"]
  BY DEF FactsInit
<1>2. DOMAIN o \subseteq Items /\ \A n \in DOMAIN o : o[n] \in Entry
  BY FactsAssumption
<1>3. [teaches |-> NoSkill, topics |-> {}, requires |-> {}, refers |-> {}] \in Entry
  BY DEF Entry
<1>4. spec \in [Items -> Entry]
  BY <1>1, <1>2, <1>3 DEF Entries
<1>5. FactsTypeOK /\ OutlineIsKnown
  BY <1>1, <1>2, <1>4 DEF FactsInit, FactsTypeOK, OutlineIsKnown, ItemStates
<1>6. \A n \in Items : CheckedStands(n)
  BY <1>1 DEF CheckedStands
<1> QED  BY <1>5, <1>6 DEF FactsInv, FactsInit, PassedCourseIsWhole

\* A node that passes its checks is what they asked.
LEMMA ChecksAreKept ==
    ASSUME NEW n, NEW c, NodeChecks(n, c)
    PROVE  /\ Grounded(c) /\ NoLeak(c)
           /\ spec[n].refers \subseteq outline
BY DEF NodeChecks, ReferencesLive

\* Writing one node checks it, and leaves the others what they were or unapproved.
LEMMA WriteKeeps ==
    ASSUME FactsInv, NEW n \in Items, NEW c \in Contents, Write(n, c)
    PROVE  FactsInv'
<1> USE DEF FactsInv, Write
<1> DEFINE s == [st EXCEPT ![n] = IF NodeChecks(n, c) THEN "Validated" ELSE "NodeRepair"]
<1>1. s \in [Items -> ItemStates] /\ st' = Cascade(s, n)
  BY DEF FactsTypeOK, ItemStates
<1>2. /\ \A m \in Items : st'[m] = s[m] \/ (s[m] = "NodeApproved" /\ st'[m] = "NeedsRevalidation")
      /\ st' \in [Items -> ItemStates]
  <2> HIDE DEF s, Write, Edit
  <2> QED  BY <1>1, CascadeOnlyUnapproves
<1>3. FactsTypeOK'
  BY <1>2, FactsAssumption DEF FactsTypeOK
<1>4. OutlineIsKnown'
  <2>1. \A m \in Items : st[m] # "Absent" => s[m] # "Absent"
    BY DEF FactsTypeOK
  <2>2. outline' = outline /\ outline \subseteq Items /\ \A m \in outline : st[m] # "Absent"
    BY DEF FactsTypeOK, OutlineIsKnown
  <2> HIDE DEF s, Write
  <2> QED  BY <1>2, <2>1, <2>2 DEF OutlineIsKnown
<1>5. ASSUME NEW m \in Items PROVE CheckedStands(m)'
  <2>1. CASE m = n
    <3>1. cites'[m] = c /\ spec' = spec /\ outline' = outline /\ excused'[m] = {}
      BY <2>1 DEF FactsTypeOK
    <3>2. st'[m] \in {"Validated", "NodeApproved"} => NodeChecks(m, c)
      BY <1>2, <2>1 DEF FactsTypeOK
    <3> HIDE DEF Write
    <3> QED  BY <3>1, <3>2, ChecksAreKept DEF CheckedStands
  <2>2. CASE m # n
    <3>1. /\ cites'[m] = cites[m] /\ spec' = spec /\ outline' = outline
          /\ excused'[m] = excused[m]
      BY <2>2 DEF FactsTypeOK
    <3>2. st'[m] \in {"Validated", "NodeApproved"} => st[m] = st'[m]
      BY <1>2, <2>2 DEF FactsTypeOK
    <3> HIDE DEF Write
    <3> QED  BY <3>1, <3>2 DEF CheckedStands
  <2> QED  BY <2>1, <2>2
<1> QED  BY <1>3, <1>4, <1>5 DEF PassedCourseIsWhole, AtWork

\* A check that is made again asks the same.
LEMMA CheckAgainKeeps ==
    ASSUME FactsInv, NEW n \in Items, CheckAgain(n)
    PROVE  FactsInv'
<1> USE DEF FactsInv, CheckAgain
<1>1. FactsTypeOK' /\ OutlineIsKnown'
  BY DEF FactsTypeOK, ItemStates, OutlineIsKnown
<1>2. ASSUME NEW m \in Items PROVE CheckedStands(m)'
  <2>1. CASE m = n
    BY <2>1, ChecksAreKept DEF CheckedStands, FactsTypeOK
  <2>2. CASE m # n
    BY <2>2 DEF CheckedStands, FactsTypeOK
  <2> QED  BY <2>1, <2>2
<1> QED  BY <1>1, <1>2 DEF PassedCourseIsWhole, AtWork

\* What is approved was validated.
LEMMA ApproveKeeps ==
    ASSUME FactsInv, NEW n \in Items, Approve(n)
    PROVE  FactsInv'
BY DEF FactsInv, Approve, FactsTypeOK, ItemStates, OutlineIsKnown, CheckedStands,
       PassedCourseIsWhole, AtWork

\* What is edited is not approved any more.
LEMMA EditKeeps ==
    ASSUME FactsInv, NEW n \in Items, NEW c \in Contents, Edit(n, c)
    PROVE  FactsInv'
<1> USE DEF FactsInv, Edit
<1> DEFINE s == [st EXCEPT ![n] = "NeedsRevalidation"]
<1>1. s \in [Items -> ItemStates] /\ st' = Cascade(s, n)
  BY DEF FactsTypeOK, ItemStates
<1>2. /\ \A m \in Items : st'[m] = s[m] \/ (s[m] = "NodeApproved" /\ st'[m] = "NeedsRevalidation")
      /\ st' \in [Items -> ItemStates]
  <2> HIDE DEF s, Write, Edit
  <2> QED  BY <1>1, CascadeOnlyUnapproves
<1>3. FactsTypeOK'
  BY <1>2, FactsAssumption DEF FactsTypeOK
<1>4. OutlineIsKnown'
  BY <1>2 DEF OutlineIsKnown, FactsTypeOK
<1>5. ASSUME NEW m \in Items PROVE CheckedStands(m)'
  <2>1. CASE st'[m] \in {"Validated", "NodeApproved"}
    <3>1. m # n /\ st[m] = st'[m]
      BY <1>2, <2>1 DEF FactsTypeOK
    <3>2. cites'[m] = cites[m] /\ spec' = spec /\ outline' = outline /\ excused' = excused
      BY <3>1 DEF FactsTypeOK
    <3> HIDE DEF Edit
    <3> QED  BY <3>1, <3>2 DEF CheckedStands
  <2> QED  BY <2>1 DEF CheckedStands
<1> QED  BY <1>3, <1>4, <1>5 DEF PassedCourseIsWhole, AtWork

\* An outline takes approvals away, adds nodes and removes nodes, and nothing else.
LEMMA OutlineOnlyUnapproves ==
    ASSUME FactsTypeOK, NEW o \in Outlines, NEW reason \in BOOLEAN, OutlineApproved(o, reason)
    PROVE  /\ st' \in [Items -> ItemStates]
           /\ \A n \in Items : st[n] # "Absent" => st'[n] # "Absent"
           /\ \A n \in DOMAIN o : st'[n] # "Absent"
           /\ \A n \in Items : st'[n] \in {"Validated", "NodeApproved"} => st[n] = st'[n]
<1> DEFINE out == Leavers(o, reason)
           joined == [n \in Items |-> IF n \in DOMAIN o \ Known THEN "Planned" ELSE st[n]]
<1>1. st' = Recommitted(o, out, joined)
  BY DEF OutlineApproved
<1>2. joined \in [Items -> ItemStates]
  BY DEF FactsTypeOK, ItemStates
<1>3. \A n \in Items : \/ st'[n] = "Removed"
                      \/ st'[n] = "NeedsRevalidation"
                      \/ st'[n] = joined[n]
  <2> HIDE DEF out, joined
  <2> QED  BY <1>1 DEF Recommitted
<1>4. DOMAIN st' = Items /\ st' = [n \in Items |-> st'[n]]
  <2> HIDE DEF out, joined
  <2> QED  BY <1>1 DEF Recommitted
<1>5. DOMAIN o \subseteq Items
  BY FactsAssumption
<1>6. \A n \in Items : joined[n] = st[n] \/ (st[n] = "Absent" /\ n \in DOMAIN o /\ joined[n] = "Planned")
  BY DEF Known
<1>7. \A n \in DOMAIN o : joined[n] # "Absent"
  BY <1>5 DEF Known
<1> HIDE DEF out, joined
<1> QED  BY <1>2, <1>3, <1>4, <1>5, <1>6, <1>7 DEF ItemStates

\* A node that stays approved has lost no reference to a leaver, and gained none.
LEMMA LeaversAreLookedAt ==
    ASSUME FactsTypeOK, NEW o \in Outlines, NEW reason \in BOOLEAN, OutlineApproved(o, reason),
           NEW n \in Items, st'[n] = "NodeApproved"
    PROVE  Redrawn(o)[n].refers \intersect (Leavers(o, reason) \union Gained(o, n)) = {}
<1> DEFINE out == Leavers(o, reason)
           joined == [m \in Items |-> IF m \in DOMAIN o \ Known THEN "Planned" ELSE st[m]]
<1>1. st' = Recommitted(o, out, joined)
  BY DEF OutlineApproved
<1>2. /\ n \notin out /\ joined[n] = "NodeApproved" /\ Gained(o, n) = {}
      /\ \A x \in out : n \notin Dependents(x, Leaving(x, out, joined), Redrawn(o))
  <2> HIDE DEF out, joined
  <2> QED  BY <1>1 DEF Recommitted
<1>3. ASSUME NEW x \in out, x \in Redrawn(o)[n].refers PROVE FALSE
  <2>1. x \in Items /\ x # n
    BY <1>2 DEF Leavers, Alive
  <2>2. n \in Alive(Leaving(x, out, joined))
    <3> HIDE DEF out, joined
    <3> QED  BY <1>2 DEF Leaving, Alive
  <2>3. n \in Dependents(x, Leaving(x, out, joined), Redrawn(o))
    <3> HIDE DEF out, joined
    <3> QED  BY <1>3, <2>1, <2>2, ReferrersDepend
  <2> QED  BY <1>2, <2>3
<1> QED  BY <1>2, <1>3

\* A reference that dies is excused, or its node is not approved any more.
LEMMA OutlineApprovedKeeps ==
    ASSUME FactsInv, NEW o \in Outlines, NEW reason \in BOOLEAN, OutlineApproved(o, reason)
    PROVE  FactsInv'
<1> DEFINE out == Leavers(o, reason)
<1>1. /\ FactsTypeOK /\ outline' = DOMAIN o /\ spec' = Redrawn(o) /\ cites' = cites /\ course' = course
      /\ course = "ContentInProgress" /\ excused' = [n \in Items |-> LeftDead(o, out, n)]
  BY DEF FactsInv, OutlineApproved, AtWork
<1>2. /\ st' \in [Items -> ItemStates]
      /\ \A n \in DOMAIN o : st'[n] # "Absent"
      /\ \A n \in Items : st'[n] \in {"Validated", "NodeApproved"} => st[n] = st'[n]
  BY <1>1, OutlineOnlyUnapproves
<1>3. Redrawn(o) \in [Items -> Entry] /\ \A n \in Items : Redrawn(o)[n].refers \subseteq Items
  BY <1>1, RedrawnAreEntries DEF FactsTypeOK
<1>4. \A n \in Items : LeftDead(o, out, n) \subseteq Items
  <2> HIDE DEF out
  <2> QED  BY <1>3 DEF LeftDead
<1>5. FactsTypeOK' /\ OutlineIsKnown'
  <2>1. DOMAIN o \subseteq Items
    BY FactsAssumption
  <2>2. excused' \in [Items -> SUBSET Items]
    <3> HIDE DEF out
    <3> QED  BY <1>1, <1>4
  <2> QED  BY <1>1, <1>2, <1>3, <2>1, <2>2 DEF FactsTypeOK, OutlineIsKnown
<1>6. ASSUME NEW n \in Items, st'[n] \in {"Validated", "NodeApproved"}
      PROVE  Redrawn(o)[n].refers \subseteq DOMAIN o \union LeftDead(o, out, n)
  <2>1. CASE st[n] = "Validated"
    <3> HIDE DEF out
    <3> QED  BY <2>1 DEF LeftDead
  <2>2. CASE st[n] = "NodeApproved"
    <3>1. Redrawn(o)[n].refers \intersect (out \union Gained(o, n)) = {}
      BY <1>1, <1>2, <1>6, <2>2, LeaversAreLookedAt
    <3> HIDE DEF out
    <3> QED  BY <2>2, <3>1 DEF LeftDead
  <2> QED  BY <1>2, <1>6, <2>1, <2>2
<1>7. ASSUME NEW n \in Items PROVE CheckedStands(n)'
  <2>1. CheckedStands(n)
    BY DEF FactsInv
  <2>2. excused'[n] = LeftDead(o, out, n)
    BY <1>1
  <2> HIDE DEF out
  <2> QED  BY <1>1, <1>2, <1>6, <2>1, <2>2 DEF CheckedStands
<1>8. PassedCourseIsWhole'
  BY <1>1 DEF PassedCourseIsWhole
<1> QED  BY <1>5, <1>7, <1>8 DEF FactsInv

\* What passes as a whole was approved node by node.
LEMMA WholeCourseCheckedKeeps == FactsInv /\ WholeCourseChecked => FactsInv'
<1> SUFFICES ASSUME FactsInv, WholeCourseChecked PROVE FactsInv'
  OBVIOUS
<1> USE DEF FactsInv, WholeCourseChecked
<1>1. FactsTypeOK' /\ OutlineIsKnown' /\ \A n \in Items : CheckedStands(n)'
  BY DEF FactsTypeOK, OutlineIsKnown, CheckedStands
<1>2. ObjectivesCovered' /\ OrderingAcyclic' /\ Alive(st)' = Alive(st)
  BY DEF ObjectivesCovered, OrderingAcyclic, ApprovedItems
<1>3. ASSUME NEW n \in Alive(st)
      PROVE  st[n] = "NodeApproved" /\ n \in Items /\ CheckedStands(n)'
  BY <1>1, <1>3 DEF ApprovedItems, Alive
<1>4. PassedCourseIsWhole'
  BY <1>2, <1>3 DEF PassedCourseIsWhole, CheckedStands
<1> QED  BY <1>1, <1>4

\* A course sent back is what it was.
LEMMA BackToWorkKeeps == FactsInv /\ BackToWork => FactsInv'
BY DEF FactsInv, BackToWork, FactsTypeOK, OutlineIsKnown, CheckedStands, PassedCourseIsWhole

\* Every step keeps the invariant.
LEMMA FactsStep == FactsInv /\ [FactsNext]_factVars => FactsInv'
<1> SUFFICES ASSUME FactsInv, [FactsNext]_factVars PROVE FactsInv'
  OBVIOUS
<1>1. ASSUME NEW n \in Items, NEW c \in Contents, Write(n, c) \/ Edit(n, c) PROVE FactsInv'
  BY <1>1, WriteKeeps, EditKeeps
<1>2. ASSUME NEW n \in Items, CheckAgain(n) \/ Approve(n) PROVE FactsInv'
  BY <1>2, CheckAgainKeeps, ApproveKeeps
<1>3. CASE WholeCourseChecked \/ BackToWork
  BY <1>3, WholeCourseCheckedKeeps, BackToWorkKeeps
<1>4. CASE UNCHANGED factVars
  BY <1>4 DEF factVars, FactsInv, FactsTypeOK, OutlineIsKnown, CheckedStands,
              PassedCourseIsWhole, ObjectivesCovered, OrderingAcyclic, ApprovedItems
<1>5. ASSUME NEW o \in Outlines, NEW reason \in BOOLEAN, OutlineApproved(o, reason) PROVE FactsInv'
  BY <1>5, OutlineApprovedKeeps
<1> QED  BY <1>1, <1>2, <1>3, <1>4, <1>5 DEF FactsNext

\* The invariant holds of every behaviour.
THEOREM FactsInvariant == FactsSpec => []FactsInv
  BY FactsInitially, FactsStep, PTL DEF FactsSpec

\* A course put up for approval is whole, although its parts were checked one by
\* one and before others were edited, dropped and redrawn, but for the references no
\* cascade is about.
THEOREM CoursesPassWhole == FactsSpec => []PassedCourseIsWhole
<1>1. FactsInv => PassedCourseIsWhole
  BY DEF FactsInv
<1> QED  BY <1>1, FactsInvariant, PTL

--------------------------------------------------------------------------------
(* Nothing waits for ever                                                       *)

\* Items each of which has an edge to another of them go round in a circle.
LEMMA EdgesWithoutEnd ==
    ASSUME NEW e, NEW s, NEW U \in SUBSET Alive(s), U # {},
           \A n \in U : \E m \in U : m \in e[n]
    PROVE  \E n \in U : n \in ReachedAlong(e, n, s)
<1> SUFFICES ASSUME \A n \in U : n \notin ReachedAlong(e, n, s)
             PROVE  FALSE
  OBVIOUS
<1> DEFINE Reach(n) == ReachedAlong(e, n, s)
           Size(n) == Cardinality(Reach(n))
           Sizes == {Size(n) : n \in U}
<1>1. U \subseteq Items
  BY DEF Alive
<1>2. \A n \in Items : Reach(n) \subseteq Items /\ IsFiniteSet(Reach(n)) /\ Size(n) \in Nat
  <2>1. \A n \in Items : Reach(n) \in SUBSET Items
    BY DEF ReachedAlong
  <2> QED  BY <2>1, FactsAssumption, FS_Subset, FS_CardinalityType
<1>3. ASSUME NEW n \in U PROVE \E m \in U : Size(m) < Size(n)
  <2>1. PICK m \in U : m \in e[n]
    BY <1>3
  <2>2. m \in Reach(n) /\ Reach(m) \subseteq Reach(n) /\ m \notin Reach(m)
    BY <1>1, <2>1, EdgeReaches, ReachedFurther
  <2>3. Size(m) <= Size(n) /\ (Size(n) = Size(m) => Reach(n) = Reach(m))
    <3>1. IsFiniteSet(Reach(n)) /\ Reach(m) \in SUBSET Reach(n)
      BY <1>1, <1>2, <2>2
    <3> HIDE DEF Reach
    <3> QED  BY <3>1, FS_Subset
  <2>4. Size(m) \in Nat /\ Size(n) \in Nat /\ Size(m) # Size(n)
    BY <1>1, <1>2, <2>2, <2>3
  <2> HIDE DEF Size
  <2> QED  BY <2>3, <2>4
<1>4. Sizes \subseteq Nat /\ Sizes # {}
  BY <1>1, <1>2
<1>5. PICK x \in Sizes : \A y \in Sizes : <<y, x>> \notin OpToRel(<, Nat)
  <2> DEFINE less == OpToRel(<, Nat)
  <2>1. IsWellFoundedOn(less, Nat)
    BY NatLessThanWellFounded, Zenon
  <2> HIDE DEF Sizes, less
  <2>2. \E x \in Sizes : \A y \in Sizes : ~(<<y, x>> \in less)
    BY <1>4, <2>1, WFMin
  <2> QED  BY <2>2, Zenon DEF less
<1>6. \A y \in Sizes : ~(y < x)
  <2> HIDE DEF Sizes
  <2> QED  BY <1>4, <1>5 DEF OpToRel
<1>7. PICK n \in U : x = Size(n)
  OBVIOUS
<1>8. PICK m \in U : Size(m) < Size(n)
  BY <1>3
<1> HIDE DEF Size
<1> QED  BY <1>6, <1>7, <1>8

\* Of the items not approved, one that waits for no other of them has a move.
LEMMA SomeItemMoves == FactsInv => NothingWaitsForEver
<1> SUFFICES ASSUME FactsInv, AtWork, TopicsAreAcyclic, ~(Alive(st) \subseteq ApprovedItems)
             PROVE  \E n \in Alive(st) \ ApprovedItems : ContentApproved(n) \/ WaitsForRemoved(n)
  BY DEF NothingWaitsForEver
<1> DEFINE U == Alive(st) \ ApprovedItems
           e == [m \in Items |-> spec[m].topics \intersect outline]
<1> SUFFICES ASSUME \A n \in U : ~ContentApproved(n) /\ ~WaitsForRemoved(n)
             PROVE  FALSE
  OBVIOUS
<1>1. ASSUME NEW n \in U PROVE \E m \in U : m \in e[n]
  <2>1. n \in Items
    BY DEF Alive
  <2>2. PICK m \in spec[n].topics \intersect outline : m \notin ApprovedItems
    BY <1>1 DEF ContentApproved
  <2>3. st[m] # "Removed" /\ st[m] # "Absent" /\ m \in Items
    BY <1>1, <2>2 DEF WaitsForRemoved, FactsInv, FactsTypeOK, OutlineIsKnown
  <2>4. m \in U
    BY <2>2, <2>3 DEF Alive
  <2> QED  BY <2>1, <2>2, <2>4
<1>2. \E n \in U : n \in ReachedAlong(e, n, st)
  <2>1. U \in SUBSET Alive(st) /\ U # {}
    OBVIOUS
  <2> HIDE DEF U, e
  <2> QED  BY <1>1, <2>1, EdgesWithoutEnd
<1> QED  BY <1>2 DEF TopicsAreAcyclic

\* However the course is edited, cut down and redrawn, one of its unapproved nodes
\* can be written, checked or approved, or waits for a topic that was brought back
\* into the outline and stays removed.
THEOREM SomeItemAlwaysMoves == FactsSpec => []NothingWaitsForEver
  BY SomeItemMoves, FactsInvariant, PTL
=============================================================================
