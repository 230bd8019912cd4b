----------------------------- MODULE CourseDraft -----------------------------
(***************************************************************************)
(* One draft revision at work: its nodes (topics, and exams over topics)   *)
(* from plan to approval, the retries and blocks on the way, the cascade    *)
(* from a node to what rests on it, the outline that adds and drops nodes,  *)
(* and the revision's reactions to its nodes.  This is the state "Drafting" *)
(* of Publication, opened up.                                              *)
(*                                                                         *)
(* One external event is handled at a time (machine/machine.py, _fire): its *)
(* own rows, the dependency cascade and the revision's reactions are one    *)
(* step.  Then (auto) rows run one by one, the lowest node first            *)
(* (machine/settling.py), each a step followed by the reactions.  Nodes are *)
(* numbered in the order they joined the revision, which is the order the   *)
(* code visits them in.                                                    *)
(***************************************************************************)
EXTENDS Naturals, FiniteSets

CONSTANTS
    MaxNode,       \* bound on the nodes that ever join the revision
    Exams,         \* the nodes whose dependencies are topics they test
    Outlines,      \* the outlines that may be approved: node -> its dependencies
    FirstOutline,  \* the outline the draft starts with
    Versions,      \* versions of the rules (all kinds of configuration as one)
    FirstVersion,
    Budget,        \* thresholds.repair_budget
    MaxChanges,    \* bound on the configuration changes of a behaviour
    Forked         \* whether the draft was forked from a published revision

Node == 1..MaxNode
Outline == UNION {[N -> SUBSET Node] : N \in SUBSET Node}
NoVersion == "never"

ASSUME MaxNodeAssumption == MaxNode \in Nat \ {0}
ASSUME ExamsAssumption == Exams \subseteq Node
ASSUME OutlinesAssumption == Outlines \subseteq Outline /\ FirstOutline \in Outline
ASSUME VersionsAssumption == FirstVersion \in Versions /\ NoVersion \notin Versions
ASSUME BudgetAssumption == Budget \in Nat
ASSUME MaxChangesAssumption == MaxChanges \in Nat
ASSUME ForkedAssumption == Forked \in BOOLEAN

\* The two phases a recoverable block can be entered from here (blocked_at)
Blocked == {"BlockedAtNode", "BlockedAtOutline"}
InReview == {"ReadyForReview", "WholeCourseChecks", "PendingApproval", "Approved"}
Closed == {"Published", "Archived", "BlockedFinal"}
RevisionStates == {"ContentInProgress", "OutlineReview"} \cup Blocked \cup InReview \cup Closed

NodeStates == {"Absent", "Planned", "ContentDrafting", "Generated", "OutputGuardrail",
               "NodeRecovery", "NodeChecks", "NodeRepair", "Validated", "NodeApproved",
               "NeedsRevalidation", "BlockedFinal", "Removed"}

\* A node's outstanding operation while it is in NodeRecovery: a generation
\* whose write was lost or landed, or a screening.
Operations == {"none", "lost", "landed", "screening"}

VARIABLES
    rev,            \* the revision's state
    st,             \* the nodes' states
    op,             \* pending_operation and recovery_from
    repairs,        \* repair_count
    waiting,        \* waiting_for_topics
    edited,         \* hand_edited
    checkedAt,      \* checked_stamps of each node
    committed,      \* committed_outline
    spec,           \* each node's dependencies, as its outline entry says
    current,        \* the version of the rules in force
    courseChecked,  \* checked_stamps of the revision
    stamps,         \* stamps of the revision
    differs,        \* differs_from_live
    changes,        \* configuration changes so far, for the bound
    \* History, read by no action:
    unseen          \* dependencies replaced, removed or gained since a node's checks last passed

course == <<rev, courseChecked, stamps, differs>>
nodes == <<st, op, repairs, waiting, edited, checkedAt>>
outline == <<committed, spec>>
rules == <<current, changes>>
vars == <<course, nodes, outline, rules, unseen>>

TypeOK ==
    /\ rev \in RevisionStates
    /\ st \in [Node -> NodeStates]
    /\ op \in [Node -> Operations]
    /\ repairs \in [Node -> 0..Budget]
    /\ waiting \in [Node -> BOOLEAN]
    /\ edited \in [Node -> BOOLEAN]
    /\ checkedAt \in [Node -> Versions \cup {NoVersion}]
    /\ committed \subseteq Node
    /\ spec \in [Node -> SUBSET Node]
    /\ current \in Versions
    /\ courseChecked \in Versions \cup {NoVersion}
    /\ stamps \in Versions
    /\ differs \in BOOLEAN
    /\ changes \in 0..MaxChanges
    /\ unseen \in [Node -> SUBSET Node]

\* A first draft starts with its outline just approved.  A fork starts with the
\* nodes it copies: approved, or to be verified again when the rules have moved
\* since (machine.fork), or removed long ago.
Init ==
    /\ rev = "ContentInProgress"
    /\ committed = DOMAIN FirstOutline
    /\ spec = [n \in Node |-> IF n \in committed THEN FirstOutline[n] ELSE {}]
    /\ current \in IF Forked THEN Versions ELSE {FirstVersion}
    /\ checkedAt \in [Node -> Versions \cup {NoVersion}]
    /\ \A n \in Node :
        checkedAt[n] \in IF Forked /\ n \in committed THEN Versions ELSE {NoVersion}
    /\ st = [n \in Node |->
        IF n \in committed
        THEN IF ~Forked THEN "Planned"
             ELSE IF checkedAt[n] = current THEN "NodeApproved" ELSE "NeedsRevalidation"
        ELSE IF Forked /\ \E m \in committed : n < m THEN "Removed" ELSE "Absent"]
    /\ op = [n \in Node |-> "none"]
    /\ repairs = [n \in Node |-> 0]
    /\ waiting = [n \in Node |-> FALSE]
    /\ edited = [n \in Node |-> FALSE]
    /\ courseChecked = NoVersion
    /\ stamps = FirstVersion
    /\ differs \in IF Forked THEN BOOLEAN ELSE {TRUE}
    /\ changes = 0
    /\ unseen = [n \in Node |-> {}]

-----------------------------------------------------------------------------
(* Guards                                                                  *)

Alive(s) == {n \in Node : s[n] \notin {"Absent", "Removed"}}
AtWork == rev = "ContentInProgress"
IsDraft == rev \notin Closed

\* The topics an exam waits for: those still in the committed outline.
TopicsIn(sp, com) == [n \in Node |-> IF n \in Exams THEN sp[n] \cap com ELSE {}]
ContentApproved(n, s, topics) == \A t \in topics[n] : s[t] = "NodeApproved"
TopicsStand(n) == ContentApproved(n, st, TopicsIn(spec, committed))

\* (a careless edition: what an exam tests is no dependency)
DependentsOf_prerequisites(n, s, sp) == {m \in Alive(s) \ (Exams \cup {n}) : n \in sp[m]}

\* depends_on: n can be reached from m along the entries of nodes not removed.
DependentsOf(n, s, sp) ==
    {m \in Alive(s) \ {n} :
        \A C \in SUBSET Node :
            (sp[m] \subseteq C /\ \A x \in C \cap Alive(s) : sp[x] \subseteq C) => n \in C}

BudgetLeft_oneMore(n) == repairs[n] <= Budget   \* (a careless edition)
BudgetLeft(n) == repairs[n] < Budget
Held(n, s, rep) == s[n] = "NodeRecovery" /\ rep[n] >= Budget

VersionsCurrent(v) ==
    /\ courseChecked \in {v, NoVersion}
    /\ \A n \in Alive(st) : checkedAt[n] = v

AllApproved(s) == \A n \in Alive(s) : s[n] = "NodeApproved"

\* differs_from_live once the content has changed: only a fork can be the same
\* as what learners read now.
MayDiffer == IF Forked THEN BOOLEAN ELSE {TRUE}

-----------------------------------------------------------------------------
(* What every step ends with                                                *)

\* (a careless edition: a node out of retries stops nothing)
React_unheld(r, s, rep, d) ==
    IF r # "ContentInProgress" THEN r
    ELSE IF \E n \in Node : s[n] = "BlockedFinal" THEN "BlockedAtNode"
    ELSE IF AllApproved(s) /\ d THEN "ReadyForReview"
    ELSE r

\* The revision's reactions to its nodes, taken from ContentInProgress only
React(r, s, rep, d) ==
    IF r # "ContentInProgress" THEN r
    ELSE IF \E n \in Node : s[n] = "BlockedFinal" \/ Held(n, s, rep) THEN "BlockedAtNode"
    ELSE IF AllApproved(s) /\ d THEN "ReadyForReview"
    ELSE r
\* The revision goes to r and its nodes to s; "back" are the exams sent back to
\* wait for their topics.  What a node keeps for one state only is dropped when
\* it leaves that state.
Becomes(r, s, ops, rep, back, d) ==
    /\ st' = s
    /\ op' = [n \in Node |-> IF s[n] = "NodeRecovery" THEN ops[n] ELSE "none"]
    /\ repairs' = rep
    /\ waiting' = [n \in Node |-> s[n] = "NodeRepair" /\ (waiting[n] \/ n \in back)]
    /\ rev' = React(r, s, rep, d)
    /\ differs' = d
    /\ courseChecked' = IF r = "ContentInProgress" THEN NoVersion ELSE courseChecked

NodeMoves(n, to) == Becomes(rev, [st EXCEPT ![n] = to], op, repairs, {}, differs)
Charged_free(n) == repairs   \* (a careless edition: a retry costs nothing)
Charged(n) == [repairs EXCEPT ![n] = @ + 1]

\* "(dependency changed)" as it reaches the nodes: m takes the row once for each
\* change in reached[m], changes in their order and nodes in theirs.  An approved
\* node is verified again; an exam being written goes back to wait unless its
\* topics stand, asked once per event, when the first change reaches it: the
\* evaluator keeps a verdict until the step is recorded.
Cascade(s, reached, topics) ==
    LET swept == {m \in Node : s[m] = "NodeApproved" /\ reached[m] # {}}
        asked == {m \in Node : s[m] \in {"ContentDrafting", "NodeRecovery"} /\ reached[m] # {}}
        Before(t, m) == \E i \in reached[t] : \A j \in reached[m] : i < j \/ (i = j /\ t < m)
        back == {m \in asked : \E t \in topics[m] : s[t] # "NodeApproved" \/ Before(t, m)}
    IN  [st |-> [m \in Node |-> IF m \in swept THEN "NeedsRevalidation"
                                ELSE IF m \in back THEN "NodeRepair"
                                ELSE s[m]],
         back |-> back]

-----------------------------------------------------------------------------
(* Settling                                                                 *)

\* Node n has an (auto) row to take.
Busy(n) ==
    \/ st[n] \in {"Generated", "NodeChecks"}
    \/ st[n] = "NodeRecovery" /\ op[n] = "landed"
    \/ AtWork /\ \/ st[n] = "NeedsRevalidation"
                 \/ /\ st[n] = "NodeRecovery" /\ BudgetLeft(n)
                    /\ op[n] = "lost" => TopicsStand(n)
                 \/ st[n] = "NodeRepair" /\ TopicsStand(n)
                 \/ st[n] = "NodeRepair" /\ ~waiting[n] /\ ~BudgetLeft(n)

Quiet == IsDraft /\ rev # "WholeCourseChecks" /\ \A n \in Node : ~Busy(n)
Turn(n) == IsDraft /\ Busy(n) /\ \A m \in Node : m < n => ~Busy(m)

ToGuardrail(n) ==
    /\ Turn(n)
    /\ st[n] = "Generated"
    /\ NodeMoves(n, "OutputGuardrail")
    /\ UNCHANGED <<edited, checkedAt, stamps, outline, rules, unseen>>

\* The write landed: the node goes on as if its answer had arrived.
WriteLanded(n) ==
    /\ Turn(n)
    /\ st[n] = "NodeRecovery" /\ op[n] = "landed"
    /\ NodeMoves(n, "Generated")
    /\ UNCHANGED <<edited, checkedAt, stamps, outline, rules, unseen>>

Retry(n) ==
    /\ Turn(n)
    /\ AtWork /\ st[n] = "NodeRecovery" /\ BudgetLeft(n)
    /\ \/ op[n] = "lost" /\ TopicsStand(n)
          /\ Becomes(rev, [st EXCEPT ![n] = "ContentDrafting"], op, Charged(n), {}, differs)
       \/ op[n] = "screening"
          /\ Becomes(rev, [st EXCEPT ![n] = "OutputGuardrail"], op, Charged(n), {}, differs)
    /\ UNCHANGED <<edited, checkedAt, stamps, outline, rules, unseen>>

ChecksPass(n) ==
    /\ Turn(n)
    /\ st[n] = "NodeChecks"
    /\ NodeMoves(n, "Validated")
    /\ checkedAt' = [checkedAt EXCEPT ![n] = current]
    /\ unseen' = [unseen EXCEPT ![n] = {}]
    /\ UNCHANGED <<edited, stamps, outline, rules>>

\* CheckFailed: OPA's refusal is final, any other check's is repaired.
ChecksFail(n) ==
    /\ Turn(n)
    /\ st[n] = "NodeChecks"
    /\ \E to \in {"BlockedFinal", "NodeRepair"} : NodeMoves(n, to)
    /\ UNCHANGED <<edited, checkedAt, stamps, outline, rules, unseen>>

\* A repair is a retry; an exam that waited for its topics failed nothing.
Repair(n) ==
    /\ Turn(n)
    /\ AtWork /\ st[n] = "NodeRepair" /\ TopicsStand(n)
    /\ waiting[n] \/ BudgetLeft(n)
    /\ Becomes(rev, [st EXCEPT ![n] = "ContentDrafting"], op,
               IF waiting[n] THEN repairs ELSE Charged(n), {}, differs)
    /\ UNCHANGED <<edited, checkedAt, stamps, outline, rules, unseen>>

\* course -> BlockedRecoverable: the node stays and its revision stops.
RepairsSpent(n) ==
    /\ Turn(n)
    /\ AtWork /\ st[n] = "NodeRepair" /\ ~waiting[n] /\ ~BudgetLeft(n)
    /\ Becomes("BlockedAtNode", st, op, repairs, {}, differs)
    /\ UNCHANGED <<edited, checkedAt, stamps, outline, rules, unseen>>

\* What a person wrote, and what was screened under replaced rules, is screened
\* again; the rest is only checked again.
Revalidate(n) ==
    /\ Turn(n)
    /\ AtWork /\ st[n] = "NeedsRevalidation"
    /\ NodeMoves(n, IF edited[n] \/ checkedAt[n] # current THEN "OutputGuardrail" ELSE "NodeChecks")
    /\ UNCHANGED <<edited, checkedAt, stamps, outline, rules, unseen>>

WholeCourseChecked ==
    /\ rev = "WholeCourseChecks" /\ \A n \in Node : ~Busy(n)
    /\ \/ /\ rev' = "PendingApproval"
          /\ courseChecked' = current
          /\ UNCHANGED <<st, op, repairs, waiting, differs>>
       \/ Becomes("ContentInProgress", st, op, repairs, {}, differs)      \* CheckFailed
    /\ UNCHANGED <<edited, checkedAt, stamps, outline, rules, unseen>>

-----------------------------------------------------------------------------
(* A node's events                                                          *)

NodeGenerationRequested(n) ==
    /\ Quiet
    /\ AtWork /\ st[n] = "Planned" /\ TopicsStand(n)
    /\ NodeMoves(n, "ContentDrafting")
    /\ UNCHANGED <<edited, checkedAt, stamps, outline, rules, unseen>>

\* What "hit" rested on is no longer what its checks read.
Overlooked(hit, n) == [m \in Node |-> IF m \in hit THEN unseen[m] \cup {n} ELSE unseen[m]]

\* New content of n: its dependents are verified again, whoever wrote it.
Replaces(r, n, to, hit) ==
    LET c == Cascade([st EXCEPT ![n] = to],
                     [m \in Node |-> IF m \in hit THEN {n} ELSE {}],
                     TopicsIn(spec, committed)) IN
        /\ \E d \in MayDiffer : Becomes(r, c.st, op, repairs, c.back, d)
        /\ unseen' = Overlooked(DependentsOf(n, st, spec), n)

\* (a careless edition: only a person's edit reaches the dependents)
NodeGenerated_quietly(n) ==
    /\ Quiet
    /\ AtWork /\ st[n] = "ContentDrafting" /\ TopicsStand(n)
    /\ edited' = [edited EXCEPT ![n] = FALSE]
    /\ Replaces(rev, n, "Generated", {})
    /\ UNCHANGED <<checkedAt, stamps, outline, rules>>

NodeGenerated(n) ==
    /\ Quiet
    /\ AtWork /\ st[n] = "ContentDrafting" /\ TopicsStand(n)
    /\ edited' = [edited EXCEPT ![n] = FALSE]
    /\ Replaces(rev, n, "Generated", DependentsOf(n, st, spec))
    /\ UNCHANGED <<checkedAt, stamps, outline, rules>>

\* (a careless edition: a revision past its whole-course checks is left there)
Reopened_ready == IF rev = "ReadyForReview" THEN "ContentInProgress" ELSE rev
\* An edit also takes a revision under review back to work, whichever node it
\* names.
Reopened == IF rev \in InReview THEN "ContentInProgress" ELSE rev

NodeEdited(n) ==
    /\ Quiet
    /\ st[n] # "Absent"
    /\ rev \in InReview \/ st[n] = "NodeApproved"
    /\ edited' = [edited EXCEPT ![n] = TRUE]
    /\ Replaces(Reopened, n,
                IF st[n] = "NodeApproved" THEN "NeedsRevalidation" ELSE st[n],
                DependentsOf(n, st, spec))
    /\ UNCHANGED <<checkedAt, stamps, outline, rules>>

\* Timeout, ModelError, ServiceUnreachable: the answer did not come.
Timeout(n) ==
    /\ Quiet
    /\ \/ st[n] = "ContentDrafting"
          /\ \E o \in {"lost", "landed"} :
                Becomes(rev, [st EXCEPT ![n] = "NodeRecovery"], [op EXCEPT ![n] = o], repairs, {}, differs)
       \/ st[n] = "OutputGuardrail"
          /\ Becomes(rev, [st EXCEPT ![n] = "NodeRecovery"], [op EXCEPT ![n] = "screening"],
                     repairs, {}, differs)
    /\ UNCHANGED <<edited, checkedAt, stamps, outline, rules, unseen>>

\* allow, or deny
GuardrailVerdict(n) ==
    /\ Quiet
    /\ AtWork /\ st[n] = "OutputGuardrail"
    /\ \E to \in {"NodeChecks", "NodeRepair"} : NodeMoves(n, to)
    /\ UNCHANGED <<edited, checkedAt, stamps, outline, rules, unseen>>

NodeApproved(n) ==
    /\ Quiet
    /\ st[n] = "Validated" /\ TopicsStand(n)
    /\ Becomes(rev, [st EXCEPT ![n] = "NodeApproved"], op, [repairs EXCEPT ![n] = 0], {}, differs)
    /\ UNCHANGED <<edited, checkedAt, stamps, outline, rules, unseen>>

NodeRejected(n) ==
    /\ Quiet
    /\ st[n] = "Validated"
    /\ NodeMoves(n, "NodeRepair")
    /\ UNCHANGED <<edited, checkedAt, stamps, outline, rules, unseen>>

-----------------------------------------------------------------------------
(* A configuration change                                                   *)

\* (a careless edition: only what was approved is looked at)
Outdated_approved(to) == {n \in Node : st[n] = "NodeApproved" /\ checkedAt[n] # to}
\* The checked nodes that were not checked under the version coming into force
Outdated(to) == {n \in Node : st[n] \in {"NodeApproved", "Validated"} /\ checkedAt[n] # to}

\* (a careless edition: a course already checked as a whole is left alone)
Overtaken_ready(to) == rev = "ReadyForReview" /\ ~VersionsCurrent(to)
Overtaken(to) == rev \in InReview /\ ~VersionsCurrent(to)

ConfigChanged(to) ==
    /\ Quiet
    /\ changes < MaxChanges
    /\ changes' = changes + 1
    /\ current' = to
    /\ Becomes(IF Overtaken(to) THEN "ContentInProgress" ELSE rev,
               [n \in Node |-> IF n \in Outdated(to) THEN "NeedsRevalidation" ELSE st[n]],
               op, repairs, {}, differs)
    /\ UNCHANGED <<edited, checkedAt, stamps, outline, unseen>>

-----------------------------------------------------------------------------
(* The outline, once content exists                                         *)

\* OutlineRevised, and the checks it settles into: the proposal goes to review,
\* is refused for good by OPA, or fails another check, which stops a revision
\* that has nodes until somebody revises the outline again.
OutlineRevised ==
    /\ Quiet
    /\ rev \in {"ContentInProgress", "OutlineReview"} \cup Blocked
    /\ rev' \in {"OutlineReview", "BlockedAtOutline", "BlockedFinal"}
    /\ UNCHANGED <<courseChecked, stamps, differs, nodes, outline, rules, unseen>>

OutlineRejected ==
    /\ Quiet
    /\ rev = "OutlineReview"
    /\ Becomes("ContentInProgress", st, op, repairs, {}, differs)
    /\ UNCHANGED <<edited, checkedAt, stamps, outline, rules, unseen>>

Known == {n \in Node : st[n] # "Absent"}

\* The nodes of "out" leave one by one, each followed by its cascade: the
\* dependents of n are sought among the nodes that have not left before it.
Leaving(n, out, s) == [m \in Node |-> IF m \in out /\ m <= n THEN "Removed" ELSE s[m]]

\* The changes an outline makes, as they reach each node: the removals in their
\* order, then all the dependencies it gained.
Reached(s, out, sp, gained) ==
    [m \in Node |->
        {n \in out : m \in DependentsOf(n, Leaving(n, out, s), sp)}
        \cup {n \in {MaxNode + 1} : gained[m] # {} /\ m \in Alive(s) \ out}]

\* OutlineApproved commits the proposal o.  Nodes it adds join as Planned, after
\* those already there; nodes it drops are removed if a reason is given; nodes
\* it gives a dependency they did not have take "(dependency changed)" for it.
OutlineApproved(o, reason) ==
    LET sp == [n \in Node |-> IF n \in DOMAIN o THEN o[n] ELSE spec[n]]
        topics == TopicsIn(sp, DOMAIN o)
        joined == [n \in Node |-> IF n \in DOMAIN o \ Known THEN "Planned" ELSE st[n]]
        out == IF reason THEN Alive(st) \ DOMAIN o ELSE {}
        gained == [n \in Node |-> ((sp[n] \ spec[n]) \cap (Known \cup DOMAIN o)) \ {n}]
        c == Cascade(Leaving(MaxNode, out, joined), Reached(joined, out, sp, gained), topics)
    IN  /\ Quiet
        /\ rev = "OutlineReview"
        /\ \A n \in DOMAIN o \ Known : \A m \in Known : m < n
        /\ committed' = DOMAIN o
        /\ spec' = sp
        /\ \E d \in MayDiffer : Becomes("ContentInProgress", c.st, op, repairs, c.back, d)
        /\ unseen' = [m \in Node |-> unseen[m] \cup gained[m]
                                     \cup {n \in out : m \in DependentsOf(n, Leaving(MaxNode, out, joined), sp)}]
        /\ UNCHANGED <<edited, checkedAt, stamps, rules>>

-----------------------------------------------------------------------------
(* A person clears a block                                                  *)

\* Rows out of a node that spent its retries, by the state they lead to
Released(named) ==
    LET spent == {n \in named : ~BudgetLeft(n)}
        drafting == {n \in spent : /\ TopicsStand(n)
                                   /\ \/ st[n] = "NodeRepair"
                                      \/ st[n] = "NodeRecovery" /\ op[n] # "screening"}
        screening == {n \in spent : st[n] = "NodeRecovery" /\ op[n] = "screening"}
        patient == {n \in spent : st[n] = "NodeRepair" /\ ~waiting[n] /\ ~TopicsStand(n)}
    IN  [drafting |-> drafting, screening |-> screening, all |-> drafting \cup screening \cup patient]

\* The event names one node, or is about every node of the revision.
BlockedInputFixed(named) ==
    /\ Quiet
    /\ rev = "BlockedAtNode"
    /\ LET go == Released(named) IN
        Becomes("ContentInProgress",
                [n \in Node |-> IF n \in go.drafting THEN "ContentDrafting"
                                ELSE IF n \in go.screening THEN "OutputGuardrail"
                                ELSE st[n]],
                op, [n \in Node |-> IF n \in go.all THEN 0 ELSE repairs[n]], {}, differs)
    /\ UNCHANGED <<edited, checkedAt, stamps, outline, rules, unseen>>

-----------------------------------------------------------------------------
(* Review and publication                                                   *)

RevisionMoves(to) ==
    /\ rev' = to
    /\ UNCHANGED <<differs, nodes, outline, rules, unseen>>

CourseChecksRequested ==
    /\ Quiet
    /\ rev = "ReadyForReview"
    /\ RevisionMoves("WholeCourseChecks")
    /\ UNCHANGED <<courseChecked, stamps>>

ApprovalGranted ==
    /\ Quiet
    /\ rev = "PendingApproval"
    /\ RevisionMoves("Approved")
    /\ stamps' = courseChecked
    /\ UNCHANGED courseChecked

\* ApprovalRejected, ReturnedToWork
BackToWork ==
    /\ Quiet
    /\ rev \in {"PendingApproval", "Approved"}
    /\ Becomes("ContentInProgress", st, op, repairs, {}, differs)
    /\ UNCHANGED <<edited, checkedAt, stamps, outline, rules, unseen>>

PublishRequested ==
    /\ Quiet
    /\ rev = "Approved"
    /\ AllApproved(st) /\ VersionsCurrent(current) /\ differs
    /\ RevisionMoves("Published")
    /\ UNCHANGED <<courseChecked, stamps>>

DraftDiscarded ==
    /\ Quiet
    /\ RevisionMoves("Archived")
    /\ UNCHANGED <<courseChecked, stamps>>

\* What learners read changes under a fork: the pointer moves to another
\* revision, which is announced to every revision, or the live one is withdrawn.
LiveChanges ==
    /\ Quiet
    /\ Forked
    /\ \/ \E d \in BOOLEAN : Becomes(rev, st, op, repairs, {}, d)
       \/ differs' = TRUE /\ UNCHANGED <<rev, courseChecked, st, op, repairs, waiting>>
    /\ UNCHANGED <<edited, checkedAt, stamps, outline, rules, unseen>>

-----------------------------------------------------------------------------

NodeSettles(n) ==
    \/ ToGuardrail(n) \/ WriteLanded(n) \/ Retry(n) \/ ChecksPass(n) \/ ChecksFail(n)
    \/ Repair(n) \/ RepairsSpent(n) \/ Revalidate(n)

NodeEvent(n) ==
    \/ NodeGenerationRequested(n) \/ NodeGenerated(n) \/ NodeEdited(n) \/ Timeout(n)
    \/ GuardrailVerdict(n) \/ NodeApproved(n) \/ NodeRejected(n)

CourseEvent ==
    \/ CourseChecksRequested \/ ApprovalGranted \/ BackToWork \/ PublishRequested
    \/ DraftDiscarded \/ LiveChanges \/ OutlineRevised \/ OutlineRejected

Next ==
    \/ \E n \in Node : NodeSettles(n) \/ NodeEvent(n)
    \/ WholeCourseChecked
    \/ CourseEvent
    \/ \E to \in Versions : ConfigChanged(to)
    \/ \E o \in Outlines, reason \in BOOLEAN : OutlineApproved(o, reason)
    \/ \E named \in {Known} \cup {{n} : n \in Known} : BlockedInputFixed(named)

Spec == Init /\ [][Next]_vars

-----------------------------------------------------------------------------
(* Properties                                                               *)

\* What a reviewer is shown is finished: from the moment a draft is put up for
\* review until it is published, every node is approved, and was checked under
\* the rules in force; so was the whole when an approval is asked, and the
\* approval is stamped with them (while they review; a published revision under
\* later rules is Publication's).
ReviewedWhole ==
    /\ rev \in InReview \cup {"Published"} =>
        \A n \in Alive(st) : st[n] = "NodeApproved" /\ checkedAt[n] = current
    /\ rev \in {"PendingApproval", "Approved", "Published"} => courseChecked = current
    /\ rev \in {"Approved", "Published"} => stamps = current

\* A node with no move left is visible one level up: the revision does not go
\* on calling itself at work (model/invariants.yaml, I14).
HeldIsVisible == \A n \in Node : Held(n, st, repairs) => ~AtWork

\* Whatever may be approved, or was, has been checked under the rules in force.
CheckedUnderRules ==
    IsDraft => \A n \in Node : st[n] \in {"Validated", "NodeApproved"} => checkedAt[n] = current

\* A topic does not lose its approval while an exam that goes on testing it keeps
\* its own.  The one exception the code makes: an outline that gives the topic a
\* dependency has the topic verified again, and only the topic.
LoseApprovalTogether ==
    [][\A e \in Exams : \A t \in spec[e] \cap spec'[e] \cap committed :
        (st[e] = "NodeApproved" /\ st[t] = "NodeApproved" /\ st'[e] = "NodeApproved") =>
            st'[t] = "NodeApproved" \/ spec'[t] \ spec[t] # {}]_vars

\* Approval does not survive the ground moving: a node something it rests on,
\* directly or through others, was replaced, removed or gained under is not
\* approved after that step.
NoApprovalSurvives ==
    [][\A n \in Node : unseen'[n] \ unseen[n] # {} => st'[n] # "NodeApproved"]_vars

-----------------------------------------------------------------------------
(* The draft as Publication sees it                                         *)

Stage == IF rev \in {"PendingApproval", "Approved"} \cup Closed THEN rev ELSE "Drafting"
ByKind(v) == [k \in {"guardrail"} |-> v]

Line == INSTANCE Publication WITH
    MaxRevision <- 1, Kinds <- {"guardrail"}, BareVerdicts <- FALSE,
    state <- [r \in {1} |-> Stage],
    last <- 1,
    published <- IF rev = "Published" THEN {1} ELSE {},
    awaiting <- IF rev = "Published" THEN {1} ELSE {},
    live <- 0,
    current <- ByKind(current),
    stamps <- [r \in {1} |-> ByKind(stamps)],
    checked <- [r \in {1} |-> ByKind(IF courseChecked = NoVersion THEN FirstVersion ELSE courseChecked)],
    via <- [r \in {1} |-> "none"],
    repairs <- [r \in {1} |-> 0],
    memo <- [r \in {1} |-> [verdict |-> "none", version |-> FirstVersion]],
    port <- FALSE,
    served <- {}, overdue <- {}, asked <- {}

\* A first draft takes no step the publication line does not know: whatever its
\* nodes do, it goes to approval, back to work, to publication and off the line
\* as Publication says, and carries the versions Publication says it carries.
FollowsLine == Line!Init /\ [][Line!Next]_(Line!vars)

-----------------------------------------------------------------------------
\* What the sources say of this, and the code does not hold:

\* Replacing a node's content has its dependents verified again
\* (machine/machine.py:41): nothing approved rests on content its own checks
\* never met.
DependentsVerifiedAgain == \A n \in Node : st[n] = "NodeApproved" => unseen[n] = {}

\* A person who clears the cause frees a node that spent its retries
\* (model/transitions.yaml:885), even when its topics are not approved.
ReleaseFrees ==
    [][\A n \in Node : (Held(n, st, repairs) /\ BlockedInputFixed(Node)) => ~Held(n, st', repairs')]_vars

\* No node the approved skeleton calls for stays deleted
\* (model/invariants.yaml, I5).
SkeletonIsWritten == rev \in InReview => \A n \in committed : st[n] # "Removed"

=============================================================================
