-------------------------- MODULE CourseDraftProofs --------------------------
(***************************************************************************)
(* Proofs about module CourseDraft, for every value of its constants: the   *)
(* invariants its runs check are inductive together, and the two action     *)
(* properties about lost approval follow, and so does the refinement of the  *)
(* publication line.                                                       *)
(*                                                                         *)
(* Every action ends in Becomes, so its two effects, the types it keeps and *)
(* the reactions it takes, are proved once.  Then one lemma per action says *)
(* why no node counts as checked that was not, and why the revision is not  *)
(* under review with such a node.                                           *)
(***************************************************************************)
EXTENDS CourseDraft, TLAPS

DraftInv == TypeOK /\ HeldIsVisible /\ CheckedUnderRules /\ ReviewedWhole

\* A node in one of these states stands on what its checks found.
Judged == {"Validated", "NodeApproved"}

-----------------------------------------------------------------------------
(* What every step ends with                                                *)

\* Whatever is handed to Becomes, the draft keeps its types and a node out of
\* retries has stopped its revision.
LEMMA BecomesTyped ==
    ASSUME TypeOK, NEW r \in RevisionStates, NEW s \in [Node -> NodeStates],
           NEW ops \in [Node -> Operations], NEW rep \in [Node -> 0..Budget],
           NEW back, NEW d \in BOOLEAN, Becomes(r, s, ops, rep, back, d)
    PROVE  /\ rev' \in RevisionStates
           /\ st' \in [Node -> NodeStates]
           /\ op' \in [Node -> Operations]
           /\ repairs' \in [Node -> 0..Budget]
           /\ waiting' \in [Node -> BOOLEAN]
           /\ courseChecked' \in Versions \cup {NoVersion}
           /\ differs' \in BOOLEAN
           /\ HeldIsVisible'
<1>1. rev' \in RevisionStates
  BY DEF Becomes, React, RevisionStates, Blocked, InReview
<1>2. st' \in [Node -> NodeStates] /\ repairs' \in [Node -> 0..Budget] /\ differs' \in BOOLEAN
  BY DEF Becomes
<1>3. op' \in [Node -> Operations]
  BY DEF Becomes, Operations
<1>4. waiting' \in [Node -> BOOLEAN]
  BY DEF Becomes
<1>5. courseChecked' \in Versions \cup {NoVersion}
  BY DEF Becomes, TypeOK
<1>6. HeldIsVisible'
  BY DEF Becomes, React, HeldIsVisible, AtWork
<1> QED BY <1>1, <1>2, <1>3, <1>4, <1>5, <1>6

\* A step that judges no node and leaves the rules alone keeps judgements true.
LEMMA NothingNewJudged ==
    ASSUME TypeOK, CheckedUnderRules, IsDraft,
           \A n \in Node : st'[n] \in Judged => st[n] \in Judged,
           checkedAt' = checkedAt, current' = current
    PROVE  CheckedUnderRules'
BY DEF CheckedUnderRules, Judged

\* A revision that is handed to Becomes under review has all it needs for it.
StaysReviewed(r, s) ==
    /\ r \in InReview => \A n \in Alive(s) : s[n] = "NodeApproved"
    /\ r \in {"PendingApproval", "Approved"} => courseChecked = current'
    /\ r = "Approved" => stamps' = current'

\* A draft enters review only from work and only with every node approved.
LEMMA BecomesReviewed ==
    ASSUME NEW r \in RevisionStates \ Closed, NEW s, NEW ops, NEW rep, NEW back, NEW d,
           Becomes(r, s, ops, rep, back, d), CheckedUnderRules',
           StaysReviewed(r, s)
    PROVE  ReviewedWhole'
<1>1. rev' \notin Closed
  BY DEF Becomes, React, Closed, RevisionStates, Blocked, InReview
<1>2. ASSUME rev' \in InReview PROVE \A n \in Alive(s) : s[n] = "NodeApproved"
  BY <1>2 DEF Becomes, React, InReview, AllApproved, StaysReviewed
<1>3. rev' \in {"PendingApproval", "Approved"} => rev' = r /\ courseChecked' = courseChecked
  BY DEF Becomes, React
<1>4. \A n \in Alive(st)' : rev' \in InReview => st'[n] = "NodeApproved" /\ checkedAt'[n] = current'
  BY <1>1, <1>2 DEF Becomes, CheckedUnderRules, IsDraft, Alive
<1> QED
  BY <1>1, <1>3, <1>4 DEF ReviewedWhole, StaysReviewed, Closed

\* The types of what Becomes leaves to the rest of the step
OtherTypes ==
    /\ edited \in [Node -> BOOLEAN]
    /\ checkedAt \in [Node -> Versions \cup {NoVersion}]
    /\ committed \subseteq Node
    /\ spec \in [Node -> SUBSET Node]
    /\ current \in Versions
    /\ stamps \in Versions
    /\ changes \in 0..MaxChanges
    /\ unseen \in [Node -> SUBSET Node]

\* A step through Becomes keeps the invariant if it judges no node falsely and
\* does not stay under review with a node that is not approved.
LEMMA BecomesStep ==
    ASSUME TypeOK, NEW r \in RevisionStates \ Closed, NEW s \in [Node -> NodeStates],
           NEW ops \in [Node -> Operations], NEW rep \in [Node -> 0..Budget],
           NEW back, NEW d \in BOOLEAN, Becomes(r, s, ops, rep, back, d),
           OtherTypes', CheckedUnderRules',
           StaysReviewed(r, s)
    PROVE  DraftInv'
<1>1. /\ rev' \in RevisionStates
      /\ st' \in [Node -> NodeStates]
      /\ op' \in [Node -> Operations]
      /\ repairs' \in [Node -> 0..Budget]
      /\ waiting' \in [Node -> BOOLEAN]
      /\ courseChecked' \in Versions \cup {NoVersion}
      /\ differs' \in BOOLEAN
      /\ HeldIsVisible'
  BY BecomesTyped
<1>2. ReviewedWhole'
  BY BecomesReviewed
<1> QED BY <1>1, <1>2 DEF DraftInv, TypeOK, OtherTypes

\* The common case: no node comes to be judged, the rules stand, and the
\* revision is not under review.
LEMMA UnjudgedStep ==
    ASSUME DraftInv, IsDraft, NEW r \in RevisionStates \ (Closed \cup InReview),
           NEW s \in [Node -> NodeStates], NEW ops \in [Node -> Operations],
           NEW rep \in [Node -> 0..Budget], NEW back, NEW d \in BOOLEAN,
           Becomes(r, s, ops, rep, back, d), OtherTypes',
           \A n \in Node : s[n] \in Judged => st[n] \in Judged,
           UNCHANGED <<checkedAt, rules>>
    PROVE  DraftInv'
<1>1. CheckedUnderRules'
  BY NothingNewJudged DEF DraftInv, Becomes, rules
<1>2. StaysReviewed(r, s)
  BY DEF StaysReviewed, InReview
<1> QED BY <1>1, <1>2, BecomesStep DEF DraftInv

\* A node that is not approved is not in a revision under review.
LEMMA UnderReview ==
    ASSUME DraftInv, IsDraft, NEW n \in Node, st[n] \notin {"Absent", "Removed", "NodeApproved"}
    PROVE  rev \in RevisionStates \ (Closed \cup InReview)
BY DEF DraftInv, TypeOK, IsDraft, ReviewedWhole, Alive

\* Nothing that a node's own move leaves alone loses its type.
LEMMA OtherTypesKept ==
    ASSUME DraftInv, UNCHANGED <<edited, checkedAt, stamps, outline, rules, unseen>>
    PROVE  OtherTypes'
BY DEF DraftInv, TypeOK, OtherTypes, outline, rules

-----------------------------------------------------------------------------
(* One node moves                                                           *)

\* A node that is not approved moves to a state its checks did not give it.
LEMMA OneNodeStep ==
    ASSUME DraftInv, IsDraft, NEW n \in Node, NEW to \in NodeStates \ Judged,
           st[n] \notin {"Absent", "Removed", "NodeApproved"},
           NEW ops \in [Node -> Operations], NEW rep \in [Node -> 0..Budget],
           Becomes(rev, [st EXCEPT ![n] = to], ops, rep, {}, differs),
           UNCHANGED <<edited, checkedAt, stamps, outline, rules, unseen>>
    PROVE  DraftInv'
<1> DEFINE s == [st EXCEPT ![n] = to]
<1>1. s \in [Node -> NodeStates] /\ differs \in BOOLEAN
  BY DEF DraftInv, TypeOK
<1>2. \A m \in Node : s[m] \in Judged => st[m] \in Judged
  BY DEF DraftInv, TypeOK
<1>3. rev \in RevisionStates \ (Closed \cup InReview)
  BY UnderReview
<1>4. OtherTypes'
  BY OtherTypesKept
<1>5. Becomes(rev, s, ops, rep, {}, differs)
  OBVIOUS
<1> HIDE DEF s
<1> QED BY <1>1, <1>2, <1>3, <1>4, <1>5, UnjudgedStep

\* A charged retry was within the budget.
LEMMA ChargedTyped ==
    ASSUME TypeOK, NEW n \in Node, BudgetLeft(n)
    PROVE  Charged(n) \in [Node -> 0..Budget]
BY BudgetAssumption DEF TypeOK, Charged, BudgetLeft

\* Every (auto) row of a node but the one its checks pass through
LEMMA SettlesStep ==
    ASSUME DraftInv, NEW n \in Node,
           \/ ToGuardrail(n) \/ WriteLanded(n) \/ Retry(n) \/ ChecksFail(n)
           \/ Repair(n) \/ Revalidate(n)
    PROVE  DraftInv'
<1>0. op \in [Node -> Operations] /\ repairs \in [Node -> 0..Budget]
  BY DEF DraftInv, TypeOK
<1>1. CASE ToGuardrail(n)
  BY <1>0, <1>1, OneNodeStep DEF ToGuardrail, Turn, NodeMoves, NodeStates, Judged
<1>2. CASE WriteLanded(n)
  BY <1>0, <1>2, OneNodeStep DEF WriteLanded, Turn, NodeMoves, NodeStates, Judged
<1>3. CASE Retry(n)
  <2>1. Charged(n) \in [Node -> 0..Budget]
    BY <1>3, ChargedTyped DEF DraftInv, Retry
  <2> QED
    BY <1>0, <1>3, <2>1, OneNodeStep DEF Retry, Turn, NodeStates, Judged
<1>4. CASE ChecksFail(n)
  BY <1>0, <1>4, OneNodeStep DEF ChecksFail, Turn, NodeMoves, NodeStates, Judged
<1>5. CASE Repair(n)
  <2>1. (IF waiting[n] THEN repairs ELSE Charged(n)) \in [Node -> 0..Budget]
    BY <1>0, <1>5, ChargedTyped DEF DraftInv, Repair
  <2> QED
    BY <1>0, <1>5, <2>1, OneNodeStep DEF Repair, Turn, NodeStates, Judged
<1>6. CASE Revalidate(n)
  BY <1>0, <1>6, OneNodeStep DEF Revalidate, Turn, NodeMoves, NodeStates, Judged
<1> QED BY <1>1, <1>2, <1>3, <1>4, <1>5, <1>6

\* A node's events that change nothing but itself
LEMMA NodeMovesStep ==
    ASSUME DraftInv, NEW n \in Node,
           \/ NodeGenerationRequested(n) \/ Timeout(n) \/ GuardrailVerdict(n) \/ NodeRejected(n)
    PROVE  DraftInv'
<1>0. op \in [Node -> Operations] /\ repairs \in [Node -> 0..Budget]
  BY DEF DraftInv, TypeOK
<1>1. CASE NodeGenerationRequested(n)
  BY <1>0, <1>1, OneNodeStep DEF NodeGenerationRequested, Quiet, NodeMoves, NodeStates, Judged
<1>2. CASE Timeout(n)
  <2>1. \A o \in Operations : [op EXCEPT ![n] = o] \in [Node -> Operations]
    BY <1>0
  <2>2. {"lost", "landed", "screening"} \subseteq Operations
    BY DEF Operations
  <2> QED
    BY <1>0, <1>2, <2>1, <2>2, OneNodeStep DEF Timeout, Quiet, NodeStates, Judged
<1>3. CASE GuardrailVerdict(n)
  BY <1>0, <1>3, OneNodeStep DEF GuardrailVerdict, Quiet, NodeMoves, NodeStates, Judged
<1>4. CASE NodeRejected(n)
  BY <1>0, <1>4, OneNodeStep DEF NodeRejected, Quiet, NodeMoves, NodeStates, Judged
<1> QED BY <1>1, <1>2, <1>3, <1>4

\* The checks pass: the node is judged under the rules in force.
LEMMA ChecksPassStep ==
    ASSUME DraftInv, NEW n \in Node, ChecksPass(n)
    PROVE  DraftInv'
<1> DEFINE s == [st EXCEPT ![n] = "Validated"]
<1>1. /\ TypeOK /\ IsDraft /\ st[n] = "NodeChecks"
      /\ Becomes(rev, s, op, repairs, {}, differs)
      /\ checkedAt' = [checkedAt EXCEPT ![n] = current]
      /\ UNCHANGED <<edited, stamps, outline, rules>>
      /\ unseen' = [unseen EXCEPT ![n] = {}]
  BY DEF DraftInv, ChecksPass, Turn, NodeMoves
<1>2. /\ s \in [Node -> NodeStates] /\ differs \in BOOLEAN
      /\ op \in [Node -> Operations] /\ repairs \in [Node -> 0..Budget]
  BY <1>1 DEF TypeOK, NodeStates
<1>3. rev \in RevisionStates \ (Closed \cup InReview)
  BY <1>1, UnderReview
<1>4. OtherTypes'
  BY <1>1 DEF TypeOK, OtherTypes, outline, rules
<1>5. CheckedUnderRules'
  BY <1>1 DEF DraftInv, TypeOK, CheckedUnderRules, Becomes, rules
<1>6. StaysReviewed(rev, s)
  BY <1>3 DEF StaysReviewed, InReview
<1> HIDE DEF s
<1> QED BY <1>1, <1>2, <1>3, <1>4, <1>5, <1>6, BecomesStep

\* An approval stands on the checks that led to it.
LEMMA NodeApprovedStep ==
    ASSUME DraftInv, NEW n \in Node, NodeApproved(n)
    PROVE  DraftInv'
<1> DEFINE s == [st EXCEPT ![n] = "NodeApproved"]
           rep == [repairs EXCEPT ![n] = 0]
<1>1. /\ TypeOK /\ IsDraft /\ st[n] = "Validated"
      /\ Becomes(rev, s, op, rep, {}, differs)
      /\ UNCHANGED <<edited, checkedAt, stamps, outline, rules, unseen>>
  BY DEF DraftInv, NodeApproved, Quiet
<1>2. /\ s \in [Node -> NodeStates] /\ differs \in BOOLEAN
      /\ op \in [Node -> Operations] /\ rep \in [Node -> 0..Budget]
  BY <1>1, BudgetAssumption DEF TypeOK, NodeStates
<1>3. rev \in RevisionStates \ (Closed \cup InReview)
  BY <1>1, UnderReview
<1>4. OtherTypes'
  BY <1>1, OtherTypesKept
<1>5. \A m \in Node : s[m] \in Judged => st[m] \in Judged
  BY <1>1 DEF TypeOK, Judged
<1>6. UNCHANGED <<checkedAt, rules>>
  BY <1>1
<1> HIDE DEF s, rep
<1> QED BY <1>1, <1>2, <1>3, <1>4, <1>5, <1>6, UnjudgedStep

-----------------------------------------------------------------------------
(* What a change reaches                                                    *)

\* A cascade judges nobody: it sends nodes back or leaves them.
LEMMA CascadeShape ==
    ASSUME NEW s \in [Node -> NodeStates], NEW reached, NEW topics
    PROVE  /\ Cascade(s, reached, topics).st \in [Node -> NodeStates]
           /\ \A n \in Node : Cascade(s, reached, topics).st[n] \in Judged =>
                  s[n] = Cascade(s, reached, topics).st[n]
BY DEF Cascade, NodeStates, Judged

\* Content replaced in a draft at work: n goes to a state without judgement.
LEMMA ReplacesStep ==
    ASSUME DraftInv, IsDraft, NEW n \in Node, NEW to \in NodeStates, NEW hit,
           NEW r \in RevisionStates \ (Closed \cup InReview),
           to \in Judged => st[n] \in Judged, Replaces(r, n, to, hit),
           edited' \in [Node -> BOOLEAN], UNCHANGED <<checkedAt, stamps, outline, rules>>
    PROVE  DraftInv'
<1> DEFINE c == Cascade([st EXCEPT ![n] = to], [m \in Node |-> IF m \in hit THEN {n} ELSE {}],
                        TopicsIn(spec, committed))
<1>1. PICK d \in MayDiffer : Becomes(r, c.st, op, repairs, c.back, d)
  BY DEF Replaces
<1>2. d \in BOOLEAN
  BY DEF MayDiffer
<1>3. [st EXCEPT ![n] = to] \in [Node -> NodeStates]
  BY DEF DraftInv, TypeOK
<1>4. /\ c.st \in [Node -> NodeStates]
      /\ \A m \in Node : c.st[m] \in Judged => [st EXCEPT ![n] = to][m] = c.st[m]
  BY <1>3, CascadeShape
<1>5. \A m \in Node : c.st[m] \in Judged => st[m] \in Judged
  BY <1>4 DEF DraftInv, TypeOK
<1>6. OtherTypes'
  BY DEF DraftInv, TypeOK, OtherTypes, outline, rules, Replaces, Overlooked
<1>7. op \in [Node -> Operations] /\ repairs \in [Node -> 0..Budget]
  BY DEF DraftInv, TypeOK
<1> HIDE DEF c
<1> QED BY <1>1, <1>2, <1>4, <1>5, <1>6, <1>7, UnjudgedStep

\* A model's answer replaces the content of a node being written.
LEMMA NodeGeneratedStep ==
    ASSUME DraftInv, NEW n \in Node, NodeGenerated(n)
    PROVE  DraftInv'
<1>1. IsDraft /\ st[n] = "ContentDrafting" /\ edited' \in [Node -> BOOLEAN]
  BY DEF DraftInv, TypeOK, NodeGenerated, Quiet
<1>2. rev \in RevisionStates \ (Closed \cup InReview)
  BY <1>1, UnderReview
<1>3. "Generated" \in NodeStates \ Judged
  BY DEF NodeStates, Judged
<1>4. Replaces(rev, n, "Generated", DependentsOf(n, st, spec))
      /\ UNCHANGED <<checkedAt, stamps, outline, rules>>
  BY DEF NodeGenerated
<1> QED BY <1>1, <1>2, <1>3, <1>4, ReplacesStep

\* An edit takes the revision out of review whichever node it names.
LEMMA NodeEditedStep ==
    ASSUME DraftInv, NEW n \in Node, NodeEdited(n)
    PROVE  DraftInv'
<1> DEFINE to == IF st[n] = "NodeApproved" THEN "NeedsRevalidation" ELSE st[n]
<1>1. IsDraft /\ edited' \in [Node -> BOOLEAN]
  BY DEF DraftInv, TypeOK, NodeEdited, Quiet
<1>2. Reopened \in RevisionStates \ (Closed \cup InReview)
  BY <1>1 DEF DraftInv, TypeOK, IsDraft, Reopened, RevisionStates, InReview, Closed
<1>3. to \in NodeStates /\ (to \in Judged => st[n] \in Judged)
  BY DEF DraftInv, TypeOK, NodeStates, Judged
<1>4. Replaces(Reopened, n, to, DependentsOf(n, st, spec))
      /\ UNCHANGED <<checkedAt, stamps, outline, rules>>
  BY DEF NodeEdited
<1> HIDE DEF to
<1> QED BY <1>1, <1>2, <1>3, <1>4, ReplacesStep

\* A change of rules unjudges what was not checked under the new ones, and a
\* revision that stays under review had every node checked under them.
LEMMA ConfigChangedStep ==
    ASSUME DraftInv, NEW v \in Versions, ConfigChanged(v)
    PROVE  DraftInv'
<1> DEFINE r == IF Overtaken(v) THEN "ContentInProgress" ELSE rev
           s == [n \in Node |-> IF n \in Outdated(v) THEN "NeedsRevalidation" ELSE st[n]]
<1>1. /\ TypeOK /\ IsDraft /\ Becomes(r, s, op, repairs, {}, differs)
      /\ changes < MaxChanges /\ changes' = changes + 1 /\ current' = v
      /\ UNCHANGED <<edited, checkedAt, stamps, outline, unseen>>
  BY DEF DraftInv, ConfigChanged, Quiet
<1>2. /\ s \in [Node -> NodeStates] /\ differs \in BOOLEAN
      /\ op \in [Node -> Operations] /\ repairs \in [Node -> 0..Budget]
  BY <1>1 DEF TypeOK, NodeStates
<1>3. r \in RevisionStates \ Closed
  BY <1>1 DEF TypeOK, IsDraft, RevisionStates, Closed
<1>4. OtherTypes'
  BY <1>1, MaxChangesAssumption DEF TypeOK, OtherTypes, outline
<1>5. CheckedUnderRules'
  BY <1>1 DEF TypeOK, CheckedUnderRules, Outdated, Becomes
<1>6. ASSUME r \in InReview PROVE \A n \in Alive(s) : s[n] = "NodeApproved"
  <2>1. rev \in InReview /\ VersionsCurrent(v)
    BY <1>6 DEF Overtaken, InReview
  <2>2. \A n \in Alive(s) : n \in Alive(st)
    BY DEF Alive, Outdated
  <2>3. \A n \in Alive(st) : st[n] = "NodeApproved" /\ checkedAt[n] = v
    BY <2>1 DEF DraftInv, ReviewedWhole, VersionsCurrent
  <2>4. Alive(s) \subseteq Node
    BY DEF Alive
  <2> QED BY <2>2, <2>3, <2>4 DEF Outdated
<1>7. ASSUME r \in InReview PROVE courseChecked \in {v, NoVersion}
  BY <1>7 DEF Overtaken, VersionsCurrent, InReview
<1>8. StaysReviewed(r, s)
  <2>1. r \in InReview => rev = r
    BY DEF InReview
  <2>2. current \in Versions /\ NoVersion \notin Versions
    BY <1>1, VersionsAssumption DEF TypeOK
  <2> HIDE DEF r, s
  <2> QED BY <1>1, <1>6, <1>7, <2>1, <2>2 DEF StaysReviewed, InReview, DraftInv, ReviewedWhole
<1> HIDE DEF r, s
<1> QED BY <1>1, <1>2, <1>3, <1>4, <1>5, <1>8, BecomesStep

-----------------------------------------------------------------------------
(* The outline                                                              *)

\* What an approved outline commits is an outline: its nodes and their entries.
LEMMA OutlineTyped ==
    ASSUME NEW o \in Outlines
    PROVE  DOMAIN o \subseteq Node /\ \A n \in DOMAIN o : o[n] \subseteq Node
<1>1. PICK N \in SUBSET Node : o \in [N -> SUBSET Node]
  BY OutlinesAssumption DEF Outline
<1> QED BY <1>1

\* The outline's own review moves no node, and the draft is not under review.
LEMMA OutlineReviewStep ==
    ASSUME DraftInv, OutlineRevised \/ OutlineRejected
    PROVE  DraftInv'
<1>1. CASE OutlineRevised
  <2>1. /\ rev' \in {"OutlineReview", "BlockedAtOutline", "BlockedFinal"}
        /\ UNCHANGED <<courseChecked, stamps, differs, nodes, outline, rules, unseen>> /\ IsDraft
    BY <1>1 DEF OutlineRevised, Quiet
  <2>2. TypeOK'
    BY <2>1 DEF DraftInv, TypeOK, nodes, outline, rules, RevisionStates, Blocked, Closed
  <2>3. HeldIsVisible' /\ ReviewedWhole'
    BY <2>1 DEF HeldIsVisible, AtWork, ReviewedWhole, InReview
  <2>4. CheckedUnderRules'
    BY <2>1, NothingNewJudged DEF DraftInv, nodes, rules
  <2> QED BY <2>2, <2>3, <2>4 DEF DraftInv
<1>2. CASE OutlineRejected
  <2>1. /\ IsDraft /\ Becomes("ContentInProgress", st, op, repairs, {}, differs)
        /\ UNCHANGED <<edited, checkedAt, stamps, outline, rules, unseen>>
    BY <1>2 DEF OutlineRejected, Quiet
  <2>2. "ContentInProgress" \in RevisionStates \ (Closed \cup InReview)
    BY DEF RevisionStates, Closed, InReview
  <2>3. /\ st \in [Node -> NodeStates] /\ differs \in BOOLEAN
        /\ op \in [Node -> Operations] /\ repairs \in [Node -> 0..Budget]
    BY DEF DraftInv, TypeOK
  <2>4. OtherTypes'
    BY <2>1, OtherTypesKept
  <2> QED BY <2>1, <2>2, <2>3, <2>4, UnjudgedStep
<1> QED BY <1>1, <1>2

\* An approved outline plans, removes and sends back: it judges no node.
LEMMA OutlineApprovedStep ==
    ASSUME DraftInv, NEW o \in Outlines, NEW reason \in BOOLEAN, OutlineApproved(o, reason)
    PROVE  DraftInv'
<1> DEFINE sp == [n \in Node |-> IF n \in DOMAIN o THEN o[n] ELSE spec[n]]
           joined == [n \in Node |-> IF n \in DOMAIN o \ Known THEN "Planned" ELSE st[n]]
           out == IF reason THEN Alive(st) \ DOMAIN o ELSE {}
           gained == [n \in Node |-> ((sp[n] \ spec[n]) \cap (Known \cup DOMAIN o)) \ {n}]
           left == Leaving(MaxNode, out, joined)
           reached == Reached(joined, out, sp, gained)
           topics == TopicsIn(sp, DOMAIN o)
           c == Cascade(left, reached, topics)
<1>1. DOMAIN o \subseteq Node /\ sp \in [Node -> SUBSET Node]
  BY OutlineTyped DEF DraftInv, TypeOK
<1>2. left \in [Node -> NodeStates] /\ \A n \in Node : left[n] \in Judged => left[n] = st[n]
  BY DEF DraftInv, TypeOK, Leaving, NodeStates, Judged
<1>3. PICK d \in MayDiffer : Becomes("ContentInProgress", c.st, op, repairs, c.back, d)
  BY DEF OutlineApproved
<1>4. /\ IsDraft /\ committed' = DOMAIN o /\ spec' = sp
      /\ UNCHANGED <<edited, checkedAt, stamps, rules>>
  BY DEF OutlineApproved, Quiet
<1>5. unseen' \in [Node -> SUBSET Node]
  <2>1. unseen' = [m \in Node |-> unseen[m] \cup gained[m]
                                  \cup {n \in out : m \in DependentsOf(n, left, sp)}]
    BY DEF OutlineApproved
  <2>2. out \subseteq Node /\ \A m \in Node : gained[m] \subseteq Node
    BY <1>1 DEF Alive
  <2> HIDE DEF out, gained, left, sp
  <2> QED BY <2>1, <2>2 DEF DraftInv, TypeOK
<1>6. OtherTypes'
  BY <1>1, <1>4, <1>5 DEF DraftInv, TypeOK, OtherTypes, rules
<1>7. /\ c.st \in [Node -> NodeStates]
      /\ \A n \in Node : c.st[n] \in Judged => left[n] = c.st[n]
  <2> HIDE DEF left, reached, topics
  <2> QED BY <1>2, CascadeShape
<1>8. \A n \in Node : c.st[n] \in Judged => st[n] \in Judged
  <2> HIDE DEF left, c
  <2> QED BY <1>2, <1>7 DEF Judged
<1>9. "ContentInProgress" \in RevisionStates \ (Closed \cup InReview) /\ d \in BOOLEAN
  BY DEF RevisionStates, Closed, InReview, MayDiffer
<1>10. op \in [Node -> Operations] /\ repairs \in [Node -> 0..Budget]
  BY DEF DraftInv, TypeOK
<1> HIDE DEF c
<1> QED BY <1>3, <1>4, <1>6, <1>7, <1>8, <1>9, <1>10, UnjudgedStep

-----------------------------------------------------------------------------
(* Blocks, review and publication                                           *)

\* A node whose repairs are spent stops its revision and stays where it is.
LEMMA RepairsSpentStep ==
    ASSUME DraftInv, NEW n \in Node, RepairsSpent(n)
    PROVE  DraftInv'
<1>1. /\ IsDraft /\ Becomes("BlockedAtNode", st, op, repairs, {}, differs)
      /\ UNCHANGED <<edited, checkedAt, stamps, outline, rules, unseen>>
  BY DEF RepairsSpent, Turn
<1>2. "BlockedAtNode" \in RevisionStates \ (Closed \cup InReview)
  BY DEF RevisionStates, Blocked, Closed, InReview
<1>3. /\ st \in [Node -> NodeStates] /\ differs \in BOOLEAN
      /\ op \in [Node -> Operations] /\ repairs \in [Node -> 0..Budget]
  BY DEF DraftInv, TypeOK
<1>4. OtherTypes'
  BY <1>1, OtherTypesKept
<1> QED BY <1>1, <1>2, <1>3, <1>4, UnjudgedStep

\* A release starts nodes over: none of them is judged by it.
LEMMA BlockedInputFixedStep ==
    ASSUME DraftInv, NEW named \in SUBSET Node, BlockedInputFixed(named)
    PROVE  DraftInv'
<1> DEFINE go == Released(named)
           s == [n \in Node |-> IF n \in go.drafting THEN "ContentDrafting"
                                ELSE IF n \in go.screening THEN "OutputGuardrail"
                                ELSE st[n]]
           rep == [n \in Node |-> IF n \in go.all THEN 0 ELSE repairs[n]]
<1>1. /\ IsDraft /\ Becomes("ContentInProgress", s, op, rep, {}, differs)
      /\ UNCHANGED <<edited, checkedAt, stamps, outline, rules, unseen>>
  BY DEF BlockedInputFixed, Quiet
<1>2. "ContentInProgress" \in RevisionStates \ (Closed \cup InReview)
  BY DEF RevisionStates, Closed, InReview
<1> HIDE DEF go
<1>3. /\ s \in [Node -> NodeStates] /\ differs \in BOOLEAN
      /\ op \in [Node -> Operations] /\ rep \in [Node -> 0..Budget]
  BY BudgetAssumption DEF DraftInv, TypeOK, NodeStates
<1>4. \A n \in Node : s[n] \in Judged => st[n] \in Judged
  BY DEF Judged
<1>5. OtherTypes'
  BY <1>1, OtherTypesKept
<1>6. UNCHANGED <<checkedAt, rules>>
  BY <1>1
<1> HIDE DEF s, rep
<1> QED BY <1>1, <1>2, <1>3, <1>4, <1>5, <1>6, UnjudgedStep

\* The revision alone moves: on to review only from review, never to work.
LEMMA RevisionMovesStep ==
    ASSUME DraftInv, IsDraft, NEW to \in RevisionStates \ {"ContentInProgress"},
           to \in InReview \cup {"Published"} => rev \in InReview,
           to \in {"PendingApproval", "Approved", "Published"} => courseChecked' = current,
           to \in {"Approved", "Published"} => stamps' = current,
           rev' = to, stamps' \in Versions, courseChecked' \in Versions \cup {NoVersion},
           UNCHANGED <<differs, nodes, outline, rules, unseen>>
    PROVE  DraftInv'
<1>1. TypeOK'
  BY DEF DraftInv, TypeOK, nodes, outline, rules
<1>2. HeldIsVisible' /\ CheckedUnderRules'
  BY NothingNewJudged DEF DraftInv, HeldIsVisible, AtWork, nodes, rules
<1>3. ReviewedWhole'
  BY DEF DraftInv, ReviewedWhole, Alive, nodes, rules
<1> QED BY <1>1, <1>2, <1>3 DEF DraftInv

\* The revision goes back to work with its nodes as they are.
LEMMA BackStep ==
    ASSUME DraftInv, IsDraft, Becomes("ContentInProgress", st, op, repairs, {}, differs),
           UNCHANGED <<edited, checkedAt, stamps, outline, rules, unseen>>
    PROVE  DraftInv'
<1>1. "ContentInProgress" \in RevisionStates \ (Closed \cup InReview)
  BY DEF RevisionStates, Closed, InReview
<1>2. /\ st \in [Node -> NodeStates] /\ differs \in BOOLEAN
      /\ op \in [Node -> Operations] /\ repairs \in [Node -> 0..Budget]
  BY DEF DraftInv, TypeOK
<1>3. OtherTypes'
  BY OtherTypesKept
<1> QED BY <1>1, <1>2, <1>3, UnjudgedStep

\* The whole-course checks pass or send the revision back.
LEMMA WholeCourseCheckedStep ==
    ASSUME DraftInv, WholeCourseChecked
    PROVE  DraftInv'
<1>0. rev = "WholeCourseChecks" /\ IsDraft
  BY DEF WholeCourseChecked, IsDraft, Closed
<1>1. CASE rev' = "PendingApproval" /\ courseChecked' = current
           /\ UNCHANGED <<st, op, repairs, waiting, differs>>
  <2>1. UNCHANGED <<differs, nodes, outline, rules, unseen>> /\ stamps' = stamps
    BY <1>1 DEF WholeCourseChecked, nodes
  <2>2. "PendingApproval" \in RevisionStates \ {"ContentInProgress"} /\ rev \in InReview
    BY <1>0 DEF RevisionStates, InReview
  <2>3. stamps' \in Versions /\ courseChecked' \in Versions \cup {NoVersion}
    BY <1>1, <2>1 DEF DraftInv, TypeOK
  <2> QED BY <1>0, <1>1, <2>1, <2>2, <2>3, RevisionMovesStep
<1>2. CASE Becomes("ContentInProgress", st, op, repairs, {}, differs)
  BY <1>0, <1>2, BackStep DEF WholeCourseChecked
<1> QED BY <1>1, <1>2 DEF WholeCourseChecked

\* The events of the review, up to publication or the end of the draft
LEMMA ReviewEventStep ==
    ASSUME DraftInv, \/ CourseChecksRequested \/ ApprovalGranted \/ BackToWork
                     \/ PublishRequested \/ DraftDiscarded
    PROVE  DraftInv'
<1>0. stamps \in Versions /\ courseChecked \in Versions \cup {NoVersion}
  BY DEF DraftInv, TypeOK
<1>1. CASE CourseChecksRequested
  BY <1>0, <1>1, RevisionMovesStep
  DEF CourseChecksRequested, RevisionMoves, Quiet, RevisionStates, InReview
<1>2. CASE ApprovalGranted
  <2>1. courseChecked = current /\ current \in Versions
    BY <1>2 DEF DraftInv, TypeOK, ReviewedWhole, ApprovalGranted
  <2> QED
    BY <1>0, <1>2, <2>1, RevisionMovesStep
    DEF ApprovalGranted, RevisionMoves, Quiet, RevisionStates, InReview
<1>3. CASE BackToWork
  BY <1>3, BackStep DEF BackToWork, Quiet
<1>4. CASE PublishRequested
  BY <1>0, <1>4, RevisionMovesStep
  DEF PublishRequested, RevisionMoves, Quiet, RevisionStates, InReview, Closed, DraftInv, ReviewedWhole
<1>5. CASE DraftDiscarded
  BY <1>0, <1>5, RevisionMovesStep
  DEF DraftDiscarded, RevisionMoves, Quiet, RevisionStates, InReview, Closed
<1> QED BY <1>1, <1>2, <1>3, <1>4, <1>5

\* What learners read may change: the draft can only come to differ or not.
LEMMA LiveChangesStep ==
    ASSUME DraftInv, LiveChanges
    PROVE  DraftInv'
<1>0. /\ IsDraft /\ UNCHANGED <<edited, checkedAt, stamps, outline, rules, unseen>>
  BY DEF LiveChanges, Quiet
<1>1. CASE \E d \in BOOLEAN : Becomes(rev, st, op, repairs, {}, d)
  <2>1. PICK d \in BOOLEAN : Becomes(rev, st, op, repairs, {}, d)
    BY <1>1
  <2>2. /\ TypeOK /\ rev \in RevisionStates \ Closed /\ st \in [Node -> NodeStates]
        /\ op \in [Node -> Operations] /\ repairs \in [Node -> 0..Budget]
    BY <1>0 DEF DraftInv, TypeOK, IsDraft
  <2>3. CheckedUnderRules'
    BY <1>0, <2>1, NothingNewJudged DEF DraftInv, Becomes, rules
  <2>4. StaysReviewed(rev, st)
    BY <1>0 DEF DraftInv, StaysReviewed, ReviewedWhole, Alive, rules
  <2>5. OtherTypes'
    BY <1>0, OtherTypesKept
  <2> QED BY <2>1, <2>2, <2>3, <2>4, <2>5, BecomesStep
<1>2. CASE differs' = TRUE /\ UNCHANGED <<rev, courseChecked, st, op, repairs, waiting>>
  <2>1. TypeOK'
    BY <1>0, <1>2 DEF DraftInv, TypeOK, outline, rules
  <2>2. HeldIsVisible' /\ CheckedUnderRules' /\ ReviewedWhole'
    BY <1>0, <1>2
    DEF DraftInv, HeldIsVisible, AtWork, CheckedUnderRules, IsDraft, ReviewedWhole, Alive, rules
  <2> QED BY <2>1, <2>2 DEF DraftInv
<1> QED BY <1>1, <1>2 DEF LiveChanges

-----------------------------------------------------------------------------
(* The invariant                                                            *)

\* A first draft starts unjudged; a fork keeps the approvals the rules in force
\* stand behind.
LEMMA InitDraftInv == Init => DraftInv
<1> SUFFICES ASSUME Init PROVE DraftInv
  OBVIOUS
<1>0. DOMAIN FirstOutline \subseteq Node /\ \A n \in DOMAIN FirstOutline : FirstOutline[n] \subseteq Node
  <2>1. PICK N \in SUBSET Node : FirstOutline \in [N -> SUBSET Node]
    BY OutlinesAssumption DEF Outline
  <2> QED BY <2>1
<1>1. TypeOK
  <2>1. st \in [Node -> NodeStates] /\ op \in [Node -> Operations]
    BY DEF Init, NodeStates, Operations
  <2>2. committed \subseteq Node /\ spec \in [Node -> SUBSET Node]
    BY <1>0 DEF Init
  <2>3. repairs \in [Node -> 0..Budget] /\ changes \in 0..MaxChanges
    BY BudgetAssumption, MaxChangesAssumption DEF Init
  <2>4. /\ rev \in RevisionStates /\ current \in Versions /\ stamps \in Versions
        /\ courseChecked \in Versions \cup {NoVersion} /\ differs \in BOOLEAN
    BY VersionsAssumption DEF Init, RevisionStates
  <2>5. /\ waiting \in [Node -> BOOLEAN] /\ edited \in [Node -> BOOLEAN]
        /\ checkedAt \in [Node -> Versions \cup {NoVersion}]
        /\ unseen \in [Node -> SUBSET Node]
    BY DEF Init
  <2> QED BY <2>1, <2>2, <2>3, <2>4, <2>5 DEF TypeOK
<1>2. HeldIsVisible
  BY DEF Init, HeldIsVisible, Held
<1>3. CheckedUnderRules
  BY DEF Init, CheckedUnderRules
<1>4. ReviewedWhole
  BY DEF Init, ReviewedWhole, InReview
<1> QED BY <1>1, <1>2, <1>3, <1>4 DEF DraftInv

\* Every step keeps the invariant.
LEMMA NextDraftInv ==
    ASSUME DraftInv, [Next]_vars
    PROVE  DraftInv'
<1>1. CASE \E n \in Node : NodeSettles(n)
  <2>1. PICK n \in Node : NodeSettles(n)
    BY <1>1
  <2> QED BY <2>1, SettlesStep, ChecksPassStep, RepairsSpentStep DEF NodeSettles
<1>2. CASE \E n \in Node : NodeEvent(n)
  <2>1. PICK n \in Node : NodeEvent(n)
    BY <1>2
  <2> QED
    BY <2>1, NodeMovesStep, NodeGeneratedStep, NodeEditedStep, NodeApprovedStep DEF NodeEvent
<1>3. CASE WholeCourseChecked
  BY <1>3, WholeCourseCheckedStep
<1>4. CASE CourseEvent
  BY <1>4, ReviewEventStep, LiveChangesStep, OutlineReviewStep DEF CourseEvent
<1>5. CASE \E v \in Versions : ConfigChanged(v)
  BY <1>5, ConfigChangedStep
<1>6. CASE \E o \in Outlines, reason \in BOOLEAN : OutlineApproved(o, reason)
  BY <1>6, OutlineApprovedStep
<1>7. CASE \E named \in {Known} \cup {{n} : n \in Known} : BlockedInputFixed(named)
  <2>1. PICK named \in {Known} \cup {{n} : n \in Known} : BlockedInputFixed(named)
    BY <1>7
  <2>2. named \in SUBSET Node
    BY DEF Known
  <2> QED BY <2>1, <2>2, BlockedInputFixedStep
<1>8. CASE UNCHANGED vars
  BY <1>8 DEF vars, course, nodes, outline, rules, DraftInv, TypeOK, HeldIsVisible, Held, AtWork,
      CheckedUnderRules, IsDraft, ReviewedWhole, Alive
<1> QED BY <1>1, <1>2, <1>3, <1>4, <1>5, <1>6, <1>7, <1>8 DEF Next

\* In every reachable state the draft's four invariants hold together, whatever
\* the outlines, the versions and the budget.
THEOREM DraftInvariant == Spec => []DraftInv
BY InitDraftInv, NextDraftInv, PTL DEF Spec

\* Every variable keeps its type; no retry exceeds the budget.
THEOREM DraftTypeCorrect == Spec => []TypeOK
<1>1. DraftInv => TypeOK
  BY DEF DraftInv
<1> QED BY <1>1, DraftInvariant, PTL

\* What is under review, or published, is approved and was checked under the
\* rules in force, node by node and as a whole (machine/store_guards.py,
\* _versions_current).
THEOREM ReviewIsWhole == Spec => []ReviewedWhole
<1>1. DraftInv => ReviewedWhole
  BY DEF DraftInv
<1> QED BY <1>1, DraftInvariant, PTL

\* A node out of retries has stopped its revision (machine/settling.py, _react).
THEOREM HeldVisible == Spec => []HeldIsVisible
<1>1. DraftInv => HeldIsVisible
  BY DEF DraftInv
<1> QED BY <1>1, DraftInvariant, PTL

\* What is validated or approved in a draft was checked under the rules in force.
THEOREM ChecksAreCurrent == Spec => []CheckedUnderRules
<1>1. DraftInv => CheckedUnderRules
  BY DEF DraftInv
<1> QED BY <1>1, DraftInvariant, PTL

-----------------------------------------------------------------------------
(* How approval is lost                                                     *)

\* What a cascade reaches is not approved after it, what it does not reach stays.
LEMMA CascadeSweeps ==
    ASSUME NEW s \in [Node -> NodeStates], NEW reached, NEW topics, NEW n \in Node
    PROVE  /\ reached[n] # {} => Cascade(s, reached, topics).st[n] # "NodeApproved"
           /\ reached[n] = {} => Cascade(s, reached, topics).st[n] = s[n]
           /\ s[n] # "NodeApproved" => Cascade(s, reached, topics).st[n] # "NodeApproved"
BY DEF Cascade, NodeStates

\* Dependencies are found directly, and through one another.
LEMMA DependsDirectly ==
    ASSUME NEW s, NEW sp, NEW m \in Alive(s), NEW n \in sp[m], m # n
    PROVE  m \in DependentsOf(n, s, sp)
BY DEF DependentsOf

LEMMA DependsThrough ==
    ASSUME NEW s, NEW sp, NEW m \in Alive(s), NEW n, m # n,
           NEW t \in sp[m], t \in DependentsOf(n, s, sp)
    PROVE  m \in DependentsOf(n, s, sp)
<1> SUFFICES ASSUME NEW C \in SUBSET Node, sp[m] \subseteq C,
                    \A x \in C \cap Alive(s) : sp[x] \subseteq C
             PROVE n \in C
  BY DEF DependentsOf
<1>1. t \in C \cap Alive(s)
  BY DEF DependentsOf
<1> QED BY <1>1 DEF DependentsOf

\* With fewer nodes left there are fewer dependents.
LEMMA DependsMonotone ==
    ASSUME NEW s, NEW left, Alive(left) \subseteq Alive(s), NEW sp, NEW n,
           NEW m \in DependentsOf(n, left, sp)
    PROVE  m \in DependentsOf(n, s, sp)
<1>1. m \in Alive(s) \ {n}
  BY DEF DependentsOf
<1> SUFFICES ASSUME NEW C \in SUBSET Node, sp[m] \subseteq C,
                    \A x \in C \cap Alive(s) : sp[x] \subseteq C
             PROVE n \in C
  BY <1>1 DEF DependentsOf
<1>2. \A x \in C \cap Alive(left) : sp[x] \subseteq C
  OBVIOUS
<1> QED BY <1>2 DEF DependentsOf

\* The steps that can take an approval away, and the steps that add to "unseen":
\* everything else leaves both alone.
ApprovalsStand ==
    /\ \A n \in Node : st[n] = "NodeApproved" => st'[n] = "NodeApproved"
    /\ \A n \in Node : unseen'[n] \subseteq unseen[n]

LEMMA OneNodeElsewhere ==
    ASSUME TypeOK, NEW n \in Node, st[n] # "NodeApproved", NEW to, NEW r, NEW ops, NEW rep, NEW back, NEW d,
           Becomes(r, [st EXCEPT ![n] = to], ops, rep, back, d), unseen' = unseen
    PROVE  ApprovalsStand
BY DEF ApprovalsStand, Becomes, TypeOK

LEMMA SettlingKeepsApprovals ==
    ASSUME TypeOK, NEW n \in Node, NodeSettles(n)
    PROVE  ApprovalsStand
<1>1. CASE ToGuardrail(n) \/ WriteLanded(n)
  BY <1>1, OneNodeElsewhere DEF ToGuardrail, WriteLanded, NodeMoves
<1>2. CASE Retry(n)
  BY <1>2, OneNodeElsewhere DEF Retry
<1>3. CASE ChecksFail(n)
  BY <1>3, OneNodeElsewhere DEF ChecksFail, NodeMoves
<1>4. CASE Repair(n)
  BY <1>4, OneNodeElsewhere DEF Repair
<1>5. CASE Revalidate(n)
  BY <1>5, OneNodeElsewhere DEF Revalidate, NodeMoves
<1>6. CASE ChecksPass(n)
  BY <1>6 DEF ApprovalsStand, ChecksPass, NodeMoves, Becomes, TypeOK
<1>7. CASE RepairsSpent(n)
  BY <1>7 DEF ApprovalsStand, RepairsSpent, Becomes
<1> QED BY <1>1, <1>2, <1>3, <1>4, <1>5, <1>6, <1>7 DEF NodeSettles

LEMMA NodeEventsKeepApprovals ==
    ASSUME TypeOK, NEW n \in Node,
           \/ NodeGenerationRequested(n) \/ Timeout(n) \/ GuardrailVerdict(n)
           \/ NodeApproved(n) \/ NodeRejected(n)
    PROVE  ApprovalsStand
<1>1. CASE NodeGenerationRequested(n)
  BY <1>1, OneNodeElsewhere DEF NodeGenerationRequested, NodeMoves
<1>2. CASE Timeout(n)
  BY <1>2, OneNodeElsewhere DEF Timeout
<1>3. CASE GuardrailVerdict(n)
  BY <1>3, OneNodeElsewhere DEF GuardrailVerdict, NodeMoves
<1>4. CASE NodeApproved(n)
  BY <1>4, OneNodeElsewhere DEF NodeApproved
<1>5. CASE NodeRejected(n)
  BY <1>5, OneNodeElsewhere DEF NodeRejected, NodeMoves
<1> QED BY <1>1, <1>2, <1>3, <1>4, <1>5

LEMMA CourseKeepsApprovals ==
    ASSUME TypeOK, \/ WholeCourseChecked \/ CourseEvent \/ UNCHANGED vars
                   \/ \E named \in {Known} \cup {{n} : n \in Known} : BlockedInputFixed(named)
    PROVE  ApprovalsStand
<1>1. CASE WholeCourseChecked
  BY <1>1 DEF ApprovalsStand, WholeCourseChecked, Becomes
<1>2. CASE CourseEvent
  BY <1>2 DEF ApprovalsStand, CourseEvent, CourseChecksRequested, ApprovalGranted, BackToWork,
      PublishRequested, DraftDiscarded, LiveChanges, OutlineRevised, OutlineRejected,
      RevisionMoves, Becomes, nodes
<1>3. CASE UNCHANGED vars
  BY <1>3 DEF ApprovalsStand, vars, nodes
<1>4. CASE \E named \in {Known} \cup {{n} : n \in Known} : BlockedInputFixed(named)
  <2>1. PICK named \in {Known} \cup {{n} : n \in Known} : BlockedInputFixed(named)
    BY <1>4
  <2>2. \A n \in Released(named).drafting \cup Released(named).screening : st[n] # "NodeApproved"
    BY DEF Released
  <2> QED BY <2>1, <2>2 DEF ApprovalsStand, BlockedInputFixed, Becomes
<1> QED BY <1>1, <1>2, <1>3, <1>4

\* A node and the exam that tests it: no step takes the approval of t alone.
KeptTogether(e, t) ==
    (st[e] = "NodeApproved" /\ st[t] = "NodeApproved" /\ st'[e] = "NodeApproved") =>
        st'[t] = "NodeApproved" \/ spec'[t] \ spec[t] # {}

\* The ground that moved under n left it without approval.
Unsettled(n) == unseen'[n] \ unseen[n] # {} => st'[n] # "NodeApproved"

\* Replaced content reaches every dependent, and theirs.
LEMMA ReplacesSweeps ==
    ASSUME TypeOK, NEW n \in Node, NEW to \in NodeStates \ {"NodeApproved"}, NEW r,
           Replaces(r, n, to, DependentsOf(n, st, spec))
    PROVE  /\ \A m \in Node : Unsettled(m)
           /\ \A e \in Exams : \A t \in spec[e] : KeptTogether(e, t)
<1> DEFINE hit == DependentsOf(n, st, spec)
           s == [st EXCEPT ![n] = to]
           reached == [m \in Node |-> IF m \in hit THEN {n} ELSE {}]
           topics == TopicsIn(spec, committed)
           c == Cascade(s, reached, topics)
<1>1. s \in [Node -> NodeStates]
  BY DEF TypeOK
<1>2. st' = c.st
  BY DEF Replaces, Becomes
<1>3. \A m \in Node : /\ m \in hit => c.st[m] # "NodeApproved"
                      /\ m \notin hit => c.st[m] = s[m]
                      /\ s[m] # "NodeApproved" => c.st[m] # "NodeApproved"
  <2> TAKE m \in Node
  <2>1. /\ reached[m] # {} => c.st[m] # "NodeApproved"
        /\ reached[m] = {} => c.st[m] = s[m]
        /\ s[m] # "NodeApproved" => c.st[m] # "NodeApproved"
    <3> HIDE DEF s, reached, topics
    <3> QED BY <1>1, CascadeSweeps
  <2>2. (reached[m] # {}) <=> m \in hit
    <3> HIDE DEF hit
    <3> QED OBVIOUS
  <2> QED BY <2>1, <2>2
<1>4. \A m \in Node : Unsettled(m)
  <2>1. \A m \in Node : unseen'[m] # unseen[m] => m \in hit
    BY DEF Replaces, Overlooked
  <2> HIDE DEF c, hit
  <2> QED BY <1>2, <1>3, <2>1 DEF Unsettled
<1>5. ASSUME NEW e \in Exams, NEW t \in spec[e], st[e] = "NodeApproved", st[t] = "NodeApproved",
             st'[e] = "NodeApproved"
      PROVE  st'[t] = "NodeApproved"
  <2>1. e \in Node /\ t \in Node /\ e \in Alive(st) /\ t \in Alive(st)
    BY <1>5, ExamsAssumption DEF TypeOK, Alive
  <2>2. e # n /\ e \notin hit
    <3>1. e \notin hit /\ s[e] = "NodeApproved"
      <4> HIDE DEF c, s, hit
      <4> QED BY <1>2, <1>3, <1>5, <2>1
    <3> QED BY <2>1, <3>1 DEF TypeOK
  <2>3. t # n
    BY <2>1, <2>2, <1>5, DependsDirectly
  <2>4. t \notin hit
    BY <2>1, <2>2, <1>5, DependsThrough
  <2>5. s[t] = "NodeApproved"
    BY <1>5, <2>1, <2>3 DEF TypeOK
  <2> HIDE DEF c, s, hit
  <2> QED BY <1>2, <1>3, <2>1, <2>4, <2>5
<1> QED BY <1>4, <1>5 DEF KeptTogether

\* A topic outdated by new rules was checked under the same ones as its exam.
LEMMA ConfigChangedSweeps ==
    ASSUME DraftInv, NEW v \in Versions, ConfigChanged(v)
    PROVE  /\ \A m \in Node : Unsettled(m)
           /\ \A e \in Exams : \A t \in spec[e] : KeptTogether(e, t)
<1>1. /\ IsDraft /\ unseen' = unseen
      /\ st' = [n \in Node |-> IF n \in Outdated(v) THEN "NeedsRevalidation" ELSE st[n]]
  BY DEF ConfigChanged, Quiet, Becomes
<1>2. ASSUME NEW e \in Exams, NEW t \in spec[e], st[e] = "NodeApproved", st[t] = "NodeApproved",
             st'[e] = "NodeApproved"
      PROVE  st'[t] = "NodeApproved"
  <2>1. e \in Node /\ t \in Node
    BY ExamsAssumption DEF DraftInv, TypeOK
  <2>2. checkedAt[e] = current /\ checkedAt[t] = current
    BY <1>1, <1>2, <2>1 DEF DraftInv, CheckedUnderRules
  <2> QED BY <1>1, <1>2, <2>1, <2>2 DEF Outdated
<1> QED BY <1>1, <1>2 DEF Unsettled, KeptTogether

\* An approved outline: what it drops, or what takes a dependency, reaches all
\* that rests on it, except that a gain reaches only the node that gained.
LEMMA OutlineApprovedSweeps ==
    ASSUME TypeOK, NEW o \in Outlines, NEW reason \in BOOLEAN, OutlineApproved(o, reason)
    PROVE  /\ \A m \in Node : Unsettled(m)
           /\ \A e \in Exams : \A t \in spec[e] \cap spec'[e] : KeptTogether(e, t)
<1> DEFINE sp == [n \in Node |-> IF n \in DOMAIN o THEN o[n] ELSE spec[n]]
           joined == [n \in Node |-> IF n \in DOMAIN o \ Known THEN "Planned" ELSE st[n]]
           out == IF reason THEN Alive(st) \ DOMAIN o ELSE {}
           gained == [n \in Node |-> ((sp[n] \ spec[n]) \cap (Known \cup DOMAIN o)) \ {n}]
           left == Leaving(MaxNode, out, joined)
           reached == Reached(joined, out, sp, gained)
           topics == TopicsIn(sp, DOMAIN o)
           c == Cascade(left, reached, topics)
<1>1. /\ st' = c.st /\ spec' = sp
      /\ unseen' = [m \in Node |-> unseen[m] \cup gained[m]
                                   \cup {n \in out : m \in DependentsOf(n, left, sp)}]
  BY DEF OutlineApproved, Becomes
<1>2. left \in [Node -> NodeStates]
  BY DEF TypeOK, Leaving, NodeStates
<1>3. \A m \in Node : /\ reached[m] # {} => c.st[m] # "NodeApproved"
                      /\ reached[m] = {} => c.st[m] = left[m]
                      /\ left[m] # "NodeApproved" => c.st[m] # "NodeApproved"
  <2> HIDE DEF left, reached, topics
  <2> QED BY <1>2, CascadeSweeps
<1>4. out \subseteq Node
  BY DEF Alive
<1>5. \A m \in Node : left[m] = "NodeApproved" =>
          m \notin out /\ joined[m] = "NodeApproved" /\ m \in Alive(joined) /\ st[m] = "NodeApproved"
  BY MaxNodeAssumption DEF Leaving, Node, Alive
<1>6. \A m \in Node : \A n \in out : m \in DependentsOf(n, Leaving(n, out, joined), sp) => n \in reached[m]
  <2> HIDE DEF out, joined, sp, gained
  <2> QED BY DEF Reached
<1>7. \A m \in Node : gained[m] # {} /\ m \in Alive(joined) \ out => reached[m] # {}
  <2> HIDE DEF out, joined, sp, gained
  <2> QED BY DEF Reached
<1>8. \A m \in Node : \A n \in reached[m] :
          gained[m] # {} \/ (n \in out /\ m \in DependentsOf(n, Leaving(n, out, joined), sp))
  <2> HIDE DEF out, joined, sp, gained
  <2> QED BY DEF Reached
<1>9. \A n \in out : Alive(left) \subseteq Alive(Leaving(n, out, joined))
  <2> HIDE DEF out, joined
  <2> QED BY <1>4, MaxNodeAssumption DEF Alive, Leaving, Node
<1>10. ASSUME NEW m \in Node, unseen'[m] \ unseen[m] # {}, st'[m] = "NodeApproved"
       PROVE  FALSE
  <2>1. left[m] = "NodeApproved" /\ reached[m] = {}
    <3> HIDE DEF c, left, reached
    <3> QED BY <1>1, <1>3, <1>10
  <2>2. gained[m] = {}
    <3> HIDE DEF out, joined, sp, gained, left, reached
    <3> QED BY <1>5, <1>7, <2>1
  <2>3. PICK n \in out : m \in DependentsOf(n, left, sp)
    <3> HIDE DEF out, joined, sp, gained, left, reached
    <3> QED BY <1>1, <1>10, <2>2
  <2>4. m \in DependentsOf(n, Leaving(n, out, joined), sp)
    <3> HIDE DEF out, joined, sp, gained, left, reached
    <3> QED BY <1>9, <2>3, DependsMonotone
  <2> HIDE DEF out, joined, sp, gained, left, reached
  <2> QED BY <1>6, <2>1, <2>3, <2>4
<1>11. ASSUME NEW e \in Exams, NEW t \in spec[e] \cap spec'[e], st[e] = "NodeApproved",
              st[t] = "NodeApproved", st'[e] = "NodeApproved", st'[t] # "NodeApproved",
              spec'[t] \ spec[t] = {}
       PROVE  FALSE
  <2>1. e \in Node /\ t \in Node /\ t \in sp[e] /\ t # e
    BY <1>1, <1>11, ExamsAssumption DEF TypeOK
  <2>2. left[e] = "NodeApproved" /\ reached[e] = {}
    <3> HIDE DEF c, left, reached
    <3> QED BY <1>1, <1>3, <1>11, <2>1
  <2>3. e \notin out /\ \A n \in Node : e \in Alive(Leaving(n, out, joined))
    <3>1. e \notin out /\ joined[e] = "NodeApproved"
      <4> HIDE DEF out, joined, left, reached
      <4> QED BY <1>5, <2>1, <2>2
    <3> HIDE DEF out, joined
    <3> QED BY <2>1, <3>1 DEF Alive, Leaving
  <2>4. t \notin out
    <3> HIDE DEF out, joined, sp, gained, left, reached
    <3> QED BY <1>4, <1>6, <2>1, <2>2, <2>3, DependsDirectly
  <2>5. left[t] = "NodeApproved"
    <3>1. joined[t] = "NodeApproved"
      BY <1>11, <2>1 DEF Known
    <3> HIDE DEF out, joined
    <3> QED BY <2>1, <2>4, <3>1 DEF Leaving
  <2>6. gained[t] = {}
    BY <1>1, <1>11, <2>1
  <2>7. PICK n \in reached[t] : n \in out /\ t \in DependentsOf(n, Leaving(n, out, joined), sp)
    <3> HIDE DEF c, out, joined, sp, gained, left, reached
    <3> QED BY <1>1, <1>3, <1>8, <1>11, <2>1, <2>5, <2>6
  <2>8. e \in DependentsOf(n, Leaving(n, out, joined), sp)
    <3> HIDE DEF out, joined, sp, gained, left, reached
    <3> QED BY <1>4, <2>1, <2>3, <2>7, DependsThrough
  <2> HIDE DEF out, joined, sp, gained, left, reached
  <2> QED BY <1>6, <2>1, <2>2, <2>7, <2>8
<1> QED BY <1>10, <1>11 DEF Unsettled, KeptTogether

\* Every step, by what it can take approval from
LEMMA NextSweeps ==
    ASSUME DraftInv, [Next]_vars
    PROVE  /\ \A m \in Node : Unsettled(m)
           /\ \A e \in Exams : \A t \in spec[e] \cap spec'[e] \cap committed : KeptTogether(e, t)
<1>0. TypeOK
  BY DEF DraftInv
<1>1. CASE ApprovalsStand
  <2>1. \A e \in Exams : spec[e] \subseteq Node
    BY <1>0, ExamsAssumption DEF TypeOK
  <2> QED BY <1>1, <2>1 DEF ApprovalsStand, Unsettled, KeptTogether
<1>2. CASE \E n \in Node : NodeGenerated(n)
  <2>1. PICK n \in Node : NodeGenerated(n)
    BY <1>2
  <2>2. "Generated" \in NodeStates \ {"NodeApproved"}
    BY DEF NodeStates
  <2> QED BY <1>0, <2>1, <2>2, ReplacesSweeps DEF NodeGenerated
<1>3. CASE \E n \in Node : NodeEdited(n)
  <2>1. PICK n \in Node : NodeEdited(n)
    BY <1>3
  <2>2. (IF st[n] = "NodeApproved" THEN "NeedsRevalidation" ELSE st[n]) \in NodeStates \ {"NodeApproved"}
    BY <1>0 DEF TypeOK, NodeStates
  <2> QED BY <1>0, <2>1, <2>2, ReplacesSweeps DEF NodeEdited
<1>4. CASE \E v \in Versions : ConfigChanged(v)
  BY <1>4, ConfigChangedSweeps
<1>5. CASE \E o \in Outlines, reason \in BOOLEAN : OutlineApproved(o, reason)
  BY <1>0, <1>5, OutlineApprovedSweeps
<1>6. ApprovalsStand \/ (\E n \in Node : NodeGenerated(n) \/ NodeEdited(n))
      \/ (\E v \in Versions : ConfigChanged(v))
      \/ \E o \in Outlines, reason \in BOOLEAN : OutlineApproved(o, reason)
  <2>1. ASSUME NEW n \in Node, NodeEvent(n)
        PROVE  ApprovalsStand \/ NodeGenerated(n) \/ NodeEdited(n)
    BY <1>0, <2>1, NodeEventsKeepApprovals DEF NodeEvent
  <2> QED BY <1>0, <2>1, SettlingKeepsApprovals, CourseKeepsApprovals DEF Next
<1> QED BY <1>1, <1>2, <1>3, <1>4, <1>5, <1>6

\* Whatever the outline, no step leaves approved what rests on a node that the
\* step replaced, removed or gained (machine/settling.py, the dependency rows).
THEOREM GroundMoves == Spec => NoApprovalSurvives
<1>1. DraftInv /\ [Next]_vars =>
          \A n \in Node : unseen'[n] \ unseen[n] # {} => st'[n] # "NodeApproved"
  BY NextSweeps DEF Unsettled
<1> QED BY <1>1, DraftInvariant, PTL DEF Spec, NoApprovalSurvives

\* A topic loses its approval only together with the exams that go on testing
\* it, or by an outline that gives the topic itself something to rest on.
THEOREM ApprovalLostTogether == Spec => LoseApprovalTogether
<1>1. DraftInv /\ [Next]_vars =>
          \A e \in Exams : \A t \in spec[e] \cap spec'[e] \cap committed :
              (st[e] = "NodeApproved" /\ st[t] = "NodeApproved" /\ st'[e] = "NodeApproved") =>
                  st'[t] = "NodeApproved" \/ spec'[t] \ spec[t] # {}
  BY NextSweeps DEF KeptTogether
<1> QED BY <1>1, DraftInvariant, PTL DEF Spec, LoseApprovalTogether

-----------------------------------------------------------------------------
(* The draft as a step of the publication line                              *)

\* The checks of the whole course are forgotten with every return to work, so
\* the line's record of them is the draft's own.
ForgetsChecks == rev \notin {"PendingApproval", "Approved"} \cup Closed => courseChecked = NoVersion
CheckedOnLine == IF courseChecked = NoVersion THEN FirstVersion ELSE courseChecked

LineInv == DraftInv /\ ForgetsChecks

\* What a step through Becomes shows of itself on the line
LEMMA BecomesOnLine ==
    ASSUME ForgetsChecks, IsDraft,
           NEW r, r \in {rev, "ContentInProgress"} \cup Blocked, r # rev => courseChecked = NoVersion \/ r = "ContentInProgress",
           NEW s, NEW ops, NEW rep, NEW back, NEW d, Becomes(r, s, ops, rep, back, d)
    PROVE  /\ ForgetsChecks'
           /\ rev' = rev \/ Stage' = "Drafting"
           /\ rev' = rev => courseChecked' = courseChecked
           /\ rev' # rev => courseChecked' = NoVersion
           /\ rev' \notin Closed
BY DEF Becomes, React, ForgetsChecks, Stage, Closed, IsDraft, Blocked

\* A step of a draft that changes neither its stage nor anything the line
\* records of it is no step of the line.
LEMMA OffLine ==
    ASSUME UNCHANGED <<Stage, current, stamps, CheckedOnLine, rev = "Published", changes>>
    PROVE  [Line!Next]_(Line!vars)
BY DEF Line!vars, Line!storeVars, Line!history, CheckedOnLine, ByKind

\* The line takes events of its one revision while the draft is open.
LEMMA EventOnLine ==
    ASSUME Line!Event(1)
    PROVE  [Line!Next]_(Line!vars)
BY DEF Line!Next, Line!Rev

LEMMA LineIsQuiet ==
    ASSUME IsDraft
    PROVE  Line!Quiet
<1>1. Line!Rev = {1}
  BY DEF Line!Rev
<1>2. Stage \notin {"ErrorRecovery", "StaleReview"} /\ rev # "Published"
  BY DEF IsDraft, Closed, Stage
<1> QED BY <1>1, <1>2 DEF Line!Quiet, Line!Busy

\* Approval withdrawn, or overtaken by an edit, sends the revision back to work.
LEMMA BackOnLine ==
    ASSUME IsDraft, rev \in {"PendingApproval", "Approved"}, Stage' = "Drafting",
           rev' \notin Closed, courseChecked' = NoVersion, UNCHANGED <<current, stamps, changes>>
    PROVE  [Line!Next]_(Line!vars)
<1>1. Line!BackToWork(1)
  BY LineIsQuiet DEF Line!BackToWork, Line!Become, Line!Rev, Line!history, Stage, ByKind, Closed
<1> QED BY <1>1, EventOnLine DEF Line!Event

\* A step through Becomes that leaves the rules alone is a return to work or
\* nothing at all.
LEMMA WorkOnLine ==
    ASSUME LineInv, IsDraft,
           NEW r, r \in {rev, "ContentInProgress"} \cup Blocked,
           r # rev => courseChecked = NoVersion \/ r = "ContentInProgress",
           NEW s, NEW ops, NEW rep, NEW back, NEW d, Becomes(r, s, ops, rep, back, d),
           UNCHANGED <<current, stamps, changes>>
    PROVE  [Line!Next]_(Line!vars) /\ ForgetsChecks'
<1>1. /\ ForgetsChecks'
      /\ rev' = rev \/ Stage' = "Drafting"
      /\ rev' = rev => courseChecked' = courseChecked
      /\ rev' # rev => courseChecked' = NoVersion
      /\ rev' \notin Closed
  BY BecomesOnLine DEF LineInv
<1>2. CASE rev \in {"PendingApproval", "Approved"} /\ rev' # rev
  BY <1>1, <1>2, BackOnLine
<1>3. CASE rev \notin {"PendingApproval", "Approved"} \/ rev' = rev
  <2>1. UNCHANGED <<Stage, current, stamps, CheckedOnLine, rev = "Published", changes>>
    BY <1>1, <1>3 DEF LineInv, ForgetsChecks, Stage, CheckedOnLine, IsDraft, Closed
  <2> QED BY <1>1, <2>1, OffLine
<1> QED BY <1>1, <1>2, <1>3

LEMMA NodesOnLine ==
    ASSUME LineInv, NEW n \in Node, NodeSettles(n) \/ NodeEvent(n)
    PROVE  [Line!Next]_(Line!vars) /\ ForgetsChecks'
<1>1. IsDraft
  BY DEF NodeSettles, NodeEvent, ToGuardrail, WriteLanded, Retry, ChecksPass, ChecksFail, Repair,
     RepairsSpent, Revalidate, Turn, NodeGenerationRequested, NodeGenerated, NodeEdited, Timeout,
     GuardrailVerdict, NodeApproved, NodeRejected, Quiet
<1>2. UNCHANGED <<current, stamps, changes>>
  BY DEF NodeSettles, NodeEvent, ToGuardrail, WriteLanded, Retry, ChecksPass, ChecksFail, Repair,
     RepairsSpent, Revalidate, NodeGenerationRequested, NodeGenerated, NodeEdited, Timeout,
     GuardrailVerdict, NodeApproved, NodeRejected, rules
<1>3. PICK r \in {rev, "ContentInProgress"} \cup Blocked :
           /\ r # rev => courseChecked = NoVersion \/ r = "ContentInProgress"
           /\ \E s, ops, rep, back, d : Becomes(r, s, ops, rep, back, d)
  <2>1. CASE RepairsSpent(n)
    BY <2>1 DEF RepairsSpent, LineInv, ForgetsChecks, AtWork, Closed, Blocked
  <2>2. CASE NodeGenerated(n)
    BY <2>2 DEF NodeGenerated, Replaces
  <2>3. CASE NodeEdited(n)
    BY <2>3 DEF NodeEdited, Replaces, Reopened
  <2>4. CASE ToGuardrail(n) \/ WriteLanded(n) \/ Retry(n) \/ ChecksPass(n)
    BY <2>4 DEF ToGuardrail, WriteLanded, Retry, ChecksPass, NodeMoves
  <2>5. CASE ChecksFail(n) \/ Repair(n) \/ Revalidate(n)
    BY <2>5 DEF ChecksFail, Repair, Revalidate, NodeMoves
  <2>6. CASE NodeGenerationRequested(n) \/ Timeout(n) \/ GuardrailVerdict(n)
    BY <2>6 DEF NodeGenerationRequested, Timeout, GuardrailVerdict, NodeMoves
  <2>7. CASE NodeApproved(n) \/ NodeRejected(n)
    BY <2>7 DEF NodeApproved, NodeRejected, NodeMoves
  <2> QED BY <2>1, <2>2, <2>3, <2>4, <2>5, <2>6, <2>7 DEF NodeSettles, NodeEvent
<1>4. PICK s, ops, rep, back, d : Becomes(r, s, ops, rep, back, d)
  BY <1>3
<1> QED BY <1>1, <1>2, <1>3, <1>4, WorkOnLine

\* The whole-course checks pass, and the line keeps what they ran under; or they
\* fail, which the line does not see.
LEMMA WholeCourseCheckedOnLine ==
    ASSUME LineInv, WholeCourseChecked
    PROVE  [Line!Next]_(Line!vars) /\ ForgetsChecks'
<1>1. IsDraft /\ rev = "WholeCourseChecks" /\ UNCHANGED <<current, stamps, changes>>
  BY DEF WholeCourseChecked, IsDraft, Closed, rules
<1>2. CASE rev' = "PendingApproval" /\ courseChecked' = current
  <2>1. Line!CourseChecksPassed(1)
    <3>1. Stage = "Drafting" /\ Stage' = "PendingApproval" /\ courseChecked' # NoVersion
      BY <1>1, <1>2, VersionsAssumption DEF Stage, Closed, LineInv, DraftInv, TypeOK
    <3> QED BY <1>1, <1>2, <3>1, LineIsQuiet
      DEF Line!CourseChecksPassed, Line!Become, Line!Rev, Line!history, ByKind
  <2> QED BY <1>2, <2>1, EventOnLine DEF Line!Event, ForgetsChecks
<1>3. CASE Becomes("ContentInProgress", st, op, repairs, {}, differs)
  BY <1>1, <1>3, WorkOnLine
<1> QED BY <1>2, <1>3 DEF WholeCourseChecked

\* Approval, publication and the end of a draft are the line's own events.
LEMMA CourseEventOnLine ==
    ASSUME LineInv, CourseEvent
    PROVE  [Line!Next]_(Line!vars) /\ ForgetsChecks'
<1>1. IsDraft
  BY DEF CourseEvent, CourseChecksRequested, ApprovalGranted, BackToWork, PublishRequested,
     DraftDiscarded, LiveChanges, OutlineRevised, OutlineRejected, Quiet
<1>2. UNCHANGED <<current, changes>>
  BY DEF CourseEvent, CourseChecksRequested, ApprovalGranted, BackToWork, PublishRequested,
     DraftDiscarded, LiveChanges, OutlineRevised, OutlineRejected, RevisionMoves, rules
<1>3. CASE CourseChecksRequested
  <2>1. UNCHANGED <<Stage, current, stamps, CheckedOnLine, rev = "Published", changes>>
    BY <1>2, <1>3 DEF CourseChecksRequested, RevisionMoves, Stage, Closed, CheckedOnLine
  <2> QED BY <1>3, <2>1, OffLine
    DEF CourseChecksRequested, RevisionMoves, LineInv, ForgetsChecks, Closed
<1>4. CASE ApprovalGranted
  <2>1. courseChecked # NoVersion
    BY <1>4, VersionsAssumption DEF ApprovalGranted, LineInv, DraftInv, ReviewedWhole, TypeOK
  <2>2. Stage = "PendingApproval" /\ Stage' = "Approved" /\ rev # "Published" /\ rev' # "Published"
    BY <1>4 DEF ApprovalGranted, RevisionMoves, Stage
  <2>3. stamps' = courseChecked /\ courseChecked' = courseChecked
    BY <1>4 DEF ApprovalGranted
  <2>4. Line!ApprovalGranted(1)
    BY <1>1, <1>2, <2>1, <2>2, <2>3, LineIsQuiet
    DEF Line!ApprovalGranted, Line!Become, Line!Rev, Line!history, ByKind
  <2> QED BY <1>4, <2>4, EventOnLine DEF Line!Event, ForgetsChecks, ApprovalGranted, RevisionMoves
<1>5. CASE BackToWork \/ OutlineRejected
  <2>1. Becomes("ContentInProgress", st, op, repairs, {}, differs) /\ stamps' = stamps
    BY <1>5 DEF BackToWork, OutlineRejected
  <2> QED BY <1>1, <1>2, <2>1, WorkOnLine
<1>6. CASE PublishRequested
  <2>1. courseChecked = current /\ courseChecked # NoVersion /\ courseChecked' = courseChecked
    BY <1>6, VersionsAssumption DEF PublishRequested, LineInv, DraftInv, ReviewedWhole, TypeOK
  <2>2. Stage = "Approved" /\ Stage' = "Published" /\ rev # "Published" /\ rev' = "Published" /\ stamps' = stamps
    BY <1>6 DEF PublishRequested, RevisionMoves, Stage, Closed
  <2>3. Line!PublishRequested(1)
    BY <1>1, <1>2, <2>1, <2>2, LineIsQuiet
    DEF Line!PublishRequested, Line!Become, Line!Rev, Line!history, ByKind
  <2> QED BY <2>2, <2>3, EventOnLine DEF Line!Event, ForgetsChecks, Closed
<1>7. CASE DraftDiscarded \/ (OutlineRevised /\ rev' = "BlockedFinal")
  <2>1. /\ Stage' = rev' /\ rev' \in {"Archived", "BlockedFinal"} /\ rev # "Published"
        /\ UNCHANGED <<stamps, courseChecked>>
        /\ rev' = "BlockedFinal" => Stage = "Drafting"
    BY <1>1, <1>7
    DEF DraftDiscarded, OutlineRevised, RevisionMoves, Stage, Closed, IsDraft, Blocked
  <2>2. Stage \in {"Drafting", "PendingApproval", "Approved"}
    BY <1>1 DEF Stage, IsDraft
  <2>3. Line!DraftClosed(1)
    BY <1>1, <1>2, <2>1, <2>2, LineIsQuiet
    DEF Line!DraftClosed, Line!IsDraft, Line!DraftStates, Line!Become, Line!Rev, Line!history, ByKind
  <2> QED BY <2>1, <2>3, EventOnLine DEF Line!Event, ForgetsChecks, Closed
<1>8. CASE OutlineRevised /\ rev' # "BlockedFinal"
  <2>1. UNCHANGED <<Stage, current, stamps, CheckedOnLine, rev = "Published", changes>>
    BY <1>2, <1>8 DEF OutlineRevised, Stage, Closed, Blocked, CheckedOnLine
  <2> QED BY <1>8, <2>1, OffLine DEF OutlineRevised, LineInv, ForgetsChecks, Closed, Blocked
<1>9. CASE LiveChanges
  <2>1. stamps' = stamps
    BY <1>9 DEF LiveChanges
  <2>2. CASE \E d : Becomes(rev, st, op, repairs, {}, d)
    BY <1>1, <1>2, <2>1, <2>2, WorkOnLine
  <2>3. CASE UNCHANGED <<rev, courseChecked>>
    <3>1. UNCHANGED <<Stage, current, stamps, CheckedOnLine, rev = "Published", changes>>
      BY <1>2, <2>1, <2>3 DEF Stage, CheckedOnLine
    <3> QED BY <2>3, <3>1, OffLine DEF LineInv, ForgetsChecks
  <2> QED BY <1>9, <2>2, <2>3 DEF LiveChanges
<1> QED BY <1>3, <1>4, <1>5, <1>6, <1>7, <1>8, <1>9 DEF CourseEvent

\* New rules overtake on the line exactly the drafts they overtake here: what a
\* reviewer is shown was checked as a whole under the rules in force.
LEMMA ConfigChangedOnLine ==
    ASSUME LineInv, NEW to \in Versions, ConfigChanged(to)
    PROVE  [Line!Next]_(Line!vars) /\ ForgetsChecks'
<1> DEFINE r == IF Overtaken(to) THEN "ContentInProgress" ELSE rev
           back == rev \in {"PendingApproval", "Approved"} /\ courseChecked # to
<1>1. /\ IsDraft /\ changes < MaxChanges /\ changes' = changes + 1 /\ current' = to
      /\ stamps' = stamps
      /\ \E s : Becomes(r, s, op, repairs, {}, differs)
  BY DEF ConfigChanged, Quiet
<1>2. /\ ForgetsChecks'
      /\ rev' = rev \/ Stage' = "Drafting"
      /\ rev' = rev => courseChecked' = courseChecked
      /\ rev' # rev => courseChecked' = NoVersion
      /\ rev' \notin Closed
  <2>1. r \in {rev, "ContentInProgress"} \cup Blocked /\ (r # rev => r = "ContentInProgress")
    OBVIOUS
  <2> HIDE DEF r
  <2> QED BY <1>1, <2>1, BecomesOnLine DEF LineInv
<1>3. rev \in {"PendingApproval", "Approved"} => courseChecked = current /\ courseChecked # NoVersion
  BY VersionsAssumption DEF LineInv, DraftInv, ReviewedWhole, TypeOK
<1>4. rev \in {"PendingApproval", "Approved"} => (rev' # rev <=> back)
  <2>1. ASSUME rev \in {"PendingApproval", "Approved"}
        PROVE  Overtaken(to) <=> courseChecked # to
    BY <1>3, <2>1 DEF Overtaken, VersionsCurrent, LineInv, DraftInv, ReviewedWhole, InReview
  <2>2. ASSUME rev \in {"PendingApproval", "Approved"}
        PROVE  rev' # rev <=> Overtaken(to)
    BY <1>1, <2>2 DEF Becomes, React
  <2> QED BY <2>1, <2>2
<1>5. /\ rev # "Published" /\ rev' # "Published"
      /\ Stage \in {"Drafting", "PendingApproval", "Approved"}
      /\ Stage' = IF back THEN "Drafting" ELSE Stage
      /\ CheckedOnLine' = IF back THEN FirstVersion ELSE CheckedOnLine
      /\ back <=> Stage \in {"PendingApproval", "Approved"} /\ CheckedOnLine # to
  <2>1. rev # "Published" /\ rev' # "Published" /\ Stage \in {"Drafting", "PendingApproval", "Approved"}
    BY <1>1, <1>2 DEF IsDraft, Closed, Stage
  <2>2. CASE rev \in {"PendingApproval", "Approved"}
    BY <1>2, <1>3, <1>4, <2>1, <2>2 DEF Stage, CheckedOnLine
  <2>3. CASE rev \notin {"PendingApproval", "Approved"}
    <3>1. Stage = "Drafting" /\ Stage' = "Drafting"
      BY <1>1, <1>2, <2>3 DEF Stage, IsDraft
    <3>2. courseChecked = NoVersion /\ courseChecked' = NoVersion
      BY <1>1, <1>2, <2>3 DEF LineInv, ForgetsChecks, IsDraft
    <3> QED BY <2>1, <2>3, <3>1, <3>2 DEF CheckedOnLine
  <2> QED BY <2>2, <2>3
<1> HIDE DEF back
<1>6. Line!Rev = {1} /\ Line!Asked("guardrail", to) = {}
  BY <1>5 DEF Line!Rev, Line!Asked
<1>7. Line!Overtaken("guardrail", to) = IF back THEN {1} ELSE {}
  <2>1. [ByKind(current) EXCEPT !["guardrail"] = to] = ByKind(to)
    BY DEF ByKind
  <2>2. ByKind(CheckedOnLine) # ByKind(to) <=> CheckedOnLine # to
    BY DEF ByKind
  <2> QED BY <1>5, <1>6, <2>1, <2>2 DEF Line!Overtaken, CheckedOnLine
<1>8. Line!ConfigChanged("guardrail", to, {}, {}, {})
  <2>1. Line!Swept("guardrail", to, {}, {}) = {} /\ Line!Undecided("guardrail", to, {}) = {}
    BY <1>6 DEF Line!Swept, Line!Undecided
  <2>2. ByKind(current') = [ByKind(current) EXCEPT !["guardrail"] = to]
    BY <1>1 DEF ByKind
  <2> QED BY <1>1, <1>5, <1>6, <1>7, <2>1, <2>2, LineIsQuiet
    DEF Line!ConfigChanged, CheckedOnLine, ByKind
<1>9. Line!Next
  BY <1>1, <1>6, <1>8, LineIsQuiet DEF Line!Next, Line!Change, Line!Undecided
<1> QED BY <1>2, <1>9

LEMMA NextOnLine ==
    ASSUME LineInv, [Next]_vars
    PROVE  [Line!Next]_(Line!vars) /\ ForgetsChecks'
<1>1. CASE \E n \in Node : NodeSettles(n) \/ NodeEvent(n)
  BY <1>1, NodesOnLine
<1>2. CASE WholeCourseChecked
  BY <1>2, WholeCourseCheckedOnLine
<1>3. CASE CourseEvent
  BY <1>3, CourseEventOnLine
<1>4. CASE \E to \in Versions : ConfigChanged(to)
  BY <1>4, ConfigChangedOnLine
<1>5. CASE \E o \in Outlines, reason \in BOOLEAN : OutlineApproved(o, reason)
  <2>1. /\ IsDraft /\ UNCHANGED <<current, stamps, changes>>
        /\ \E s, back, d : Becomes("ContentInProgress", s, op, repairs, back, d)
    BY <1>5 DEF OutlineApproved, Quiet, rules
  <2> QED BY <2>1, WorkOnLine
<1>6. CASE \E named \in {Known} \cup {{n} : n \in Known} : BlockedInputFixed(named)
  <2>1. /\ IsDraft /\ UNCHANGED <<current, stamps, changes>>
        /\ \E s, rep : Becomes("ContentInProgress", s, op, rep, {}, differs)
    BY <1>6 DEF BlockedInputFixed, Quiet, rules
  <2> QED BY <2>1, WorkOnLine
<1>7. CASE UNCHANGED vars
  <2>1. UNCHANGED <<Stage, current, stamps, CheckedOnLine, rev = "Published", changes>>
    BY <1>7 DEF vars, course, rules, Stage, CheckedOnLine
  <2> QED BY <1>7, <2>1, OffLine DEF vars, course, LineInv, ForgetsChecks
<1> QED BY <1>1, <1>2, <1>3, <1>4, <1>5, <1>6, <1>7 DEF Next

LEMMA LineInvariant == Spec => []LineInv
<1>1. Init => ForgetsChecks
  BY DEF Init, ForgetsChecks
<1>2. DraftInv /\ ForgetsChecks /\ [Next]_vars => ForgetsChecks'
  BY NextOnLine DEF LineInv
<1> QED BY <1>1, <1>2, DraftInvariant, PTL DEF Spec, LineInv

\* Whatever its nodes do, a draft, forked or not, moves along the publication
\* line by the line's own steps.
THEOREM DraftMovesOnLine == Spec => [][Line!Next]_(Line!vars)
<1>1. LineInv /\ [Next]_vars => [Line!Next]_(Line!vars)
  BY NextOnLine
<1> QED BY <1>1, LineInvariant, PTL DEF Spec

\* A first draft also starts where the line starts: module CourseDraft
\* implements the state "Drafting" of module Publication and what follows it.
THEOREM DraftFollowsLine == ~Forked /\ Spec => FollowsLine
<1>1. ~Forked /\ Init => Line!Init
  <2> SUFFICES ASSUME ~Forked, Init PROVE Line!Init
    OBVIOUS
  <2>1. Line!Rev = {1}
    BY DEF Line!Rev
  <2>2. /\ Stage = "Drafting" /\ rev # "Published" /\ current = FirstVersion
        /\ stamps = FirstVersion /\ courseChecked = NoVersion /\ changes = 0
    BY DEF Init, Stage, Closed
  <2> QED BY <2>1, <2>2 DEF Line!Init, Line!NoMemo, Line!None, ByKind
<1> QED BY <1>1, DraftMovesOnLine, PTL DEF Spec, FollowsLine
=============================================================================
