---------------------------- MODULE NodeWorkProofs ----------------------------
(* The gateway over a draft, for every number of nodes, every dependency between *)
(* them, every retry budget and every rate limit.  Its steps are steps of the    *)
(* draft or leave it alone, so all that CourseDraftProofs proves of a draft      *)
(* holds of one the gateway works on.  What the keys say, what may be judged and *)
(* what a press costs rest on how a node may turn while an act is served         *)
(* (Turned): nothing is approved meanwhile, so a node sent back to wait for its  *)
(* topics waits until the act is over.                                           *)
EXTENDS NodeWork, CourseDraftProofs, WellFoundedInduction

--------------------------------------------------------------------------------
(* How a node may turn                                                           *)

\* One node in a step that is no approval, no release, and no event of a provider
\* about that node.
Turned(n) ==
    /\ st'[n] = "NodeChecks" => st[n] \in {"NodeChecks", "OutputGuardrail", "NeedsRevalidation"}
    /\ st'[n] = "Validated" => st[n] \in {"Validated", "NodeChecks"}
    /\ st'[n] = "NodeApproved" => st[n] = "NodeApproved"
    /\ st'[n] = "NodeRecovery" => st[n] = "NodeRecovery" /\ op'[n] = op[n]
    /\ st'[n] = "ContentDrafting" =>
           \/ st[n] = "ContentDrafting"
           \/ /\ TopicsStand(n)
              /\ st[n] = "NodeRepair" \/ (st[n] = "NodeRecovery" /\ op[n] = "lost")
              /\ waiting[n] \/ repairs'[n] = repairs[n] + 1
    /\ st[n] = "ContentDrafting" /\ st'[n] # "ContentDrafting" => ~TopicsStand(n)'
    /\ waiting'[n] => waiting[n] \/ ~TopicsStand(n)'
    /\ repairs[n] <= repairs'[n]

\* Nothing gets approved: a topic that did not stand does not.
LEMMA TopicsStayDown ==
    ASSUME TypeOK, NEW n \in Node, ~TopicsStand(n), UNCHANGED outline,
           \A t \in Node : st'[t] = "NodeApproved" => st[t] = "NodeApproved"
    PROVE  ~TopicsStand(n)'
<1>1. PICK t \in TopicsIn(spec, committed)[n] : st[t] # "NodeApproved"
  BY DEF TopicsStand, ContentApproved
<1>2. t \in Node
  BY DEF TopicsIn, TypeOK
<1>3. TopicsIn(spec, committed)' = TopicsIn(spec, committed)
  BY DEF TopicsIn, outline
<1> QED  BY <1>1, <1>2, <1>3 DEF TopicsStand, ContentApproved

\* A cascade takes approvals away, and sends back only an exam whose topics do
\* not stand after it.
LEMMA CascadeTurns ==
    ASSUME NEW s \in [Node -> NodeStates], NEW reached, NEW topics \in [Node -> SUBSET Node],
           NEW n \in Node
    PROVE  LET c == Cascade(s, reached, topics)
           IN  /\ \/ c.st[n] = s[n] /\ n \notin c.back
                  \/ s[n] = "NodeApproved" /\ c.st[n] = "NeedsRevalidation" /\ n \notin c.back
                  \/ s[n] \in {"ContentDrafting", "NodeRecovery"} /\ c.st[n] = "NodeRepair" /\ n \in c.back
               /\ n \in c.back => \E t \in topics[n] : c.st[t] # "NodeApproved"
<1> DEFINE c == Cascade(s, reached, topics)
           swept == {m \in Node : s[m] = "NodeApproved" /\ reached[m] # {}}
<1>1. c.st \in [Node -> NodeStates] /\ \A m \in swept : c.st[m] = "NeedsRevalidation"
  BY DEF Cascade, NodeStates
<1>2. \/ c.st[n] = s[n] /\ n \notin c.back
      \/ s[n] = "NodeApproved" /\ c.st[n] = "NeedsRevalidation" /\ n \notin c.back
      \/ s[n] \in {"ContentDrafting", "NodeRecovery"} /\ c.st[n] = "NodeRepair" /\ n \in c.back
  BY DEF Cascade
<1>3. ASSUME n \in c.back PROVE \E t \in topics[n] : c.st[t] # "NodeApproved"
  <2>1. PICK t \in topics[n] : s[t] # "NodeApproved" \/ reached[t] # {}
    BY <1>3 DEF Cascade
  <2>2. t \in Node
    OBVIOUS
  <2>3. CASE s[t] = "NodeApproved"
    BY <1>1, <2>1, <2>2, <2>3
  <2>4. CASE s[t] # "NodeApproved"
    BY <2>2, <2>4 DEF Cascade
  <2> QED  BY <2>3, <2>4
<1> QED  BY <1>2, <1>3

\* (auto) rows turn the node they are taken for, and nobody else.
LEMMA SettlingTurns ==
    ASSUME TypeOK, NEW k \in Node, NodeSettles(k)
    PROVE  UNCHANGED outline /\ \A n \in Node : Turned(n)
<1>1. UNCHANGED outline
  BY DEF NodeSettles, ToGuardrail, WriteLanded, Retry, ChecksPass, ChecksFail, Repair, RepairsSpent, Revalidate
<1> SUFFICES ASSUME NEW n \in Node PROVE Turned(n)
  BY <1>1
<1> USE DEF TypeOK, Turned, Becomes
<1>2. CASE ToGuardrail(k)
  BY <1>2 DEF ToGuardrail, NodeMoves
<1>3. CASE WriteLanded(k)
  BY <1>3 DEF WriteLanded, NodeMoves
<1>4. CASE Retry(k)
  BY <1>4, BudgetAssumption DEF Retry, Charged
<1>5. CASE ChecksPass(k)
  BY <1>5 DEF ChecksPass, NodeMoves
<1>6. CASE ChecksFail(k)
  BY <1>6 DEF ChecksFail, NodeMoves
<1>7. CASE Repair(k)
  BY <1>7, BudgetAssumption DEF Repair, Charged
<1>8. CASE RepairsSpent(k)
  BY <1>8 DEF RepairsSpent
<1>9. CASE Revalidate(k)
  BY <1>9 DEF Revalidate, NodeMoves
<1> QED  BY <1>2, <1>3, <1>4, <1>5, <1>6, <1>7, <1>8, <1>9 DEF NodeSettles

\* New content turns its node as the event says, and others only back.
LEMMA ReplacesTurns ==
    ASSUME TypeOK, NEW k \in Node, NEW to \in NodeStates, NEW r, NEW hit, Replaces(r, k, to, hit),
           UNCHANGED outline,
           to = st[k] \/ (st[k] = "NodeApproved" /\ to = "NeedsRevalidation") \/ to = "Generated"
    PROVE  /\ \A n \in Node \ {k} : Turned(n)
           /\ to # "Generated" => Turned(k)
           /\ to = "Generated" => st'[k] = "Generated" /\ repairs' = repairs /\ ~waiting'[k]
<1> DEFINE s == [st EXCEPT ![k] = to]
           reached == [m \in Node |-> IF m \in hit THEN {k} ELSE {}]
           topics == TopicsIn(spec, committed)
           c == Cascade(s, reached, topics)
<1>1. s \in [Node -> NodeStates] /\ topics \in [Node -> SUBSET Node]
  BY DEF TypeOK, TopicsIn
<1>2. PICK d \in MayDiffer : Becomes(r, c.st, op, repairs, c.back, d)
  BY DEF Replaces
<1>3. ASSUME NEW n \in Node
      PROVE  /\ \/ st'[n] = s[n] /\ n \notin c.back
                \/ s[n] = "NodeApproved" /\ st'[n] = "NeedsRevalidation" /\ n \notin c.back
                \/ s[n] \in {"ContentDrafting", "NodeRecovery"} /\ st'[n] = "NodeRepair" /\ n \in c.back
             /\ n \in c.back => ~TopicsStand(n)'
  <2> HIDE DEF s, reached
  <2>1. /\ \/ c.st[n] = s[n] /\ n \notin c.back
           \/ s[n] = "NodeApproved" /\ c.st[n] = "NeedsRevalidation" /\ n \notin c.back
           \/ s[n] \in {"ContentDrafting", "NodeRecovery"} /\ c.st[n] = "NodeRepair" /\ n \in c.back
        /\ n \in c.back => \E t \in topics[n] : c.st[t] # "NodeApproved"
    BY <1>1, CascadeTurns
  <2>2. st' = c.st /\ topics' = topics
    BY <1>2 DEF Becomes, outline, TopicsIn
  <2> QED  BY <2>1, <2>2 DEF TopicsStand, ContentApproved
<1>4. /\ repairs' = repairs
      /\ \A n \in Node : op'[n] = IF st'[n] = "NodeRecovery" THEN op[n] ELSE "none"
      /\ \A n \in Node : waiting'[n] => st'[n] = "NodeRepair" /\ (waiting[n] \/ n \in c.back)
  BY <1>2 DEF Becomes
<1>5. \A n \in Node : repairs[n] <= repairs'[n]
  BY <1>4, BudgetAssumption DEF TypeOK
<1> HIDE DEF c
<1>6. ASSUME NEW n \in Node, n # k \/ to # "Generated" PROVE Turned(n)
  <2>1. s[n] = st[n] \/ (st[n] = "NodeApproved" /\ s[n] = "NeedsRevalidation")
    BY <1>6 DEF TypeOK
  <2> HIDE DEF s
  <2> QED  BY <1>3, <1>4, <1>5, <2>1 DEF Turned
<1>7. to = "Generated" => st'[k] = "Generated" /\ repairs' = repairs /\ ~waiting'[k]
  <2>1. s[k] = to
    BY DEF TypeOK
  <2> HIDE DEF s
  <2> QED  BY <1>3, <1>4, <2>1
<1> QED  BY <1>6, <1>7

\* What reaches the machine from elsewhere turns nodes only so.
LEMMA OutsideTurns ==
    ASSUME TypeOK, \/ \E n \in Node : NodeEdited(n)
                   \/ \E to \in Versions : ConfigChanged(to)
                   \/ OutlineRevised \/ OutlineRejected \/ WholeCourseChecked
    PROVE  UNCHANGED outline /\ \A n \in Node : Turned(n)
<1>1. CASE \E n \in Node : NodeEdited(n)
  <2>1. PICK k \in Node : NodeEdited(k)
    BY <1>1
  <2> DEFINE to == IF st[k] = "NodeApproved" THEN "NeedsRevalidation" ELSE st[k]
  <2>2. /\ Replaces(Reopened, k, to, DependentsOf(k, st, spec)) /\ UNCHANGED outline
        /\ to \in NodeStates
        /\ to = st[k] \/ (st[k] = "NodeApproved" /\ to = "NeedsRevalidation")
    BY <2>1 DEF NodeEdited, TypeOK, NodeStates
  <2>3. st[k] = "Generated" <=> to = "Generated"
    OBVIOUS
  <2> HIDE DEF to
  <2>4. (\A n \in Node \ {k} : Turned(n)) /\ (to # "Generated" => Turned(k))
    BY <2>2, ReplacesTurns
  <2>5. to = "Generated" => st'[k] = "Generated" /\ repairs' = repairs /\ ~waiting'[k]
    BY <2>2, ReplacesTurns
  <2>6. CASE to = "Generated"
    <3>1. repairs'[k] = repairs[k] /\ repairs[k] \in Nat
      BY <2>5, <2>6, BudgetAssumption DEF TypeOK
    <3>2. Turned(k)
      BY <2>3, <2>5, <2>6, <3>1 DEF Turned
    <3> HIDE DEF Turned
    <3> QED  BY <2>2, <2>4, <3>2
  <2>7. CASE to # "Generated"
    BY <2>2, <2>4, <2>7
  <2> QED  BY <2>6, <2>7
<1>2. CASE \E to \in Versions : ConfigChanged(to)
  BY <1>2, BudgetAssumption DEF ConfigChanged, Becomes, Turned, TypeOK, Outdated
<1>3. CASE OutlineRevised
  BY <1>3, BudgetAssumption DEF OutlineRevised, nodes, Turned, TypeOK
<1>4. CASE OutlineRejected
  BY <1>4, BudgetAssumption DEF OutlineRejected, Becomes, Turned, TypeOK
<1>5. CASE WholeCourseChecked
  BY <1>5, BudgetAssumption DEF WholeCourseChecked, Becomes, Turned, TypeOK
<1> QED  BY <1>1, <1>2, <1>3, <1>4, <1>5

\* A verdict and a refusal turn one node, to be checked or repaired.
LEMMA VerdictTurns ==
    ASSUME TypeOK, NEW k \in Node, GuardrailVerdict(k) \/ NodeRejected(k)
    PROVE  UNCHANGED outline /\ st'[k] # "OutputGuardrail" /\ \A n \in Node : Turned(n)
BY BudgetAssumption DEF GuardrailVerdict, NodeRejected, NodeMoves, Becomes, Turned, TypeOK

\* A generation that lands writes its node.
LEMMA GeneratedTurns ==
    ASSUME TypeOK, NEW k \in Node, NodeGenerated(k)
    PROVE  /\ UNCHANGED outline /\ \A n \in Node \ {k} : Turned(n)
           /\ st'[k] = "Generated" /\ repairs' = repairs /\ ~waiting'[k]
BY ReplacesTurns DEF NodeGenerated, NodeStates

\* A provider that gives up sends its node to recovery.
LEMMA TimeoutTurns ==
    ASSUME TypeOK, NEW k \in Node, Timeout(k), op'[k] # "landed"
    PROVE  /\ UNCHANGED outline /\ \A n \in Node \ {k} : Turned(n)
           /\ st'[k] = "NodeRecovery" /\ repairs' = repairs /\ ~waiting'[k]
           /\ op'[k] = IF st[k] = "ContentDrafting" THEN "lost" ELSE "screening"
<1>1. PICK o \in Operations :
          /\ Becomes(rev, [st EXCEPT ![k] = "NodeRecovery"], [op EXCEPT ![k] = o], repairs, {}, differs)
          /\ \/ st[k] = "ContentDrafting" /\ o \in {"lost", "landed"}
             \/ st[k] = "OutputGuardrail" /\ o = "screening"
  BY DEF Timeout, Operations
<1>2. UNCHANGED outline
  BY DEF Timeout
<1>3. st' = [st EXCEPT ![k] = "NodeRecovery"] /\ repairs' = repairs /\ ~waiting'[k]
  BY <1>1 DEF Becomes, TypeOK
<1>4. \A n \in Node : op'[n] = IF st'[n] = "NodeRecovery" THEN IF n = k THEN o ELSE op[n] ELSE "none"
  BY <1>1 DEF Becomes, TypeOK
<1>5. st'[k] = "NodeRecovery" /\ op'[k] = o
  BY <1>3, <1>4 DEF TypeOK
<1>6. ASSUME NEW n \in Node \ {k} PROVE Turned(n)
  <2>1. /\ st'[n] = st[n] /\ repairs'[n] = repairs[n] /\ repairs[n] \in Nat
        /\ st'[n] = "NodeRecovery" => op'[n] = op[n]
    BY <1>3, <1>4, BudgetAssumption DEF TypeOK
  <2>2. waiting'[n] => waiting[n]
    BY <1>1 DEF Becomes
  <2> QED  BY <2>1, <2>2 DEF Turned
<1> QED  BY <1>1, <1>2, <1>3, <1>5, <1>6

--------------------------------------------------------------------------------
(* The gateway's steps are the draft's                                          *)

\* What the thread does by itself leaves the draft alone.
LEMMA ThreadLeavesDraft ==
    ASSUME \/ AskModel \/ Written \/ AskScreener \/ Screened \/ ScreenWaiting
           \/ ServiceRollsOut \/ WindowPasses \/ Restart
    PROVE  UNCHANGED vars
BY DEF AskModel, Written, AskScreener, Screened, ScreenWaiting, ServiceRollsOut, WindowPasses, Restart

LEMMA WorkIsDraft ==
    ASSUME WorkTypeOK, [WorkNext]_workVars
    PROVE  [Next]_vars
<1> USE DEF Next, NodeEvent, CourseEvent
<1>1. CASE \E n \in Node : Generate(n) \/ Approve(n) \/ Reject(n)
  BY <1>1 DEF Generate, Approve, Reject
<1>2. CASE Release
  <2>1. BlockedInputFixed(Known)
    BY <1>2 DEF Release
  <2> QED  BY <2>1
<1>3. CASE ScreenWaiting \/ Thread \/ ServiceRollsOut \/ WindowPasses \/ Restart
  BY <1>3, ThreadLeavesDraft DEF Thread
<1>4. CASE Answer
  <2>1. job.node \in Node
    BY DEF WorkTypeOK, Jobs
  <2> QED  BY <1>4, <2>1 DEF Answer, ModelAnswers, ModelFails, ScreenerAnswers, ScreenerFails
<1>5. CASE Outside
  BY <1>5 DEF Outside
<1>6. CASE Settles
  BY <1>6 DEF Settles
<1>7. CASE UNCHANGED workVars
  BY <1>7 DEF workVars
<1> QED  BY <1>1, <1>2, <1>3, <1>4, <1>5, <1>6, <1>7 DEF WorkNext

--------------------------------------------------------------------------------
(* The inductive invariant                                                      *)

\* Only a node that waits for its topics is marked so.
Waits == \A n \in Node : waiting[n] => st[n] = "NodeRepair"

\* A procedure that generates says so, and a screening has an attempt left.
Forms ==
    /\ job.doing \in {"generate", "wrote"} => job.then = "generate"
    /\ job.doing = "idle" => job.then = "next"
    /\ job.doing \in {"screen", "screened"} => job.left > 0

\* What the keys of a node say, in whatever state it is.
Key(n) ==
    /\ st[n] = "OutputGuardrail" => "admit" \notin landed[n]
    /\ "approve" \in landed[n] =>
           st[n] \notin {"OutputGuardrail", "NeedsRevalidation", "NodeChecks", "Validated"}
    /\ owed[n] => st[n] \in {"ContentDrafting", "NodeRecovery"}
    /\ st[n] = "NodeRecovery" => op[n] \in {"lost", "screening"}
    /\ (st[n] = "ContentDrafting" \/ (st[n] = "NodeRecovery" /\ op[n] = "lost")) =>
           asked[n] = IF owed[n] THEN "issued" ELSE "never"

\* While the model is asked, its node waits for the answer it is owed, or went
\* back to wait for topics nobody can approve meanwhile.
Asking ==
    /\ call = "model" =>
           /\ job.doing = "generate"
           /\ IF st[job.node] = "ContentDrafting" THEN owed[job.node] ELSE ~TopicsStand(job.node)
    /\ call = "screener" => job.doing = "screen"

\* A press has paid for one call more than its node was charged for, and is even
\* with it by the time the node is drafted again.
Pressing ==
    /\ paid <= Budget + 1
    /\ job.then = "generate" =>
           /\ paid <= repairs[job.node] + 1
           /\ st[job.node] = "ContentDrafting" /\ call # "model" => paid <= repairs[job.node]
           /\ waiting[job.node] => ~TopicsStand(job.node)

WorkInv ==
    DraftInv /\ WorkTypeOK /\ Waits /\ Forms /\ (\A n \in Node : Key(n)) /\ Asking /\ Pressing

LEMMA BecomesWaits ==
    ASSUME NEW r, NEW s, NEW ops, NEW rep, NEW back, NEW d, Becomes(r, s, ops, rep, back, d)
    PROVE  Waits'
BY DEF Becomes, Waits

LEMMA WaitsKept ==
    ASSUME Waits, [Next]_vars
    PROVE  Waits'
<1> USE BecomesWaits DEF NodeMoves
<1>1. CASE UNCHANGED nodes
  BY <1>1 DEF nodes, Waits
<1>2. CASE \E n \in Node : NodeSettles(n)
  BY <1>2 DEF NodeSettles, ToGuardrail, WriteLanded, Retry, ChecksPass, ChecksFail, Repair, RepairsSpent, Revalidate
<1>3. CASE \E n \in Node : NodeEvent(n)
  <2>1. PICK n \in Node : NodeEvent(n)
    BY <1>3
  <2>2. CASE NodeGenerated(n) \/ NodeEdited(n)
    <3>1. \E r, to, hit : Replaces(r, n, to, hit)
      BY <2>2 DEF NodeGenerated, NodeEdited
    <3>2. \E r, s, back, d : Becomes(r, s, op, repairs, back, d)
      BY <3>1 DEF Replaces
    <3> QED  BY <3>2
  <2> QED  BY <2>1, <2>2 DEF NodeEvent, NodeGenerationRequested, Timeout,
                             GuardrailVerdict, NodeApproved, NodeRejected
<1>4. CASE WholeCourseChecked
  BY <1>4 DEF WholeCourseChecked, Waits
<1>5. CASE CourseEvent
  BY <1>5 DEF CourseEvent, CourseChecksRequested, ApprovalGranted, BackToWork, PublishRequested,
              DraftDiscarded, LiveChanges, OutlineRevised, OutlineRejected, RevisionMoves, nodes, Waits
<1>6. CASE \E to \in Versions : ConfigChanged(to)
  BY <1>6 DEF ConfigChanged
<1>7. CASE \E o \in Outlines, reason \in BOOLEAN : OutlineApproved(o, reason)
  <2>1. \E r, s, back, d : Becomes(r, s, op, repairs, back, d)
    BY <1>7 DEF OutlineApproved
  <2> QED  BY <2>1
<1>8. CASE \E named \in {Known} \cup {{n} : n \in Known} : BlockedInputFixed(named)
  BY <1>8 DEF BlockedInputFixed
<1> QED  BY <1>1, <1>2, <1>3, <1>4, <1>5, <1>6, <1>7, <1>8 DEF Next, vars

\* The first of some nodes is one of them.
LEMMA FirstOfNodes ==
    ASSUME NEW S \in SUBSET Node, S # {}
    PROVE  (CHOOSE n \in S : \A m \in S : n <= m) \in S
<1>1. S \subseteq Nat
  BY MaxNodeAssumption DEF Node
<1>2. \E x \in S : \A y \in S : ~(<<y, x>> \in OpToRel(<, Nat))
  <2> DEFINE less == OpToRel(<, Nat)
  <2>1. IsWellFoundedOn(less, Nat)
    BY NatLessThanWellFounded, Zenon
  <2> HIDE DEF less
  <2>2. \E x \in S : \A y \in S : ~(<<y, x>> \in less)
    BY <1>1, <2>1, WFMin
  <2> QED  BY <2>2, Zenon DEF less
<1>3. PICK x \in S : \A y \in S : ~(y < x)
  BY <1>1, <1>2 DEF OpToRel
<1>4. \A y \in S : x <= y
  BY <1>1, <1>3
<1> QED  BY <1>4

--------------------------------------------------------------------------------
(* What the gateway keeps has its type                                          *)

LEMMA KeysTyped ==
    ASSUME NEW a \in [Node -> {"never", "issued", "landed"}], NEW l \in [Node -> SUBSET {"admit", "approve"}],
           NEW o \in [Node -> BOOLEAN], Keys(a, l), Owes(o)
    PROVE  /\ asked' \in [Node -> {"never", "issued", "landed"}]
           /\ landed' \in [Node -> SUBSET {"admit", "approve"}]
           /\ owed' \in [Node -> BOOLEAN]
BY DEF Keys, Owes

LEMMA ScreeningTyped ==
    ASSUME NEW n \in Node, NEW then \in {"generate", "next"}, NEW rest \in SUBSET Node
    PROVE  /\ Screening(n, then, rest) \in Jobs /\ Screening(n, then, rest).left > 0
           /\ Screening(n, then, rest).doing = "screen" /\ Screening(n, then, rest).then = then
BY BudgetAssumption DEF Screening, Jobs, Doing

LEMMA GeneratingTyped ==
    ASSUME NEW n \in Node
    PROVE  Generating(n) \in Jobs /\ Generating(n).doing = "generate" /\ Generating(n).then = "generate"
BY BudgetAssumption DEF Generating, Jobs, Doing

LEMMA ReturnsTyped ==
    ASSUME NEW r \in BOOLEAN, Returns(r)
    PROVE  job' \in Jobs /\ Forms' /\ refused' \in BOOLEAN
BY MaxNodeAssumption, BudgetAssumption DEF Returns, Idle, Jobs, Doing, Forms, Node

LEMMA ScreeningEndsTyped ==
    ASSUME WorkTypeOK, Forms, ScreeningEnds
    PROVE  job' \in Jobs /\ Forms' /\ refused' \in BOOLEAN
<1>1. CASE job.then = "generate"
  <2>1. job.node \in Node /\ job' = Generating(job.node) /\ refused' = refused /\ refused \in BOOLEAN
    BY <1>1 DEF ScreeningEnds, WorkTypeOK, Jobs
  <2> QED  BY <2>1, GeneratingTyped DEF Forms
<1>2. CASE job.then # "generate" /\ job.rest = {}
  BY <1>2, ReturnsTyped DEF ScreeningEnds
<1>3. CASE job.then # "generate" /\ job.rest # {}
  <2> DEFINE first == CHOOSE n \in job.rest : \A m \in job.rest : n <= m
  <2>1. first \in Node /\ job.rest \in SUBSET Node
    BY <1>3, FirstOfNodes DEF WorkTypeOK, Jobs
  <2>2. job' = Screening(first, "next", job.rest \ {first}) /\ UNCHANGED refused
    BY <1>3 DEF ScreeningEnds
  <2> HIDE DEF first
  <2>3. job' \in Jobs /\ job'.left > 0 /\ job'.doing = "screen"
    BY <2>1, <2>2, ScreeningTyped
  <2> QED  BY <2>2, <2>3 DEF Forms, WorkTypeOK
<1> QED  BY <1>1, <1>2, <1>3

LEMMA WorkTyped ==
    ASSUME TypeOK, WorkTypeOK, Forms, Asking, [WorkNext]_workVars
    PROVE  WorkTypeOK' /\ Forms'
<1> DEFINE KeysOK == /\ asked \in [Node -> {"never", "issued", "landed"}]
                     /\ landed \in [Node -> SUBSET {"admit", "approve"}]
                     /\ owed \in [Node -> BOOLEAN]
           JobOK == job \in Jobs /\ Forms /\ refused \in BOOLEAN
           RestOK == /\ call \in {"none", "model", "screener"} /\ serving \in Versions
                     /\ spent \in 0..RateLimit /\ paid \in 0..Budget + 2
<1>0. KeysOK /\ JobOK /\ RestOK /\ current \in Versions
  BY DEF WorkTypeOK, TypeOK
<1>1. KeysStay => KeysOK'
  BY <1>0, KeysTyped DEF KeysStay
<1>2. UNCHANGED job => Forms'
  BY DEF Forms
<1>3. CASE \E n \in Node : Generate(n) \/ Approve(n) \/ Reject(n)
  <2>1. PICK n \in Node : Generate(n) \/ Approve(n) \/ Reject(n)
    BY <1>3
  <2>2. CASE Generate(n)
    <3>1. KeysOK' /\ RestOK'
      BY <1>0, <1>1, <2>2, BudgetAssumption DEF Generate
    <3>2. job' = Screening(n, "next", {}) \/ job' = Generating(n)
      BY <2>2 DEF Generate
    <3>3. JobOK'
      BY <3>2, <2>2, ScreeningTyped, GeneratingTyped DEF Generate, Forms
    <3> QED  BY <3>1, <3>3 DEF WorkTypeOK
  <2>3. CASE Approve(n)
    <3> DEFINE l == [landed EXCEPT ![n] = @ \cup {"approve"}]
    <3>1. l \in [Node -> SUBSET {"admit", "approve"}] /\ Keys(asked, l) /\ Owes(owed)
      BY <1>0, <2>3 DEF Approve
    <3>2. KeysOK'
      BY <1>0, <3>1, KeysTyped
    <3>3. JobOK' /\ RestOK'
      BY <1>0, <1>2, <2>3, RateLimitAssumption DEF Approve, WithinRate, Spend
    <3> QED  BY <3>2, <3>3 DEF WorkTypeOK
  <2>4. CASE Reject(n)
    BY <1>0, <1>1, <1>2, <2>4 DEF Reject, Aside, WorkTypeOK
  <2> QED  BY <2>1, <2>2, <2>3, <2>4
<1>4. CASE ScreenWaiting
  <2> DEFINE waitingNow == {n \in Node : st[n] = "OutputGuardrail"}
             first == CHOOSE n \in waitingNow : \A m \in waitingNow : n <= m
  <2>1. first \in Node /\ waitingNow \in SUBSET Node
    BY <1>4, FirstOfNodes DEF ScreenWaiting
  <2>2. /\ job' = Screening(first, "next", waitingNow \ {first}) /\ refused' = FALSE /\ paid' = 0
        /\ UNCHANGED <<call, serving, spent, asked, landed, owed>>
    BY <1>4 DEF ScreenWaiting
  <2> HIDE DEF first, waitingNow
  <2>3. job' \in Jobs /\ job'.left > 0 /\ job'.doing = "screen"
    BY <2>1, <2>2, ScreeningTyped
  <2>4. paid' \in 0..Budget + 2
    BY <2>2, BudgetAssumption
  <2> QED  BY <1>0, <2>2, <2>3, <2>4 DEF Forms, WorkTypeOK
<1>5. CASE Release \/ Outside \/ Settles
  BY <1>0, <1>1, <1>2, <1>5 DEF Release, Outside, Settles, Aside, WorkTypeOK
<1>6. CASE Thread
  <2>1. CASE AskModel
    <3>1. JobOK'
      BY <1>0, <1>2, <2>1, ReturnsTyped DEF AskModel
    <3>2. CASE KeysStay /\ UNCHANGED <<call, serving, spent, paid>>
      BY <1>0, <1>1, <3>1, <3>2 DEF WorkTypeOK
    <3>3. CASE ~(KeysStay /\ UNCHANGED <<call, serving, spent, paid>>)
      <4> DEFINE a == [asked EXCEPT ![job.node] = "issued"]
                 o == [owed EXCEPT ![job.node] = TRUE]
      <4>1. a \in [Node -> {"never", "issued", "landed"}] /\ o \in [Node -> BOOLEAN]
        BY <1>0
      <4>2. /\ Keys(a, landed) /\ Owes(o) /\ WithinRate /\ Spend /\ call' = "model" /\ UNCHANGED serving
            /\ paid' = IF paid <= Budget + 1 THEN paid + 1 ELSE paid
        BY <2>1, <3>3 DEF AskModel
      <4>3. KeysOK'
        BY <1>0, <4>1, <4>2, KeysTyped
      <4>4. RestOK'
        BY <1>0, <4>2, BudgetAssumption, RateLimitAssumption DEF WithinRate, Spend
      <4> QED  BY <3>1, <4>3, <4>4 DEF WorkTypeOK
    <3> QED  BY <3>2, <3>3
  <2>2. CASE Written
    <3>1. job.node \in Node /\ job.doing = "wrote"
      BY <1>0, <2>2 DEF Runs, Written, Jobs
    <3>2. JobOK'
      BY <1>0, <2>2, <3>1, ScreeningTyped DEF Written, Screening, Jobs, Doing, Forms
    <3> QED  BY <1>0, <2>2, <3>2 DEF Written, WorkTypeOK
  <2>3. CASE AskScreener
    <3>1. JobOK'
      BY <1>0, <1>2, <2>3, ReturnsTyped, ScreeningEndsTyped DEF AskScreener
    <3> QED  BY <1>0, <2>3, <3>1 DEF AskScreener, WorkTypeOK
  <2>4. CASE Screened
    <3>1. CASE ScreeningEnds \/ Returns(TRUE)
      BY <1>0, <2>4, <3>1, ReturnsTyped, ScreeningEndsTyped DEF Screened, WorkTypeOK
    <3>2. CASE job' = [job EXCEPT !.doing = "screen", !.left = @ - 1] /\ UNCHANGED refused /\ job.left # 1
      <4>1. job.left > 0 /\ job.left \in 0..Budget + 1
        BY <1>0, <2>4 DEF Screened, Runs, Forms, Jobs
      <4>2. job' \in Jobs /\ job'.left > 0 /\ job'.doing = "screen"
        <5>1. job.left - 1 \in 0..Budget + 1 /\ job.left - 1 > 0
          BY <3>2, <4>1, BudgetAssumption
        <5> QED  BY <1>0, <3>2, <5>1 DEF Jobs, Doing
      <4> QED  BY <1>0, <2>4, <3>2, <4>2 DEF Screened, Forms, WorkTypeOK
    <3> QED  BY <2>4, <3>1, <3>2 DEF Screened
  <2> QED  BY <1>6, <2>1, <2>2, <2>3, <2>4 DEF Thread
<1>7. CASE Answer
  <2>1. job.node \in Node
    BY <1>0 DEF Jobs
  <2>2. RestOK'
    BY <1>0, <1>7 DEF Answer, ModelAnswers, ModelFails, ScreenerAnswers, ScreenerFails
  <2>3. JobOK'
    <3>1. CASE Returns(TRUE) \/ Returns(FALSE)
      BY <3>1, ReturnsTyped
    <3>2. CASE ScreeningEnds
      BY <3>2, ScreeningEndsTyped
    <3>3. CASE UNCHANGED <<job, refused>>
      BY <1>0, <1>2, <3>3
    <3>4. CASE call = "model" /\ job' = [job EXCEPT !.doing = "wrote"] /\ UNCHANGED refused
      <4>1. job.doing = "generate" /\ job.then = "generate"
        BY <1>0, <3>4 DEF Asking, Forms
      <4> QED  BY <1>0, <3>4, <4>1 DEF Jobs, Doing, Forms
    <3>5. CASE call = "screener" /\ job' = [job EXCEPT !.doing = "screened"] /\ UNCHANGED refused
      <4>1. job.doing = "screen" /\ job.left > 0
        BY <1>0, <3>5 DEF Asking, Forms
      <4> QED  BY <1>0, <3>5, <4>1 DEF Jobs, Doing, Forms
    <3> QED  BY <1>7, <3>1, <3>2, <3>3, <3>4, <3>5 DEF Answer, ModelAnswers, ModelFails, ScreenerAnswers, ScreenerFails
  <2>4. KeysOK'
    <3>1. CASE KeysStay
      BY <1>1, <3>1
    <3>2. ASSUME NEW x \in {"never", "issued", "landed"}, NEW b \in BOOLEAN,
                 Keys([asked EXCEPT ![job.node] = x], landed), Owes([owed EXCEPT ![job.node] = b])
          PROVE  KeysOK'
      BY <1>0, <3>2, KeysTyped
    <3>3. ASSUME Keys(asked, [landed EXCEPT ![job.node] = @ \cup {"admit"}]), Owes(owed)
          PROVE  KeysOK'
      BY <1>0, <3>3, KeysTyped
    <3>4. CASE ModelAnswers
      BY <3>1, <3>2, <3>4 DEF ModelAnswers
    <3>5. CASE \E malformed \in BOOLEAN : ModelFails(malformed)
      <4>1. PICK malformed \in BOOLEAN : ModelFails(malformed)
        BY <3>5
      <4>2. asked[job.node] \in {"never", "issued", "landed"} /\ (~malformed) \in BOOLEAN
        <5>1. asked[job.node] \in {"never", "issued", "landed"}
          BY <1>0, <2>1
        <5>2. (~malformed) \in BOOLEAN
          BY Zenon
        <5> QED  BY <5>1, <5>2
      <4>3. \/ KeysStay
            \/ /\ Keys([asked EXCEPT ![job.node] = IF malformed THEN "never" ELSE asked[job.node]], landed)
               /\ Owes([owed EXCEPT ![job.node] = ~malformed])
        BY <4>1 DEF ModelFails
      <4> QED  BY <3>1, <3>2, <4>2, <4>3
    <3>6. CASE ScreenerAnswers
      BY <3>1, <3>3, <3>6 DEF ScreenerAnswers
    <3>7. CASE ScreenerFails
      BY <3>1, <3>7 DEF ScreenerFails
    <3> QED  BY <1>7, <3>4, <3>5, <3>6, <3>7 DEF Answer
  <2> QED  BY <2>2, <2>3, <2>4 DEF WorkTypeOK
<1>8. CASE ServiceRollsOut \/ WindowPasses
  BY <1>0, <1>2, <1>8, RateLimitAssumption DEF ServiceRollsOut, WindowPasses, WorkTypeOK
<1>9. CASE Restart
  <2>1. JobOK'
    BY <1>9, ReturnsTyped DEF Restart
  <2>2. KeysOK' /\ RestOK'
    BY <1>0, <1>9, RateLimitAssumption DEF Restart
  <2> QED  BY <2>1, <2>2 DEF WorkTypeOK
<1>10. CASE UNCHANGED workVars
  BY <1>0, <1>2, <1>10 DEF workVars, gateway, WorkTypeOK
<1> QED  BY <1>3, <1>4, <1>5, <1>6, <1>7, <1>8, <1>9, <1>10 DEF WorkNext

--------------------------------------------------------------------------------
(* What the keys say stays true                                                 *)

\* All that the keys of a node need of the way it turns.
KeyTurned(n) ==
    /\ st'[n] = "NodeChecks" => st[n] \in {"NodeChecks", "OutputGuardrail", "NeedsRevalidation"}
    /\ st'[n] = "Validated" => st[n] \in {"Validated", "NodeChecks"}
    /\ st'[n] = "NodeRecovery" => st[n] = "NodeRecovery" /\ op'[n] = op[n]
    /\ st'[n] = "ContentDrafting" =>
           \/ st[n] \in {"ContentDrafting", "NodeRepair", "Planned"}
           \/ st[n] = "NodeRecovery" /\ op[n] = "lost"

LEMMA TurnedKeys ==
    ASSUME NEW n \in Node, Turned(n)
    PROVE  KeyTurned(n)
BY DEF Turned, KeyTurned

\* A node that the step says nothing of, but for what lands.
LEMMA KeyKept ==
    ASSUME NEW n \in Node, Key(n), KeyTurned(n), NEW a, NEW l, NEW o, Keys(a, l), Owes(o),
           a[n] = asked[n], o[n] = owed[n],
           \/ l[n] = landed[n]
           \/ l[n] = landed[n] \cup {"admit"} /\ st'[n] # "OutputGuardrail"
           \/ l[n] = landed[n] \cup {"approve"} /\ st'[n] = "NodeApproved"
    PROVE  Key(n)'
<1>1. /\ asked'[n] = IF NewDraft(n) THEN "never" ELSE asked[n]
      /\ landed'[n] = IF NewRound(n) THEN {} ELSE l[n]
      /\ owed'[n] = (owed[n] /\ st'[n] \in {"ContentDrafting", "NodeRecovery"})
  BY DEF Keys, Owes
<1>2. st'[n] = "OutputGuardrail" => "admit" \notin landed'[n]
  BY <1>1 DEF Key, NewRound
<1>3. "approve" \in landed'[n] =>
          st'[n] \notin {"OutputGuardrail", "NeedsRevalidation", "NodeChecks", "Validated"}
  BY <1>1 DEF Key, KeyTurned, NewRound
<1>4. owed'[n] => st'[n] \in {"ContentDrafting", "NodeRecovery"}
  BY <1>1
<1>5. st'[n] = "NodeRecovery" => op'[n] \in {"lost", "screening"}
  BY DEF Key, KeyTurned
<1>6. ASSUME st'[n] = "ContentDrafting" \/ (st'[n] = "NodeRecovery" /\ op'[n] = "lost")
      PROVE  asked'[n] = IF owed'[n] THEN "issued" ELSE "never"
  <2>1. CASE NewDraft(n)
    <3>1. ~owed[n]
      BY <2>1 DEF NewDraft, Key
    <3> QED  BY <1>1, <2>1, <3>1
  <2>2. CASE ~NewDraft(n)
    <3>1. st[n] = "ContentDrafting" \/ (st[n] = "NodeRecovery" /\ op[n] = "lost")
      BY <1>6, <2>2 DEF NewDraft, KeyTurned
    <3>2. owed'[n] <=> owed[n]
      BY <1>1, <1>6
    <3> QED  BY <1>1, <2>2, <3>1, <3>2 DEF Key
  <2> QED  BY <2>1, <2>2
<1> QED  BY <1>2, <1>3, <1>4, <1>5, <1>6 DEF Key

LEMMA KeysKept ==
    ASSUME WorkInv, [WorkNext]_workVars
    PROVE  \A n \in Node : Key(n)'
<1>0. TypeOK /\ WorkTypeOK /\ \A n \in Node : Key(n)
  BY DEF WorkInv, DraftInv
<1>1. ASSUME \A n \in Node : KeyTurned(n), KeysStay PROVE \A n \in Node : Key(n)'
  BY <1>0, <1>1, KeyKept DEF KeysStay
<1>2. ASSUME UNCHANGED vars PROVE \A n \in Node : KeyTurned(n)
  BY <1>2 DEF vars, nodes, KeyTurned
<1>3. ASSUME UNCHANGED <<vars, asked, landed, owed>> PROVE \A n \in Node : Key(n)'
  BY <1>0, <1>3 DEF vars, nodes, Key
<1>4. CASE \E n \in Node : Generate(n) \/ Approve(n) \/ Reject(n)
  <2>1. PICK k \in Node : Generate(k) \/ Approve(k) \/ Reject(k)
    BY <1>4
  <2>2. CASE Generate(k)
    <3>1. CASE NodeGenerationRequested(k)
      <4>1. \A n \in Node : KeyTurned(n)
        BY <1>0, <3>1 DEF NodeGenerationRequested, NodeMoves, Becomes, KeyTurned, TypeOK
      <4> QED  BY <1>1, <2>2, <4>1 DEF Generate
    <3> QED  BY <1>1, <1>2, <2>2, <3>1 DEF Generate
  <2>3. CASE Approve(k)
    <3> DEFINE l == [landed EXCEPT ![k] = @ \cup {"approve"}]
    <3>1. NodeApproved(k) /\ Keys(asked, l) /\ Owes(owed)
      BY <2>3 DEF Approve
    <3>2. (\A n \in Node : KeyTurned(n)) /\ st'[k] = "NodeApproved"
      BY <1>0, <3>1 DEF NodeApproved, Becomes, KeyTurned, TypeOK
    <3>3. \A n \in Node : l[n] = landed[n] \/ (l[n] = landed[n] \cup {"approve"} /\ st'[n] = "NodeApproved")
      BY <1>0, <3>2 DEF WorkTypeOK
    <3> HIDE DEF l
    <3> QED  BY <1>0, <3>1, <3>2, <3>3, KeyKept
  <2>4. CASE Reject(k)
    <3>1. \A n \in Node : KeyTurned(n)
      BY <1>0, <2>4, VerdictTurns, TurnedKeys DEF Reject
    <3> QED  BY <1>1, <2>4, <3>1 DEF Reject, Aside
  <2> QED  BY <2>1, <2>2, <2>3, <2>4
<1>5. CASE Release
  <2>1. \A n \in Node : st[n] = "NodeRecovery" => op[n] \in {"lost", "screening"}
    BY <1>0 DEF Key
  <2>2. BlockedInputFixed(Known)
    BY <1>5 DEF Release
  <2>3. \A n \in Node : KeyTurned(n)
    BY <1>0, <2>1, <2>2 DEF BlockedInputFixed, Released, Becomes, KeyTurned, TypeOK
  <2> QED  BY <1>1, <1>5, <2>3 DEF Release, Aside
<1>6. CASE Outside
  <2>1. \A n \in Node : KeyTurned(n)
    BY <1>0, <1>6, OutsideTurns, TurnedKeys DEF Outside
  <2> QED  BY <1>1, <1>6, <2>1 DEF Outside, Aside
<1>7. CASE Settles
  <2>1. \A n \in Node : KeyTurned(n)
    BY <1>0, <1>7, OutsideTurns, SettlingTurns, TurnedKeys DEF Settles
  <2> QED  BY <1>1, <1>7, <2>1 DEF Settles, Aside
<1>8. CASE AskModel
  <2>9. PICK k \in Node : k = job.node
    BY <1>0 DEF WorkTypeOK, Jobs
  <2> DEFINE a == [asked EXCEPT ![k] = "issued"]
             o == [owed EXCEPT ![k] = TRUE]
  <2>1. CASE KeysStay
    BY <1>1, <1>2, <1>8, <2>1 DEF AskModel
  <2>2. CASE ~KeysStay
    <3>1. UNCHANGED vars /\ st[k] = "ContentDrafting" /\ Keys(a, landed) /\ Owes(o)
      <4>1. /\ UNCHANGED vars /\ asked[job.node] # "landed" /\ MayGenerate(job.node)
            /\ Keys([asked EXCEPT ![job.node] = "issued"], landed)
            /\ Owes([owed EXCEPT ![job.node] = TRUE])
        <5> HIDE DEF KeysStay
        <5> QED  BY <1>8, <2>2 DEF AskModel
      <4> QED  BY <2>9, <4>1 DEF MayGenerate
    <3>2. \A n \in Node \ {k} : a[n] = asked[n] /\ o[n] = owed[n]
      BY <1>0 DEF WorkTypeOK
    <3>3. a[k] = "issued" /\ o[k] = TRUE
      BY <1>0, <3>1 DEF WorkTypeOK
    <3> HIDE DEF a, o
    <3>4. \A n \in Node \ {k} : Key(n)'
      BY <1>0, <1>2, <3>1, <3>2, KeyKept
    <3>5. st' = st /\ op' = op
      BY <3>1 DEF vars, nodes
    <3>6. asked'[k] = "issued" /\ owed'[k] = TRUE /\ landed'[k] = landed[k]
      BY <3>1, <3>3, <3>5 DEF Keys, Owes, NewDraft, NewRound
    <3>7. Key(k)'
      BY <1>0, <3>1, <3>5, <3>6 DEF Key
    <3> QED  BY <3>4, <3>7
  <2> QED  BY <2>1, <2>2
<1>9. CASE Written \/ AskScreener \/ Screened \/ ScreenWaiting \/ ServiceRollsOut \/ WindowPasses \/ Restart
  BY <1>3, <1>9 DEF Written, AskScreener, Screened, ScreenWaiting, ServiceRollsOut, WindowPasses, Restart
<1>10. CASE ModelAnswers
  <2>9. PICK k \in Node : k = job.node
    BY <1>0 DEF WorkTypeOK, Jobs
  <2> DEFINE a == [asked EXCEPT ![k] = "landed"]
             o == [owed EXCEPT ![k] = FALSE]
  <2>1. CASE UNCHANGED vars /\ KeysStay
    BY <1>1, <1>2, <2>1
  <2>2. CASE NodeGenerated(k) /\ Keys(a, landed) /\ Owes(o)
    <3>2. \A n \in Node \ {k} : a[n] = asked[n] /\ o[n] = owed[n]
      BY <1>0 DEF WorkTypeOK
    <3> HIDE DEF a, o
    <3>3. (\A n \in Node \ {k} : KeyTurned(n)) /\ st'[k] = "Generated"
      BY <1>0, <2>2, GeneratedTurns, TurnedKeys
    <3>4. \A n \in Node \ {k} : Key(n)'
      BY <1>0, <2>2, <3>2, <3>3, KeyKept
    <3>6. ~owed'[k]
      BY <2>2, <3>3 DEF Owes
    <3>7. Key(k)'
      BY <3>3, <3>6 DEF Key
    <3> QED  BY <3>4, <3>7
  <2> QED  BY <1>10, <2>1, <2>2, <2>9 DEF ModelAnswers
<1>11. CASE \E malformed \in BOOLEAN : ModelFails(malformed)
  <2>0. PICK malformed \in BOOLEAN : ModelFails(malformed)
    BY <1>11
  <2>9. PICK k \in Node : k = job.node
    BY <1>0 DEF WorkTypeOK, Jobs
  <2> DEFINE a == [asked EXCEPT ![k] = IF malformed THEN "never" ELSE @]
             o == [owed EXCEPT ![k] = ~malformed]
  <2>1. CASE UNCHANGED vars /\ KeysStay
    BY <1>1, <1>2, <2>1
  <2>2. CASE st[k] = "ContentDrafting" /\ Timeout(k) /\ op'[k] # "landed" /\ Keys(a, landed) /\ Owes(o)
    <3>2. \A n \in Node \ {k} : a[n] = asked[n] /\ o[n] = owed[n]
      BY <1>0 DEF WorkTypeOK
    <3>3. a[k] = (IF malformed THEN "never" ELSE asked[k]) /\ o[k] = ~malformed
      BY <1>0 DEF WorkTypeOK
    <3>4. owed[k]
      BY <2>0, <2>2, <2>9 DEF WorkInv, DraftInv, Asking, ModelFails
    <3>5. asked[k] = "issued"
      BY <1>0, <2>2, <3>4 DEF Key
    <3> HIDE DEF a, o
    <3>6. (\A n \in Node \ {k} : KeyTurned(n)) /\ st'[k] = "NodeRecovery" /\ op'[k] = "lost"
      BY <1>0, <2>2, TimeoutTurns, TurnedKeys
    <3>7. \A n \in Node \ {k} : Key(n)'
      BY <1>0, <2>2, <3>2, <3>6, KeyKept
    <3>8. asked'[k] = (IF malformed THEN "never" ELSE "issued") /\ (owed'[k] <=> ~malformed)
      BY <2>2, <3>3, <3>5, <3>6 DEF Keys, Owes, NewDraft
    <3>9. Key(k)'
      BY <3>6, <3>8 DEF Key
    <3> QED  BY <3>7, <3>9
  <2> QED  BY <2>0, <2>1, <2>2, <2>9 DEF ModelFails
<1>12. CASE ScreenerAnswers
  <2>9. PICK k \in Node : k = job.node
    BY <1>0 DEF WorkTypeOK, Jobs
  <2> DEFINE l == [landed EXCEPT ![k] = @ \cup {"admit"}]
  <2>1. CASE UNCHANGED vars /\ KeysStay
    BY <1>1, <1>2, <2>1
  <2>2. CASE GuardrailVerdict(k) /\ Keys(asked, l) /\ Owes(owed)
    <3>2. \A n \in Node : l[n] = landed[n] \/ (n = k /\ l[n] = landed[n] \cup {"admit"})
      BY <1>0 DEF WorkTypeOK
    <3> HIDE DEF l
    <3>3. (\A n \in Node : KeyTurned(n)) /\ st'[k] # "OutputGuardrail"
      BY <1>0, <2>2, VerdictTurns, TurnedKeys
    <3> QED  BY <1>0, <2>2, <3>2, <3>3, KeyKept
  <2> QED  BY <1>12, <2>1, <2>2, <2>9 DEF ScreenerAnswers
<1>13. CASE ScreenerFails
  <2>9. PICK k \in Node : k = job.node
    BY <1>0 DEF WorkTypeOK, Jobs
  <2>1. CASE UNCHANGED vars /\ KeysStay
    BY <1>1, <1>2, <2>1
  <2>2. CASE st[k] = "OutputGuardrail" /\ Timeout(k) /\ KeysStay
    <3>2. op'[k] # "landed"
      BY <1>0, <2>2 DEF Timeout, Becomes, TypeOK
    <3>3. (\A n \in Node \ {k} : KeyTurned(n)) /\ st'[k] = "NodeRecovery" /\ op'[k] = "screening"
      BY <1>0, <2>2, <3>2, TimeoutTurns, TurnedKeys
    <3>4. \A n \in Node \ {k} : Key(n)'
      BY <1>0, <2>2, <3>3, KeyKept DEF KeysStay
    <3>5. ~owed[k]
      BY <1>0, <2>2 DEF Key
    <3>6. owed'[k] => owed[k]
      BY <2>2 DEF KeysStay, Owes
    <3>7. Key(k)'
      BY <3>3, <3>5, <3>6 DEF Key
    <3> QED  BY <3>4, <3>7
  <2> QED  BY <1>13, <2>1, <2>2, <2>9 DEF ScreenerFails
<1>14. CASE UNCHANGED workVars
  BY <1>3, <1>14 DEF workVars, gateway
<1> QED  BY <1>4, <1>5, <1>6, <1>7, <1>8, <1>9, <1>10, <1>11, <1>12, <1>13, <1>14 DEF WorkNext, Thread, Answer

--------------------------------------------------------------------------------
(* What a press has paid for                                                    *)

LEMMA FreeIsFree ==
    ASSUME WorkInv, Free
    PROVE  ~Mid /\ job.then = "next"
BY DEF WorkInv, WorkTypeOK, Forms, Asking, Free, Mid

LEMMA DraftKept ==
    ASSUME WorkInv, [WorkNext]_workVars
    PROVE  DraftInv' /\ Waits'
BY WorkIsDraft, NextDraftInv, WaitsKept DEF WorkInv

LEMMA DraftTurns ==
    ASSUME WorkInv, Outside \/ Settles
    PROVE  UNCHANGED outline /\ (\A n \in Node : Turned(n)) /\ Aside
BY OutsideTurns, SettlingTurns DEF Outside, Settles, WorkInv, DraftInv

LEMMA AskingKept ==
    ASSUME WorkInv, [WorkNext]_workVars
    PROVE  Asking'
<1>0. TypeOK /\ WorkTypeOK /\ Asking
  BY DEF WorkInv, DraftInv
<1>1. PICK k \in Node : k = job.node
  BY <1>0 DEF WorkTypeOK, Jobs
<1>2. ASSUME call' = "none" PROVE Asking'
  BY <1>2 DEF Asking
<1>3. CASE Free /\ UNCHANGED call
  BY <1>0, <1>2, <1>3, FreeIsFree DEF Mid
<1>4. CASE Outside \/ Settles
  <2>1. UNCHANGED outline /\ (\A n \in Node : Turned(n)) /\ Aside
    BY <1>4, DraftTurns
  <2>2. UNCHANGED <<job, call>> /\ owed'[k] = (owed[k] /\ st'[k] \in {"ContentDrafting", "NodeRecovery"})
    BY <2>1 DEF Aside, KeysStay, Owes
  <2>3. ~TopicsStand(k) => ~TopicsStand(k)'
    BY <1>0, <2>1, TopicsStayDown DEF Turned
  <2>4. ASSUME call = "model"
        PROVE  IF st'[k] = "ContentDrafting" THEN owed'[k] ELSE ~TopicsStand(k)'
    <3>1. IF st[k] = "ContentDrafting" THEN owed[k] ELSE ~TopicsStand(k)
      BY <1>0, <1>1, <2>4 DEF Asking
    <3> QED  BY <2>1, <2>2, <2>3, <3>1 DEF Turned
  <2>5. job'.node = k
    BY <1>1, <2>2
  <2> QED  BY <1>0, <2>2, <2>4, <2>5 DEF Asking, TopicsStand
<1>5. CASE AskModel
  <2>1. CASE call' = "model"
    <3>1. /\ job' = job /\ job.doing = "generate" /\ st[job.node] = "ContentDrafting"
          /\ Owes([owed EXCEPT ![job.node] = TRUE]) /\ UNCHANGED vars
      BY <1>0, <1>5, <2>1 DEF AskModel, Runs, Mid, MayGenerate, WorkTypeOK
    <3>2. st'[k] = "ContentDrafting" /\ owed'[k]
      BY <1>0, <1>1, <3>1 DEF vars, nodes, Owes, WorkTypeOK
    <3> QED  BY <1>1, <2>1, <3>1, <3>2 DEF Asking
  <2>2. CASE call' # "model"
    BY <1>0, <1>2, <1>5, <2>2 DEF AskModel, Runs, Mid
  <2> QED  BY <2>1, <2>2
<1>6. CASE AskScreener
  BY <1>2, <1>6 DEF AskScreener, Runs, Mid, Asking
<1>7. CASE Written \/ Screened
  BY <1>2, <1>7 DEF Written, Screened, Runs, Mid
<1>8. CASE Answer \/ Restart
  BY <1>2, <1>8 DEF Answer, ModelAnswers, ModelFails, ScreenerAnswers, ScreenerFails, Restart
<1>9. CASE UNCHANGED <<vars, job, call, owed>>
  BY <1>0, <1>9 DEF Asking, TopicsStand, ContentApproved, TopicsIn, vars, nodes, outline
<1> QED  BY <1>3, <1>4, <1>5, <1>6, <1>7, <1>8, <1>9
         DEF WorkNext, Thread, Generate, Approve, Reject, Release, ScreenWaiting, Aside,
             ServiceRollsOut, WindowPasses, workVars, gateway

\* What is paid for node k, when the call in flight is c.
EvenWith(k, c) ==
    /\ paid <= repairs[k] + 1
    /\ st[k] = "ContentDrafting" /\ c # "model" => paid <= repairs[k]
    /\ waiting[k] => ~TopicsStand(k)

LEMMA EvenKept ==
    ASSUME TypeOK, TypeOK', paid \in Nat, UNCHANGED <<paid, outline>>, NEW k \in Node, NEW c,
           \A n \in Node : Turned(n), EvenWith(k, c)
    PROVE  EvenWith(k, c)'
<1>1. repairs[k] \in Nat /\ repairs'[k] \in Nat
  BY BudgetAssumption DEF TypeOK
<1>2. ~TopicsStand(k) => ~TopicsStand(k)'
  BY TopicsStayDown DEF Turned
<1>3. waiting'[k] => ~TopicsStand(k)'
  BY <1>2 DEF Turned, EvenWith
<1>4. paid' <= repairs'[k] + 1
  BY <1>1 DEF Turned, EvenWith
<1>5. ASSUME st'[k] = "ContentDrafting", c # "model" PROVE paid' <= repairs'[k]
  <2>1. CASE st[k] = "ContentDrafting"
    BY <1>1, <1>5, <2>1 DEF Turned, EvenWith
  <2>2. CASE st[k] # "ContentDrafting"
    <3>1. TopicsStand(k) /\ ~waiting[k]
      BY <1>5, <2>2 DEF Turned, EvenWith
    <3>2. repairs'[k] = repairs[k] + 1
      BY <1>5, <2>2, <3>1 DEF Turned
    <3> QED  BY <1>1, <3>2 DEF EvenWith
  <2> QED  BY <2>1, <2>2
<1> QED  BY <1>3, <1>4, <1>5 DEF EvenWith

\* A screening either goes back to the generation it was part of or has none.
LEMMA EndsAsPart ==
    ASSUME WorkTypeOK, ScreeningEnds
    PROVE  job'.then = "generate" => job.then = "generate" /\ job'.node = job.node
BY DEF ScreeningEnds, Generating, Returns, Idle, Screening, WorkTypeOK, Jobs

LEMMA PressingKept ==
    ASSUME WorkInv, [WorkNext]_workVars
    PROVE  Pressing'
<1> DEFINE SamePart == job'.then = "generate" => job.then = "generate" /\ job'.node = job.node
<1>0. TypeOK /\ WorkTypeOK /\ Waits /\ Forms /\ Asking /\ Pressing /\ TypeOK' /\ WorkTypeOK' /\ Waits'
  BY DraftKept, WorkTyped DEF WorkInv, DraftInv
<1>1. PICK k \in Node, c \in {"none", "model", "screener"} : k = job.node /\ c = call
  BY <1>0 DEF WorkTypeOK, Jobs
<1>2. paid \in Nat /\ paid <= Budget + 1 /\ paid' \in Nat /\ repairs[k] \in Nat /\ repairs'[k] \in 0..Budget
  BY <1>0, BudgetAssumption DEF WorkTypeOK, TypeOK, Pressing
<1>3. job.then = "generate" => EvenWith(k, c)
  BY <1>0, <1>1 DEF Pressing, EvenWith
\* What is left to show of a press that goes on, and of one that is over.
<1>4. ASSUME SamePart, EvenWith(k, c)' \/ job.then # "generate", c # "model" \/ call' = call \/ st'[k] # "ContentDrafting",
             paid' = paid
      PROVE  Pressing'
  <2>1. CASE job'.then = "generate"
    <3>1. job'.node = k /\ EvenWith(k, c)'
      BY <1>1, <1>4, <2>1
    <3>2. paid' <= Budget + 1
      BY <1>2, <1>4
    <3> QED  BY <1>1, <1>4, <3>1, <3>2 DEF EvenWith, Pressing, TopicsStand
  <2>2. CASE job'.then # "generate"
    BY <1>2, <1>4, <2>2 DEF Pressing
  <2> QED  BY <2>1, <2>2
<1>5. ASSUME job'.then = "next", paid' = paid \/ paid' = 0
      PROVE  Pressing'
  BY <1>2, <1>5, BudgetAssumption DEF Pressing
<1>6. ASSUME UNCHANGED vars, SamePart, paid' = paid, c # "model" \/ call' = call
      PROVE  Pressing'
  <2>1. EvenWith(k, c)' \/ job.then # "generate"
    BY <1>3, <1>6 DEF EvenWith, TopicsStand, ContentApproved, TopicsIn, vars, nodes, outline
  <2> HIDE DEF SamePart
  <2> QED  BY <1>4, <1>6, <2>1
<1>7. ASSUME UNCHANGED outline, \A n \in Node : Turned(n), SamePart, paid' = paid, c # "model" \/ call' = call
      PROVE  Pressing'
  <2>1. EvenWith(k, c)' \/ job.then # "generate"
    BY <1>0, <1>2, <1>3, <1>7, EvenKept
  <2> HIDE DEF SamePart
  <2> QED  BY <1>4, <1>7, <2>1
<1>8. ASSUME st'[k] \in {"Generated", "NodeRecovery"}, repairs' = repairs, ~waiting'[k], SamePart, paid' = paid
      PROVE  Pressing'
  <2>1. EvenWith(k, c)' \/ job.then # "generate"
    BY <1>2, <1>3, <1>8 DEF EvenWith
  <2> HIDE DEF SamePart
  <2> QED  BY <1>4, <1>8, <2>1
<1>9. CASE \E n \in Node : Generate(n)
  <2>1. PICK n \in Node : Generate(n)
    BY <1>9
  <2>2. CASE job' = Screening(n, "next", {})
    BY <1>5, <2>1, <2>2 DEF Generate, Screening
  <2>3. CASE job' = Generating(n) /\ (UNCHANGED vars \/ NodeGenerationRequested(n)) /\ st'[n] = "ContentDrafting"
    <3>1. job'.node = n /\ paid' = 0 /\ repairs'[n] \in 0..Budget
      BY <1>0, <2>1, <2>3 DEF Generate, Generating, TypeOK
    <3>2. ~waiting'[n]
      BY <1>0, <2>3 DEF Waits
    <3> QED  BY <3>1, <3>2, BudgetAssumption DEF Pressing
  <2>4. NodeGenerationRequested(n) => st'[n] = "ContentDrafting"
    BY <1>0 DEF NodeGenerationRequested, NodeMoves, Becomes, TypeOK
  <2>5. UNCHANGED vars => st' = st
    BY DEF vars, nodes
  <2> QED  BY <2>1, <2>2, <2>3, <2>4, <2>5 DEF Generate
<1>10. CASE Release \/ \E n \in Node : Approve(n) \/ Reject(n)
  <2>1. job' = job /\ paid' = paid /\ Free
    BY <1>10 DEF Release, Approve, Reject, Aside
  <2> QED  BY <1>5, <2>1, FreeIsFree
<1>11. CASE ScreenWaiting
  BY <1>5, <1>11 DEF ScreenWaiting, Screening
<1>12. CASE Outside \/ Settles
  <2>1. UNCHANGED outline /\ (\A n \in Node : Turned(n)) /\ Aside
    BY <1>12, DraftTurns
  <2> QED  BY <1>7, <2>1 DEF Aside
<1>13. CASE AskModel
  <2>1. CASE job'.then = "next" /\ paid' = paid
    BY <1>5, <2>1
  <2>2. CASE /\ UNCHANGED <<vars, job>> /\ call = "none" /\ call' = "model" /\ job.doing = "generate"
             /\ st[job.node] = "ContentDrafting" /\ paid' = IF paid <= Budget + 1 THEN paid + 1 ELSE paid
    <3>1. job.then = "generate"
      BY <1>0, <2>2 DEF Forms
    <3>2. paid <= repairs[k] /\ (waiting[k] => ~TopicsStand(k))
      BY <1>1, <1>3, <2>2, <3>1 DEF EvenWith
    <3>3. /\ repairs' = repairs /\ waiting' = waiting /\ (TopicsStand(k)' <=> TopicsStand(k))
      BY <2>2 DEF vars, nodes, outline, TopicsStand, ContentApproved, TopicsIn
    <3>4. paid' = paid + 1
      BY <1>2, <2>2
    <3>5. job'.node = k /\ paid' <= repairs'[k] + 1 /\ paid' <= Budget + 1
      BY <1>1, <1>2, <2>2, <3>2, <3>3, <3>4, BudgetAssumption
    <3>6. waiting'[k] => ~TopicsStand(k)'
      BY <3>2, <3>3
    <3> QED  BY <2>2, <3>5, <3>6 DEF Pressing, TopicsStand
  <2> QED  BY <1>0, <1>13, <2>1, <2>2 DEF AskModel, Runs, Mid, MayGenerate, Returns, Idle, WorkTypeOK
<1>14. CASE Written
  <2>1. UNCHANGED vars /\ paid' = paid /\ call' = call
    BY <1>14 DEF Written
  <2>2. SamePart
    <3>1. job.doing = "wrote" /\ job.then = "generate"
      BY <1>0, <1>14 DEF Written, Runs, Forms
    <3> QED  BY <1>0, <1>14, <3>1 DEF Written, Screening, WorkTypeOK, Jobs
  <2> QED  BY <1>6, <2>1, <2>2
<1>15. CASE AskScreener \/ Screened
  <2>1. UNCHANGED vars /\ paid' = paid /\ call = "none"
    BY <1>0, <1>15 DEF AskScreener, Screened, Runs, Mid, WorkTypeOK
  <2>2. SamePart
    <3>1. CASE ScreeningEnds
      BY <1>0, <3>1, EndsAsPart
    <3>2. CASE Returns(TRUE)
      BY <3>2 DEF Returns, Idle
    <3>3. CASE job' = job \/ job' = [job EXCEPT !.doing = "screen", !.left = job.left - 1]
      BY <1>0, <3>3 DEF WorkTypeOK, Jobs
    <3> HIDE DEF SamePart
    <3> QED  BY <1>15, <3>1, <3>2, <3>3 DEF AskScreener, Screened
  <2> QED  BY <1>1, <1>6, <2>1, <2>2
<1>16. CASE ModelAnswers
  <2>1. CASE NodeGenerated(job.node) /\ job' = [job EXCEPT !.doing = "wrote"] /\ paid' = paid
    <3>1. SamePart
      BY <1>0, <2>1 DEF WorkTypeOK, Jobs
    <3>2. st'[k] = "Generated" /\ repairs' = repairs /\ ~waiting'[k]
      BY <1>0, <1>1, <2>1, GeneratedTurns
    <3> QED  BY <1>8, <2>1, <3>1, <3>2
  <2>2. CASE Returns(FALSE) /\ paid' = paid
    BY <1>5, <2>2 DEF Returns, Idle
  <2> QED  BY <1>16, <2>1, <2>2 DEF ModelAnswers
<1>17. CASE \E malformed \in BOOLEAN : ModelFails(malformed)
  <2>1. CASE Timeout(job.node) /\ op'[job.node] # "landed" /\ job' = job /\ paid' = paid
    <3>1. st'[k] = "NodeRecovery" /\ repairs' = repairs /\ ~waiting'[k]
      BY <1>0, <1>1, <2>1, TimeoutTurns
    <3> QED  BY <1>8, <2>1, <3>1
  <2>2. CASE Returns(TRUE) /\ paid' = paid
    BY <1>5, <2>2 DEF Returns, Idle
  <2> QED  BY <1>17, <2>1, <2>2 DEF ModelFails
<1>18. CASE ScreenerAnswers
  <2>1. CASE GuardrailVerdict(job.node) /\ job' = [job EXCEPT !.doing = "screened"] /\ paid' = paid
    <3>1. SamePart
      BY <1>0, <2>1 DEF WorkTypeOK, Jobs
    <3>2. UNCHANGED outline /\ (\A n \in Node : Turned(n))
      BY <1>0, <1>1, <2>1, VerdictTurns
    <3> QED  BY <1>1, <1>7, <1>18, <2>1, <3>1, <3>2 DEF ScreenerAnswers
  <2>2. CASE Returns(TRUE) /\ paid' = paid
    BY <1>5, <2>2 DEF Returns, Idle
  <2>3. CASE UNCHANGED vars /\ ScreeningEnds /\ paid' = paid
    BY <1>0, <1>1, <1>6, <1>18, <2>3, EndsAsPart DEF ScreenerAnswers
  <2> QED  BY <1>18, <2>1, <2>2, <2>3 DEF ScreenerAnswers
<1>19. CASE ScreenerFails
  <2>1. CASE st[job.node] = "OutputGuardrail" /\ Timeout(job.node) /\ job' = [job EXCEPT !.doing = "screened"] /\ paid' = paid
    <3>1. SamePart
      BY <1>0, <2>1 DEF WorkTypeOK, Jobs
    <3>2. op'[k] # "landed"
      BY <1>0, <1>1, <2>1 DEF Timeout, Becomes, TypeOK
    <3>3. st'[k] = "NodeRecovery" /\ repairs' = repairs /\ ~waiting'[k]
      BY <1>0, <1>1, <2>1, <3>2, TimeoutTurns
    <3> QED  BY <1>8, <2>1, <3>1, <3>3
  <2>2. CASE Returns(TRUE) /\ paid' = paid
    BY <1>5, <2>2 DEF Returns, Idle
  <2> QED  BY <1>19, <2>1, <2>2 DEF ScreenerFails
<1>20. CASE Restart
  BY <1>5, <1>20 DEF Restart, Returns, Idle
<1>21. CASE UNCHANGED <<vars, job, call, paid>>
  BY <1>6, <1>21
<1> HIDE DEF SamePart
<1> QED  BY <1>9, <1>10, <1>11, <1>12, <1>13, <1>14, <1>15, <1>16, <1>17, <1>18, <1>19, <1>20, <1>21
         DEF WorkNext, Thread, Answer, ServiceRollsOut, WindowPasses, workVars, gateway

--------------------------------------------------------------------------------
(* Nobody is left waiting                                                       *)

\* A node being drafted, or on its way back to be.
Drafting(n) ==
    \/ st[n] \in {"ContentDrafting", "NodeRepair"}
    \/ st[n] = "NodeRecovery" /\ op[n] = "lost"

\* The loop of generate_node looks at a node that it is drafting, or at one that
\* nothing will move before it looks.
Writing ==
    job.doing = "generate" =>
        \/ Drafting(job.node)
        \/ ~Mid /\ Settled /\ (st[job.node] # "OutputGuardrail" \/ ~AtWork)

\* Neither the machine's own rows nor what comes from elsewhere takes a node out
\* of its drafting.
LEMMA DraftingKept ==
    ASSUME TypeOK, NEW n \in Node, Drafting(n), Outside \/ Settles
    PROVE  Drafting(n)'
<1> USE DEF Drafting, TypeOK
<1>1. CASE \E k \in Node : NodeSettles(k)
  <2>1. PICK k \in Node : NodeSettles(k)
    BY <1>1
  <2> USE DEF Becomes, NodeMoves
  <2>2. CASE ToGuardrail(k) \/ WriteLanded(k)
    BY <2>2 DEF ToGuardrail, WriteLanded
  <2>3. CASE Retry(k)
    BY <2>3 DEF Retry
  <2>4. CASE ChecksPass(k) \/ ChecksFail(k)
    BY <2>4 DEF ChecksPass, ChecksFail
  <2>5. CASE Repair(k)
    BY <2>5 DEF Repair
  <2>6. CASE RepairsSpent(k) \/ Revalidate(k)
    BY <2>6 DEF RepairsSpent, Revalidate
  <2> QED  BY <2>1, <2>2, <2>3, <2>4, <2>5, <2>6 DEF NodeSettles
<1>2. CASE \E k \in Node : NodeEdited(k)
  <2>1. PICK k \in Node : NodeEdited(k)
    BY <1>2
  <2> DEFINE to == IF st[k] = "NodeApproved" THEN "NeedsRevalidation" ELSE st[k]
             s == [st EXCEPT ![k] = to]
             reached == [m \in Node |-> IF m \in DependentsOf(k, st, spec) THEN {k} ELSE {}]
             topics == TopicsIn(spec, committed)
             c == Cascade(s, reached, topics)
  <2>2. \E r, d : Becomes(r, c.st, op, repairs, c.back, d)
    BY <2>1 DEF NodeEdited, Replaces
  <2>3. s \in [Node -> NodeStates] /\ topics \in [Node -> SUBSET Node] /\ s[n] = st[n]
    BY DEF NodeStates, TopicsIn
  <2> HIDE DEF s, topics, reached
  <2>4. \/ c.st[n] = s[n]
        \/ s[n] = "NodeApproved"
        \/ c.st[n] = "NodeRepair"
    BY <2>3, CascadeTurns
  <2> HIDE DEF c
  <2> QED  BY <2>2, <2>3, <2>4 DEF Becomes
<1>3. CASE \E to \in Versions : ConfigChanged(to)
  BY <1>3 DEF ConfigChanged, Becomes, Outdated
<1>4. CASE OutlineRevised \/ OutlineRejected \/ WholeCourseChecked
  BY <1>4 DEF OutlineRevised, OutlineRejected, WholeCourseChecked, Becomes, nodes
<1> QED  BY <1>1, <1>2, <1>3, <1>4 DEF Outside, Settles

\* Once the machine has settled, and while no provider is being asked, only the
\* act that is served goes on.
LEMMA SettledStays ==
    ASSUME Settled, ~Free, ~Mid
    PROVE  ~Outside /\ ~Settles
<1>1. ~Outside
  BY DEF Outside
<1>2. \A n \in Node : ~NodeSettles(n)
  BY DEF Settled, Quiet, NodeSettles, Turn, ToGuardrail, WriteLanded, Retry, ChecksPass, ChecksFail,
     Repair, RepairsSpent, Revalidate
<1>3. ~WholeCourseChecked
  BY DEF Settled, Quiet, WholeCourseChecked, IsDraft, Closed
<1> QED  BY <1>1, <1>2, <1>3 DEF Settles

\* A screening hands the node back to its loop as the loop may find it.
LEMMA EndsWriting ==
    ASSUME WorkTypeOK, ScreeningEnds, UNCHANGED vars, call' = "none", Settled,
           st[job.node] # "OutputGuardrail" \/ ~AtWork
    PROVE  Writing'
<1>1. job'.doing = "generate" => job'.node = job.node
  BY DEF ScreeningEnds, Generating, Returns, Idle, Screening
<1>2. Settled' /\ (st'[job.node] # "OutputGuardrail" \/ ~AtWork')
  BY DEF vars, course, nodes, outline, rules, Settled, Quiet, IsDraft, Busy, AtWork, BudgetLeft,
     TopicsStand, ContentApproved, TopicsIn
<1> QED  BY <1>1, <1>2 DEF Writing, Mid

LEMMA WritingKept ==
    ASSUME WorkInv, Writing, [WorkNext]_workVars
    PROVE  Writing'
<1>0. TypeOK /\ WorkTypeOK /\ Forms /\ job.node \in Node /\ (\A n \in Node : Key(n)) /\ Asking
  BY DEF WorkInv, DraftInv, WorkTypeOK, Jobs
<1>1. ASSUME job'.doing # "generate" PROVE Writing'
  BY <1>1 DEF Writing
<1>2. ASSUME Returns(TRUE) \/ Returns(FALSE) PROVE Writing'
  BY <1>1, <1>2 DEF Returns, Idle
<1>3. ASSUME UNCHANGED <<vars, job, call>> PROVE Writing'
  BY <1>3 DEF Writing, Drafting, Mid, vars, course, nodes, outline, rules, Settled, Quiet, IsDraft,
     Busy, AtWork, BudgetLeft, TopicsStand, ContentApproved, TopicsIn
<1>4. ASSUME UNCHANGED <<vars, job>>, call = "none", st[job.node] = "ContentDrafting"
      PROVE  Writing'
  BY <1>4 DEF Writing, Drafting, vars, nodes
<1>5. CASE \E n \in Node : Generate(n)
  <2>1. PICK n \in Node : Generate(n)
    BY <1>5
  <2>2. CASE job' = Screening(n, "next", {})
    BY <1>1, <2>2 DEF Screening
  <2>3. CASE job' = Generating(n) /\ (NodeGenerationRequested(n) \/ (st[n] = "ContentDrafting" /\ UNCHANGED vars))
    <3>1. job'.node = n /\ st'[n] = "ContentDrafting"
      BY <1>0, <2>3 DEF Generating, NodeGenerationRequested, NodeMoves, Becomes, TypeOK, vars, nodes
    <3> QED  BY <3>1 DEF Writing, Drafting
  <2> QED  BY <2>1, <2>2, <2>3 DEF Generate
<1>6. CASE Release \/ (\E n \in Node : Approve(n) \/ Reject(n)) \/ ScreenWaiting
  <2>1. CASE ScreenWaiting
    BY <1>1, <2>1 DEF ScreenWaiting, Screening
  <2>2. CASE job' = job /\ Free
    BY <1>1, <2>2 DEF Free
  <2> QED  BY <1>6, <2>1, <2>2 DEF Release, Approve, Reject, Aside
<1>7. CASE Outside \/ Settles
  <2>1. UNCHANGED <<job, call>>
    BY <1>7 DEF Outside, Settles, Aside
  <2>2. CASE job.doing # "generate"
    BY <1>1, <2>1, <2>2
  <2>3. CASE job.doing = "generate" /\ Drafting(job.node)
    <3>1. Drafting(job.node)'
      <4>1. PICK k \in Node : k = job.node
        BY <1>0
      <4>2. Drafting(k)'
        BY <1>0, <1>7, <2>3, <4>1, DraftingKept
      <4> QED  BY <2>1, <4>1, <4>2 DEF Drafting
    <3> QED  BY <3>1 DEF Writing
  <2>4. CASE job.doing = "generate" /\ ~Drafting(job.node)
    BY <1>7, <2>4, SettledStays DEF Writing, Free
  <2> QED  BY <2>2, <2>3, <2>4
<1>8. CASE AskModel
  <2>1. CASE Returns(TRUE) \/ Returns(FALSE)
    BY <1>2, <2>1
  <2>2. CASE UNCHANGED <<vars, job>> /\ MayGenerate(job.node) /\ call = "none"
    BY <1>4, <2>2 DEF MayGenerate
  <2> QED  BY <1>0, <1>8, <2>1, <2>2 DEF AskModel, Runs, Mid, WorkTypeOK
<1>9. CASE ModelAnswers
  <2>1. CASE job' = [job EXCEPT !.doing = "wrote"]
    BY <1>0, <1>1, <2>1 DEF WorkTypeOK, Jobs
  <2> QED  BY <1>2, <1>9, <2>1 DEF ModelAnswers
<1>10. CASE \E malformed \in BOOLEAN : ModelFails(malformed)
  <2>1. CASE st[job.node] = "ContentDrafting" /\ Timeout(job.node) /\ op'[job.node] # "landed" /\ job' = job
    <3>1. st'[job.node] = "NodeRecovery" /\ op'[job.node] = "lost"
      BY <1>0, <2>1 DEF Timeout, Becomes, TypeOK
    <3> QED  BY <2>1, <3>1 DEF Writing, Drafting
  <2> QED  BY <1>2, <1>10, <2>1 DEF ModelFails
<1>11. CASE Written
  <2>1. CASE st[job.node] = "OutputGuardrail"
    BY <1>1, <1>11, <2>1 DEF Written, Screening
  <2>2. CASE st[job.node] # "OutputGuardrail"
    <3>1. job'.node = job.node /\ UNCHANGED vars /\ call' = "none" /\ Settled
      BY <1>0, <1>11, <2>2 DEF Written, Runs, Mid, WorkTypeOK, Jobs
    <3>2. Settled' /\ st'[job.node] # "OutputGuardrail"
      BY <2>2, <3>1 DEF vars, course, nodes, outline, rules, Settled, Quiet, IsDraft, Busy, AtWork,
         BudgetLeft, TopicsStand, ContentApproved, TopicsIn
    <3> QED  BY <3>1, <3>2 DEF Writing, Mid
  <2> QED  BY <2>1, <2>2
<1>12. CASE AskScreener
  <2>1. job.doing = "screen" /\ call = "none" /\ Settled /\ UNCHANGED vars
    BY <1>12 DEF AskScreener, Runs, Mid
  <2>2. CASE job' = job
    BY <1>1, <2>1, <2>2
  <2>3. CASE ScreeningEnds /\ call' = call /\ ("admit" \in landed[job.node] \/ ~AtWork)
    <3>1. st[job.node] # "OutputGuardrail" \/ ~AtWork
      BY <1>0, <2>3 DEF Key
    <3> QED  BY <1>0, <2>1, <2>3, <3>1, EndsWriting
  <2> QED  BY <1>2, <1>12, <2>2, <2>3 DEF AskScreener
<1>13. CASE Screened
  <2>1. job.doing = "screened" /\ call' = "none" /\ Settled /\ UNCHANGED vars
    BY <1>13 DEF Screened, Runs, Mid
  <2>2. CASE job' = [job EXCEPT !.doing = "screen", !.left = @ - 1]
    BY <1>0, <1>1, <2>2 DEF WorkTypeOK, Jobs
  <2>3. CASE ScreeningEnds /\ st[job.node] # "OutputGuardrail"
    BY <1>0, <2>1, <2>3, EndsWriting
  <2> QED  BY <1>2, <1>13, <2>2, <2>3 DEF Screened
<1>14. CASE ScreenerAnswers \/ ScreenerFails
  <2>1. CASE job' = [job EXCEPT !.doing = "screened"]
    BY <1>0, <1>1, <2>1 DEF WorkTypeOK, Jobs
  <2>2. CASE ScreeningEnds /\ ~AtWork /\ Settled /\ UNCHANGED vars
    BY <1>0, <1>14, <2>2, EndsWriting DEF ScreenerAnswers, ScreenerFails
  <2> QED  BY <1>2, <1>14, <2>1, <2>2 DEF ScreenerAnswers, ScreenerFails
<1>15. CASE Restart
  BY <1>2, <1>15 DEF Restart
<1> QED  BY <1>3, <1>5, <1>6, <1>7, <1>8, <1>9, <1>10, <1>11, <1>12, <1>13, <1>14, <1>15
         DEF WorkNext, Thread, Answer, ServiceRollsOut, WindowPasses, workVars, gateway

\* An act that lets go of a node does so with the node judged, the course away
\* from its work, or a refusal.
LEMMA LetsGo ==
    ASSUME WorkInv, Writing, [WorkNext]_workVars, ~Free, Free' \/ job'.node # job.node, ~refused'
    PROVE  st'[job.node] # "OutputGuardrail" \/ ~AtWork'
<1>0. WorkTypeOK /\ Forms /\ job.node \in Node /\ (\A n \in Node : Key(n)) /\ Asking
  BY DEF WorkInv, WorkTypeOK, Jobs
<1>1. ASSUME UNCHANGED vars, st[job.node] # "OutputGuardrail" \/ ~AtWork
      PROVE  st'[job.node] # "OutputGuardrail" \/ ~AtWork'
  BY <1>1 DEF vars, course, nodes, AtWork
<1>2. ASSUME job' = job PROVE FALSE
  BY <1>2 DEF Free
<1>3. ASSUME NEW d \in Doing \ {"idle"}, job' = [job EXCEPT !.doing = d] PROVE FALSE
  BY <1>0, <1>3 DEF Free, WorkTypeOK, Jobs
<1>4. ~Returns(TRUE)
  BY DEF Returns
<1>5. ~(\E n \in Node : Generate(n) \/ Approve(n) \/ Reject(n)) /\ ~ScreenWaiting /\ ~Release
  BY DEF Generate, Approve, Reject, ScreenWaiting, Release
<1>6. ~Outside /\ ~Settles /\ ~ServiceRollsOut /\ ~WindowPasses /\ ~UNCHANGED workVars
  BY <1>2 DEF Outside, Settles, Aside, ServiceRollsOut, WindowPasses, workVars, gateway
<1>7. ~Restart
  BY <1>4 DEF Restart
<1>8. CASE AskModel
  <2>1. job.doing = "generate" /\ st[job.node] # "ContentDrafting" /\ UNCHANGED vars
    BY <1>2, <1>4, <1>8 DEF AskModel, Runs
  <2>2. st[job.node] # "OutputGuardrail" \/ ~AtWork
    BY <2>1 DEF Writing, Drafting
  <2> QED  BY <1>1, <2>1, <2>2
<1>9. CASE ModelAnswers
  <2>1. UNCHANGED vars /\ call = "model"
    BY <1>3, <1>9 DEF ModelAnswers, Doing
  <2>2. st[job.node] # "OutputGuardrail"
    BY <1>0, <2>1 DEF Writing, Drafting, Mid, Asking
  <2> QED  BY <1>1, <2>1, <2>2
<1>10. ~(\E malformed \in BOOLEAN : ModelFails(malformed))
  BY <1>2, <1>4 DEF ModelFails
<1>11. ~Written
  <2>1. ASSUME Written PROVE job'.node = job.node /\ job'.doing # "idle"
    BY <1>0, <2>1 DEF Written, Screening, WorkTypeOK, Jobs
  <2> QED  BY <2>1 DEF Free
<1>12. CASE AskScreener
  <2>1. UNCHANGED vars /\ ("admit" \in landed[job.node] \/ ~AtWork)
    BY <1>2, <1>4, <1>12 DEF AskScreener
  <2> QED  BY <1>0, <1>1, <2>1 DEF Key
<1>13. CASE Screened
  <2>1. ASSUME job' = [job EXCEPT !.doing = "screen", !.left = @ - 1] PROVE FALSE
    BY <1>0, <2>1 DEF Free, WorkTypeOK, Jobs
  <2>2. UNCHANGED vars /\ st[job.node] # "OutputGuardrail"
    BY <1>4, <1>13, <2>1 DEF Screened
  <2> QED  BY <1>1, <2>2
<1>14. CASE ScreenerAnswers
  <2>1. UNCHANGED vars /\ ~AtWork
    BY <1>3, <1>4, <1>14 DEF ScreenerAnswers, Doing
  <2> QED  BY <1>1, <2>1
<1>15. ~ScreenerFails
  BY <1>3, <1>4 DEF ScreenerFails, Doing
<1> QED  BY <1>5, <1>6, <1>7, <1>8, <1>9, <1>10, <1>11, <1>12, <1>13, <1>14, <1>15
         DEF WorkNext, Thread, Answer

--------------------------------------------------------------------------------
(* The theorems                                                                 *)

LEMMA InitWorkInv == WorkInit => WorkInv
<1> SUFFICES ASSUME WorkInit PROVE WorkInv
  OBVIOUS
<1>1. DraftInv
  BY InitDraftInv DEF WorkInit
<1>2. Idle \in Jobs /\ Idle.doing = "idle" /\ Idle.then = "next"
  BY MaxNodeAssumption, BudgetAssumption DEF Idle, Jobs, Doing, Node
<1>3. WorkTypeOK /\ Forms /\ Asking
  <2>1. serving \in Versions
    BY <1>1 DEF WorkInit, DraftInv, TypeOK
  <2>2. /\ asked \in [Node -> {"never", "issued", "landed"}] /\ landed \in [Node -> SUBSET {"admit", "approve"}]
        /\ owed \in [Node -> BOOLEAN]
    BY DEF WorkInit
  <2>3. job = Idle /\ call = "none" /\ refused = FALSE /\ spent \in 0..RateLimit /\ paid \in 0..Budget + 2
    BY RateLimitAssumption, BudgetAssumption DEF WorkInit
  <2> QED  BY <1>2, <2>1, <2>2, <2>3 DEF WorkTypeOK, Forms, Asking
<1>4. Waits
  BY DEF WorkInit, Init, Waits
<1>5. \A n \in Node : Key(n)
  BY DEF WorkInit, Init, Key
<1>6. Pressing
  BY <1>2, BudgetAssumption DEF WorkInit, Pressing
<1> QED  BY <1>1, <1>3, <1>4, <1>5, <1>6 DEF WorkInv

THEOREM WorkInvariant == WorkSpec => []WorkInv
<1>1. WorkInv /\ [WorkNext]_workVars => WorkInv'
  <2> SUFFICES ASSUME WorkInv, [WorkNext]_workVars PROVE WorkInv'
    OBVIOUS
  <2>1. WorkTypeOK' /\ Forms'
    BY WorkTyped DEF WorkInv, DraftInv
  <2> QED  BY <2>1, DraftKept, KeysKept, AskingKept, PressingKept DEF WorkInv
<1> QED  BY <1>1, InitWorkInv, PTL DEF WorkSpec

\* Whatever the gateway does to a draft, the draft could do: the buttons, the
\* providers' answers and the machine's own rows are steps of CourseDraft
\* (gateway/membrane.py, request: an effect is an event the machine permits).
THEOREM WorkImplementsDraft == WorkSpec => Spec
<1>1. WorkInit => Init
  BY DEF WorkInit
<1>2. WorkInv /\ [WorkNext]_workVars => [Next]_vars
  BY WorkIsDraft DEF WorkInv
<1> QED  BY <1>1, <1>2, WorkInvariant, PTL DEF WorkSpec, Spec

\* What the gateway keeps between two steps has its type.
THEOREM WorkTypeCorrect == WorkSpec => []WorkTypeOK
<1>1. WorkInv => WorkTypeOK
  BY DEF WorkInv
<1> QED  BY <1>1, WorkInvariant, PTL

\* A generation that brought nothing keeps its key and every other has a new one
\* (gateway/action_subject.py, entries).
THEOREM KeysSayWhatIsOwed == WorkSpec => []KeySaysWhatIsOwed
<1>1. WorkInv => KeySaysWhatIsOwed
  BY DEF WorkInv, KeySaysWhatIsOwed, Key
<1> QED  BY <1>1, WorkInvariant, PTL

\* What waits for a verdict or for a person is never taken for what was judged
\* before (gateway/action_subject.py, rounds).
THEOREM WaitingActsAreNew == WorkSpec => []NewActIsNew
<1>1. WorkInv => NewActIsNew
  BY DEF WorkInv, NewActIsNew, Key
<1> QED  BY <1>1, WorkInvariant, PTL

\* A press of Generate pays for at most one call more than the budget
\* (gateway/pipeline.py, generate_node).
THEOREM PressesAreBounded == WorkSpec => []PressIsBounded
<1>1. WorkInv => PressIsBounded
  BY DEF WorkInv, PressIsBounded, Pressing
<1> QED  BY <1>1, WorkInvariant, PTL

\* An act that comes back without a refusal leaves no node waiting for a verdict
\* nobody asks for (gateway/pipeline.py, screen_node and generate_node).
THEOREM NobodyIsLeftWaiting == WorkSpec => NotLeftWaiting
<1>1. WorkInit => Writing
  BY DEF WorkInit, Idle, Writing
<1>2. WorkInv /\ Writing /\ [WorkNext]_workVars => Writing'
  BY WritingKept
<1>3. WorkInv /\ Writing /\ [WorkNext]_workVars =>
          ((~Free /\ (Free' \/ job'.node # job.node) /\ ~refused') =>
              st'[job.node] # "OutputGuardrail" \/ ~AtWork')
  BY LetsGo
<1> QED  BY <1>1, <1>2, <1>3, WorkInvariant, PTL DEF WorkSpec, NotLeftWaiting

\* A draft the gateway works on follows the publication line like any other.
THEOREM WorkFollowsLine == ~Forked /\ WorkSpec => FollowsLine
BY WorkImplementsDraft, DraftFollowsLine
=============================================================================
