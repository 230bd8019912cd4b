# Verification of the governed course generator

TLA+ models of the state machines that decide what a generated course may
become and what its learners are shown, the TLC runs that check them on small
instances, and TLAPS proofs of their main properties. All paths below are
relative to the repository root (`src/` in `PROJECT.json`).

## The system

A course is written as *revisions*. A revision starts from a brief, gets an
outline, then its nodes (topics, and exams over topics) are generated by a
language model, screened by a guardrail, checked by formal engines and approved
by people; the whole course is checked, approved by a chain of signatures and
published. Learners follow one *live pointer*. Rules change afterwards: a
configuration change (policy, guardrail, catalog, knowledge base) can send
published revisions back through verification, a rollback does the same for a
superseded one, and each may end withdrawn.

Everything is driven by two tables in `model/transitions.yaml` (a revision
machine and a node machine) interpreted by `machine/`. One call of
`Machine.fire` handles one event, all or nothing; after the event's own row the
*settling loop* takes `(auto)` rows until none is left, before `fire` returns.

### Inventory

| Component | State it keeps | Operations | Interacts with |
|---|---|---|---|
| Publication line (`machine/`, revision rows from `ReadyForReview` on) | per revision: state, stamps, checked stamps, `stale_via`, `awaiting_pointer`, retries, verdict on the whole; per course: live pointer, versions in force | approval, publish, fork, rollback, withdraw, archive, configuration broadcasts, re-verification, recovery from an outage | screening port (called inside a guard), draft (forked from it), trace audit |
| Course draft (node rows, reactions of the revision to its nodes) | per node: state, repairs, pending operation, `waiting_for_topics`, `hand_edited`, stamps; the revision's state and block | generation, screening, checks, repair, approval, edit, dependency cascade, recovery, blocks and their fixes | outline (adds and removes nodes), provider answers, structure engine |
| Brief and outline phase (revision rows up to `OutlineApproved`) | brief, proposal, committed outline, its version, retries | submit, feasibility, generate, check, repair, review, revise | Z3, OPA, schema engines; nodes |
| Guard evaluation and table (`machine/evaluation.py`, `guard_expressions.py`, `transition_table.py`) | a verdict cache per step | decide a row: true, false or undecidable; "any of the above fails" | every engine |
| Notices and consents (`machine/store_guards.py`) | approvals with scope, spent or not; enrolment | approve a notice, send it | publication line |
| Gateway membrane (`gateway/membrane.py`, `action_subject.py`) | issued and landed idempotency keys, rate windows, audit log | one request: authorise, check legality, call, record the key, land or refuse | machine (`permits`, `fire`), pipeline, policy |
| Gateway pipeline (`gateway/pipeline.py`) | the memo of screenings | submit a brief, draft an outline, generate a node, screen one node or all, send a notice | providers, membrane, machine |
| Temporal audit (`engines/temporal/`) | none | builds a trace of a log, walks fifteen invariants over it | recorder, scenarios |
| Datalog, Prolog, schema (`engines/datalog`, `prolog`, `schema`) | none | what is missing, dead, cyclic, outstanding, dependent, leaked, covered | called from guards, and by the cascade |
| OPA and Z3 (`engines/opa`, `z3`) | none | allow or deny an act and name the rules; find a brief or a node unsatisfiable and name a core | called from guards and from the membrane |
| Editor session and server (`ui/`) | the session's machine, one lock | acts of an editor, one at a time | pipeline, machine |
| Provider adapters | none | call a model or a guardrail | pipeline |
| Scenarios, tools, examples | none | drive and replay the machine | machine |

### What is hard about it

* **Several steps per event.** Publication, the move of the pointer, the
  supersession of the old revision, re-verification and recovery are separate
  recorded steps; between them the state is one nobody tests.
* **Answers that do not come.** A guard calls a service. It may answer, fail,
  answer as another version during a rollout, or not exist; only the first is a
  verdict.
* **Broadcasts.** A configuration change is about every revision at once and
  is refused whole if one of them cannot be judged.
* **Memory of a reason.** `stale_via` remembers why a revision is under review;
  outages, blocks and rule changes overwrite it.
* **Long legal sequences.** Forks, withdrawals, rollbacks and archives compose.
* **Calls that outlive what they were made for.** A provider is asked outside the
  machine; before it answers, an edit, a rule change or a discard can move the
  course. The answer is paid for and must land nowhere, and the next one must
  be neither refused as a repeat nor billed twice.
* **Evidence kept too long.** Verdicts are kept per step, per text and per
  guardrail version, consents until they are spent, keys for ever.

### What makes each component correct

| Component | Properties |
|---|---|
| Publication line | one open draft; the pointer names only a revision that may be served; what is Published was verified under every rule that reached it; the pointer moves only to such a revision; the machine withdraws only on a verdict; settling ends; a retired revision never returns |
| Course draft | no exam is generated or approved over content that is not approved; what goes to approval was checked under one set of versions; a waiting exam is released when its topics are; retries are bounded; nothing is stuck without a person able to free it |
| Outline phase | only a checked proposal is committed; a block returns to its own phase; content survives a rejected outline |
| Guard evaluation | undecidable is neither true nor false; a failure row fires only on a failure somebody found |
| Notices | a consent authorises one notice, with that text, to those people |
| Membrane, pipeline | the key of an act says whether that act is still owed; what waits to be judged is never taken for what was judged; one press pays for a bounded number of calls and comes back; a node is not left waiting for a verdict nobody asks for |
| Temporal audit | a step of one revision never discharges or convicts another's, and what is accepted implies the pointer's history |
| Datalog, Prolog | what is derived node by node adds up to a whole course; nothing waits for ever |
| OPA, Z3 | a refusal names its cause, and only a refusal does |

## Modules

| Module | Kind | Models |
|---|---|---|
| `OnAir` | abstract specification | the promise to learners: one revision on air at most, put there only when judged under every rule that reached it, never again once retired |
| `Publication` | detailed specification | the publication line of a course |
| `MCPublication` | TLC instance | values for the constants of `Publication`, and the scenes a behaviour keeps to |
| `PublicationProofs` | proofs | theorems about `Publication` and its implementation of `OnAir` |
| `CourseDraft` | detailed specification | one draft at work: its nodes, its outline, its review |
| `MCCourseDraft` | TLC instance | values for the constants of `CourseDraft` |
| `CourseDraftProofs` | proofs | theorems about `CourseDraft` and its implementation of `Publication` |
| `NodeWork` | detailed specification, over `CourseDraft` | the gateway generating, screening and approving the nodes of a draft |
| `OutlinePhase` | detailed specification | a course before it has nodes: brief and outline, and the gateway acts that drive them |
| `Notices` | detailed specification | consents to a notice, and the gateway sending it |
| `MCGateway` | TLC instance | the three modules above, one at a time |
| `NodeWorkProofs`, `OutlinePhaseProofs`, `NoticesProofs` | proofs | theorems about them |
| `Audit` | the algorithm, and logs to run it on | building a trace and walking it |
| `CourseFacts` | detailed specification | what Datalog and Prolog derive, in a course that is written and edited while outlines come and go |
| `RowChoice` | detailed specification | how a row is chosen: three-valued guards, the complement row, kept verdicts |
| `BriefChecks` | the algorithms, one question and its answer | both policies, and the sums over briefs and nodes |
| `MCEngines` | TLC instance | the four modules above, one at a time |
| `AuditProofs`, `CourseFactsProofs` | proofs | theorems about `Audit` and `CourseFacts` |
| `DecisionProofs` | proofs | theorems about `RowChoice` and `BriefChecks` |

How they compose: `CourseDraft` implements the draft that `Publication` holds in
one state (`FollowsLine`), and `Publication` implements `OnAir` (`KeepsPromise`).
`NodeWork` extends `CourseDraft`: every step of it is a step of the draft or
leaves the draft alone (theorem `WorkImplementsDraft`). `OutlinePhase` ends where
`CourseDraft` begins, at the first approval of an outline; `Notices` runs beside
the published states of `Publication`.

### Publication

One variable per field the rows read (`state`, `published` = `ever_published`,
`live` = `live_pointer`, `current`, `stamps`, `checked` = `checked_stamps`,
`via` = `stale_via`, `awaiting` = `awaiting_pointer`, `repairs` =
`repair_count`, `memo` = `screened["revision"]`), whether a screening port is
attached (`port`), and three history variables no action reads: `served` (the
pointer was here), `overdue` (a change reached this revision and has not been
answered) and `asked` (a rollback has not been answered).

* *Atomicity.* Each step the machine records is one step of the model. An
  external event needs `Quiet`, since `fire` settles before it returns; a
  settling step needs `Turn`, since `_settle_once` serves the lowest id that
  has something to do and starts over.
* *Re-verification.* `guardrail_clean` inside StaleReview asks the port unless a
  verdict for the version in force is on record. The five outcomes are
  `ReVerified` (with its three routes in `Earned`), `ReVerificationFails`,
  `ScreeningUnanswered` (no answer, another version, nonsense), and resting when
  no port is attached. The other checks of the row are a choice.
* *Broadcasts.* `ConfigChanged` takes what the event says: `judged` (revisions
  it says anything about), `reached`, `read` (superseded revisions with active
  readers). If a revision whose row asks was not judged, the event is refused
  (`Undecided`).
* *Abstracted.* A draft's work is the state `"Drafting"`. Publishing also needs
  the draft's nodes approved and a difference from the live course; archiving
  needs no active readers: leaving these out only adds behaviours. Notices
  change no state of a revision. Trace fields (`affected`, `re_verified`,
  `stale_nodes`) are read by no row below publication. A revision that leaves
  StaleReview forgets `via`, which no row reads elsewhere.
* *Bare verdicts.* A `GuardrailVerdict` that names no artifact is filed as the
  verdict on the whole revision. The scenarios and tests fire such verdicts, the
  gateway does not; `BareVerdicts` says which world is modelled.

Bounds: `MaxRevision` revisions and `MaxChanges` configuration changes.
`Budget` is the repair budget of the configuration.

### CourseDraft

The state `"Drafting"` of `Publication`, opened up: one draft from the moment it
has nodes until it is published, discarded or refused for good. One variable per
field the rows read (`rev` and `st` are the states, `op` joins
`pending_operation` and `recovery_from`, `repairs` = `repair_count`, `waiting` =
`waiting_for_topics`, `edited` = `hand_edited`, `checkedAt` and `courseChecked`
= `checked_stamps`, `committed` = `committed_outline`, `spec` = the entries of
the outline) and one history variable, `unseen`: the dependencies replaced,
removed or gained since a node's checks last passed.

* *Atomicity.* `_fire` applies the event's rows (the revision's first, then the
  nodes'), the cascade and the reactions before it records the step: one action.
  Every action therefore ends in `Becomes`, which applies the reactions
  (`React`) and drops what a node keeps for one state only. Then the draft
  settles, lowest node first (`Turn`); an event needs `Quiet`.
* *Order.* Nodes are numbered in the order they joined, the order of the
  dictionary the code walks. The code moves the nodes one by one; `Cascade` says
  what that amounts to: `Reached` gives, for each node, the changes of the event
  that reach it, and a node sees an earlier change, or the same change at an
  earlier node, as already made.
* *One question per event.* The evaluator keeps a verdict until a step is
  recorded, so an exam asked about its topics by two changes of one event gets
  the first answer twice.
* *Blocks.* `BlockedRecoverable` is split by the phase it was entered from
  (`blocked_at`), and a block entered from `ContentInProgress` returns there.
* *The outline.* `OutlineRevised` stands for the event and the checks it settles
  into; which proposal was under review is chosen when it is approved
  (`Outlines`).
* *Choices of the environment.* Verdicts of the guardrail and of the checks,
  whether visuals were reviewed and policy allows a generation, whether a call
  that timed out had landed (`landed`).
* *Abstracted.* The rules are one version for all four kinds. The revision's own
  `repair_count`, signatures and refusals are read by no row here. A fork's
  stamps start at `FirstVersion`; what differs from the live revision is a free
  choice for a fork once its content changed, and always true of a first draft.

Bounds: `MaxNode` nodes ever, `MaxChanges` configuration changes, `Outlines` the
outlines that may be approved.

### NodeWork

`gateway/pipeline.py` (`generate_node`, `screen_node`, `screen_waiting`, `_admit`,
`_generate`), `membrane.request` and `action_subject.py` over `CourseDraft`'s
machine. `job` is the procedure the serving thread runs and where it stands in
it, `call` the provider being asked, `serving` the version the guardrail answers
as, `spent` the person's actions in the rate window.

* *Atomicity.* `ui/server.py` serves one act at a time under `LOCK`. What remains
  concurrent is what reaches the machine while a provider is being asked, as
  `tests/test_exam_waits_for_its_topics.py` does: edits, rule changes, an outline
  taken up again (`Outside`). A provider's call is therefore two steps, asked
  and answered, and whatever the code read before the call is read again after.
  The thread goes on when the machine has settled.
* *Keys.* A key digests the action, its arguments and counts that only grow
  (`entries`, `rounds`, `malformed`). So a key either equals the last one or was
  never seen, and `asked` and `landed` keep just that: a present key was never
  used, issued, or has landed, and `NewDraft` and `NewRound` say which steps
  change it. `owed` and `paid` are history.
* *Failures.* A provider answers, does not answer, answers in the wrong shape,
  or answers as a guardrail version that is no longer in force; an answer may find
  the course elsewhere; the gateway may be restarted in the middle of a call
  (`Restart`), which forgets the act and the window while the store keeps what
  landed.
* *Left out.* Reads and the set `issued`, which only they consult; the log; the
  first approval of an outline (`OutlinePhase`) and a later one (`CourseDraft`,
  `Outlines`): here an outline is revised or rejected with the nodes it has.

### OutlinePhase

The rows of `model/transitions.yaml` from AwaitingBrief to OutlineReview, the
buttons of `ui/session.py` that reach them, and `submit_brief`, `draft_outline`,
`screen` of the pipeline. `phase`, `origin` and `issuedFrom` are the revision's
state, `blocked_from` and `pending_operation.issued_from`; `desk` is the act in
progress with the turns it has left, `wire` the provider asked, `memo` the
screenings kept.

* A brief is a model value; `Valid`, `Permitted`, `MayOutline`, `Feasible` say
  what JSON Schema, OPA (of the brief, of the outline) and Z3 answer, which for one
  brief they always answer alike; `Sound` does it for outlines.
* `memo` holds, with each verdict, the version in force when it was asked for and
  the version that answered: `pipeline.screen` computes its memo key before the
  call, so the two differ when a version comes into force during it.
* `(auto)` rows run one by one (`OutlineSettles`), and an event or a step of the act
  needs `AtRest`.
* `DraftAgain` is the call of `draft_outline` no button of the editor makes.
* `draftKey` is what has become of the key of the present draft. `draftOwed` is history:
  whether the last call still owes its answer, and whether a person has released the
  draft from a block since (`freed`).

### Notices

`store_guards.unspent_consents`, `_notice_approved`, `bookkeeping._spend_consent`
and `notify_learners`. A consent is one `ApprovalGranted` with its chain of
signatures: they are recorded, replaced and spent together, so one record stands
for them. While the guardrail reads a notice, the enrolment, the guardrail
version, the revision's state and the consents may all change, and each is read
again when the answer comes. The verdict is a choice; a denied, late or missing
one sends nothing (`NoticeFails`), as does a restart. Why a revision is verified
again, and that it may fail, is `Publication`'s.

### Audit

`engines/temporal`: `StepOf` records a step the way `machine/recording.py` and
`scenarios/legal_run.py` write it, `Before` and `OnceNow` are the trace operators,
`I1` to `I15` the walks, `WellFormed` the check of the shape. A log is built from a
menu of happenings, which holds illegal moves beside the legal ones, steps that
lack a fact or an envelope, and a state nobody declared: an audit decides any log.
A step that lacks a fact can only be the last. The LTL operators are folded into
the walks that use them; how a refusal is worded is left out. A revision's own log
(`Own`) keeps its steps in the places they have in the run. Whatever a happening
leaves out of its step, it does not leave out the revision (`MenuIsRecorded`): the
recorder's snapshot is one of a revision.

### CourseFacts

Each rule of `engines/datalog/structure.py` and each coverage rule of the Prolog
engine is one operator over the nodes' outline entries (`teaches`, `topics`,
`requires`, `refers`). They are exercised by a course whose nodes are written, checked,
approved and edited while outlines change around them, since the rules are asked of
single nodes (`NodeChecks`) and only some of them again of the whole
(`WholeCourseChecked`); what holds of the whole is the question. Reachability is the
least set closed under the edges, as the Datalog rule defines it.

`OutlineApproved(o, reason)` is the approval of a revised outline as `fire` carries it
out: `committed_outline` becomes its nodes whether or not a reason is given, and
`_advance_outline` replaces the entry of each of them and adds the new ones, while
a node that was removed stays removed though the outline has it again. With a
reason, the nodes it leaves out become Removed one by one, each followed by its
cascade (`Leavers`, `Leaving`); without one, which is how `ui/session.py` approves,
they stay in the course outside its outline and nothing cascades. Last, an approved
node that gained a dependency is verified again (`Gained`); one that lost a
dependency, or teaches something else, is not. The history variable `excused` holds
the references that die with no cascade about them.

Retries, blocks and screening are `CourseDraft`'s; a screening that answers is folded
into `Write`, and the stages between a revised outline and its approval, in which no
node moves, into `OutlineApproved`. The fourth question of the whole course, whether
the trace satisfies the walks, is `Audit`'s: a course may pass here that it would
refuse.

### RowChoice

`machine/evaluation.py` and `guard_expressions.py`, on the four `(auto)` rows of
StaleReview. A literal is true, false, unknown, *down* (the guardrail does not
answer: a step of its own) or *unavailable* (an engine that does not run: the event
is taken back). `cache` is kept per recorded step, `noted` is the one write a
guard makes (`no_permission_leak`), and an event that is refused or only asked
about (`permits`) puts everything back. Rows that ask whether *some* node is in a
state are `CourseDraft`'s reactions; the text of the tables is not parsed here.

The rows are a constant, and three assumptions say what is asked of them:
`RowsAssumption` (some rows pass, each on its rights check, and the last is their
complement), `ExclusiveAssumption` (no two rows can both hold, which
`tests/test_machine_table.py` asserts of every state of the table) and
`RoutedAssumption` (where the shared checks hold, one of the rows takes the
revision). TLC evaluates them on the rows of StaleReview.

### BriefChecks

Both Rego policies as what they allow and the rules that deny, and Z3's two checks
as named claims, each a set of admissible values. The solver may return any subset
of the claims that cannot hold together: it promises no minimal core. Engine
errors (a number that is not one) are among the answers for nodes. A question is a
record whose optional numbers are said once or not at all (`QuestionsAssumption`).

## Runs

Deadlock is not checked: a course whose only draft was discarded, or whose
revisions are all archived, has no event left.

| Run | Instance | Shows |
|---|---|---|
| `publication_scenes` | "lines": 3 revisions, 1 kind, 2 versions, budget 1, 1 change. "rules": 2 revisions, 2 kinds, 2 versions, budget 1, 3 changes, bare verdicts | `TypeOK`, `OneOpenDraft`, `LiveIsServable`, `SupersededWasServed`, `NoShadowPublication`, `OnAirIsVerified`, `PointerMovesToVerified`, `JudgedWithdrawal`, `SettlingDescends`, `Settles`, and `KeepsPromise` (the refinement of `OnAir`) |
| `rollback_pointer` | 2 revisions, 1 kind | *violated*: `RollbackEarnsPointer` |
| `rule_change_place` | 2 revisions, 1 kind | *violated*: `RuleChangeKeepsPlace` |
| `screened_whole` | 1 revision, 2 kinds, bare verdicts | *violated*: `ScreenedWhole` |
| `draft_work` | first draft, a topic and its exam, 2 versions, budget 1, 2 changes | `TypeOK`, `ReviewedWhole`, `HeldIsVisible`, `CheckedUnderRules`, and `FollowsLine` (the draft implements `Publication`) |
| `draft_outlines` | fork, 3 nodes, 3 outlines, 1 version, budget 0 | `NoApprovalSurvives`, `LoseApprovalTogether` |
| `draft_verified` | first draft, topic and exam | *violated*: `DependentsVerifiedAgain` |
| `draft_release` | first draft, topic and exam, 1 change | *violated*: `ReleaseFrees` |
| `draft_skeleton` | first draft, topic and exam, the exam dropped and brought back | *violated*: `SkeletonIsWritten` |
| `gateway_acts` | `NodeWork`: topic and exam, 2 versions, budget 1, 1 change, rate limit 1. `OutlinePhase`: 5 briefs, 2 outlines, 2 guardrail versions, budget 1, 1 rollout. `Notices`: 2 wordings, 2 enrolments, 2 guardrail versions, 3 consents, 2 moves | `WorkTypeOK`, `KeySaysWhatIsOwed`, `NewActIsNew`, `PressIsBounded`, `NotLeftWaiting`, `EveryPressReturns`; `OutlineTypeOK`, `ReviewedIsChecked`, `NothingPaidForRefusedBrief`, `OneAnswerPerText`, `DraftKeyIsDue`, `EveryActReturns`; `NoticesTypeOK`, `NoticeAsConsented`, `EachConsentOneNotice`, `NoticeOncePerRound` |
| `engine_questions` | `Audit`: 2 revisions, logs of 4 steps. `CourseFacts`: 3 items, 3 skills, 14 outlines, 2 of them after the first, 1 edit. `RowChoice`: 4 rows, up to 2 literals amiss, 2 steps. `BriefChecks`: numbers 0 to 3, limits of 2 | `EachRevisionOnItsOwn`, `SupersededWasServed` (of accepted logs); `PassedCourseIsWhole`, `NothingWaitsForEver`; `OneRowDecides`; `RefusalNamesItsCause` |
| `outline_release` | `OutlinePhase` as in `gateway_acts` | *violated*: `ReleasedDraftKeepsKey` |

`publication_scenes` fixes in the initial state which of its two scenes a behaviour
keeps to (`scene`), because three revisions and three changes together are out of
TLC's reach. A scene bounds what comes from outside, by the revisions, changes and
kinds above; settling is cut short in neither. Three revisions are the least for a rollback over a newer revision with a fork
behind both; two suffice for everything that relates a live revision to one
other. Two kinds are the least for a change whose verdict is already on record
for the guardrail; three changes let a version come back. Budget 1 gives an
outage one retry before the block.

For a draft, a topic and its exam are the least that wait for each other, and two
changes let the rules move and move back between screening and review. The
third node of `draft_outlines` gives dependencies through another node, a node
that joins late and one that is dropped and returns; one version and no retry
keep that instance small, and the retries and versions it lacks are in
`draft_work`. A draft may end (published, discarded, refused), so deadlock is
not checked there either.

`gateway_acts` and `engine_questions` hold modules that share no state. A variable of
the MC module (`scene`, `asked`) says which of them moves in a behaviour, and the others stand
still in one state, so the state count is the sum of theirs and not the product.
For the gateway, a topic and its exam give a generation that finds its topics gone
when its answer comes; budget 1 gives each act one retry before the block, and
one change gives a verdict of the wrong version, which takes two versions. Two
outlines are needed so that one text can be refused and another accepted; the five
briefs are one that passes and one for each way of not passing. Three consents are
the least for one spent on a notice, one that replaces it and publication's own.
For the engines, an exam, its topic and a third node give dependencies through
another node and two exams that would test each other; two outlines after the first let one leave a
node out or redraw it and the next bring it back; four steps are the least for
a pointer that moves away, a verification and a roll-back after the initial state;
two literals amiss are one that is asked and one that hides behind it; numbers up
to one past the limit put every claim on either side of it.

Fairness of `Publication`: `WF_vars(\E r \in Rev : Settle(r))` and nothing else. The loop in
`machine/settling.py` runs to its end inside `fire`, so a settling step that can
be taken is taken; events and services owe nothing, and `Settles` holds even if
every screening goes unanswered, because each retry is charged to the budget.
`CourseDraft` states safety only.

Fairness of the gateway (`WorkFairness`, `OutlineFairness`): weak fairness of the
serving thread (an act runs on its own thread until it returns), of settling (inside
`fire`), and of the provider's answer (an adapter answers or raises when its timeout
passes; which of the two is free). Nobody owes another press, an edit, the end of a
rollout or the passing of the rate window, and none is assumed:
`EveryPressReturns` and `EveryActReturns` hold for providers that fail for ever.

### What disagrees with the documents

* `RollbackEarnsPointer`: `machine/bookkeeping.py` and `model/event-catalog.yaml`
  say a rolled-back revision that passes re-verification earns the pointer. If
  its first screening goes unanswered, the way back from ErrorRecovery (or out
  of the block) overwrites `stale_via`; the revision passes and goes back to
  Superseded.
* `RuleChangeKeepsPlace`: the same comment says a revision re-verified because a
  rule changed already holds the pointer. A superseded revision swept while no
  revision is live comes back Published and is served to nobody.
* `ScreenedWhole`: `_restamp` rests on the revision having been screened whole.
  A verdict filed for one node (or the brief) under the key `"revision"` is
  accepted instead, even with no screening port.
* `DependentsVerifiedAgain`: `machine/machine.py` says the dependents of replaced
  content are verified again. One whose checks have passed and that waits for a
  person takes no dependency row and is approved on what its checks read before.
* `ReleaseFrees`: `model/transitions.yaml` and
  `tests/test_exam_waits_for_its_topics.py` say a person can release a node that
  spent its retries. In `NodeRecovery`, with a topic that lost its approval to a
  rule change, the release finds no row, and the reaction blocks the revision
  again before the topic can be verified.
* `SkeletonIsWritten`: `model/invariants.yaml` (I5) forbids deleting a node the
  approved skeleton calls for. A node dropped and brought back by a later outline
  stays `Removed` and the course is reviewed without it.
* `ReleasedDraftKeepsKey`: `gateway/action_subject.py:59-62` says a call that never
  answered keeps its key also when a person releases it from a block. `entries` counts
  every entry into OutlineDrafting but one from ErrorRecovery; an outline that is
  released comes from BlockedRecoverable and is asked for under a new key.
  `DraftKeyIsDue` says what is so of every other draft.

Met while modelling, and stated by no run of its own:

* `pipeline.submit_brief` and `draft_outline` screen once. A brief whose screening
  went unanswered comes back through ErrorRecovery and nothing asks again; a release
  of an outline's block leaves the course in OutlineDrafting, and no button drafts
  there (`DraftAgain` is the gateway call that would).
* `pipeline.py:54-62`: a version that comes into force while a text is screened files
  its verdict under the version it replaced, so the text is judged again.
  `OneAnswerPerText` states that exception.
* A verdict that finds the course blocked when it comes leaves its node in
  OutputGuardrail with nobody asking until Generate is pressed again
  (`NotLeftWaiting` excepts a course not at work).
* `transitions.yaml:94` and `:248` guard OutlineRevised with `has_outline`.
  `bookkeeping.on_event` (156) files the proposal before the guard is read, which
  makes it true: an outline can be put to the checks while the brief is blocked, and
  reach review past a brief that nobody screened. `system-definition.yaml:151` says
  the verdict on the brief proves the course was screened before a token was paid
  for; `NothingPaidForRefusedBrief` excepts that `detour`.
* `store_guards.py:200` says a consent to a notice replaces the publication's. Once
  it is spent, the publication's authorise again if nobody spent them.
* `bookkeeping.py:140` says a signature one short of the chain is still a signature;
  `fire` takes the refused ApprovalGranted back, signature and all.
* Audit: I5, I6 and I8 look for their evidence in the whole log, so another
  revision's may do, against `invariants.py:110-111`; `EachRevisionOnItsOwn` says
  which way holds. An edit of a removed node in review records a step that I4
  refuses, and an exam that still lists a dropped topic one that I2 refuses. I3, I7,
  I10 and I15 pass over a step with no course state, though `invariants.py:15` says
  no walk may answer "ok" from silence.
* Course checks: `WholeCourseChecks` does not ask `references_live`, whose comment
  (`structure.py:86`) is whether a reference "still" points at a node the skeleton
  has. A node left out by an approval that gives no reason stays in the course,
  outside the outline, and an approved node that refers to it is not asked again. A
  node whose checks passed, not yet approved, keeps a reference to one that left
  meanwhile. An approved one may be given, by an outline, a reference to something the
  course never had. `excused` names these three and `PassedCourseIsWhole` excepts
  them and no other.
* `engine_guards.py:122-124` says a topic teaching something off the brief "is refused,
  not passed". It is when the topic is checked; an outline that gives an approved topic
  another skill sends nothing to be checked, and the whole course's coverage asks only
  that the brief's objectives are taught. `PassedCourseIsWhole` claims no more.
* `structure.py:139-141` says a topic that left the outline is not waited for, "rather
  than becoming one that can never be met and holding the exam forever". One that a
  later outline brings back is in the outline and stays Removed, and the exam waits
  for ever (`WaitsForRemoved`); so do exams that test each other, which pass
  `ordering_acyclic`, since it reads prerequisites (`TopicsAreAcyclic`).
  `NothingWaitsForEver` excepts these two.
* Z3: `engine.py:40-42` and `103-113` call the cores minimal and their union every
  conflict. The node count has up to four claims; one group can hold two conflicts,
  and one core of it is named. What is true is stated: every quantity in conflict
  is named, by claims that cannot hold together.

`LoseApprovalTogether` states the exception the code makes: an outline that gives
a topic a new dependency sends the topic to verification and leaves its exam
approved. `unseen` records only what the exam itself rests on, directly or
through others, at the step it changed.

## Proofs

`PublicationProofs` proves, for any number of revisions, kinds, versions,
changes and any budget (the assumptions on the constants in `Publication`):

* `Invariant`: `Spec => []IInv`. `IInv` is inductive. Beside the listed
  invariants it needs `History` (which states go with having been published),
  `Awaited` (one revision at a time is owed the pointer, it is Published, its
  stamps are current and settling serves it next), `Lineage` (whatever is past
  its first move was served; nothing else stands Published once nobody is owed
  the pointer) and `Stamped`. Without `Awaited` the move of the pointer could
  reach a revision that is no longer Published; without `Lineage` a revision
  losing the pointer could be superseded without ever having been served.
* `TypeCorrect`, `DraftsAreSingle`, `LiveServable`, `SupersededServed`,
  `VerifiedOnAir`, `ShadowFree`: consequences of `IInv`.
* `PointerSafe`, `WithdrawalIsJudged`: action properties, from `IInv` and the
  actions that can change the pointer or a state during settling.
* `SettlingEnds`: before the course is quiet every step uses up one of the steps
  some revision has left (`StepsLeft`) and gives none to another. A revision has at
  most `2 * Budget + 2`, so the steps that follow one event are bounded whatever the
  services answer, and settling has no cycle. Of `Settles` what remains to TLC is
  that a step is enabled and, by fairness, taken.
* `PublicationKeepsPromise`: `Spec => Air!Spec`. Publication and
  re-verification are *Judge*, a sweep and a rollback are *Recall*, the move of
  the pointer is *Switch*, withdrawal and archiving are *Retire*; every other
  step stutters.

One lemma per action shows that it preserves `IInv`, one part of the invariant
per step.

`CourseDraftProofs` proves, for any nodes, outlines, dependency graphs, versions
and budget, first draft or fork:

* `DraftInvariant`: `TypeOK`, `HeldIsVisible`, `CheckedUnderRules` and
  `ReviewedWhole` are inductive together. `ReviewedWhole` needs
  `CheckedUnderRules`: a draft enters review when its nodes are approved, and
  only the invariant says what an approval stands on. Every action ends in
  `Becomes`, so its reactions are argued once (`BecomesStep`), and most actions
  are instances of `UnjudgedStep`: nothing comes to be judged and the draft is
  not under review. `DraftTypeCorrect`, `ReviewIsWhole`, `HeldVisible` and
  `ChecksAreCurrent` follow.
* `GroundMoves` and `ApprovalLostTogether`: action properties. Three lemmas
  about reachability carry them: dependents are found directly
  (`DependsDirectly`), through one another (`DependsThrough`), and there are
  fewer of them once nodes have left (`DependsMonotone`). Four actions can take
  an approval away; `ApprovalsStand` covers the rest.
* `DraftMovesOnLine` and `DraftFollowsLine`: the draft implements one revision of
  `Publication`, with the refinement mapping of `Line`. Every step is a step of the
  line for a first draft and for a fork; a first draft also starts where the line
  starts. The mapping needs `ForgetsChecks` beside the draft's invariant: outside
  review the draft remembers no whole-course check, so the line's `Drafting` has
  none to act on.

`NodeWorkProofs` proves, for any rate limit on top:

* `WorkInvariant`: `WorkSpec => []WorkInv`. Beside the draft's invariant, `WorkInv`
  needs `Key` (what the key of a node says in *every* state of it, since the
  properties look only where a key is used), `Asking` (while the model is asked, its
  node is still owed the answer or went back to wait for its topics), `Pressing`
  (what a press has paid against what the node was charged) and `Forms`. It
  rests on `Turned`, a lemma on how one node may turn in any step that is not an
  approval or a release: nothing gets approved while an act is served, so a node
  sent back to wait for its topics waits until the act is over, and a press that
  loses its node cannot find it drafted again for free.
* `WorkImplementsDraft`: `WorkSpec => Spec`. Every safety theorem of
  `CourseDraftProofs` holds of a draft the gateway works on.
* `WorkTypeCorrect`, `KeysSayWhatIsOwed`, `WaitingActsAreNew`, `PressesAreBounded`.
* `NobodyIsLeftWaiting`: an action property, for which `WorkInv` is not enough.
  `Writing` says where the loop of `generate_node` stands: at a node that is being
  drafted, which nothing but an answer takes out of its drafting (`DraftingKept`),
  or at one that nothing will move before the loop looks at it (`SettledStays`).
* `WorkFollowsLine`: a first draft the gateway works on implements a revision of the
  publication line, by `WorkImplementsDraft` and `DraftFollowsLine`.

`OutlinePhaseProofs`, for any briefs, outlines, verdict sets, guardrail versions,
budget and number of rollouts: `OutlineInv` needs `Answerable` (what the provider was
asked for is still there when it answers, or the draft was discarded),
`BriefStands` and `OutlineStands` (past a phase, its verdict was landed),
`Remembering` (what was judged is kept, and what is being asked was not) and
`KeyStands` (what is owed, against what became of the key, in each phase a draft can
wait in). From it `OutlineTypeCorrect`, `OutlinesAreReviewedChecked`,
`NothingIsPaidForRefusedBriefs`, `TextsGetOneAnswer`, `DraftKeysAreDue`.

`NoticesProofs`, for any wordings, enrolments, guardrail versions, and bounds:
`NoticesInv` needs `IdsAreGiven` (ids are given once), `UsedIsSpent` (what a notice
went out under is spent or gone) and `KeysAreLanded` (rounds only grow, and the key
of the notice being read has not landed). From it `NoticesTypeCorrect`,
`NoticesGoAsConsented`, `ConsentSendsOneNotice`, `NoticeGoesOnce`.

`CourseFactsProofs`, for any finite set of items, and any outlines and contents in any
order: `FactsInv` says that what a node was approved on still stands
(`CheckedStands`), because the cascade reaches every approved node that rests on what
changed. The step that needs an argument is the approval of an outline
(`OutlineApprovedKeeps`): a node that is approved after it was so before, gained
nothing, and rests on no node that left (`LeaversAreLookedAt`), so every reference it
has is live or excused. `CoursesPassWhole` follows. `SomeItemAlwaysMoves` takes, among the nodes not yet
approved, the one that reaches fewest others: if each waited for another of them,
reachability would shrink for ever along the edges (`EdgesWithoutEnd`).

`AuditProofs`, for any happenings, initial states and bound on the length of a log:

* `AuditIsOfEachRevision`. `OwnAgrees` is the heart of it: the step `Before` finds in
  a run is the one it finds in the revision's own log, because it looks for the
  last position of that revision and a bounded set of positions has a last one
  (`LastOf`). Each walk then says the same at each position (`CleanApart`), and
  evidence found in a revision's log is in the run's (`CleanTogether`). The converse
  fails for I5, I6 and I8, which is why the property states it one way for them.
* `AcceptedRunsServeNoSuperseded`. The first position at which a revision stands
  superseded is the one I12 speaks about (`ServedBefore`).
* The invariant of the specification is only that the log is one (`AuditInv`): steps
  from the first on, each about a revision, whatever else a step lacks
  (`StepSaysWhose`).

`DecisionProofs`, for any rows under the assumptions above, any stores, engines and
number of steps, and for any questions, limits and people:

* `OneRowAlwaysDecides`. `ChoiceInv` says that every verdict kept at the present step
  is the store's and that a kept rights check is on record; without it a row could
  be chosen on facts of an earlier store. Which row holds is argued on a guard's
  literals: `FirstFailing` (either all hold, or the first that does not decides),
  `ConjunctionDecides`, and `ComplementShared` for the row that negates the others.
* `RefusalsNameTheirCause`. The policy's one allowing rule per action and its denying
  rules are each other's negation (`PolicyIsWhole`); a brief's claims of one
  quantity hold together just when some value meets them (`NodesHoldTogether` and
  its two siblings), so that solving a quantity at a time misses nothing
  (`MetWhenEachHolds`); and what the answer names of a quantity is that quantity's
  core (`BriefNamesItsCause`).

Model-checked only: liveness (`Settles`, `EveryPressReturns`, `EveryActReturns`), which
rests on fairness and on enabledness, out of the prover's reach.

## Not modelled

* Provider adapters and the HTTP server: input and output around a service. What a
  service may do is every choice the gateway's models leave to it.
* The prompts, retrieval, and the text of briefs, outlines and nodes: data no
  property here tells apart. JSON-schema checks are stateless checks of one
  artifact's shape, and a verdict of the environment.
* The tables' text and its parser (`transition_table.py`, `guard_expressions.py`
  beyond the literals): the rows are modelled as the actions they stand for, and
  read again by the repository's own consistency tools.
* Authentication, the registry's argument schemas, reads and the log of the membrane:
  they guard or describe an act and change no state of a course.
* Course checks, signing and publishing as buttons: the session passes them straight
  to events of `CourseDraft` and `Publication`.
* Scenarios, replays, examples and tools: scripts that drive the machine or compare
  files. They were read for the events they fire and for how a log is written.

Hazards without a property:

* The repair count of a live revision (`bookkeeping.py:221`) adds up over separate
  outages, by design of the budget and with no statement to hold it against.
* An event that names no revision goes to the newest one (`machine.py:247`); every
  event of the models names its revision.
* `SETTLE_LIMIT` (`settling.py:17`) is not modelled. `SettlingDescends` bounds the steps
  of the revision rows, `2 * Budget + 2` for each revision, and so shows that the loop
  ends of itself; how the nested calls of `fire` share those 500 steps, and the steps
  of a draft's nodes, are not counted.
* The verdict on `content_approved` kept within one event (`evaluation.py:82`) decides
  only where a node waits, which `Cascade` of `CourseDraft` models and no text
  prescribes.
* A rollout while a text is screened (`pipeline.py:54`), which `OneAnswerPerText` leaves
  out, as above.
* The run-time audit of I7 and I15 takes `affected` from the recorder, which never says
  a published revision is (`invariants.py:175`). `OnAirIsVerified` says of the states
  what that audit is for; that the audit would notice is not claimed.
