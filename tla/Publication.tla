----------------------------- MODULE Publication -----------------------------
(***************************************************************************)
(* The publication line of one course: its revisions from approval to      *)
(* archive, the pointer learners follow, and the re-verification a rule     *)
(* change, a rollback or an outage puts a published revision through.       *)
(*                                                                         *)
(* One external event is handled at a time (machine/machine.py, fire); its  *)
(* own step is followed by the settling loop (machine/settling.py), which   *)
(* visits the revisions in the order of their ids and takes (auto) rows     *)
(* until none is left.  Every recorded step is one step of this module: an  *)
(* external event needs Quiet, a settling step needs Turn.                  *)
(*                                                                         *)
(* A draft's own work, from a brief or a fork up to the whole-course        *)
(* checks, is the single state "Drafting" here; module CourseDraft opens it *)
(* up.  The trace-only fields (affected, re_verified, stale_nodes) are left *)
(* out: no guard reads them on the rows below.                              *)
(***************************************************************************)
EXTENDS Naturals, FiniteSets

CONSTANTS
    MaxRevision,   \* bound on the revision ids the store may hand out
    Kinds,         \* configuration with a version: policy, guardrail, catalog, kb
    Versions,      \* the version names a change may bring into force
    FirstVersion,  \* the version of every kind when the course starts
    Budget,        \* thresholds.repair_budget
    MaxChanges,    \* bound on the configuration changes of a behaviour
    BareVerdicts   \* whether verdicts are fired at the machine without an artifact
                   \* (the scenarios do, the gateway never does)

ASSUME MaxRevisionAssumption == MaxRevision \in Nat \ {0}
ASSUME KindsAssumption == "guardrail" \in Kinds
ASSUME VersionsAssumption == FirstVersion \in Versions
ASSUME BudgetAssumption == Budget \in Nat
ASSUME MaxChangesAssumption == MaxChanges \in Nat
ASSUME BareVerdictsAssumption == BareVerdicts \in BOOLEAN

Rev == 1..MaxRevision
None == 0          \* a pointer to no revision

DraftStates == {"Drafting", "PendingApproval", "Approved"}
\* in_live_lineage: the states a published revision can be withdrawn from
LiveLineage == {"Published", "Superseded", "StaleReview", "ErrorRecovery", "BlockedRecoverable"}
States == {"Absent", "Archived", "BlockedFinal", "Withdrawn"} \cup DraftStates \cup LiveLineage

\* What sent a revision to StaleReview (stale_via): the event's name, or the
\* (auto) row when it came back from ErrorRecovery by itself.
Reasons == {"none", "ConfigChanged", "RollbackRequested", "BlockedInputFixed", "(auto)"}

Stamps == [Kinds -> Versions]
Memo == [verdict : {"none", "allow", "deny"}, version : Versions]
NoMemo == [verdict |-> "none", version |-> FirstVersion]

VARIABLES
    state,      \* [Rev -> States]
    last,       \* the newest revision's id
    published,  \* the revisions that were ever published
    live,       \* the live pointer
    current,    \* the versions in force
    stamps,     \* the versions each revision was approved or re-verified under
    checked,    \* a draft's: the versions its whole-course checks ran under
    via,        \* what sent a revision in StaleReview there
    awaiting,   \* the revisions owed a move of the pointer
    repairs,    \* retries taken out of recovery
    memo,       \* the last verdict on the revision as a whole
    port,       \* whether a screening port is attached to the machine
    changes,    \* configuration changes so far, for the bound
    \* History, read by no action:
    served,     \* the revisions the pointer has ever been on
    overdue,    \* published revisions a change has reached since they were stamped
    asked       \* revisions a rollback was asked for and not answered

storeVars == <<state, last, published, live, current, stamps, checked, via,
               awaiting, repairs, memo, port, changes>>
history == <<served, overdue, asked>>
vars == <<storeVars, history>>

TypeOK ==
    /\ state \in [Rev -> States]
    /\ last \in Rev
    /\ published \subseteq Rev
    /\ live \in Rev \cup {None}
    /\ current \in Stamps
    /\ stamps \in [Rev -> Stamps]
    /\ checked \in [Rev -> Stamps]
    /\ via \in [Rev -> Reasons]
    /\ awaiting \subseteq Rev
    /\ repairs \in [Rev -> 0..Budget]
    /\ memo \in [Rev -> Memo]
    /\ port \in BOOLEAN
    /\ changes \in 0..MaxChanges
    /\ served \subseteq Rev
    /\ overdue \subseteq Rev
    /\ asked \subseteq Rev

Init ==
    /\ state = [r \in Rev |-> IF r = 1 THEN "Drafting" ELSE "Absent"]
    /\ last = 1
    /\ published = {}
    /\ live = None
    /\ current = [k \in Kinds |-> FirstVersion]
    /\ stamps = [r \in Rev |-> current]
    /\ checked = [r \in Rev |-> current]
    /\ via = [r \in Rev |-> "none"]
    /\ awaiting = {}
    /\ repairs = [r \in Rev |-> 0]
    /\ memo = [r \in Rev |-> NoMemo]
    /\ port \in BOOLEAN
    /\ changes = 0
    /\ served = {}
    /\ overdue = {}
    /\ asked = {}

-----------------------------------------------------------------------------
(* Guards                                                                  *)

\* is_draft, for the revisions of this module
IsDraft(r) == state[r] \in DraftStates

NoOpenDraft_unasked == TRUE   \* (a careless edition)
NoOpenDraft == \A r \in Rev : ~IsDraft(r)

\* lost_live_pointer
Lost(r) == live \notin {None, r}

\* The revision was screened whole under the guardrail version in force.
Screened(r) == memo[r].verdict # "none" /\ memo[r].version = current["guardrail"]

\* The settling loop has something to do for this revision.  A revision under
\* re-verification that nobody can screen is undecidable and rests.
Busy(r) ==
    \/ r \in awaiting
    \/ state[r] = "ErrorRecovery"
    \/ state[r] = "StaleReview" /\ (port \/ Screened(r))

Quiet == \A r \in Rev : ~Busy(r)

\* _settle_once serves the lowest id that has something to do, then starts over.
Turn(r) == Busy(r) /\ \A s \in Rev : s < r => ~Busy(s)

Recorded(r, v) == memo' = [memo EXCEPT ![r] = [verdict |-> v, version |-> current["guardrail"]]]

\* stale_via is read in StaleReview only, and forgotten here on the way out.
Become(r, s) ==
    /\ state' = [state EXCEPT ![r] = s]
    /\ via' = [via EXCEPT ![r] = "none"]

-----------------------------------------------------------------------------
(* The draft, as far as publication needs it                                *)

\* The whole-course checks passed; what they ran under is kept.
CourseChecksPassed(r) ==
    /\ Quiet
    /\ state[r] = "Drafting"
    /\ Become(r, "PendingApproval")
    /\ checked' = [checked EXCEPT ![r] = current]
    /\ UNCHANGED <<last, published, live, current, stamps, awaiting, repairs, memo, port, changes, history>>

ApprovalGranted(r) ==
    /\ Quiet
    /\ state[r] = "PendingApproval"
    /\ Become(r, "Approved")
    /\ stamps' = [stamps EXCEPT ![r] = checked[r]]
    /\ UNCHANGED <<last, published, live, current, checked, awaiting, repairs, memo, port, changes, history>>

\* A node's or the brief's verdict fired at the machine without an artifact is
\* filed as the verdict on the revision as a whole (bookkeeping.on_event).
VerdictFiled(r) ==
    /\ Quiet
    /\ BareVerdicts
    /\ state[r] = "Drafting"
    /\ \E v \in {"allow", "deny"} : Recorded(r, v)
    /\ UNCHANGED <<state, last, published, live, current, stamps, checked, via, awaiting, repairs,
                   port, changes, history>>

\* ApprovalRejected, ReturnedToWork, NodeEdited
BackToWork(r) ==
    /\ Quiet
    /\ state[r] \in {"PendingApproval", "Approved"}
    /\ Become(r, "Drafting")
    /\ checked' = [checked EXCEPT ![r] = [k \in Kinds |-> FirstVersion]]
    /\ UNCHANGED <<last, published, live, current, stamps, awaiting, repairs, memo, port, changes, history>>

\* DraftDiscarded, and the policy refusals that close a draft for good
DraftClosed(r) ==
    /\ Quiet
    /\ IsDraft(r)
    /\ \/ Become(r, "Archived")
       \/ state[r] = "Drafting" /\ Become(r, "BlockedFinal")
    /\ UNCHANGED <<last, published, live, current, stamps, checked, awaiting, repairs, memo, port, changes, history>>

PublishRequested(r) ==
    /\ Quiet
    /\ state[r] = "Approved"
    /\ checked[r] = current
    /\ Become(r, "Published")
    /\ published' = published \cup {r}
    /\ awaiting' = awaiting \cup {r}
    /\ UNCHANGED <<last, live, current, stamps, checked, repairs, memo, port, changes, history>>

\* machine.fork
ReviseRequested(r) ==
    /\ Quiet
    /\ state[r] \in {"Published", "Withdrawn"}
    /\ NoOpenDraft
    /\ last < MaxRevision
    /\ last' = last + 1
    /\ Become(last + 1, "Drafting")
    /\ stamps' = [stamps EXCEPT ![last + 1] = stamps[r]]
    /\ UNCHANGED <<published, live, current, checked, awaiting, repairs, memo, port, changes, history>>

-----------------------------------------------------------------------------
(* External events on a published revision                                  *)

EnterStaleReview(r, why) ==
    /\ state' = [state EXCEPT ![r] = "StaleReview"]
    /\ via' = [via EXCEPT ![r] = why]

\* (a careless edition: a rollback is a restore)
RollbackRequested_restores(r) ==
    /\ Quiet
    /\ state[r] = "Superseded"
    /\ Become(r, "Published")
    /\ awaiting' = awaiting \cup {r}
    /\ UNCHANGED <<last, published, live, current, stamps, checked, repairs, memo, port, changes, history>>

RollbackRequested(r) ==
    /\ Quiet
    /\ state[r] = "Superseded"
    /\ EnterStaleReview(r, "RollbackRequested")
    /\ asked' = asked \cup {r}
    /\ UNCHANGED <<last, published, live, current, stamps, checked, awaiting, repairs, memo, port, changes,
                   served, overdue>>

\* Withdrawing the revision learners are reading cuts access.
PointerWithout_kept(r) == live   \* (a careless edition)
PointerWithout(r) == IF live = r THEN None ELSE live

LeaveAir(r) ==
    /\ Become(r, "Withdrawn")
    /\ live' = PointerWithout(r)
    /\ asked' = asked \ {r}

WithdrawRequested(r) ==
    /\ Quiet
    /\ r \in published
    /\ state[r] \in LiveLineage
    /\ LeaveAir(r)
    /\ repairs' = IF state[r] = "BlockedRecoverable" THEN [repairs EXCEPT ![r] = 0] ELSE repairs
    /\ UNCHANGED <<last, published, current, stamps, checked, awaiting, memo, port, changes, served, overdue>>

ArchiveRequested(r) ==
    /\ Quiet
    /\ state[r] \in {"Superseded", "Withdrawn"}
    /\ Become(r, "Archived")
    /\ asked' = asked \ {r}
    /\ UNCHANGED <<last, published, live, current, stamps, checked, awaiting, repairs, memo, port, changes,
                   served, overdue>>

\* A person clears the block an outage caused: back to the state that blocked.
BlockedInputFixed(r) ==
    /\ Quiet
    /\ state[r] = "BlockedRecoverable"
    /\ EnterStaleReview(r, "BlockedInputFixed")
    /\ repairs' = [repairs EXCEPT ![r] = 0]
    /\ UNCHANGED <<last, published, live, current, stamps, checked, awaiting, memo, port, changes, history>>

\* Timeout or ServiceUnreachable reported from outside, for a revision resting
\* in StaleReview because nobody can screen it
Timeout(r) ==
    /\ Quiet
    /\ state[r] = "StaleReview"
    /\ Become(r, "ErrorRecovery")
    /\ UNCHANGED <<last, published, live, current, stamps, checked, awaiting, repairs, memo, port, changes, history>>

-----------------------------------------------------------------------------
(* A configuration change: a broadcast to every revision                    *)

\* The revisions whose row asks affected(revision) and is not settled by the stamp
Asked(k, to) == {r \in Rev : state[r] \in {"Published", "Superseded"} /\ stamps[r][k] # to}

Undecided_ignored(k, to, judged) == {}   \* (a careless edition)
\* A change nobody judged for a revision is refused whole.
Undecided(k, to, judged) == Asked(k, to) \ judged

\* What the change moves: a published revision it reaches, a superseded one it
\* reaches while somebody is still reading it, a checked draft it overtakes.
Swept(k, to, reached, read) ==
    {r \in Asked(k, to) \cap reached : state[r] = "Published" \/ r \in read}
Overtaken(k, to) ==
    {r \in Rev : /\ state[r] \in {"PendingApproval", "Approved"}
                 /\ checked[r] # [current EXCEPT ![k] = to]}

\* judged: the revisions the event says anything about (reaches); reached: the
\* ones the change reaches; read: the superseded ones with active readers.
ConfigChanged(k, to, judged, reached, read) ==
    /\ Quiet
    /\ Undecided(k, to, judged) = {}
    /\ changes < MaxChanges
    /\ changes' = changes + 1
    /\ current' = [current EXCEPT ![k] = to]
    /\ LET swept == Swept(k, to, reached \cap judged, read)
           overtaken == Overtaken(k, to) IN
        /\ state' = [r \in Rev |-> IF r \in swept THEN "StaleReview"
                                   ELSE IF r \in overtaken THEN "Drafting"
                                   ELSE state[r]]
        /\ via' = [r \in Rev |-> IF r \in swept THEN "ConfigChanged" ELSE via[r]]
        /\ checked' = [r \in Rev |-> IF r \in overtaken THEN [j \in Kinds |-> FirstVersion]
                                     ELSE checked[r]]
    /\ overdue' = overdue \cup {r \in reached \cap published : stamps[r][k] # to}
    /\ UNCHANGED <<last, published, live, stamps, awaiting, repairs, memo, port, served, asked>>

-----------------------------------------------------------------------------
(* Settling                                                                 *)

\* (a careless edition: the revision that lost the pointer is left Published)
LivePointerMoved_alone(r) ==
    /\ Turn(r)
    /\ r \in awaiting
    /\ awaiting' = awaiting \ {r}
    /\ live' = r
    /\ served' = served \cup {r}
    /\ asked' = asked \ {r}
    /\ UNCHANGED <<state, last, published, current, stamps, checked, via, repairs, memo, port, changes, overdue>>

\* LivePointerMoved, emitted by the system for a revision owed the pointer; it
\* is a broadcast, and every other published revision has lost the pointer.
LivePointerMoved(r) ==
    /\ Turn(r)
    /\ r \in awaiting
    /\ state[r] = "Published"
    /\ awaiting' = awaiting \ {r}
    /\ live' = r
    /\ state' = [s \in Rev |-> IF state[s] = "Published" /\ s # r THEN "Superseded" ELSE state[s]]
    /\ served' = served \cup {r}
    /\ asked' = asked \ {r}
    /\ UNCHANGED <<last, published, current, stamps, checked, via, repairs, memo, port, changes, overdue>>

\* What asking for the revision's verdict can give: the one on record for the
\* version in force, or whatever the port answers as that version.
Verdicts(r) == IF Screened(r) THEN {memo[r].verdict} ELSE {"allow", "deny"}
UnderReview(r) == Turn(r) /\ state[r] = "StaleReview"

\* (a careless edition: the reason alone decides)
Earned_byReason(r) == IF via[r] # "RollbackRequested" THEN "Superseded" ELSE "Published"
\* Where a revision that passes goes: three rows that differ in routing only.
Earned(r) == IF Lost(r) /\ via[r] # "RollbackRequested" THEN "Superseded" ELSE "Published"

Restamped_not(r) == stamps   \* (a careless edition)
Restamped(r) == [stamps EXCEPT ![r] = current]

ReVerified(r) ==
    /\ UnderReview(r)
    /\ "allow" \in Verdicts(r)
    /\ Recorded(r, "allow")
    /\ Become(r, Earned(r))
    /\ stamps' = Restamped(r)
    /\ checked' = [checked EXCEPT ![r] = current]
    /\ awaiting' = IF via[r] = "RollbackRequested" THEN awaiting \cup {r} ELSE awaiting \ {r}
    /\ overdue' = overdue \ {r}
    /\ UNCHANGED <<last, published, live, current, repairs, port, changes, served, asked>>

\* The guardrail denies, or another check of the re-verification fails.
ReVerificationFails(r) ==
    /\ UnderReview(r)
    /\ \E v \in Verdicts(r) : Recorded(r, v)
    /\ LeaveAir(r)
    /\ UNCHANGED <<last, published, current, stamps, checked, awaiting, repairs, port, changes, served, overdue>>

\* (a careless edition: no answer counts as a denial)
ScreeningUnanswered_denies(r) ==
    /\ UnderReview(r)
    /\ ~Screened(r)
    /\ LeaveAir(r)
    /\ UNCHANGED <<last, published, current, stamps, checked, awaiting, repairs, memo, port, changes,
                   served, overdue>>

\* The port does not answer, answers as another version, or answers nonsense:
\* the Timeout row's ServiceUnreachable.
ScreeningUnanswered(r) ==
    /\ UnderReview(r)
    /\ ~Screened(r)
    /\ Become(r, "ErrorRecovery")
    /\ UNCHANGED <<last, published, live, current, stamps, checked, awaiting, repairs, memo, port, changes, history>>

BudgetLeft_oneMore(r) == repairs[r] <= Budget   \* (a careless edition)
BudgetLeft(r) == repairs[r] < Budget

\* (a careless edition: the retry is not charged to the budget)
Retry_uncounted(r) ==
    /\ Turn(r)
    /\ state[r] = "ErrorRecovery"
    /\ BudgetLeft(r)
    /\ EnterStaleReview(r, "(auto)")
    /\ UNCHANGED <<last, published, live, current, stamps, checked, awaiting, repairs, memo, port, changes, history>>

\* ErrorRecovery: a screening never landed, so its key is always unused.
Retry(r) ==
    /\ Turn(r)
    /\ state[r] = "ErrorRecovery"
    /\ BudgetLeft(r)
    /\ EnterStaleReview(r, "(auto)")
    /\ repairs' = [repairs EXCEPT ![r] = @ + 1]
    /\ UNCHANGED <<last, published, live, current, stamps, checked, awaiting, memo, port, changes, history>>

GiveUp(r) ==
    /\ Turn(r)
    /\ state[r] = "ErrorRecovery"
    /\ ~BudgetLeft(r)
    /\ Become(r, "BlockedRecoverable")
    /\ UNCHANGED <<last, published, live, current, stamps, checked, awaiting, repairs, memo, port, changes, history>>

Settle(r) ==
    \/ LivePointerMoved(r)
    \/ ReVerified(r)
    \/ ReVerificationFails(r)
    \/ ScreeningUnanswered(r)
    \/ Retry(r)
    \/ GiveUp(r)

Event(r) ==
    \/ CourseChecksPassed(r)
    \/ ApprovalGranted(r)
    \/ VerdictFiled(r)
    \/ BackToWork(r)
    \/ DraftClosed(r)
    \/ PublishRequested(r)
    \/ ReviseRequested(r)
    \/ RollbackRequested(r)
    \/ WithdrawRequested(r)
    \/ ArchiveRequested(r)
    \/ BlockedInputFixed(r)
    \/ Timeout(r)

Change ==
    \E k \in Kinds, to \in Versions : \E judged \in SUBSET Asked(k, to) :
        /\ Quiet
        /\ Undecided(k, to, judged) = {}
        /\ \E reached \in SUBSET published : \E read \in SUBSET (reached \cap Asked(k, to)) :
              ConfigChanged(k, to, judged, reached, read)

Next == Change \/ \E r \in Rev : Event(r) \/ Settle(r)

\* The settling loop runs to its end before fire returns; nobody is obliged to
\* send an event.
Fairness == WF_vars(\E r \in Rev : Settle(r))

Spec == Init /\ [][Next]_vars /\ Fairness

-----------------------------------------------------------------------------
(* Safety                                                                  *)

\* The course has at most one revision being worked on: no two forks of a
\* published revision are ever open together (no_open_draft).
OneOpenDraft == \A r, s \in Rev : IsDraft(r) /\ IsDraft(s) => r = s

\* I11 as amended: whatever learners see is published, or is being re-verified
\* under a rule that changed while it was on air.
LiveIsServable == live # None => state[live] \in LiveLineage \ {"Superseded"}

\* I12: a revision is superseded only if learners were once served it and no
\* longer are, whichever way the pointer moved.
SupersededWasServed == \A r \in Rev : state[r] = "Superseded" => r \in served /\ live # r

\* I7 and I15 without the escape the runtime audit takes: no revision is
\* Published while a change that reached it has not been answered by a
\* re-verification.
OnAirIsVerified == \A r \in Rev : state[r] = "Published" => r \notin overdue

\* Once an event has settled, the only Published revision is the one the
\* pointer names; others can stand Published only on a course that is off air.
NoShadowPublication == Quiet => \A r \in Rev : state[r] = "Published" => live \in {r, None}

\* I13 and publication together: the pointer only ever moves to a Published
\* revision stamped with every version in force.
PointerMovesToVerified ==
    [][live' \notin {live, None} => state[live'] = "Published" /\ stamps[live'] = current]_vars

\* evaluation.decide: a revision is withdrawn by the machine only on a verdict
\* given under the guardrail in force, never because nobody could be asked.
JudgedWithdrawal ==
    [][\A r \in Rev : ~Quiet /\ state[r] # "Withdrawn" /\ state'[r] = "Withdrawn"
                        => Screened(r)']_vars

\* How many more steps the settling loop can take with a revision: a screening
\* and what follows it, for each retry it has left and once more.
StepsLeft(r) ==
    IF state[r] = "StaleReview" THEN 2 * (Budget - repairs[r]) + 2
    ELSE IF state[r] = "ErrorRecovery" THEN 2 * (Budget - repairs[r]) + 1
    ELSE IF state[r] = "Published" /\ r \in awaiting THEN 1 ELSE 0

\* One revision has fewer steps left, and no other has more.
UsesUpAStep ==
    \E r \in Rev : /\ StepsLeft(r)' < StepsLeft(r)
                  /\ \A s \in Rev \ {r} : StepsLeft(s)' <= StepsLeft(s)

\* "An (auto) cycle in the table" (settling.py, settle): there is none, whatever
\* the services answer.  Every step of settling uses up what one revision has
\* left and gives no other anything, so one event is followed by no more than
\* 2 * Budget + 2 of them for each revision.
SettlingDescends == [][~Quiet => UsesUpAStep]_vars

-----------------------------------------------------------------------------
(* Liveness                                                                *)

\* Settling.settle returns: whatever the screening port answers, or if it never
\* does, the retry budget brings the machine to rest.
Settles == []<>Quiet

-----------------------------------------------------------------------------
(* Why the safety properties hold: an inductive invariant                   *)

\* Which states go with having been published and having been created at all.
History ==
    /\ \A r \in Rev : state[r] = "Absent" <=> r > last
    /\ \A r \in Rev : state[r] \in LiveLineage \cup {"Withdrawn"} => r \in published
    /\ \A r \in published : state[r] \in LiveLineage \cup {"Withdrawn", "Archived"}

\* One revision at a time is owed the pointer, and settling serves it next.
Awaited ==
    \A r \in awaiting :
        /\ state[r] = "Published"
        /\ stamps[r] = current
        /\ \A s \in Rev : s < r => ~Busy(s)
        /\ \A s \in awaiting : s = r

\* Everything past its first move of the pointer was served; what stands
\* Published beside the live revision does so only until the pointer moves.
Lineage ==
    /\ \A r \in Rev : state[r] \in LiveLineage /\ r \notin awaiting => r \in served
    /\ \A r \in Rev : state[r] = "Published" /\ awaiting = {} => live \in {r, None}

\* Stamps that are about to be relied on.
Stamped ==
    /\ overdue \subseteq published
    /\ \A r \in Rev : state[r] = "Approved" => stamps[r] = checked[r]

IInv ==
    /\ TypeOK
    /\ History
    /\ OneOpenDraft
    /\ LiveIsServable
    /\ Awaited
    /\ Lineage
    /\ SupersededWasServed
    /\ OnAirIsVerified
    /\ Stamped

-----------------------------------------------------------------------------
(* What learners are promised                                              *)

\* A published revision that may be put on air, and one that never will be again.
Fit == {r \in published : state[r] \in {"Published", "Superseded"} /\ r \notin overdue}
Retired == {r \in published : state[r] \in {"Withdrawn", "Archived"}}

Air == INSTANCE OnAir WITH onAir <- live, fit <- Fit, retired <- Retired

\* The machine keeps the promise of module OnAir: publication, rollback, rule
\* changes, withdrawal and archiving are its five steps and nothing else moves
\* the pointer.
KeepsPromise == Air!Spec

-----------------------------------------------------------------------------
(* What the documents say and the code does not do                         *)

\* bookkeeping._restamp: "a revision re-verified on its way back from a rollback
\* earns the pointer".
RollbackEarnsPointer ==
    [][\A r \in asked : state[r] = "StaleReview" /\ state'[r] \in {"Published", "Superseded"}
                           => r \in awaiting']_vars

\* bookkeeping._restamp: "one re-verified because a rule changed under it
\* already holds" the pointer.
RuleChangeKeepsPlace ==
    [][\A r \in Rev : /\ via[r] = "ConfigChanged"
                       /\ state[r] = "StaleReview"
                       /\ state'[r] = "Published"
                       => live = r]_vars

\* bookkeeping._restamp: a revision that comes back from re-verification "was
\* screened whole under the version in force", which takes somebody to screen it.
ScreenedWhole ==
    [][\A r \in Rev : state[r] = "StaleReview" /\ state'[r] \in {"Published", "Superseded"}
                       => port]_vars
=============================================================================
