----------------------------- MODULE OutlinePhase -----------------------------
(***************************************************************************)
(* A course before it has nodes: the brief is submitted, judged and         *)
(* screened, its outline is asked of the model, screened, checked and put   *)
(* before a person (model/transitions.yaml, the rows from AwaitingBrief to  *)
(* OutlineReview), driven by the editor's buttons (ui/session.py) through   *)
(* the gateway (gateway/pipeline.py).                                       *)
(*                                                                         *)
(* One act is served at a time.  A provider's call is two steps, between    *)
(* which a rule may change or the draft be discarded.  The machine's (auto) *)
(* rows run one by one, and the act goes on when none is left.              *)
(***************************************************************************)
EXTENDS Naturals, FiniteSets

CONSTANTS
    Briefs,          \* what a person may submit
    Valid,           \* those JSON Schema accepts,
    Permitted,       \* that OPA lets their author submit,
    MayOutline,      \* and have outlined,
    Feasible,        \* that Z3 finds room for
    Skeletons,       \* outlines, as a model may answer or a person edit them
    Sound,           \* those of them the outline's checks accept
    Guardrails,      \* versions of the guardrail
    FirstGuardrail,
    RetryBudget,     \* thresholds.repair_budget
    MaxRollouts      \* bound on the guardrail changes of a behaviour

ASSUME BriefsAssumption ==
    Valid \subseteq Briefs /\ Permitted \subseteq Briefs /\ MayOutline \subseteq Briefs /\ Feasible \subseteq Briefs
ASSUME SkeletonsAssumption == Sound \subseteq Skeletons
ASSUME GuardrailsAssumption == FirstGuardrail \in Guardrails
ASSUME RetryBudgetAssumption == RetryBudget \in Nat
ASSUME MaxRolloutsAssumption == MaxRollouts \in Nat

Nothing == "nothing"
ASSUME NothingAssumption == Nothing \notin Briefs \cup Skeletons

VARIABLES
    phase,       \* the revision's state
    origin,      \* blocked_from: the state a block was entered from
    issuedFrom,  \* pending_operation.issued_from
    brief, skeleton,  \* the brief, and the proposed outline
    tries,       \* repair_count
    guardrail,   \* the version in force
    rollouts,    \* its changes so far, for the bound
    desk,        \* the act being served: what it does, and the turns it has left
    wire,        \* the provider being asked
    answering,   \* the version the screening service answers as
    under,       \* the version in force when the screening in flight was asked for
    memo,        \* Pipeline.screenings: text, version in force, verdict and its version
    draftKey,    \* of the present generation key: never, issued or landed
    \* History, read by no action:
    judged,      \* verdicts landed: text, version and verdict
    drafted,     \* whether the model wrote the present outline as it stands
    detour,      \* an outline was put to the checks past a blocked brief
    draftOwed    \* of the last generation: none, an answer, or (freed) one that a
                 \* person released from a block before it came

machine == <<phase, origin, issuedFrom, brief, skeleton, tries, guardrail, rollouts>>
outlineVars == <<machine, desk, wire, answering, under, memo, draftKey, judged, drafted, detour, draftOwed>>

Phases == {"AwaitingBrief", "BriefValidation", "BriefFeasibility", "OutlineDrafting",
           "OutlineGuardrail", "OutlineChecks", "OutlineRepair", "OutlineReview",
           "ErrorRecovery", "BlockedRecoverable", "BlockedFinal", "ContentInProgress", "Archived"}
Texts == Briefs \cup Skeletons
Verdicts == [text : Texts, version : Guardrails, allowed : BOOLEAN]
Memories == [text : Texts, under : Guardrails, version : Guardrails, allowed : BOOLEAN]

OutlineTypeOK ==
    /\ phase \in Phases
    /\ origin \in Phases \cup {Nothing}
    /\ issuedFrom \in {"BriefValidation", "OutlineDrafting", "OutlineGuardrail", Nothing}
    /\ brief \in Briefs \cup {Nothing}
    /\ skeleton \in Skeletons \cup {Nothing}
    /\ tries \in 0..RetryBudget
    /\ guardrail \in Guardrails
    /\ rollouts \in 0..MaxRollouts
    /\ desk \in [doing : {"idle", "brief", "draft", "outline"}, left : 0..RetryBudget + 1]
    /\ wire \in {"none", "screener", "model"}
    /\ answering \in Guardrails
    /\ under \in Guardrails \cup {Nothing}
    /\ memo \subseteq Memories
    /\ draftKey \in {"never", "issued", "landed"}
    /\ judged \subseteq Verdicts
    /\ drafted \in BOOLEAN /\ detour \in BOOLEAN
    /\ draftOwed \in {"none", "answer", "freed"}

OffDuty == [doing |-> "idle", left |-> 0]

OutlineInit ==
    /\ phase = "AwaitingBrief"
    /\ origin = Nothing /\ issuedFrom = Nothing
    /\ brief = Nothing /\ skeleton = Nothing
    /\ tries = 0
    /\ guardrail = FirstGuardrail /\ rollouts = 0
    /\ desk = OffDuty
    /\ wire = "none"
    /\ answering \in Guardrails /\ under = Nothing
    /\ memo = {} /\ judged = {}
    /\ draftKey = "never"
    /\ drafted = FALSE /\ detour = FALSE /\ draftOwed = "none"

-----------------------------------------------------------------------------
(* The machine                                                              *)

\* (a careless edition: feasibility is asked of the outline's phase)
BriefPhase_validation == {"AwaitingBrief", "BriefValidation"}
\* blocked_at: the phase a block belongs to (machine/endpoints.py, PHASE_OF)
BriefPhase == {"AwaitingBrief", "BriefValidation", "BriefFeasibility"}
BlockedAtBrief == phase = "BlockedRecoverable" /\ origin \in BriefPhase
BlockedAtOutline == phase = "BlockedRecoverable" /\ origin \notin BriefPhase

\* The revision enters "to", having taken t retries.
Enters(to, t) ==
    /\ phase' = to
    /\ tries' = t
    /\ origin' = IF to # "BlockedRecoverable" THEN Nothing
                 ELSE IF phase = "ErrorRecovery" THEN issuedFrom ELSE phase
    /\ issuedFrom' = IF to = "ErrorRecovery" THEN phase ELSE Nothing

\* (a careless edition: a draft called for again is the draft called for before)
NewRequest_first == phase = "BriefFeasibility" /\ phase' = "OutlineDrafting"
\* entries: sent to be drafted, other than straight back from recovery
NewRequest == phase' = "OutlineDrafting" /\ phase \notin {"OutlineDrafting", "ErrorRecovery"}

\* What every step does to the present generation key and to what is owed, k and o
\* being what the step itself says of them: an answer is owed until it comes or the
\* outline goes on without it.
KeyIs(k, o) ==
    /\ draftKey' = IF NewRequest THEN "never" ELSE k
    /\ draftOwed' = IF phase' \notin {"OutlineDrafting", "ErrorRecovery", "BlockedRecoverable"} THEN "none"
               ELSE IF o = "answer" /\ NewRequest THEN "freed"
               ELSE o

NoCall == UNCHANGED <<wire, answering, under>>
Stays == UNCHANGED <<brief, skeleton, guardrail, rollouts, drafted, detour>>
AsBefore == KeyIs(draftKey, draftOwed) /\ UNCHANGED <<memo, judged>>

HasRows == phase \in {"BriefFeasibility", "OutlineChecks", "OutlineRepair", "ErrorRecovery"}
           \/ (phase = "BriefValidation" /\ ~(brief \in Valid /\ brief \in Permitted))
AtRest == ~HasRows

BriefJudged ==
    /\ phase = "BriefValidation"
    /\ \/ brief \notin Valid /\ Enters("BlockedRecoverable", tries)
       \/ brief \in Valid /\ brief \notin Permitted /\ Enters("BlockedFinal", tries)
    /\ Stays

RoomFound ==
    /\ phase = "BriefFeasibility"
    /\ Enters(IF brief \in Feasible THEN "OutlineDrafting" ELSE "BlockedRecoverable", tries)
    /\ Stays

\* OPA's refusal is asked first, and is final.
OutlineJudged ==
    /\ phase = "OutlineChecks"
    /\ Enters(IF brief \notin MayOutline THEN "BlockedFinal"
              ELSE IF skeleton \in Sound /\ brief \in Feasible THEN "OutlineReview"
              ELSE "OutlineRepair", tries)
    /\ Stays

\* (a careless edition: the last retry is counted as one still left)
OutlineSentBack_oneMore ==
    /\ phase = "OutlineRepair"
    /\ IF tries <= RetryBudget THEN Enters("OutlineDrafting", tries + 1)
                               ELSE Enters("BlockedRecoverable", tries)
    /\ Stays

OutlineSentBack ==
    /\ phase = "OutlineRepair"
    /\ IF tries < RetryBudget THEN Enters("OutlineDrafting", tries + 1)
                              ELSE Enters("BlockedRecoverable", tries)
    /\ Stays

\* (a careless edition: a screening that never answered is read as one that landed)
Recovers_landed ==
    /\ phase = "ErrorRecovery"
    /\ IF issuedFrom = "OutlineGuardrail" THEN Enters("OutlineChecks", tries)
       ELSE IF tries < RetryBudget THEN Enters(issuedFrom, tries + 1)
       ELSE Enters("BlockedRecoverable", tries)
    /\ Stays

\* Neither a screening nor a generation that did not answer has landed.
Recovers ==
    /\ phase = "ErrorRecovery"
    /\ IF tries < RetryBudget THEN Enters(issuedFrom, tries + 1)
                              ELSE Enters("BlockedRecoverable", tries)
    /\ Stays

OutlineSettles ==
    /\ BriefJudged \/ RoomFound \/ OutlineJudged \/ OutlineSentBack \/ Recovers
    /\ AsBefore
    /\ UNCHANGED desk /\ NoCall

-----------------------------------------------------------------------------
(* The buttons                                                              *)

FreeDesk == desk.doing = "idle" /\ AtRest
Serves(what, turns) == desk' = [doing |-> what, left |-> turns]
Turns == RetryBudget + 1
\* submit: the brief is screened once, then the outline is drafted.
Submit(b) ==
    /\ FreeDesk
    /\ phase = "AwaitingBrief" \/ BlockedAtBrief
    /\ Enters("BriefValidation", IF BlockedAtBrief THEN 0 ELSE tries)
    /\ brief' = b
    /\ Serves("brief", Turns)
    /\ AsBefore /\ NoCall
    /\ UNCHANGED <<skeleton, guardrail, rollouts, drafted, detour>>

\* reject_outline: told the reason, the model is asked again.
RejectOutline ==
    /\ FreeDesk
    /\ phase = "OutlineReview"
    /\ Enters("OutlineDrafting", tries)
    /\ Serves("draft", Turns)
    /\ Stays /\ AsBefore /\ NoCall

\* remove_node, or an outline of the person's own: it is checked again, and not
\* screened.
OutlineTakenUp(o) ==
    /\ FreeDesk
    /\ phase \in {"OutlineReview", "BlockedRecoverable"}
    /\ skeleton' = o
    /\ drafted' = FALSE
    /\ detour' = (detour \/ BlockedAtBrief)
    /\ Enters("OutlineChecks", IF phase = "BlockedRecoverable" THEN 0 ELSE tries)
    /\ AsBefore /\ NoCall
    /\ UNCHANGED <<desk, brief, guardrail, rollouts>>

ApproveOutline ==
    /\ FreeDesk
    /\ phase = "OutlineReview"
    /\ Enters("ContentInProgress", 0)
    /\ Stays /\ AsBefore /\ NoCall /\ UNCHANGED desk

\* release: only an outline that was never written can be asked for again.
ReleaseOutline ==
    /\ FreeDesk
    /\ BlockedAtOutline /\ skeleton = Nothing
    /\ Enters("OutlineDrafting", 0)
    /\ Stays /\ AsBefore /\ NoCall /\ UNCHANGED desk

\* draft_outline, called for once more by whoever drives the gateway: no button
\* does after a release.
DraftAgain ==
    /\ FreeDesk
    /\ phase = "OutlineDrafting"
    /\ Serves("draft", 1)
    /\ UNCHANGED machine
    /\ AsBefore /\ NoCall /\ UNCHANGED <<drafted, detour>>

-----------------------------------------------------------------------------
(* The gateway                                                              *)

Done == desk' = OffDuty
Working(what) == desk.doing = what /\ wire = "none" /\ AtRest
Quietly == UNCHANGED <<machine, memo, judged, drafted, detour>>

Screens == IF desk.doing = "brief" THEN brief ELSE skeleton
Point == IF desk.doing = "brief" THEN "BriefValidation" ELSE "OutlineGuardrail"
Remembered == {v \in memo : v.text = Screens /\ v.under = guardrail /\ v.version = answering}
Asks(whom, version) == wire' = whom /\ under' = version /\ UNCHANGED answering
Hears(whom) == wire = whom /\ Asks("none", Nothing)

\* The brief that did not pass its own checks is not screened; _draft follows.
BriefPassedOver ==
    /\ Working("brief") /\ phase # "BriefValidation"
    /\ Serves("draft", Turns)
    /\ Quietly /\ KeyIs(draftKey, draftOwed) /\ NoCall

\* _draft: a call of draft_outline for every turn left, while there is something
\* to draft.
DraftEnds ==
    /\ Working("draft")
    /\ desk.left = 0 \/ phase # "OutlineDrafting" \/ draftKey = "landed"
    /\ Done
    /\ Quietly /\ KeyIs(draftKey, draftOwed) /\ NoCall

AskForOutline ==
    /\ Working("draft")
    /\ desk.left > 0 /\ phase = "OutlineDrafting" /\ draftKey # "landed"
    /\ Asks("model", Nothing)
    /\ Quietly /\ UNCHANGED desk
    /\ KeyIs("issued", "answer")

OutlineGenerated(o) ==
    /\ Hears("model")
    /\ phase = "OutlineDrafting"
    /\ Enters("OutlineGuardrail", tries)
    /\ skeleton' = o /\ drafted' = TRUE
    /\ Serves("outline", desk.left - 1)
    /\ KeyIs("landed", "none")
    /\ UNCHANGED <<brief, guardrail, rollouts, detour, memo, judged>>

\* Timeout, or ModelError for an answer in the wrong shape, which the key counts.
OutlineFails(malformed) ==
    /\ Hears("model")
    /\ phase = "OutlineDrafting"
    /\ Enters("ErrorRecovery", tries)
    /\ Serves("draft", desk.left - 1)
    /\ Stays
    /\ KeyIs(IF malformed THEN "never" ELSE draftKey, IF malformed THEN "none" ELSE draftOwed)
    /\ UNCHANGED <<memo, judged>>

\* The verdict lands: on the brief, and on the outline.
Lands(allowed) ==
    /\ Enters(IF desk.doing = "brief" THEN (IF allowed THEN "BriefFeasibility" ELSE "BlockedFinal")
              ELSE IF allowed THEN "OutlineChecks" ELSE "OutlineRepair", tries)
    /\ judged' = judged \cup {[text |-> Screens, version |-> guardrail, allowed |-> allowed]}
    /\ Serves("draft", desk.left)
    /\ Stays /\ KeyIs(draftKey, draftOwed)

\* Asked before under the version in force: the answer is the one it gave.
ScreenedBefore ==
    /\ Working(desk.doing) /\ desk.doing \in {"brief", "outline"}
    /\ phase = Point
    /\ \E v \in Remembered : v.version = guardrail /\ Lands(v.allowed)
    /\ UNCHANGED memo /\ NoCall

AskScreening ==
    /\ Working(desk.doing) /\ desk.doing \in {"brief", "outline"}
    /\ phase = Point /\ Remembered = {}
    /\ Asks("screener", guardrail)
    /\ Quietly /\ KeyIs(draftKey, draftOwed) /\ UNCHANGED desk

\* (a careless edition: what was answered is not kept)
OutlineScreened_forgotten(allowed) ==
    /\ Hears("screener")
    /\ phase = Point
    /\ answering = guardrail
    /\ Lands(allowed)
    /\ UNCHANGED memo

\* The verdict of the version in force is kept, under the version that was in
\* force when it was asked for.
OutlineScreened(allowed) ==
    /\ Hears("screener")
    /\ phase = Point
    /\ answering = guardrail
    /\ Lands(allowed)
    /\ memo' = memo \cup {[text |-> Screens, under |-> under, version |-> answering, allowed |-> allowed]}

\* No answer, one in the wrong shape, or one of a version not in force, asked for
\* now or remembered.
ScreeningFails ==
    /\ \/ Hears("screener")
       \/ /\ Working(desk.doing) /\ desk.doing \in {"brief", "outline"}
          /\ \E v \in Remembered : v.version # guardrail
          /\ NoCall
    /\ phase = Point
    /\ Enters("ErrorRecovery", tries)
    /\ Serves("draft", desk.left)
    /\ Stays /\ AsBefore

\* (a careless edition: only a generation is looked at again when it comes)
Overrun_model ==
    /\ wire = "model" /\ phase # "OutlineDrafting"
    /\ Asks("none", Nothing)
    /\ Done
    /\ Quietly /\ KeyIs(draftKey, draftOwed)

\* The course moved under the act: what came lands nowhere, and the act ends.
Overrun ==
    /\ \/ wire = "model" /\ phase # "OutlineDrafting"
       \/ wire = "screener" /\ phase # Point
    /\ Asks("none", Nothing)
    /\ Done
    /\ Quietly /\ KeyIs(draftKey, draftOwed)

-----------------------------------------------------------------------------
(* What reaches the machine from elsewhere, in a call or between acts        *)

Between == AtRest /\ (desk.doing = "idle" \/ wire # "none")

GuardrailRollout(to) ==
    /\ Between
    /\ phase \notin {"Archived", "ContentInProgress"}
    /\ rollouts < MaxRollouts /\ rollouts' = rollouts + 1
    /\ guardrail' = to
    /\ UNCHANGED <<phase, origin, issuedFrom, brief, skeleton, tries, desk, drafted, detour>>
    /\ AsBefore /\ NoCall

\* The service comes to answer as the version in force.
ServiceFollows ==
    /\ wire # "screener" /\ answering # guardrail
    /\ answering' = guardrail
    /\ UNCHANGED <<machine, desk, wire, under, drafted, detour>>
    /\ AsBefore

Discard ==
    /\ Between
    /\ phase \notin {"Archived", "BlockedFinal", "ContentInProgress"}
    /\ Enters("Archived", tries)
    /\ Stays /\ AsBefore /\ UNCHANGED desk /\ NoCall

DeskRuns == BriefPassedOver \/ DraftEnds \/ AskForOutline \/ ScreenedBefore \/ AskScreening \/ Overrun
Answered == \/ \E o \in Skeletons : OutlineGenerated(o)
            \/ \E malformed \in BOOLEAN : OutlineFails(malformed)
            \/ \E allowed \in BOOLEAN : OutlineScreened(allowed)
            \/ ScreeningFails

OutlineNext ==
    \/ \E b \in Briefs : Submit(b)
    \/ RejectOutline \/ ApproveOutline \/ ReleaseOutline \/ DraftAgain
    \/ \E o \in Skeletons : OutlineTakenUp(o)
    \/ OutlineSettles \/ DeskRuns \/ Answered
    \/ \E to \in Guardrails : GuardrailRollout(to)
    \/ ServiceFollows
    \/ Discard

OutlineSpec == OutlineInit /\ [][OutlineNext]_outlineVars

\* The act's thread runs, the machine settles inside it, and a provider's adapter
\* answers or gives up.
OutlineFairness ==
    /\ WF_outlineVars(DeskRuns)
    /\ WF_outlineVars(OutlineSettles)
    /\ WF_outlineVars(Answered)

FairOutline == OutlineSpec /\ OutlineFairness

-----------------------------------------------------------------------------
(* Properties                                                               *)

\* What a person is shown, and what is committed, passed the outline's checks as
\* it stands, and if a model wrote it, the guardrail allowed it as it stands
\* (machine/bookkeeping.py, on_event, and store_guards.py, _key_unused).
ReviewedIsChecked ==
    phase \in {"OutlineReview", "ContentInProgress"} =>
        /\ skeleton \in Sound /\ brief \in Feasible \cap MayOutline
        /\ drafted => \E v \in judged : v.text = skeleton /\ v.allowed

\* A model is told, and paid for, only what was accepted: a brief that is valid,
\* permitted and feasible and that the guardrail allowed (gateway/pipeline.py:7,
\* "before any spend"), unless somebody put an outline to the checks while the
\* brief was blocked.
NothingPaidForRefusedBrief ==
    wire = "model" /\ ~detour =>
        /\ brief \in Valid \cap Permitted \cap Feasible
        /\ \E v \in judged : v.text = brief /\ v.allowed

\* One text is judged once by one version of the guardrail, however often it is
\* proposed, refused and proposed again (gateway/pipeline.py, screen), unless
\* the version came into force while the answer was on its way: that answer is
\* kept under the version it replaced.
OneAnswerPerText ==
    (\A m \in memo : m.under = m.version) =>
        \A v, w \in judged : v.text = w.text /\ v.version = w.version => v.allowed = w.allowed

\* A generation that brought nothing is asked again under the key it was issued
\* with while the revision is only recovering, and one that an answer closed is
\* not, whatever closed it: a new request is never taken for one already done, nor
\* an unanswered one for a new request (gateway/action_subject.py, entries).  What
\* becomes of the key of a draft released from a block is ReleasedDraftKeepsKey's.
DraftKeyIsDue ==
    wire = "none" /\ (phase = "OutlineDrafting" \/ (phase = "ErrorRecovery" /\ issuedFrom = "OutlineDrafting")) =>
        /\ draftOwed = "answer" => draftKey = "issued"
        /\ draftOwed = "none" => draftKey = "never"

\* Every button comes back, whatever the providers do and the rules become.
EveryActReturns == desk.doing # "idle" ~> desk.doing = "idle"

-----------------------------------------------------------------------------
\* What the sources say of this, and the code does not hold:

\* A retry of a call that never answered keeps the key, "also when a person
\* releases it from a block, because the call still never answered"
\* (gateway/action_subject.py:62).
ReleasedDraftKeepsKey == draftOwed = "freed" => draftKey = "issued"
=============================================================================
