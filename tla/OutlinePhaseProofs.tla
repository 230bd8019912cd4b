--------------------------- MODULE OutlinePhaseProofs ---------------------------
(* The course before it has nodes, for every set of briefs and outlines, every    *)
(* retry budget and every number of guardrail versions.  The properties need to   *)
(* know what an act in progress rests on: what the provider was asked is still    *)
(* there when it answers (Answerable), a verdict is on the text that stands, and  *)
(* what one key was issued for is what the next one is asked for.                 *)
EXTENDS OutlinePhase, TLAPS

\* What a phase has to work on.
Filled ==
    /\ phase \notin {"AwaitingBrief", "Archived"} => brief \in Briefs
    /\ phase = "ErrorRecovery" => issuedFrom \in {"BriefValidation", "OutlineDrafting", "OutlineGuardrail"}
    /\ phase = "OutlineGuardrail" \/ (phase = "ErrorRecovery" /\ issuedFrom = "OutlineGuardrail") =>
           skeleton \in Skeletons

\* A provider is asked by the act that can use the answer, where it can be used:
\* only a discarded draft takes that away.
Answerable ==
    /\ wire # "none" => AtRest
    /\ wire = "model" => desk.doing = "draft" /\ desk.left > 0 /\ phase \in {"OutlineDrafting", "Archived"}
    /\ wire = "screener" =>
           desk.doing \in {"brief", "outline"} /\ phase \in {Point, "Archived"} /\ under \in Guardrails

Allowed(text) == \E v \in judged : v.text = text /\ v.allowed

PastTheBrief ==
    \/ phase \in {"OutlineDrafting", "OutlineGuardrail", "OutlineChecks", "OutlineRepair",
                  "OutlineReview", "ContentInProgress"}
    \/ phase = "ErrorRecovery" /\ issuedFrom # "BriefValidation"
    \/ BlockedAtOutline

\* Past the brief, the brief was accepted.
BriefStands ==
    /\ phase = "BriefFeasibility" => brief \in Valid \cap Permitted /\ Allowed(brief)
    /\ PastTheBrief /\ ~detour => brief \in Valid \cap Permitted \cap Feasible /\ Allowed(brief)
    /\ NothingPaidForRefusedBrief

\* Past the screening, what the model wrote was allowed.
OutlineStands ==
    /\ phase = "OutlineChecks" /\ drafted => Allowed(skeleton)
    /\ ReviewedIsChecked

\* What was judged is remembered, and what is being asked is not.
Remembering ==
    /\ \A v \in judged : \E m \in memo : m.text = v.text /\ m.version = v.version /\ m.allowed = v.allowed
    /\ (\A m \in memo : m.under = m.version) =>
           \A m, k \in memo : m.text = k.text /\ m.version = k.version => m.allowed = k.allowed
    /\ wire = "screener" =>
           \A m \in memo : ~(m.text = Screens /\ m.under = under /\ m.version = answering)

\* An answer is owed from when it is asked for until it comes, through recoveries
\* and a block; a release only opens the draft.
KeyStands ==
    /\ draftOwed # "none" => phase \in {"OutlineDrafting", "ErrorRecovery", "BlockedRecoverable"}
    /\ draftOwed # "none" /\ phase = "ErrorRecovery" => issuedFrom = "OutlineDrafting"
    /\ draftOwed = "freed" => phase = "OutlineDrafting"
    /\ wire = "model" /\ phase = "OutlineDrafting" => draftKey = "issued" /\ draftOwed = "answer"
    /\ DraftKeyIsDue

OutlineInv ==
    /\ OutlineTypeOK /\ Filled /\ Answerable
    /\ BriefStands /\ OutlineStands /\ Remembering /\ KeyStands

--------------------------------------------------------------------------------
(* What an act rests on                                                           *)

\* Nobody is asked while no act is being served.
LEMMA NobodyIsAsked ==
    ASSUME OutlineTypeOK, Answerable, desk.doing = "idle"
    PROVE  wire = "none"
BY DEF OutlineTypeOK, Answerable

\* What is screened is a brief or an outline.
LEMMA ScreensIsText ==
    ASSUME Filled, phase = Point
    PROVE  Screens \in Texts
BY DEF Filled, Point, Screens, Texts

\* A verdict lands where its act stands, on a brief that passed its own checks.
LEMMA VerdictsLandAtWork ==
    ASSUME OutlineTypeOK, Answerable, phase = Point,
           wire = "screener" \/ (Working(desk.doing) /\ desk.doing \in {"brief", "outline"})
    PROVE  /\ (desk.doing = "brief" /\ phase = "BriefValidation") \/ (desk.doing = "outline" /\ phase = "OutlineGuardrail")
           /\ phase = "BriefValidation" => brief \in Valid \cap Permitted
<1>1. desk.doing \in {"brief", "outline"} /\ AtRest
  BY DEF OutlineTypeOK, Answerable, Working
<1>2. desk.doing = "brief" => phase = "BriefValidation"
  BY DEF Point
<1>3. desk.doing = "outline" => phase = "OutlineGuardrail"
  BY DEF Point
<1>4. phase = "BriefValidation" => brief \in Valid \cap Permitted
  BY <1>1 DEF AtRest, HasRows
<1> QED  BY <1>1, <1>2, <1>3, <1>4

--------------------------------------------------------------------------------
(* The invariant                                                                  *)

\* A course that has no brief yet has nothing to stand for.
LEMMA OutlineInitially == OutlineInit => OutlineInv
<1> SUFFICES ASSUME OutlineInit PROVE OutlineInv
  OBVIOUS
<1> USE DEF OutlineInit
<1>1. OutlineTypeOK
  <2>1. desk \in [doing : {"idle", "brief", "draft", "outline"}, left : 0..RetryBudget + 1]
    BY RetryBudgetAssumption DEF OffDuty
  <2>2. tries \in 0..RetryBudget /\ rollouts \in 0..MaxRollouts /\ guardrail \in Guardrails
    BY GuardrailsAssumption, RetryBudgetAssumption, MaxRolloutsAssumption
  <2>3. memo \subseteq Memories /\ judged \subseteq Verdicts
    OBVIOUS
  <2> QED  BY <2>1, <2>2, <2>3 DEF OutlineTypeOK, Phases
<1>2. Filled /\ Answerable /\ BriefStands /\ OutlineStands
  BY DEF Filled, Answerable, BriefStands, PastTheBrief, BlockedAtOutline, NothingPaidForRefusedBrief,
         OutlineStands, ReviewedIsChecked
<1>3. Remembering /\ KeyStands
  BY DEF Remembering, KeyStands, DraftKeyIsDue
<1> QED  BY <1>1, <1>2, <1>3 DEF OutlineInv

\* A brief that is handed in starts over.
LEMMA SubmitKeeps ==
    ASSUME OutlineInv, NEW b \in Briefs, Submit(b)
    PROVE  OutlineInv'
<1> USE DEF OutlineInv, Submit, FreeDesk, Serves, Turns, BlockedAtBrief
<1>1. OutlineTypeOK'
  BY RetryBudgetAssumption
  DEF Enters, Stays, KeyIs, NewRequest, NoCall, AsBefore, machine, OutlineTypeOK, Phases, Verdicts, Memories, Texts, OffDuty, Turns
<1>2. Filled'
  BY DEF Enters, Stays, KeyIs, NewRequest, NoCall, AsBefore, machine, Filled
<1>3. Answerable'
  <2>1. wire = "none" /\ wire' = "none"
    BY NobodyIsAsked DEF NoCall
  <2> QED  BY <2>1 DEF Answerable
<1>4. BriefStands'
  <2>1. phase' = "BriefValidation" /\ wire' # "model"
    BY NobodyIsAsked DEF Enters, NoCall
  <2> QED  BY <2>1 DEF BriefStands, PastTheBrief, BlockedAtOutline, NothingPaidForRefusedBrief
<1>5. OutlineStands'
  BY DEF Enters, Stays, KeyIs, NewRequest, NoCall, AsBefore, machine, OutlineStands, Allowed, ReviewedIsChecked
<1>6. Remembering'
  <2>1. wire = "none" /\ wire' = "none"
    BY NobodyIsAsked DEF NoCall
  <2> QED  BY <2>1 DEF Enters, Stays, KeyIs, NewRequest, NoCall, AsBefore, machine, Remembering, Screens
<1>7. KeyStands'
  BY DEF Enters, Stays, KeyIs, NewRequest, NoCall, AsBefore, machine, KeyStands, DraftKeyIsDue
<1> QED  BY <1>1, <1>2, <1>3, <1>4, <1>5, <1>6, <1>7

\* An outline sent back is still of the brief that was accepted.
LEMMA RejectOutlineKeeps ==
    ASSUME OutlineInv, RejectOutline
    PROVE  OutlineInv'
<1> USE DEF OutlineInv, RejectOutline, FreeDesk, Serves, Turns
<1>1. OutlineTypeOK'
  BY RetryBudgetAssumption
  DEF Enters, Stays, KeyIs, NewRequest, NoCall, AsBefore, machine, OutlineTypeOK, Phases, Verdicts, Memories, Texts, OffDuty, Turns
<1>2. Filled'
  BY DEF Enters, Stays, KeyIs, NewRequest, NoCall, AsBefore, machine, Filled
<1>3. Answerable'
  BY DEF Enters, Stays, KeyIs, NewRequest, NoCall, AsBefore, machine, Answerable, AtRest, HasRows, Point
<1>4. BriefStands'
  BY DEF Enters, Stays, KeyIs, NewRequest, NoCall, AsBefore, machine, BriefStands, PastTheBrief, BlockedAtOutline, BriefPhase, Allowed, NothingPaidForRefusedBrief
<1>5. OutlineStands'
  BY DEF Enters, Stays, KeyIs, NewRequest, NoCall, AsBefore, machine, OutlineStands, Allowed, ReviewedIsChecked
<1>6. Remembering'
  BY DEF Enters, Stays, KeyIs, NewRequest, NoCall, AsBefore, machine, Remembering, Screens
<1>7. KeyStands'
  <2>1. phase' \in {"OutlineDrafting", "BlockedRecoverable"} /\ wire' = wire
    BY DEF Enters, NoCall
  <2>2. draftOwed = "none"
    BY DEF KeyStands
  <2>3. draftOwed' = "none" /\ (phase' = "OutlineDrafting" => draftKey' = "never")
    BY <2>1, <2>2 DEF AsBefore, KeyIs, NewRequest
  <2>4. wire = "none"
    BY NobodyIsAsked DEF OutlineTypeOK, Answerable, AtRest, HasRows
  <2> QED  BY <2>1, <2>3, <2>4 DEF KeyStands, DraftKeyIsDue
<1> QED  BY <1>1, <1>2, <1>3, <1>4, <1>5, <1>6, <1>7

\* An outline of the person's own was drafted by no model.
LEMMA OutlineTakenUpKeeps ==
    ASSUME OutlineInv, NEW o \in Skeletons, OutlineTakenUp(o)
    PROVE  OutlineInv'
<1> USE DEF OutlineInv, OutlineTakenUp, FreeDesk, BlockedAtBrief
<1>1. OutlineTypeOK'
  <2>1. drafted' \in BOOLEAN /\ detour' \in BOOLEAN
    BY DEF OutlineTypeOK
  <2> QED  BY <2>1, RetryBudgetAssumption
           DEF Enters, KeyIs, NewRequest, NoCall, AsBefore, OutlineTypeOK, Phases
<1>2. Filled'
  BY DEF Enters, Stays, KeyIs, NewRequest, NoCall, AsBefore, machine, Filled
<1>3. Answerable'
  <2>1. wire = "none" /\ wire' = "none"
    BY NobodyIsAsked DEF NoCall
  <2> QED  BY <2>1 DEF Answerable
<1>4. BriefStands'
  BY DEF Enters, Stays, KeyIs, NewRequest, NoCall, AsBefore, machine, BriefStands, PastTheBrief, BlockedAtOutline, BriefPhase, Allowed, NothingPaidForRefusedBrief
<1>5. OutlineStands'
  BY DEF Enters, Stays, KeyIs, NewRequest, NoCall, AsBefore, machine, OutlineStands, Allowed, ReviewedIsChecked
<1>6. Remembering'
  <2>1. wire = "none" /\ wire' = "none"
    BY NobodyIsAsked DEF NoCall
  <2> QED  BY <2>1 DEF Enters, Stays, KeyIs, NewRequest, NoCall, AsBefore, machine, Remembering, Screens
<1>7. KeyStands'
  BY DEF Enters, Stays, KeyIs, NewRequest, NoCall, AsBefore, machine, KeyStands, DraftKeyIsDue
<1> QED  BY <1>1, <1>2, <1>3, <1>4, <1>5, <1>6, <1>7

\* What is approved was reviewed.
LEMMA ApproveOutlineKeeps ==
    ASSUME OutlineInv, ApproveOutline
    PROVE  OutlineInv'
<1> USE DEF OutlineInv, ApproveOutline, FreeDesk
<1>1. OutlineTypeOK'
  BY RetryBudgetAssumption
  DEF Enters, Stays, KeyIs, NewRequest, NoCall, AsBefore, machine, OutlineTypeOK, Phases, Verdicts, Memories, Texts, OffDuty, Turns
<1>2. Filled'
  BY DEF Enters, Stays, KeyIs, NewRequest, NoCall, AsBefore, machine, Filled
<1>3. Answerable'
  BY DEF Enters, Stays, KeyIs, NewRequest, NoCall, AsBefore, machine, Answerable, AtRest, HasRows, Point
<1>4. BriefStands'
  BY DEF Enters, Stays, KeyIs, NewRequest, NoCall, AsBefore, machine, BriefStands, PastTheBrief, BlockedAtOutline, BriefPhase, Allowed, NothingPaidForRefusedBrief
<1>5. OutlineStands'
  BY DEF Enters, Stays, KeyIs, NewRequest, NoCall, AsBefore, machine, OutlineStands, Allowed, ReviewedIsChecked
<1>6. Remembering'
  BY DEF Enters, Stays, KeyIs, NewRequest, NoCall, AsBefore, machine, Remembering, Screens
<1>7. KeyStands'
  BY DEF Enters, Stays, KeyIs, NewRequest, NoCall, AsBefore, machine, KeyStands, DraftKeyIsDue
<1> QED  BY <1>1, <1>2, <1>3, <1>4, <1>5, <1>6, <1>7

\* A draft released from a block is asked for under a new key, an answer owed or not.
LEMMA ReleaseOutlineKeeps ==
    ASSUME OutlineInv, ReleaseOutline
    PROVE  OutlineInv'
<1> USE DEF OutlineInv, ReleaseOutline, FreeDesk, BlockedAtOutline
<1>1. OutlineTypeOK'
  BY RetryBudgetAssumption
  DEF Enters, Stays, KeyIs, NewRequest, NoCall, AsBefore, machine, OutlineTypeOK, Phases, Verdicts, Memories, Texts, OffDuty, Turns
<1>2. Filled'
  BY DEF Enters, Stays, KeyIs, NewRequest, NoCall, AsBefore, machine, Filled
<1>3. Answerable'
  BY DEF Enters, Stays, KeyIs, NewRequest, NoCall, AsBefore, machine, Answerable, AtRest, HasRows, Point
<1>4. BriefStands'
  BY DEF Enters, Stays, KeyIs, NewRequest, NoCall, AsBefore, machine, BriefStands, PastTheBrief, BlockedAtOutline, BriefPhase, Allowed, NothingPaidForRefusedBrief
<1>5. OutlineStands'
  BY DEF Enters, Stays, KeyIs, NewRequest, NoCall, AsBefore, machine, OutlineStands, Allowed, ReviewedIsChecked
<1>6. Remembering'
  BY DEF Enters, Stays, KeyIs, NewRequest, NoCall, AsBefore, machine, Remembering, Screens
<1>7. KeyStands'
  <2>1. phase' = "OutlineDrafting" /\ wire' = wire
    BY DEF Enters, NoCall
  <2>2. draftOwed \in {"none", "answer"}
    BY DEF KeyStands, OutlineTypeOK
  <2>3. draftOwed' \in {"none", "freed"} /\ draftKey' = "never"
    BY <2>1, <2>2 DEF AsBefore, KeyIs, NewRequest
  <2>4. wire = "none"
    BY NobodyIsAsked DEF OutlineTypeOK, Answerable, AtRest, HasRows
  <2> QED  BY <2>1, <2>3, <2>4 DEF KeyStands, DraftKeyIsDue
<1> QED  BY <1>1, <1>2, <1>3, <1>4, <1>5, <1>6, <1>7

\* A call of draft_outline moves nothing by itself.
LEMMA DraftAgainKeeps ==
    ASSUME OutlineInv, DraftAgain
    PROVE  OutlineInv'
<1> USE DEF OutlineInv, DraftAgain, FreeDesk, Serves
<1>1. OutlineTypeOK'
  BY RetryBudgetAssumption
  DEF Enters, Stays, KeyIs, NewRequest, NoCall, AsBefore, machine, OutlineTypeOK, Phases, Verdicts, Memories, Texts, OffDuty, Turns
<1>2. Filled'
  BY DEF Enters, Stays, KeyIs, NewRequest, NoCall, AsBefore, machine, Filled
<1>3. Answerable'
  BY DEF Enters, Stays, KeyIs, NewRequest, NoCall, AsBefore, machine, Answerable, AtRest, HasRows, Point
<1>4. BriefStands'
  BY DEF Enters, Stays, KeyIs, NewRequest, NoCall, AsBefore, machine, BriefStands, PastTheBrief, BlockedAtOutline, BriefPhase, Allowed, NothingPaidForRefusedBrief
<1>5. OutlineStands'
  BY DEF Enters, Stays, KeyIs, NewRequest, NoCall, AsBefore, machine, OutlineStands, Allowed, ReviewedIsChecked
<1>6. Remembering'
  BY DEF Enters, Stays, KeyIs, NewRequest, NoCall, AsBefore, machine, Remembering, Screens
<1>7. KeyStands'
  BY DEF Enters, Stays, KeyIs, NewRequest, NoCall, AsBefore, machine, KeyStands, DraftKeyIsDue
<1> QED  BY <1>1, <1>2, <1>3, <1>4, <1>5, <1>6, <1>7

\* A brief refused goes no further.
LEMMA BriefJudgedKeeps ==
    ASSUME OutlineInv, BriefJudged, AsBefore, NoCall, UNCHANGED desk
    PROVE  OutlineInv'
<1> USE DEF OutlineInv, BriefJudged
<1>1. OutlineTypeOK'
  BY RetryBudgetAssumption
  DEF Enters, Stays, KeyIs, NewRequest, NoCall, AsBefore, machine, OutlineTypeOK, Phases, Verdicts, Memories, Texts, OffDuty, Turns
<1>2. Filled'
  BY DEF Enters, Stays, KeyIs, NewRequest, NoCall, AsBefore, machine, Filled
<1>3. Answerable'
  BY DEF Enters, Stays, KeyIs, NewRequest, NoCall, AsBefore, machine, Answerable, AtRest, HasRows, Point
<1>4. BriefStands'
  BY DEF Enters, Stays, KeyIs, NewRequest, NoCall, AsBefore, machine, BriefStands, PastTheBrief, BlockedAtOutline, BriefPhase, Allowed, NothingPaidForRefusedBrief
<1>5. OutlineStands'
  BY DEF Enters, Stays, KeyIs, NewRequest, NoCall, AsBefore, machine, OutlineStands, Allowed, ReviewedIsChecked
<1>6. Remembering'
  BY DEF Enters, Stays, KeyIs, NewRequest, NoCall, AsBefore, machine, Remembering, Screens
<1>7. KeyStands'
  BY DEF Enters, Stays, KeyIs, NewRequest, NoCall, AsBefore, machine, KeyStands, DraftKeyIsDue
<1> QED  BY <1>1, <1>2, <1>3, <1>4, <1>5, <1>6, <1>7

\* What there is room for is past the brief.
LEMMA RoomFoundKeeps ==
    ASSUME OutlineInv, RoomFound, AsBefore, NoCall, UNCHANGED desk
    PROVE  OutlineInv'
<1> USE DEF OutlineInv, RoomFound
<1>1. OutlineTypeOK'
  BY RetryBudgetAssumption
  DEF Enters, Stays, KeyIs, NewRequest, NoCall, AsBefore, machine, OutlineTypeOK, Phases, Verdicts, Memories, Texts, OffDuty, Turns
<1>2. Filled'
  BY DEF Enters, Stays, KeyIs, NewRequest, NoCall, AsBefore, machine, Filled
<1>3. Answerable'
  BY DEF Enters, Stays, KeyIs, NewRequest, NoCall, AsBefore, machine, Answerable, AtRest, HasRows, Point
<1>4. BriefStands'
  BY DEF Enters, Stays, KeyIs, NewRequest, NoCall, AsBefore, machine, BriefStands, PastTheBrief, BlockedAtOutline, BriefPhase, Allowed, NothingPaidForRefusedBrief
<1>5. OutlineStands'
  BY DEF Enters, Stays, KeyIs, NewRequest, NoCall, AsBefore, machine, OutlineStands, Allowed, ReviewedIsChecked
<1>6. Remembering'
  BY DEF Enters, Stays, KeyIs, NewRequest, NoCall, AsBefore, machine, Remembering, Screens
<1>7. KeyStands'
  <2>1. phase' \in {"OutlineDrafting", "BlockedRecoverable"} /\ wire' = wire
    BY DEF Enters, NoCall
  <2>2. draftOwed = "none"
    BY DEF KeyStands
  <2>3. draftOwed' = "none" /\ (phase' = "OutlineDrafting" => draftKey' = "never")
    BY <2>1, <2>2 DEF AsBefore, KeyIs, NewRequest
  <2>4. wire = "none"
    BY SMT DEF OutlineTypeOK, Answerable, AtRest, HasRows
  <2> QED  BY <2>1, <2>3, <2>4 DEF KeyStands, DraftKeyIsDue
<1> QED  BY <1>1, <1>2, <1>3, <1>4, <1>5, <1>6, <1>7

\* Only a sound outline of a feasible brief is reviewed.
LEMMA OutlineJudgedKeeps ==
    ASSUME OutlineInv, OutlineJudged, AsBefore, NoCall, UNCHANGED desk
    PROVE  OutlineInv'
<1> USE DEF OutlineInv, OutlineJudged
<1>1. OutlineTypeOK'
  BY RetryBudgetAssumption
  DEF Enters, Stays, KeyIs, NewRequest, NoCall, AsBefore, machine, OutlineTypeOK, Phases, Verdicts, Memories, Texts, OffDuty, Turns
<1>2. Filled'
  BY DEF Enters, Stays, KeyIs, NewRequest, NoCall, AsBefore, machine, Filled
<1>3. Answerable'
  BY DEF Enters, Stays, KeyIs, NewRequest, NoCall, AsBefore, machine, Answerable, AtRest, HasRows, Point
<1>4. BriefStands'
  BY DEF Enters, Stays, KeyIs, NewRequest, NoCall, AsBefore, machine, BriefStands, PastTheBrief, BlockedAtOutline, BriefPhase, Allowed, NothingPaidForRefusedBrief
<1>5. OutlineStands'
  BY DEF Enters, Stays, KeyIs, NewRequest, NoCall, AsBefore, machine, OutlineStands, Allowed, ReviewedIsChecked
<1>6. Remembering'
  BY DEF Enters, Stays, KeyIs, NewRequest, NoCall, AsBefore, machine, Remembering, Screens
<1>7. KeyStands'
  BY DEF Enters, Stays, KeyIs, NewRequest, NoCall, AsBefore, machine, KeyStands, DraftKeyIsDue
<1> QED  BY <1>1, <1>2, <1>3, <1>4, <1>5, <1>6, <1>7

\* An outline that is repaired is asked for anew.
LEMMA OutlineSentBackKeeps ==
    ASSUME OutlineInv, OutlineSentBack, AsBefore, NoCall, UNCHANGED desk
    PROVE  OutlineInv'
<1> USE DEF OutlineInv, OutlineSentBack
<1>1. OutlineTypeOK'
  BY RetryBudgetAssumption
  DEF Enters, Stays, KeyIs, NewRequest, NoCall, AsBefore, machine, OutlineTypeOK, Phases, Verdicts, Memories, Texts, OffDuty, Turns
<1>2. Filled'
  BY DEF Enters, Stays, KeyIs, NewRequest, NoCall, AsBefore, machine, Filled
<1>3. Answerable'
  BY DEF Enters, Stays, KeyIs, NewRequest, NoCall, AsBefore, machine, Answerable, AtRest, HasRows, Point
<1>4. BriefStands'
  BY DEF Enters, Stays, KeyIs, NewRequest, NoCall, AsBefore, machine, BriefStands, PastTheBrief, BlockedAtOutline, BriefPhase, Allowed, NothingPaidForRefusedBrief
<1>5. OutlineStands'
  BY DEF Enters, Stays, KeyIs, NewRequest, NoCall, AsBefore, machine, OutlineStands, Allowed, ReviewedIsChecked
<1>6. Remembering'
  BY DEF Enters, Stays, KeyIs, NewRequest, NoCall, AsBefore, machine, Remembering, Screens
<1>7. KeyStands'
  <2>1. phase' \in {"OutlineDrafting", "BlockedRecoverable"} /\ wire' = wire
    BY DEF Enters, NoCall
  <2>2. draftOwed = "none"
    BY DEF KeyStands
  <2>3. draftOwed' = "none" /\ (phase' = "OutlineDrafting" => draftKey' = "never")
    BY <2>1, <2>2 DEF AsBefore, KeyIs, NewRequest
  <2>4. wire = "none"
    BY SMT DEF OutlineTypeOK, Answerable, AtRest, HasRows
  <2> QED  BY <2>1, <2>3, <2>4 DEF KeyStands, DraftKeyIsDue
<1> QED  BY <1>1, <1>2, <1>3, <1>4, <1>5, <1>6, <1>7

\* What is recovered goes back to where it was lost.
LEMMA RecoversKeeps ==
    ASSUME OutlineInv, Recovers, AsBefore, NoCall, UNCHANGED desk
    PROVE  OutlineInv'
<1> USE DEF OutlineInv, Recovers
<1>1. OutlineTypeOK'
  BY RetryBudgetAssumption
  DEF Enters, Stays, KeyIs, NewRequest, NoCall, AsBefore, Filled, OutlineTypeOK, Phases
<1>2. Filled'
  BY DEF Enters, Stays, KeyIs, NewRequest, NoCall, AsBefore, machine, Filled
<1>3. Answerable'
  BY DEF Enters, Stays, KeyIs, NewRequest, NoCall, AsBefore, machine, Answerable, AtRest, HasRows, Point
<1>4. BriefStands'
  <2>1. issuedFrom \in {"BriefValidation", "OutlineDrafting", "OutlineGuardrail"} /\ phase = "ErrorRecovery"
    BY DEF Filled
  <2>2. PastTheBrief' => PastTheBrief
    BY <2>1 DEF Enters, PastTheBrief, BlockedAtOutline, BriefPhase
  <2>3. phase' # "BriefFeasibility"
    BY <2>1 DEF Enters
  <2> QED  BY <2>2, <2>3
           DEF Stays, AsBefore, NoCall, BriefStands, Allowed, NothingPaidForRefusedBrief
<1>5. OutlineStands'
  <2>1. phase' \in {"BriefValidation", "OutlineDrafting", "OutlineGuardrail", "BlockedRecoverable"}
    BY DEF Enters, Filled
  <2> QED  BY <2>1 DEF OutlineStands, ReviewedIsChecked
<1>6. Remembering'
  BY DEF Enters, Stays, KeyIs, NewRequest, NoCall, AsBefore, machine, Remembering, Screens
<1>7. KeyStands'
  <2>1. issuedFrom \in {"BriefValidation", "OutlineDrafting", "OutlineGuardrail"} /\ phase = "ErrorRecovery"
    BY DEF Filled
  <2>2. wire = "none" /\ wire' = "none"
    BY <2>1 DEF NoCall, OutlineTypeOK, Answerable, AtRest, HasRows
  <2>3. phase' # "ErrorRecovery" /\ (phase' = "OutlineDrafting" => issuedFrom = "OutlineDrafting")
    BY <2>1 DEF Enters
  <2>4. ~NewRequest /\ draftKey' = draftKey /\ (draftOwed' = IF phase' \in {"OutlineDrafting", "BlockedRecoverable"} THEN draftOwed ELSE "none")
    BY <2>1, <2>3 DEF AsBefore, KeyIs, NewRequest
  <2> QED  BY <2>1, <2>2, <2>3, <2>4 DEF KeyStands, DraftKeyIsDue
<1> QED  BY <1>1, <1>2, <1>3, <1>4, <1>5, <1>6, <1>7

\* Going on to the draft moves nothing.
LEMMA BriefPassedOverKeeps ==
    ASSUME OutlineInv, BriefPassedOver
    PROVE  OutlineInv'
<1> USE DEF OutlineInv, BriefPassedOver, Working, Serves, Turns, Quietly
<1>1. OutlineTypeOK'
  BY RetryBudgetAssumption
  DEF Enters, Stays, KeyIs, NewRequest, NoCall, AsBefore, machine, OutlineTypeOK, Phases, Verdicts, Memories, Texts, OffDuty, Turns
<1>2. Filled'
  BY DEF Enters, Stays, KeyIs, NewRequest, NoCall, AsBefore, machine, Filled
<1>3. Answerable'
  BY DEF Enters, Stays, KeyIs, NewRequest, NoCall, AsBefore, machine, Answerable, AtRest, HasRows, Point
<1>4. BriefStands'
  BY DEF Enters, Stays, KeyIs, NewRequest, NoCall, AsBefore, machine, BriefStands, PastTheBrief, BlockedAtOutline, BriefPhase, Allowed, NothingPaidForRefusedBrief
<1>5. OutlineStands'
  BY DEF Enters, Stays, KeyIs, NewRequest, NoCall, AsBefore, machine, OutlineStands, Allowed, ReviewedIsChecked
<1>6. Remembering'
  BY DEF Enters, Stays, KeyIs, NewRequest, NoCall, AsBefore, machine, Remembering, Screens
<1>7. KeyStands'
  BY DEF Enters, Stays, KeyIs, NewRequest, NoCall, AsBefore, machine, KeyStands, DraftKeyIsDue
<1> QED  BY <1>1, <1>2, <1>3, <1>4, <1>5, <1>6, <1>7

\* Leaving off moves nothing.
LEMMA DraftEndsKeeps ==
    ASSUME OutlineInv, DraftEnds
    PROVE  OutlineInv'
<1> USE DEF OutlineInv, DraftEnds, Working, Done, OffDuty, Quietly
<1>1. OutlineTypeOK'
  BY RetryBudgetAssumption
  DEF Enters, Stays, KeyIs, NewRequest, NoCall, AsBefore, machine, OutlineTypeOK, Phases, Verdicts, Memories, Texts, OffDuty, Turns
<1>2. Filled'
  BY DEF Enters, Stays, KeyIs, NewRequest, NoCall, AsBefore, machine, Filled
<1>3. Answerable'
  BY DEF Enters, Stays, KeyIs, NewRequest, NoCall, AsBefore, machine, Answerable, AtRest, HasRows, Point
<1>4. BriefStands'
  BY DEF Enters, Stays, KeyIs, NewRequest, NoCall, AsBefore, machine, BriefStands, PastTheBrief, BlockedAtOutline, BriefPhase, Allowed, NothingPaidForRefusedBrief
<1>5. OutlineStands'
  BY DEF Enters, Stays, KeyIs, NewRequest, NoCall, AsBefore, machine, OutlineStands, Allowed, ReviewedIsChecked
<1>6. Remembering'
  BY DEF Enters, Stays, KeyIs, NewRequest, NoCall, AsBefore, machine, Remembering, Screens
<1>7. KeyStands'
  BY DEF Enters, Stays, KeyIs, NewRequest, NoCall, AsBefore, machine, KeyStands, DraftKeyIsDue
<1> QED  BY <1>1, <1>2, <1>3, <1>4, <1>5, <1>6, <1>7

\* What the model is told was accepted.
LEMMA AskForOutlineKeeps ==
    ASSUME OutlineInv, AskForOutline
    PROVE  OutlineInv'
<1> USE DEF OutlineInv, AskForOutline, Working, Asks, Quietly
<1>1. OutlineTypeOK'
  BY RetryBudgetAssumption
  DEF Enters, Stays, KeyIs, NewRequest, NoCall, AsBefore, machine, OutlineTypeOK, Phases, Verdicts, Memories, Texts, OffDuty, Turns
<1>2. Filled'
  BY DEF Enters, Stays, KeyIs, NewRequest, NoCall, AsBefore, machine, Filled
<1>3. Answerable'
  BY DEF Enters, Stays, KeyIs, NewRequest, NoCall, AsBefore, machine, Answerable, AtRest, HasRows, Point
<1>4. BriefStands'
  BY DEF Enters, Stays, KeyIs, NewRequest, NoCall, AsBefore, machine, BriefStands, PastTheBrief, BlockedAtOutline, BriefPhase, Allowed, NothingPaidForRefusedBrief
<1>5. OutlineStands'
  BY DEF Enters, Stays, KeyIs, NewRequest, NoCall, AsBefore, machine, OutlineStands, Allowed, ReviewedIsChecked
<1>6. Remembering'
  BY DEF Enters, Stays, KeyIs, NewRequest, NoCall, AsBefore, machine, Remembering, Screens
<1>7. KeyStands'
  BY DEF Enters, Stays, KeyIs, NewRequest, NoCall, AsBefore, machine, KeyStands, DraftKeyIsDue
<1> QED  BY <1>1, <1>2, <1>3, <1>4, <1>5, <1>6, <1>7

\* What the model wrote is not screened yet.
LEMMA OutlineGeneratedKeeps ==
    ASSUME OutlineInv, NEW o \in Skeletons, OutlineGenerated(o)
    PROVE  OutlineInv'
<1> USE DEF OutlineInv, OutlineGenerated, Hears, Asks, Serves
<1>1. OutlineTypeOK'
  <2>1. desk' \in [doing : {"idle", "brief", "draft", "outline"}, left : 0..RetryBudget + 1]
    BY RetryBudgetAssumption DEF OutlineTypeOK, Answerable
  <2> QED  BY <2>1 DEF Enters, KeyIs, NewRequest, OutlineTypeOK, Phases
<1>2. Filled'
  BY DEF Enters, Stays, KeyIs, NewRequest, NoCall, AsBefore, machine, Filled
<1>3. Answerable'
  BY DEF Enters, Stays, KeyIs, NewRequest, NoCall, AsBefore, machine, Answerable, AtRest, HasRows, Point
<1>4. BriefStands'
  BY DEF Enters, Stays, KeyIs, NewRequest, NoCall, AsBefore, machine, BriefStands, PastTheBrief, BlockedAtOutline, BriefPhase, Allowed, NothingPaidForRefusedBrief
<1>5. OutlineStands'
  BY DEF Enters, Stays, KeyIs, NewRequest, NoCall, AsBefore, machine, OutlineStands, Allowed, ReviewedIsChecked
<1>6. Remembering'
  BY DEF Enters, Stays, KeyIs, NewRequest, NoCall, AsBefore, machine, Remembering, Screens
<1>7. KeyStands'
  BY DEF Enters, Stays, KeyIs, NewRequest, NoCall, AsBefore, machine, KeyStands, DraftKeyIsDue
<1> QED  BY <1>1, <1>2, <1>3, <1>4, <1>5, <1>6, <1>7

\* A generation that brought nothing is owed, unless it was an answer.
LEMMA OutlineFailsKeeps ==
    ASSUME OutlineInv, NEW malformed \in BOOLEAN, OutlineFails(malformed)
    PROVE  OutlineInv'
<1> USE DEF OutlineInv, OutlineFails, Hears, Asks, Serves
<1>1. OutlineTypeOK'
  <2>1. desk' \in [doing : {"idle", "brief", "draft", "outline"}, left : 0..RetryBudget + 1]
    BY RetryBudgetAssumption DEF OutlineTypeOK, Answerable
  <2> QED  BY <2>1 DEF Enters, Stays, KeyIs, NewRequest, OutlineTypeOK, Phases
<1>2. Filled'
  BY DEF Enters, Stays, KeyIs, NewRequest, NoCall, AsBefore, machine, Filled
<1>3. Answerable'
  BY DEF Enters, Stays, KeyIs, NewRequest, NoCall, AsBefore, machine, Answerable, AtRest, HasRows, Point
<1>4. BriefStands'
  BY DEF Enters, Stays, KeyIs, NewRequest, NoCall, AsBefore, machine, BriefStands, PastTheBrief, BlockedAtOutline, BriefPhase, Allowed, NothingPaidForRefusedBrief
<1>5. OutlineStands'
  BY DEF Enters, Stays, KeyIs, NewRequest, NoCall, AsBefore, machine, OutlineStands, Allowed, ReviewedIsChecked
<1>6. Remembering'
  BY DEF Enters, Stays, KeyIs, NewRequest, NoCall, AsBefore, machine, Remembering, Screens
<1>7. KeyStands'
  BY DEF Enters, Stays, KeyIs, NewRequest, NoCall, AsBefore, machine, KeyStands, DraftKeyIsDue
<1> QED  BY <1>1, <1>2, <1>3, <1>4, <1>5, <1>6, <1>7

\* What is remembered is not asked.
LEMMA AskScreeningKeeps ==
    ASSUME OutlineInv, AskScreening
    PROVE  OutlineInv'
<1> USE DEF OutlineInv, AskScreening, Working, Asks, Quietly, Remembered
<1>1. OutlineTypeOK'
  BY RetryBudgetAssumption
  DEF Enters, Stays, KeyIs, NewRequest, NoCall, AsBefore, machine, OutlineTypeOK, Phases, Verdicts, Memories, Texts, OffDuty, Turns
<1>2. Filled'
  BY DEF Enters, Stays, KeyIs, NewRequest, NoCall, AsBefore, machine, Filled
<1>3. Answerable'
  BY DEF Working, Quietly, machine, OutlineTypeOK, Answerable, AtRest, HasRows, Point
<1>4. BriefStands'
  BY DEF Enters, Stays, KeyIs, NewRequest, NoCall, AsBefore, machine, BriefStands, PastTheBrief, BlockedAtOutline, BriefPhase, Allowed, NothingPaidForRefusedBrief
<1>5. OutlineStands'
  BY DEF Enters, Stays, KeyIs, NewRequest, NoCall, AsBefore, machine, OutlineStands, Allowed, ReviewedIsChecked
<1>6. Remembering'
  BY DEF Enters, Stays, KeyIs, NewRequest, NoCall, AsBefore, machine, Remembering, Screens
<1>7. KeyStands'
  BY DEF Enters, Stays, KeyIs, NewRequest, NoCall, AsBefore, machine, KeyStands, DraftKeyIsDue
<1> QED  BY <1>1, <1>2, <1>3, <1>4, <1>5, <1>6, <1>7

\* A verdict remembered is the one that was given.
LEMMA ScreenedBeforeKeeps ==
    ASSUME OutlineInv, ScreenedBefore
    PROVE  OutlineInv'
<1> USE DEF OutlineInv, ScreenedBefore, Working, Remembered, Lands, Serves
<1>1. OutlineTypeOK'
  BY RetryBudgetAssumption
  DEF Enters, Stays, KeyIs, NewRequest, NoCall, AsBefore, machine, OutlineTypeOK, Phases, Verdicts, Memories, Texts, OffDuty, Turns
<1>2. Filled'
  <2>1. phase' \in {"BriefFeasibility", "BlockedFinal", "OutlineChecks", "OutlineRepair"}
    BY DEF Enters, Lands
  <2> QED  BY <2>1, VerdictsLandAtWork DEF Lands, Stays, Filled
<1>3. Answerable'
  BY DEF Enters, Stays, KeyIs, NewRequest, NoCall, AsBefore, machine, Answerable, AtRest, HasRows, Point
<1>4. BriefStands'
  <2>1. /\ phase' \in {"BriefFeasibility", "BlockedFinal", "OutlineChecks", "OutlineRepair"}
        /\ brief' = brief /\ detour' = detour /\ \A v \in judged : v \in judged'
        /\ wire' = "none"
    BY DEF Enters, Lands, Stays, NoCall, Working
  <2>2. (desk.doing = "brief" /\ phase = "BriefValidation") \/ (desk.doing = "outline" /\ phase = "OutlineGuardrail")
    BY VerdictsLandAtWork
  <2>3. ASSUME phase' = "BriefFeasibility" PROVE brief \in Valid \cap Permitted /\ Allowed(brief)'
    <3>1. PICK yes \in BOOLEAN : Lands(yes)
      BY DEF Remembered, OutlineTypeOK, Memories
    <3>2. desk.doing = "brief" /\ phase = "BriefValidation" /\ yes = TRUE
      BY <2>2, <2>3, <3>1 DEF Lands, Enters
    <3>3. [text |-> brief, version |-> guardrail, allowed |-> TRUE] \in judged'
      BY <3>1, <3>2 DEF Lands, Screens
    <3>4. brief \in Valid \cap Permitted
      BY <3>2, VerdictsLandAtWork
    <3> QED  BY <2>1, <3>3, <3>4 DEF Allowed
  <2>4. PastTheBrief' => PastTheBrief
    BY <2>1, <2>2 DEF Lands, Enters, PastTheBrief, BlockedAtOutline
  <2> QED  BY <2>1, <2>3, <2>4 DEF BriefStands, Allowed, NothingPaidForRefusedBrief
<1>5. OutlineStands'
  <2>1. (desk.doing = "brief" /\ phase = "BriefValidation") \/ (desk.doing = "outline" /\ phase = "OutlineGuardrail")
    BY VerdictsLandAtWork
  <2>2. ASSUME phase' = "OutlineChecks" PROVE Allowed(skeleton)'
    <3>1. PICK yes \in BOOLEAN : Lands(yes)
      BY DEF Remembered, OutlineTypeOK, Memories
    <3>2. desk.doing = "outline" /\ yes = TRUE
      BY <2>1, <2>2, <3>1 DEF Lands, Enters
    <3>3. [text |-> skeleton, version |-> guardrail, allowed |-> TRUE] \in judged'
      BY <3>1, <3>2 DEF Lands, Screens
    <3> QED  BY <3>1, <3>3 DEF Lands, Stays, Allowed
  <2>3. phase' \notin {"OutlineReview", "ContentInProgress"}
    BY DEF Lands, Enters
  <2> QED  BY <2>2, <2>3 DEF OutlineStands, ReviewedIsChecked, Allowed
<1>6. Remembering'
  BY DEF Enters, Stays, KeyIs, NewRequest, NoCall, AsBefore, machine, Remembering, Screens
<1>7. KeyStands'
  BY DEF Enters, Stays, KeyIs, NewRequest, NoCall, AsBefore, machine, KeyStands, DraftKeyIsDue
<1> QED  BY <1>1, <1>2, <1>3, <1>4, <1>5, <1>6, <1>7

\* A verdict given is the first on that text by that version.
LEMMA OutlineScreenedKeeps ==
    ASSUME OutlineInv, NEW allowed \in BOOLEAN, OutlineScreened(allowed)
    PROVE  OutlineInv'
<1> USE DEF OutlineInv, OutlineScreened, Hears, Asks, Lands, Serves
<1>1. OutlineTypeOK'
  <2>1. Screens \in Texts /\ under \in Guardrails /\ wire = "screener"
    BY ScreensIsText DEF Answerable, Hears
  <2>2. judged' \subseteq Verdicts /\ memo' \subseteq Memories
    BY <2>1 DEF Lands, OutlineTypeOK, Verdicts, Memories
  <2>3. desk' \in [doing : {"idle", "brief", "draft", "outline"}, left : 0..RetryBudget + 1]
    BY DEF Lands, Serves, OutlineTypeOK
  <2> QED  BY <2>2, <2>3 DEF Lands, Enters, Stays, KeyIs, NewRequest, Hears, Asks, OutlineTypeOK, Phases
<1>2. Filled'
  <2>1. phase' \in {"BriefFeasibility", "BlockedFinal", "OutlineChecks", "OutlineRepair"}
    BY DEF Enters, Lands
  <2> QED  BY <2>1, VerdictsLandAtWork DEF Lands, Stays, Filled
<1>3. Answerable'
  BY DEF Enters, Stays, KeyIs, NewRequest, NoCall, AsBefore, machine, Answerable, AtRest, HasRows, Point
<1>4. BriefStands'
  <2>1. /\ phase' \in {"BriefFeasibility", "BlockedFinal", "OutlineChecks", "OutlineRepair"}
        /\ brief' = brief /\ detour' = detour /\ \A v \in judged : v \in judged'
        /\ wire' = "none"
    BY DEF Enters, Lands, Stays, Hears, Asks
  <2>2. (desk.doing = "brief" /\ phase = "BriefValidation") \/ (desk.doing = "outline" /\ phase = "OutlineGuardrail")
    BY VerdictsLandAtWork
  <2>3. ASSUME phase' = "BriefFeasibility" PROVE brief \in Valid \cap Permitted /\ Allowed(brief)'
    <3>1. PICK yes \in BOOLEAN : Lands(yes)
      BY SMT
    <3>2. desk.doing = "brief" /\ phase = "BriefValidation" /\ yes = TRUE
      BY <2>2, <2>3, <3>1 DEF Lands, Enters
    <3>3. [text |-> brief, version |-> guardrail, allowed |-> TRUE] \in judged'
      BY <3>1, <3>2 DEF Lands, Screens
    <3>4. brief \in Valid \cap Permitted
      BY <3>2, VerdictsLandAtWork DEF Hears
    <3> QED  BY <2>1, <3>3, <3>4 DEF Allowed
  <2>4. PastTheBrief' => PastTheBrief
    BY <2>1, <2>2 DEF Lands, Enters, PastTheBrief, BlockedAtOutline
  <2> QED  BY <2>1, <2>3, <2>4 DEF BriefStands, Allowed, NothingPaidForRefusedBrief
<1>5. OutlineStands'
  <2>1. (desk.doing = "brief" /\ phase = "BriefValidation") \/ (desk.doing = "outline" /\ phase = "OutlineGuardrail")
    BY VerdictsLandAtWork
  <2>2. ASSUME phase' = "OutlineChecks" PROVE Allowed(skeleton)'
    <3>1. PICK yes \in BOOLEAN : Lands(yes)
      BY SMT
    <3>2. desk.doing = "outline" /\ yes = TRUE
      BY <2>1, <2>2, <3>1 DEF Lands, Enters
    <3>3. [text |-> skeleton, version |-> guardrail, allowed |-> TRUE] \in judged'
      BY <3>1, <3>2 DEF Lands, Screens
    <3> QED  BY <3>1, <3>3 DEF Lands, Stays, Allowed
  <2>3. phase' \notin {"OutlineReview", "ContentInProgress"}
    BY DEF Lands, Enters
  <2> QED  BY <2>2, <2>3 DEF OutlineStands, ReviewedIsChecked, Allowed
<1>6. Remembering'
  <2> DEFINE v == [text |-> Screens, version |-> guardrail, allowed |-> allowed]
             m == [text |-> Screens, under |-> under, version |-> answering, allowed |-> allowed]
  <2>1. judged' = judged \cup {v} /\ memo' = memo \cup {m} /\ wire' = "none" /\ answering = guardrail
    BY DEF Lands, Hears, Asks
  <2>2. \A k \in memo : ~(k.text = m.text /\ k.under = m.under /\ k.version = m.version)
    BY DEF Hears, Remembering
  <2>3. m.text = v.text /\ m.version = v.version /\ m.allowed = v.allowed
    BY <2>1
  <2> HIDE DEF m, v
  <2> QED  BY <2>1, <2>2, <2>3 DEF Remembering
<1>7. KeyStands'
  BY DEF Enters, Stays, KeyIs, NewRequest, NoCall, AsBefore, machine, KeyStands, DraftKeyIsDue
<1> QED  BY <1>1, <1>2, <1>3, <1>4, <1>5, <1>6, <1>7

\* Without a verdict nothing is past its screening.
LEMMA ScreeningFailsKeeps ==
    ASSUME OutlineInv, ScreeningFails
    PROVE  OutlineInv'
<1> USE DEF OutlineInv, ScreeningFails, Hears, Asks, Working, Serves
<1>1. OutlineTypeOK'
  <2>1. desk' \in [doing : {"idle", "brief", "draft", "outline"}, left : 0..RetryBudget + 1]
    BY DEF OutlineTypeOK
  <2>2. phase \in {"BriefValidation", "OutlineGuardrail"}
    BY DEF Point
  <2> QED  BY <2>1, <2>2 DEF Enters, Stays, KeyIs, NewRequest, AsBefore, NoCall, OutlineTypeOK, Phases
<1>2. Filled'
  <2>1. phase \in {"BriefValidation", "OutlineGuardrail"}
    BY DEF Point
  <2> QED  BY <2>1 DEF Enters, Stays, Filled
<1>3. Answerable'
  BY DEF Enters, Stays, KeyIs, NewRequest, NoCall, AsBefore, machine, Answerable, AtRest, HasRows, Point
<1>4. BriefStands'
  <2>1. phase \in {"BriefValidation", "OutlineGuardrail"} /\ wire' # "model"
    BY DEF Point, Working, NoCall
  <2>2. phase' = "ErrorRecovery" /\ issuedFrom' = phase
    BY DEF Enters
  <2>3. PastTheBrief' => PastTheBrief
    BY <2>1, <2>2 DEF PastTheBrief, BlockedAtOutline
  <2> QED  BY <2>1, <2>2, <2>3
           DEF Stays, AsBefore, BriefStands, Allowed, NothingPaidForRefusedBrief
<1>5. OutlineStands'
  BY DEF Enters, Stays, KeyIs, NewRequest, NoCall, AsBefore, machine, OutlineStands, Allowed, ReviewedIsChecked
<1>6. Remembering'
  BY DEF Enters, Stays, KeyIs, NewRequest, NoCall, AsBefore, machine, Remembering, Screens
<1>7. KeyStands'
  <2>1. phase \in {"BriefValidation", "OutlineGuardrail"}
    BY DEF Point
  <2>2. phase' = "ErrorRecovery" /\ issuedFrom' = phase
    BY DEF Enters
  <2>3. draftOwed = "none" /\ draftOwed' = "none"
    BY <2>1 DEF KeyStands, AsBefore, KeyIs
  <2> QED  BY <2>1, <2>2, <2>3 DEF KeyStands, DraftKeyIsDue
<1> QED  BY <1>1, <1>2, <1>3, <1>4, <1>5, <1>6, <1>7

\* What comes too late lands nowhere.
LEMMA OverrunKeeps ==
    ASSUME OutlineInv, Overrun
    PROVE  OutlineInv'
<1> USE DEF OutlineInv, Overrun, Asks, Done, OffDuty, Quietly
<1>1. OutlineTypeOK'
  BY RetryBudgetAssumption
  DEF Enters, Stays, KeyIs, NewRequest, NoCall, AsBefore, machine, OutlineTypeOK, Phases, Verdicts, Memories, Texts, OffDuty, Turns
<1>2. Filled'
  BY DEF Enters, Stays, KeyIs, NewRequest, NoCall, AsBefore, machine, Filled
<1>3. Answerable'
  BY DEF Enters, Stays, KeyIs, NewRequest, NoCall, AsBefore, machine, Answerable, AtRest, HasRows, Point
<1>4. BriefStands'
  BY DEF Enters, Stays, KeyIs, NewRequest, NoCall, AsBefore, machine, BriefStands, PastTheBrief, BlockedAtOutline, BriefPhase, Allowed, NothingPaidForRefusedBrief
<1>5. OutlineStands'
  BY DEF Enters, Stays, KeyIs, NewRequest, NoCall, AsBefore, machine, OutlineStands, Allowed, ReviewedIsChecked
<1>6. Remembering'
  BY DEF Enters, Stays, KeyIs, NewRequest, NoCall, AsBefore, machine, Remembering, Screens
<1>7. KeyStands'
  <2>1. phase = "Archived" /\ phase' = "Archived"
    BY DEF Answerable, Quietly, machine
  <2>2. draftOwed' = "none"
    BY <2>1 DEF KeyIs
  <2> QED  BY <2>1, <2>2 DEF KeyStands, DraftKeyIsDue
<1> QED  BY <1>1, <1>2, <1>3, <1>4, <1>5, <1>6, <1>7

\* A change of the guardrail leaves the verdicts that were given.
LEMMA GuardrailRolloutKeeps ==
    ASSUME OutlineInv, NEW to \in Guardrails, GuardrailRollout(to)
    PROVE  OutlineInv'
<1> USE DEF OutlineInv, GuardrailRollout, Between
<1>1. OutlineTypeOK'
  BY MaxRolloutsAssumption
  DEF KeyIs, NewRequest, NoCall, AsBefore, OutlineTypeOK
<1>2. Filled'
  BY DEF Enters, Stays, KeyIs, NewRequest, NoCall, AsBefore, machine, Filled
<1>3. Answerable'
  BY DEF Enters, Stays, KeyIs, NewRequest, NoCall, AsBefore, machine, Answerable, AtRest, HasRows, Point
<1>4. BriefStands'
  BY DEF Enters, Stays, KeyIs, NewRequest, NoCall, AsBefore, machine, BriefStands, PastTheBrief, BlockedAtOutline, BriefPhase, Allowed, NothingPaidForRefusedBrief
<1>5. OutlineStands'
  BY DEF Enters, Stays, KeyIs, NewRequest, NoCall, AsBefore, machine, OutlineStands, Allowed, ReviewedIsChecked
<1>6. Remembering'
  BY DEF Enters, Stays, KeyIs, NewRequest, NoCall, AsBefore, machine, Remembering, Screens
<1>7. KeyStands'
  BY DEF Enters, Stays, KeyIs, NewRequest, NoCall, AsBefore, machine, KeyStands, DraftKeyIsDue
<1> QED  BY <1>1, <1>2, <1>3, <1>4, <1>5, <1>6, <1>7

\* The service rolls out between two screenings.
LEMMA ServiceFollowsKeeps ==
    ASSUME OutlineInv, ServiceFollows
    PROVE  OutlineInv'
<1> USE DEF OutlineInv, ServiceFollows
<1>1. OutlineTypeOK'
  BY RetryBudgetAssumption
  DEF Enters, Stays, KeyIs, NewRequest, NoCall, AsBefore, machine, OutlineTypeOK, Phases, Verdicts, Memories, Texts, OffDuty, Turns
<1>2. Filled'
  BY DEF Enters, Stays, KeyIs, NewRequest, NoCall, AsBefore, machine, Filled
<1>3. Answerable'
  BY DEF Enters, Stays, KeyIs, NewRequest, NoCall, AsBefore, machine, Answerable, AtRest, HasRows, Point
<1>4. BriefStands'
  BY DEF Enters, Stays, KeyIs, NewRequest, NoCall, AsBefore, machine, BriefStands, PastTheBrief, BlockedAtOutline, BriefPhase, Allowed, NothingPaidForRefusedBrief
<1>5. OutlineStands'
  BY DEF Enters, Stays, KeyIs, NewRequest, NoCall, AsBefore, machine, OutlineStands, Allowed, ReviewedIsChecked
<1>6. Remembering'
  BY DEF Enters, Stays, KeyIs, NewRequest, NoCall, AsBefore, machine, Remembering, Screens
<1>7. KeyStands'
  BY DEF Enters, Stays, KeyIs, NewRequest, NoCall, AsBefore, machine, KeyStands, DraftKeyIsDue
<1> QED  BY <1>1, <1>2, <1>3, <1>4, <1>5, <1>6, <1>7

\* A draft that is discarded has nothing to stand for.
LEMMA DiscardKeeps ==
    ASSUME OutlineInv, Discard
    PROVE  OutlineInv'
<1> USE DEF OutlineInv, Discard, Between
<1>1. OutlineTypeOK'
  BY RetryBudgetAssumption
  DEF Enters, Stays, KeyIs, NewRequest, NoCall, AsBefore, machine, OutlineTypeOK, Phases, Verdicts, Memories, Texts, OffDuty, Turns
<1>2. Filled'
  BY DEF Enters, Stays, KeyIs, NewRequest, NoCall, AsBefore, machine, Filled
<1>3. Answerable'
  BY DEF Enters, Stays, KeyIs, NewRequest, NoCall, AsBefore, machine, Answerable, AtRest, HasRows, Point
<1>4. BriefStands'
  BY DEF Enters, Stays, KeyIs, NewRequest, NoCall, AsBefore, machine, BriefStands, PastTheBrief, BlockedAtOutline, BriefPhase, Allowed, NothingPaidForRefusedBrief
<1>5. OutlineStands'
  BY DEF Enters, Stays, KeyIs, NewRequest, NoCall, AsBefore, machine, OutlineStands, Allowed, ReviewedIsChecked
<1>6. Remembering'
  BY DEF Enters, Stays, KeyIs, NewRequest, NoCall, AsBefore, machine, Remembering, Screens
<1>7. KeyStands'
  BY DEF Enters, Stays, KeyIs, NewRequest, NoCall, AsBefore, machine, KeyStands, DraftKeyIsDue
<1> QED  BY <1>1, <1>2, <1>3, <1>4, <1>5, <1>6, <1>7

\* Every step of the machine keeps the invariant.
LEMMA OutlineSettlesKeeps ==
    ASSUME OutlineInv, OutlineSettles
    PROVE  OutlineInv'
BY BriefJudgedKeeps, RoomFoundKeeps, OutlineJudgedKeeps, OutlineSentBackKeeps, RecoversKeeps
   DEF OutlineSettles

\* Every step of an act keeps the invariant.
LEMMA DeskRunsKeeps ==
    ASSUME OutlineInv, DeskRuns
    PROVE  OutlineInv'
BY BriefPassedOverKeeps, DraftEndsKeeps, AskForOutlineKeeps, ScreenedBeforeKeeps, AskScreeningKeeps, OverrunKeeps
   DEF DeskRuns

\* Every answer keeps the invariant.
LEMMA AnsweredKeeps ==
    ASSUME OutlineInv, Answered
    PROVE  OutlineInv'
BY OutlineGeneratedKeeps, OutlineFailsKeeps, OutlineScreenedKeeps, ScreeningFailsKeeps DEF Answered

\* A step that changes nothing keeps it.
LEMMA OutlineStutter ==
    ASSUME OutlineInv, UNCHANGED outlineVars
    PROVE  OutlineInv'
<1> USE DEF OutlineInv, outlineVars, machine
<1>1. OutlineTypeOK' /\ Filled' /\ Answerable'
  BY DEF OutlineTypeOK, Filled, Answerable, AtRest, HasRows, Point
<1>2. BriefStands' /\ OutlineStands'
  BY DEF BriefStands, PastTheBrief, BlockedAtOutline, Allowed, NothingPaidForRefusedBrief,
         OutlineStands, ReviewedIsChecked
<1>3. Remembering' /\ KeyStands'
  BY DEF Remembering, Screens, KeyStands, DraftKeyIsDue
<1> QED  BY <1>1, <1>2, <1>3

\* Every step keeps the invariant.
LEMMA OutlineStep == OutlineInv /\ [OutlineNext]_outlineVars => OutlineInv'
<1> SUFFICES ASSUME OutlineInv, [OutlineNext]_outlineVars PROVE OutlineInv'
  OBVIOUS
<1>1. ASSUME NEW b \in Briefs, Submit(b) PROVE OutlineInv'
  BY <1>1, SubmitKeeps
<1>2. CASE RejectOutline \/ ApproveOutline \/ ReleaseOutline \/ DraftAgain
  BY <1>2, RejectOutlineKeeps, ApproveOutlineKeeps, ReleaseOutlineKeeps, DraftAgainKeeps
<1>3. ASSUME NEW o \in Skeletons, OutlineTakenUp(o) PROVE OutlineInv'
  BY <1>3, OutlineTakenUpKeeps
<1>4. CASE OutlineSettles \/ DeskRuns \/ Answered
  BY <1>4, OutlineSettlesKeeps, DeskRunsKeeps, AnsweredKeeps
<1>5. ASSUME NEW to \in Guardrails, GuardrailRollout(to) PROVE OutlineInv'
  BY <1>5, GuardrailRolloutKeeps
<1>6. CASE ServiceFollows \/ Discard
  BY <1>6, ServiceFollowsKeeps, DiscardKeeps
<1>7. CASE UNCHANGED outlineVars
  BY <1>7, OutlineStutter
<1> QED  BY <1>1, <1>2, <1>3, <1>4, <1>5, <1>6, <1>7 DEF OutlineNext

--------------------------------------------------------------------------------
\* The invariant holds of every behaviour.
THEOREM OutlineInvariant == OutlineSpec => []OutlineInv
  BY OutlineInitially, OutlineStep, PTL DEF OutlineSpec

\* Every state is one of the declared shape.
THEOREM OutlineTypeCorrect == OutlineSpec => []OutlineTypeOK
<1>1. OutlineInv => OutlineTypeOK
  BY DEF OutlineInv
<1> QED  BY <1>1, OutlineInvariant, PTL

\* What a person is shown, and what is committed, passed its checks and its
\* screening as it stands.
THEOREM OutlinesAreReviewedChecked == OutlineSpec => []ReviewedIsChecked
<1>1. OutlineInv => ReviewedIsChecked
  BY DEF OutlineInv, OutlineStands
<1> QED  BY <1>1, OutlineInvariant, PTL

\* A model is told, and paid for, only a brief that was accepted.
THEOREM NothingIsPaidForRefusedBriefs == OutlineSpec => []NothingPaidForRefusedBrief
<1>1. OutlineInv => NothingPaidForRefusedBrief
  BY DEF OutlineInv, BriefStands
<1> QED  BY <1>1, OutlineInvariant, PTL

\* One text gets one answer of one version.
THEOREM TextsGetOneAnswer == OutlineSpec => []OneAnswerPerText
<1>1. OutlineInv => OneAnswerPerText
  <2> SUFFICES ASSUME OutlineInv, \A m \in memo : m.under = m.version,
                      NEW v \in judged, NEW w \in judged, v.text = w.text, v.version = w.version
               PROVE  v.allowed = w.allowed
    BY DEF OneAnswerPerText
  <2>1. PICK m \in memo : m.text = v.text /\ m.version = v.version /\ m.allowed = v.allowed
    BY DEF OutlineInv, Remembering
  <2>2. PICK k \in memo : k.text = w.text /\ k.version = w.version /\ k.allowed = w.allowed
    BY DEF OutlineInv, Remembering
  <2> QED  BY <2>1, <2>2 DEF OutlineInv, Remembering
<1> QED  BY <1>1, OutlineInvariant, PTL

\* What is only being recovered is asked for again under its key, and what an
\* answer closed is asked for under another.
THEOREM DraftKeysAreDue == OutlineSpec => []DraftKeyIsDue
<1>1. OutlineInv => DraftKeyIsDue
  BY DEF OutlineInv, KeyStands
<1> QED  BY <1>1, OutlineInvariant, PTL
=============================================================================
