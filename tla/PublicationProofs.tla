-------------------------- MODULE PublicationProofs --------------------------
(***************************************************************************)
(* Proofs about module Publication, for every value of its constants: IInv  *)
(* is an inductive invariant, the safety and action properties follow from  *)
(* it, and the publication line implements module OnAir.                    *)
(*                                                                         *)
(* The step lemmas have one step per part of the invariant: types, the      *)
(* draft's line, the pointer's line, the revision owed the pointer, and     *)
(* what was verified.                                                       *)
(***************************************************************************)
EXTENDS Publication, TLAPS

-----------------------------------------------------------------------------
(* The initial states and stuttering                                        *)

\* A course starts as one draft with nothing published.
LEMMA InitIInv == Init => IInv
<1> SUFFICES ASSUME Init PROVE IInv
  OBVIOUS
<1>1. TypeOK
  BY MaxRevisionAssumption, VersionsAssumption, BudgetAssumption, MaxChangesAssumption
  DEF Init, TypeOK, Rev, None, Stamps, Memo, NoMemo, States, DraftStates, Reasons
<1>2. History /\ OneOpenDraft /\ Stamped
  BY MaxRevisionAssumption
  DEF Init, History, OneOpenDraft, Stamped, IsDraft, DraftStates, LiveLineage, Rev
<1>3. LiveIsServable /\ Awaited /\ Lineage /\ SupersededWasServed /\ OnAirIsVerified
  BY DEF Init, LiveIsServable, Awaited, Lineage, SupersededWasServed, OnAirIsVerified, LiveLineage
<1> QED BY <1>1, <1>2, <1>3 DEF IInv

\* A stuttering step changes nothing the invariant reads.
LEMMA StutterStep ==
    ASSUME IInv, UNCHANGED vars
    PROVE IInv'
BY DEF vars, storeVars, history, IInv, TypeOK, History, OneOpenDraft, Stamped, IsDraft,
   LiveIsServable, Lineage, SupersededWasServed, Awaited, Busy, Screened, OnAirIsVerified

-----------------------------------------------------------------------------
(* A draft up to its publication, and the fork that starts the next one      *)

\* The whole-course checks record what they ran under and touch no published revision.
LEMMA CourseChecksPassedStep ==
    ASSUME IInv, NEW r \in Rev, CourseChecksPassed(r)
    PROVE IInv'
<1>1. TypeOK'
  BY DEF IInv, TypeOK, Reasons, States, DraftStates, CourseChecksPassed, Become, history
<1>2. History' /\ OneOpenDraft' /\ Stamped'
  BY DEF IInv, TypeOK, History, OneOpenDraft, Stamped, IsDraft, DraftStates, LiveLineage,
      CourseChecksPassed, Become, history
<1>3. LiveIsServable' /\ Lineage' /\ SupersededWasServed'
  BY DEF IInv, TypeOK, LiveIsServable, Lineage, SupersededWasServed, LiveLineage,
      CourseChecksPassed, Become, history
<1>4. Awaited'
  BY DEF IInv, TypeOK, Awaited, Quiet, Busy, CourseChecksPassed, Become
<1>5. OnAirIsVerified'
  BY DEF IInv, TypeOK, OnAirIsVerified, CourseChecksPassed, Become, history
<1> QED BY <1>1, <1>2, <1>3, <1>4, <1>5 DEF IInv

\* The approval copies the checks' versions into the stamps: Stamped.
LEMMA ApprovalGrantedStep ==
    ASSUME IInv, NEW r \in Rev, ApprovalGranted(r)
    PROVE IInv'
<1>1. TypeOK'
  BY DEF IInv, TypeOK, Reasons, States, DraftStates, ApprovalGranted, Become, history
<1>2. History' /\ OneOpenDraft' /\ Stamped'
  BY DEF IInv, TypeOK, History, OneOpenDraft, Stamped, IsDraft, DraftStates, LiveLineage,
      ApprovalGranted, Become, history
<1>3. LiveIsServable' /\ Lineage' /\ SupersededWasServed'
  BY DEF IInv, TypeOK, LiveIsServable, Lineage, SupersededWasServed, LiveLineage,
      ApprovalGranted, Become, history
<1>4. Awaited'
  BY DEF IInv, TypeOK, Awaited, Quiet, Busy, ApprovalGranted, Become
<1>5. OnAirIsVerified'
  BY DEF IInv, TypeOK, OnAirIsVerified, ApprovalGranted, Become, history
<1> QED BY <1>1, <1>2, <1>3, <1>4, <1>5 DEF IInv

\* A verdict on record moves nothing.
LEMMA VerdictFiledStep ==
    ASSUME IInv, NEW r \in Rev, VerdictFiled(r)
    PROVE IInv'
<1>1. TypeOK'
  BY KindsAssumption DEF IInv, TypeOK, Stamps, Memo, VerdictFiled, Recorded, history
<1>2. History' /\ OneOpenDraft' /\ Stamped'
  BY DEF IInv, TypeOK, History, OneOpenDraft, Stamped, IsDraft, VerdictFiled, history
<1>3. LiveIsServable' /\ Lineage' /\ SupersededWasServed'
  BY DEF IInv, TypeOK, LiveIsServable, Lineage, SupersededWasServed, VerdictFiled, history
<1>4. Awaited'
  BY DEF IInv, TypeOK, Awaited, Quiet, Busy, VerdictFiled
<1>5. OnAirIsVerified'
  BY DEF IInv, TypeOK, OnAirIsVerified, VerdictFiled, history
<1> QED BY <1>1, <1>2, <1>3, <1>4, <1>5 DEF IInv

\* A draft back at work loses its checks only.
LEMMA BackToWorkStep ==
    ASSUME IInv, NEW r \in Rev, BackToWork(r)
    PROVE IInv'
<1>1. TypeOK'
  BY VersionsAssumption
  DEF IInv, TypeOK, Stamps, Reasons, States, DraftStates, BackToWork, Become, history
<1>2. History' /\ OneOpenDraft' /\ Stamped'
  BY DEF IInv, TypeOK, History, OneOpenDraft, Stamped, IsDraft, DraftStates, LiveLineage,
      BackToWork, Become, history
<1>3. LiveIsServable' /\ Lineage' /\ SupersededWasServed'
  BY DEF IInv, TypeOK, LiveIsServable, Lineage, SupersededWasServed, LiveLineage, BackToWork,
      Become, history
<1>4. Awaited'
  BY DEF IInv, TypeOK, Awaited, Quiet, Busy, BackToWork, Become
<1>5. OnAirIsVerified'
  BY DEF IInv, TypeOK, OnAirIsVerified, BackToWork, Become, history
<1> QED BY <1>1, <1>2, <1>3, <1>4, <1>5 DEF IInv

\* A closed draft was never published.
LEMMA DraftClosedStep ==
    ASSUME IInv, NEW r \in Rev, DraftClosed(r)
    PROVE IInv'
<1>1. TypeOK'
  BY DEF IInv, TypeOK, Reasons, States, DraftClosed, Become, history
<1>2. History' /\ OneOpenDraft' /\ Stamped'
  BY DEF IInv, TypeOK, History, OneOpenDraft, Stamped, IsDraft, DraftStates, LiveLineage,
      DraftClosed, Become, history
<1>3. LiveIsServable' /\ Lineage' /\ SupersededWasServed'
  BY DEF IInv, TypeOK, LiveIsServable, Lineage, SupersededWasServed, LiveLineage, DraftClosed,
      IsDraft, Become, history, DraftStates
<1>4. Awaited'
  BY DEF IInv, TypeOK, Awaited, Quiet, Busy, DraftClosed, Become
<1>5. OnAirIsVerified'
  BY DEF IInv, TypeOK, OnAirIsVerified, DraftClosed, Become, history
<1> QED BY <1>1, <1>2, <1>3, <1>4, <1>5 DEF IInv

\* The draft becomes the one revision owed the pointer; Stamped gives it current stamps,
\* and nobody before it in settling order has anything to do.
LEMMA PublishRequestedStep ==
    ASSUME IInv, NEW r \in Rev, PublishRequested(r)
    PROVE IInv'
<1>1. TypeOK'
  BY DEF IInv, TypeOK, Reasons, States, LiveLineage, PublishRequested, Become, history
<1>2. History' /\ OneOpenDraft' /\ Stamped'
  BY DEF IInv, TypeOK, History, OneOpenDraft, Stamped, IsDraft, DraftStates, LiveLineage,
      PublishRequested, Become, history
<1>3. LiveIsServable' /\ Lineage' /\ SupersededWasServed'
  BY DEF IInv, TypeOK, LiveIsServable, Lineage, SupersededWasServed, LiveLineage,
      PublishRequested, Become, history
<1>4. Awaited'
  <2>1. awaiting = {} /\ \A s \in Rev : ~Busy(s)
    BY DEF IInv, TypeOK, PublishRequested, Quiet, Busy
  <2>2. \A s \in Rev \ {r} : ~Busy(s)'
    BY <2>1 DEF IInv, TypeOK, PublishRequested, Become, history, Busy, Screened
  <2>3. stamps[r] = current
    BY DEF IInv, Stamped, PublishRequested
  <2> QED
    BY <2>1, <2>2, <2>3, MaxRevisionAssumption
    DEF IInv, TypeOK, Awaited, PublishRequested, Become, history, Rev
<1>5. OnAirIsVerified'
  BY DEF IInv, TypeOK, History, OnAirIsVerified, Stamped, LiveLineage, PublishRequested,
      Become, history
<1> QED BY <1>1, <1>2, <1>3, <1>4, <1>5 DEF IInv

\* The fork takes the next unused id, which no pointer, stamp or history mentions.
LEMMA ReviseRequestedStep ==
    ASSUME IInv, NEW r \in Rev, ReviseRequested(r)
    PROVE IInv'
<1> DEFINE n == last + 1
<1>a. n \in Rev /\ state[n] = "Absent" /\ r # n /\ n # live
  BY MaxRevisionAssumption
  DEF IInv, TypeOK, History, LiveIsServable, ReviseRequested, Rev, None, LiveLineage
<1>b. /\ state' = [state EXCEPT ![n] = "Drafting"]
      /\ via' = [via EXCEPT ![n] = "none"]
      /\ stamps' = [stamps EXCEPT ![n] = stamps[r]]
      /\ last' = n
      /\ UNCHANGED <<published, live, current, checked, awaiting, repairs, memo, port, changes,
                     served, overdue, asked>>
  BY DEF ReviseRequested, Become, history
<1>d. n \notin published
  BY <1>a DEF IInv, TypeOK, History, LiveLineage
<1> HIDE DEF n
<1>1. TypeOK'
  BY <1>a, <1>b DEF IInv, TypeOK, States, DraftStates, Reasons
<1>2. History'
  <2>1. \A s \in Rev : s > n <=> s > last /\ s # n
    BY <1>a DEF n, IInv, TypeOK, Rev
  <2> QED BY <2>1, <1>a, <1>b, <1>d DEF IInv, TypeOK, History, LiveLineage
<1>3. OneOpenDraft'
  <2>1. \A s \in Rev : ~IsDraft(s)
    BY DEF ReviseRequested, NoOpenDraft
  <2> QED BY <2>1, <1>a, <1>b DEF IInv, TypeOK, OneOpenDraft, IsDraft
<1>4. Stamped'
  BY <1>a, <1>b DEF IInv, TypeOK, Stamped
<1>5. LiveIsServable' /\ Lineage' /\ SupersededWasServed'
  BY <1>a, <1>b DEF IInv, TypeOK, LiveIsServable, Lineage, SupersededWasServed, LiveLineage
<1>6. Awaited'
  <2>1. awaiting = {}
    BY DEF IInv, TypeOK, ReviseRequested, Quiet, Busy
  <2> QED BY <2>1, <1>b DEF Awaited
<1>7. OnAirIsVerified'
  BY <1>a, <1>b DEF IInv, TypeOK, OnAirIsVerified
<1> QED BY <1>1, <1>2, <1>3, <1>4, <1>5, <1>6, <1>7 DEF IInv

-----------------------------------------------------------------------------
(* Events on a published revision                                           *)

\* A superseded revision returns to review, not to the air.
LEMMA RollbackRequestedStep ==
    ASSUME IInv, NEW r \in Rev, RollbackRequested(r)
    PROVE IInv'
<1>1. TypeOK'
  BY DEF IInv, TypeOK, Reasons, States, LiveLineage, RollbackRequested, EnterStaleReview
<1>2. History' /\ OneOpenDraft' /\ Stamped'
  BY DEF IInv, TypeOK, History, OneOpenDraft, Stamped, IsDraft, DraftStates, LiveLineage,
      RollbackRequested, EnterStaleReview
<1>3. LiveIsServable' /\ Lineage' /\ SupersededWasServed'
  BY DEF IInv, TypeOK, LiveIsServable, Lineage, SupersededWasServed, RollbackRequested,
      EnterStaleReview
<1>4. Awaited'
  BY DEF IInv, TypeOK, Awaited, Quiet, Busy, RollbackRequested, EnterStaleReview
<1>5. OnAirIsVerified'
  BY DEF IInv, TypeOK, OnAirIsVerified, RollbackRequested, EnterStaleReview
<1> QED BY <1>1, <1>2, <1>3, <1>4, <1>5 DEF IInv

\* Leaving the air, by request or by a failed re-verification, keeps the pointer's line.
LEMMA LeaveAirStep ==
    ASSUME IInv, NEW r \in Rev, LeaveAir(r), UNCHANGED <<awaiting, served>>, r \notin awaiting
    PROVE  (LiveIsServable /\ Lineage /\ SupersededWasServed)'
<1>1. state' = [state EXCEPT ![r] = "Withdrawn"] /\ live' = IF live = r THEN None ELSE live
  BY DEF LeaveAir, Become, PointerWithout
<1>2. None \notin Rev
  BY MaxRevisionAssumption DEF Rev, None
<1> QED BY <1>1, <1>2 DEF IInv, TypeOK, LiveIsServable, Lineage, SupersededWasServed, LiveLineage

\* Taking the live revision off air clears the pointer.
LEMMA WithdrawRequestedStep ==
    ASSUME IInv, NEW r \in Rev, WithdrawRequested(r)
    PROVE IInv'
<1>1. TypeOK'
  BY BudgetAssumption
  DEF IInv, TypeOK, Reasons, States, WithdrawRequested, LeaveAir, Become, PointerWithout
<1>2. History' /\ OneOpenDraft' /\ Stamped'
  BY DEF IInv, TypeOK, History, OneOpenDraft, Stamped, IsDraft, DraftStates, LiveLineage,
      WithdrawRequested, LeaveAir, Become
<1>3. LiveIsServable' /\ Lineage' /\ SupersededWasServed'
  <2>1. r \notin awaiting
    BY DEF WithdrawRequested, Quiet, Busy
  <2> QED BY <2>1, LeaveAirStep DEF WithdrawRequested
<1>4. Awaited'
  BY DEF IInv, TypeOK, Awaited, Quiet, Busy, WithdrawRequested, LeaveAir, Become
<1>5. OnAirIsVerified'
  BY DEF IInv, TypeOK, OnAirIsVerified, WithdrawRequested, LeaveAir, Become
<1> QED BY <1>1, <1>2, <1>3, <1>4, <1>5 DEF IInv

\* Only what the pointer is not on can be archived.
LEMMA ArchiveRequestedStep ==
    ASSUME IInv, NEW r \in Rev, ArchiveRequested(r)
    PROVE IInv'
<1>1. TypeOK'
  BY DEF IInv, TypeOK, Reasons, States, ArchiveRequested, Become
<1>2. History' /\ OneOpenDraft' /\ Stamped'
  BY DEF IInv, TypeOK, History, OneOpenDraft, Stamped, IsDraft, DraftStates, LiveLineage,
      ArchiveRequested, Become
<1>3. LiveIsServable' /\ Lineage' /\ SupersededWasServed'
  BY DEF IInv, TypeOK, LiveIsServable, Lineage, SupersededWasServed, LiveLineage,
      ArchiveRequested, Become
<1>4. Awaited'
  BY DEF IInv, TypeOK, Awaited, Quiet, Busy, ArchiveRequested, Become
<1>5. OnAirIsVerified'
  BY DEF IInv, TypeOK, OnAirIsVerified, ArchiveRequested, Become
<1> QED BY <1>1, <1>2, <1>3, <1>4, <1>5 DEF IInv

\* Out of the block a revision goes to review again.
LEMMA BlockedInputFixedStep ==
    ASSUME IInv, NEW r \in Rev, BlockedInputFixed(r)
    PROVE IInv'
<1>1. TypeOK'
  BY BudgetAssumption
  DEF IInv, TypeOK, Reasons, States, LiveLineage, BlockedInputFixed, EnterStaleReview, history
<1>2. History' /\ OneOpenDraft' /\ Stamped'
  BY DEF IInv, TypeOK, History, OneOpenDraft, Stamped, IsDraft, DraftStates, LiveLineage,
      BlockedInputFixed, EnterStaleReview, history
<1>3. LiveIsServable' /\ Lineage' /\ SupersededWasServed'
  BY DEF IInv, TypeOK, LiveIsServable, Lineage, SupersededWasServed, LiveLineage,
      BlockedInputFixed, EnterStaleReview, history
<1>4. Awaited'
  BY DEF IInv, TypeOK, Awaited, Quiet, Busy, BlockedInputFixed, EnterStaleReview
<1>5. OnAirIsVerified'
  BY DEF IInv, TypeOK, OnAirIsVerified, BlockedInputFixed, EnterStaleReview, history
<1> QED BY <1>1, <1>2, <1>3, <1>4, <1>5 DEF IInv

\* An outage of a resting revision.
LEMMA TimeoutStep ==
    ASSUME IInv, NEW r \in Rev, Timeout(r)
    PROVE IInv'
<1>1. TypeOK'
  BY DEF IInv, TypeOK, Reasons, States, LiveLineage, Timeout, Become, history
<1>2. History' /\ OneOpenDraft' /\ Stamped'
  BY DEF IInv, TypeOK, History, OneOpenDraft, Stamped, IsDraft, DraftStates, LiveLineage,
      Timeout, Become, history
<1>3. LiveIsServable' /\ Lineage' /\ SupersededWasServed'
  BY DEF IInv, TypeOK, LiveIsServable, Lineage, SupersededWasServed, LiveLineage, Timeout,
      Become, history
<1>4. Awaited'
  BY DEF IInv, TypeOK, Awaited, Quiet, Busy, Timeout, Become
<1>5. OnAirIsVerified'
  BY DEF IInv, TypeOK, OnAirIsVerified, Timeout, Become, history
<1> QED BY <1>1, <1>2, <1>3, <1>4, <1>5 DEF IInv

\* A configuration change sweeps every Published revision it reaches, whoever else it moves.
LEMMA ConfigChangedStep ==
    ASSUME IInv, NEW k \in Kinds, NEW to \in Versions,
           NEW judged, NEW reached, NEW read,
           ConfigChanged(k, to, judged, reached, read)
    PROVE IInv'
<1> DEFINE swept == Swept(k, to, reached \cap judged, read)
           overtaken == Overtaken(k, to)
<1>1. /\ \A s \in Rev : ~Busy(s)
      /\ awaiting = {}
  BY DEF ConfigChanged, Quiet, Busy, IInv, TypeOK
<1>2. /\ swept \subseteq {s \in Rev : state[s] \in {"Published", "Superseded"}}
      /\ overtaken \subseteq {s \in Rev : state[s] \in {"PendingApproval", "Approved"}}
  BY DEF Swept, Asked, Overtaken
<1>3. /\ current' = [current EXCEPT ![k] = to]
      /\ changes < MaxChanges /\ changes' = changes + 1
      /\ state' = [s \in Rev |-> IF s \in swept THEN "StaleReview"
                                 ELSE IF s \in overtaken THEN "Drafting" ELSE state[s]]
      /\ via' = [s \in Rev |-> IF s \in swept THEN "ConfigChanged" ELSE via[s]]
      /\ checked' = [s \in Rev |-> IF s \in overtaken THEN [j \in Kinds |-> FirstVersion]
                                   ELSE checked[s]]
      /\ overdue' = overdue \cup {s \in reached \cap published : stamps[s][k] # to}
      /\ UNCHANGED <<last, published, live, stamps, awaiting, repairs, memo, port, served, asked>>
  BY DEF ConfigChanged
<1>4. \A s \in Rev : state[s] = "Published" /\ s \in reached /\ stamps[s][k] # to => s \in swept
  BY DEF ConfigChanged, Undecided, Swept, Asked
<1> HIDE DEF swept, overtaken
<1>5. TypeOK'
  BY <1>2, <1>3, VersionsAssumption, MaxChangesAssumption
  DEF IInv, TypeOK, Stamps, States, DraftStates, LiveLineage, Reasons
<1>6. History' /\ OneOpenDraft' /\ Stamped'
  BY <1>2, <1>3
  DEF IInv, TypeOK, History, OneOpenDraft, Stamped, IsDraft, DraftStates, LiveLineage
<1>7. LiveIsServable' /\ Lineage' /\ SupersededWasServed'
  BY <1>1, <1>2, <1>3 DEF IInv, TypeOK, LiveIsServable, Lineage, SupersededWasServed, LiveLineage
<1>8. Awaited'
  BY <1>1, <1>3 DEF Awaited
<1>9. OnAirIsVerified'
  BY <1>2, <1>3, <1>4 DEF IInv, TypeOK, OnAirIsVerified
<1> QED BY <1>5, <1>6, <1>7, <1>8, <1>9 DEF IInv

-----------------------------------------------------------------------------
(* Settling                                                                 *)

\* The awaited revision takes the pointer and every other Published one is superseded;
\* Lineage says those were all served before.
LEMMA LivePointerMovedStep ==
    ASSUME IInv, NEW r \in Rev, LivePointerMoved(r)
    PROVE IInv'
<1>1. TypeOK'
  BY DEF IInv, TypeOK, States, LiveLineage, LivePointerMoved
<1>2. History' /\ OneOpenDraft' /\ Stamped'
  BY DEF IInv, TypeOK, History, OneOpenDraft, Stamped, IsDraft, DraftStates, LiveLineage,
      LivePointerMoved
<1>3. LiveIsServable' /\ Lineage' /\ SupersededWasServed'
  BY DEF IInv, TypeOK, LiveIsServable, Awaited, Lineage, SupersededWasServed, LiveLineage,
      LivePointerMoved
<1>4. Awaited'
  BY DEF IInv, TypeOK, Awaited, LivePointerMoved
<1>5. OnAirIsVerified'
  BY DEF IInv, TypeOK, OnAirIsVerified, LivePointerMoved
<1> QED BY <1>1, <1>2, <1>3, <1>4, <1>5 DEF IInv

\* Whoever passes is stamped with what is in force, and is owed the pointer only on
\* its way back from a rollback.
LEMMA ReVerifiedStep ==
    ASSUME IInv, NEW r \in Rev, ReVerified(r)
    PROVE IInv'
<1>1. TypeOK'
  BY KindsAssumption
  DEF IInv, TypeOK, Reasons, States, LiveLineage, Stamps, Memo, ReVerified, Recorded, Become,
      Earned, Restamped
<1>2. History' /\ OneOpenDraft' /\ Stamped'
  BY DEF IInv, TypeOK, History, OneOpenDraft, Stamped, IsDraft, DraftStates, LiveLineage,
      ReVerified, UnderReview, Become, Earned, Restamped
<1>3. LiveIsServable' /\ Lineage' /\ SupersededWasServed'
  BY DEF IInv, TypeOK, LiveIsServable, Awaited, Lineage, SupersededWasServed, LiveLineage,
      ReVerified, UnderReview, Become, Earned, Lost
<1>4. Awaited'
  <2>1. state[r] = "StaleReview" /\ Busy(r) /\ \A s \in Rev : s < r => ~Busy(s)
    BY DEF ReVerified, UnderReview, Turn
  <2>2. awaiting = {}
    BY <2>1, MaxRevisionAssumption DEF IInv, TypeOK, Awaited, Busy, Rev
  <2>3. \A s \in Rev : s < r => ~Busy(s)'
    BY <2>1, <2>2, MaxRevisionAssumption
    DEF IInv, TypeOK, ReVerified, Recorded, Become, history, Busy, Screened, Rev
  <2>4. CASE via[r] = "RollbackRequested"
    <3>1. awaiting' = {r} /\ state'[r] = "Published" /\ stamps'[r] = current'
      BY <2>2, <2>4 DEF IInv, TypeOK, ReVerified, Become, Earned, Restamped, Recorded
    <3> QED BY <3>1, <2>3 DEF Awaited
  <2>5. CASE via[r] # "RollbackRequested"
    <3>1. awaiting' = {}
      BY <2>2, <2>5 DEF ReVerified
    <3> QED BY <3>1 DEF Awaited
  <2> QED BY <2>4, <2>5
<1>5. OnAirIsVerified'
  BY DEF IInv, TypeOK, OnAirIsVerified, ReVerified, Become
<1> QED BY <1>1, <1>2, <1>3, <1>4, <1>5 DEF IInv

\* Whoever fails leaves the air.
LEMMA ReVerificationFailsStep ==
    ASSUME IInv, NEW r \in Rev, ReVerificationFails(r)
    PROVE IInv'
<1>1. TypeOK'
  <2>1. \E v \in {"none", "allow", "deny"} : Recorded(r, v)
    BY DEF IInv, TypeOK, Memo, ReVerificationFails, Verdicts
  <2>2. memo' \in [Rev -> Memo]
    BY <2>1, KindsAssumption DEF IInv, TypeOK, Memo, Stamps, Recorded
  <2> QED
    BY <2>2 DEF IInv, TypeOK, Reasons, States, None, ReVerificationFails, LeaveAir,
                PointerWithout, Become
<1>2. History' /\ OneOpenDraft' /\ Stamped'
  BY DEF IInv, TypeOK, History, OneOpenDraft, Stamped, IsDraft, DraftStates, LiveLineage,
      ReVerificationFails, UnderReview, LeaveAir, Become
<1>3. LiveIsServable' /\ Lineage' /\ SupersededWasServed'
  <2>1. r \notin awaiting
    BY DEF IInv, Awaited, ReVerificationFails, UnderReview
  <2> QED BY <2>1, LeaveAirStep DEF ReVerificationFails
<1>4. Awaited'
  BY DEF IInv, TypeOK, Awaited, Busy, Screened, ReVerificationFails, UnderReview, Recorded,
      LeaveAir, Become
<1>5. OnAirIsVerified'
  BY DEF IInv, TypeOK, OnAirIsVerified, ReVerificationFails, LeaveAir, Become
<1> QED BY <1>1, <1>2, <1>3, <1>4, <1>5 DEF IInv

\* No answer leads to recovery.
LEMMA ScreeningUnansweredStep ==
    ASSUME IInv, NEW r \in Rev, ScreeningUnanswered(r)
    PROVE IInv'
<1>1. TypeOK'
  BY DEF IInv, TypeOK, Reasons, States, LiveLineage, ScreeningUnanswered, Become, history
<1>2. History' /\ OneOpenDraft' /\ Stamped'
  BY DEF IInv, TypeOK, History, OneOpenDraft, Stamped, IsDraft, DraftStates, LiveLineage,
      ScreeningUnanswered, UnderReview, Become, history
<1>3. LiveIsServable' /\ Lineage' /\ SupersededWasServed'
  BY DEF IInv, TypeOK, LiveIsServable, Lineage, SupersededWasServed, LiveLineage,
      ScreeningUnanswered, UnderReview, Become, history
<1>4. Awaited'
  BY DEF IInv, TypeOK, Awaited, Turn, Busy, ScreeningUnanswered, UnderReview, Become
<1>5. OnAirIsVerified'
  BY DEF IInv, TypeOK, OnAirIsVerified, ScreeningUnanswered, Become, history
<1> QED BY <1>1, <1>2, <1>3, <1>4, <1>5 DEF IInv

\* A retry within the budget.
LEMMA RetryStep ==
    ASSUME IInv, NEW r \in Rev, Retry(r)
    PROVE IInv'
<1>1. TypeOK'
  BY BudgetAssumption
  DEF IInv, TypeOK, Reasons, States, LiveLineage, Retry, BudgetLeft, EnterStaleReview, history
<1>2. History' /\ OneOpenDraft' /\ Stamped'
  BY DEF IInv, TypeOK, History, OneOpenDraft, Stamped, IsDraft, DraftStates, LiveLineage,
      Retry, EnterStaleReview, history
<1>3. LiveIsServable' /\ Lineage' /\ SupersededWasServed'
  BY DEF IInv, TypeOK, LiveIsServable, Lineage, SupersededWasServed, LiveLineage, Retry,
      EnterStaleReview, history
<1>4. Awaited'
  BY DEF IInv, TypeOK, Awaited, Busy, Screened, Retry, EnterStaleReview
<1>5. OnAirIsVerified'
  BY DEF IInv, TypeOK, OnAirIsVerified, Retry, EnterStaleReview, history
<1> QED BY <1>1, <1>2, <1>3, <1>4, <1>5 DEF IInv

\* The budget is spent.
LEMMA GiveUpStep ==
    ASSUME IInv, NEW r \in Rev, GiveUp(r)
    PROVE IInv'
<1>1. TypeOK'
  BY DEF IInv, TypeOK, Reasons, States, LiveLineage, GiveUp, Become, history
<1>2. History' /\ OneOpenDraft' /\ Stamped'
  BY DEF IInv, TypeOK, History, OneOpenDraft, Stamped, IsDraft, DraftStates, LiveLineage,
      GiveUp, Become, history
<1>3. LiveIsServable' /\ Lineage' /\ SupersededWasServed'
  BY DEF IInv, TypeOK, LiveIsServable, Lineage, SupersededWasServed, LiveLineage, GiveUp,
      Become, history
<1>4. Awaited'
  BY DEF IInv, TypeOK, Awaited, Busy, Screened, GiveUp, Become
<1>5. OnAirIsVerified'
  BY DEF IInv, TypeOK, OnAirIsVerified, GiveUp, Become, history
<1> QED BY <1>1, <1>2, <1>3, <1>4, <1>5 DEF IInv

-----------------------------------------------------------------------------
(* The invariant                                                            *)

\* Every step of the machine preserves IInv.
LEMMA Inductive == IInv /\ [Next]_vars => IInv'
<1> SUFFICES ASSUME IInv, [Next]_vars
             PROVE IInv'
  OBVIOUS
<1>1. CASE Change
  <2>0. PICK k \in Kinds, to \in Versions :
           \E judged, reached, read : ConfigChanged(k, to, judged, reached, read)
    BY <1>1 DEF Change
  <2>1. PICK judged, reached, read : ConfigChanged(k, to, judged, reached, read)
    BY <2>0
  <2> QED BY <2>1, ConfigChangedStep
<1>2. ASSUME NEW r \in Rev, Event(r)
      PROVE IInv'
  BY <1>2, CourseChecksPassedStep, ApprovalGrantedStep, VerdictFiledStep, BackToWorkStep,
     DraftClosedStep, PublishRequestedStep, ReviseRequestedStep, RollbackRequestedStep,
     WithdrawRequestedStep, ArchiveRequestedStep, BlockedInputFixedStep, TimeoutStep
  DEF Event
<1>3. ASSUME NEW r \in Rev, Settle(r)
      PROVE IInv'
  BY <1>3, LivePointerMovedStep, ReVerifiedStep, ReVerificationFailsStep,
     ScreeningUnansweredStep, RetryStep, GiveUpStep
  DEF Settle
<1>4. CASE UNCHANGED vars
  BY <1>4, StutterStep
<1> QED BY <1>1, <1>2, <1>3, <1>4 DEF Next

\* IInv holds in every state the machine reaches.
THEOREM Invariant == Spec => []IInv
BY InitIInv, Inductive, PTL DEF Spec

\* Every variable keeps its type: no retry beyond the budget, no pointer to a revision that
\* does not exist.
THEOREM TypeCorrect == Spec => []TypeOK
BY Invariant, PTL DEF IInv

\* Forking, withdrawing and rolling back in any order never leave two drafts open.
THEOREM DraftsAreSingle == Spec => []OneOpenDraft
BY Invariant, PTL DEF IInv

\* Learners are pointed only at a revision that is published or under re-verification.
THEOREM LiveServable == Spec => []LiveIsServable
BY Invariant, PTL DEF IInv

\* A superseded revision was once on air and is not now.
THEOREM SupersededServed == Spec => []SupersededWasServed
BY Invariant, PTL DEF IInv

\* No revision is Published while a change that reached it is unanswered.
THEOREM VerifiedOnAir == Spec => []OnAirIsVerified
BY Invariant, PTL DEF IInv

\* Once an event has settled, nothing stands Published beside the live revision.
THEOREM ShadowFree == Spec => []NoShadowPublication
<1>1. IInv => NoShadowPublication
  BY DEF IInv, TypeOK, Lineage, NoShadowPublication, Quiet, Busy
<1> QED BY <1>1, Invariant, PTL

\* The pointer moves only in LivePointerMoved, and Awaited speaks of its target.
THEOREM PointerSafe == Spec => PointerMovesToVerified
<1>1. IInv /\ [Next]_vars
        => (live' \notin {live, None} => state[live'] = "Published" /\ stamps[live'] = current)
  <2> SUFFICES ASSUME IInv, [Next]_vars, live' \notin {live, None}
               PROVE state[live'] = "Published" /\ stamps[live'] = current
    OBVIOUS
  <2>1. PICK r \in Rev : LivePointerMoved(r)
    <3>1. ~UNCHANGED vars
      BY DEF vars, storeVars
    <3>2. ~Change
      <4>1. Change => live' = live
        <5> SUFFICES ASSUME Change PROVE live' = live
          OBVIOUS
        <5>0. PICK k \in Kinds, to \in Versions :
                 \E judged, reached, read : ConfigChanged(k, to, judged, reached, read)
          BY DEF Change
        <5>1. PICK judged, reached, read : ConfigChanged(k, to, judged, reached, read)
          BY <5>0
        <5> QED BY <5>1 DEF ConfigChanged
      <4> QED BY <4>1
    <3>3. PICK r \in Rev : Event(r) \/ Settle(r)
      BY <3>1, <3>2 DEF Next
    <3>4. ~Event(r)
      BY DEF Event, CourseChecksPassed, ApprovalGranted, VerdictFiled, BackToWork,
         DraftClosed, PublishRequested, ReviseRequested, RollbackRequested,
         WithdrawRequested, LeaveAir, PointerWithout, ArchiveRequested, BlockedInputFixed,
         Timeout
    <3>5. ~(\/ ReVerified(r) \/ ReVerificationFails(r) \/ ScreeningUnanswered(r)
            \/ Retry(r) \/ GiveUp(r))
      BY DEF ReVerified, ReVerificationFails, LeaveAir, PointerWithout, ScreeningUnanswered,
         Retry, GiveUp
    <3> QED BY <3>3, <3>4, <3>5 DEF Settle
  <2> QED BY <2>1 DEF LivePointerMoved, IInv, Awaited
<1> QED BY <1>1, Invariant, PTL DEF Spec, PointerMovesToVerified

\* A step taken before the course is quiet is a step of settling.
LEMMA SettlingOnly ==
    ASSUME [Next]_vars, ~Quiet
    PROVE  UNCHANGED vars \/ \E r \in Rev : Settle(r)
<1>1. ~Change
  BY DEF Change
<1>2. \A r \in Rev : ~Event(r)
  BY DEF Event, CourseChecksPassed, ApprovalGranted, VerdictFiled, BackToWork,
     DraftClosed, PublishRequested, ReviseRequested, RollbackRequested,
     WithdrawRequested, ArchiveRequested, BlockedInputFixed, Timeout
<1> QED BY <1>1, <1>2 DEF Next

\* While settling only a failed re-verification withdraws, and it has a verdict on record.
THEOREM WithdrawalIsJudged == Spec => JudgedWithdrawal
<1>1. IInv /\ [Next]_vars
        => \A r \in Rev : ~Quiet /\ state[r] # "Withdrawn" /\ state'[r] = "Withdrawn"
                            => Screened(r)'
  <2> SUFFICES ASSUME IInv, [Next]_vars, NEW r \in Rev,
                      ~Quiet, state[r] # "Withdrawn", state'[r] = "Withdrawn"
               PROVE Screened(r)'
    OBVIOUS
  <2>1. PICK s \in Rev : Settle(s)
    BY SettlingOnly DEF vars, storeVars
  <2>2. ReVerificationFails(s) /\ s = r
    BY <2>1
    DEF IInv, TypeOK, Settle, LivePointerMoved, ReVerified, Earned, ReVerificationFails,
        LeaveAir, ScreeningUnanswered, Retry, GiveUp, Become, EnterStaleReview
  <2>3. memo'[r].verdict # "none" /\ memo'[r].version = current'["guardrail"]
    BY <2>2 DEF ReVerificationFails, Verdicts, Screened, Recorded, IInv, TypeOK
  <2> QED BY <2>3 DEF Screened
<1> QED BY <1>1, Invariant, PTL DEF Spec, JudgedWithdrawal

-----------------------------------------------------------------------------
(* Settling comes to an end                                                 *)

\* The move of the pointer uses up its one step, and whoever loses the pointer
\* has none left.
LEMMA MoveDescends ==
    ASSUME IInv, NEW r \in Rev, LivePointerMoved(r)
    PROVE  /\ StepsLeft(r)' < StepsLeft(r)
           /\ \A s \in Rev \ {r} : StepsLeft(s)' <= StepsLeft(s)
<1> USE DEF IInv, TypeOK
<1>1. StepsLeft(r) = 1 /\ StepsLeft(r)' = 0
  BY DEF LivePointerMoved, StepsLeft
<1>2. ASSUME NEW s \in Rev \ {r} PROVE StepsLeft(s)' <= StepsLeft(s)
  <2>1. repairs'[s] = repairs[s] /\ repairs[s] \in 0..Budget /\ (s \in awaiting' <=> s \in awaiting)
    BY DEF LivePointerMoved
  <2>2. CASE state[s] = "Published"
    <3>1. state'[s] = "Superseded"
      BY <2>2 DEF LivePointerMoved
    <3> QED BY <2>2, <3>1 DEF StepsLeft
  <2>3. CASE state[s] # "Published"
    <3>1. state'[s] = state[s]
      BY <2>3 DEF LivePointerMoved
    <3> QED BY <2>1, <2>3, <3>1, BudgetAssumption DEF StepsLeft
  <2> QED BY <2>2, <2>3
<1> QED BY <1>1, <1>2

\* Nothing else that settling does touches another revision.
LEMMA OthersKeepSteps ==
    ASSUME IInv, NEW r \in Rev,
           ReVerified(r) \/ ReVerificationFails(r) \/ ScreeningUnanswered(r) \/ Retry(r) \/ GiveUp(r),
           NEW s \in Rev \ {r}
    PROVE  StepsLeft(s)' <= StepsLeft(s)
<1> USE DEF IInv, TypeOK
<1>1. state'[s] = state[s] /\ repairs'[s] = repairs[s] /\ (s \in awaiting' <=> s \in awaiting)
  BY DEF ReVerified, ReVerificationFails, LeaveAir, ScreeningUnanswered, Retry, GiveUp,
     Become, EnterStaleReview
<1>2. StepsLeft(s) \in Nat
  BY BudgetAssumption DEF StepsLeft
<1> QED BY <1>1, <1>2, BudgetAssumption DEF StepsLeft

\* A revision's own step: its review ends, or another outage is charged to it.
LEMMA OwnStepDescends ==
    ASSUME IInv, NEW r \in Rev,
           ReVerified(r) \/ ReVerificationFails(r) \/ ScreeningUnanswered(r) \/ Retry(r) \/ GiveUp(r)
    PROVE  StepsLeft(r)' < StepsLeft(r)
<1> USE BudgetAssumption DEF IInv, TypeOK
<1>1. repairs[r] \in 0..Budget
  OBVIOUS
<1>2. CASE ReVerified(r) \/ ReVerificationFails(r)
  <2>1. StepsLeft(r) >= 2
    BY <1>1, <1>2 DEF ReVerified, ReVerificationFails, UnderReview, StepsLeft
  <2>2. state'[r] \in {"Published", "Superseded", "Withdrawn"}
    BY <1>2 DEF ReVerified, ReVerificationFails, LeaveAir, Become, Earned
  <2> QED BY <2>1, <2>2 DEF StepsLeft
<1>3. CASE ScreeningUnanswered(r)
  <2>1. state[r] = "StaleReview" /\ state'[r] = "ErrorRecovery" /\ repairs'[r] = repairs[r]
    BY <1>3 DEF ScreeningUnanswered, UnderReview, Become
  <2> QED BY <1>1, <2>1 DEF StepsLeft
<1>4. CASE Retry(r)
  <2>1. /\ state[r] = "ErrorRecovery" /\ state'[r] = "StaleReview"
        /\ repairs'[r] = repairs[r] + 1
    BY <1>1, <1>4 DEF Retry, EnterStaleReview, Become
  <2> QED BY <1>1, <2>1 DEF StepsLeft
<1>5. CASE GiveUp(r)
  <2>1. state[r] = "ErrorRecovery" /\ state'[r] = "BlockedRecoverable"
    BY <1>5 DEF GiveUp, Become
  <2> QED BY <1>1, <2>1 DEF StepsLeft
<1> QED BY <1>2, <1>3, <1>4, <1>5

\* However many revisions a change sends back, and however long nobody answers,
\* settling runs out of steps to take: the machine's own rows make no cycle
\* (machine/settling.py, settle).
THEOREM SettlingEnds == Spec => SettlingDescends
<1>1. IInv /\ [Next]_vars => [~Quiet => UsesUpAStep]_vars
  <2> SUFFICES ASSUME IInv, [Next]_vars, ~Quiet, ~UNCHANGED vars
               PROVE  UsesUpAStep
    OBVIOUS
  <2>1. PICK r \in Rev : Settle(r)
    BY SettlingOnly
  <2>2. StepsLeft(r)' < StepsLeft(r)
    BY <2>1, MoveDescends, OwnStepDescends DEF Settle
  <2>3. ASSUME NEW s \in Rev \ {r} PROVE StepsLeft(s)' <= StepsLeft(s)
    BY <2>1, MoveDescends, OthersKeepSteps DEF Settle
  <2> QED BY <2>2, <2>3 DEF UsesUpAStep
<1> QED BY <1>1, Invariant, PTL DEF Spec, SettlingDescends

-----------------------------------------------------------------------------
(* The promise to learners                                                  *)

\* A step that moves neither the pointer nor anybody's fitness stutters.
LEMMA SameAir ==
    ASSUME UNCHANGED <<live, Fit, Retired>>
    PROVE [Air!Next]_(Air!vars)
BY DEF Air!vars

\* Passing every check is Judge.
LEMMA JudgeStep ==
    ASSUME NEW r \in Rev, r \notin Retired, live' = live, Fit' = Fit \cup {r}, Retired' = Retired
    PROVE [Air!Next]_(Air!vars)
BY DEF Air!Next, Air!Judge

\* Leaving the air for good is Retire.
LEMMA RetireStep ==
    ASSUME NEW r \in Rev, live' = PointerWithout(r), Fit' = Fit \ {r}, Retired' = Retired \cup {r}
    PROVE [Air!Next]_(Air!vars)
BY DEF Air!Next, Air!Retire, PointerWithout

\* Losing fitness, of one revision or many, is Recall.
LEMMA RecallStep ==
    ASSUME live' = live, Fit' \subseteq Fit, Fit \subseteq Rev, Retired' = Retired
    PROVE [Air!Next]_(Air!vars)
<1> DEFINE R == Fit \ Fit'
<1>1. Fit' = Fit \ R
  OBVIOUS
<1>2. R \in SUBSET Rev
  OBVIOUS
<1> HIDE DEF R
<1> QED BY <1>1, <1>2 DEF Air!Next, Air!Recall

\* External events: publication judges, a rollback recalls, withdrawal and archiving retire.
LEMMA EventKeepsPromise ==
    ASSUME IInv, NEW r \in Rev, Event(r)
    PROVE [Air!Next]_(Air!vars)
<1> USE DEF IInv, TypeOK
<1>1. CASE \/ CourseChecksPassed(r) \/ ApprovalGranted(r) \/ VerdictFiled(r) \/ BackToWork(r)
           \/ DraftClosed(r) \/ BlockedInputFixed(r) \/ Timeout(r)
  <2>1. UNCHANGED <<live, Fit, Retired>>
    BY <1>1
    DEF CourseChecksPassed, ApprovalGranted, VerdictFiled, BackToWork, DraftClosed,
        BlockedInputFixed, Timeout, EnterStaleReview, Become, History, LiveLineage,
        DraftStates, IsDraft, Fit, Retired, history
  <2> QED BY <2>1, SameAir
<1>2. CASE PublishRequested(r)
  <2>1. r \notin published /\ r \notin overdue
    BY <1>2 DEF PublishRequested, History, LiveLineage, Stamped
  <2>2. r \notin Retired /\ live' = live /\ Fit' = Fit \cup {r} /\ Retired' = Retired
    BY <1>2, <2>1 DEF PublishRequested, Become, Fit, Retired, history
  <2> QED BY <2>2, JudgeStep
<1>3. CASE ReviseRequested(r)
  <2>1. last + 1 \in Rev /\ last + 1 \notin published
    <3>1. last + 1 \in Rev /\ last + 1 > last
      BY <1>3, MaxRevisionAssumption DEF ReviseRequested, Rev
    <3> QED BY <3>1 DEF History, LiveLineage
  <2>2. UNCHANGED <<live, Fit, Retired>>
    BY <1>3, <2>1 DEF ReviseRequested, Become, Fit, Retired, history
  <2> QED BY <2>2, SameAir
<1>4. CASE RollbackRequested(r)
  <2>1. live' = live /\ Fit' \subseteq Fit /\ Fit \subseteq Rev /\ Retired' = Retired
    BY <1>4 DEF RollbackRequested, EnterStaleReview, Fit, Retired
  <2> QED BY <2>1, RecallStep
<1>5. CASE WithdrawRequested(r)
  <2>1. live' = PointerWithout(r) /\ Fit' = Fit \ {r} /\ Retired' = Retired \cup {r}
    BY <1>5 DEF WithdrawRequested, LeaveAir, Become, Fit, Retired
  <2> QED BY <2>1, RetireStep
<1>6. CASE ArchiveRequested(r)
  <2>1. r \in published /\ live # r
    BY <1>6, MaxRevisionAssumption
    DEF ArchiveRequested, History, LiveIsServable, SupersededWasServed, LiveLineage, Rev, None
  <2>2. live' = PointerWithout(r) /\ Fit' = Fit \ {r} /\ Retired' = Retired \cup {r}
    BY <1>6, <2>1 DEF ArchiveRequested, PointerWithout, Become, Fit, Retired
  <2> QED BY <2>2, RetireStep
<1> QED BY <1>1, <1>2, <1>3, <1>4, <1>5, <1>6 DEF Event

\* Settling: the pointer switches to a fit revision, re-verification judges or retires.
LEMMA SettleKeepsPromise ==
    ASSUME IInv, NEW r \in Rev, Settle(r)
    PROVE [Air!Next]_(Air!vars)
<1> USE DEF IInv, TypeOK
<1>1. CASE LivePointerMoved(r)
  <2>1. r \in Fit
    BY <1>1 DEF LivePointerMoved, Fit, History, OnAirIsVerified, LiveLineage
  <2>2. live' = r /\ Fit' = Fit /\ Retired' = Retired
    BY <1>1 DEF LivePointerMoved, Fit, Retired
  <2> QED BY <2>1, <2>2 DEF Air!Next, Air!Switch
<1>2. CASE ReVerified(r)
  <2>1. r \in published /\ state[r] = "StaleReview"
    BY <1>2 DEF ReVerified, UnderReview, History, LiveLineage
  <2>2. r \notin Retired /\ live' = live /\ Fit' = Fit \cup {r} /\ Retired' = Retired
    BY <1>2, <2>1 DEF ReVerified, Earned, Become, Fit, Retired
  <2> QED BY <2>2, JudgeStep
<1>3. CASE ReVerificationFails(r)
  <2>1. r \in published
    BY <1>3 DEF ReVerificationFails, UnderReview, History, LiveLineage
  <2>2. live' = PointerWithout(r) /\ Fit' = Fit \ {r} /\ Retired' = Retired \cup {r}
    BY <1>3, <2>1 DEF ReVerificationFails, LeaveAir, Become, Fit, Retired
  <2> QED BY <2>2, RetireStep
<1>4. CASE ScreeningUnanswered(r) \/ Retry(r) \/ GiveUp(r)
  <2>1. UNCHANGED <<live, Fit, Retired>>
    BY <1>4
    DEF ScreeningUnanswered, Retry, GiveUp, UnderReview, EnterStaleReview, Become, Fit,
        Retired, history
  <2> QED BY <2>1, SameAir
<1> QED BY <1>1, <1>2, <1>3, <1>4 DEF Settle

\* A configuration change recalls what it sweeps and whatever it reached before.
LEMMA ChangeKeepsPromise ==
    ASSUME IInv, Change
    PROVE [Air!Next]_(Air!vars)
<1>0. PICK k \in Kinds, to \in Versions :
         \E judged, reached, read : ConfigChanged(k, to, judged, reached, read)
  BY DEF Change
<1>1. PICK judged, reached, read : ConfigChanged(k, to, judged, reached, read)
  BY <1>0
<1> DEFINE swept == Swept(k, to, reached \cap judged, read)
           overtaken == Overtaken(k, to)
<1>2. /\ swept \subseteq {s \in Rev : state[s] \in {"Published", "Superseded"}}
      /\ overtaken \subseteq {s \in Rev : state[s] \in {"PendingApproval", "Approved"}}
  BY DEF Swept, Asked, Overtaken
<1>3. /\ state' = [s \in Rev |-> IF s \in swept THEN "StaleReview"
                                 ELSE IF s \in overtaken THEN "Drafting" ELSE state[s]]
      /\ overdue \subseteq overdue'
      /\ live' = live /\ published' = published
  BY <1>1 DEF ConfigChanged
<1> HIDE DEF swept, overtaken
<1>4. live' = live /\ Fit' \subseteq Fit /\ Fit \subseteq Rev /\ Retired' = Retired
  BY <1>2, <1>3 DEF IInv, TypeOK, Fit, Retired
<1> QED BY <1>4, RecallStep

\* The publication line implements the promise of module OnAir.
THEOREM PublicationKeepsPromise == Spec => KeepsPromise
<1>1. Init => Air!Init
  BY DEF Init, Air!Init, Fit, Retired, None
<1>2. IInv /\ [Next]_vars => [Air!Next]_(Air!vars)
  <2> SUFFICES ASSUME IInv, [Next]_vars PROVE [Air!Next]_(Air!vars)
    OBVIOUS
  <2>1. CASE Change
    BY <2>1, ChangeKeepsPromise
  <2>2. CASE \E r \in Rev : Event(r) \/ Settle(r)
    BY <2>2, EventKeepsPromise, SettleKeepsPromise
  <2>3. CASE UNCHANGED vars
    <3>1. UNCHANGED <<live, Fit, Retired>>
      BY <2>3 DEF vars, storeVars, history, Fit, Retired
    <3> QED BY <3>1, SameAir
  <2> QED BY <2>1, <2>2, <2>3 DEF Next
<1> QED BY <1>1, <1>2, Invariant, PTL DEF Spec, KeepsPromise, Air!Spec

=============================================================================
