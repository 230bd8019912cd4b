---------------------------------- MODULE Audit ----------------------------------
(* The audit of a run (engines/temporal): a log of recorded steps, and the      *)
(* fifteen properties as walks over it.  One log holds every revision of a      *)
(* course; a step carries the state its event produced, as the recorder's       *)
(* snapshot writes it (machine/recording.py, machine/store.py) and as the       *)
(* scenarios build it (scenarios/legal_run.py).                                 *)
(*                                                                              *)
(* What happens is taken from a menu: the audit decides any log, so the menu    *)
(* holds illegal moves beside the legal ones, steps that lack a fact, steps     *)
(* with no envelope and steps with a name nobody declared.                      *)
EXTENDS Naturals, Sequences, SequencesExt, TLC

CONSTANTS
    ExamTopics,       \* exam -> the topics its specification lists
    Happenings,       \* the menu
    FirstSteps,       \* initial states, as steps of revision 1
    MaxLog

Revisions == {1, 2}

\* Whatever happens, and whatever a step lacks, it says which revision it is about.
ASSUME MenuIsRecorded ==
    /\ \A h \in Happenings :
           /\ DOMAIN h = {"event", "node", "nodes", "changes", "state", "others",
                          "moves", "verifies", "rollback", "lost", "envelope"}
           /\ "revision" \notin DOMAIN h.changes \union h.lost
    /\ \A s \in FirstSteps : s.revision \in Revisions

VARIABLE log

INITIAL == "(initial)"

\* The declared shape: names the catalogue and the inventory know.
EVENTS == {INITIAL, "(auto)", "OutlineApproved", "OutlineRevised", "NodeGenerated",
           "GuardrailVerdict", "NodeApproved", "NodeEdited", "Timeout",
           "PublishRequested", "LivePointerMoved", "RollbackRequested", "GuardrailChanged"}
REVISION_STATES == {"AwaitingBrief", "OutlineDrafting", "ContentInProgress", "WholeCourseChecks",
                    "Approved", "Published", "StaleReview", "ErrorRecovery",
                    "BlockedRecoverable", "Withdrawn", "Superseded"}
ADMITTED == {"NodeChecks", "Validated", "NodeApproved", "NeedsRevalidation", "BlockedFinal"}
NODE_STATES == ADMITTED \union {"Planned", "ContentDrafting", "Generated", "OutputGuardrail",
                                "NodeRepair", "NodeRecovery", "Removed"}
SERVABLE == {"Published", "StaleReview", "ErrorRecovery", "BlockedRecoverable"}

ENVELOPE == {"event_id", "event_time", "producer", "correlation_id",
             "causation_id", "schema_version"}
SIDE_EFFECTING == {"OutlineGenerated", "NodeGenerated", "GuardrailVerdict",
                   "LivePointerMoved", "LearnersNotified"}

StateFields == {"revision", "course_state", "node_states", "retry_budget_left",
                "committed_outline", "approved_nodes", "permission_checked",
                "used_restricted", "stale_nodes", "guardrail_version",
                "current_guardrail_version", "policy_version", "current_policy_version",
                "affected", "live_pointer", "revision_states", "re_verified"}
PayloadFields == {"node", "artifact", "node_type", "topics", "rolled_back_to"}

--------------------------------------------------------------------------------
\* Recording.

\* The last step recorded for a revision; the initial state stands for one with none.
Latest(r) ==
    LET own == SelectSeq(log, LAMBDA s : s.revision = r)
    IN  IF own = <<>> THEN log[1] ELSE Last(own)

\* Facts of the course as a whole: every step restates them as they now stand.
CourseWide == {"live_pointer", "revision_states", "re_verified",
               "current_guardrail_version", "current_policy_version"}

\* What f says, and what g says where f says nothing.
Over(f, g) == [x \in DOMAIN f \union DOMAIN g |-> IF x \in DOMAIN f THEN f[x] ELSE g[x]]

\* What a generation carries of the node's specification: an exam with no topics
\* carries none.
SpecOf(h) ==
    IF h.event # "NodeGenerated" THEN <<>>
    ELSE IF h.node \notin DOMAIN ExamTopics THEN [node_type |-> "topic"]
    ELSE IF ExamTopics[h.node] = {} THEN [node_type |-> "exam"]
    ELSE [node_type |-> "exam", topics |-> ExamTopics[h.node]]

PayloadOf(h, r) ==
    Over(IF h.node = "" THEN <<>>
         ELSE IF h.event = "GuardrailVerdict" THEN [artifact |-> h.node] ELSE [node |-> h.node],
         Over(IF h.rollback THEN [rolled_back_to |-> r] ELSE <<>>, SpecOf(h)))

\* The snapshot of a revision after a happening.  The pointer names the revision
\* the step is about; a revision's state is in both of the places that carry it.
Snapshot(h, r) ==
    LET own == Latest(r)
        all == Last(log)
        mine == IF h.state = "" THEN <<>> ELSE r :> h.state
        theirs == IF h.others = "" THEN <<>>
                  ELSE [q \in DOMAIN all.revision_states \ {r} |-> h.others]
        now == [revision |-> r,
                node_states |-> h.nodes @@ own.node_states,
                course_state |-> IF h.state = "" THEN own.course_state ELSE h.state,
                revision_states |-> mine @@ theirs @@ all.revision_states,
                live_pointer |-> IF h.moves THEN r ELSE all.live_pointer,
                re_verified |-> all.re_verified \union (IF h.verifies THEN {r} ELSE {})]
        before == [f \in StateFields |-> IF f \in CourseWide THEN all[f] ELSE own[f]]
    IN  Over(h.changes, Over(now, before))

StepOf(h, r) ==
    LET full == Over([event |-> h.event, envelope |-> h.envelope],
                     Over(PayloadOf(h, r), Snapshot(h, r)))
    IN  [f \in DOMAIN full \ h.lost |-> full[f]]

\* A step with a fact missing can only be the last: nothing is carried on from it.
Whole(s) == StateFields \subseteq DOMAIN s

Record(h, r) ==
    /\ Len(log) < MaxLog
    /\ Whole(Last(log))
    /\ log' = Append(log, StepOf(h, r))

AuditInit == \E s \in FirstSteps : log = <<s>>
AuditNext == \E h \in Happenings, r \in Revisions : Record(h, r)
AuditSpec == AuditInit /\ [][AuditNext]_log

--------------------------------------------------------------------------------
\* What a log carries, and what it means when it carries nothing.

Carries(s, f) == f \in DOMAIN s

\* (a careless edition: the step physically before, whoever it is about)
Before_physical(t, i) ==
    LET earlier == {j \in DOMAIN t : j < i} IN IF earlier = {} THEN t[1] ELSE t[Max(earlier)]

\* The step before this one on its own revision, the initial state when there is none.
Before(t, i) ==
    LET own == {j \in DOMAIN t \ {1} : j < i /\ t[j].revision = t[i].revision}
    IN  IF own = {} THEN t[1] ELSE t[Max(own)]

Once(t, i, Phi(_)) == \E j \in DOMAIN t : j < i /\ Phi(t[j])
OnceNow(t, i, Phi(_)) == \E j \in DOMAIN t : j <= i /\ Phi(t[j])

NodesIn(s, states) == {n \in DOMAIN s.node_states : s.node_states[n] \in states}
Unapproved(s) == DOMAIN s.node_states \ NodesIn(s, {"NodeApproved", "Removed"})
Removed(s) == NodesIn(s, {"Removed"})
Held(s) == {n \in NodesIn(s, {"NodeRecovery"}) :
                n \notin DOMAIN s.retry_budget_left \/ ~s.retry_budget_left[n]}
MissingEnvelope(s) ==
    (ENVELOPE \union (IF s.event \in SIDE_EFFECTING THEN {"idempotency_key"} ELSE {})) \ s.envelope

StateNamesKnown(s) ==
    /\ Carries(s, "course_state") => s.course_state \in REVISION_STATES
    /\ Carries(s, "node_states") => \A n \in DOMAIN s.node_states : s.node_states[n] \in NODE_STATES
    /\ Carries(s, "revision_states") =>
           \A r \in DOMAIN s.revision_states : s.revision_states[r] \in REVISION_STATES

\* A log that fails here is never walked.
WellFormed(t) ==
    /\ t # <<>>
    /\ \A i \in DOMAIN t :
           /\ t[i].event \in EVENTS
           /\ (t[i].event = INITIAL) <=> (i = 1)
           /\ DOMAIN t[i] \subseteq StateFields \union PayloadFields \union {"event", "envelope"}
           /\ StateNamesKnown(t[i])

--------------------------------------------------------------------------------
\* The walks.  A walk that needs a fact the step does not carry refuses the log.

I1(t) == \A i \in DOMAIN t : t[i].event = "NodeGenerated" =>
    LET b == Before(t, i) IN Carries(b, "course_state") /\ b.course_state = "ContentInProgress"

ExamGenerated(s) ==
    s.event = "NodeGenerated" /\ Carries(s, "node_type") /\ s.node_type = "exam"

I2(t) == \A i \in DOMAIN t \ {1} : ExamGenerated(t[i]) =>
    /\ Carries(t[i], "topics")
    /\ Carries(Before(t, i), "approved_nodes")
    /\ t[i].topics \subseteq Before(t, i).approved_nodes

IsPublished(s) == Carries(s, "course_state") /\ s.course_state = "Published"

I3(t) == \A i \in DOMAIN t : IsPublished(t[i]) =>
    /\ Carries(t[i], "node_states") /\ Unapproved(t[i]) = {}
    /\ Carries(t[i], "stale_nodes") /\ t[i].stale_nodes = {}

I4(t) == \A i \in DOMAIN t : t[i].event = "NodeEdited" =>
    /\ Carries(t[i], "node") /\ Carries(t[i], "node_states")
    /\ t[i].node \in NodesIn(t[i], {"NeedsRevalidation"})

\* No outline yet is "none": a committed one is a set.
CommittedWithout(s, n) ==
    Carries(s, "committed_outline") /\ s.committed_outline # {"none"} /\ n \notin s.committed_outline

I5(t) == \A i \in DOMAIN t \ {1} :
    /\ Carries(t[i], "node_states") /\ Carries(Before(t, i), "node_states")
    /\ \A n \in Removed(t[i]) \ Removed(Before(t, i)) :
           OnceNow(t, i, LAMBDA s : CommittedWithout(s, n))

\* A verdict for the artifact, whichever way it went.
ScreenedArtifact(s, n) == s.event = "GuardrailVerdict" /\ Carries(s, "artifact") /\ s.artifact = n

I6(t) == \A i \in DOMAIN t \ {1} :
    /\ Carries(t[i], "node_states") /\ Carries(Before(t, i), "node_states")
    /\ \A n \in NodesIn(t[i], ADMITTED) \ NodesIn(Before(t, i), ADMITTED) :
           OnceNow(t, i, LAMBDA s : ScreenedArtifact(s, n))

VersionStands(t, stamp, current) == \A i \in DOMAIN t : IsPublished(t[i]) =>
    LET s == t[i]
    IN  /\ Carries(s, stamp) /\ Carries(s, current)
        /\ \/ s[stamp] = s[current]
           \/ Carries(s, "stale_nodes") /\ s.stale_nodes # {}
           \/ Carries(s, "stale_nodes") /\ Carries(s, "affected") /\ ~s.affected

I7(t) == VersionStands(t, "policy_version", "current_policy_version")
I15(t) == VersionStands(t, "guardrail_version", "current_guardrail_version")

Listed(s, f) == IF Carries(s, f) THEN s[f] ELSE {}

I8(t) == \A i \in DOMAIN t \ {1} :
    \A n \in Listed(t[i], "used_restricted") \ Listed(Before(t, i), "used_restricted") :
        OnceNow(t, i, LAMBDA s : n \in Listed(s, "permission_checked"))

I9(t) == \A i \in DOMAIN t \ {1} : MissingEnvelope(t[i]) = {}

I10(t) == \A i \in DOMAIN t : t[i].event = "NodeEdited" =>
    ~OnceNow(t, i, LAMBDA s : IsPublished(s) /\ s.revision = t[i].revision)

Serves(s, r) == Carries(s, "live_pointer") /\ s.live_pointer = r

\* (a careless edition: a superseded revision may be served)
I11_superseded(t) == \A i \in DOMAIN t : \A r \in Revisions : Serves(t[i], r) =>
    /\ Carries(t[i], "revision_states") /\ r \in DOMAIN t[i].revision_states
    /\ t[i].revision_states[r] \in SERVABLE \union {"Superseded"}

I11(t) == \A i \in DOMAIN t : \A r \in Revisions : Serves(t[i], r) =>
    /\ Carries(t[i], "revision_states") /\ r \in DOMAIN t[i].revision_states
    /\ t[i].revision_states[r] \in SERVABLE

StandsSuperseded(s, r) ==
    Carries(s, "revision_states") /\ r \in DOMAIN s.revision_states /\ s.revision_states[r] = "Superseded"

I12(t) == \A i \in DOMAIN t \ {1} : \A r \in Revisions :
    StandsSuperseded(t[i], r) /\ ~StandsSuperseded(t[i - 1], r) =>
        /\ ~Serves(t[i], r)
        /\ Once(t, i, LAMBDA s : Serves(s, r))

I13(t) == \A i \in DOMAIN t : Carries(t[i], "rolled_back_to") =>
    Once(t, i, LAMBDA s : t[i].rolled_back_to \in Listed(s, "re_verified"))

I14(t) == \A i \in DOMAIN t : Carries(t[i], "node_states") =>
    /\ Carries(t[i], "retry_budget_left")
    /\ Held(t[i]) # {} => Carries(t[i], "course_state") /\ t[i].course_state # "ContentInProgress"

--------------------------------------------------------------------------------
\* The walks that ask about one revision, and the ones that ask who is served.
OfOneRevision(t) ==
    /\ I1(t) /\ I2(t) /\ I3(t) /\ I4(t) /\ I5(t) /\ I6(t) /\ I7(t)
    /\ I8(t) /\ I9(t) /\ I10(t) /\ I14(t) /\ I15(t)
OfTheCourse(t) == I11(t) /\ I12(t) /\ I13(t)

\* The engine accepts a run when its shape is right and no walk refuses it.
Accepted(t) == WellFormed(t) /\ OfOneRevision(t) /\ OfTheCourse(t)

\* A revision's own log: the initial state and its steps, each in its place.
Own(t, r) == [i \in {i \in DOMAIN t : i = 1 \/ t[i].revision = r} |-> t[i]]

\* One log holds every revision, and a step of one must not make another look
\* guilty: a log every one of whose revisions is clean by itself is clean.  The
\* walks that only look back on their own revision say the same both ways; the
\* three that look for evidence anywhere (I5, I6, I8) may be content with another
\* revision's, so for them it is one way only.
EachRevisionOnItsOwn ==
    /\ (\A r \in Revisions : OfOneRevision(Own(log, r))) => OfOneRevision(log)
    /\ OfOneRevision(log) =>
           \A r \in Revisions :
               LET t == Own(log, r)
               IN  I1(t) /\ I2(t) /\ I3(t) /\ I4(t) /\ I7(t) /\ I9(t) /\ I10(t) /\ I14(t) /\ I15(t)

\* In an accepted run a superseded revision was once on air, is off air at every
\* step it stands superseded at, and comes back on air as a roll-back only after
\* it was verified anew.
SupersededWasServed ==
    Accepted(log) =>
        \A i \in DOMAIN log : \A r \in Revisions :
            /\ StandsSuperseded(log[i], r) =>
                   /\ ~Serves(log[i], r)
                   /\ \E j \in 1..i : Serves(log[j], r) \/ (j = 1 /\ StandsSuperseded(log[j], r))
            /\ Carries(log[i], "rolled_back_to") /\ log[i].rolled_back_to = r =>
                   \E j \in 1..(i - 1) : r \in Listed(log[j], "re_verified")
=============================================================================
