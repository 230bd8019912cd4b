------------------------------- MODULE MCEngines -------------------------------
(* The engines' questions over small inputs, each engine on an instance of its   *)
(* own: an initial state says which of them is asked, and the others stand still. *)
EXTENDS Audit, CourseFacts, RowChoice, BriefChecks

VARIABLE asked    \* "audit", "course", "rows" or "sums"

\* A happening that changes nothing, and what the menu changes of it.
Plain == [event |-> "(auto)", node |-> "", nodes |-> <<>>, changes |-> <<>>, state |-> "",
          others |-> "", moves |-> FALSE, verifies |-> FALSE, rollback |-> FALSE,
          lost |-> {}, envelope |-> ENVELOPE \union {"idempotency_key"}]

\* The quiz is an exam whose specification lists no topics.
TopicsListed == "exam" :> {"topic"} @@ "quiz" :> {}

OnNodes ==
    {[Plain EXCEPT !.event = "OutlineApproved", !.state = "ContentInProgress",
                   !.changes = [committed_outline |-> {"topic", "exam"}]],
     [Plain EXCEPT !.event = "NodeGenerated", !.node = "topic", !.nodes = "topic" :> "Generated"],
     [Plain EXCEPT !.event = "NodeGenerated", !.node = "exam", !.nodes = "exam" :> "Generated"],
     [Plain EXCEPT !.event = "NodeGenerated", !.node = "quiz"],
     [Plain EXCEPT !.event = "GuardrailVerdict", !.node = "topic", !.nodes = "topic" :> "NodeChecks"],
     [Plain EXCEPT !.event = "NodeApproved", !.node = "topic", !.nodes = "topic" :> "NodeApproved",
                   !.changes = [approved_nodes |-> {"topic"}]],
     [Plain EXCEPT !.event = "NodeEdited", !.node = "topic", !.nodes = "topic" :> "NeedsRevalidation",
                   !.changes = [approved_nodes |-> {}]],
     [Plain EXCEPT !.event = "OutlineRevised", !.nodes = "topic" :> "Removed",
                   !.changes = [committed_outline |-> {"exam"}, approved_nodes |-> {}]],
     [Plain EXCEPT !.nodes = "topic" :> "Removed"],
     [Plain EXCEPT !.changes = [permission_checked |-> {"topic"}]],
     [Plain EXCEPT !.changes = [used_restricted |-> {"topic"}]],
     [Plain EXCEPT !.event = "Timeout", !.nodes = "topic" :> "NodeRecovery",
                   !.changes = [retry_budget_left |-> "topic" :> FALSE]],
     [Plain EXCEPT !.event = "PublishRequested", !.state = "Published",
                   !.nodes = "topic" :> "NodeApproved" @@ "exam" :> "NodeApproved"],
     [Plain EXCEPT !.event = "GuardrailChanged", !.changes = [current_guardrail_version |-> "v2"]],
     [Plain EXCEPT !.lost = {"stale_nodes", "node_states"}],
     [Plain EXCEPT !.event = "NodeGenerated", !.node = "topic", !.envelope = ENVELOPE \ {"causation_id"}],
     [Plain EXCEPT !.nodes = "topic" :> "Written"]}

OnThePointer ==
    {[Plain EXCEPT !.event = "LivePointerMoved", !.moves = TRUE, !.state = "Published",
                   !.others = "Superseded"],
     [Plain EXCEPT !.event = "LivePointerMoved", !.moves = TRUE, !.state = "Published",
                   !.others = "Superseded", !.rollback = TRUE],
     [Plain EXCEPT !.event = "LivePointerMoved", !.moves = TRUE],
     [Plain EXCEPT !.event = "RollbackRequested", !.state = "StaleReview"],
     [Plain EXCEPT !.state = "Approved", !.verifies = TRUE],
     [Plain EXCEPT !.state = "Superseded"],
     [Plain EXCEPT !.state = "ErrorRecovery"]}

FirstStep(state, node, pointer, others) ==
    [event |-> INITIAL, envelope |-> {}, revision |-> 1, course_state |-> state,
     node_states |-> "topic" :> node @@ "exam" :> "NodeApproved",
     retry_budget_left |-> "topic" :> TRUE, committed_outline |-> {"topic", "exam"},
     approved_nodes |-> {"exam"}, permission_checked |-> {}, used_restricted |-> {},
     stale_nodes |-> {}, affected |-> TRUE, re_verified |-> {},
     guardrail_version |-> "v1", current_guardrail_version |-> "v1",
     policy_version |-> "v1", current_policy_version |-> "v1",
     live_pointer |-> pointer, revision_states |-> 1 :> state @@ 2 :> others]

Menu == OnNodes \union OnThePointer
Starts == {FirstStep("ContentInProgress", "ContentDrafting", 0, "AwaitingBrief"),
           FirstStep("Published", "NodeApproved", 1, "Approved"),
           FirstStep("StaleReview", "NodeApproved", 2, "Published")}


--------------------------------------------------------------------------------
\* Outlines of three items, the third an exam: every one with at most one
\* dependency (in the outline or to what it leaves out), the circles of two, an
\* exam over a topic that refers to another, and two that teach off the brief, one
\* of a skill the catalogue has.
Dependencies == {d \in {"topics", "requires", "refers"} \X Items \X Items : d[2] # d[3]}
OutlineOf(nodes, D, second) ==
    LET Along(kind, n) == {m \in Items : <<kind, n, m>> \in D} IN
    [n \in nodes |->
        [teaches |-> IF n = 3 THEN "none" ELSE IF n = 2 THEN second ELSE "s1",
         topics |-> Along("topics", n), requires |-> Along("requires", n), refers |-> Along("refers", n)]]
SmallOutlines ==
    {OutlineOf(Items, D, "s1") :
        D \in {{}, {<<"topics", 3, 2>>}, {<<"requires", 2, 1>>}, {<<"requires", 1, 2>>},
               {<<"requires", 1, 2>>, <<"requires", 2, 1>>}, {<<"topics", 1, 2>>, <<"topics", 2, 1>>},
               {<<"refers", 1, 2>>}, {<<"topics", 3, 1>>, <<"refers", 1, 2>>}}}
    \union {OutlineOf({1, 3}, D, "s1") : D \in {{}, {<<"refers", 1, 2>>}, {<<"topics", 3, 2>>}}}
    \union {OutlineOf({1, 2}, {}, second) : second \in {"s1", "s2", "s3"}}
OneChunk == {{c} : c \in Chunks}

--------------------------------------------------------------------------------
\* The four (auto) rows of StaleReview.
Named(name) == Literal(name, FALSE)
Verification == <<Named("guardrail_clean"), Named("no_permission_leak"), Named("grounded"),
                  Named("block_schemas_valid"), Named("policy_allows")>>
StaleReview ==
    <<Verification \o <<Literal("lost_live_pointer", TRUE)>>,
      Verification \o <<Named("lost_live_pointer"), Named("rollback_requested")>>,
      Verification \o <<Named("lost_live_pointer"), Literal("rollback_requested", TRUE)>>,
      AnyOfTheAboveFails>>
EngineLiterals == {"no_permission_leak", "grounded", "block_schemas_valid", "policy_allows"}
LiteralNames == EngineLiterals \union {"guardrail_clean", "lost_live_pointer", "rollback_requested"}

\* Every way at most two of them are not as they should be.
NothingAmiss == [l \in LiteralNames |-> "true"]
Amiss == {<<l, "false">> : l \in LiteralNames}
    \union {<<"guardrail_clean", "unknown">>, <<"guardrail_clean", "down">>, <<"grounded", "unavailable">>}
SmallStores == {[[NothingAmiss EXCEPT ![d[1]] = d[2]] EXCEPT ![e[1]] = e[2]] : d \in Amiss, e \in Amiss}

--------------------------------------------------------------------------------
Staff == "ana" :> "training-administrator" @@ "bo" :> "course-author"
Acts ==
    {[of |-> "policy", action |-> a, kind |-> k, role |-> r, audience |-> t, grants |-> g,
      limit |-> m, count |-> c, state |-> s,
      signatures |-> {}, roles |-> {}, minimum |-> {}, wellFormed |-> TRUE] :
        a \in KNOWN \union {"delete_course"}, k \in {"person", "system"},
        r \in Authors \union {"learner"}, t \in SUBSET Teams, g \in SUBSET Teams,
        m \in {{}, {1}}, c \in {1, 2}, s \in {"ContentInProgress", "Published"}}
Signatures == [actor : DOMAIN Staff \union {"eve"}, role : Authors]
Approvals ==
    {[of |-> "policy", action |-> "grant_approval", kind |-> "person", role |-> "training-administrator",
      audience |-> {}, grants |-> {}, limit |-> {1}, count |-> 1, state |-> "PendingApproval",
      signatures |-> x, roles |-> r, minimum |-> m, wellFormed |-> w] :
        x \in SUBSET Signatures, r \in SUBSET Authors, m \in {{}, {0}, {1}, {2}}, w \in BOOLEAN}

Maybe(N) == {{}} \union {{n} : n \in N}
BriefsAsked ==
    {[of |-> "brief", requested |-> r, listed |-> l, minutes |-> m, audience |-> a] :
        r \in Maybe(Numbers), l \in Maybe(Numbers), m \in Maybe({0, 2, 3}), a \in Maybe({1, 3})}
NodesAsked ==
    {[of |-> "node", type |-> t, points |-> p, total |-> o, minutes |-> m, blocks |-> b,
      lesson |-> n, words |-> w, notIntegers |-> x] :
        t \in {"topic", "exam"}, p \in Maybe({0, 2}), o \in Maybe({0, 2, 3}), m \in Maybe({0, 1}),
        b \in Maybe({1, 2}), n \in Maybe({2}), w \in {{1}, {2}}, x \in {{}, {"minutes"}}}
SmallQuestions ==
    Acts \union Approvals \union BriefsAsked \union {n \in NodesAsked : IsExam(n) => n.points # {}}

--------------------------------------------------------------------------------
engineVars == <<log, factVars, choiceVars, checkVars, asked>>

\* Who is not asked starts in one state.
AStep == CHOOSE s \in FirstSteps : TRUE
AnOutline == CHOOSE o \in Outlines : SkillsGrounded(o)
AStore == CHOOSE f \in Stores : TRUE
AQuestion == CHOOSE q \in Questions : TRUE
StandsStill ==
    /\ asked # "audit" => log = <<AStep>>
    /\ asked # "course" => spec = Entries(AnOutline) /\ outline = DOMAIN AnOutline
    /\ asked # "rows" => facts = AStore
    /\ asked # "sums" => question = AQuestion

EnginesInit ==
    /\ asked \in {"audit", "course", "rows", "sums"}
    /\ StandsStill
    /\ AuditInit /\ FactsInit /\ ChoiceInit /\ ChecksInit

EnginesNext ==
    /\ UNCHANGED asked
    /\ \/ asked = "audit" /\ AuditNext /\ UNCHANGED <<factVars, choiceVars, checkVars>>
       \/ asked = "course" /\ FactsNext /\ UNCHANGED <<log, choiceVars, checkVars>>
       \/ asked = "rows" /\ ChoiceNext /\ UNCHANGED <<log, factVars, checkVars>>
       \/ asked = "sums" /\ Ask /\ UNCHANGED <<log, factVars, choiceVars>>

EnginesSpec == EnginesInit /\ [][EnginesNext]_engineVars
=============================================================================
