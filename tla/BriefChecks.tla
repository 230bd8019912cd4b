------------------------------- MODULE BriefChecks -------------------------------
(* The two engines that refuse by naming things: the policy (engines/opa), whose *)
(* refusal is the rules that denied, and the sums (engines/z3), whose refusal is *)
(* the requirements that cannot hold together.  A question is put, and answered. *)
(*                                                                              *)
(* A number that may be left unsaid is a set: empty, or of the number said.      *)
EXTENDS Naturals, FiniteSets

CONSTANTS
    Top,              \* the largest number a question may state
    Limit,            \* max_nodes_per_course, and the other two, as the sums read them
    PerBlock,         \* minutes_per_block
    PerMinute,        \* min_words_per_minute
    Teams,
    People,           \* who may sign: person -> the role they hold
    Questions         \* what may be asked

ASSUME NumbersAssumption == {Top, Limit, PerBlock, PerMinute} \subseteq Nat

Numbers == 0..Top
Stated(m) == m # {}
SaidOnce(m) == \A j, k \in m : j = k

\* What can be asked: a number is a number, and said once.
ASSUME QuestionsAssumption ==
    \A q \in Questions :
        /\ q.of \in {"policy", "brief", "node"}
        /\ q.of = "policy" =>
               /\ q.count \in Nat /\ q.limit \subseteq Nat /\ q.minimum \subseteq Nat
               /\ SaidOnce(q.limit) /\ SaidOnce(q.minimum)
               /\ IsFiniteSet(q.signatures) /\ q.wellFormed \in BOOLEAN
        /\ q.of = "brief" =>
               \A m \in {q.requested, q.listed, q.minutes, q.audience} : m \subseteq Numbers /\ SaidOnce(m)

VARIABLES question, answer

checkVars == <<question, answer>>

NotAsked == [ok |-> FALSE, named |-> {}, asked |-> FALSE]
Allowed == [ok |-> TRUE, named |-> {}, asked |-> TRUE]
Refused(names) == [ok |-> FALSE, named |-> names, asked |-> TRUE]

--------------------------------------------------------------------------------
\* The policy: what it allows, and what it denies.

AUTHORING == {"submit_brief", "generate_outline", "generate_node"}
Admins == {"training-administrator"}
Authors == Admins \union {"course-author"}
PERSON_ACTS == [approve_node |-> Authors, publish_revision |-> Admins, withdraw_revision |-> Admins,
                archive_revision |-> Admins, notify_learners |-> Admins]
SYSTEM_ACTS == {"admit_to_revision", "move_live_pointer", "retrieve_sources"}
KNOWN == AUTHORING \union DOMAIN PERSON_ACTS \union SYSTEM_ACTS \union {"grant_approval"}

AudiencePermitted(q) == q.audience # {} /\ q.audience \subseteq q.grants
WithinLimits(q) == \E m \in q.limit : q.count <= m
StatePermits(q) == q.action = "generate_node" => q.state = "ContentInProgress"

ByPerson(q) == q.action \in DOMAIN PERSON_ACTS /\ q.kind = "person"
AudienceQuestion(q) == q.action \in AUTHORING \/ ByPerson(q)

ValidSignatures(q) == {s \in q.signatures : s.actor \in DOMAIN People /\ People[s.actor] = s.role}
Signers(q) == {s.actor : s \in ValidSignatures(q)}
RolesUnstated(q) == q.roles = {}
MinimumUnstated(q) == ~\E m \in q.minimum : m >= 1

ApprovalChainSatisfied(q) ==
    /\ q.wellFormed
    /\ ~RolesUnstated(q) /\ ~MinimumUnstated(q)
    /\ q.roles \subseteq {s.role : s \in ValidSignatures(q)}
    /\ \A m \in q.minimum : Cardinality(Signers(q)) >= m
    /\ q.signatures = ValidSignatures(q)

PolicyAllows(q) ==
    \/ ByPerson(q) /\ q.role \in PERSON_ACTS[q.action] /\ AudiencePermitted(q)
    \/ q.action \in SYSTEM_ACTS /\ q.kind = "system"
    \/ q.action \in AUTHORING /\ q.role \in Authors
       /\ AudiencePermitted(q) /\ WithinLimits(q) /\ StatePermits(q)
    \/ q.action = "grant_approval" /\ ApprovalChainSatisfied(q)

ChainDenied(q) ==
    \/ ~q.wellFormed
    \/ q.wellFormed /\ ~(q.roles \subseteq {s.role : s \in ValidSignatures(q)})
    \/ q.wellFormed /\ \E m \in q.minimum : Cardinality(Signers(q)) < m
    \/ MinimumUnstated(q)
    \/ q.wellFormed /\ q.signatures # ValidSignatures(q)
    \/ RolesUnstated(q)

PolicyDenies(q) ==
    {rule \in {"known_role", "person_only", "system_only", "audience_permitted", "within_limits",
               "state_permits", "known_action", "approval_chain_satisfied"} :
        \/ rule = "known_role" /\ ByPerson(q) /\ q.role \notin PERSON_ACTS[q.action]
        \/ rule = "known_role" /\ q.action \in AUTHORING /\ q.role \notin Authors
        \/ rule = "person_only" /\ q.action \in DOMAIN PERSON_ACTS /\ q.kind # "person"
        \/ rule = "system_only" /\ q.action \in SYSTEM_ACTS /\ q.kind # "system"
        \/ rule = "audience_permitted" /\ AudienceQuestion(q) /\ ~(q.audience \subseteq q.grants)
        \/ rule = "audience_permitted" /\ AudienceQuestion(q) /\ q.audience = {}
        \/ rule = "within_limits" /\ q.action \in AUTHORING /\ \E m \in q.limit : q.count > m
        \/ rule = "within_limits" /\ q.action \in AUTHORING /\ q.limit = {}
        \/ rule = "state_permits" /\ ~StatePermits(q)
        \/ rule = "known_action" /\ q.action \notin KNOWN
        \/ rule = "approval_chain_satisfied" /\ q.action = "grant_approval" /\ ChainDenied(q)}

\* Whether it is allowed is asked first, and the rules that denied only if it is
\* not: a refusal no rule names is the caller's to raise, never a verdict.
PolicyAnswers(q) == {IF PolicyAllows(q) THEN Allowed ELSE Refused(PolicyDenies(q))}

--------------------------------------------------------------------------------
\* The sums: named claims, each about one quantity, as the values that satisfy it.

Claim(about, values) == [about |-> about, values |-> values]
AtMost(n) == {v \in Numbers : v <= n}
Positive == {v \in Numbers : v > 0}

\* A set of claims can hold together: one quantity at a time.
Satisfiable(claims, names) ==
    \A about \in {claims[n].about : n \in names} :
        \E v \in Numbers : \A n \in names : claims[n].about = about => v \in claims[n].values

\* The solver names some claims that cannot hold together, not all of them, and
\* not always the fewest.
Cores(claims, names) == {core \in SUBSET names : ~Satisfiable(claims, core)}

When(condition, claims) == IF condition THEN claims ELSE <<>>
Both(f, g) == [n \in DOMAIN f \union DOMAIN g |-> IF n \in DOMAIN f THEN f[n] ELSE g[n]]

\* (a careless edition: a count of none is no count)
Says_truthy(m) == Stated(m) /\ m # {0}
\* None is a gap; a zero is an answer.
Says(m) == Stated(m)

Unstated(b) ==
    {gap \in {"nodes", "minutes", "audience"} :
        \/ gap = "nodes" /\ ~Stated(b.requested) /\ ~Stated(b.listed)
        \/ gap = "minutes" /\ ~Stated(b.minutes)
        \/ gap = "audience" /\ ~Stated(b.audience)}

constraint_groups(b) ==
    Both([max_nodes_per_course |-> Claim("nodes", AtMost(Limit)),
          a_course_has_at_least_one_node |-> Claim("nodes", Positive),
          minutes_per_lesson |-> Claim("minutes", b.minutes),
          max_minutes_per_lesson |-> Claim("minutes", AtMost(Limit)),
          a_lesson_has_positive_length |-> Claim("minutes", Positive),
          audience_breadth |-> Claim("audience", b.audience),
          max_audience_breadth |-> Claim("audience", AtMost(Limit))],
         Both(When(Says(b.requested), [requested_nodes |-> Claim("nodes", b.requested)]),
              When(Stated(b.listed), [nodes_the_brief_lists |-> Claim("nodes", b.listed)])))

Group(claims, about) == {n \in DOMAIN claims : claims[n].about = about}

\* A group at a time: a core of every group that is in conflict.
BriefAnswers(b) ==
    IF Unstated(b) # {} THEN {Refused(Unstated(b))}
    ELSE LET claims == constraint_groups(b)
             Named(g) == IF Satisfiable(claims, Group(claims, g)) THEN {{}} ELSE Cores(claims, Group(claims, g))
         IN  {IF core = {} THEN Allowed ELSE Refused(core) :
                  core \in {n \union m \union a : n \in Named("nodes"), m \in Named("minutes"), a \in Named("audience")}}

\* A node's numbers.  An exam's questions are its quiz blocks; a lesson's words
\* are counted against its own minutes and the brief's, whichever is more.
IsExam(n) == n.type = "exam"
Questioned(n) == IsExam(n) \/ n.points # {}

HalfSaid(n) ==
    {half \in {"points_total", "questions", "minutes"} :
        \/ half = "points_total" /\ Questioned(n) /\ ~Stated(n.total)
        \/ half = "questions" /\ Stated(n.total) /\ ~Questioned(n)
        \/ half = "minutes" /\ Stated(n.blocks) /\ ~Stated(n.minutes)}

Floor(n) == CHOOSE m \in n.minutes \union n.lesson : \A k \in n.minutes \union n.lesson : m >= k
WordsNeeded(n) == {v \in Numbers : v >= PerMinute * Floor(n)}

NodeClaims(n) ==
    Both(When(Questioned(n),
              [points_total_is_as_stated |-> Claim("points", n.total),
               points_sum_to_the_total |-> Claim("points", n.points),
               an_exam_is_worth_something |-> Claim("points", Positive)]),
         When(Stated(n.blocks),
              Both([duration_is_as_stated |-> Claim("minutes", n.minutes),
                    a_node_takes_time |-> Claim("minutes", Positive)],
                   Both(When(PerBlock > 0,
                             [duration_matches_the_block_count |->
                                  Claim("minutes", {v \in Numbers : \E k \in n.blocks : v = PerBlock * k})]),
                        When(PerMinute > 0 /\ ~IsExam(n),
                             [words_are_as_written |-> Claim("words", n.words),
                              enough_words_for_the_minutes |-> Claim("words", WordsNeeded(n))])))))

\* What is half said is refused first, then what is not a whole number, then the sums.
NodeAnswers(n) ==
    IF HalfSaid(n) # {} THEN {Refused(HalfSaid(n))}
    ELSE IF n.notIntegers # {} THEN {Refused(n.notIntegers)}
    ELSE LET claims == NodeClaims(n)
         IN  IF Satisfiable(claims, DOMAIN claims) THEN {Allowed}
             ELSE {Refused(core) : core \in Cores(claims, DOMAIN claims)}

--------------------------------------------------------------------------------
Answers(q) ==
    IF q.of = "policy" THEN PolicyAnswers(q)
    ELSE IF q.of = "brief" THEN BriefAnswers(q) ELSE NodeAnswers(q)

ChecksInit == question \in Questions /\ answer = NotAsked
Ask == ~answer.asked /\ answer' \in Answers(question) /\ UNCHANGED question
ChecksSpec == ChecksInit /\ [][Ask]_checkVars

--------------------------------------------------------------------------------
\* The requirements of a brief, read off the brief: some course would meet them.
Meets(b, nodes, minutes, breadth) ==
    /\ nodes \in 1..Limit /\ minutes \in 1..Limit /\ breadth <= Limit
    /\ \A k \in b.requested \union b.listed : nodes = k
    /\ \A k \in b.minutes : minutes = k
    /\ \A k \in b.audience : breadth = k

\* A refusal names its cause, and only a refusal does.  The policy never refuses
\* without a rule that denied, nor allows what one denies.  The sums pass what is
\* said in full and can hold together, although no two quantities are ever
\* solved at once; what they name cannot hold together, and in a brief every
\* quantity in conflict is among what is named.
RefusalNamesItsCause ==
    answer.asked =>
        /\ answer.ok <=> answer.named = {}
        /\ question.of = "policy" => (answer.ok <=> PolicyDenies(question) = {})
        /\ question.of = "brief" =>
               /\ answer.ok <=>
                      /\ Unstated(question) = {}
                      /\ \E nodes, minutes, breadth \in Numbers : Meets(question, nodes, minutes, breadth)
               /\ ~answer.ok /\ Unstated(question) = {} =>
                      LET claims == constraint_groups(question)
                      IN  \A g \in {"nodes", "minutes", "audience"} :
                              ~Satisfiable(claims, Group(claims, g)) <=>
                                  ~Satisfiable(claims, answer.named \intersect Group(claims, g))
        /\ question.of = "node" /\ ~answer.ok /\ HalfSaid(question) = {} /\ question.notIntegers = {} =>
               ~Satisfiable(NodeClaims(question), answer.named)
=============================================================================
