------------------------------- MODULE NodeWork -------------------------------
(***************************************************************************)
(* The gateway at work on the nodes of a draft: gateway/pipeline.py's       *)
(* generate_node, screen_node and screen_waiting, the membrane's request    *)
(* they go through, and the editor's buttons (ui/session.py), over the      *)
(* machine of CourseDraft.                                                  *)
(*                                                                         *)
(* One act is served at a time (ui/server.py, LOCK).  A provider's call is  *)
(* two steps, asked and answered: in between, and between two acts, the     *)
(* course may move (an edit, a rule change, an outline taken up again), but *)
(* nothing else goes through the membrane.                                 *)
(*                                                                         *)
(* An idempotency key is a digest of the action, its arguments and its      *)
(* subject (gateway/action_subject.py); the subject holds counts that only  *)
(* grow.  What the properties need of it is whether the key an act would    *)
(* have now was issued or landed before, so that is what is kept: the       *)
(* answer goes back to "never" when one of the counts in the key goes up.   *)
(***************************************************************************)
EXTENDS CourseDraft

CONSTANTS RateLimit    \* Membrane.rate_limit: a person's actions in a window

ASSUME RateLimitAssumption == RateLimit \in Nat \ {0}

VARIABLES
    job,      \* what the gateway is doing: a button's procedure, where it stands
    call,     \* the provider's call in flight
    serving,  \* the guardrail version the service answers as
    spent,    \* the author's actions in the window, as far as the limit
    asked,    \* of each node's present generation key: never, issued or landed
    landed,   \* which of each node's present admission and approval keys landed
    refused,  \* whether the last act ended in a refusal or with its gateway
    \* History, read by no action:
    owed,     \* the node's last generation call brought nothing to the course
    paid      \* generation calls of the present act

gateway == <<job, call, serving, spent, asked, landed, refused, owed, paid>>
workVars == <<vars, gateway>>

Doing == {"idle", "generate", "wrote", "screen", "screened"}
Jobs == [doing: Doing, node: Node, left: 0..Budget + 1, then: {"generate", "next"}, rest: SUBSET Node]
Idle == [doing |-> "idle", node |-> 1, left |-> 0, then |-> "next", rest |-> {}]

WorkTypeOK ==
    /\ job \in Jobs
    /\ call \in {"none", "model", "screener"}
    /\ serving \in Versions
    /\ spent \in 0..RateLimit
    /\ asked \in [Node -> {"never", "issued", "landed"}]
    /\ landed \in [Node -> SUBSET {"admit", "approve"}]
    /\ refused \in BOOLEAN
    /\ owed \in [Node -> BOOLEAN]
    /\ paid \in 0..Budget + 2

WorkInit ==
    /\ Init
    /\ job = Idle
    /\ call = "none"
    /\ serving = current
    /\ spent = 0
    /\ asked = [n \in Node |-> "never"]
    /\ landed = [n \in Node |-> {}]
    /\ refused = FALSE
    /\ owed = [n \in Node |-> FALSE]
    /\ paid = 0

-----------------------------------------------------------------------------
(* The idempotency key's subject                                            *)

\* (a careless edition: a retry out of recovery counts as a new draft)
NewDraft_anyEntry(n) == st'[n] = "ContentDrafting" /\ st[n] # "ContentDrafting"
\* entries: the node was sent to be drafted, other than back from recovery.
NewDraft(n) == st'[n] = "ContentDrafting" /\ st[n] \notin {"ContentDrafting", "NodeRecovery"}

\* (a careless edition: only new content waiting for its screening counts)
NewRound_screening(n) == st'[n] # st[n] /\ st'[n] = "OutputGuardrail"
\* rounds: the node entered a state where it waits to be judged afresh.
NewRound(n) == st'[n] # st[n] /\ st'[n] \in {"OutputGuardrail", "NeedsRevalidation"}

\* What every step does to the present keys, a and l being what the step itself
\* says of them.
Keys(a, l) ==
    /\ asked' = [n \in Node |-> IF NewDraft(n) THEN "never" ELSE a[n]]
    /\ landed' = [n \in Node |-> IF NewRound(n) THEN {} ELSE l[n]]

Owes(o) ==
    owed' = [n \in Node |-> o[n] /\ st'[n] \in {"ContentDrafting", "NodeRecovery"}]

KeysStay == Keys(asked, landed) /\ Owes(owed)

-----------------------------------------------------------------------------
(* The membrane                                                             *)

\* Free: no act is being served.  Mid: a provider is being asked.
Free == job.doing = "idle"
Mid == call # "none"
\* The machine has settled: a revision that was closed has nothing to settle.
Settled == Quiet \/ ~IsDraft
\* The thread goes on once the machine has settled and the provider answered.
Runs(doing) == job.doing = doing /\ ~Mid /\ Settled

WithinRate_orAt == spent <= RateLimit   \* (a careless edition)
WithinRate == spent < RateLimit
Spend == spent' = spent + 1

Returns(r) == job' = Idle /\ refused' = r

\* permits: would the event find a row now?
MayGenerate(n) == st[n] = "ContentDrafting" /\ AtWork /\ TopicsStand(n)
MayAdmit(n) == st[n] = "OutputGuardrail" /\ AtWork

-----------------------------------------------------------------------------
(* Generating a node                                                        *)

Screening(n, then, rest) ==
    [doing |-> "screen", node |-> n, left |-> Budget + 1, then |-> then, rest |-> rest]
Generating(n) ==
    [doing |-> "generate", node |-> n, left |-> 0, then |-> "generate", rest |-> {}]

\* The Generate button.  A node already written only needs its screening.
Generate(n) ==
    /\ Free /\ Quiet
    /\ \/ /\ st[n] = "OutputGuardrail"
          /\ job' = Screening(n, "next", {})
          /\ UNCHANGED vars
       \/ /\ NodeGenerationRequested(n)
          /\ job' = Generating(n)
       \/ /\ st[n] = "ContentDrafting"
          /\ job' = Generating(n)
          /\ UNCHANGED vars
    /\ paid' = 0
    /\ refused' = FALSE
    /\ KeysStay
    /\ UNCHANGED <<call, serving, spent>>

\* The head of generate_node's loop: the node was left by its last turn, the
\* membrane refuses, or the model is asked.
AskModel ==
    LET n == job.node IN
    /\ Runs("generate")
    /\ UNCHANGED <<vars, serving>>
    /\ \/ /\ st[n] # "ContentDrafting"
          /\ Returns(FALSE)
          /\ UNCHANGED <<call, spent, paid>> /\ KeysStay
       \/ /\ st[n] = "ContentDrafting"
          /\ asked[n] = "landed" \/ ~MayGenerate(n) \/ ~WithinRate
          /\ Returns(TRUE)
          /\ UNCHANGED <<call, spent, paid>> /\ KeysStay
       \/ /\ asked[n] # "landed" /\ MayGenerate(n) /\ WithinRate
          /\ call' = "model"
          /\ Spend
          /\ paid' = IF paid <= Budget + 1 THEN paid + 1 ELSE paid
          /\ Keys([asked EXCEPT ![n] = "issued"], landed)
          /\ Owes([owed EXCEPT ![n] = TRUE])
          /\ UNCHANGED <<job, refused>>

\* The answer lands, or the course moved meanwhile and it does not: it was paid
\* for, the key stays unused and the act ends.
ModelAnswers ==
    LET n == job.node IN
    /\ call = "model"
    /\ call' = "none"
    /\ \/ /\ NodeGenerated(n)
          /\ job' = [job EXCEPT !.doing = "wrote"]
          /\ Keys([asked EXCEPT ![n] = "landed"], landed)
          /\ Owes([owed EXCEPT ![n] = FALSE])
          /\ UNCHANGED refused
       \/ /\ Settled /\ ~MayGenerate(n)
          /\ Returns(FALSE)
          /\ UNCHANGED vars /\ KeysStay
    /\ UNCHANGED <<serving, spent, paid>>

\* No answer is a Timeout, an answer in the wrong shape a ModelError, and that
\* one is counted in the key: it was an answer.  An event the machine has no row
\* for any more ends the act.
ModelFails_sameKey(malformed) ==   \* (a careless edition)
    LET n == job.node IN
    /\ call = "model"
    /\ call' = "none"
    /\ \/ /\ st[n] = "ContentDrafting"
          /\ Timeout(n) /\ op'[n] # "landed"
          /\ Keys(asked, landed)
          /\ Owes([owed EXCEPT ![n] = ~malformed])
          /\ UNCHANGED <<job, refused>>
       \/ /\ Settled /\ ~(IsDraft /\ st[n] = "ContentDrafting")
          /\ Returns(TRUE)
          /\ UNCHANGED vars /\ KeysStay
    /\ UNCHANGED <<serving, spent, paid>>

ModelFails(malformed) ==
    LET n == job.node IN
    /\ call = "model"
    /\ call' = "none"
    /\ \/ /\ st[n] = "ContentDrafting"
          /\ Timeout(n) /\ op'[n] # "landed"
          /\ Keys([asked EXCEPT ![n] = IF malformed THEN "never" ELSE @], landed)
          /\ Owes([owed EXCEPT ![n] = ~malformed])
          /\ UNCHANGED <<job, refused>>
       \/ /\ Settled /\ ~(IsDraft /\ st[n] = "ContentDrafting")
          /\ Returns(TRUE)
          /\ UNCHANGED vars /\ KeysStay
    /\ UNCHANGED <<serving, spent, paid>>

\* Written: the node is screened before the loop looks at it again.
Written ==
    /\ Runs("wrote")
    /\ job' = IF st[job.node] = "OutputGuardrail"
              THEN Screening(job.node, "generate", {})
              ELSE [job EXCEPT !.doing = "generate"]
    /\ UNCHANGED <<vars, call, serving, spent, asked, landed, refused, owed, paid>>

-----------------------------------------------------------------------------
(* Screening a node                                                         *)

\* screen_waiting: every node of the draft that waits for a verdict, as the
\* list stood when the act began.
ScreenWaiting ==
    LET waitingNow == {n \in Node : st[n] = "OutputGuardrail"}
        first == CHOOSE n \in waitingNow : \A m \in waitingNow : n <= m
    IN
    /\ Free /\ Quiet
    /\ AtWork /\ waitingNow # {}
    /\ job' = Screening(first, "next", waitingNow \ {first})
    /\ refused' = FALSE
    /\ paid' = 0
    /\ UNCHANGED <<vars, call, serving, spent, asked, landed, owed>>

\* Where a screening returns to: the generation it was part of, the next node
\* waiting, or the end of the act.
ScreeningEnds ==
    IF job.then = "generate" THEN job' = Generating(job.node) /\ UNCHANGED refused
    ELSE IF job.rest = {} THEN Returns(FALSE)
    ELSE LET next == CHOOSE n \in job.rest : \A m \in job.rest : n <= m IN
            job' = Screening(next, "next", job.rest \ {next}) /\ UNCHANGED refused

\* _admit: the screener is asked, the node was admitted already, it waits for the
\* course to be back at work, or the membrane's refusal is raised.  Admission is
\* not under the rate limit.
AskScreener ==
    LET n == job.node IN
    /\ Runs("screen")
    /\ \/ /\ "admit" \notin landed[n] /\ MayAdmit(n)
          /\ call' = "screener"
          /\ UNCHANGED <<job, refused>>
       \/ /\ "admit" \in landed[n] \/ (~MayAdmit(n) /\ ~AtWork)
          /\ ScreeningEnds
          /\ UNCHANGED call
       \/ /\ "admit" \notin landed[n] /\ ~MayAdmit(n) /\ AtWork
          /\ Returns(TRUE)
          /\ UNCHANGED call
    /\ UNCHANGED <<vars, serving, spent, asked, landed, owed, paid>>

\* A verdict of the version in force is landed; of any other, it is no answer.
ScreenerAnswers ==
    LET n == job.node IN
    /\ call = "screener" /\ serving = current
    /\ call' = "none"
    /\ \/ /\ GuardrailVerdict(n)
          /\ job' = [job EXCEPT !.doing = "screened"]
          /\ Keys(asked, [landed EXCEPT ![n] = @ \cup {"admit"}])
          /\ Owes(owed)
          /\ UNCHANGED refused
       \/ /\ Settled /\ ~MayAdmit(n)
          /\ IF AtWork THEN Returns(TRUE) ELSE ScreeningEnds
          /\ UNCHANGED vars /\ KeysStay
    /\ UNCHANGED <<serving, spent, paid>>

ScreenerFails ==
    LET n == job.node IN
    /\ call = "screener"
    /\ call' = "none"
    /\ \/ /\ st[n] = "OutputGuardrail"
          /\ Timeout(n)
          /\ job' = [job EXCEPT !.doing = "screened"]
          /\ KeysStay
          /\ UNCHANGED refused
       \/ /\ Settled /\ ~(IsDraft /\ st[n] = "OutputGuardrail")
          /\ Returns(TRUE)
          /\ UNCHANGED vars /\ KeysStay
    /\ UNCHANGED <<serving, spent, paid>>

\* (a careless edition: a screening that did not answer is not asked again)
Screened_once ==
    /\ Runs("screened")
    /\ ScreeningEnds
    /\ UNCHANGED <<vars, call, serving, spent, asked, landed, owed, paid>>

\* screen_node's loop: asked again while the service leaves the node waiting,
\* as long as the budget lasts.
Screened ==
    /\ Runs("screened")
    /\ IF st[job.node] # "OutputGuardrail" THEN ScreeningEnds
       ELSE IF job.left = 1 THEN Returns(TRUE)
       ELSE job' = [job EXCEPT !.doing = "screen", !.left = @ - 1] /\ UNCHANGED refused
    /\ UNCHANGED <<vars, call, serving, spent, asked, landed, owed, paid>>

-----------------------------------------------------------------------------
(* The other buttons, and what happens round the gateway                     *)

\* approve_node: once its key has landed, a repeat is already done.
Approve(n) ==
    /\ Free
    /\ "approve" \notin landed[n] /\ WithinRate
    /\ NodeApproved(n)
    /\ Spend
    /\ Keys(asked, [landed EXCEPT ![n] = @ \cup {"approve"}])
    /\ Owes(owed)
    /\ UNCHANGED <<job, call, serving, refused, paid>>

Aside == KeysStay /\ UNCHANGED <<job, call, serving, spent, refused, paid>>

Reject(n) == Free /\ NodeRejected(n) /\ Aside
Release == Free /\ BlockedInputFixed(Known) /\ Aside

\* What may reach the machine while a provider is being asked, too.
Outside ==
    /\ Free \/ Mid
    /\ \/ \E n \in Node : NodeEdited(n)
       \/ \E to \in Versions : ConfigChanged(to)
       \/ OutlineRevised \/ OutlineRejected
    /\ Aside

Settles ==
    /\ \/ \E n \in Node : NodeSettles(n)
       \/ WholeCourseChecked
    /\ Aside

\* The replaced guardrail version goes on answering until the rollout is done.
ServiceRollsOut ==
    /\ serving # current
    /\ serving' = current
    /\ UNCHANGED <<vars, job, call, spent, asked, landed, refused, owed, paid>>

WindowPasses ==
    /\ spent > 0
    /\ spent' = 0
    /\ UNCHANGED <<vars, job, call, serving, asked, landed, refused, owed, paid>>

\* The gateway is restarted over the same machine: the act it served and the
\* window are forgotten, what landed is the store's.
Restart ==
    /\ ~Free
    /\ Returns(TRUE)
    /\ call' = "none"
    /\ spent' = 0
    /\ UNCHANGED <<vars, serving, asked, landed, owed, paid>>

Thread == AskModel \/ Written \/ AskScreener \/ Screened
Answer == ModelAnswers \/ (\E malformed \in BOOLEAN : ModelFails(malformed))
          \/ ScreenerAnswers \/ ScreenerFails

WorkNext ==
    \/ \E n \in Node : Generate(n) \/ Approve(n) \/ Reject(n)
    \/ ScreenWaiting \/ Release
    \/ Thread \/ Answer
    \/ Outside \/ Settles
    \/ ServiceRollsOut \/ WindowPasses \/ Restart

WorkSpec == WorkInit /\ [][WorkNext]_workVars

\* The thread that serves an act runs, and the machine settles inside it; a
\* provider's adapter answers or gives up.
WorkFairness ==
    /\ WF_workVars(Thread)
    /\ WF_workVars(Settles)
    /\ WF_workVars(Answer)

FairWork == WorkSpec /\ WorkFairness

-----------------------------------------------------------------------------
(* Properties                                                               *)

\* A generation that brought nothing is asked again under the key it was issued
\* with, whatever happened meanwhile and whoever sent the node back, and every
\* other generation is asked under a key of its own: the provider bills once
\* for what came once (gateway/action_subject.py, subject_of and entries).
KeySaysWhatIsOwed ==
    ~Mid => \A n \in Node :
        st[n] = "ContentDrafting" \/ (st[n] = "NodeRecovery" /\ op[n] = "lost") =>
            asked[n] = IF owed[n] THEN "issued" ELSE "never"

\* What waits to be judged can be: neither a node that waits for its screening
\* nor one that waits for a person is taken for the one already judged
\* (gateway/action_subject.py, rounds).
NewActIsNew ==
    \A n \in Node :
        /\ st[n] = "OutputGuardrail" => "admit" \notin landed[n]
        /\ st[n] = "Validated" => "approve" \notin landed[n]

\* One press of Generate pays for no more calls than the node has retries, and
\* one, though its loop counts nothing (gateway/pipeline.py, generate_node).
PressIsBounded == paid <= Budget + 1

\* An act that ends without a refusal leaves the node it was about with somebody
\* to move it: not waiting for a verdict nobody asks for, unless the course is
\* not at work (gateway/pipeline.py, screen_node).
NotLeftWaiting ==
    [][(~Free /\ (Free' \/ job'.node # job.node) /\ ~refused') =>
        st'[job.node] # "OutputGuardrail" \/ ~AtWork']_workVars

\* A press of any button comes back, while providers fail, answers are refused
\* and the course moves under the act.
EveryPressReturns == ~Free ~> Free
=============================================================================
