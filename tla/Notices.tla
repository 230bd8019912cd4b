-------------------------------- MODULE Notices --------------------------------
(***************************************************************************)
(* Notices to the learners of a revision that was published: the consents   *)
(* they go out under (machine/store_guards.py, unspent_consents and         *)
(* _notice_approved; machine/bookkeeping.py, on_event and _spend_consent)   *)
(* and the gateway that sends them (gateway/pipeline.py, notify_learners,   *)
(* through membrane.request).                                              *)
(*                                                                         *)
(* A consent is one ApprovalGranted with all its signatures: they are       *)
(* recorded, replaced and spent together.  While the guardrail reads a      *)
(* notice, the course, its enrolment and its consents may change; what      *)
(* they are is read again when the answer comes.                           *)
(***************************************************************************)
EXTENDS Naturals, Sequences, FiniteSets

CONSTANTS
    Wordings,           \* notices a person may write
    Enrolments,      \* counts of learners
    Screeners,       \* versions of the guardrail
    MaxConsents,     \* bound on the consents given in a behaviour, publication's included
    MaxMoves         \* bound on the changes of enrolment, guardrail and state

ASSUME EnrolmentsAssumption == Enrolments \subseteq Nat \ {0} /\ Enrolments # {}
ASSUME MaxConsentsAssumption == MaxConsents \in Nat \ {0}
ASSUME MaxMovesAssumption == MaxMoves \in Nat

VARIABLES
    shelf,       \* the revision's state
    round,       \* how often it was verified again (action_subject.rounds)
    consents,    \* those on the revision: id, scope, what its signers were shown, spent
    given,       \* consents given so far: the next one's id
    enrolled,    \* Store.enrolled_learners
    screener,    \* the guardrail version in force
    sending,     \* the notice the guardrail is reading, if any
    landedKeys,  \* the keys of the notices sent, in Store.used_keys
    moves,       \* for the bound
    sent         \* History: the notices that went out, and what they went out on

noticeVars == <<shelf, round, consents, given, enrolled, screener, sending, landedKeys, moves, sent>>

Requests == [notice : Wordings, recipients : Enrolments]
Consents == [id : 1..MaxConsents, scope : {"publication", "notice"}, shown : SUBSET Requests, spent : BOOLEAN]

NoticesTypeOK ==
    /\ shelf \in {"Published", "StaleReview", "Withdrawn"}
    /\ round \in 0..MaxMoves
    /\ consents \subseteq Consents
    /\ \A c, d \in consents : c.scope = d.scope => c = d
    /\ given \in 1..MaxConsents
    /\ enrolled \in Enrolments
    /\ screener \in Screeners
    /\ sending \subseteq Requests /\ Cardinality(sending) <= 1
    /\ landedKeys \subseteq [request : Requests, round : 0..MaxMoves]
    /\ moves \in 0..MaxMoves
    /\ sent \in Seq([request : Requests, round : 0..MaxMoves, under : SUBSET (1..MaxConsents),
                     shown : SUBSET Requests, enrolled : Enrolments])

\* Published with its chain's signatures, each of which was shown what it signed.
NoticesInit ==
    /\ shelf = "Published" /\ round = 0
    /\ \E shown \in SUBSET Requests :
          /\ Cardinality(shown) \in 1..2
          /\ consents = {[id |-> 1, scope |-> "publication", shown |-> shown, spent |-> FALSE]}
    /\ given = 1
    /\ enrolled \in Enrolments /\ screener \in Screeners
    /\ sending = {}
    /\ landedKeys = {} /\ moves = 0
    /\ sent = <<>>

-----------------------------------------------------------------------------
(* Consents                                                                 *)

Fresh == {c \in consents : c.scope = "notice" /\ ~c.spent}
\* unspent_consents: what a notice goes out under, and what it spends.
UnspentConsents == IF Fresh # {} THEN Fresh ELSE {c \in consents : c.scope = "publication" /\ ~c.spent}

\* (a careless edition: the consent to a notice that went out stays)
ConsentGiven_kept(shown) ==
    /\ shelf \in {"Published", "Withdrawn"}
    /\ given < MaxConsents /\ given' = given + 1
    /\ consents' = (consents \ Fresh)
                   \cup {[id |-> given', scope |-> "notice", shown |-> shown, spent |-> FALSE]}
    /\ UNCHANGED <<shelf, round, enrolled, screener, sending, landedKeys, moves, sent>>

\* ApprovalGranted, on a revision that was published: the new consent replaces
\* the notice's last one, spent or not.
ConsentGiven(shown) ==
    /\ shelf \in {"Published", "Withdrawn"}
    /\ given < MaxConsents /\ given' = given + 1
    /\ consents' = {c \in consents : c.scope # "notice"}
                   \cup {[id |-> given', scope |-> "notice", shown |-> shown, spent |-> FALSE]}
    /\ UNCHANGED <<shelf, round, enrolled, screener, sending, landedKeys, moves, sent>>

\* notice_approved, the screening aside: everybody who consented was shown this
\* text, and these people, and they are who is enrolled now.
NoticeApproved(r) ==
    /\ r.recipients = enrolled
    /\ UnspentConsents # {}
    /\ \A c \in UnspentConsents : c.shown = {r}

-----------------------------------------------------------------------------
(* Sending                                                                  *)

Key(r) == [request |-> r, round |-> round]
MayGoOut(r) == shelf \in {"Published", "Withdrawn"} /\ NoticeApproved(r)

\* notify_learners: nothing is screened that has landed, or could not.
AskNotice(r) ==
    /\ sending = {}
    /\ Key(r) \notin landedKeys
    /\ MayGoOut(r)
    /\ sending' = {r}
    /\ UNCHANGED <<shelf, round, consents, given, enrolled, screener, landedKeys, moves, sent>>

\* (a careless edition: only consents to a notice are ever spent)
SpendConsent_fresh == {[c EXCEPT !.spent = @ \/ c \in Fresh] : c \in consents}
SpendConsent == {[c EXCEPT !.spent = @ \/ c \in UnspentConsents] : c \in consents}

Went(r) ==
    [request |-> r, round |-> round, under |-> {c.id : c \in UnspentConsents},
     shown |-> UNION {c.shown : c \in UnspentConsents}, enrolled |-> enrolled]

Goes(r) ==
    /\ sending' = {}
    /\ consents' = SpendConsent
    /\ sent' = Append(sent, Went(r))
    /\ UNCHANGED <<shelf, round, given, enrolled, screener, moves>>

\* (a careless edition: what was permitted before the guardrail was asked still is)
NoticeLands_asAsked ==
    \E r \in sending : Goes(r) /\ landedKeys' = landedKeys \cup {Key(r)}

\* (a careless edition: the key that lands is remembered by the gateway only)
NoticeLands_unrecorded ==
    \E r \in sending : MayGoOut(r) /\ Goes(r) /\ UNCHANGED landedKeys

\* Allowed by the version in force, and still permitted: it goes out.
NoticeLands ==
    \E r \in sending : MayGoOut(r) /\ Goes(r) /\ landedKeys' = landedKeys \cup {Key(r)}

\* Denied, unanswered, answered by a version not in force, no longer permitted, or
\* the gateway was restarted: nothing goes out, and the key stays unused.
NoticeFails ==
    /\ sending # {}
    /\ sending' = {}
    /\ UNCHANGED <<shelf, round, consents, given, enrolled, screener, landedKeys, moves, sent>>

-----------------------------------------------------------------------------
(* What moves meanwhile                                                     *)

Moves ==
    /\ moves < MaxMoves /\ moves' = moves + 1
    /\ UNCHANGED <<consents, given, sending, landedKeys, sent>>

Enrolment(n) == n # enrolled /\ enrolled' = n /\ Moves /\ UNCHANGED <<shelf, round, screener>>

\* GuardrailChanged, which may reach what the revision says.
ScreenerChanged(to, reaches) ==
    /\ to # screener /\ screener' = to
    /\ IF reaches /\ shelf = "Published" THEN shelf' = "StaleReview" /\ round' = round + 1
                                         ELSE UNCHANGED <<shelf, round>>
    /\ Moves /\ UNCHANGED enrolled

ReVerified == shelf = "StaleReview" /\ shelf' = "Published" /\ Moves /\ UNCHANGED <<round, enrolled, screener>>
Withdrawal == shelf # "Withdrawn" /\ shelf' = "Withdrawn" /\ Moves /\ UNCHANGED <<round, enrolled, screener>>

NoticesNext ==
    \/ \E shown \in SUBSET Requests : Cardinality(shown) \in 1..2 /\ ConsentGiven(shown)
    \/ \E r \in Requests : AskNotice(r)
    \/ NoticeLands \/ NoticeFails
    \/ \E n \in Enrolments : Enrolment(n)
    \/ \E to \in Screeners, reaches \in BOOLEAN : ScreenerChanged(to, reaches)
    \/ ReVerified \/ Withdrawal

NoticesSpec == NoticesInit /\ [][NoticesNext]_noticeVars

-----------------------------------------------------------------------------
(* Properties                                                               *)

\* A notice that went out was the text, and for the people, that every signer of
\* every consent it went out on was shown, and they were who was enrolled, though
\* any of them may have changed while the guardrail read it
\* (machine/store_guards.py, _notice_approved).
NoticeAsConsented ==
    \A i \in 1..Len(sent) :
        sent[i].shown = {sent[i].request} /\ sent[i].request.recipients = sent[i].enrolled

\* No consent sends two notices: a notice cannot be unsent, and a correction needs
\* a consent of its own (machine/bookkeeping.py, _spend_consent).
EachConsentOneNotice ==
    \A i, j \in 1..Len(sent) : i # j => sent[i].under \cap sent[j].under = {}

\* The same notice goes to the same people once, until the course is verified
\* again, whoever asks for it again and whatever they consent to
\* (gateway/membrane.py, request).
NoticeOncePerRound ==
    \A i, j \in 1..Len(sent) :
        i # j => sent[i].request # sent[j].request \/ sent[i].round # sent[j].round
=============================================================================
