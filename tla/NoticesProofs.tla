----------------------------- MODULE NoticesProofs -----------------------------
(* What holds of the notices for every number of consents, learners, wordings    *)
(* and guardrail versions.  No consent sends two notices because what a notice   *)
(* went out under is spent or gone, and ids are never given twice; no notice     *)
(* goes out twice because the key of the one being read has not landed, even     *)
(* when the course was verified again while the guardrail read it.               *)
EXTENDS Notices, FiniteSetTheorems, TLAPS

\* An id belongs to one consent, and was given.
IdsAreGiven ==
    /\ \A c \in consents : c.id <= given
    /\ \A c, d \in consents : c.id = d.id => c = d
    /\ \A i \in DOMAIN sent : \A k \in sent[i].under : k <= given

\* What a notice went out under is spent, or gone.
UsedIsSpent == \A i \in DOMAIN sent : \A c \in consents : c.id \in sent[i].under => c.spent

\* Rounds only go up, and what was sent has landed, in a round that was.
KeysAreLanded ==
    /\ round <= moves
    /\ \A k \in landedKeys : k.round <= round
    /\ \A i \in DOMAIN sent : [request |-> sent[i].request, round |-> sent[i].round] \in landedKeys
    /\ \A r \in sending : Key(r) \notin landedKeys

NoticesInv ==
    /\ NoticesTypeOK
    /\ IdsAreGiven /\ UsedIsSpent /\ KeysAreLanded
    /\ NoticeAsConsented /\ EachConsentOneNotice /\ NoticeOncePerRound

--------------------------------------------------------------------------------
\* What the record of a notice sent holds.
LEMMA SentIsRecorded ==
    ASSUME NoticesTypeOK
    PROVE  /\ DOMAIN sent = 1..Len(sent) /\ Len(sent) \in Nat
           /\ \A i \in DOMAIN sent :
                  /\ sent[i].request \in Requests /\ sent[i].round \in 0..MaxMoves
                  /\ sent[i].under \subseteq 1..MaxConsents
<1> DEFINE Sending == [request : Requests, round : 0..MaxMoves, under : SUBSET (1..MaxConsents),
                       shown : SUBSET Requests, enrolled : Enrolments]
<1>1. sent \in Seq(Sending)
  BY DEF NoticesTypeOK
<1>2. DOMAIN sent = 1..Len(sent) /\ Len(sent) \in Nat
  BY <1>1
<1>3. ASSUME NEW i \in DOMAIN sent PROVE sent[i] \in Sending
  <2> HIDE DEF Sending
  <2> QED  BY <1>1, <1>2
<1> QED  BY <1>2, <1>3

\* Spending a consent changes nothing else about it.
LEMMA SpendingIsMarking ==
    ASSUME consents \subseteq Consents
    PROVE  /\ SpendConsent \subseteq Consents
           /\ \A d \in SpendConsent : \E c \in consents :
                  /\ d.id = c.id /\ d.scope = c.scope
                  /\ d.spent <=> (c.spent \/ c \in UnspentConsents)
                  /\ d = [c EXCEPT !.spent = c.spent \/ c \in UnspentConsents]
<1> SUFFICES ASSUME NEW d \in SpendConsent
             PROVE  /\ d \in Consents
                    /\ \E c \in consents :
                           /\ d.id = c.id /\ d.scope = c.scope
                           /\ d.spent <=> (c.spent \/ c \in UnspentConsents)
                           /\ d = [c EXCEPT !.spent = c.spent \/ c \in UnspentConsents]
  OBVIOUS
<1>1. PICK c \in consents : d = [c EXCEPT !.spent = @ \/ c \in UnspentConsents]
  BY DEF SpendConsent
<1>2. c \in Consents
  OBVIOUS
<1> DEFINE b == c.spent \/ c \in UnspentConsents
<1>3. b \in BOOLEAN
  BY <1>2
<1>4. d = [c EXCEPT !.spent = b]
  BY <1>1
<1>5. d \in Consents /\ d.id = c.id /\ d.scope = c.scope /\ d.spent = b
  <2> HIDE DEF b
  <2> QED  BY <1>2, <1>3, <1>4 DEF Consents
<1> QED  BY <1>4, <1>5

\* The revision starts with one consent, its publication's, and nothing sent.
LEMMA NoticesInitially == NoticesInit => NoticesInv
<1> SUFFICES ASSUME NoticesInit PROVE NoticesInv
  OBVIOUS
<1> USE DEF NoticesInit
<1>1. Cardinality({}) = 0
  BY FS_EmptySet
<1>2. PICK shown \in SUBSET Requests :
         consents = {[id |-> 1, scope |-> "publication", shown |-> shown, spent |-> FALSE]}
  OBVIOUS
<1>3. NoticesTypeOK
  BY <1>1, <1>2, MaxConsentsAssumption, MaxMovesAssumption DEF NoticesTypeOK, Consents
<1>4. IdsAreGiven /\ UsedIsSpent /\ KeysAreLanded
  BY <1>2 DEF IdsAreGiven, UsedIsSpent, KeysAreLanded
<1> QED
  BY <1>3, <1>4 DEF NoticesInv, NoticeAsConsented, EachConsentOneNotice, NoticeOncePerRound

\* A new consent has an id nothing was sent under.
LEMMA ConsentGivenKeeps ==
    ASSUME NoticesInv, NEW shown \in SUBSET Requests, ConsentGiven(shown)
    PROVE  NoticesInv'
<1> USE DEF NoticesInv, ConsentGiven
<1> DEFINE new == [id |-> given', scope |-> "notice", shown |-> shown, spent |-> FALSE]
<1>1. given \in Nat /\ given' = given + 1 /\ given' \in 1..MaxConsents
  BY MaxConsentsAssumption DEF NoticesTypeOK
<1>2. new \in Consents /\ new.id = given' /\ new.scope = "notice"
  BY <1>1 DEF Consents
<1>3. \A c \in consents' : c = new \/ (c \in consents /\ c.scope # "notice")
  OBVIOUS
<1>4. NoticesTypeOK'
  <2>1. consents' \subseteq Consents
    BY <1>2, <1>3 DEF NoticesTypeOK
  <2>2. \A c, d \in consents' : c.scope = d.scope => c = d
    BY <1>2, <1>3 DEF NoticesTypeOK
  <2> QED  BY <1>1, <2>1, <2>2 DEF NoticesTypeOK
<1>5. \A i \in DOMAIN sent : \A k \in sent[i].under : k \in Nat /\ k <= given
  BY SentIsRecorded, MaxConsentsAssumption DEF IdsAreGiven
<1>6. \A c \in consents : c.id \in Nat /\ c.id <= given
  BY DEF IdsAreGiven, NoticesTypeOK, Consents
<1>7. IdsAreGiven'
  <2>1. \A c \in consents' : c.id <= given'
    BY <1>1, <1>2, <1>3, <1>6
  <2>2. \A c, d \in consents' : c.id = d.id => c = d
    <3>1. \A c \in consents : c.id # given'
      BY <1>1, <1>6
    <3> HIDE DEF new
    <3> QED  BY <1>2, <1>3, <3>1 DEF IdsAreGiven
  <2>3. \A i \in DOMAIN sent' : \A k \in sent'[i].under : k <= given'
    BY <1>1, <1>5
  <2> QED  BY <2>1, <2>2, <2>3 DEF IdsAreGiven
<1>8. UsedIsSpent'
  BY <1>1, <1>2, <1>3, <1>5 DEF UsedIsSpent
<1>9. KeysAreLanded'
  BY DEF KeysAreLanded, Key
<1> QED
  BY <1>4, <1>7, <1>8, <1>9 DEF NoticeAsConsented, EachConsentOneNotice, NoticeOncePerRound

\* What is asked has not landed.
LEMMA AskNoticeKeeps ==
    ASSUME NoticesInv, NEW r \in Requests, AskNotice(r)
    PROVE  NoticesInv'
<1> USE DEF NoticesInv, AskNotice
<1>1. Cardinality({r}) = 1
  BY FS_Singleton
<1>2. NoticesTypeOK'
  BY <1>1 DEF NoticesTypeOK
<1>3. KeysAreLanded'
  BY DEF KeysAreLanded, Key
<1> QED
  BY <1>2, <1>3 DEF IdsAreGiven, UsedIsSpent, NoticeAsConsented, EachConsentOneNotice, NoticeOncePerRound

\* Nothing that changes the notice being read, or drops it, touches what was sent.
LEMMA NoticeFailsKeeps == NoticesInv /\ NoticeFails => NoticesInv'
<1> SUFFICES ASSUME NoticesInv, NoticeFails PROVE NoticesInv'
  OBVIOUS
<1> USE DEF NoticesInv, NoticeFails
<1>1. Cardinality({}) = 0
  BY FS_EmptySet
<1>2. NoticesTypeOK'
  BY <1>1 DEF NoticesTypeOK
<1> QED
  BY <1>2 DEF KeysAreLanded, Key, IdsAreGiven, UsedIsSpent, NoticeAsConsented, EachConsentOneNotice,
              NoticeOncePerRound

\* What moves while the guardrail reads moves no consent and nothing sent, and a
\* round that goes up makes a key nobody landed.
LEMMA MovesKeep ==
    ASSUME NoticesInv, Moves, shelf' \in {"Published", "StaleReview", "Withdrawn"},
           enrolled' \in Enrolments, screener' \in Screeners,
           round' = round \/ round' = round + 1
    PROVE  NoticesInv'
<1> USE DEF NoticesInv, Moves
<1>1. round' \in 0..MaxMoves /\ moves' \in 0..MaxMoves /\ round' <= moves'
  BY MaxMovesAssumption DEF NoticesTypeOK, KeysAreLanded
<1>2. NoticesTypeOK'
  BY <1>1 DEF NoticesTypeOK
<1>3. KeysAreLanded'
  <2>1. round \in Nat /\ \A k \in landedKeys : k.round \in Nat /\ k.round <= round
    BY MaxMovesAssumption DEF NoticesTypeOK, KeysAreLanded
  <2>2. \A k \in landedKeys' : k.round <= round'
    BY <2>1
  <2>3. ASSUME NEW r \in sending' PROVE Key(r)' \notin landedKeys'
    <3>1. CASE round' = round
      BY <3>1 DEF KeysAreLanded, Key
    <3>2. CASE round' = round + 1
      BY <2>1, <3>2 DEF Key
    <3> QED  BY <3>1, <3>2
  <2> QED  BY <1>1, <2>2, <2>3 DEF KeysAreLanded, Key
<1> QED
  BY <1>2, <1>3 DEF IdsAreGiven, UsedIsSpent, NoticeAsConsented, EachConsentOneNotice, NoticeOncePerRound

\* A notice that lands goes out on what nobody was sent anything on, spends it,
\* and was not sent in this round.
LEMMA NoticeLandsKeeps == NoticesInv /\ NoticeLands => NoticesInv'
<1> SUFFICES ASSUME NoticesInv, NoticeLands PROVE NoticesInv'
  OBVIOUS
<1> USE DEF NoticesInv
<1>1. PICK r \in sending : MayGoOut(r) /\ Goes(r) /\ landedKeys' = landedKeys \cup {Key(r)}
  BY DEF NoticeLands
<1> DEFINE went == Went(r)
           i0 == Len(sent) + 1
<1>2. r \in Requests /\ consents \subseteq Consents /\ round \in 0..MaxMoves /\ given \in 1..MaxConsents
  BY DEF NoticesTypeOK
<1>3. /\ SpendConsent \subseteq Consents
      /\ \A d \in SpendConsent : \E c \in consents :
             /\ d.id = c.id /\ d.scope = c.scope
             /\ d.spent <=> (c.spent \/ c \in UnspentConsents)
             /\ d = [c EXCEPT !.spent = c.spent \/ c \in UnspentConsents]
  BY <1>2, SpendingIsMarking
<1>4. /\ sending' = {} /\ consents' = SpendConsent /\ sent' = Append(sent, went)
      /\ UNCHANGED <<shelf, round, given, enrolled, screener, moves>>
  BY <1>1 DEF Goes
<1>5. UnspentConsents \subseteq consents /\ \A c \in UnspentConsents : ~c.spent
  BY DEF UnspentConsents, Fresh
<1>6. /\ went.request = r /\ went.round = round /\ went.enrolled = enrolled
      /\ went.under = {c.id : c \in UnspentConsents}
      /\ went.shown = UNION {c.shown : c \in UnspentConsents}
  BY DEF Went
<1>7. went.under \subseteq 1..MaxConsents /\ went.shown \in SUBSET Requests
  BY <1>2, <1>5, <1>6 DEF Consents
<1>8. /\ DOMAIN sent = 1..Len(sent) /\ Len(sent) \in Nat
      /\ \A i \in DOMAIN sent :
             /\ sent[i].request \in Requests /\ sent[i].round \in 0..MaxMoves
             /\ sent[i].under \subseteq 1..MaxConsents
  BY SentIsRecorded
<1>9. /\ DOMAIN sent' = 1..i0 /\ Len(sent') = i0 /\ sent'[i0] = went
      /\ \A i \in DOMAIN sent : sent'[i] = sent[i]
      /\ \A i \in DOMAIN sent' : i = i0 \/ i \in DOMAIN sent
  <2> HIDE DEF went
  <2>1. sent \in Seq([request : Requests, round : 0..MaxMoves, under : SUBSET (1..MaxConsents),
                      shown : SUBSET Requests, enrolled : Enrolments])
    BY DEF NoticesTypeOK
  <2> QED  BY <1>4, <1>8, <2>1
<1> HIDE DEF went
<1>10. NoticesTypeOK'
  <2>1. Cardinality(sending') <= 1
    BY <1>4, FS_EmptySet
  <2>2. \A c, d \in consents' : c.scope = d.scope => c = d
    BY <1>3, <1>4 DEF NoticesTypeOK
  <2>3. Key(r) \in [request : Requests, round : 0..MaxMoves]
    BY <1>2 DEF Key
  <2>4. went \in [request : Requests, round : 0..MaxMoves, under : SUBSET (1..MaxConsents),
                  shown : SUBSET Requests, enrolled : Enrolments]
    BY <1>2, <1>7 DEF went, Went, NoticesTypeOK
  <2>5. sent' \in Seq([request : Requests, round : 0..MaxMoves, under : SUBSET (1..MaxConsents),
                  shown : SUBSET Requests, enrolled : Enrolments])
    BY <1>4, <2>4 DEF NoticesTypeOK
  <2> QED  BY <1>1, <1>3, <1>4, <2>1, <2>2, <2>3, <2>5 DEF NoticesTypeOK
<1>11. IdsAreGiven'
  <2>1. \A c \in consents' : c.id <= given'
    BY <1>3, <1>4 DEF IdsAreGiven
  <2>2. \A c, d \in consents' : c.id = d.id => c = d
    BY <1>3, <1>4 DEF IdsAreGiven
  <2>3. \A k \in went.under : k <= given
    BY <1>5, <1>6 DEF IdsAreGiven
  <2>4. \A i \in DOMAIN sent' : \A k \in sent'[i].under : k <= given'
    BY <1>4, <1>9, <2>3 DEF IdsAreGiven
  <2> QED  BY <2>1, <2>2, <2>4 DEF IdsAreGiven
<1>12. UsedIsSpent'
  <2> SUFFICES ASSUME NEW i \in DOMAIN sent', NEW d \in consents', d.id \in sent'[i].under
               PROVE  d.spent
    BY DEF UsedIsSpent
  <2>1. PICK c \in consents : d.id = c.id /\ (d.spent <=> (c.spent \/ c \in UnspentConsents))
    BY <1>3, <1>4
  <2>2. CASE i \in DOMAIN sent
    BY <1>9, <2>1, <2>2 DEF UsedIsSpent
  <2>3. CASE i = i0
    <3>1. c.id \in {b.id : b \in UnspentConsents}
      BY <1>6, <1>9, <2>1, <2>3
    <3> QED  BY <1>5, <2>1, <3>1 DEF IdsAreGiven
  <2> QED  BY <1>9, <2>2, <2>3
<1>13. KeysAreLanded'
  <2>1. \A k \in landedKeys' : k.round <= round'
    BY <1>1, <1>2, <1>4, MaxMovesAssumption DEF KeysAreLanded, Key
  <2>2. \A i \in DOMAIN sent' : [request |-> sent'[i].request, round |-> sent'[i].round] \in landedKeys'
    BY <1>1, <1>6, <1>9 DEF KeysAreLanded, Key
  <2> QED  BY <1>4, <2>1, <2>2 DEF KeysAreLanded, Key
<1>14. NoticeAsConsented'
  <2>1. went.shown = {r} /\ r.recipients = enrolled
    BY <1>1, <1>5, <1>6 DEF MayGoOut, NoticeApproved
  <2> QED  BY <1>4, <1>6, <1>8, <1>9, <2>1 DEF NoticeAsConsented
<1>15. \A i \in DOMAIN sent : sent[i].under \cap went.under = {}
  BY <1>5, <1>6 DEF UsedIsSpent
<1>16. EachConsentOneNotice'
  BY <1>8, <1>9, <1>15 DEF EachConsentOneNotice
<1>17. \A i \in DOMAIN sent : sent[i].request # r \/ sent[i].round # round
  BY <1>1 DEF KeysAreLanded, Key
<1>18. NoticeOncePerRound'
  BY <1>6, <1>8, <1>9, <1>17 DEF NoticeOncePerRound
<1> QED
  BY <1>10, <1>11, <1>12, <1>13, <1>14, <1>16, <1>18

--------------------------------------------------------------------------------
\* Every step keeps the invariant.
LEMMA NoticesStep == NoticesInv /\ [NoticesNext]_noticeVars => NoticesInv'
<1> SUFFICES ASSUME NoticesInv, [NoticesNext]_noticeVars PROVE NoticesInv'
  OBVIOUS
<1>1. ASSUME NEW shown \in SUBSET Requests, ConsentGiven(shown) PROVE NoticesInv'
  BY <1>1, ConsentGivenKeeps
<1>2. ASSUME NEW r \in Requests, AskNotice(r) PROVE NoticesInv'
  BY <1>2, AskNoticeKeeps
<1>3. CASE NoticeLands
  BY <1>3, NoticeLandsKeeps
<1>4. CASE NoticeFails
  BY <1>4, NoticeFailsKeeps
<1>5. ASSUME NEW n \in Enrolments, Enrolment(n) PROVE NoticesInv'
  BY <1>5, MovesKeep DEF Enrolment, NoticesInv, NoticesTypeOK
<1>6. ASSUME NEW to \in Screeners, NEW reaches \in BOOLEAN, ScreenerChanged(to, reaches)
      PROVE  NoticesInv'
  BY <1>6, MovesKeep DEF ScreenerChanged, NoticesInv, NoticesTypeOK
<1>7. CASE ReVerified \/ Withdrawal
  BY <1>7, MovesKeep DEF ReVerified, Withdrawal, NoticesInv, NoticesTypeOK
<1>8. CASE UNCHANGED noticeVars
  BY <1>8 DEF noticeVars, NoticesInv, NoticesTypeOK, IdsAreGiven, UsedIsSpent, KeysAreLanded, Key,
              NoticeAsConsented, EachConsentOneNotice, NoticeOncePerRound
<1> QED
  BY <1>1, <1>2, <1>3, <1>4, <1>5, <1>6, <1>7, <1>8 DEF NoticesNext

\* The invariant holds of every behaviour.
THEOREM NoticesInvariant == NoticesSpec => []NoticesInv
  BY NoticesInitially, NoticesStep, PTL DEF NoticesSpec

\* Every state is one of the declared shape; one notice at a time is being read,
\* and a revision has one consent of each scope.
THEOREM NoticesTypeCorrect == NoticesSpec => []NoticesTypeOK
<1>1. NoticesInv => NoticesTypeOK
  BY DEF NoticesInv
<1> QED  BY <1>1, NoticesInvariant, PTL

\* A notice goes out as everybody who consented was shown it, to who is enrolled
\* when it goes out, whatever changed while the guardrail read it.
THEOREM NoticesGoAsConsented == NoticesSpec => []NoticeAsConsented
<1>1. NoticesInv => NoticeAsConsented
  BY DEF NoticesInv
<1> QED  BY <1>1, NoticesInvariant, PTL

\* No consent sends two notices, however consents are replaced and spent.
THEOREM ConsentSendsOneNotice == NoticesSpec => []EachConsentOneNotice
<1>1. NoticesInv => EachConsentOneNotice
  BY DEF NoticesInv
<1> QED  BY <1>1, NoticesInvariant, PTL

\* The same notice to the same people goes out once between two verifications.
THEOREM NoticeGoesOnce == NoticesSpec => []NoticeOncePerRound
<1>1. NoticesInv => NoticeOncePerRound
  BY DEF NoticesInv
<1> QED  BY <1>1, NoticesInvariant, PTL
=============================================================================
