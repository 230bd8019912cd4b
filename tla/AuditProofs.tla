------------------------------ MODULE AuditProofs ------------------------------
(* Proofs about the audit of a run (module Audit), whatever happens in it and in  *)
(* whatever order: one log holds every revision of a course, and its walks ask    *)
(* of each revision what they would ask of the revision's own log; and an         *)
(* accepted run never serves what it has superseded.                              *)
EXTENDS Audit, WellFoundedInduction, TLAPS

--------------------------------------------------------------------------------
(* Logs                                                                         *)

\* A log: steps from the first on, each about one of the revisions.
IsLog(t) ==
    /\ t \in Seq(Range(t))
    /\ t # <<>>
    /\ \A i \in DOMAIN t : t[i].revision \in Revisions

AuditInv == IsLog(log)

\* What is said over something else: what the first says, what the second says
\* where the first says nothing, and nothing more.
LEMMA SaidFirst ==
    ASSUME NEW f, NEW g, NEW x \in DOMAIN f
    PROVE  x \in DOMAIN Over(f, g) /\ Over(f, g)[x] = f[x]
BY DEF Over

LEMMA SaidSecond ==
    ASSUME NEW f, NEW g, NEW x \in DOMAIN g, x \notin DOMAIN f
    PROVE  x \in DOMAIN Over(f, g) /\ Over(f, g)[x] = g[x]
BY DEF Over

LEMMA SaidByNeither ==
    ASSUME NEW f, NEW g, NEW x, x \notin DOMAIN f, x \notin DOMAIN g
    PROVE  x \notin DOMAIN Over(f, g)
BY DEF Over

\* What comes with an event does not say which revision it is about.
LEMMA PayloadSaysNot ==
    ASSUME NEW h, NEW r
    PROVE  "revision" \notin DOMAIN PayloadOf(h, r)
<1> DEFINE about == IF h.node = "" THEN <<>>
                    ELSE IF h.event = "GuardrailVerdict" THEN [artifact |-> h.node] ELSE [node |-> h.node]
           back == IF h.rollback THEN [rolled_back_to |-> r] ELSE <<>>
<1>1. "revision" \notin DOMAIN about
  OBVIOUS
<1>2. "revision" \notin DOMAIN back
  OBVIOUS
<1>3. "revision" \notin DOMAIN SpecOf(h)
  BY DEF SpecOf
<1>4. PayloadOf(h, r) = Over(about, Over(back, SpecOf(h)))
  BY DEF PayloadOf
<1> HIDE DEF about, back
<1>5. "revision" \notin DOMAIN Over(back, SpecOf(h))
  BY <1>2, <1>3, SaidByNeither, Zenon
<1>6. "revision" \notin DOMAIN Over(about, Over(back, SpecOf(h)))
  BY <1>1, <1>5, SaidByNeither, Zenon
<1> QED BY <1>4, <1>6

\* A step says which revision it is about, whatever else happened in it.
LEMMA StepSaysWhose ==
    ASSUME NEW h \in Happenings, NEW r \in Revisions
    PROVE  StepOf(h, r).revision = r
<1> DEFINE all == Last(log)
           own == Latest(r)
           mine == IF h.state = "" THEN <<>> ELSE r :> h.state
           theirs == IF h.others = "" THEN <<>> ELSE [q \in DOMAIN all.revision_states \ {r} |-> h.others]
           now == [revision |-> r,
                   node_states |-> h.nodes @@ own.node_states,
                   course_state |-> IF h.state = "" THEN own.course_state ELSE h.state,
                   revision_states |-> mine @@ theirs @@ all.revision_states,
                   live_pointer |-> IF h.moves THEN r ELSE all.live_pointer,
                   re_verified |-> all.re_verified \union (IF h.verifies THEN {r} ELSE {})]
           before == [f \in StateFields |-> IF f \in CourseWide THEN all[f] ELSE own[f]]
           head == [event |-> h.event, envelope |-> h.envelope]
           full == Over(head, Over(PayloadOf(h, r), Snapshot(h, r)))
<1>1. "revision" \in DOMAIN now /\ now["revision"] = r
  OBVIOUS
<1>2. Snapshot(h, r) = Over(h.changes, Over(now, before))
  BY DEF Snapshot
<1>3. "revision" \notin DOMAIN head
  OBVIOUS
<1> HIDE DEF now, before, head
<1>4. "revision" \notin DOMAIN h.changes /\ "revision" \notin h.lost
  BY MenuIsRecorded
<1>5. "revision" \in DOMAIN Snapshot(h, r) /\ Snapshot(h, r)["revision"] = r
  <2>1. "revision" \in DOMAIN Over(now, before) /\ Over(now, before)["revision"] = r
    BY <1>1, SaidFirst, Zenon
  <2>2. /\ "revision" \in DOMAIN Over(h.changes, Over(now, before))
        /\ Over(h.changes, Over(now, before))["revision"] = r
    BY <1>4, <2>1, SaidSecond
  <2> QED BY <1>2, <2>2
<1>6. "revision" \in DOMAIN full /\ full["revision"] = r
  <2>1. /\ "revision" \in DOMAIN Over(PayloadOf(h, r), Snapshot(h, r))
        /\ Over(PayloadOf(h, r), Snapshot(h, r))["revision"] = r
    BY <1>5, PayloadSaysNot, SaidSecond, Zenon
  <2> QED BY <1>3, <2>1, SaidSecond, Zenon
<1>7. StepOf(h, r) = [f \in DOMAIN full \ h.lost |-> full[f]]
  BY DEF StepOf, head
<1> HIDE DEF full
<1> QED BY <1>4, <1>6, <1>7

\* One step longer, a log is a log.
LEMMA RecordKeepsLog ==
    ASSUME AuditInv, NEW h \in Happenings, NEW r \in Revisions, Record(h, r)
    PROVE  AuditInv'
<1> DEFINE s == StepOf(h, r)
           S == Range(log) \union {s}
<1>1. s.revision \in Revisions
  BY StepSaysWhose
<1> HIDE DEF s
<1>2. log \in Seq(S) /\ s \in S /\ log' = Append(log, s)
  <2>1. \A i \in DOMAIN log : log[i] \in S
    BY DEF Range
  <2> QED BY <2>1 DEF AuditInv, IsLog, Record, s
<1> HIDE DEF S
<1>3. /\ log' \in Seq(S) /\ log' # <<>> /\ Len(log') = Len(log) + 1
      /\ log'[Len(log) + 1] = s
      /\ \A i \in DOMAIN log : log'[i] = log[i]
  BY <1>2
<1>4. \A i \in DOMAIN log' : log'[i].revision \in Revisions
  <2>1. \A i \in DOMAIN log' : i \in DOMAIN log \/ i = Len(log) + 1
    BY <1>2, <1>3
  <2> QED BY <1>1, <1>3, <2>1 DEF AuditInv, IsLog
<1>5. log' \in Seq(Range(log'))
  <2>1. \A i \in 1..Len(log') : log'[i] \in Range(log')
    BY <1>3 DEF Range
  <2> QED BY <1>3, <2>1
<1> QED BY <1>3, <1>4, <1>5 DEF AuditInv, IsLog

\* The log of a run is always a log.
LEMMA RunKeepsLog == AuditInv /\ [AuditNext]_log => AuditInv'
<1>1. ASSUME AuditInv, AuditNext PROVE AuditInv'
  BY <1>1, RecordKeepsLog DEF AuditNext
<1>2. ASSUME AuditInv, UNCHANGED log PROVE AuditInv'
  BY <1>2 DEF AuditInv, IsLog
<1> QED BY <1>1, <1>2

LEMMA FirstIsLog == AuditInit => AuditInv
<1> SUFFICES ASSUME NEW s \in FirstSteps, log = <<s>> PROVE AuditInv
  BY DEF AuditInit
<1>1. s.revision \in Revisions
  BY MenuIsRecorded
<1>2. log \in Seq({s}) /\ Len(log) = 1 /\ log[1] = s /\ DOMAIN log = {1}
  OBVIOUS
<1>3. Range(log) = {s}
  BY <1>2 DEF Range
<1> QED BY <1>1, <1>2, <1>3 DEF AuditInv, IsLog

--------------------------------------------------------------------------------
(* A revision's own log                                                         *)

\* Positions have a first one.
LEMMA FirstOf ==
    ASSUME NEW S \in SUBSET Nat, S # {}
    PROVE  \E i \in S : \A j \in S : i <= j
<1> DEFINE less == OpToRel(<, Nat)
<1>1. IsWellFoundedOn(less, Nat)
  BY NatLessThanWellFounded, Zenon
<1> HIDE DEF less
<1>2. PICK i \in S : \A j \in S : ~(<<j, i>> \in less)
  BY <1>1, WFMin
<1>3. \A j \in S : ~(j < i)
  BY <1>2, Zenon DEF less, OpToRel
<1> QED BY <1>3

\* Positions before another have a last one.
LEMMA LastOf ==
    ASSUME NEW i \in Nat, NEW S \in SUBSET Nat, S # {}, \A j \in S : j < i
    PROVE  Max(S) \in S
<1> DEFINE back == {i - j : j \in S}
<1>1. back \in SUBSET Nat /\ back # {}
  <2>1. \A j \in S : i - j \in Nat
    OBVIOUS
  <2> QED BY <2>1
<1>2. PICK k \in back : \A l \in back : k <= l
  BY <1>1, FirstOf
<1>3. PICK j \in S : k = i - j
  OBVIOUS
<1>4. \A l \in S : j >= l
  <2> TAKE l \in S
  <2>1. i - j <= i - l
    BY <1>2, <1>3
  <2> QED BY <2>1
<1> QED BY <1>4 DEF Max

\* What one log shows at a position, another shows there too, and nothing else
\* besides.
Shows(u, t) == \A i \in DOMAIN u : i \in DOMAIN t /\ u[i] = t[i]
Agree(u, t, i) == i \in DOMAIN u /\ i \in DOMAIN t /\ u[i] = t[i] /\ Before(u, i) = Before(t, i)

LEMMA OwnShows == ASSUME NEW t, NEW r PROVE Shows(Own(t, r), t)
BY DEF Shows, Own

\* The step before, on its own revision, is the same in the log of the revision.
LEMMA OwnAgrees ==
    ASSUME NEW t, IsLog(t), NEW r, NEW i \in DOMAIN Own(t, r)
    PROVE  Agree(Own(t, r), t, i)
<1> DEFINE u == Own(t, r)
           mine(x) == {j \in DOMAIN x \ {1} : j < i /\ x[j].revision = x[i].revision}
<1>1. /\ DOMAIN u = {j \in DOMAIN t : j = 1 \/ t[j].revision = r}
      /\ \A j \in DOMAIN u : u[j] = t[j]
  BY DEF Own
<1>2. DOMAIN t \subseteq Nat /\ 1 \in DOMAIN t /\ \A j \in DOMAIN t : j >= 1
  BY DEF IsLog
<1>3. /\ Before(u, i) = IF mine(u) = {} THEN u[1] ELSE u[Max(mine(u))]
      /\ Before(t, i) = IF mine(t) = {} THEN t[1] ELSE t[Max(mine(t))]
  BY DEF Before
<1> HIDE DEF u
<1>4. i \in DOMAIN u /\ i \in DOMAIN t /\ u[i] = t[i] /\ i \in Nat
  BY <1>1, <1>2 DEF u
<1>5. mine(u) = mine(t)
  <2>1. CASE i = 1
    BY <1>1, <1>2, <2>1
  <2>2. CASE i # 1
    <3>1. t[i].revision = r
      BY <1>1, <1>4, <2>2
    <3> QED BY <1>1, <1>4, <3>1
  <2> QED BY <2>1, <2>2
<1>6. mine(u) # {} => Max(mine(u)) \in DOMAIN u
  <2>1. mine(u) \in SUBSET Nat /\ \A j \in mine(u) : j < i
    BY <1>1, <1>2
  <2> HIDE DEF mine
  <2>2. mine(u) # {} => Max(mine(u)) \in mine(u)
    BY <1>4, <2>1, LastOf
  <2> QED BY <2>2 DEF mine
<1> HIDE DEF mine
<1>7. Before(u, i) = Before(t, i)
  BY <1>1, <1>2, <1>3, <1>5, <1>6
<1> QED BY <1>4, <1>7 DEF Agree, u

\* Every step is in the log of the revision it is about, and so are all the others
\* about that revision.
LEMMA StepIsOwn ==
    ASSUME NEW t, IsLog(t), NEW i \in DOMAIN t
    PROVE  \E r \in Revisions :
               /\ Agree(Own(t, r), t, i)
               /\ \A j \in DOMAIN t : t[j].revision = t[i].revision => j \in DOMAIN Own(t, r)
<1>1. t[i].revision \in Revisions /\ i \in DOMAIN Own(t, t[i].revision)
  BY DEF IsLog, Own
<1>2. \A j \in DOMAIN t : t[j].revision = t[i].revision => j \in DOMAIN Own(t, t[i].revision)
  BY DEF Own
<1> QED BY <1>1, <1>2, OwnAgrees

--------------------------------------------------------------------------------
(* The walks                                                                    *)

\* A run every one of whose revisions passes the walks by itself passes them.
LEMMA CleanTogether ==
    ASSUME NEW t, IsLog(t), \A r \in Revisions : OfOneRevision(Own(t, r))
    PROVE  OfOneRevision(t)
<1> DEFINE At(i, r) == /\ r \in Revisions
                       /\ Agree(Own(t, r), t, i)
                       /\ \A j \in DOMAIN t : t[j].revision = t[i].revision => j \in DOMAIN Own(t, r)
<1>1. \A i \in DOMAIN t : \E r : At(i, r)
  BY StepIsOwn
<1> DEFINE whose(i) == CHOOSE r : At(i, r)
           u(i) == Own(t, whose(i))
<1>2. ASSUME NEW i \in DOMAIN t
      PROVE  /\ whose(i) \in Revisions
             /\ Agree(u(i), t, i)
             /\ Shows(u(i), t)
             /\ \A j \in DOMAIN t : t[j].revision = t[i].revision => j \in DOMAIN u(i)
  <2>1. At(i, whose(i))
    BY <1>1
  <2> QED BY <2>1, OwnShows
<1>3. \A i \in DOMAIN t : OfOneRevision(u(i))
  BY <1>2
<1> HIDE DEF u, whose
<1>i1. I1(t)
  BY <1>2, <1>3 DEF I1, OfOneRevision, Agree
<1>i2. I2(t)
  BY <1>2, <1>3 DEF I2, OfOneRevision, Agree
<1>i3. I3(t)
  BY <1>2, <1>3 DEF I3, OfOneRevision, Agree
<1>i4. I4(t)
  BY <1>2, <1>3 DEF I4, OfOneRevision, Agree
<1>i5. I5(t)
  BY <1>2, <1>3 DEF I5, OfOneRevision, Agree, Shows, OnceNow
<1>i6. I6(t)
  BY <1>2, <1>3 DEF I6, OfOneRevision, Agree, Shows, OnceNow
<1>i7. I7(t)
  BY <1>2, <1>3 DEF I7, VersionStands, OfOneRevision, Agree
<1>i8. I8(t)
  BY <1>2, <1>3 DEF I8, OfOneRevision, Agree, Shows, OnceNow
<1>i9. I9(t)
  BY <1>2, <1>3 DEF I9, OfOneRevision, Agree
<1>i10. I10(t)
  BY <1>2, <1>3 DEF I10, OfOneRevision, Agree, Shows, OnceNow
<1>i14. I14(t)
  BY <1>2, <1>3 DEF I14, OfOneRevision, Agree
<1>i15. I15(t)
  BY <1>2, <1>3 DEF I15, VersionStands, OfOneRevision, Agree
<1> QED BY <1>i1, <1>i2, <1>i3, <1>i4, <1>i5, <1>i6, <1>i7, <1>i8, <1>i9, <1>i10, <1>i14, <1>i15
        DEF OfOneRevision

\* A run that passes them passes, revision by revision, the ones that only look
\* back on their own.
LEMMA CleanApart ==
    ASSUME NEW t, IsLog(t), OfOneRevision(t), NEW r \in Revisions
    PROVE  LET u == Own(t, r)
           IN  I1(u) /\ I2(u) /\ I3(u) /\ I4(u) /\ I7(u) /\ I9(u) /\ I10(u) /\ I14(u) /\ I15(u)
<1> DEFINE u == Own(t, r)
<1>1. \A i \in DOMAIN u : Agree(u, t, i)
  BY OwnAgrees
<1>2. Shows(u, t)
  BY OwnShows
<1> HIDE DEF u
<1>i1. I1(u)
  BY <1>1 DEF I1, OfOneRevision, Agree
<1>i2. I2(u)
  BY <1>1 DEF I2, OfOneRevision, Agree
<1>i3. I3(u)
  BY <1>1 DEF I3, OfOneRevision, Agree
<1>i4. I4(u)
  BY <1>1 DEF I4, OfOneRevision, Agree
<1>i7. I7(u)
  BY <1>1 DEF I7, VersionStands, OfOneRevision, Agree
<1>i9. I9(u)
  BY <1>1 DEF I9, OfOneRevision, Agree
<1>i10. I10(u)
  BY <1>1, <1>2 DEF I10, OfOneRevision, Agree, Shows, OnceNow
<1>i14. I14(u)
  BY <1>1 DEF I14, OfOneRevision, Agree
<1>i15. I15(u)
  BY <1>1 DEF I15, VersionStands, OfOneRevision, Agree
<1> QED BY <1>i1, <1>i2, <1>i3, <1>i4, <1>i7, <1>i9, <1>i10, <1>i14, <1>i15 DEF u

\* What the walks say of one log that holds every revision is what they say of
\* each revision's own log: no step of one makes another look guilty
\* (engines/temporal/trace.py, Trace.before).
THEOREM AuditIsOfEachRevision == AuditSpec => []EachRevisionOnItsOwn
<1>1. AuditInv => EachRevisionOnItsOwn
  BY CleanTogether, CleanApart DEF AuditInv, EachRevisionOnItsOwn
<1> QED BY <1>1, FirstIsLog, RunKeepsLog, PTL DEF AuditSpec

--------------------------------------------------------------------------------
(* Who is served                                                                *)

\* A revision that stands superseded was on air before it came to, unless it
\* stood so from the start.
LEMMA ServedBefore ==
    ASSUME NEW t, IsLog(t), I12(t), NEW i \in DOMAIN t, NEW r \in Revisions, StandsSuperseded(t[i], r)
    PROVE  \E j \in 1..i : Serves(t[j], r) \/ (j = 1 /\ StandsSuperseded(t[j], r))
<1> DEFINE standing == {j \in DOMAIN t : StandsSuperseded(t[j], r)}
<1>1. DOMAIN t = 1..Len(t) /\ Len(t) \in Nat
  BY DEF IsLog
<1>2. standing \in SUBSET Nat /\ i \in standing
  BY <1>1
<1>3. PICK first \in standing : \A j \in standing : first <= j
  BY <1>2, FirstOf
<1>4. first \in DOMAIN t /\ StandsSuperseded(t[first], r) /\ first \in 1..i
  BY <1>1, <1>2, <1>3
<1>5. CASE first = 1
  BY <1>4, <1>5
<1>6. CASE first # 1
  <2>1. first - 1 \in DOMAIN t /\ first - 1 \notin standing
    BY <1>1, <1>3, <1>4, <1>6
  <2>2. \E j \in DOMAIN t : j < first /\ Serves(t[j], r)
    BY <1>4, <1>6, <2>1 DEF I12, Once
  <2> QED BY <1>1, <1>4, <2>2
<1> QED BY <1>5, <1>6

\* In a run the audit accepts, a superseded revision was on air, is off air, and
\* comes back only verified anew (engines/temporal/invariants.py, i11 to i13).
THEOREM AcceptedRunsServeNoSuperseded == AuditSpec => []SupersededWasServed
<1>1. AuditInv => SupersededWasServed
  <2> SUFFICES ASSUME AuditInv, Accepted(log), NEW i \in DOMAIN log, NEW r \in Revisions
               PROVE  /\ StandsSuperseded(log[i], r) =>
                             /\ ~Serves(log[i], r)
                             /\ \E j \in 1..i : Serves(log[j], r) \/ (j = 1 /\ StandsSuperseded(log[j], r))
                      /\ Carries(log[i], "rolled_back_to") /\ log[i].rolled_back_to = r =>
                             \E j \in 1..(i - 1) : r \in Listed(log[j], "re_verified")
    BY DEF SupersededWasServed
  <2>1. StandsSuperseded(log[i], r) => ~Serves(log[i], r)
    BY DEF Accepted, OfTheCourse, I11, StandsSuperseded, SERVABLE
  <2>2. StandsSuperseded(log[i], r) =>
            \E j \in 1..i : Serves(log[j], r) \/ (j = 1 /\ StandsSuperseded(log[j], r))
    BY ServedBefore DEF AuditInv, Accepted, OfTheCourse
  <2>3. Carries(log[i], "rolled_back_to") /\ log[i].rolled_back_to = r =>
            \E j \in 1..(i - 1) : r \in Listed(log[j], "re_verified")
    <3>1. DOMAIN log = 1..Len(log) /\ Len(log) \in Nat
      BY DEF AuditInv, IsLog
    <3> QED BY <3>1 DEF Accepted, OfTheCourse, I13, Once
  <2> QED BY <2>1, <2>2, <2>3
<1> QED BY <1>1, FirstIsLog, RunKeepsLog, PTL DEF AuditSpec

=============================================================================
