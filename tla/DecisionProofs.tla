----------------------------- MODULE DecisionProofs -----------------------------
(* Proofs about the two places where answers of the engines become a decision:   *)
(* which row of the table holds (module RowChoice), whatever rows share their    *)
(* checks and route between them, and what a refusal names (module BriefChecks), *)
(* whatever is asked.                                                            *)
EXTENDS RowChoice, BriefChecks, FiniteSetTheorems, WellFoundedInduction, TLAPS

--------------------------------------------------------------------------------
(* A guard's value                                                              *)

\* A guard as its literals stand in a row: by their positions, each on a fact.
IsGuard(lits) ==
    /\ DOMAIN lits \subseteq Nat
    /\ \A i \in DOMAIN lits : lits[i].name \in Names

\* Positions have a first one.
LEMMA FirstPosition ==
    ASSUME NEW S \in SUBSET Nat, S # {}
    PROVE  \E i \in S : \A j \in S : ~(j < i)
<1> DEFINE less == OpToRel(<, Nat)
<1>1. IsWellFoundedOn(less, Nat)
  BY NatLessThanWellFounded, Zenon
<1> HIDE DEF less
<1>2. \E i \in S : \A j \in S : ~(<<j, i>> \in less)
  BY <1>1, WFMin
<1> QED BY <1>2, Zenon DEF less, OpToRel

\* Either every literal holds, and was asked, or the first that does not decides.
LEMMA FirstFailing ==
    ASSUME NEW lits, IsGuard(lits), NEW v
    PROVE  LET failing == {i \in AskedOf(lits, v) : ~Holds(lits[i], v)}
           IN  \/ /\ failing = {}
                  /\ AskedOf(lits, v) = DOMAIN lits
                  /\ \A i \in DOMAIN lits : Holds(lits[i], v)
               \/ /\ failing # {}
                  /\ \A i \in failing : i \in DOMAIN lits /\ ~Holds(lits[i], v)
                                         /\ \A j \in DOMAIN lits : j < i => Holds(lits[j], v)
<1> DEFINE wrong == {i \in DOMAIN lits : ~Holds(lits[i], v)}
           failing == {i \in AskedOf(lits, v) : ~Holds(lits[i], v)}
<1>1. CASE wrong = {}
  <2>1. \A i \in DOMAIN lits : Holds(lits[i], v)
    BY <1>1
  <2> QED BY <2>1 DEF AskedOf
<1>2. CASE wrong # {}
  <2>1. PICK i \in wrong : \A j \in wrong : ~(j < i)
    BY <1>2, FirstPosition DEF IsGuard
  <2>2. i \in failing
    BY <2>1 DEF AskedOf
  <2> QED BY <2>2 DEF AskedOf
<1> QED BY <1>1, <1>2

\* What a guard is worth, and on whose account.
LEMMA ConjunctionDecides ==
    ASSUME NEW lits, IsGuard(lits), NEW v \in [Names -> Values]
    PROVE  /\ Conjunction(lits, v) \in Values
           /\ Conjunction(lits, v) = "true" <=> \A i \in DOMAIN lits : Holds(lits[i], v)
           /\ Conjunction(lits, v) = "true" => AskedOf(lits, v) = DOMAIN lits
           /\ Conjunction(lits, v) = "false" =>
                  \E i \in DOMAIN lits : /\ v[lits[i].name] \in {"true", "false"}
                                         /\ ~Holds(lits[i], v)
                                         /\ \A j \in DOMAIN lits : j < i => Holds(lits[j], v)
           /\ Conjunction(lits, v) = "unknown" => \E l \in Names : v[l] = "unknown"
<1> DEFINE failing == {i \in AskedOf(lits, v) : ~Holds(lits[i], v)}
           i == CHOOSE j \in failing : TRUE
<1>1. CASE failing = {}
  <2>1. Conjunction(lits, v) = "true"
    BY <1>1 DEF Conjunction
  <2> QED BY <1>1, <2>1, FirstFailing DEF Values
<1>2. CASE failing # {}
  <2>1. i \in failing
    BY <1>2
  <2>2. /\ i \in DOMAIN lits /\ ~Holds(lits[i], v)
        /\ \A j \in DOMAIN lits : j < i => Holds(lits[j], v)
    BY <1>2, <2>1, FirstFailing
  <2>3. Conjunction(lits, v) = IF v[lits[i].name] \in {"true", "false"} THEN "false" ELSE v[lits[i].name]
    BY <1>2 DEF Conjunction
  <2>4. lits[i].name \in Names /\ v[lits[i].name] \in Values
    BY <2>2 DEF IsGuard
  <2> HIDE DEF i
  <2> QED BY <2>2, <2>3, <2>4 DEF Values
<1> QED BY <1>1, <1>2

--------------------------------------------------------------------------------
(* A row's value                                                                *)

\* The rows that pass, and the one that negates what they share
LEMMA RowsShape ==
    /\ Len(Rows) \in Nat /\ DOMAIN Rows = 1..Len(Rows) /\ Len(Rows) > 1
    /\ \A i \in DOMAIN Rows : i \in Passing \/ (i = Len(Rows) /\ Rows[i] = AnyOfTheAboveFails)
    /\ 1 \in Passing /\ Len(Rows) \in DOMAIN Rows /\ Len(Rows) \notin Passing
    /\ \A i \in Passing : i \in DOMAIN Rows /\ i < Len(Rows) /\ Rows[i] # AnyOfTheAboveFails
    /\ \A i \in Passing : IsGuard(Rows[i]) /\ Rows[i] \in Seq([name : STRING, negated : BOOLEAN])
<1>1. /\ Len(Rows) \in Nat /\ DOMAIN Rows = 1..Len(Rows)
      /\ \A i \in DOMAIN Rows : Rows[i] \in Seq([name : STRING, negated : BOOLEAN])
  BY RowsAssumption
<1>2. Passing = 1..(Len(Rows) - 1) /\ Passing # {}
  BY RowsAssumption
<1>3. Len(Rows) > 1 /\ 1 \in Passing /\ Len(Rows) \in DOMAIN Rows /\ Len(Rows) \notin Passing
  BY <1>1, <1>2
<1>4. \A i \in Passing : i \in DOMAIN Rows /\ i < Len(Rows) /\ Rows[i] # AnyOfTheAboveFails
  BY <1>1, <1>2 DEF Passing
<1>5. \A i \in DOMAIN Rows : i \in Passing \/ (i = Len(Rows) /\ Rows[i] = AnyOfTheAboveFails)
  BY <1>1, <1>2 DEF Passing
<1>6. ASSUME NEW i \in Passing PROVE IsGuard(Rows[i])
  <2>1. DOMAIN Rows[i] \subseteq Nat
    BY <1>1, <1>4
  <2>2. \A k \in DOMAIN Rows[i] : Rows[i][k] \in UNION {Range(Rows[j]) : j \in DOMAIN Rows}
    BY <1>4 DEF Range
  <2> QED BY <2>1, <2>2 DEF IsGuard, Names
<1> QED BY <1>1, <1>3, <1>4, <1>5, <1>6

\* What the complement row negates is what all the others ask.
LEMMA ComplementShared ==
    LET checks == ComplementLiterals(Len(Rows))
    IN  /\ IsGuard(checks)
        /\ \A k \in DOMAIN checks : \A i \in Passing : checks[k] \in Range(Rows[i])
        /\ \A lit \in Range(Rows[1]) :
               (\A i \in Passing : lit \in Range(Rows[i])) => \E k \in DOMAIN checks : checks[k] = lit
<1> DEFINE checks == ComplementLiterals(Len(Rows))
<1>1. {j \in Passing : j < Len(Rows)} = Passing
  BY RowsShape
<1>2. /\ DOMAIN checks = {k \in DOMAIN Rows[1] : \A j \in Passing : Rows[1][k] \in Range(Rows[j])}
      /\ \A k \in DOMAIN checks : checks[k] = Rows[1][k]
  BY <1>1 DEF ComplementLiterals
<1>3. IsGuard(Rows[1])
  BY RowsShape
<1> HIDE DEF checks
<1>4. IsGuard(checks)
  BY <1>2, <1>3 DEF IsGuard
<1>5. \A lit \in Range(Rows[1]) :
          (\A i \in Passing : lit \in Range(Rows[i])) => \E k \in DOMAIN checks : checks[k] = lit
  BY <1>2 DEF Range
<1> QED BY <1>2, <1>4, <1>5 DEF checks

LEMMA PassingDecides ==
    ASSUME NEW i \in Passing, NEW v \in [Names -> Values]
    PROVE  /\ LiteralsOf(i) = Rows[i] /\ Decide(i, v) = Conjunction(Rows[i], v)
           /\ Decide(i, v) = "true" <=> AllHold(Range(Rows[i]), v)
           /\ Decide(i, v) = "true" => \A l \in Range(Rows[i]) : \E k \in AskedOf(Rows[i], v) : Rows[i][k] = l
<1>1. IsGuard(Rows[i]) /\ Rows[i] # AnyOfTheAboveFails
  BY RowsShape
<1>2. LiteralsOf(i) = Rows[i] /\ Decide(i, v) = Conjunction(Rows[i], v)
  BY <1>1 DEF LiteralsOf, Decide
<1>3. Decide(i, v) = "true" <=> \A k \in DOMAIN Rows[i] : Holds(Rows[i][k], v)
  BY <1>1, <1>2, ConjunctionDecides
<1>4. Decide(i, v) = "true" => AskedOf(Rows[i], v) = DOMAIN Rows[i]
  BY <1>1, <1>2, ConjunctionDecides
<1> QED BY <1>2, <1>3, <1>4 DEF AllHold, Range

LEMMA ComplementDecides ==
    ASSUME NEW v \in [Names -> Values]
    PROVE  LET checks == ComplementLiterals(Len(Rows))
               value == Decide(Len(Rows), v)
           IN  /\ value = "true" =>
                      \E k \in DOMAIN checks : /\ v[checks[k].name] \in {"true", "false"}
                                               /\ ~Holds(checks[k], v)
                                               /\ \A j \in DOMAIN checks : j < k => Holds(checks[j], v)
               /\ value = "false" => \A k \in DOMAIN checks : Holds(checks[k], v)
<1> DEFINE checks == ComplementLiterals(Len(Rows))
<1>1. Decide(Len(Rows), v) = Negation(Conjunction(checks, v))
  BY RowsShape DEF Decide, LiteralsOf
<1>2. IsGuard(checks)
  BY ComplementShared
<1> HIDE DEF checks
<1>3. /\ Decide(Len(Rows), v) = "true" => Conjunction(checks, v) = "false"
      /\ Decide(Len(Rows), v) = "false" => Conjunction(checks, v) = "true"
  BY <1>1 DEF Negation
<1>4. /\ Conjunction(checks, v) = "true" => \A k \in DOMAIN checks : Holds(checks[k], v)
      /\ Conjunction(checks, v) = "false" =>
             \E k \in DOMAIN checks : /\ v[checks[k].name] \in {"true", "false"}
                                      /\ ~Holds(checks[k], v)
                                      /\ \A j \in DOMAIN checks : j < k => Holds(checks[j], v)
  BY <1>2, ConjunctionDecides
<1> QED BY <1>3, <1>4 DEF checks

\* Every row has a value, and is undecided only on a fact that is not there.
LEMMA RowsDecide ==
    ASSUME NEW i \in DOMAIN Rows, NEW v \in [Names -> Values]
    PROVE  /\ Decide(i, v) \in Values
           /\ Decide(i, v) = "unknown" => \E l \in Names : v[l] = "unknown"
<1>1. CASE i \in Passing
  <2>1. IsGuard(Rows[i]) /\ Decide(i, v) = Conjunction(Rows[i], v)
    BY <1>1, RowsShape, PassingDecides
  <2> QED BY <2>1, ConjunctionDecides
<1>2. CASE i = Len(Rows)
  <2>1. /\ Decide(i, v) = Negation(Conjunction(ComplementLiterals(i), v))
        /\ IsGuard(ComplementLiterals(i))
    BY <1>2, RowsShape, ComplementShared DEF Decide, LiteralsOf
  <2>2. /\ Conjunction(ComplementLiterals(i), v) \in Values
        /\ Conjunction(ComplementLiterals(i), v) = "unknown" => \E l \in Names : v[l] = "unknown"
    BY <2>1, ConjunctionDecides
  <2> QED BY <2>1, <2>2 DEF Negation, Values
<1> QED BY <1>1, <1>2, RowsShape

\* Two rows never hold together.
LEMMA OneHolds ==
    ASSUME NEW i \in DOMAIN Rows, NEW j \in DOMAIN Rows, i # j, NEW v \in [Names -> Values],
           Decide(i, v) = "true"
    PROVE  Decide(j, v) # "true"
<1>1. ASSUME NEW p \in Passing, NEW q \in Passing, p # q, Decide(p, v) = "true", Decide(q, v) = "true"
      PROVE  FALSE
  <2>1. PICK lit \in Range(Rows[p]) : Literal(lit.name, ~lit.negated) \in Range(Rows[q])
    BY <1>1, ExclusiveAssumption
  <2>2. Holds(lit, v) /\ Holds(Literal(lit.name, ~lit.negated), v)
    BY <1>1, <2>1, PassingDecides DEF AllHold
  <2>3. lit.negated \in BOOLEAN
    <3> DEFINE L == [name : STRING, negated : BOOLEAN]
    <3>1. Rows[p] \in Seq(L)
      BY RowsShape
    <3>2. PICK k \in DOMAIN Rows[p] : lit = Rows[p][k]
      BY <2>1 DEF Range
    <3>3. lit \in L
      <4> HIDE DEF L
      <4> QED BY <3>1, <3>2
    <3> QED BY <3>3
  <2> QED BY <2>2, <2>3 DEF Holds, Literal
<1>2. ASSUME NEW p \in Passing, Decide(p, v) = "true", Decide(Len(Rows), v) = "true"
      PROVE  FALSE
  <2> DEFINE checks == ComplementLiterals(Len(Rows))
  <2>1. PICK k \in DOMAIN checks : ~Holds(checks[k], v)
    BY <1>2, ComplementDecides
  <2>2. checks[k] \in Range(Rows[p])
    BY ComplementShared
  <2> HIDE DEF checks
  <2> QED BY <1>2, <2>1, <2>2, PassingDecides DEF AllHold
<1> QED BY <1>1, <1>2, RowsShape

\* Facts that are all there leave no state without a row.
LEMMA SomeRowDecides ==
    ASSUME NEW v \in [Names -> Values], \A i \in DOMAIN Rows : Decide(i, v) = "false"
    PROVE  FALSE
<1> DEFINE checks == ComplementLiterals(Len(Rows))
           f == [l \in Names |-> IF v[l] = "false" THEN "false" ELSE "true"]
           shared == {lit \in Range(Rows[1]) : \A i \in Passing : lit \in Range(Rows[i])}
<1>1. f \in [Names -> {"true", "false"}]
  OBVIOUS
<1>2. \A lit : lit.name \in Names /\ v[lit.name] \in {"true", "false"} => (Holds(lit, f) <=> Holds(lit, v))
  BY DEF Holds
<1>3. AllHold(shared, f)
  <2>1. ASSUME NEW lit \in shared PROVE Holds(lit, f)
    <3>1. PICK k \in DOMAIN checks : checks[k] = lit
      BY ComplementShared
    <3>2. Holds(lit, v) /\ lit.name \in Names
      BY <3>1, RowsShape, ComplementDecides, ComplementShared DEF IsGuard
    <3>3. v[lit.name] \in {"true", "false"}
      BY <3>2 DEF Holds
    <3> HIDE DEF f
    <3> QED BY <1>2, <3>2, <3>3
  <2> QED BY <2>1 DEF AllHold
<1>4. PICK i \in Passing : AllHold(Range(Rows[i]), f)
  <2> HIDE DEF f
  <2> QED BY <1>1, <1>3, RoutedAssumption
<1>5. Decide(i, v) = "false" /\ Decide(i, v) = Conjunction(Rows[i], v) /\ IsGuard(Rows[i])
  BY RowsShape, PassingDecides
<1>6. PICK k \in DOMAIN Rows[i] : v[Rows[i][k].name] \in {"true", "false"} /\ ~Holds(Rows[i][k], v)
  BY <1>5, ConjunctionDecides
<1>7. ~Holds(Rows[i][k], f)
  <2> HIDE DEF f
  <2> QED BY <1>2, <1>5, <1>6 DEF IsGuard
<1> HIDE DEF f
<1> QED BY <1>4, <1>6, <1>7 DEF AllHold, Range

--------------------------------------------------------------------------------
(* The choice of a row                                                          *)

\* The row chosen holds; that none is means that none does; and a row that could
\* not be asked is no choice.
LEMMA ChoiceDecides ==
    ASSUME NEW v \in [Names -> Values]
    PROVE  LET c == Choice(v)
           IN  /\ c.why = "holds" => c.row \in Reached(v) /\ Decide(c.row, v) = "true"
               /\ c.why = "none" => c.row = 0 /\ \A i \in DOMAIN Rows : Decide(i, v) \in {"false", "unknown"}
<1> DEFINE settled == {i \in Reached(v) : Decide(i, v) \in {"true"} \union Stop}
           i == CHOOSE j \in settled : TRUE
<1>1. CASE settled = {}
  <2>1. Choice(v) = [row |-> 0, why |-> "none"]
    BY <1>1 DEF Choice
  <2>2. ASSUME NEW j \in DOMAIN Rows, Decide(j, v) \notin {"false", "unknown"}
        PROVE  FALSE
    <3> DEFINE open == {k \in DOMAIN Rows : Decide(k, v) \notin {"false", "unknown"}}
    <3>1. open \in SUBSET Nat /\ open # {}
      BY <2>2, RowsShape
    <3>2. PICK k \in open : \A m \in open : ~(m < k)
      <4> HIDE DEF open
      <4> QED BY <3>1, FirstPosition
    <3>3. \A m \in 1..(k - 1) : m \in DOMAIN Rows /\ m < k
      BY <3>2, RowsShape
    <3>4. k \in Reached(v)
      BY <3>2, <3>3 DEF Reached
    <3>5. Decide(k, v) \in Values
      BY <3>2, RowsDecide
    <3> QED BY <1>1, <3>2, <3>4, <3>5 DEF Values, Stop
  <2> QED BY <2>1, <2>2
<1>2. CASE settled # {}
  <2>1. i \in settled
    BY <1>2
  <2>2. Choice(v) = IF Decide(i, v) = "true" THEN [row |-> i, why |-> "holds"]
                    ELSE [row |-> 0, why |-> Decide(i, v)]
    BY <1>2 DEF Choice
  <2> HIDE DEF i
  <2> QED BY <2>1, <2>2 DEF Stop
<1> QED BY <1>1, <1>2

\* A row that passes was asked its rights check on the way.
LEMMA RightsAsked ==
    ASSUME NEW v \in [Names -> Values], NEW i \in Reached(v), i \in Passing, Decide(i, v) = "true"
    PROVE  Rights \in NamesAsked(v)
<1>1. PICK lit \in Range(Rows[i]) : lit.name = Rights
  BY RowsAssumption
<1>2. LiteralsOf(i) = Rows[i]
  BY PassingDecides
<1>3. PICK k \in AskedOf(Rows[i], v) : Rows[i][k] = lit
  BY PassingDecides
<1> QED BY <1>1, <1>2, <1>3 DEF NamesAsked

--------------------------------------------------------------------------------
(* The invariant: what is kept is what the store says now                        *)

ChoiceInv ==
    /\ facts \in Stores /\ noted \in BOOLEAN
    /\ steps \in Nat /\ at \in Nat /\ at <= steps
    /\ at = steps => \A l \in DOMAIN cache : l \in Names /\ cache[l] = facts[l]
    /\ at = steps /\ Rights \in DOMAIN cache => noted

LEMMA SeenIsTrue ==
    ASSUME ChoiceInv
    PROVE  Seen(facts, Kept) = facts /\ facts \in [Names -> Values]
<1>1. facts \in [Names -> Values]
  BY StoresAssumption DEF ChoiceInv
<1>2. \A l \in DOMAIN Kept : Kept[l] = facts[l]
  BY DEF ChoiceInv, Kept
<1> QED BY <1>1, <1>2 DEF Seen

\* A row that was not decided on is not spoken of.
LEMMA NothingDecided ==
    /\ taken = Nothing => OneRowDecides
    /\ taken' = Nothing => OneRowDecides'
<1>1. Nothing.why \notin {"holds", "none"}
  BY DEF Nothing
<1> QED BY <1>1 DEF OneRowDecides

\* The rights check is noted when it is asked, and was when its verdict is kept.
LEMMA RightsNoted ==
    ASSUME ChoiceInv, NEW v, Rights \in DOMAIN Kept \union NamesAsked(v)
    PROVE  Notes(v)
<1>1. CASE Rights \in DOMAIN Kept
  <2>1. CASE at = steps
    BY <1>1, <2>1 DEF Kept, ChoiceInv, Notes
  <2>2. CASE at # steps
    <3>1. DOMAIN Kept = {}
      BY <2>2 DEF Kept
    <3> QED BY <1>1, <3>1
  <2> QED BY <2>1, <2>2
<1>2. CASE Rights \notin DOMAIN Kept
  BY <1>2 DEF Notes
<1> QED BY <1>1, <1>2

LEMMA InitChoice == ChoiceInit => ChoiceInv /\ OneRowDecides
<1> SUFFICES ASSUME ChoiceInit PROVE ChoiceInv /\ OneRowDecides
  OBVIOUS
<1>1. DOMAIN cache = {}
  BY DEF ChoiceInit
<1>2. ChoiceInv
  <2>1. /\ facts \in Stores /\ noted = FALSE /\ steps = 0 /\ at = 0
    BY DEF ChoiceInit
  <2>2. steps \in Nat /\ at \in Nat /\ at <= steps
    BY <2>1
  <2>3. noted \in BOOLEAN
    BY <2>1, Zenon
  <2>4. Rights \notin DOMAIN cache /\ \A l \in DOMAIN cache : l \in Names /\ cache[l] = facts[l]
    BY <1>1
  <2> QED BY <2>1, <2>2, <2>3, <2>4, Zenon DEF ChoiceInv
<1> QED BY <1>2, NothingDecided DEF ChoiceInit

\* What a round of settling decides, it decides on the facts.
LEMMA SettleDecides ==
    ASSUME ChoiceInv, taken' = Choice(facts), facts' = facts, noted' = Notes(facts)
    PROVE  OneRowDecides'
<1> DEFINE c == Choice(facts)
<1>1. facts \in [Names -> Values]
  BY SeenIsTrue
<1>2. CASE c.why = "none"
  <2>1. c.row = 0 /\ \A i \in DOMAIN Rows : Decide(i, facts) \in {"false", "unknown"}
    BY <1>1, <1>2, ChoiceDecides
  <2>2. \E l \in Names : facts[l] = "unknown"
    <3>1. PICK i \in DOMAIN Rows : Decide(i, facts) # "false"
      BY <1>1, SomeRowDecides
    <3> QED BY <1>1, <2>1, <3>1, RowsDecide
  <2> HIDE DEF c
  <2> QED BY <1>1, <2>1, <2>2 DEF OneRowDecides, c
<1>3. CASE c.why = "holds"
  <2>1. c.row \in Reached(facts) /\ Decide(c.row, facts) = "true"
    BY <1>1, <1>3, ChoiceDecides
  <2>2. c.row \in DOMAIN Rows
    BY <2>1 DEF Reached
  <2>3. c.row # 0
    BY <2>2, RowsShape
  <2> HIDE DEF c
  <2>4. \A i \in DOMAIN Rows \ {c.row} : Decide(i, facts) # "true"
    BY <1>1, <2>1, <2>2, OneHolds
  <2>5. CASE c.row \in Passing
    <3>1. AllHold(Range(Rows[c.row]), facts)
      BY <1>1, <2>1, <2>5, PassingDecides
    <3>2. Rights \in NamesAsked(facts)
      BY <1>1, <2>1, <2>5, RightsAsked
    <3>3. noted'
      BY <3>2, RightsNoted
    <3>4. Rows[c.row] # AnyOfTheAboveFails
      BY <2>5, RowsShape
    <3> QED BY <2>3, <2>4, <3>1, <3>3, <3>4 DEF OneRowDecides, AllHold, Holds, c
  <2>6. CASE c.row = Len(Rows)
    <3> DEFINE checks == ComplementLiterals(c.row)
    <3>1. \E k \in DOMAIN checks : /\ facts[checks[k].name] \in {"true", "false"}
                                   /\ ~Holds(checks[k], facts)
                                   /\ \A j \in DOMAIN checks : j < k => Holds(checks[j], facts)
      BY <1>1, <2>1, <2>6, ComplementDecides
    <3>2. Rows[c.row] = AnyOfTheAboveFails
      BY <2>6, RowsShape
    <3> QED BY <2>3, <2>4, <3>1, <3>2 DEF OneRowDecides, Failing, c
  <2> QED BY <2>2, <2>5, <2>6, RowsShape
<1> QED BY <1>2, <1>3 DEF OneRowDecides

LEMMA NextChoice ==
    ASSUME ChoiceInv, OneRowDecides, [ChoiceNext]_choiceVars
    PROVE  ChoiceInv' /\ OneRowDecides'
<1>1. Seen(facts, Kept) = facts /\ facts \in [Names -> Values]
  BY SeenIsTrue
<1>2. ASSUME NEW v, PutBack(v) PROVE ChoiceInv' /\ OneRowDecides'
  <2>1. ChoiceInv'
    BY <1>2 DEF PutBack, Forgotten, ChoiceInv
  <2>2. OneRowDecides'
    BY <1>2 DEF PutBack, OneRowDecides, Failing
  <2> QED BY <2>1, <2>2
<1>3. CASE Settle
  <2> DEFINE c == Choice(facts)
  <2>1. CASE c.why = "unavailable"
    BY <1>1, <1>2, <1>3, <2>1 DEF Settle
  <2>2. CASE c.why # "unavailable"
    <3>1. /\ cache' = Keeps(facts) /\ at' = steps /\ noted' = Notes(facts) /\ taken' = c
          /\ facts' = facts /\ (steps' = steps \/ steps' = steps + 1)
      BY <1>1, <1>3, <2>2 DEF Settle
    <3>2. OneRowDecides'
      BY <3>1, SettleDecides
    <3>3. \A l \in DOMAIN cache' : cache'[l] = facts[l] /\ (l \in DOMAIN Kept \/ l \in NamesAsked(facts))
      BY <3>1 DEF Keeps
    <3>4. DOMAIN Kept \subseteq Names /\ NamesAsked(facts) \subseteq Names
      <4>1. DOMAIN Kept \subseteq Names
        BY DEF Kept, ChoiceInv
      <4>2. \A i \in DOMAIN Rows : IsGuard(LiteralsOf(i))
        BY RowsShape, ComplementShared, PassingDecides DEF LiteralsOf
      <4> QED BY <4>1, <4>2 DEF NamesAsked, AskedOf, Reached, IsGuard
    <3>5. Rights \in DOMAIN cache' => noted'
      BY <3>1, <3>3, RightsNoted
    <3>6. noted' \in BOOLEAN
      BY <3>1 DEF Notes, ChoiceInv
    <3>7. ChoiceInv'
      BY <3>1, <3>3, <3>4, <3>5, <3>6 DEF ChoiceInv
    <3> QED BY <3>2, <3>7
  <2> QED BY <2>1, <2>2
<1>4. CASE \E f \in Stores : Recorded(f)
  <2>1. ChoiceInv'
    BY <1>4 DEF Recorded, ChoiceInv
  <2>2. OneRowDecides'
    BY <1>4, NothingDecided DEF Recorded
  <2> QED BY <2>1, <2>2
<1>5. CASE \E f \in Stores : TakenBack(f)
  BY <1>2, <1>5 DEF TakenBack
<1>6. CASE UNCHANGED choiceVars
  BY <1>6 DEF choiceVars, ChoiceInv, OneRowDecides, Failing
<1> QED BY <1>3, <1>4, <1>5, <1>6 DEF ChoiceNext

\* Whatever the rows of a state ask, as long as they exclude each other and share
\* a rights check: one row decides, on the facts of the moment, and nothing that
\* was kept from another moment or from an event taken back speaks for it
\* (machine/evaluation.py, verdict and decide; machine/settling.py, _auto).
THEOREM OneRowAlwaysDecides == ChoiceSpec => []OneRowDecides
<1>1. ChoiceInv /\ OneRowDecides /\ [ChoiceNext]_choiceVars => ChoiceInv' /\ OneRowDecides'
  BY NextChoice
<1> QED BY <1>1, InitChoice, PTL DEF ChoiceSpec

--------------------------------------------------------------------------------
(* What the policy says of a question                                           *)

\* How many have signed is a number.
LEMMA SignersCounted ==
    ASSUME NEW q, IsFiniteSet(q.signatures)
    PROVE  Cardinality(Signers(q)) \in Nat
<1>1. IsFiniteSet(ValidSignatures(q))
  BY FS_Subset DEF ValidSignatures
<1> DEFINE actor == [s \in ValidSignatures(q) |-> s.actor]
<1>2. actor \in Surjection(ValidSignatures(q), Signers(q))
  BY DEF Signers, Surjection
<1> HIDE DEF actor
<1>3. IsFiniteSet(Signers(q))
  BY <1>1, <1>2, FS_Surjection
<1> QED BY <1>3, FS_CardinalityType

\* An approval chain is satisfied just when nothing is held against it.
LEMMA ChainDecides ==
    ASSUME NEW q, q.minimum \subseteq Nat, IsFiniteSet(q.signatures), q.wellFormed \in BOOLEAN
    PROVE  ApprovalChainSatisfied(q) <=> ~ChainDenied(q)
<1> DEFINE count == Cardinality(Signers(q))
<1>1. count \in Nat
  BY SignersCounted
<1> HIDE DEF count
<1>2. (\A m \in q.minimum : count >= m) <=> ~\E m \in q.minimum : count < m
  BY <1>1
<1> QED BY <1>2 DEF ApprovalChainSatisfied, ChainDenied, count

\* A count is within a limit, above one, or there is none to compare it with.
LEMMA LimitsDecide ==
    ASSUME NEW q, q.count \in Nat, q.limit \subseteq Nat, SaidOnce(q.limit)
    PROVE  WithinLimits(q) <=> ~(q.limit = {} \/ \E m \in q.limit : q.count > m)
<1>1. CASE q.limit = {}
  BY <1>1 DEF WithinLimits
<1>2. CASE q.limit # {}
  <2>1. PICK m \in q.limit : q.limit = {m}
    BY <1>2 DEF SaidOnce
  <2>2. m \in Nat /\ (q.count <= m <=> ~(q.count > m))
    OBVIOUS
  <2> QED BY <2>1, <2>2 DEF WithinLimits
<1> QED BY <1>1, <1>2

\* A rule denied, one line for each.
LEMMA DeniedBy ==
    ASSUME NEW q
    PROVE  PolicyDenies(q) # {} <=>
               \/ ByPerson(q) /\ q.role \notin PERSON_ACTS[q.action]
               \/ q.action \in AUTHORING /\ q.role \notin Authors
               \/ q.action \in DOMAIN PERSON_ACTS /\ q.kind # "person"
               \/ q.action \in SYSTEM_ACTS /\ q.kind # "system"
               \/ AudienceQuestion(q) /\ ~AudiencePermitted(q)
               \/ q.action \in AUTHORING /\ (q.limit = {} \/ \E m \in q.limit : q.count > m)
               \/ ~StatePermits(q)
               \/ q.action \notin KNOWN
               \/ q.action = "grant_approval" /\ ChainDenied(q)
<1> DEFINE above == \E m \in q.limit : q.count > m
           without == q.limit = {}
           entitled == q.role \in PERSON_ACTS[q.action]
           covered == q.audience \subseteq q.grants
           addressed == q.audience # {}
<1>1. AudiencePermitted(q) <=> addressed /\ covered
  BY DEF AudiencePermitted
<1> HIDE DEF above, without, entitled, covered, addressed
<1>2. PolicyDenies(q) =
    {rule \in {"known_role", "person_only", "system_only", "audience_permitted", "within_limits",
               "state_permits", "known_action", "approval_chain_satisfied"} :
        \/ rule = "known_role" /\ ByPerson(q) /\ ~entitled
        \/ rule = "known_role" /\ q.action \in AUTHORING /\ q.role \notin Authors
        \/ rule = "person_only" /\ q.action \in DOMAIN PERSON_ACTS /\ q.kind # "person"
        \/ rule = "system_only" /\ q.action \in SYSTEM_ACTS /\ q.kind # "system"
        \/ rule = "audience_permitted" /\ AudienceQuestion(q) /\ ~covered
        \/ rule = "audience_permitted" /\ AudienceQuestion(q) /\ ~addressed
        \/ rule = "within_limits" /\ q.action \in AUTHORING /\ above
        \/ rule = "within_limits" /\ q.action \in AUTHORING /\ without
        \/ rule = "state_permits" /\ ~StatePermits(q)
        \/ rule = "known_action" /\ q.action \notin KNOWN
        \/ rule = "approval_chain_satisfied" /\ q.action = "grant_approval" /\ ChainDenied(q)}
  BY Zenon DEF PolicyDenies, above, without, entitled, covered, addressed
<1> QED BY <1>1, <1>2 DEF above, without, entitled

\* The policy allows just what no rule denies: the one allowing rule of an action
\* and its denying rules, written apart in the policy, are each other's negation.
LEMMA PolicyIsWhole ==
    ASSUME NEW q, q.count \in Nat, q.limit \subseteq Nat, q.minimum \subseteq Nat, SaidOnce(q.limit),
           IsFiniteSet(q.signatures), q.wellFormed \in BOOLEAN
    PROVE  PolicyAllows(q) <=> PolicyDenies(q) = {}
<1> DEFINE entitled == q.role \in PERSON_ACTS[q.action]
           chain == ApprovalChainSatisfied(q)
           within == WithinLimits(q)
           permitted == AudiencePermitted(q)
           allowed == \/ ByPerson(q) /\ entitled /\ permitted
                      \/ q.action \in SYSTEM_ACTS /\ q.kind = "system"
                      \/ q.action \in AUTHORING /\ q.role \in Authors /\ permitted /\ within /\ StatePermits(q)
                      \/ q.action = "grant_approval" /\ chain
           denied == \/ ByPerson(q) /\ ~entitled
                     \/ q.action \in AUTHORING /\ q.role \notin Authors
                     \/ q.action \in DOMAIN PERSON_ACTS /\ q.kind # "person"
                     \/ q.action \in SYSTEM_ACTS /\ q.kind # "system"
                     \/ AudienceQuestion(q) /\ ~permitted
                     \/ q.action \in AUTHORING /\ ~within
                     \/ ~StatePermits(q)
                     \/ q.action \notin KNOWN
                     \/ q.action = "grant_approval" /\ ~chain
<1>1. PolicyAllows(q) <=> allowed
  BY Zenon DEF PolicyAllows
<1>2. PolicyDenies(q) # {} <=> denied
  BY DeniedBy, ChainDecides, LimitsDecide, Zenon
<1>3. allowed <=> ~denied
  <2> HIDE DEF entitled, chain, within, permitted
  <2> DEFINE acts == {"approve_node", "publish_revision", "withdraw_revision", "archive_revision", "notify_learners"}
  <2>1. DOMAIN PERSON_ACTS = acts
    BY DEF PERSON_ACTS
  <2>2. CASE q.action \in acts
    BY <2>1, <2>2 DEF ByPerson, AudienceQuestion, AUTHORING, SYSTEM_ACTS, KNOWN, StatePermits
  <2>3. CASE q.action \in SYSTEM_ACTS
    BY <2>1, <2>3 DEF ByPerson, AudienceQuestion, AUTHORING, SYSTEM_ACTS, KNOWN, StatePermits
  <2>4. CASE q.action \in AUTHORING
    BY <2>1, <2>4 DEF ByPerson, AudienceQuestion, AUTHORING, SYSTEM_ACTS, KNOWN
  <2>5. CASE q.action = "grant_approval"
    BY <2>1, <2>5 DEF ByPerson, AudienceQuestion, AUTHORING, SYSTEM_ACTS, KNOWN, StatePermits
  <2>6. CASE q.action \notin KNOWN
    BY <2>1, <2>6 DEF ByPerson, AudienceQuestion, AUTHORING, SYSTEM_ACTS, KNOWN, StatePermits
  <2> QED BY <2>1, <2>2, <2>3, <2>4, <2>5, <2>6 DEF KNOWN
<1> QED BY <1>1, <1>2, <1>3, Zenon

--------------------------------------------------------------------------------
(* What the sums say of a question                                              *)

Quantities == {"nodes", "minutes", "audience"}

\* No claims at all can hold together.
LEMMA NothingClaimed == ASSUME NEW claims PROVE Satisfiable(claims, {})
BY DEF Satisfiable

\* Claims about one quantity hold together when some value satisfies them all.
LEMMA OneQuantity ==
    ASSUME NEW claims, NEW about, Group(claims, about) # {}
    PROVE  Satisfiable(claims, Group(claims, about)) <=>
               \E v \in Numbers : \A n \in Group(claims, about) : v \in claims[n].values
<1>1. {claims[n].about : n \in Group(claims, about)} = {about}
  BY DEF Group
<1> QED BY <1>1 DEF Satisfiable, Group

\* Claims laid side by side.
LEMMA BothClaims ==
    ASSUME NEW f, NEW g
    PROVE  /\ DOMAIN Both(f, g) = DOMAIN f \union DOMAIN g
           /\ \A n \in DOMAIN f : Both(f, g)[n] = f[n]
           /\ \A n \in DOMAIN g : n \notin DOMAIN f => Both(f, g)[n] = g[n]
BY DEF Both

\* A claim made only on a condition.
LEMMA ClaimedWhen ==
    ASSUME NEW condition \in BOOLEAN, NEW claims
    PROVE  /\ condition => When(condition, claims) = claims
           /\ ~condition => DOMAIN When(condition, claims) = {}
<1>1. DOMAIN <<>> = {}
  OBVIOUS
<1> QED BY <1>1 DEF When

\* The claims a brief makes, the two about its nodes only where it says so.
ClaimsOf(b, claims) ==
    /\ DOMAIN claims =
           {"max_nodes_per_course", "a_course_has_at_least_one_node", "minutes_per_lesson",
            "max_minutes_per_lesson", "a_lesson_has_positive_length", "audience_breadth",
            "max_audience_breadth"}
           \union {n \in {"requested_nodes"} : Stated(b.requested)}
           \union {n \in {"nodes_the_brief_lists"} : Stated(b.listed)}
    /\ claims["max_nodes_per_course"] = Claim("nodes", AtMost(Limit))
    /\ claims["a_course_has_at_least_one_node"] = Claim("nodes", Positive)
    /\ claims["minutes_per_lesson"] = Claim("minutes", b.minutes)
    /\ claims["max_minutes_per_lesson"] = Claim("minutes", AtMost(Limit))
    /\ claims["a_lesson_has_positive_length"] = Claim("minutes", Positive)
    /\ claims["audience_breadth"] = Claim("audience", b.audience)
    /\ claims["max_audience_breadth"] = Claim("audience", AtMost(Limit))
    /\ Stated(b.requested) => claims["requested_nodes"] = Claim("nodes", b.requested)
    /\ Stated(b.listed) => claims["nodes_the_brief_lists"] = Claim("nodes", b.listed)

LEMMA BriefClaims == ASSUME NEW b PROVE ClaimsOf(b, constraint_groups(b))
<1> DEFINE always == [max_nodes_per_course |-> Claim("nodes", AtMost(Limit)),
                      a_course_has_at_least_one_node |-> Claim("nodes", Positive),
                      minutes_per_lesson |-> Claim("minutes", b.minutes),
                      max_minutes_per_lesson |-> Claim("minutes", AtMost(Limit)),
                      a_lesson_has_positive_length |-> Claim("minutes", Positive),
                      audience_breadth |-> Claim("audience", b.audience),
                      max_audience_breadth |-> Claim("audience", AtMost(Limit))]
           requested == [requested_nodes |-> Claim("nodes", b.requested)]
           listed == [nodes_the_brief_lists |-> Claim("nodes", b.listed)]
           ifRequested == When(Says(b.requested), requested)
           ifListed == When(Stated(b.listed), listed)
           where == Both(ifRequested, ifListed)
           claims == Both(always, where)
<1>1. constraint_groups(b) = claims
  BY Zenon DEF constraint_groups
<1>2. /\ DOMAIN ifRequested = {n \in {"requested_nodes"} : Stated(b.requested)}
      /\ Stated(b.requested) => ifRequested["requested_nodes"] = Claim("nodes", b.requested)
  <2>1. /\ Says(b.requested) => ifRequested = requested
        /\ ~Says(b.requested) => DOMAIN ifRequested = {}
    BY ClaimedWhen, Zenon DEF Says, Stated
  <2>2. DOMAIN requested = {"requested_nodes"} /\ requested["requested_nodes"] = Claim("nodes", b.requested)
    OBVIOUS
  <2> HIDE DEF requested, ifRequested
  <2> QED BY <2>1, <2>2 DEF Says
<1>3. /\ DOMAIN ifListed = {n \in {"nodes_the_brief_lists"} : Stated(b.listed)}
      /\ Stated(b.listed) => ifListed["nodes_the_brief_lists"] = Claim("nodes", b.listed)
  <2>1. /\ Stated(b.listed) => ifListed = listed
        /\ ~Stated(b.listed) => DOMAIN ifListed = {}
    BY ClaimedWhen, Zenon DEF Stated
  <2>2. DOMAIN listed = {"nodes_the_brief_lists"} /\ listed["nodes_the_brief_lists"] = Claim("nodes", b.listed)
    OBVIOUS
  <2> HIDE DEF listed, ifListed
  <2> QED BY <2>1, <2>2
<1>4. DOMAIN always = {"max_nodes_per_course", "a_course_has_at_least_one_node", "minutes_per_lesson",
                       "max_minutes_per_lesson", "a_lesson_has_positive_length", "audience_breadth",
                       "max_audience_breadth"}
  OBVIOUS
<1>5. /\ always["max_nodes_per_course"] = Claim("nodes", AtMost(Limit))
      /\ always["a_course_has_at_least_one_node"] = Claim("nodes", Positive)
      /\ always["minutes_per_lesson"] = Claim("minutes", b.minutes)
      /\ always["max_minutes_per_lesson"] = Claim("minutes", AtMost(Limit))
      /\ always["a_lesson_has_positive_length"] = Claim("minutes", Positive)
      /\ always["audience_breadth"] = Claim("audience", b.audience)
      /\ always["max_audience_breadth"] = Claim("audience", AtMost(Limit))
  OBVIOUS
<1> HIDE DEF always, ifRequested, ifListed
<1>6. /\ DOMAIN where = DOMAIN ifRequested \union DOMAIN ifListed
      /\ Stated(b.requested) => where["requested_nodes"] = Claim("nodes", b.requested)
      /\ Stated(b.listed) => where["nodes_the_brief_lists"] = Claim("nodes", b.listed)
  <2>1. /\ DOMAIN where = DOMAIN ifRequested \union DOMAIN ifListed
        /\ \A n \in DOMAIN ifRequested : where[n] = ifRequested[n]
        /\ \A n \in DOMAIN ifListed : n \notin DOMAIN ifRequested => where[n] = ifListed[n]
    BY BothClaims
  <2> HIDE DEF where
  <2>2. "nodes_the_brief_lists" \notin DOMAIN ifRequested
    BY <1>2
  <2> QED BY <1>2, <1>3, <2>1, <2>2
<1> HIDE DEF where
<1>7. /\ DOMAIN claims = DOMAIN always \union DOMAIN where
      /\ \A n \in DOMAIN always : claims[n] = always[n]
      /\ \A n \in DOMAIN where : n \notin DOMAIN always => claims[n] = where[n]
  BY BothClaims
<1> HIDE DEF claims
<1> QED BY <1>1, <1>2, <1>3, <1>4, <1>5, <1>6, <1>7 DEF ClaimsOf

\* How many nodes: a number the plan allows, and the one asked for and listed.
LEMMA NodesHoldTogether ==
    ASSUME NEW b
    PROVE  LET claims == constraint_groups(b)
           IN  Satisfiable(claims, Group(claims, "nodes")) <=>
                   \E v \in Numbers : /\ v > 0 /\ v <= Limit
                                      /\ Stated(b.requested) => v \in b.requested
                                      /\ Stated(b.listed) => v \in b.listed
<1> DEFINE claims == constraint_groups(b)
           nodes == {"max_nodes_per_course", "a_course_has_at_least_one_node"}
                    \union {n \in {"requested_nodes"} : Stated(b.requested)}
                    \union {n \in {"nodes_the_brief_lists"} : Stated(b.listed)}
<1>0. ClaimsOf(b, claims)
  BY BriefClaims
<1> HIDE DEF claims
<1>1. Group(claims, "nodes") = nodes
  BY <1>0 DEF ClaimsOf, Group, Claim
<1>2. ASSUME NEW v \in Numbers
      PROVE  (\A n \in nodes : v \in claims[n].values) <=>
                 /\ v > 0 /\ v <= Limit
                 /\ Stated(b.requested) => v \in b.requested
                 /\ Stated(b.listed) => v \in b.listed
  BY <1>0 DEF ClaimsOf, Claim, AtMost, Positive
<1>3. Satisfiable(claims, nodes) <=> \E v \in Numbers : \A n \in nodes : v \in claims[n].values
  BY <1>1, OneQuantity
<1> QED BY <1>1, <1>2, <1>3 DEF claims

\* How long a lesson is.
LEMMA MinutesHoldTogether ==
    ASSUME NEW b
    PROVE  LET claims == constraint_groups(b)
           IN  Satisfiable(claims, Group(claims, "minutes")) <=>
                   \E v \in Numbers : v > 0 /\ v <= Limit /\ v \in b.minutes
<1> DEFINE claims == constraint_groups(b)
           minutes == {"minutes_per_lesson", "max_minutes_per_lesson", "a_lesson_has_positive_length"}
<1>0. ClaimsOf(b, claims)
  BY BriefClaims
<1> HIDE DEF claims
<1>1. Group(claims, "minutes") = minutes
  BY <1>0 DEF ClaimsOf, Group, Claim
<1>2. ASSUME NEW v \in Numbers
      PROVE  (\A n \in minutes : v \in claims[n].values) <=> v > 0 /\ v <= Limit /\ v \in b.minutes
  BY <1>0 DEF ClaimsOf, Claim, AtMost, Positive
<1>3. Satisfiable(claims, minutes) <=> \E v \in Numbers : \A n \in minutes : v \in claims[n].values
  BY <1>1, OneQuantity
<1> QED BY <1>1, <1>2, <1>3 DEF claims

\* How wide the audience is.
LEMMA AudienceHoldsTogether ==
    ASSUME NEW b
    PROVE  LET claims == constraint_groups(b)
           IN  Satisfiable(claims, Group(claims, "audience")) <=>
                   \E v \in Numbers : v <= Limit /\ v \in b.audience
<1> DEFINE claims == constraint_groups(b)
           breadth == {"audience_breadth", "max_audience_breadth"}
<1>0. ClaimsOf(b, claims)
  BY BriefClaims
<1> HIDE DEF claims
<1>1. Group(claims, "audience") = breadth
  BY <1>0 DEF ClaimsOf, Group, Claim
<1>2. ASSUME NEW v \in Numbers
      PROVE  (\A n \in breadth : v \in claims[n].values) <=> v <= Limit /\ v \in b.audience
  BY <1>0 DEF ClaimsOf, Claim, AtMost
<1>3. Satisfiable(claims, breadth) <=> \E v \in Numbers : \A n \in breadth : v \in claims[n].values
  BY <1>1, OneQuantity
<1> QED BY <1>1, <1>2, <1>3 DEF claims

\* What is said once is met by the value it says.
LEMMA MetBy ==
    ASSUME NEW m, SaidOnce(m), NEW v
    PROVE  (\A k \in m : v = k) <=> (Stated(m) => v \in m)
BY DEF SaidOnce, Stated

\* What can be asked of a brief.
BriefSaid(b) == \A m \in {b.requested, b.listed, b.minutes, b.audience} : m \subseteq Numbers /\ SaidOnce(m)

\* A course meets a brief said in full just when no quantity is in conflict:
\* no two of them need be solved at once.
LEMMA MetWhenEachHolds ==
    ASSUME NEW b, BriefSaid(b), Unstated(b) = {}
    PROVE  LET claims == constraint_groups(b)
           IN  (\E nodes, minutes, breadth \in Numbers : Meets(b, nodes, minutes, breadth)) <=>
                   \A g \in Quantities : Satisfiable(claims, Group(claims, g))
<1> DEFINE claims == constraint_groups(b)
           many(v) == /\ v > 0 /\ v <= Limit
                      /\ Stated(b.requested) => v \in b.requested
                      /\ Stated(b.listed) => v \in b.listed
           long(v) == v > 0 /\ v <= Limit /\ v \in b.minutes
           wide(v) == v <= Limit /\ v \in b.audience
<1>1. /\ Satisfiable(claims, Group(claims, "nodes")) <=> \E v \in Numbers : many(v)
      /\ Satisfiable(claims, Group(claims, "minutes")) <=> \E v \in Numbers : long(v)
      /\ Satisfiable(claims, Group(claims, "audience")) <=> \E v \in Numbers : wide(v)
  BY NodesHoldTogether, MinutesHoldTogether, AudienceHoldsTogether
<1>2. /\ Stated(b.minutes) /\ Stated(b.audience)
      /\ SaidOnce(b.requested) /\ SaidOnce(b.listed) /\ SaidOnce(b.minutes) /\ SaidOnce(b.audience)
  BY DEF Unstated, BriefSaid
<1>3. ASSUME NEW nodes \in Numbers, NEW minutes \in Numbers, NEW breadth \in Numbers
      PROVE  Meets(b, nodes, minutes, breadth) <=> many(nodes) /\ long(minutes) /\ wide(breadth)
  <2>1. nodes \in 1..Limit <=> nodes > 0 /\ nodes <= Limit
    BY NumbersAssumption DEF Numbers
  <2>2. minutes \in 1..Limit <=> minutes > 0 /\ minutes <= Limit
    BY NumbersAssumption DEF Numbers
  <2>3. (\A k \in b.requested \union b.listed : nodes = k) <=>
            (Stated(b.requested) => nodes \in b.requested) /\ (Stated(b.listed) => nodes \in b.listed)
    BY <1>2, MetBy
  <2>4. /\ (\A k \in b.minutes : minutes = k) <=> minutes \in b.minutes
        /\ (\A k \in b.audience : breadth = k) <=> breadth \in b.audience
    BY <1>2, MetBy
  <2> QED BY <2>1, <2>2, <2>3, <2>4, Zenon DEF Meets
<1> HIDE DEF claims, many, long, wide
<1>4. (\E nodes, minutes, breadth \in Numbers : Meets(b, nodes, minutes, breadth)) <=>
          /\ \E v \in Numbers : many(v)
          /\ \E v \in Numbers : long(v)
          /\ \E v \in Numbers : wide(v)
  BY <1>3
<1> QED BY <1>1, <1>4 DEF Quantities, claims

\* The answer on a brief, one quantity at a time.
LEMMA BriefNamesItsCause ==
    ASSUME NEW b, BriefSaid(b), NEW r \in BriefAnswers(b)
    PROVE  /\ r.ok <=> r.named = {}
           /\ r.ok <=> /\ Unstated(b) = {}
                       /\ \E nodes, minutes, breadth \in Numbers : Meets(b, nodes, minutes, breadth)
           /\ ~r.ok /\ Unstated(b) = {} =>
                  LET claims == constraint_groups(b)
                  IN  \A g \in Quantities :
                          ~Satisfiable(claims, Group(claims, g)) <=>
                              ~Satisfiable(claims, r.named \intersect Group(claims, g))
<1> DEFINE claims == constraint_groups(b)
           all(g) == Group(claims, g)
           holds(g) == Satisfiable(claims, all(g))
           NamedOf(g) == IF holds(g) THEN {{}} ELSE Cores(claims, all(g))
           met == \E nodes, minutes, breadth \in Numbers : Meets(b, nodes, minutes, breadth)
<1>1. CASE Unstated(b) # {}
  <2>1. r = Refused(Unstated(b))
    BY <1>1 DEF BriefAnswers
  <2> QED BY <1>1, <2>1 DEF Refused
<1>2. CASE Unstated(b) = {}
  <2>1. PICK n \in NamedOf("nodes"), m \in NamedOf("minutes"), a \in NamedOf("audience") :
            r = IF n \union m \union a = {} THEN Allowed ELSE Refused(n \union m \union a)
    <3> DEFINE cores == {n \union m \union a :
                            n \in NamedOf("nodes"), m \in NamedOf("minutes"), a \in NamedOf("audience")}
    <3>1. BriefAnswers(b) =
              IF Unstated(b) # {} THEN {Refused(Unstated(b))}
              ELSE {IF core = {} THEN Allowed ELSE Refused(core) : core \in cores}
      BY DEF BriefAnswers
    <3> HIDE DEF NamedOf
    <3>2. ASSUME NEW core \in cores
          PROVE  \E n \in NamedOf("nodes"), m \in NamedOf("minutes"), a \in NamedOf("audience") :
                     core = n \union m \union a
      OBVIOUS
    <3> HIDE DEF cores
    <3>3. PICK core \in cores : r = IF core = {} THEN Allowed ELSE Refused(core)
      BY <1>2, <3>1
    <3>4. PICK n \in NamedOf("nodes"), m \in NamedOf("minutes"), a \in NamedOf("audience") :
              core = n \union m \union a
      BY <3>2
    <3>5. r = IF n \union m \union a = {} THEN Allowed ELSE Refused(n \union m \union a)
      BY <3>3, <3>4
    <3> QED BY <3>5
  <2>2. ASSUME NEW g, NEW core \in NamedOf(g)
        PROVE  /\ core \in SUBSET all(g)
               /\ Satisfiable(claims, core) <=> holds(g)
               /\ core = {} <=> holds(g)
    <3> HIDE DEF claims
    <3>1. CASE holds(g)
      BY <3>1, NothingClaimed
    <3>2. CASE ~holds(g)
      <4>1. core \in SUBSET all(g) /\ ~Satisfiable(claims, core)
        BY <3>2 DEF Cores
      <4> QED BY <3>2, <4>1, NothingClaimed
    <3> QED BY <3>1, <3>2
  <2>3. met <=> holds("nodes") /\ holds("minutes") /\ holds("audience")
    BY <1>2, MetWhenEachHolds DEF Quantities
  <2> HIDE DEF met
  <2>4. n \in SUBSET all("nodes") /\ m \in SUBSET all("minutes") /\ a \in SUBSET all("audience")
    BY <2>1, <2>2
  <2>5. /\ Satisfiable(claims, n) <=> holds("nodes")
        /\ Satisfiable(claims, m) <=> holds("minutes")
        /\ Satisfiable(claims, a) <=> holds("audience")
        /\ n = {} <=> holds("nodes")
        /\ m = {} <=> holds("minutes")
        /\ a = {} <=> holds("audience")
    BY <2>1, <2>2
  <2> HIDE DEF claims, NamedOf, holds
  <2>6. r.named = n \union m \union a /\ (r.ok <=> r.named = {})
    BY <2>1 DEF Allowed, Refused
  <2>7. r.ok <=> met
    BY <2>3, <2>5, <2>6
  <2>8. \A g \in Quantities : ~holds(g) <=> ~Satisfiable(claims, r.named \intersect all(g))
    <3>1. /\ r.named \intersect all("nodes") = n
          /\ r.named \intersect all("minutes") = m
          /\ r.named \intersect all("audience") = a
      <4>1. /\ (n \union m \union a) \intersect Group(claims, "nodes") = n
            /\ (n \union m \union a) \intersect Group(claims, "minutes") = m
            /\ (n \union m \union a) \intersect Group(claims, "audience") = a
        BY <2>4 DEF Group
      <4>2. r.named = n \union m \union a
        BY <2>6
      <4> QED BY <4>1, <4>2, Zenon
    <3> QED BY <2>5, <3>1 DEF Quantities
  <2> QED BY <1>2, <2>6, <2>7, <2>8 DEF holds, met, claims
<1> QED BY <1>1, <1>2

\* The answer on a node: what is named cannot hold together.
LEMMA NodeNamesItsCause ==
    ASSUME NEW n, NEW r \in NodeAnswers(n)
    PROVE  /\ r.ok <=> r.named = {}
           /\ ~r.ok /\ HalfSaid(n) = {} /\ n.notIntegers = {} => ~Satisfiable(NodeClaims(n), r.named)
<1>1. CASE HalfSaid(n) # {} \/ n.notIntegers # {}
  <2>1. \E names : r = Refused(names) /\ names # {} /\ names \in {HalfSaid(n), n.notIntegers}
    BY <1>1, Zenon DEF NodeAnswers
  <2> QED BY <1>1, <2>1 DEF Refused
<1>2. CASE HalfSaid(n) = {} /\ n.notIntegers = {}
  <2> DEFINE claims == NodeClaims(n)
             whole == Satisfiable(claims, DOMAIN claims)
             wrong == Cores(claims, DOMAIN claims)
  <2>1. r \in IF whole THEN {Allowed} ELSE {Refused(core) : core \in wrong}
    BY <1>2, Zenon DEF NodeAnswers
  <2> HIDE DEF whole
  <2>2. CASE r = Allowed
    BY <2>2 DEF Allowed
  <2>3. CASE \E core \in wrong : r = Refused(core)
    <3> HIDE DEF claims
    <3>1. PICK core \in wrong : r = Refused(core)
      BY <2>3
    <3>2. ~Satisfiable(claims, core) /\ core # {}
      BY NothingClaimed DEF Cores
    <3>3. r.named = core /\ ~r.ok
      BY <3>1 DEF Refused
    <3> QED BY <3>2, <3>3 DEF claims
  <2> QED BY <2>1, <2>2, <2>3
<1> QED BY <1>1, <1>2

\* The answer of the policy.
LEMMA PolicyNamesItsCause ==
    ASSUME NEW q, q.count \in Nat, q.limit \subseteq Nat, q.minimum \subseteq Nat, SaidOnce(q.limit),
           IsFiniteSet(q.signatures), q.wellFormed \in BOOLEAN, NEW r \in PolicyAnswers(q)
    PROVE  (r.ok <=> r.named = {}) /\ (r.ok <=> PolicyDenies(q) = {})
<1>1. r = IF PolicyAllows(q) THEN Allowed ELSE Refused(PolicyDenies(q))
  BY DEF PolicyAnswers
<1>2. PolicyAllows(q) <=> PolicyDenies(q) = {}
  BY PolicyIsWhole
<1> QED BY <1>1, <1>2 DEF Allowed, Refused

\* What is asked stays one of the questions there are.
ChecksInv == question \in Questions

\* Every refusal names its cause, and only a refusal does: whatever is asked, the
\* policy's allowing and denying rules are each other's negation, a brief is
\* passed just when some course would meet it, though no two quantities are
\* solved at once, and what the sums name cannot hold together (engines/opa and
\* engines/z3, check and the cores it reads).
THEOREM RefusalsNameTheirCause == ChecksSpec => []RefusalNamesItsCause
<1>1. ChecksInit => ChecksInv /\ RefusalNamesItsCause
  BY DEF ChecksInit, ChecksInv, RefusalNamesItsCause, NotAsked
<1>2. ChecksInv /\ RefusalNamesItsCause /\ [Ask]_checkVars => ChecksInv' /\ RefusalNamesItsCause'
  <2> SUFFICES ASSUME ChecksInv, RefusalNamesItsCause, [Ask]_checkVars
               PROVE  ChecksInv' /\ RefusalNamesItsCause'
    OBVIOUS
  <2>1. CASE UNCHANGED checkVars
    BY <2>1 DEF checkVars, ChecksInv, RefusalNamesItsCause
  <2>2. CASE Ask
    <3>1. question' = question /\ question \in Questions /\ answer' \in Answers(question)
      BY <2>2 DEF Ask, ChecksInv
    <3>2. CASE question.of = "policy"
      <4>1. answer' \in PolicyAnswers(question)
        BY <3>1, <3>2 DEF Answers
      <4>2. (answer'.ok <=> answer'.named = {}) /\ (answer'.ok <=> PolicyDenies(question) = {})
        BY <3>1, <3>2, <4>1, QuestionsAssumption, PolicyNamesItsCause
      <4> QED BY <3>1, <3>2, <4>2 DEF ChecksInv, RefusalNamesItsCause
    <3>3. CASE question.of = "brief"
      <4>1. answer' \in BriefAnswers(question)
        BY <3>1, <3>3 DEF Answers
      <4>2. BriefSaid(question)
        BY <3>1, <3>3, QuestionsAssumption DEF BriefSaid
      <4> QED BY <3>1, <3>3, <4>1, <4>2, BriefNamesItsCause DEF ChecksInv, RefusalNamesItsCause, Quantities
    <3>4. CASE question.of = "node"
      <4>1. answer' \in NodeAnswers(question)
        BY <3>1, <3>4 DEF Answers
      <4> QED BY <3>1, <3>4, <4>1, NodeNamesItsCause DEF ChecksInv, RefusalNamesItsCause
    <3> QED BY <3>1, <3>2, <3>3, <3>4, QuestionsAssumption
  <2> QED BY <2>1, <2>2
<1> QED BY <1>1, <1>2, PTL DEF ChecksSpec

=============================================================================
