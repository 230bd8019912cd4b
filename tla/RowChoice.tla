-------------------------------- MODULE RowChoice --------------------------------
(* How a row of the table is chosen (machine/evaluation.py): a guard is a        *)
(* conjunction of literals asked in order, each true, false or undecidable; the  *)
(* complement row negates what the rows above it share; what an engine answered  *)
(* is kept until a step is recorded; and a machine that takes an event back, or  *)
(* only asked whether it would take it, puts everything back and forgets.        *)
EXTENDS Naturals, Sequences, Functions

CONSTANTS
    Rows,         \* the (auto) rows of one state, as guards: sequences of literals
    EngineNames,  \* the literals a formal engine answers, their verdicts kept
    Rights,       \* the one whose verdict is noted in the revision
    Stores,       \* what the literals are worth in the store: name -> value
    MaxSteps

\* A guard's literal, and the guard of the row "any of the above fails".
Literal(name, negated) == [name |-> name, negated |-> negated]
AnyOfTheAboveFails == <<>>

Names == {lit.name : lit \in UNION {Range(Rows[i]) : i \in DOMAIN Rows}}
Passing == {i \in DOMAIN Rows : Rows[i] # AnyOfTheAboveFails}

\* "down": the guardrail does not answer; "unavailable": an engine does not run.
Values == {"true", "false", "unknown", "down", "unavailable"}
Stop == {"down", "unavailable"}

Holds(lit, v) == v[lit.name] = IF lit.negated THEN "false" ELSE "true"
AllHold(lits, v) == \A lit \in lits : Holds(lit, v)

\* What the table says of these rows (model/transitions.yaml): some pass, each of
\* them on its rights check, and the last row is the complement.
ASSUME RowsAssumption ==
    /\ Rows \in Seq(Seq([name : STRING, negated : BOOLEAN]))
    /\ Passing = 1..(Len(Rows) - 1) /\ Passing # {}
    /\ \A i \in Passing : \E lit \in Range(Rows[i]) : lit.name = Rights
\* No two rows can both hold (tests/test_machine_table.py): one asks what the
\* other negates.
ASSUME ExclusiveAssumption ==
    \A i, j \in Passing : i # j =>
        \E lit \in Range(Rows[i]) : Literal(lit.name, ~lit.negated) \in Range(Rows[j])
\* Where every check holds that the rows share, what is left routes: one of them
\* holds.
ASSUME RoutedAssumption ==
    \A f \in [Names -> {"true", "false"}] :
        AllHold({lit \in Range(Rows[1]) : \A i \in Passing : lit \in Range(Rows[i])}, f)
            => \E i \in Passing : AllHold(Range(Rows[i]), f)
ASSUME StoresAssumption == Stores \subseteq [Names -> Values]

VARIABLES
    facts,      \* the store, as the literals read it
    noted,      \* whether the rights check is noted in the revision
    steps,      \* steps recorded
    cache, at,  \* verdicts kept, and the step count they were given at
    taken       \* the row last decided on, while what it was decided on stands

choiceVars == <<facts, noted, steps, cache, at, taken>>

--------------------------------------------------------------------------------
\* A verdict kept since the last recorded step is read; anything else is asked.
Kept == IF at = steps THEN cache ELSE <<>>
Seen(f, kept) == [l \in DOMAIN f |-> IF l \in DOMAIN kept THEN kept[l] ELSE f[l]]

\* The literals of a conjunction that are asked: up to the first that does not hold
AskedOf(lits, v) ==
    {i \in DOMAIN lits : \A j \in DOMAIN lits : j < i => Holds(lits[j], v)}

\* true, false, or what kept it from being decided
Conjunction(lits, v) ==
    LET failing == {i \in AskedOf(lits, v) : ~Holds(lits[i], v)}
        given(i) == v[lits[i].name]
    IN  IF failing = {} THEN "true"
        ELSE LET i == CHOOSE i \in failing : TRUE
             IN  IF given(i) \in {"true", "false"} THEN "false" ELSE given(i)

\* (a careless edition: the first row's literals, its routing among them)
ComplementLiterals_first(i) == Rows[1]
\* The checks every row above asks, where the first asks them: what only routes a
\* revision is not among them.
ComplementLiterals(i) ==
    LET above == {j \in Passing : j < i}
        shared == {k \in DOMAIN Rows[1] : \A j \in above : Rows[1][k] \in Range(Rows[j])}
    IN  [k \in shared |-> Rows[1][k]]

LiteralsOf(i) == IF Rows[i] = AnyOfTheAboveFails THEN ComplementLiterals(i) ELSE Rows[i]

Negation(value) == IF value = "true" THEN "false" ELSE IF value = "false" THEN "true" ELSE value

\* The complement of what could not be decided is not decided either.
Decide(i, v) ==
    LET value == Conjunction(LiteralsOf(i), v)
    IN  IF Rows[i] = AnyOfTheAboveFails THEN Negation(value) ELSE value

\* Rows are asked in the table's order until one holds, or one cannot be asked.
Reached(v) ==
    {i \in DOMAIN Rows : \A j \in 1..(i - 1) : Decide(j, v) \in {"false", "unknown"}}
Choice(v) ==
    LET settled == {i \in Reached(v) : Decide(i, v) \in {"true"} \union Stop}
    IN  IF settled = {} THEN [row |-> 0, why |-> "none"]
        ELSE LET i == CHOOSE i \in settled : TRUE
             IN  IF Decide(i, v) = "true" THEN [row |-> i, why |-> "holds"]
                 ELSE [row |-> 0, why |-> Decide(i, v)]

NamesAsked(v) ==
    UNION {{LiteralsOf(i)[j].name : j \in AskedOf(LiteralsOf(i), v)} : i \in Reached(v)}

--------------------------------------------------------------------------------
\* What is left behind by looking for a row.
Keeps(v) ==
    [l \in DOMAIN Kept \union {n \in NamesAsked(v) \intersect EngineNames : v[n] \notin Stop} |-> v[l]]
Notes(v) == noted \/ Rights \in NamesAsked(v) \ DOMAIN Kept

Nothing == [row |-> 0, why |-> "not asked"]

ChoiceInit ==
    /\ facts \in Stores
    /\ noted = FALSE
    /\ steps = 0
    /\ cache = <<>> /\ at = 0
    /\ taken = Nothing

\* (a careless edition: what was found out on the way is remembered)
Forgotten_not(v) == Keeps(v)
\* Nothing is kept of an event taken back.
Forgotten(v) == <<>>

\* The store as it was before the event.
PutBack(v) ==
    /\ cache' = Forgotten(v) /\ at' = steps
    /\ UNCHANGED <<facts, noted, steps, taken>>

\* One round of settling.  A row that holds and a service that does not answer
\* record a step; an engine that does not run breaks the event off.
Settle ==
    LET v == Seen(facts, Kept)
        c == Choice(v)
    IN  IF c.why = "unavailable" THEN PutBack(v)
        ELSE /\ cache' = Keeps(v) /\ at' = steps
             /\ noted' = Notes(v)
             /\ taken' = c
             /\ \/ c.why = "none" /\ UNCHANGED steps
                \/ c.why \in {"holds", "down"} /\ steps < MaxSteps /\ steps' = steps + 1
             /\ UNCHANGED facts

\* An event was taken and recorded: the store is another.
Recorded(f) ==
    /\ steps < MaxSteps
    /\ facts' = f
    /\ steps' = steps + 1
    /\ taken' = Nothing
    /\ UNCHANGED <<noted, cache, at>>

\* An event that would make the store f: its rows are looked at, and then it is
\* refused, or it was only asked whether it would be taken.
TakenBack(f) == PutBack(Seen(f, Kept))

ChoiceNext == Settle \/ \E f \in Stores : Recorded(f) \/ TakenBack(f)

ChoiceSpec == ChoiceInit /\ [][ChoiceNext]_choiceVars

--------------------------------------------------------------------------------
Failing(lit) == facts[lit.name] \in {"true", "false"} /\ ~Holds(lit, facts)

\* One row decides, on the store as it stands and not on what was answered about
\* another: when every fact is there, exactly one row holds; a revision goes
\* where a failed check sends it only when a check failed and none before it went
\* unanswered; and it passes only with its rights check on record.
OneRowDecides ==
    taken.why \in {"holds", "none"} =>
        /\ \A i \in DOMAIN Rows \ {taken.row} : Decide(i, facts) # "true"
        /\ taken.row = 0 => \E l \in DOMAIN facts : facts[l] = "unknown"
        /\ taken.row # 0 =>
               IF Rows[taken.row] = AnyOfTheAboveFails
               THEN LET checks == ComplementLiterals(taken.row)
                    IN  \E i \in DOMAIN checks :
                            /\ Failing(checks[i])
                            /\ \A j \in DOMAIN checks : j < i => Holds(checks[j], facts)
               ELSE noted /\ AllHold(Range(Rows[taken.row]), facts)
=============================================================================
