----------------------------- MODULE SeatChoice -----------------------------
(***************************************************************************)
(* Which seats a cart gets: Bestplatz, wheelchair seats with a companion,  *)
(* and the gap rule for seats that a buyer picks on the plan.  Seats are   *)
(* adjacent within a segment of a row; who holds them is module Seats.     *)
(* One category without standing places, the settings as they come.        *)
(***************************************************************************)
EXTENDS Integers, FiniteSets, Sequences, Functions

CONSTANTS
    Segments,
    RowOf,       \* row index of a segment
    FirstIndex,  \* seatIndex of a segment's first seat
    SeatCount,
    MaxAsked,    \* maxPerOrder
    RelaxFrom    \* gapRuleRelaxOccupancyPercent

ASSUME SeatChoiceAssumption ==
    /\ IsFiniteSet(Segments)
    /\ RowOf \in [Segments -> Nat] /\ FirstIndex \in [Segments -> Nat]
    /\ SeatCount \in [Segments -> Nat] /\ MaxAsked \in Nat \ {0, 1} /\ RelaxFrom \in 0..100

VARIABLES
    taken,  \* seats that are held or sold
    answer  \* the last request: kind, what was asked, what was free, what it got

choiceVars == <<taken, answer>>

-----------------------------------------------------------------------------
\* A seat is a segment and a position in it.
Places == UNION {{g} \X (0..(SeatCount[g] - 1)) : g \in Segments}

Free == Places \ taken

Mag(n) == IF n < 0 THEN -n ELSE n

Least(S, score(_)) == CHOOSE x \in S : \A y \in S : score(x) <= score(y)

\* A slice is n seats of segment g from position from on.
Slice(g, from, n) == [g |-> g, from |-> from, n |-> n]

SeatsOf(s) == {<<s.g, p>> : p \in s.from..(s.from + s.n - 1)}

\* How far seats are free from x on.
Reach(free, x) ==
    CHOOSE n \in 1..(SeatCount[x[1]] - x[2]) :
        /\ \A p \in x[2]..(x[2] + n - 1) : <<x[1], p>> \in free
        /\ <<x[1], x[2] + n>> \notin free

\* findFreeRuns.
Runs(free) ==
    {Slice(x[1], x[2], Reach(free, x)) : x \in {y \in free : <<y[1], y[2] - 1>> \notin free}}

Singletons(free) == UNION {SeatsOf(r) : r \in {s \in Runs(free) : s.n = 1}}

-----------------------------------------------------------------------------
(* Bestplatz; scores are two hundred times the source's, to keep them whole. *)

\* qualityScore: front rows, then the middle, then length.
Quality(s) ==
    20000 * RowOf[s.g] + 100 * Mag(2 * (FirstIndex[s.g] + s.from) + s.n - 21) - 400 * s.n

\* Mutant: a single seat left over costs what an odd number costs.
Lenient(left) == IF left = 0 THEN 0 ELSE 600 * Mag(4 - left)

\* scoreRemnants, of one of the two remnants.
Remnant(left) ==
    CASE left = 0 -> 0
      [] left = 1 -> 2000000
      [] OTHER -> (IF left < 4 THEN 600 * (4 - left) ELSE 0) + (IF left = 3 THEN 1600 ELSE 0)

Remnants(length, offset, n) == Remnant(offset) + Remnant(length - offset - n)

Scored(r, s) == Quality(s) + Remnants(r.n, s.from - r.from, s.n)

Slices(r, q) == {Slice(r.g, f, q) : f \in r.from..(r.from + r.n - q)}

\* pickBestSliceInRun: nearer to the run's middle if all else is equal.
InRun(r, q) ==
    Least(Slices(r, q),
          LAMBDA s : Scored(r, s) + 2 * Mag(s.from - r.from - ((r.n - q) \div 2)))

LongEnough(q) == {r \in Runs(Free) : r.n >= q}

Together(q) ==
    SeatsOf(InRun(Least(LongEnough(q), LAMBDA r : Scored(r, InRun(r, q))), q))

Remains(r, picked) == SeatsOf(r) \ picked

\* A chunk is n seats of what remains of a run that are still side by side.
Chunks(r, picked, rest) ==
    {c \in [run: {r}, of: UNION {Slices(r, n) : n \in 1..rest}] :
        /\ SeatsOf(c.of) \subseteq Remains(r, picked)
        /\ Cardinality(Remains(r, picked)) >= rest => c.of.n = rest}

ChunkScore(c, picked, rest) ==
    LET remains == Remains(c.run, picked)
        before == {x \in remains : x[2] < c.of.from}
        n == c.of.n
    IN  Quality(c.of) + Remnants(Cardinality(remains), Cardinality(before), n)
          + 16000 * (rest - n)
          + (IF n = 1 /\ rest > 1 THEN 8000 ELSE 0)
          + (IF rest >= 4 /\ n = rest - 1 THEN 8000 ELSE 0)

AnyOf(S, n) == CHOOSE T \in SUBSET S : Cardinality(T) = n

LastResort(picked, q) == picked \cup AnyOf(Free \ picked, q - Cardinality(picked))

\* pickPartitioned: chunk by chunk, and in the end whatever is free.
NextChunk(picked, q) ==
    LET rest == q - Cardinality(picked)
        chunks == UNION {Chunks(r, picked, rest) : r \in Runs(Free)} IN
    IF rest = 0 THEN picked
    ELSE IF chunks = {} THEN LastResort(picked, q)
    ELSE picked \cup SeatsOf(Least(chunks, LAMBDA c : ChunkScore(c, picked, rest)).of)

Scattered(q) ==
    LET picked[i \in 0..q] == IF i = 0 THEN {} ELSE NextChunk(picked[i - 1], q)
    IN  picked[q]

BestSeats(q) ==
    IF Cardinality(Free) < q THEN {}
    ELSE IF LongEnough(q) # {} THEN Together(q)
    ELSE Scattered(q)

Answers(kind, asked, got) ==
    /\ answer' = [kind |-> kind, asked |-> asked, free |-> Free, got |-> got]
    /\ taken' = taken \cup got

Best(q) == Answers("best", q, BestSeats(q))

-----------------------------------------------------------------------------
(* Wheelchair seats *)

PairScore(s) == 20000 * RowOf[s.g] + 100 * Mag(2 * (FirstIndex[s.g] + s.from) + s.n - 21)

PairsIn(free) == UNION {Slices(r, 2) : r \in {s \in Runs(free) : s.n >= 2}}

\* Mutant: a pair may share a seat with one that is picked already.
Unused(S, picked) == {s \in S : SeatsOf(s) \ picked # {}}

Disjoint(S, picked) == {s \in S : SeatsOf(s) \cap picked = {}}

\* pickBestAvailablePairs: greedily by score.
NextPair(picked) ==
    LET left == Disjoint(PairsIn(Free), picked) IN
    IF left = {} THEN picked
    ELSE picked \cup SeatsOf(Least(left, LAMBDA s : 100 * PairScore(s) + s.from))

BestPairs(k) ==
    LET picked[i \in 0..k] == IF i = 0 THEN {} ELSE NextPair(picked[i - 1])
    IN  IF Cardinality(picked[k]) = 2 * k THEN picked[k] ELSE {}

Pairs(k) == Answers("pairs", k, BestPairs(k))

Neighbours(x) == {<<x[1], x[2] + 1>>, <<x[1], x[2] - 1>>}

\* The seat after the chair, or else the one before it.
WithCompanion(used, x, pool) ==
    LET able == Neighbours(x) \cap (pool \ used) IN
    IF able = {} THEN used ELSE used \cup {Least(able, LAMBDA y : -y[2])}

\* assignCompanionSeats, of the chairs in the buyer's order.
Companions(chairs) ==
    LET pool == Free \ {chairs[i] : i \in DOMAIN chairs}
        used[i \in 0..Len(chairs)] ==
            IF i = 0 THEN {} ELSE WithCompanion(used[i - 1], chairs[i], pool)
    IN  IF Cardinality(used[Len(chairs)]) = Len(chairs) THEN used[Len(chairs)] ELSE {}

-----------------------------------------------------------------------------
(* Seats picked on the plan *)

\* computeOccupancyPercent, in tenths.
Relaxed ==
    (2000 * Cardinality(taken) + Cardinality(Places)) \div (2 * Cardinality(Places)) >= 10 * RelaxFrom

NewGaps(selected) == Singletons(Free \ selected) \ Singletons(Free)

\* validateSeatSelection.
Valid(selected) == Relaxed \/ NewGaps(selected) = {}

Select(selected) ==
    Answers("selected", selected, IF Valid(selected) THEN selected ELSE {})

\* The gap rule looks at the wheelchair seats alone.
SelectChairs(chairs) ==
    LET set == {chairs[i] : i \in DOMAIN chairs}
        with == Companions(chairs) IN
    /\ Valid(set)
    /\ Answers("chairs", chairs, IF with = {} THEN {} ELSE set \cup with)

\* A hold ends or a ticket is cancelled.
Vacate(x) ==
    /\ taken' = taken \ {x}
    /\ answer' = [kind |-> "vacated", asked |-> 0, free |-> {}, got |-> {}]

-----------------------------------------------------------------------------
ChoiceInit ==
    /\ taken = {}
    /\ answer = [kind |-> "none", asked |-> 0, free |-> {}, got |-> {}]

ChoiceNext ==
    \/ \E q \in 1..MaxAsked : Best(q)
    \/ \E k \in 1..(MaxAsked \div 2) : Pairs(k)
    \/ \E x \in Free : \E y \in Free : Select({x, y})
    \/ \E x \in Free : SelectChairs(<<x>>) \/ \E y \in Free \ {x} : SelectChairs(<<x, y>>)
    \/ \E x \in taken : Vacate(x)

ChoiceSpec == ChoiceInit /\ [][ChoiceNext]_choiceVars

-----------------------------------------------------------------------------
(* Properties *)

Gaps(free, got) == Singletons(free \ got) \ Singletons(free)

Runnable(free, q) == UNION {Slices(r, q) : r \in {s \in Runs(free) : s.n >= q}}

\* Bestplatz never refuses what can be seated and never gives part of it; it seats a
\* party together if that is possible anywhere, and then leaves a single seat over
\* only if every place for the party would.
BestFound ==
    answer.kind = "best" =>
        LET where == Runnable(answer.free, answer.asked) IN
        /\ Cardinality(answer.got) =
             IF Cardinality(answer.free) >= answer.asked THEN answer.asked ELSE 0
        /\ where # {} =>
             /\ \E s \in where : answer.got = SeatsOf(s)
             /\ Gaps(answer.free, answer.got) # {} =>
                   \A s \in where : Gaps(answer.free, SeatsOf(s)) # {}

\* Disjoint pairs that fit beside each other in the free runs.
PairRoom(free) == SumFunction([r \in Runs(free) |-> r.n \div 2])

Near(x, free) == {y \in free : y[1] = x[1] /\ Mag(y[2] - x[2]) = 1}

\* A search that takes the best pair first may cut runs in two, but it finds at
\* least half of the pairs there is room for, and none of them overlap.  Wheelchair
\* seats that do not compete for a neighbour get their companions exactly if each
\* has a free seat beside it.
NeighboursFound ==
    /\ answer.kind = "pairs" =>
         IF answer.got = {} THEN PairRoom(answer.free) < 2 * answer.asked - 1
         ELSE Cardinality(answer.got) = 2 * answer.asked
    /\ answer.kind = "chairs" =>
         LET chairs == {answer.asked[i] : i \in DOMAIN answer.asked}
             near(x) == Near(x, answer.free \ chairs) IN
         (\A x, y \in chairs : x # y => near(x) \cap near(y) = {}) =>
             (answer.got # {}) = (\A x \in chairs : near(x) # {})
=============================================================================
