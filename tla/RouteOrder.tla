----------------------------- MODULE RouteOrder -----------------------------
(***************************************************************************)
(* The order in which the carriers of a route are dialled                  *)
(* (internal/callcontrol/order.go; RouteWith builds its input): sorted by  *)
(* a key with weighted draws inside equal keys, or, in percent mode, a     *)
(* first carrier drawn by share; degraded carriers go last.  Every random  *)
(* draw is a choice.                                                       *)
(***************************************************************************)
EXTENDS Integers, Sequences, FiniteSets, FiniteSetsExt, SequencesExt

CONSTANTS
    PercentRoutes,  \* candidate lists tried in percent mode
    KeyedRoutes     \* candidate lists tried in the other modes
                    \* a candidate: [prio, weight, degraded, rate, quality]

VARIABLES
    cands,      \* the usable carriers, in the route's order
    modes,      \* [percent, lcr, quality]
    remaining,  \* indexes that are not placed yet
    order,      \* the dial order so far
    stage       \* "sort", "draw" or "done"

ordVars == <<cands, modes, remaining, order, stage>>

Indexes == 1..Len(cands)

OrdInit ==
    /\ \/ cands \in PercentRoutes /\ modes = [percent |-> TRUE, lcr |-> FALSE, quality |-> FALSE]
       \/ cands \in KeyedRoutes /\ modes \in [percent : {FALSE}, lcr : BOOLEAN, quality : BOOLEAN]
    /\ remaining = <<>> /\ order = <<>> /\ stage = "sort"

\* keyOf: what a mode leaves out is zero; the tier is negated, best first.
keyOf(i) == <<IF modes.quality THEN 0 - cands[i].quality ELSE 0,
              IF modes.lcr THEN cands[i].rate ELSE 0,
              cands[i].prio>>
KeyLess(a, b) ==
    \E k \in 1..3 : a[k] < b[k] /\ \A j \in 1..(k - 1) : a[j] = b[j]

\* percentOrder's comparison: the larger share, then the priority.
ShareLess(i, j) ==
    \/ cands[i].weight > cands[j].weight
    \/ cands[i].weight = cands[j].weight /\ cands[i].prio < cands[j].prio

\* The mode's comparison, and sort.SliceStable with it: what compares equal
\* stays in the route's order.
Less(i, j) == IF modes.percent THEN ShareLess(i, j) ELSE KeyLess(keyOf(i), keyOf(j))
SortedIndexes == SetToSortSeq(Indexes, LAMBDA i, j : Less(i, j) \/ (~Less(j, i) /\ i < j))

\* The indexes are sorted for the mode.
Sort ==
    /\ stage = "sort" /\ stage' = "draw"
    /\ remaining' = SortedIndexes
    /\ UNCHANGED <<cands, modes, order>>

AtLeastOne(w) == IF w > 1 THEN w ELSE 1
ShareTotal(shares) == FoldLeft(+, 0, shares)

\* Mutant: the loop ends on zero as well.
ChosenOffByOne(shares, pick) ==
    Min({j \in 1..Len(shares) : pick <= ShareTotal(SubSeq(shares, 1, j))})

\* The loop that takes shares off the number drawn until it is below zero.
Chosen(shares, pick) ==
    Min({j \in 1..Len(shares) : pick < ShareTotal(SubSeq(shares, 1, j))})

\* weightedShuffle: a carrier of the first group of equal keys is drawn; a
\* weight of zero counts as one.
FirstGroup == SubSeq(remaining, 1, Max({n \in 1..Len(remaining) :
                        \A k \in 1..n : keyOf(remaining[k]) = keyOf(remaining[1])}))
GroupShares == [j \in DOMAIN FirstGroup |-> AtLeastOne(cands[FirstGroup[j]].weight)]

DrawNext ==
    /\ stage = "draw" /\ ~modes.percent /\ remaining # <<>>
    /\ \E pick \in 0..(ShareTotal(GroupShares) - 1) :
          LET j == Chosen(GroupShares, pick) IN
          /\ order' = Append(order, remaining[j])
          /\ remaining' = RemoveAt(remaining, j)
    /\ UNCHANGED <<cands, modes, stage>>

\* percentOrder: one carrier is drawn by share to the front, the others follow
\* as sorted.  Without any share nothing is drawn.
PercentShares == [j \in DOMAIN remaining |-> cands[remaining[j]].weight]
PercentOrder(pick) ==
    LET first == IF ShareTotal(PercentShares) = 0 THEN 1 ELSE Chosen(PercentShares, pick)
    IN <<remaining[first]>> \o RemoveAt(remaining, first)

DrawFirst ==
    /\ stage = "draw" /\ modes.percent /\ remaining # <<>>
    /\ \E pick \in 0..Max({0, ShareTotal(PercentShares) - 1}) : order' = PercentOrder(pick)
    /\ remaining' = <<>>
    /\ UNCHANGED <<cands, modes, stage>>

\* Degraded last, stable.
DegradedLast(o) ==
    SelectSeq(o, LAMBDA i : ~cands[i].degraded) \o SelectSeq(o, LAMBDA i : cands[i].degraded)

Finish ==
    /\ stage = "draw" /\ remaining = <<>> /\ stage' = "done"
    /\ order' = DegradedLast(order)
    /\ UNCHANGED <<cands, modes, remaining>>

OrdNext == Sort \/ DrawNext \/ DrawFirst \/ Finish

-----------------------------------------------------------------------------
\* Each carrier is dialled once, every healthy one before every degraded one,
\* and among carriers of the same health a worse key is never dialled before a
\* better one, whatever was drawn; in percent mode only the first of its
\* health may stand before a larger share.
DialOrder ==
    stage = "done" =>
        /\ Len(order) = Len(cands) /\ ToSet(order) = Indexes
        /\ \A a, b \in Indexes : a < b =>
              LET i == order[a]
                  j == order[b]
              IN \/ ~cands[i].degraded /\ cands[j].degraded
                 \/ /\ cands[i].degraded = cands[j].degraded
                    /\ IF modes.percent
                       THEN \/ ~ShareLess(j, i)
                            \/ \A c \in 1..(a - 1) : cands[order[c]].degraded # cands[i].degraded
                       ELSE ~KeyLess(keyOf(j), keyOf(i))

\* Shares are exact: of all the numbers that can be drawn, as many put a
\* carrier in front as its weight says.  The share of the degraded carriers
\* goes to the healthy carrier with the largest share, not to all of them.
SharesExact ==
    stage = "draw" /\ remaining # <<>> =>
        IF modes.percent
        THEN LET front(pick) == Head(DegradedLast(PercentOrder(pick)))
                 healthy == SelectSeq(remaining, LAMBDA i : ~cands[i].degraded)
                 lost == MapThenSumSet(LAMBDA i : cands[i].weight, {i \in Indexes : cands[i].degraded})
                 due(i) == IF healthy = <<>> THEN cands[i].weight
                           ELSE IF cands[i].degraded THEN 0
                           ELSE cands[i].weight + (IF i = healthy[1] THEN lost ELSE 0)
             IN \A i \in Indexes :
                   Cardinality({pick \in 0..(ShareTotal(PercentShares) - 1) : front(pick) = i}) = due(i)
        ELSE \A j \in DOMAIN FirstGroup :
                Cardinality({pick \in 0..(ShareTotal(GroupShares) - 1) : Chosen(GroupShares, pick) = j})
                    = AtLeastOne(cands[FirstGroup[j]].weight)

\* Calls go to the carriers as the route says, in order and in proportion.
DialledAsConfigured == DialOrder /\ SharesExact
=============================================================================
