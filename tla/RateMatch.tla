----------------------------- MODULE RateMatch -----------------------------
(***************************************************************************)
(* Which rate a number gets: the rows in force are read (EffectiveRates),  *)
(* a digit trie is built from them (internal/prefix/trie.go) and walked,   *)
(* and the answer is compared with the reference query LongestPrefixSQL.   *)
(***************************************************************************)
EXTENDS Integers, Sequences, FiniteSets, FiniteSetsExt, SequencesExt

CONSTANTS
    DigitChars,  \* the digits
    OtherChar,   \* a character that is no digit
    RatePool,    \* rows an operator may enter: [prefix, from, to, enabled]
    MaxRows,     \* bound on rows in the rate group
    Instants     \* the times at which the table is loaded

VARIABLES
    rateRows,  \* the rows of the rate group
    loadTime,  \* when the table is loaded
    trie       \* [nodes, value], or no trie yet

matVars == <<rateRows, loadTime, trie>>

Forever == 0  \* effective_to IS NULL
EmptyTrie == [nodes |-> {<<>>}, value |-> << >>]
NotLoaded == [nodes |-> {}, value |-> << >>]

\* UNIQUE (rate_group_id, prefix, effective_from).
OneRowPerKey(rows) ==
    \A a, b \in rows : a.prefix = b.prefix /\ a.from = b.from => a = b

MatInit ==
    /\ rateRows \in {r \in UNION {kSubset(k, RatePool) : k \in 0..MaxRows} : OneRowPerKey(r)}
    /\ loadTime \in Instants
    /\ trie = NotLoaded

InForce(r, at) == r.enabled /\ r.from <= at /\ (r.to = Forever \/ r.to > at)

\* Mutant: the oldest of the rows of a prefix that are in force is taken.
EffectiveOldest(rows, at) ==
    {r \in rows : InForce(r, at) /\ \A o \in rows : InForce(o, at) /\ o.prefix = r.prefix => r.from <= o.from}

\* SELECT DISTINCT ON (prefix) ... ORDER BY prefix, effective_from DESC.
EffectiveRates(rows, at) ==
    {r \in rows : InForce(r, at) /\ \A o \in rows : InForce(o, at) /\ o.prefix = r.prefix => r.from >= o.from}

\* Insert: the nodes on the way are made as digits are met, and stay when a
\* later character is none; only a prefix of digits gets a value.
Insert(t, r) ==
    LET digits == {i \in 0..Len(r.prefix) : \A j \in 1..i : r.prefix[j] \in DigitChars}
        nodes == t.nodes \union {SubSeq(r.prefix, 1, i) : i \in digits}
    IN IF Len(r.prefix) \in digits
       THEN [nodes |-> nodes, value |-> [p \in DOMAIN t.value \union {r.prefix} |->
                                            IF p = r.prefix THEN r ELSE t.value[p]]]
       ELSE [t EXCEPT !.nodes = nodes]

\* Match: how far the walk gets, and the last value it passes.
Walk(t, number) ==
    Max({i \in 0..Len(number) :
            \A j \in 1..i : number[j] \in DigitChars /\ SubSeq(number, 1, j) \in t.nodes})
Match(t, number) ==
    LET passed == {i \in 0..Walk(t, number) : SubSeq(number, 1, i) \in DOMAIN t.value}
    IN {t.value[SubSeq(number, 1, i)] : i \in {i \in passed : \A j \in passed : j <= i}}

\* rateTrie: the rows in force go into a new trie, in the order of the query.
LoadRates ==
    /\ trie = NotLoaded
    /\ trie' = FoldSet(LAMBDA r, t : Insert(t, r), EmptyTrie, EffectiveRates(rateRows, loadTime))
    /\ UNCHANGED <<rateRows, loadTime>>

MatNext == LoadRates

-----------------------------------------------------------------------------
\* LongestPrefixSQL: the first row by length of prefix, then by start, among
\* the rows in force whose prefix begins the number.
LongestPrefixSQL(rows, number, at) ==
    LET like == {r \in rows : InForce(r, at) /\ IsPrefix(r.prefix, number)}
        Before(a, b) == \/ Len(a.prefix) > Len(b.prefix)
                        \/ Len(a.prefix) = Len(b.prefix) /\ a.from >= b.from
    IN {r \in like : \A o \in like : Before(r, o)}

\* Whatever is dialled, digits or not, the trie that prices the call and the
\* query that the admin page compares it with give the same row.
TrieAgreesWithSql ==
    trie # NotLoaded =>
        \A number \in BoundedSeq(DigitChars \union {OtherChar}, 3) :
            Match(trie, number) = LongestPrefixSQL(rateRows, number, loadTime)
=============================================================================
