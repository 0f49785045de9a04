----------------------------- MODULE TableCache -----------------------------
(***************************************************************************)
(* One cached table of internal/tables/tables.go (a rate deck, a route     *)
(* group, area codes, the block list, header rules, exchange rates: all    *)
(* are loaded the same way), read by the handlers of calls while operators *)
(* change the rows and the change is announced over Redis.                 *)
(*                                                                         *)
(* A copy of the rows is known by how long ago it was superseded: -1 while *)
(* it is current, else ticks since the first change it misses.             *)
(***************************************************************************)
EXTENDS Integers

CONSTANTS
    Handlers,  \* concurrent calls
    MaxAge,    \* ticks after which a table is loaded again
    MaxLoad    \* a load takes at most this many ticks (the request's deadline)

ASSUME CacheBounds == MaxAge \in Nat \ {0} /\ MaxLoad \in Nat

Horizon == MaxAge + MaxLoad
Later(copy) == IF copy = -1 \/ copy > Horizon THEN copy ELSE copy + 1
Superseded(copy) == IF copy = -1 THEN 0 ELSE copy

VARIABLES
    table,    \* [here, age, copy, excused]: excused, its invalidation was lost or came too soon
    load,     \* per handler: [at, copy, ticks, excused]
    message,  \* an invalidation is under way
    served    \* what a handler was given last while the database answers

tabVars == <<table, load, message, served>>

NoTable == [here |-> FALSE, age |-> 0, copy |-> -1, excused |-> FALSE]
Ready == [at |-> "idle", copy |-> -1, ticks |-> 0, excused |-> FALSE]

TabInit ==
    /\ table = NoTable
    /\ load = [h \in Handlers |-> Ready]
    /\ message = FALSE
    /\ served = -1

\* Mutant: a table stays good as long as it is asked for.
FreshWhileAsked(t) == t.here

Fresh(t) == t.here /\ t.age < MaxAge

\* A handler finds a fresh table and is served, ...
Hit(h) ==
    /\ load[h].at = "idle" /\ Fresh(table)
    /\ served' = table.copy
    /\ UNCHANGED <<table, load, message>>

\* ... or finds none and asks the database.
Miss(h) ==
    /\ load[h].at = "idle" /\ ~Fresh(table)
    /\ load' = [load EXCEPT ![h] = [Ready EXCEPT !.at = "asked"]]
    /\ UNCHANGED <<table, message, served>>

\* The query reads the rows as they are now.
Queried(h) ==
    /\ load[h].at = "asked"
    /\ load' = [load EXCEPT ![h].at = "rows"]
    /\ UNCHANGED <<table, message, served>>

\* The query fails: the table found before is served, however old.
QueryFails(h) ==
    /\ load[h].at = "asked"
    /\ load' = [load EXCEPT ![h] = Ready]
    /\ UNCHANGED <<table, message, served>>

\* The rows are built into a table, published, and served.
Publish(h) ==
    /\ load[h].at = "rows"
    /\ table' = [here |-> TRUE, age |-> 0, copy |-> load[h].copy, excused |-> load[h].excused]
    /\ served' = load[h].copy
    /\ load' = [load EXCEPT ![h] = Ready]
    /\ UNCHANGED message

\* An operator changes the rows and the change is announced.
Change ==
    /\ table' = [table EXCEPT !.copy = Superseded(@)]
    /\ load' = [h \in Handlers |-> IF load[h].at = "rows" THEN [load[h] EXCEPT !.copy = Superseded(@)] ELSE load[h]]
    /\ served' = Superseded(served)
    /\ message' = TRUE

\* The loads whose rows miss a change that will not be announced again.
Overtaken == [h \in Handlers |-> [load[h] EXCEPT !.excused = @ \/ load[h].copy # -1]]

\* Listen drops the table.
Invalidate ==
    /\ message /\ message' = FALSE
    /\ table' = NoTable
    /\ load' = Overtaken
    /\ UNCHANGED served

\* Redis does not keep a message for a subscriber that is away.
MessageLost ==
    /\ message /\ message' = FALSE
    /\ table' = [table EXCEPT !.excused = @ \/ table.copy # -1]
    /\ load' = Overtaken
    /\ UNCHANGED served

Tick ==
    /\ \A h \in Handlers : load[h].at # "idle" => load[h].ticks < MaxLoad
    /\ table' = IF table.here
                THEN [table EXCEPT !.age = IF @ < MaxAge THEN @ + 1 ELSE @, !.copy = Later(@)] ELSE table
    /\ load' = [h \in Handlers |-> IF load[h].at = "idle" THEN load[h]
                                   ELSE [load[h] EXCEPT !.ticks = @ + 1, !.copy = Later(@)]]
    /\ served' = -1
    /\ UNCHANGED message

TabNext ==
    \/ \E h \in Handlers : Hit(h) \/ Miss(h) \/ Queried(h) \/ QueryFails(h) \/ Publish(h)
    \/ Change \/ Invalidate \/ MessageLost \/ Tick

TabSpec == TabInit /\ [][TabNext]_tabVars

-----------------------------------------------------------------------------
\* While the database answers, no call is priced or routed with rows that were
\* superseded MaxAge plus a load ago or earlier, even when every invalidation
\* is lost or overtaken by a slow load.
StaleBounded == served < MaxAge + MaxLoad

\* A table that misses a change is about to be invalidated, unless the message
\* was lost or a load that had read the rows before the change came after it.
StaleHasReason == table.here /\ table.copy # -1 => message \/ table.excused
=============================================================================
