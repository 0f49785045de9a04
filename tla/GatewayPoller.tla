--------------------------- MODULE GatewayPoller ---------------------------
(***************************************************************************)
(* Poller.Once and gwlist (internal/gateways/poller.go): the map of        *)
(* gateway states that routing asks, filled from two commands to           *)
(* FreeSWITCH while the gateways go on changing.  A poll that fails leaves *)
(* the map as it is.                                                       *)
(***************************************************************************)
EXTENDS Naturals

CONSTANTS
    Polled,      \* gateways of the profile
    MaxChanges,  \* bound on changes of a gateway or of the connection
    MaxErrors    \* bound on commands that fail

VARIABLES
    status,   \* what FreeSWITCH knows: "UP", "DOWN" or "GONE"
    linked,   \* Supervisor.Connected
    poll,     \* [at, up, moved]: the list of gateways up, and those that changed since
    states,   \* Poller.states, "UNKNOWN" when there is no entry
    checked,  \* gateways that have not changed since a poll saw them begin to end
    changes,
    errors

pollVars == <<status, linked, poll, states, checked, changes, errors>>

Resting == [at |-> "rest", up |-> {}, moved |-> {}]
Listed(which) == {g \in Polled : status[g] = which}

PollInit ==
    /\ status \in [Polled -> {"UP", "DOWN"}]
    /\ linked = TRUE
    /\ poll = Resting
    /\ states = [g \in Polled |-> "UNKNOWN"]
    /\ checked = {}
    /\ changes = 0 /\ errors = 0

\* FreeSWITCH: a gateway's OPTIONS pings fail or succeed again, or it is
\* killed or loaded.
GatewayChanges(g, s) ==
    /\ changes < MaxChanges /\ s # status[g]
    /\ status' = [status EXCEPT ![g] = s]
    /\ poll' = [poll EXCEPT !.moved = @ \cup {g}]
    /\ checked' = checked \ {g}
    /\ changes' = changes + 1
    /\ UNCHANGED <<linked, states, errors>>

\* The connection is lost, and found again.
LinkDrops ==
    /\ linked /\ changes < MaxChanges
    /\ linked' = FALSE /\ changes' = changes + 1
    /\ UNCHANGED <<status, poll, states, checked, errors>>

LinkReturns ==
    /\ ~linked /\ linked' = TRUE
    /\ UNCHANGED <<status, poll, states, checked, changes, errors>>

\* The first list, of gateways that are up.
ListUp ==
    /\ poll.at = "rest" /\ linked
    /\ poll' = [at |-> "listed", up |-> Listed("UP"), moved |-> {}]
    /\ UNCHANGED <<status, linked, states, checked, changes, errors>>

\* The new map: down wins over up, and a gateway in neither list loses its entry.
Seen(up, down) ==
    [g \in Polled |-> IF g \in down THEN "DOWN" ELSE IF g \in up THEN "UP" ELSE "UNKNOWN"]

\* Mutant: an empty list is taken for an error.
ListDownNotEmpty ==
    /\ poll.at = "listed" /\ linked
    /\ poll' = Resting
    /\ IF Listed("DOWN") = {}
       THEN UNCHANGED <<states, checked>>
       ELSE states' = Seen(poll.up, Listed("DOWN")) /\ checked' = Polled \ poll.moved
    /\ UNCHANGED <<status, linked, changes, errors>>

\* The second list, of gateways that are down (an empty one is no error), and the new map.
ListDown ==
    /\ poll.at = "listed" /\ linked
    /\ states' = Seen(poll.up, Listed("DOWN"))
    /\ checked' = Polled \ poll.moved
    /\ poll' = Resting
    /\ UNCHANGED <<status, linked, changes, errors>>

\* The second command fails or times out: the poll is given up.
PollFails ==
    /\ poll.at = "listed"
    /\ ~linked \/ errors < MaxErrors
    /\ errors' = IF linked THEN errors + 1 ELSE errors
    /\ poll' = Resting
    /\ UNCHANGED <<status, linked, states, checked, changes>>

Poll == ListUp \/ ListDown \/ (~linked /\ PollFails)

PollNext ==
    \/ \E g \in Polled, s \in {"UP", "DOWN", "GONE"} : GatewayChanges(g, s)
    \/ LinkDrops \/ LinkReturns
    \/ ListUp \/ ListDown \/ PollFails

-----------------------------------------------------------------------------
\* A gateway that did not change from the start of a poll has, once the poll
\* has succeeded and as long as it does not change, the state that FreeSWITCH
\* gives it, whatever the other gateways and later failing polls do.
StatesTruthful ==
    \A g \in checked : states[g] = IF status[g] = "GONE" THEN "UNKNOWN" ELSE status[g]

\* A gateway that stays down is kept out of routing in the end, and one that
\* stays up or is gone is not: the ticker polls again after every failure.
StatesFollow == <>[](\A g \in Polled : states[g] = "DOWN" <=> status[g] = "DOWN")
=============================================================================
