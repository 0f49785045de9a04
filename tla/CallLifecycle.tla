--------------------------- MODULE CallLifecycle ---------------------------
(***************************************************************************)
(* A call from INVITE to its settled CDR, on top of the tables of Billing: *)
(*                                                                         *)
(*   the Lua script of the call     freeswitch/scripts/sbc/pipeline.lua    *)
(*   the Setup handler              internal/callcontrol/pipeline.go       *)
(*   billing trigger 1, ESL event   cmd/sbc-api/wiring.go:122-155          *)
(*   billing trigger 2, mod_json_cdr internalapi.go:251-290, the spool and *)
(*                                  replay_json_cdr.sh                     *)
(*   billing trigger 3, reconciler  internal/billing/reconcile.go          *)
(*                                                                         *)
(* Each node runs one FreeSWITCH and one sbc-api; Postgres is shared.      *)
(* FreeSWITCH itself is external: the script runs in the session thread,   *)
(* so the hangup event follows its end; mod_json_cdr posts, retries and    *)
(* spools in CS_REPORTING; `show channels` lists a channel until it is     *)
(* destroyed, after that.                                                  *)
(*                                                                         *)
(* Every fault (a failing transaction, a lost reply, a crash, a dropped    *)
(* connection) spends one of MaxFaults.                                    *)
(***************************************************************************)
EXTENDS Billing

CONSTANTS
    Nodes,       \* SBC nodes
    Node,        \* Node[c]: the node call c arrives on
    Overrun,     \* the price of one billing increment: what a call may cost
                 \* beyond the funds max_call_seconds is computed from (D-21)
    MaxFaults,   \* bound on faults
    MayDie       \* nodes that may be lost for good

ASSUME NodeType == Node \in [Calls -> Nodes]
ASSUME OverrunType == Overrun \in Nat
ASSUME FaultsType == MaxFaults \in Nat /\ MayDie \subseteq Nodes
ASSUME FreeCallsOccur == 0 \in Money

VARIABLES
    chan,    \* the a-leg: "idle", "waiting" (for setup), "dialing",
             \* "talking", "hangup", "reporting", "gone"
    talk,    \* what the hangup variables say: carrier, price and cost
    evt,     \* CHANNEL_HANGUP_COMPLETE: "none", "queued" (a goroutine of the
             \* API bills it), "over"
    post,    \* mod_json_cdr: "none", "trying", "done", "spooled",
             \* "replayed", "lost"
    age,     \* age of the reservation: "fresh", "stale" (started_at +
             \* orphan_timeout passed), "expired" (expires_at + it passed)
    apiUp,   \* the nodes whose API process runs
    eslUp,   \* the nodes whose ESL connection stands
    dead,    \* nodes lost for good
    rec,     \* per node: the reconciler's pass
    faults   \* faults so far

lifeVars == <<chan, talk, evt, post, age, apiUp, eslUp, dead, rec, faults>>
allVars == <<vars, lifeVars>>

Idle == [pc |-> "idle", by |-> "clock", cand |-> {}]
Silent == [winner |-> NoCarrier, price |-> 0, buy |-> 0]

LifeInit ==
    /\ Init
    /\ chan = [c \in Calls |-> "idle"]
    /\ talk = [c \in Calls |-> Silent]
    /\ evt = [c \in Calls |-> "none"]
    /\ post = [c \in Calls |-> "none"]
    /\ age = [c \in Calls |-> "fresh"]
    /\ apiUp = Nodes
    /\ eslUp = Nodes
    /\ dead = {}
    /\ rec = [n \in Nodes |-> Idle]
    /\ faults = 0

Fault == faults < MaxFaults /\ faults' = faults + 1
Served(c) == Node[c] \in apiUp
SetupOver(c) == setup[c] \in {"dial", "rejected", "failed"}

-----------------------------------------------------------------------------
(***************************************************************************)
(* The Setup handler of a call whose request reached the API.              *)
(***************************************************************************)

\* One step of the handler.  The request context is cancelled when the
\* script gives up, which a step under way may or may not notice.
Handle(c) ==
    /\ chan[c] # "idle" /\ Served(c)
    /\ \/ SetupReject(c)
       \/ \E amount \in Money : ReserveRead(c, amount)
       \/ ReserveCommit(c)
       \/ ReserveLost(c)
       \/ RouteFound(c)
       \/ RouteNone(c)
    /\ UNCHANGED lifeVars

\* The handler ends with an error: a fault of Redis or Postgres, a caller
\* that is gone, or its process was killed.
HandleError(c) ==
    /\ chan[c] # "idle"
    /\ SetupError(c)
    /\ \/ Fault
       \/ UNCHANGED faults /\ (chan[c] # "waiting" \/ ~Served(c))
    /\ UNCHANGED <<chan, talk, evt, post, age, apiUp, eslUp, dead, rec>>

-----------------------------------------------------------------------------
(***************************************************************************)
(* pipeline.run in Lua, and the channel around it.                         *)
(***************************************************************************)

\* An INVITE arrives and the script posts /call/setup.
Invite(c) ==
    /\ chan[c] = "idle" /\ Node[c] \notin dead
    /\ chan' = [chan EXCEPT ![c] = "waiting"]
    /\ UNCHANGED <<vars, talk, evt, post, age, apiUp, eslUp, dead, rec, faults>>

\* The reply: dial, or a rejection to pass on (an error fails closed, 503).
SetupReply(c) ==
    /\ chan[c] = "waiting" /\ SetupOver(c)
    /\ chan' = [chan EXCEPT ![c] = IF setup[c] = "dial" THEN "dialing" ELSE "hangup"]
    /\ UNCHANGED <<vars, talk, evt, post, age, apiUp, eslUp, dead, rec, faults>>

\* curl's two seconds pass, the connection breaks, or the caller hangs up:
\* the script leaves while the handler may still be at work.
GiveUp(c) ==
    /\ chan[c] = "waiting" /\ Fault
    /\ chan' = [chan EXCEPT ![c] = "hangup"]
    /\ UNCHANGED <<vars, talk, evt, post, age, apiUp, eslUp, dead, rec>>

\* The report of an attempt is stored, or the API could not be reached.
Report(c, k, outcome) ==
    \/ Served(c) /\ AppendAttempt(c, k, outcome) /\ UNCHANGED faults
    \/ ~Served(c) /\ UNCHANGED <<vars, faults>>
    \/ Fault /\ UNCHANGED vars

\* A carrier failed; the script goes on to the next one, or ends: the
\* verdict says stop, the caller left, or the report failed.
AttemptFails(c, k) ==
    /\ chan[c] = "dialing"
    /\ Report(c, k, "failed")
    /\ \/ attempts'[c] # attempts[c] /\ UNCHANGED chan
       \/ chan' = [chan EXCEPT ![c] = "hangup"]
    /\ UNCHANGED <<talk, evt, post, age, apiUp, eslUp, dead, rec>>

\* A carrier answers; execute_on_answer schedules the hangup.
Answer(c, k) ==
    /\ chan[c] = "dialing"
    /\ chan' = [chan EXCEPT ![c] = "talking"]
    /\ talk' = [talk EXCEPT ![c].winner = k]
    /\ UNCHANGED <<vars, evt, post, age, apiUp, eslUp, dead, rec, faults>>

\* No carrier is left to try, all were skipped, or the caller is gone.
DialEnds(c) ==
    /\ chan[c] = "dialing"
    /\ chan' = [chan EXCEPT ![c] = "hangup"]
    /\ UNCHANGED <<vars, talk, evt, post, age, apiUp, eslUp, dead, rec, faults>>

\* sched_hangup +max_call_seconds: the price of what was talked is within the
\* funds Reserve read, up to one increment (Rating!PriceOfMaxSeconds).
WithinFunds(c, price) == price <= quote[c].available + Overrun

\* The bridge ends and the script reports the answered attempt.
EndTalk(c, price, buy) ==
    /\ chan[c] = "talking"
    /\ WithinFunds(c, price)
    /\ talk' = [talk EXCEPT ![c] = [@ EXCEPT !.price = price, !.buy = buy]]
    /\ Report(c, talk[c].winner, "answered")
    /\ chan' = [chan EXCEPT ![c] = "hangup"]
    /\ UNCHANGED <<evt, post, age, apiUp, eslUp, dead, rec>>

\* CS_HANGUP: the event goes to whoever is connected now.
HangupComplete(c) ==
    /\ chan[c] = "hangup"
    /\ chan' = [chan EXCEPT ![c] = "reporting"]
    /\ evt' = [evt EXCEPT ![c] =
                IF Served(c) /\ Node[c] \in eslUp THEN "queued" ELSE "over"]
    /\ post' = [post EXCEPT ![c] = "trying"]
    /\ UNCHANGED <<vars, talk, age, apiUp, eslUp, dead, rec, faults>>

\* The channel is destroyed once mod_json_cdr is done with it.
Destroy(c) ==
    /\ chan[c] = "reporting" /\ post[c] \notin {"none", "trying"}
    /\ chan' = [chan EXCEPT ![c] = "gone"]
    /\ UNCHANGED <<vars, talk, evt, post, age, apiUp, eslUp, dead, rec, faults>>

-----------------------------------------------------------------------------
(***************************************************************************)
(* The billing triggers.                                                   *)
(***************************************************************************)

\* Mutant: a hangup without a CDR writes one.
BillInsertsCDR(c, h) ==
    IF NotBilled(c) THEN Bill(c, h.winner, h.price, h.buy)
    ELSE /\ cdr' = [cdr EXCEPT ![c] = "billed"]
         /\ UNCHANGED <<moneyVars, charged, released, cost, attempts, open, held,
                        entries, setup, quote, posts>>
\* Engine.Bill with the variables of a hangup: NoCDR and AlreadyBilled are
\* successes that change nothing.
BillHangup(c, h) ==
    IF NotBilled(c) THEN Bill(c, h.winner, h.price, h.buy) ELSE UNCHANGED vars

\* onESLEvent's goroutine: one try, 15 s; an error is logged and dropped, and
\* the process may die under it.
EslBill(c) ==
    /\ evt[c] = "queued"
    /\ evt' = [evt EXCEPT ![c] = "over"]
    /\ \/ Served(c) /\ BillHangup(c, talk[c]) /\ UNCHANGED faults
       \/ Served(c) /\ Fault /\ UNCHANGED vars
       \/ ~Served(c) /\ UNCHANGED <<vars, faults>>
    /\ UNCHANGED <<chan, talk, post, age, apiUp, eslUp, dead, rec>>

\* POST /internal/v1/cdr.  It answers 200 when Bill committed or had nothing
\* to do; the answer may be lost, and mod_json_cdr then posts again.
JsonPost(c) ==
    /\ chan[c] = "reporting" /\ post[c] = "trying" /\ Served(c)
    /\ BillHangup(c, talk[c])
    /\ \/ post' = [post EXCEPT ![c] = "done"] /\ UNCHANGED faults
       \/ Fault /\ UNCHANGED post
    /\ UNCHANGED <<chan, talk, evt, age, apiUp, eslUp, dead, rec>>

\* Every retry failed: the document goes to the spool directory.
JsonSpool(c) ==
    /\ chan[c] = "reporting" /\ post[c] = "trying"
    /\ post' = [post EXCEPT ![c] = "spooled"]
    /\ \/ Fault
       \/ ~Served(c) /\ UNCHANGED faults
    /\ UNCHANGED <<vars, chan, talk, evt, age, apiUp, eslUp, dead, rec>>

\* The operator runs replay_json_cdr.sh.
Replay(c) ==
    /\ post[c] = "spooled" /\ Served(c) /\ Node[c] \notin dead
    /\ BillHangup(c, talk[c])
    /\ post' = [post EXCEPT ![c] = "replayed"]
    /\ UNCHANGED <<chan, talk, evt, age, apiUp, eslUp, dead, rec, faults>>

-----------------------------------------------------------------------------
(***************************************************************************)
(* Reconciler.Once, every minute on every node.                            *)
(***************************************************************************)

\* Mutant: a connected node trusts its events and looks for nothing.
ExpiredOnly(n) == IF n \in eslUp THEN {} ELSE {c \in open : age[c] = "expired"}
\* StaleActiveCalls of this node when ESL is up, ExpiredActiveCalls of every
\* node otherwise.
Candidates(n) ==
    IF n \in eslUp
    THEN {c \in open : Node[c] = n /\ age[c] \in {"stale", "expired"}}
    ELSE {c \in open : age[c] = "expired"}

RecList(n) ==
    /\ n \in apiUp /\ rec[n].pc = "idle"
    /\ Candidates(n) # {}
    /\ rec' = [rec EXCEPT ![n] =
            [pc |-> "listed", by |-> IF n \in eslUp THEN "channels" ELSE "clock",
             cand |-> Candidates(n)]]
    /\ UNCHANGED <<vars, chan, talk, evt, post, age, apiUp, eslUp, dead, faults>>

\* Mutant: a channel in CS_REPORTING is taken for gone.
ListedBridged(n) ==
    {c \in Calls : Node[c] = n /\ chan[c] \in {"waiting", "dialing", "talking"}}
\* `show channels` on the FreeSWITCH of node n.
LiveChannels(n) ==
    {c \in Calls : Node[c] = n /\ chan[c] \notin {"idle", "gone"}}

\* Mutant: billing what was listed without asking FreeSWITCH.
ListedAnyway(n) == rec[n].cand
\* What the pass goes on to bill.
Orphans(n) == IF rec[n].by = "channels" THEN rec[n].cand \ LiveChannels(n) ELSE rec[n].cand

\* The channel list arrives; without a connection the pass fails, and a pass
\* begun without ESL does not ask.
RecShow(n) ==
    /\ n \in apiUp /\ rec[n].pc = "listed"
    /\ rec' = [rec EXCEPT ![n] =
            IF (rec[n].by = "channels" /\ n \notin eslUp) \/ Orphans(n) = {} THEN Idle
            ELSE [rec[n] EXCEPT !.pc = "billing", !.cand = Orphans(n)]]
    /\ UNCHANGED <<vars, chan, talk, evt, post, age, apiUp, eslUp, dead, faults>>

\* Bill the next orphan with cause ORPHANED and no answer time; an error is
\* logged and the pass goes on.
RecBill(n, c) ==
    /\ n \in apiUp /\ rec[n].pc = "billing" /\ c \in rec[n].cand
    /\ rec' = [rec EXCEPT ![n] =
            IF rec[n].cand = {c} THEN Idle
            ELSE [rec[n] EXCEPT !.cand = rec[n].cand \ {c}]]
    /\ \/ BillHangup(c, Silent) /\ UNCHANGED faults
       \/ Fault /\ UNCHANGED vars
    /\ UNCHANGED <<chan, talk, evt, post, age, apiUp, eslUp, dead>>

-----------------------------------------------------------------------------
(***************************************************************************)
(* Time and faults.                                                        *)
(***************************************************************************)

\* The reservation grows old.  orphan_timeout (10 min) is far beyond the time
\* a setup takes; expires_at + orphan_timeout leaves ten minutes for dialling
\* and reporting around the four hours sched_hangup allows at most, so the
\* channel is assumed destroyed when it passes.
Ageing(c) ==
    /\ chan[c] # "idle" /\ SetupOver(c)
    /\ \/ age[c] = "fresh" /\ age' = [age EXCEPT ![c] = "stale"]
       \/ /\ age[c] = "stale" /\ chan[c] = "gone"
          /\ age' = [age EXCEPT ![c] = "expired"]
    /\ UNCHANGED <<vars, chan, talk, evt, post, apiUp, eslUp, dead, rec, faults>>

ApiCrash(n) ==
    /\ n \in apiUp /\ Fault
    /\ apiUp' = apiUp \ {n}
    /\ eslUp' = eslUp \ {n}
    /\ rec' = [rec EXCEPT ![n] = Idle]
    /\ UNCHANGED <<vars, chan, talk, evt, post, age, dead>>

\* A new process: what the old one had under way has ended with it.
ApiStart(n) ==
    /\ n \notin apiUp /\ n \notin dead
    /\ \A c \in Calls : Node[c] = n =>
            evt[c] # "queued" /\ (SetupOver(c) \/ chan[c] = "idle")
    /\ apiUp' = apiUp \cup {n}
    /\ UNCHANGED <<vars, chan, talk, evt, post, age, eslUp, dead, rec, faults>>

EslDrop(n) ==
    /\ n \in eslUp /\ Fault
    /\ eslUp' = eslUp \ {n}
    /\ UNCHANGED <<vars, chan, talk, evt, post, age, apiUp, dead, rec>>

\* Supervisor.Run dials again until it succeeds.
EslConnect(n) ==
    /\ n \in apiUp /\ n \notin eslUp
    /\ eslUp' = eslUp \cup {n}
    /\ UNCHANGED <<vars, chan, talk, evt, post, age, apiUp, dead, rec, faults>>

\* The channels of node n vanish without an event or a CDR.
DropChannels(n) ==
    /\ chan' = [c \in Calls |-> IF Node[c] = n /\ chan[c] # "idle"
                                THEN "gone" ELSE chan[c]]
    /\ post' = [c \in Calls |-> IF Node[c] = n /\ chan[c] # "idle"
                                        /\ post[c] \in {"none", "trying"}
                                THEN "lost" ELSE post[c]]

FsCrash(n) ==
    /\ n \notin dead /\ Fault
    /\ DropChannels(n)
    /\ eslUp' = eslUp \ {n}
    /\ UNCHANGED <<vars, talk, evt, age, apiUp, dead, rec>>

\* The box dies and does not return.
NodeDies(n) ==
    /\ n \in MayDie \ dead /\ Fault
    /\ DropChannels(n)
    /\ dead' = dead \cup {n}
    /\ apiUp' = apiUp \ {n}
    /\ eslUp' = eslUp \ {n}
    /\ rec' = [rec EXCEPT ![n] = Idle]
    /\ UNCHANGED <<vars, talk, evt, age>>

-----------------------------------------------------------------------------
Hangs(c) == \E price, buy \in Money : EndTalk(c, price, buy)

CallNext(c) ==
    \/ Handle(c) \/ HandleError(c)
    \/ Invite(c) \/ SetupReply(c) \/ GiveUp(c)
    \/ \E k \in Carriers : AttemptFails(c, k) \/ Answer(c, k)
    \/ DialEnds(c) \/ Hangs(c)
    \/ HangupComplete(c) \/ Destroy(c)
    \/ EslBill(c) \/ JsonPost(c) \/ JsonSpool(c) \/ Replay(c)
    \/ Ageing(c)

NodeNext(n) ==
    \/ RecList(n) \/ RecShow(n) \/ \E c \in Calls : RecBill(n, c)
    \/ ApiCrash(n) \/ ApiStart(n)
    \/ EslDrop(n) \/ EslConnect(n)
    \/ FsCrash(n) \/ NodeDies(n)

LifeNext == (\E c \in Calls : CallNext(c)) \/ (\E n \in Nodes : NodeNext(n))

\* The handler runs to its end (its context ends with the request), the
\* script and the channel do, a call ends by sched_hangup, time passes, the
\* ticker of the reconciler fires, compose restarts the API and Supervisor
\* reconnects.  Nothing makes an operator replay the spool.
Fairness ==
    /\ \A c \in Calls :
        /\ WF_allVars(Handle(c) \/ HandleError(c))
        /\ WF_allVars(SetupReply(c)) /\ WF_allVars(DialEnds(c))
        /\ WF_allVars(Hangs(c)) /\ WF_allVars(HangupComplete(c))
        /\ WF_allVars(EslBill(c)) /\ WF_allVars(JsonPost(c) \/ JsonSpool(c))
        /\ WF_allVars(Destroy(c)) /\ WF_allVars(Ageing(c))
    /\ \A n \in Nodes :
        /\ WF_allVars(RecList(n)) /\ WF_allVars(RecShow(n))
        /\ WF_allVars(\E c \in Calls : RecBill(n, c))
        /\ WF_allVars(ApiStart(n)) /\ WF_allVars(EslConnect(n))

LifeSpec == LifeInit /\ [][LifeNext]_allVars
FairLifeSpec == LifeSpec /\ Fairness

-----------------------------------------------------------------------------
(***************************************************************************)
(* Properties.                                                             *)
(***************************************************************************)

ChanStates == {"idle", "waiting", "dialing", "talking", "hangup", "reporting", "gone"}
PostStates == {"none", "trying", "done", "spooled", "replayed", "lost"}
Hangups == [winner : Carriers \cup {NoCarrier}, price : Money, buy : Money]
Passes == [pc : {"idle", "listed", "billing"}, by : {"channels", "clock"}, cand : SUBSET Calls]

LifeTypeOK ==
    /\ chan \in [Calls -> ChanStates]
    /\ talk \in [Calls -> Hangups]
    /\ evt \in [Calls -> {"none", "queued", "over"}]
    /\ post \in [Calls -> PostStates]
    /\ age \in [Calls -> {"fresh", "stale", "expired"}]
    /\ apiUp \subseteq Nodes
    /\ eslUp \subseteq Nodes
    /\ dead \subseteq Nodes
    /\ rec \in [Nodes -> Passes]
    /\ faults \in 0..MaxFaults

\* No trigger settles a call that still runs: while the script dials or the
\* parties talk, the CDR is pending and the reservation stands.  The
\* reconciler decides from a list of rows, then a list of channels, then
\* bills; calls and faults move between the three.
LiveIsOpen ==
    \A c \in Calls : chan[c] \in {"dialing", "talking"} =>
        c \in open /\ cdr[c] = "pending"

\* A call whose CDR document was delivered, or still is being delivered, is
\* settled at its price: the reconciler, which charges nothing, never comes
\* before trigger 2.
DeliveredIsCharged ==
    \A c \in Calls : post[c] \in {"trying", "done"} /\ cdr[c] = "billed" =>
        charged[c] = talk[c].price

\* Whatever the call, the triggers and the faults do to the tables is what
\* Billing allows, so all that is proved of Billing holds here.
TablesSpec == Spec

\* "This can push balance + allowed_credit below zero by at most one
\* increment" (D-21).
FundsFloor == \A a \in Customers : balance[a] + credit[a] >= -Overrun

\* Every reservation of a node that is not lost for good is released in the
\* end, whatever events, posts, processes and connections were lost.
HoldsEnd == \A c \in Calls : c \in open ~> c \notin open \/ Node[c] \in dead

\* "or by any node after max_call_duration + orphan_timeout": so are those of
\* a dead node while another one lives.
DeadHoldsEnd == \A c \in Calls : c \in open ~> c \notin open \/ dead = Nodes

\* "calls in progress continue and are billed when the API is back
\* (mod_json_cdr spools, make replay-cdrs)": a replayed call was charged.
ReplayedIsCharged ==
    \A c \in Calls : post[c] = "replayed" => charged[c] = talk[c].price

=============================================================================
