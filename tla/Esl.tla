-------------------------------- MODULE Esl --------------------------------
(***************************************************************************)
(* The event socket between sbc-api and FreeSWITCH, internal/esl/esl.go:   *)
(* one TCP connection that carries the answers to commands and the hangup  *)
(* events, a mutex that admits one command at a time, a buffered channel   *)
(* of answers between the reading goroutine and the commands, and the      *)
(* Supervisor that dials again.                                            *)
(*                                                                         *)
(* The callers differ in the context they bring:                           *)
(*   Deadlined   gateways.Poller, /readyz: a deadline                      *)
(*   Cancelled   admin handlers: ends when the browser leaves, no deadline *)
(*   the others  Reconciler, the config renderer: ends with the process    *)
(*                                                                         *)
(* FreeSWITCH is external: it answers commands in the order it reads them. *)
(***************************************************************************)
EXTENDS Integers, Sequences, SequencesExt

CONSTANTS
    Callers, Deadlined, Cancelled,
    Renderer,      \* the caller onUp runs in Supervisor.Run
    Events,        \* hangup events FreeSWITCH will send
    ReplyCap,      \* capacity of Client.replies (16)
    MaxConns,      \* connections told apart; a number is used again once no
                   \* caller has the old one
    MaxAbandoned   \* bound on commands whose context ends before the answer

ASSUME CallersType ==
    /\ Deadlined \subseteq Callers /\ Cancelled \subseteq Callers \ Deadlined
    /\ Renderer \in Callers \ (Deadlined \cup Cancelled)
ASSUME EslBounds == ReplyCap \in Nat \ {0} /\ MaxConns \in Nat \ {0} /\ MaxAbandoned \in Nat

Conns == 1..MaxConns
Nobody == "nobody"

VARIABLES
    conn,       \* the last connection dialled, 0 before the first
    client,     \* Supervisor.client: a connection, or 0 for nil
    closed,     \* connections whose Client.closed is closed
    lost,       \* connections the network or FreeSWITCH broke
    sent,       \* per connection: commands FreeSWITCH has yet to answer
    wire,       \* per connection: packets the reading goroutine has to read
    replies,    \* per connection: Client.replies
    expiry,     \* per connection: the write deadline, "none", "ahead", "past"
    caller,     \* per caller: where its command stands, on which connection
    event,      \* per event: "due", "sent", "handled", "missed"
    abandoned   \* commands abandoned so far

eslVars == <<conn, client, closed, lost, sent, wire, replies, expiry, caller,
             event, abandoned>>

\* A packet: an event, or the answer to the command of a caller (of Nobody,
\* once the command has returned without it).
Answer(c) == [kind |-> "answer", by |-> c]
Event(e) == [kind |-> "event", by |-> e]

EslInit ==
    /\ conn = 0 /\ client = 0 /\ closed = {} /\ lost = {}
    /\ sent = [g \in Conns |-> <<>>]
    /\ wire = [g \in Conns |-> <<>>]
    /\ replies = [g \in Conns |-> <<>>]
    /\ expiry = [g \in Conns |-> "none"]
    /\ caller = [c \in Callers |-> [pc |-> "idle", on |-> 0]]
    /\ event = [e \in Events |-> "due"]
    /\ abandoned = 0

Waits(c) == caller[c].pc = "waiting"
Holds(c, g) == Waits(c) /\ caller[c].on = g

\* The answer of c, if it is still in the sequence, finds nobody.
Forsake(c, seq) == [i \in 1..Len(seq) |->
    IF seq[i] = Answer(c) THEN Answer(Nobody) ELSE seq[i]]

\* The command of c returns.
Returns(c) == caller' = [caller EXCEPT ![c] = [pc |-> "idle", on |-> 0]]

\* The command of c returns, and leaves rest in Client.replies.
Leaves(c, rest) ==
    LET g == caller[c].on IN
    /\ Returns(c)
    /\ replies' = [replies EXCEPT ![g] = Forsake(c, rest)]
    /\ wire' = [wire EXCEPT ![g] = Forsake(c, @)]
    /\ sent' = [sent EXCEPT ![g] = Forsake(c, @)]

-----------------------------------------------------------------------------
\* Supervisor.API takes the client; without one the command fails at once.
Ask(c) ==
    /\ c # Renderer /\ caller[c].pc = "idle" /\ client # 0
    /\ caller' = [caller EXCEPT ![c] = [pc |-> "asking", on |-> client]]
    /\ UNCHANGED <<conn, client, closed, lost, sent, wire, replies, expiry, event,
                   abandoned>>

\* Mutant: commands are not serialised.
NoMutex(g) == TRUE
\* Client.mu is free.
MutexFree(g) == \A d \in Callers : ~Holds(d, g)

\* The write deadline a command finds: its own, which may have passed while it
\* waited for the mutex, or the one an earlier command left.
WriteDeadlines(c, g) == IF c \in Deadlined THEN {"ahead", "past"} ELSE {expiry[g]}

\* fail(): the connection is closed, and what was on it is never read.  (A
\* command may still take an answer that is in the channel by then: the same
\* as taking it just before.)
Close(g) ==
    /\ closed' = closed \cup {g}
    /\ sent' = [sent EXCEPT ![g] = <<>>]
    /\ wire' = [wire EXCEPT ![g] = <<>>]
    /\ replies' = [replies EXCEPT ![g] = <<>>]
    /\ expiry' = [expiry EXCEPT ![g] = "none"]
    /\ event' = [e \in Events |->
                    IF event[e] = "sent" /\ g = conn THEN "missed" ELSE event[e]]

\* Client.command up to the write.  A write after the deadline fails, and
\* fail() closes the connection.
Send(c) ==
    LET g == caller[c].on IN
    /\ caller[c].pc = "asking" /\ MutexFree(g)
    /\ \/ /\ g \in closed
          /\ Returns(c)
          /\ UNCHANGED <<sent, wire, replies, expiry, closed, event>>
       \/ /\ g \notin closed /\ "past" \in WriteDeadlines(c, g)
          /\ Returns(c) /\ Close(g)
       \/ /\ g \notin closed
          /\ \E d \in WriteDeadlines(c, g) \ {"past"} :
                expiry' = [expiry EXCEPT ![g] = d]
          /\ sent' = [sent EXCEPT ![g] = Append(@, Answer(c))]
          /\ caller' = [caller EXCEPT ![c].pc = "waiting"]
          /\ UNCHANGED <<wire, replies, closed, event>>
    /\ UNCHANGED <<conn, client, lost, abandoned>>

\* Mutant: a command takes nothing but its own answer from the channel.
ReceiveOwn(c) ==
    /\ Waits(c) /\ replies[caller[c].on] # <<>>
    /\ Head(replies[caller[c].on]) = Answer(c)
    /\ Leaves(c, Tail(replies[caller[c].on]))
    /\ UNCHANGED <<conn, client, closed, lost, expiry, event, abandoned>>
\* select: a packet from Client.replies, whichever it is.
Receive(c) ==
    /\ Waits(c) /\ replies[caller[c].on] # <<>>
    /\ Leaves(c, Tail(replies[caller[c].on]))
    /\ UNCHANGED <<conn, client, closed, lost, expiry, event, abandoned>>

\* select: the connection is closed.
Broken(c) ==
    /\ Waits(c) /\ caller[c].on \in closed
    /\ Returns(c)
    /\ UNCHANGED <<conn, client, closed, lost, sent, wire, replies, expiry, event,
                   abandoned>>

\* select: the context ends first.  The answer is still to come, and nobody
\* will take it from the channel.
Abandon(c) ==
    LET g == caller[c].on IN
    /\ Waits(c) /\ abandoned < MaxAbandoned
    /\ c \in Cancelled \/ (c \in Deadlined /\ expiry[g] = "past")
    /\ abandoned' = abandoned + 1
    /\ Leaves(c, replies[g])
    /\ UNCHANGED <<conn, client, closed, lost, expiry, event>>

\* The deadline of the last command that had one passes; SetWriteDeadline is
\* never reset.
DeadlinePasses(g) ==
    /\ expiry[g] = "ahead"
    /\ expiry' = [expiry EXCEPT ![g] = "past"]
    /\ UNCHANGED <<conn, client, closed, lost, sent, wire, replies, caller, event,
                   abandoned>>

-----------------------------------------------------------------------------
\* FreeSWITCH answers the oldest command.
SwitchAnswers(g) ==
    /\ sent[g] # <<>> /\ g \notin closed
    /\ sent' = [sent EXCEPT ![g] = Tail(@)]
    /\ wire' = [wire EXCEPT ![g] = Append(@, Head(sent[g]))]
    /\ UNCHANGED <<conn, client, closed, lost, replies, expiry, caller, event, abandoned>>

\* A call hangs up; the event goes to the subscriber, if there is one.
SwitchSends(e) ==
    /\ event[e] = "due"
    /\ IF conn # 0 /\ conn \notin closed
       THEN /\ event' = [event EXCEPT ![e] = "sent"]
            /\ wire' = [wire EXCEPT ![conn] = Append(@, Event(e))]
       ELSE event' = [event EXCEPT ![e] = "missed"] /\ UNCHANGED wire
    /\ UNCHANGED <<conn, client, closed, lost, sent, replies, expiry, caller, abandoned>>

\* readLoop can put an answer into Client.replies.
Room(g) == Len(replies[g]) < ReplyCap

\* readLoop: an event is handed to the handler, which starts a goroutine; an
\* answer is put into the channel, and the loop blocks while it is full.
Read(g) ==
    LET p == Head(wire[g]) IN
    /\ wire[g] # <<>> /\ g \notin closed
    /\ wire' = [wire EXCEPT ![g] = Tail(@)]
    /\ \/ /\ p.kind = "event"
          /\ event' = [event EXCEPT ![p.by] = "handled"]
          /\ UNCHANGED replies
       \/ /\ p.kind = "answer" /\ Room(g)
          /\ replies' = [replies EXCEPT ![g] = Append(@, p)]
          /\ UNCHANGED event
    /\ UNCHANGED <<conn, client, closed, lost, sent, expiry, caller, abandoned>>

\* The network or FreeSWITCH ends the connection; readLoop fails.
Drop(g) ==
    /\ g = conn /\ g \notin closed
    /\ Close(g)
    /\ lost' = lost \cup {g}
    /\ UNCHANGED <<conn, client, caller, abandoned>>

\* Supervisor.Run: Dial and Subscribe succeed, the client is published and
\* onUp renders the configuration.
Connect ==
    LET g == 1 + (conn % MaxConns) IN
    /\ client = 0 /\ \A c \in Callers : caller[c].on # g
    /\ conn' = g
    /\ client' = g
    /\ closed' = closed \ {g}
    /\ lost' = lost \ {g}
    /\ caller' = [caller EXCEPT ![Renderer] = [pc |-> "asking", on |-> g]]
    /\ UNCHANGED <<sent, wire, replies, expiry, event, abandoned>>

\* Supervisor.Run, past onUp, sees c.Done().
Disconnect ==
    /\ client \in closed /\ caller[Renderer].pc = "idle"
    /\ client' = 0
    /\ UNCHANGED <<conn, closed, lost, sent, wire, replies, expiry, caller, event,
                   abandoned>>

-----------------------------------------------------------------------------
CallerNext(c) == Ask(c) \/ Send(c) \/ Receive(c) \/ Broken(c) \/ Abandon(c)
ConnNext(g) == DeadlinePasses(g) \/ SwitchAnswers(g) \/ Read(g) \/ Drop(g)

EslNext ==
    \/ \E c \in Callers : CallerNext(c)
    \/ \E g \in Conns : ConnNext(g)
    \/ \E e \in Events : SwitchSends(e)
    \/ Connect \/ Disconnect

\* Goroutines and the Supervisor run, FreeSWITCH answers while the connection
\* stands, and the poller comes back every ten seconds.  sync.Mutex does not
\* starve a waiter.
EslFairness ==
    /\ \A c \in Callers : SF_eslVars(Send(c)) /\ WF_eslVars(Receive(c) \/ Broken(c))
    /\ \A c \in Deadlined : WF_eslVars(Ask(c))
    /\ \A g \in Conns : WF_eslVars(SwitchAnswers(g)) /\ WF_eslVars(Read(g))
    /\ WF_eslVars(Connect) /\ WF_eslVars(Disconnect)

EslSpec == EslInit /\ [][EslNext]_eslVars
FairEslSpec == EslSpec /\ EslFairness

-----------------------------------------------------------------------------
(***************************************************************************)
(* Properties.                                                             *)
(***************************************************************************)

IsAnswer(p) == p.kind = "answer"
\* The answers still to be taken on connection g, oldest first.
Outstanding(g) == replies[g] \o SelectSeq(wire[g], IsAnswer) \o sent[g]

\* The answer to a waiting command is always still to come, and only answers
\* to abandoned commands are before it: none is lost, taken by another caller
\* that still runs, or overtaken.
WaitsForOwn ==
    \A c \in Callers, g \in Conns \ closed : Holds(c, g) =>
        /\ Outstanding(g) # <<>>
        /\ Last(Outstanding(g)) = Answer(c)
        /\ Len(Outstanding(g)) <= abandoned + 1

\* Every command returns: the mutex, the channel of answers and the reading
\* goroutine never wait for each other.
CommandsReturn == \A c \in Callers : caller[c].pc # "idle" ~> caller[c].pc = "idle"

\* A hangup event that reached the connection is handled, however many
\* answers nobody waits for are before it, unless the connection ends.
EventsHandled == \A e \in Events : event[e] = "sent" ~> event[e] \in {"handled", "missed"}

\* "API runs a blocking api command and returns its response body."
OwnReply ==
    \A c \in Callers, g \in Conns : Holds(c, g) /\ replies[g] # <<>> =>
        Head(replies[g]) = Answer(c)

\* "Done is closed when the connection is lost."
ClosedWhenLost == closed \subseteq lost

=============================================================================
