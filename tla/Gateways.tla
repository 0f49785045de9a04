------------------------------ MODULE Gateways ------------------------------
(***************************************************************************)
(* The carriers' gateways on their way from the database into FreeSWITCH:  *)
(* Renderer.RenderGateways and applyGatewayChanges                         *)
(* (internal/fsconfig/fsconfig.go), called by the admin handler that saves *)
(* a carrier, by the listener for its announcement (listeners.go) and      *)
(* after every ESL connect (wiring.go).                                    *)
(*                                                                         *)
(* A gateway's definition is a model value.  Renders run one at a time     *)
(* under the renderer's mutex, but each reads the carriers before it takes *)
(* the mutex (their endpoints, read with the mutex, come with them here),  *)
(* and the commands to FreeSWITCH are steps of their own.  Postgres and    *)
(* the disk are assumed to answer.                                         *)
(***************************************************************************)
EXTENDS Naturals

CONSTANTS
    Gateways,    \* gateway names
    Definitions, \* what a gateway file can say
    None,        \* no gateway of that name
    MaxEdits,    \* bound on changes of the carriers
    MaxDrops     \* bound on lost connections and restarts

Renderers == {"admin", "listener", "connect"}
Tables == [Gateways -> Definitions \cup {None}]

VARIABLES
    carriers,   \* the gateways that the active carriers in the database want
    edits,      \* changes so far: the version of carriers
    files,      \* the files in the gateways directory
    hashes,     \* Renderer.gateways, by content
    pending,    \* Renderer.pendingKills
    sofia,      \* the gateways FreeSWITCH has loaded
    up,         \* Supervisor.Connected
    called,     \* the renderers that have been called
    render,     \* per renderer: [at, want, version]
    drops,
    forgotten,  \* names that were pending when the process ended
    newest,     \* the newest version of carriers that was rendered
    rendered    \* the version the files were last rendered from

saved == <<carriers, edits>>
written == <<files, hashes, newest, rendered>>
gwVars == <<saved, written, pending, sofia, up, called, render, drops, forgotten>>

NoGateways == [g \in Gateways |-> None]
Idle == [at |-> "idle", want |-> NoGateways, version |-> 0]
Wanted(table) == {g \in Gateways : table[g] # None}

\* FreeSWITCH starts with the files that the initial render wrote.
GwInit ==
    /\ carriers \in Tables
    /\ files = carriers /\ hashes = carriers /\ sofia = carriers
    /\ edits = 0 /\ drops = 0 /\ newest = 0 /\ rendered = 0
    /\ pending = {} /\ forgotten = {} /\ called = {}
    /\ up = TRUE
    /\ render = [r \in Renderers |-> Idle]

\* An operator saves a carrier; the handler goes on to render.
Edit(g, d) ==
    /\ edits < MaxEdits
    /\ "admin" \notin called /\ render["admin"].at = "idle"
    /\ carriers[g] # d
    /\ carriers' = [carriers EXCEPT ![g] = d]
    /\ edits' = edits + 1
    /\ called' = called \cup {"admin"}
    /\ UNCHANGED <<written, pending, sofia, up, render, drops, forgotten>>

\* RenderGateways is called and reads the carriers.
BeginRender(r) ==
    /\ render[r].at = "idle" /\ r \in called
    /\ called' = called \ {r}
    /\ render' = [render EXCEPT ![r] = [at |-> "read", want |-> carriers, version |-> edits]]
    /\ UNCHANGED <<saved, written, pending, sofia, up, drops, forgotten>>

\* RenderGateways returns; the handler announces the change.
EndRender(r) ==
    /\ render' = [render EXCEPT ![r] = Idle]
    /\ called' = IF r = "admin" THEN called \cup {"listener"} ELSE called

\* applyGatewayChanges first strikes the names that are wanted.
StillToKill(kills, want) == kills \ Wanted(want)

\* With the mutex: stale files are removed, new and changed ones written, and
\* both remembered to be killed.
Render(r) ==
    LET want == render[r].want
        gone == Wanted(files) \ Wanted(want)
        changed == {g \in Wanted(want) \cap Wanted(hashes) : hashes[g] # want[g]}
    IN
    /\ render[r].at = "read"
    /\ \A q \in Renderers : render[q].at # "apply"
    /\ files' = want
    /\ hashes' = [g \in Gateways |-> IF g \in gone \cup Wanted(want) THEN want[g] ELSE hashes[g]]
    /\ pending' = StillToKill(pending \cup gone \cup changed, want)
    /\ rendered' = render[r].version
    /\ newest' = IF render[r].version > newest THEN render[r].version ELSE newest
    /\ IF up THEN render' = [render EXCEPT ![r].at = "apply"] /\ UNCHANGED called
       ELSE EndRender(r)
    /\ UNCHANGED <<saved, sofia, up, drops, forgotten>>

\* killgw for one pending name; "no such gateway" is as good as done.
Kill(r, g) ==
    /\ render[r].at = "apply" /\ up
    /\ g \in pending
    /\ sofia' = [sofia EXCEPT ![g] = None]
    /\ pending' = pending \ {g}
    /\ forgotten' = forgotten \ {g}
    /\ UNCHANGED <<saved, written, up, called, render, drops>>

\* FreeSWITCH: rescan loads the files of gateways it does not have, and
\* leaves the ones it has as they are.
Loaded == [g \in Gateways |-> IF sofia[g] = None THEN files[g] ELSE sofia[g]]

\* After the last kill the profile is rescanned.
Rescan(r) ==
    /\ render[r].at = "apply" /\ up
    /\ pending = {}
    /\ sofia' = Loaded
    /\ EndRender(r)
    /\ UNCHANGED <<saved, written, pending, up, drops, forgotten>>

\* A command gets no answer: the connection is gone, or the operator's request
\* ends first.
NoAnswer(r) ==
    /\ render[r].at = "apply"
    /\ IF up THEN r = "admin" /\ drops < MaxDrops /\ drops' = drops + 1
       ELSE UNCHANGED drops

\* The command was carried out or not; the render ends, and what was not seen
\* to be killed stays pending.
CommandFails(r) ==
    /\ NoAnswer(r) /\ EndRender(r)
    /\ \/ UNCHANGED sofia
       \/ \E g \in pending : sofia' = [sofia EXCEPT ![g] = None]
       \/ pending = {} /\ sofia' = Loaded
    /\ UNCHANGED <<saved, written, pending, up, forgotten>>

SocketDrops ==
    /\ up /\ drops < MaxDrops
    /\ up' = FALSE /\ drops' = drops + 1
    /\ UNCHANGED <<saved, written, pending, sofia, called, render, forgotten>>

Reconnects ==
    /\ ~up /\ up' = TRUE
    /\ "connect" \notin called /\ render["connect"].at = "idle"
    /\ UNCHANGED <<saved, written, pending, sofia, render, drops, forgotten>>

\* Mutant: nothing is rendered after a reconnect.
SocketUpQuietly == Reconnects /\ UNCHANGED called

\* The supervisor connects; its callback renders everything.
SocketUp == Reconnects /\ called' = called \cup {"connect"}

\* FreeSWITCH restarts and loads the files it finds.
RestartFreeSWITCH ==
    /\ drops < MaxDrops /\ drops' = drops + 1
    /\ sofia' = files
    /\ up' = FALSE
    /\ forgotten' = {}
    /\ UNCHANGED <<saved, written, pending, called, render>>

\* sbc-api restarts: its maps are empty, and it renders before it connects.
RestartAPI ==
    /\ drops < MaxDrops /\ drops' = drops + 1
    /\ hashes' = NoGateways /\ pending' = {}
    /\ forgotten' = forgotten \cup pending
    /\ render' = [r \in Renderers |-> Idle]
    /\ called' = {"listener"} /\ up' = FALSE
    /\ UNCHANGED <<saved, files, newest, rendered, sofia>>

Apply(r) == Render(r) \/ (\E g \in Gateways : Kill(r, g)) \/ Rescan(r) \/ CommandFails(r)

GwNext ==
    \/ \E g \in Gateways, d \in Definitions \cup {None} : Edit(g, d)
    \/ \E r \in Renderers : BeginRender(r) \/ Apply(r)
    \/ SocketDrops \/ SocketUp \/ RestartFreeSWITCH \/ RestartAPI

GwFairness ==
    /\ \A r \in Renderers : WF_gwVars(BeginRender(r)) /\ WF_gwVars(Apply(r))
    /\ WF_gwVars(SocketUp)

GwSpec == GwInit /\ [][GwNext]_gwVars /\ GwFairness

-----------------------------------------------------------------------------
\* The files come from carriers older than some that were rendered before.
Behind == rendered < newest

\* A gateway that is loaded without a file is remembered for a kill, or it was
\* when the process ended: pendingKills of fsconfig.go.
StaleIsPending ==
    \A g \in Gateways : sofia[g] # None /\ files[g] = None => g \in pending \cup forgotten

\* FreeSWITCH never loses a gateway that has a file: a rename that was undone
\* before the kill was delivered costs no calls (applyGatewayChanges).
KillsOnlyUnwanted ==
    [][\A g \in Gateways : sofia[g] # None /\ sofia'[g] = None => files[g] = None]_gwVars

\* In the end FreeSWITCH has a gateway exactly for the names the carriers
\* want, through lost connections and restarts, unless a restart forgot its
\* kill or an older render wrote the files last.
GatewaysFollow ==
    <>[](\/ Behind
         \/ \A g \in Gateways : (sofia[g] # None <=> carriers[g] # None) \/ g \in forgotten)

\* "Changed or removed gateways are killed first so the rescan picks up the
\* new definition" (fsconfig.go:59): in the end FreeSWITCH has the definition
\* that the carriers have now.
ChangedIsApplied ==
    <>[](Behind \/ \A g \in Gateways : sofia[g] = carriers[g] \/ g \in forgotten)
=============================================================================
