------------------------------ MODULE Watchdog ------------------------------
(***************************************************************************)
(* The watchdog (cmd/sbc-watchdog, internal/watchdog/notify.go): passes    *)
(* that compare the checks with a state file, mail alerts and recoveries,  *)
(* and save the file, while an operator opens and closes maintenance       *)
(* windows by writing the same file.  A pass is a process of its own,      *)
(* started by a timer one after the other; the mail may fail.              *)
(***************************************************************************)
EXTENDS Naturals, FiniteSets

CONSTANTS
    Checks,           \* the checks of a pass
    RepeatAfter,      \* minutes after which a lasting problem is mailed again
    MaxLevelChanges,  \* bound on changes of a check's level and reboots
    MaxMutes,         \* bound on maintenance commands
    MaxUnsent         \* bound on mails that fail

Levels == {"ok", "warn", "fail"}
AllOk == [k \in Checks |-> "ok"]
Problems(r) == {k \in Checks : r[k] # "ok"}

VARIABLES
    level,     \* how each check would come out now
    rebooted,  \* the host has restarted since the state file's LastBoot
    file,      \* the state file: [failing, age, mute]
    pass,      \* [at, found, boot, state, send]: the process between its steps
    told,      \* what the last mails that arrived say of each check
    unsent,    \* mails that failed
    missed,    \* a mail failed, or its pass died before it saved the state
    levelChanges, mutes

wdVars == <<level, rebooted, file, pass, told, unsent, missed, levelChanges, mutes>>

\* mute: "no" (zero time), "open", or "over" until a pass clears it.
EmptyFile == [failing |-> AllOk, age |-> RepeatAfter, mute |-> "no"]
Between == [at |-> "idle", found |-> AllOk, boot |-> FALSE, state |-> EmptyFile, send |-> "nothing"]

WdInit ==
    /\ level = AllOk /\ told = AllOk
    /\ rebooted = FALSE /\ file = EmptyFile /\ pass = Between
    /\ missed = FALSE /\ unsent = 0 /\ levelChanges = 0 /\ mutes = 0

LevelChanges(k, l) ==
    /\ levelChanges < MaxLevelChanges /\ levelChanges' = levelChanges + 1
    /\ l # level[k] /\ level' = [level EXCEPT ![k] = l]
    /\ UNCHANGED <<rebooted, file, pass, told, unsent, missed, mutes>>

HostReboots ==
    /\ levelChanges < MaxLevelChanges /\ levelChanges' = levelChanges + 1
    /\ rebooted' = TRUE /\ pass' = Between
    /\ missed' = (missed \/ pass.at = "sent")
    /\ UNCHANGED <<level, file, told, unsent, mutes>>

\* Time passes for LastAlert and for the window.
Older(s) == [s EXCEPT !.age = IF @ < RepeatAfter THEN @ + 1 ELSE @, !.mute = IF @ = "open" THEN "over" ELSE @]

MinutePasses ==
    /\ file # Older(file) \/ pass.state # Older(pass.state)
    /\ file' = Older(file)
    /\ pass' = [pass EXCEPT !.state = Older(@)]
    /\ UNCHANGED <<level, rebooted, told, unsent, missed, levelChanges, mutes>>

\* sbc-watchdog -mute, -unmute: the file is loaded, changed and saved.
Mute(on) ==
    /\ mutes < MaxMutes /\ mutes' = mutes + 1
    /\ file' = [file EXCEPT !.mute = IF on THEN "open" ELSE "no"]
    /\ UNCHANGED <<level, rebooted, pass, told, unsent, missed, levelChanges>>

\* watchdog.Run: the checks are made.
RunChecks ==
    /\ pass.at = "idle"
    /\ pass' = [Between EXCEPT !.at = "checked", !.found = level, !.boot = rebooted]
    /\ UNCHANGED <<level, rebooted, file, told, unsent, missed, levelChanges, mutes>>

\* Problems that were not alerted at this level before.
New(found, s) == {k \in Problems(found) : s.failing[k] # found[k]}

\* Mutant: a lasting problem is mailed once.
AlertsOnce(found, boot, s) == New(found, s) # {} \/ boot

\* The alert's three reasons: something new, something lasting, a reboot.
Alerts(found, boot, s) ==
    \/ New(found, s) # {}
    \/ Problems(found) # {} /\ s.age >= RepeatAfter
    \/ boot

Recovers(found, s) == Problems(found) = {} /\ Problems(s.failing) # {}

\* Muted: the window is open when the pass decides.
Held(found, s) == s.mute = "open"

\* Decide on the state file as it is now.  While muted nothing is sent and the
\* remembered problems stay; else they become the ones of this pass.
LoadAndDecide ==
    LET s == file
        sends == IF Alerts(pass.found, pass.boot, s) THEN "alert"
                 ELSE IF Recovers(pass.found, s) THEN "recovery" ELSE "nothing"
    IN
    /\ pass.at = "checked"
    /\ pass' = [pass EXCEPT !.at = "decided",
            !.send = IF Held(pass.found, s) THEN "nothing" ELSE sends,
            !.state = IF Held(pass.found, s) THEN s
                      ELSE [failing |-> pass.found, mute |-> "no",
                            age |-> IF sends = "nothing" THEN s.age ELSE 0]]
    /\ UNCHANGED <<level, rebooted, file, told, unsent, missed, levelChanges, mutes>>

\* The mail is sent, or fails and is logged.
SendMail(ok) ==
    /\ pass.at = "decided"
    /\ ok \/ (pass.send # "nothing" /\ unsent < MaxUnsent)
    /\ unsent' = IF ok THEN unsent ELSE unsent + 1
    /\ told' = IF ok /\ pass.send # "nothing" THEN pass.found ELSE told
    /\ missed' = (missed \/ ~ok)
    /\ pass' = [pass EXCEPT !.at = "sent"]
    /\ UNCHANGED <<level, rebooted, file, levelChanges, mutes>>

\* The state is saved in either case, over whatever was saved meanwhile.
SaveState ==
    /\ pass.at = "sent"
    /\ file' = pass.state
    /\ rebooted' = (rebooted /\ ~pass.boot)
    /\ pass' = Between
    /\ UNCHANGED <<level, told, unsent, missed, levelChanges, mutes>>

PassStep == RunChecks \/ LoadAndDecide \/ SendMail(TRUE) \/ SaveState

WdNext ==
    \/ \E k \in Checks, l \in Levels : LevelChanges(k, l)
    \/ HostReboots \/ MinutePasses
    \/ \E on \in BOOLEAN : Mute(on)
    \/ RunChecks \/ LoadAndDecide \/ SaveState
    \/ \E ok \in BOOLEAN : SendMail(ok)

-----------------------------------------------------------------------------
\* In the end the mails that arrived tell the state of every check, though
\* mails fail, passes die and windows hold mails back: a lasting problem is
\* always told.  Only that all is well again may stay untold, when a mail
\* failed or a pass died, because nothing repeats it.
OperatorKnows == <>[](told = level \/ (missed /\ Problems(level) = {}))
=============================================================================
