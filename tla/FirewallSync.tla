---------------------------- MODULE FirewallSync ----------------------------
(***************************************************************************)
(* sbc-fwsync (cmd/sbc-fwsync/main.go): the host firewall's sets follow    *)
(* the export that sbc-api writes and the addresses its carriers' names    *)
(* resolve to.  The n-th content of the export is n, and so is its         *)
(* modification time; a script is what a content and a resolution give.    *)
(***************************************************************************)
EXTENDS Naturals

CONSTANTS
    MaxWrites,    \* bound on exports written
    MaxDns,       \* bound on changes of a name's address
    MaxFailures   \* bound on nft or boot file failures and reboots

VARIABLES
    export,    \* the n of the file
    dns,       \* what the names resolve to
    sets,      \* the script that the kernel's sets come from
    boot,      \* the script in the boot file
    fw,        \* the process: [at, mod, script, force]
    lastMod, lastScript,
    due,       \* resolve-every has passed since lastResolve
    nftFailures,
    refused    \* the script for lastMod was not applied

fwVars == <<export, dns, sets, boot, fw, lastMod, lastScript, due, nftFailures, refused>>

NoScript == <<0, 0>>
Asleep == [at |-> "idle", mod |-> 0, script |-> NoScript, force |-> FALSE]

FwInit ==
    /\ export = 1 /\ dns = 1
    /\ sets = NoScript /\ boot = NoScript
    /\ fw = [Asleep EXCEPT !.force = TRUE]
    /\ lastMod = 0 /\ lastScript = NoScript
    /\ due = TRUE /\ nftFailures = 0 /\ refused = FALSE

\* RenderACLs writes the export, by a rename.
WriteExport ==
    /\ export < MaxWrites /\ export' = export + 1
    /\ UNCHANGED <<dns, sets, boot, fw, lastMod, lastScript, due, nftFailures, refused>>

NameMoves ==
    /\ dns < MaxDns /\ dns' = dns + 1
    /\ UNCHANGED <<export, sets, boot, fw, lastMod, lastScript, due, nftFailures, refused>>

ResolveDue ==
    /\ ~due /\ due' = TRUE
    /\ UNCHANGED <<export, dns, sets, boot, fw, lastMod, lastScript, nftFailures, refused>>

\* Mutant: only a changed export is looked at.
WorthModOnly == fw.force \/ export # lastMod

\* The early return of apply.
WorthReading == fw.force \/ export # lastMod \/ due

\* apply: Stat, and nothing else when nothing has changed.
StatExport ==
    /\ fw.at = "idle" /\ WorthReading
    /\ fw' = [fw EXCEPT !.at = "stat", !.mod = export]
    /\ UNCHANGED <<export, dns, sets, boot, lastMod, lastScript, due, nftFailures, refused>>

\* The file is read and the names are resolved; both times are remembered, and
\* an unchanged script is not applied again.
ReadExport ==
    LET script == <<export, dns>> IN
    /\ fw.at = "stat"
    /\ lastMod' = fw.mod /\ due' = FALSE
    /\ fw' = IF script = lastScript /\ ~fw.force THEN Asleep ELSE [fw EXCEPT !.at = "nft", !.script = script]
    /\ refused' = (refused /\ script # lastScript)
    /\ UNCHANGED <<export, dns, sets, boot, lastScript, nftFailures>>

\* nft applies the script in one transaction.
ApplySets ==
    /\ fw.at = "nft"
    /\ sets' = fw.script /\ refused' = FALSE
    /\ fw' = [fw EXCEPT !.at = "boot"]
    /\ UNCHANGED <<export, dns, boot, lastMod, lastScript, due, nftFailures>>

\* nft fails: apply returns, and lastScript stays as it was.
NftFails ==
    /\ fw.at = "nft" /\ nftFailures < MaxFailures
    /\ nftFailures' = nftFailures + 1 /\ refused' = TRUE
    /\ fw' = Asleep
    /\ UNCHANGED <<export, dns, sets, boot, lastMod, lastScript, due>>

\* The boot file is written, or not: that is only logged.
WriteBoot(ok) ==
    /\ fw.at = "boot"
    /\ ok \/ nftFailures < MaxFailures
    /\ nftFailures' = IF ok THEN nftFailures ELSE nftFailures + 1
    /\ boot' = IF ok THEN fw.script ELSE boot
    /\ lastScript' = fw.script
    /\ fw' = Asleep
    /\ UNCHANGED <<export, dns, sets, lastMod, due, refused>>

\* The host restarts with the sets of the boot file, and so does the process.
Reboot ==
    /\ nftFailures < MaxFailures /\ nftFailures' = nftFailures + 1
    /\ sets' = boot
    /\ fw' = [Asleep EXCEPT !.force = TRUE]
    /\ lastMod' = 0 /\ lastScript' = NoScript /\ due' = TRUE /\ refused' = FALSE
    /\ UNCHANGED <<export, dns, boot>>

SyncStep == StatExport \/ ReadExport \/ ApplySets \/ WriteBoot(TRUE)

FwNext ==
    \/ WriteExport \/ NameMoves \/ ResolveDue
    \/ StatExport \/ ReadExport \/ ApplySets \/ NftFails
    \/ \E ok \in BOOLEAN : WriteBoot(ok)
    \/ Reboot

-----------------------------------------------------------------------------
\* When the process sees no change, the kernel's sets come from the export as
\* it is, unless nft refused it: a write between Stat and ReadFile, a reboot or
\* a failed boot file leave no export unnoticed.
NoChangeIsApplied ==
    fw.at = "idle" /\ ~fw.force /\ lastMod = export /\ ~refused => sets[1] = export

\* In the end the sets follow the last export and the last addresses, through
\* reboots and failing nft runs: the periodic resolution applies them again.
SetsFollow == <>[](sets = <<export, dns>>)
=============================================================================
