---------------------------- MODULE MCOperations ----------------------------
(***************************************************************************)
(* The parts that keep something in step with the database or with the     *)
(* host, side by side: in a behaviour one of them runs, and the others     *)
(* rest.                                                                   *)
(***************************************************************************)
EXTENDS Gateways, GatewayPoller, BillLocks, Rollup, FirewallSync, Watchdog,
        G729Lsf

CONSTANTS g1, g2, d1, d2, b1, b2, k1, k2

VARIABLE part

MCGateways == {g1, g2}
MCDefinitions == {d1, d2}
MCBills == {b1, b2}
MCBillCarriers == {k1, k2}

(* Codewords whose frequencies cross, one below the lowest frequency and   *)
(* one above the highest; one noise codeword.                              *)
MCSpeechEntries ==
  {[L0 |-> 0, sum |-> <<3427, 4441, 6895, 9181, 9097, 8525, 12654, 17418, 19364, 20312>>],
   [L0 |-> 1, sum |-> <<-917, 1961, 5455, 7550, 11390, 13831, 14562, 18956, 20447, 21952>>],
   [L0 |-> 1, sum |-> <<2507, 3054, 4339, 6638, 9963, 13083, 14938, 17860, 21272, 25756>>]}
MCNoiseEntries ==
  {[L0 |-> 1, sum |-> <<803, 2315, 5397, 8105, 11753, 11706, 15990, 18077, 21857, 23520>>]}

MCParts == {"gateways", "poller", "locks", "rollup", "firewall", "watchdog", "lsf"}
MCVars == <<part, gwVars, pollVars, lckVars, rollVars, fwVars, wdVars, lsfVars>>

(* Names, definitions, bills and carriers are interchangeable: the first   *)
(* gateway starts with the first definition, and the first bill is never   *)
(* answered by the second carrier.                                         *)
MCInit ==
    /\ part \in MCParts
    /\ RollInit /\ WdInit /\ LsfInit
    /\ GwInit /\ carriers[g1] = d1 /\ (part # "gateways" => carriers[g2] = None)
    /\ PollInit /\ (part # "poller" => \A g \in Polled : status[g] = "UP")
    /\ LckInit /\ plan[b1].answered # k2 /\ (part # "locks" => \A b \in Bills : plan[b] = [answered |-> NoCarrier, failed |-> <<>>])
    /\ IF part = "firewall" THEN FwInit
       ELSE /\ export = 1 /\ dns = 1 /\ sets = <<1, 1>> /\ boot = <<1, 1>> /\ fw = Asleep
            /\ lastMod = 1 /\ lastScript = <<1, 1>> /\ due = FALSE /\ nftFailures = 0 /\ refused = FALSE

MCNext ==
    /\ UNCHANGED part
    /\ IF part = "gateways" THEN GwNext ELSE UNCHANGED gwVars
    /\ IF part = "poller" THEN PollNext ELSE UNCHANGED pollVars
    /\ IF part = "locks" THEN LckNext ELSE UNCHANGED lckVars
    /\ IF part = "rollup" THEN RollNext ELSE UNCHANGED rollVars
    /\ IF part = "firewall" THEN FwNext ELSE UNCHANGED fwVars
    /\ IF part = "watchdog" THEN WdNext ELSE UNCHANGED wdVars
    /\ IF part = "lsf" THEN LsfNext ELSE UNCHANGED lsfVars

\* Handlers, tickers and timers run on, the supervisor connects again, and
\* Postgres lets waiting transactions have their turn.
MCSpec ==
    /\ MCInit /\ [][MCNext]_MCVars
    /\ \A r \in Renderers : /\ WF_gwVars(part = "gateways" /\ BeginRender(r))
                            /\ WF_gwVars(part = "gateways" /\ Apply(r))
    /\ WF_gwVars(part = "gateways" /\ SocketUp)
    /\ WF_pollVars(part = "poller" /\ Poll) /\ WF_pollVars(part = "poller" /\ LinkReturns)
    /\ \A b \in Bills : SF_lckVars(part = "locks" /\ BillStep(b))
    /\ WF_lckVars(part = "locks" /\ EndReserve)
    /\ WF_rollVars(part = "rollup" /\ RollStep)
    /\ \A c \in HourCalls : WF_rollVars(part = "rollup" /\ CommitBill(c))
    /\ WF_fwVars(part = "firewall" /\ SyncStep) /\ WF_fwVars(part = "firewall" /\ ResolveDue)
    /\ WF_wdVars(part = "watchdog" /\ PassStep) /\ WF_wdVars(part = "watchdog" /\ MinutePasses)

=============================================================================
