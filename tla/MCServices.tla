----------------------------- MODULE MCServices -----------------------------
(***************************************************************************)
(* The parts of the API that decide about a call or about money, and the   *)
(* parts of the codec, side by side: in a behaviour one of them runs, and  *)
(* the others rest in one of their initial states.                         *)
(***************************************************************************)
EXTENDS Admission, Rating, RateMatch, RouteOrder, Breaker, EndpointHealth, QualityPairs,
        TableCache, InvoicePeriods, Payments, G729Frame, G729Pitch, G729Gains, G729Link

VARIABLE part

(* Two calls, and one slot where they meet: at the carrier and in the node *)
(* group.                                                                  *)
MCSpare == [s \in Scopes |-> IF s = "customer" THEN 2 ELSE 1]

(* Rates around the edges of the increments: per-minute prices that divide *)
(* 60, that do not, and zero.                                              *)
MCRates == [perMinute : {0, 7, 90}, fee : {0, 5}, initial : {1, 60},
            subsequent : {6, 60}, minDuration : {0, 3}]
MCFunds == {-1, 0, 5, 7, 12, 91, 97}

(* Rows whose prefixes are prefixes of each other, that follow each other  *)
(* in time, that have ended, and that are disabled.                        *)
MCRatePool ==
    [prefix : {<<1>>, <<1, 2>>, <<2, 1>>}, from : {1, 2}, to : {0, 3}, enabled : {TRUE}]
        \cup {[prefix |-> <<1, 2>>, from |-> 3, to |-> 0, enabled |-> FALSE],
              [prefix |-> <<1>>, from |-> 1, to |-> 2, enabled |-> TRUE],
              [prefix |-> <<1, 2, 1>>, from |-> 1, to |-> 0, enabled |-> TRUE]}

(* Three carriers: shares of which one is zero; keys that differ in each   *)
(* component.                                                              *)
MCPercentRoutes ==
    [1..3 -> [prio : {1}, weight : {0, 1, 3}, degraded : BOOLEAN, rate : {1}, quality : {1}]]
        \cup [1..3 -> [prio : {1, 2}, weight : {0, 1}, degraded : {FALSE}, rate : {1}, quality : {1}]]
MCKeyedRoutes ==
    [1..3 -> [prio : {1, 2}, weight : {1}, degraded : {FALSE}, rate : {1, 2}, quality : {1}]
                \cup [prio : {1}, weight : {0, 2}, degraded : BOOLEAN, rate : {2}, quality : {2}]]

MCOwes == <<1, 3>>

(* Speech frames with one bit set or one bit clear; every second-stage     *)
(* entry of a SID frame; every choice of pulses, with two sign patterns.   *)
MCWidths == [L0 |-> 1, L1 |-> 7, L2 |-> 5, L3 |-> 5, P1 |-> 8, P0 |-> 1, C1 |-> 13,
             S1 |-> 4, GA1 |-> 3, GB1 |-> 4, P2 |-> 5, C2 |-> 13, S2 |-> 4, GA2 |-> 3,
             GB2 |-> 4]
MCFields == DOMAIN MCWidths
MCBits == UNION {{<<f, b>> : b \in 0..(MCWidths[f] - 1)} : f \in MCFields}
MCOne(x) == [f \in MCFields |-> IF f = x[1] THEN 2^x[2] ELSE 0]
MCAllBut(x) == [f \in MCFields |-> 2^MCWidths[f] - 1 - MCOne(x)[f]]
MCSpeechFrames == {MCOne(x) : x \in MCBits} \cup {MCAllBut(x) : x \in MCBits}
MCSidFrames == [L0: 0..1, L1: {0, 10, 31}, L2: 0..15, gain: {0, 21, 31}]
MCPulseChoices ==
  [m: [0..3 -> 0..7], jx: 0..1,
   positive: {[t \in 0..3 |-> t % 2], [t \in 0..3 |-> 1 - (t % 2)]}]

(* A quiet entry and the loudest of the gain codebook; vectors of one      *)
(* pulse of energy and of the largest energy.                              *)
MCGainPairs == {<<0, 1>>, <<7, 11>>}
MCEnergies == {268435456, 569106760}

MCParts == {"admission", "rating", "match", "order", "breaker", "endpoints", "quality",
            "tables", "periods", "payments",
            "frame", "pitch", "gains", "link"}
MCVars == <<part, admVars, vars, matVars, ordVars, brkVars, epVars, quaVars, tabVars,
            perVars, payVars, frameVars, pitchVars, gainVars, linkVars>>

MCInit ==
    /\ part \in MCParts
    /\ AdmInit /\ BrkInit /\ EpInit /\ QuaInit /\ TabInit /\ PerInit /\ PayInit
    /\ FrameInit /\ PitchInit /\ GainInit
    /\ LinkInit /\ (part # "link" => ~vad /\ perPacket = 1)
    /\ IF part = "rating" THEN Init
       ELSE /\ rate = [perMinute |-> 0, fee |-> 0, initial |-> 1, subsequent |-> 1, minDuration |-> 0]
            /\ avail = 0 /\ secs = 0 /\ phase = "refused"
    /\ IF part = "match" THEN MatInit
       ELSE rateRows = {} /\ loadTime = 1 /\ trie = NotLoaded
    /\ IF part = "order" THEN OrdInit
       ELSE /\ cands = <<>> /\ modes = [percent |-> FALSE, lcr |-> FALSE, quality |-> FALSE]
            /\ remaining = <<>> /\ order = <<>> /\ stage = "done"

\* A part other than the counters may come to an end.
MCRests == part # "admission" /\ UNCHANGED MCVars

MCStep ==
    /\ UNCHANGED part
    /\ IF part = "admission" THEN AdmNext ELSE UNCHANGED admVars
    /\ IF part = "rating" THEN Next ELSE UNCHANGED vars
    /\ IF part = "match" THEN MatNext ELSE UNCHANGED matVars
    /\ IF part = "order" THEN OrdNext ELSE UNCHANGED ordVars
    /\ IF part = "breaker" THEN BrkNext ELSE UNCHANGED brkVars
    /\ IF part = "endpoints" THEN EpNext ELSE UNCHANGED epVars
    /\ IF part = "quality" THEN QuaNext ELSE UNCHANGED quaVars
    /\ IF part = "tables" THEN TabNext ELSE UNCHANGED tabVars
    /\ IF part = "periods" THEN PerNext ELSE UNCHANGED perVars
    /\ IF part = "payments" THEN PayNext ELSE UNCHANGED payVars
    /\ IF part = "frame" THEN FrameNext ELSE UNCHANGED frameVars
    /\ IF part = "pitch" THEN PitchNext ELSE UNCHANGED pitchVars
    /\ IF part = "gains" THEN GainNext ELSE UNCHANGED gainVars
    /\ IF part = "link" THEN LinkNext ELSE UNCHANGED linkVars

MCNext == MCStep \/ MCRests

\* The fairness of Admission, in the behaviours in which it runs.
MCSpec ==
    /\ MCInit /\ [][MCNext]_MCVars
    /\ \A c \in Calls : WF_admVars(part = "admission" /\ Ends(c))
    /\ WF_admVars(part = "admission" /\ Sync)

=============================================================================
