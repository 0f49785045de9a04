-------------------------- MODULE LifecycleProofs --------------------------
(***************************************************************************)
(* CallLifecycle for every number of calls, nodes and faults: its steps    *)
(* are steps of Billing, so the books balance whatever is lost or          *)
(* repeated; no call that runs is settled; a delivered CDR is charged.     *)
(***************************************************************************)
EXTENDS CallLifecycle, BillingProofs

\* A leaf that names no prover is tried with each of these in turn.
USE SMTT(30), Z3T(30), ZenonT(30)

\* What each stage of a call says about its row, its age and its triggers.
StageOf(c) ==
    /\ chan[c] = "idle" => setup[c] = "idle"
    /\ chan[c] \in {"dialing", "talking"} => setup[c] = "dial"
    /\ chan[c] = "talking" => talk[c].winner \in Carriers
    /\ chan[c] \in {"waiting", "dialing", "talking", "hangup"}
            /\ setup[c] \in {"reserved", "dial"} => c \in open
    /\ chan[c] \in {"idle", "waiting", "dialing", "talking", "hangup"} =>
            post[c] = "none" /\ evt[c] = "none" /\ charged[c] = 0
    /\ post[c] = "trying" => chan[c] = "reporting"
    /\ age[c] = "expired" => chan[c] = "gone"
    /\ age[c] # "fresh" => chan[c] # "idle"
    /\ talk[c].price # 0 => setup[c] = "dial"
    /\ setup[c] \in {"reserved", "dial"} => cdr[c] # "none"
    /\ post[c] = "done" /\ talk[c].price # 0 => cdr[c] = "billed"

Stage == \A c \in Calls : StageOf(c)

\* What the reconciler of node n has found out about the calls of its list.
PassOK(n, pass) ==
    \A c \in pass.cand :
        /\ chan[c] # "idle"
        /\ pass.by = "channels" => Node[c] = n
        /\ pass.pc = "listed" /\ pass.by = "clock" => chan[c] = "gone"
        /\ pass.pc = "billing" => chan[c] = "gone"

Sweep == \A n \in Nodes : PassOK(n, rec[n])

LifeInv == LifeTypeOK /\ Stage /\ Sweep /\ DeliveredIsCharged

-----------------------------------------------------------------------------
(***************************************************************************)
(* What the transactions do to the columns the stages mention.             *)
(***************************************************************************)

\* Bill settles a pending call at the price of the hangup, or does nothing.
LEMMA BillEffect ==
    ASSUME Inv, NEW c \in Calls, NEW h, BillHangup(c, h)
    PROVE  /\ setup' = setup
           /\ \/ /\ cdr[c] = "pending" /\ c \in open
                 /\ cdr' = [cdr EXCEPT ![c] = "billed"]
                 /\ open' = open \ {c}
                 /\ charged' = [charged EXCEPT ![c] = h.price]
              \/ cdr[c] # "pending" /\ UNCHANGED <<cdr, open, charged>>
<1>1. CASE cdr[c] = "pending"
    <2>1. c \in open
        BY <1>1 DEF Inv, SettledOnce
    <2> QED
        BY <1>1, <2>1 DEF BillHangup, NotBilled, Bill, Release
<1>2. CASE cdr[c] # "pending"
    BY <1>2 DEF BillHangup, NotBilled, vars
<1> QED
    BY <1>1, <1>2

\* The Setup handler moves its own call through the stages of a setup.
LEMMA HandleEffect ==
    ASSUME Inv, NEW c \in Calls, Handle(c)
    PROVE  /\ charged' = charged
           /\ \A d \in Calls \ {c} : setup'[d] = setup[d] /\ cdr'[d] = cdr[d]
                                        /\ (d \in open' <=> d \in open)
           /\ \/ /\ setup[c] \in {"idle", "quoted"} /\ cdr[c] = "none"
                 /\ setup'[c] \in {"quoted", "rejected"}
              \/ /\ setup[c] = "quoted" /\ setup'[c] = "reserved"
                 /\ cdr'[c] = "pending" /\ c \in open'
              \/ /\ setup[c] = "reserved" /\ setup'[c] = "dial"
                 /\ cdr' = cdr /\ open' = open
              \/ /\ setup[c] = "reserved" /\ setup'[c] = "rejected"
                 /\ cdr[c] # "none" => cdr'[c] # "none"
                 /\ cdr'[c] = "billed" => cdr[c] \in {"pending", "billed"}
                 /\ cdr[c] = "billed" => cdr'[c] = "billed"
<1> USE DEF Inv, TypeOK, CallProgress, moneyVars, callVars
<1>1. CASE SetupReject(c)
    BY <1>1 DEF SetupReject, InsertRejectedCDR
<1>2. CASE \E amount \in Money : ReserveRead(c, amount)
    BY <1>2 DEF ReserveRead, InsertRejectedCDR
<1>3. CASE ReserveCommit(c)
    BY <1>3 DEF ReserveCommit
<1>4. CASE ReserveLost(c)
    BY <1>4 DEF ReserveLost, InsertRejectedCDR
<1>5. CASE RouteFound(c)
    BY <1>5 DEF RouteFound
<1>6. CASE RouteNone(c)
    BY <1>6 DEF RouteNone, ReleaseTx, NotBilled, Release
<1> QED
    BY ZenonT(60), <1>1, <1>2, <1>3, <1>4, <1>5, <1>6 DEF Handle

-----------------------------------------------------------------------------
(***************************************************************************)
(* The tables move as Billing says.                                        *)
(***************************************************************************)

\* A hangup billed by a trigger is a step of Billing, or none.
LEMMA BillIsStep ==
    ASSUME NEW c \in Calls, NEW h \in Hangups,
           BillHangup(c, h)
    PROVE  [Next]_vars
BY DEF BillHangup, Next, CallStep, Hangups

\* The zero price of ORPHANED and of a channel that never talked.
LEMMA SilentType == Silent \in Hangups
BY FreeCallsOccur DEF Silent, Hangups

\* A report of an attempt stores one record, or nothing.
LEMMA ReportIsStep ==
    ASSUME NEW c \in Calls, NEW k \in Carriers,
           NEW outcome \in {"failed", "answered"}, Report(c, k, outcome)
    PROVE  [Next]_vars /\ UNCHANGED <<setup, cdr, open, charged>>
BY DEF Report, AppendAttempt, Next, CallStep, vars

\* Every step of a call or a node is a step of Billing, or none.
LEMMA TablesStep == LifeTypeOK /\ Stage /\ [LifeNext]_allVars => [Next]_vars
<1> SUFFICES ASSUME LifeTypeOK, Stage, [LifeNext]_allVars PROVE [Next]_vars
    OBVIOUS
<1>1. CASE UNCHANGED allVars
    BY <1>1 DEF allVars
<1>2. ASSUME NEW c \in Calls, CallNext(c) PROVE [Next]_vars
    <2>0. talk[c] \in Hangups
        BY DEF LifeTypeOK
    <2>1. CASE Handle(c) \/ HandleError(c)
        BY <2>1 DEF Handle, HandleError, Next, SetupStep
    <2>2. CASE \/ Invite(c) \/ SetupReply(c) \/ GiveUp(c) \/ DialEnds(c)
               \/ HangupComplete(c) \/ Destroy(c) \/ JsonSpool(c) \/ Ageing(c)
        BY <2>2 DEF Invite, SetupReply, GiveUp, DialEnds, HangupComplete,
                    Destroy, JsonSpool, Ageing
    <2>3. ASSUME NEW k \in Carriers, AttemptFails(c, k) \/ Answer(c, k)
          PROVE  [Next]_vars
        BY <2>3, ReportIsStep DEF AttemptFails, Answer
    <2>4. CASE Hangs(c)
        <3>1. talk[c].winner \in Carriers
            BY <2>4 DEF Hangs, EndTalk, Stage, StageOf
        <3> QED
            BY <2>4, <3>1, ReportIsStep DEF Hangs, EndTalk
    <2>5. CASE EslBill(c) \/ JsonPost(c) \/ Replay(c)
        <3>1. BillHangup(c, talk[c]) \/ UNCHANGED vars
            BY <2>5 DEF EslBill, JsonPost, Replay
        <3> QED
            BY <2>0, <3>1, BillIsStep
    <2> QED
        BY <1>2, <2>1, <2>2, <2>3, <2>4, <2>5 DEF CallNext
<1>3. ASSUME NEW n \in Nodes, NodeNext(n) PROVE [Next]_vars
    <2>1. ASSUME NEW c \in Calls, RecBill(n, c) PROVE [Next]_vars
        <3>1. BillHangup(c, Silent) \/ UNCHANGED vars
            BY <2>1 DEF RecBill
        <3> QED
            BY <3>1, SilentType, BillIsStep
    <2>2. CASE \/ RecList(n) \/ RecShow(n) \/ ApiCrash(n) \/ ApiStart(n)
               \/ EslDrop(n) \/ EslConnect(n) \/ FsCrash(n) \/ NodeDies(n)
        BY <2>2 DEF RecList, RecShow, ApiCrash, ApiStart, EslDrop, EslConnect,
                    FsCrash, NodeDies
    <2> QED
        BY <1>3, <2>1, <2>2 DEF NodeNext
<1> QED
    BY <1>1, <1>2, <1>3 DEF LifeNext

-----------------------------------------------------------------------------
(***************************************************************************)
(* The stages hold: initially, and across every kind of step.              *)
(***************************************************************************)

\* The columns of the tables that the stages mention.
LEMMA TableTypes ==
    Inv => /\ setup \in [Calls -> SetupStates] /\ open \subseteq Calls
           /\ cdr \in [Calls -> {"none", "pending", "billed"}]
           /\ charged \in [Calls -> Nat]
BY DEF Inv, TypeOK

\* The count of faults stays within its bound.
LEMMA FaultCount ==
    ASSUME LifeTypeOK, Fault \/ UNCHANGED faults
    PROVE  faults' \in 0..MaxFaults
BY FaultsType DEF LifeTypeOK, Fault

\* Nothing has been called yet.
LEMMA LifeInitInv == LifeInit => LifeInv
BY NodeType, FaultsType, SilentType
   DEF ChanStates, PostStates, Passes, LifeInit, Init, LifeInv, LifeTypeOK, Stage, Sweep, DeliveredIsCharged,
       StageOf, PassOK, Idle, Silent

\* What a step of call c leaves alone about another call d.
SameCall(d) ==
    /\ UNCHANGED <<chan[d], talk[d], evt[d], post[d], age[d], setup[d], cdr[d],
                   charged[d]>>
    /\ d \in open' <=> d \in open

\* DeliveredIsCharged, of one call.
ChargedOf(c) == post[c] \in {"trying", "done"} /\ cdr[c] = "billed" =>
                    charged[c] = talk[c].price

\* A channel does not come back.
Onward(c) == /\ chan[c] = "gone" => chan'[c] = "gone"
             /\ chan[c] # "idle" => chan'[c] # "idle"

\* A step of one call is a matter of that call.
LEMMA OneCallStages ==
    ASSUME LifeInv, NEW c \in Calls, \A d \in Calls \ {c} : SameCall(d),
           StageOf(c)', ChargedOf(c)'
    PROVE  (Stage /\ DeliveredIsCharged)'
<1>1. Stage'
    BY DEF LifeInv, Stage, StageOf, SameCall
<1>2. DeliveredIsCharged'
    BY DEF LifeInv, DeliveredIsCharged, ChargedOf, SameCall
<1> QED
    BY <1>1, <1>2

\* Nor does the reconciler notice channels that move onward.
LEMMA SweepStays ==
    ASSUME LifeInv, \A c \in Calls : Onward(c),
           \A n \in Nodes : rec'[n] = rec[n] \/ rec'[n].cand = {}
    PROVE  Sweep'
<1> SUFFICES ASSUME NEW n \in Nodes PROVE PassOK(n, rec[n])'
    BY DEF Sweep
<1>1. rec[n].cand \subseteq Calls /\ PassOK(n, rec[n])
    BY DEF LifeInv, LifeTypeOK, Passes, Sweep
<1>2. CASE rec'[n] = rec[n]
    BY <1>1, <1>2 DEF PassOK, Onward
<1>3. CASE rec'[n].cand = {}
    BY <1>3 DEF PassOK
<1> QED
    BY <1>2, <1>3

\* Both together.
LEMMA OneCallMoves ==
    ASSUME LifeInv, NEW c \in Calls, rec' = rec,
           \A d \in Calls \ {c} : SameCall(d),
           Onward(c), LifeTypeOK', StageOf(c)', ChargedOf(c)'
    PROVE  LifeInv'
<1>1. (Stage /\ DeliveredIsCharged)'
    BY OneCallStages
<1>2. \A d \in Calls : Onward(d)
    BY DEF SameCall, Onward
<1>3. Sweep'
    BY <1>2, SweepStays
<1> QED
    BY <1>1, <1>3 DEF LifeInv

\* What a step of call c may use.
LEMMA CallFacts ==
    ASSUME LifeInv, NEW c \in Calls
    PROVE  /\ StageOf(c) /\ ChargedOf(c) /\ LifeTypeOK
           /\ chan \in [Calls -> ChanStates] /\ talk \in [Calls -> Hangups]
           /\ evt \in [Calls -> {"none", "queued", "over"}]
           /\ post \in [Calls -> PostStates]
           /\ age \in [Calls -> {"fresh", "stale", "expired"}]
BY DEF LifeInv, Stage, DeliveredIsCharged, ChargedOf, LifeTypeOK

\* The Setup handler, and its errors.
LEMMA HandleInv ==
    ASSUME Inv, LifeInv, NEW c \in Calls
    PROVE  Handle(c) \/ HandleError(c) => LifeInv'
<1>0. StageOf(c) /\ ChargedOf(c) /\ LifeTypeOK
    BY CallFacts
<1>1. ASSUME Handle(c) PROVE LifeInv'
    <2>1. UNCHANGED lifeVars /\ chan[c] # "idle"
        BY <1>1 DEF Handle
    <2>2. LifeTypeOK' /\ rec' = rec /\ Onward(c)
        BY <1>0, <2>1 DEF LifeTypeOK, lifeVars, Onward
    <2>3. \A d \in Calls \ {c} : SameCall(d)
        BY <1>1, <2>1, HandleEffect DEF SameCall, lifeVars
    <2>4. setup[c] # "dial" /\ charged' = charged
                /\ (cdr[c] # "billed" => charged[c] = 0)
        BY <1>1, HandleEffect DEF Inv, CallProgress
    <2>5. StageOf(c)'
        BY <1>0, <1>1, <2>1, <2>4, HandleEffect DEF StageOf, lifeVars
    <2>6. ChargedOf(c)'
        BY <1>0, <2>1, <2>4 DEF StageOf, ChargedOf, lifeVars
    <2> QED
        BY <2>2, <2>3, <2>5, <2>6, OneCallMoves
<1>2. ASSUME HandleError(c) PROVE LifeInv'
    <2>1. rec' = rec /\ \A d \in Calls \ {c} : SameCall(d)
        BY <1>2, TableTypes DEF HandleError, SetupError, SameCall, callVars
    <2>2. StageOf(c)' /\ ChargedOf(c)' /\ Onward(c)
        BY <1>0, <1>2, TableTypes
           DEF HandleError, SetupError, StageOf, ChargedOf, Onward, callVars
    <2>3. LifeTypeOK'
        BY <1>0, <1>2, FaultCount DEF HandleError, LifeTypeOK
    <2> QED
        BY <2>1, <2>2, <2>3, OneCallMoves
<1> QED
    BY <1>1, <1>2

\* The script and the channel.
LEMMA ScriptInv ==
    ASSUME Inv, LifeInv, NEW c \in Calls
    PROVE  \/ Invite(c) \/ SetupReply(c) \/ GiveUp(c)
           \/ \E k \in Carriers : AttemptFails(c, k) \/ Answer(c, k)
           \/ DialEnds(c) \/ Hangs(c) \/ HangupComplete(c) \/ Destroy(c)
           \/ Ageing(c)
           => LifeInv'
<1>0. /\ StageOf(c) /\ ChargedOf(c) /\ LifeTypeOK
      /\ chan \in [Calls -> ChanStates] /\ talk \in [Calls -> Hangups]
      /\ evt \in [Calls -> {"none", "queued", "over"}]
      /\ post \in [Calls -> PostStates]
      /\ age \in [Calls -> {"fresh", "stale", "expired"}]
    BY CallFacts
<1>1. ASSUME Invite(c) PROVE LifeInv'
    <2>1. rec' = rec /\ \A d \in Calls \ {c} : SameCall(d)
        BY <1>0, <1>1 DEF Invite, SameCall, vars
    <2>2. StageOf(c)' /\ ChargedOf(c)' /\ Onward(c)
        BY <1>0, <1>1 DEF Invite, StageOf, ChargedOf, Onward, vars
    <2>3. LifeTypeOK'
        BY <1>0, <1>1 DEF Invite, LifeTypeOK, ChanStates
    <2> QED
        BY <2>1, <2>2, <2>3, OneCallMoves
<1>2. ASSUME SetupReply(c) PROVE LifeInv'
    <2>1. rec' = rec /\ \A d \in Calls \ {c} : SameCall(d)
        BY <1>0, <1>2 DEF SetupReply, SameCall, vars
    <2>2. StageOf(c)' /\ ChargedOf(c)' /\ Onward(c)
        BY <1>0, <1>2 DEF SetupReply, StageOf, ChargedOf, Onward, vars
    <2>3. LifeTypeOK'
        BY <1>0, <1>2 DEF SetupReply, LifeTypeOK, ChanStates
    <2> QED
        BY <2>1, <2>2, <2>3, OneCallMoves
<1>3. ASSUME GiveUp(c) PROVE LifeInv'
    <2>1. rec' = rec /\ \A d \in Calls \ {c} : SameCall(d)
        BY <1>0, <1>3 DEF GiveUp, SameCall, vars
    <2>2. StageOf(c)' /\ ChargedOf(c)' /\ Onward(c)
        BY <1>0, <1>3 DEF GiveUp, StageOf, ChargedOf, Onward, vars
    <2>3. LifeTypeOK'
        BY <1>0, <1>3, FaultCount DEF GiveUp, LifeTypeOK, ChanStates
    <2> QED
        BY <2>1, <2>2, <2>3, OneCallMoves
<1>4. ASSUME DialEnds(c) PROVE LifeInv'
    <2>1. rec' = rec /\ \A d \in Calls \ {c} : SameCall(d)
        BY <1>0, <1>4 DEF DialEnds, SameCall, vars
    <2>2. StageOf(c)' /\ ChargedOf(c)' /\ Onward(c)
        BY <1>0, <1>4 DEF DialEnds, StageOf, ChargedOf, Onward, vars
    <2>3. LifeTypeOK'
        BY <1>0, <1>4 DEF DialEnds, LifeTypeOK, ChanStates
    <2> QED
        BY <2>1, <2>2, <2>3, OneCallMoves
<1>5. ASSUME NEW k \in Carriers, AttemptFails(c, k) PROVE LifeInv'
    <2>1. UNCHANGED <<setup, cdr, open, charged>>
        BY ZenonT(60), <1>5, ReportIsStep DEF AttemptFails
    <2>2. UNCHANGED <<talk, evt, post, age, apiUp, eslUp, dead, rec>>
            /\ (chan' = chan \/ chan' = [chan EXCEPT ![c] = "hangup"])
            /\ chan[c] = "dialing"
        BY <1>5 DEF AttemptFails
    <2>3. faults' \in 0..MaxFaults
        BY <1>0, <1>5, FaultCount DEF AttemptFails, Report
    <2>4. \A d \in Calls \ {c} : SameCall(d)
        BY <1>0, <2>1, <2>2 DEF SameCall
    <2>5. StageOf(c)' /\ ChargedOf(c)' /\ Onward(c)
        BY <1>0, <2>1, <2>2 DEF StageOf, ChargedOf, Onward
    <2>6. LifeTypeOK'
        BY <1>0, <2>2, <2>3 DEF LifeTypeOK, ChanStates
    <2> QED
        BY <2>2, <2>4, <2>5, <2>6, OneCallMoves
<1>6. ASSUME NEW k \in Carriers, Answer(c, k) PROVE LifeInv'
    <2>1. UNCHANGED <<setup, cdr, open, charged>>
        BY <1>6 DEF Answer, vars
    <2>2. talk' \in [Calls -> Hangups] /\ talk'[c].winner = k
            /\ talk'[c].price = talk[c].price
        BY <1>0, <1>6 DEF Answer, Hangups
    <2>3. rec' = rec /\ \A d \in Calls \ {c} : SameCall(d)
        BY <1>0, <1>6, <2>1 DEF Answer, SameCall
    <2>4. StageOf(c)' /\ ChargedOf(c)' /\ Onward(c)
        BY <1>0, <1>6, <2>1, <2>2 DEF Answer, StageOf, ChargedOf, Onward
    <2>5. LifeTypeOK'
        BY <1>0, <1>6, <2>2 DEF Answer, LifeTypeOK, ChanStates
    <2> QED
        BY <2>3, <2>4, <2>5, OneCallMoves
<1>7. ASSUME NEW price \in Money, NEW buy \in Money, EndTalk(c, price, buy)
      PROVE  LifeInv'
    <2> DEFINE h == [talk[c] EXCEPT !.price = price, !.buy = buy]
    <2>1. /\ UNCHANGED <<evt, post, age, apiUp, eslUp, dead, rec>>
          /\ chan[c] = "talking" /\ chan' = [chan EXCEPT ![c] = "hangup"]
          /\ talk' = [talk EXCEPT ![c] = h]
        BY <1>7 DEF EndTalk
    <2>2. talk[c].winner \in Carriers /\ setup[c] = "dial" /\ post[c] = "none"
        BY <1>0, <2>1 DEF StageOf
    <2>3. UNCHANGED <<setup, cdr, open, charged>>
        BY <1>7, <2>2, ReportIsStep DEF EndTalk
    <2>4. faults' \in 0..MaxFaults
        BY <1>0, <1>7, FaultCount DEF EndTalk, Report
    <2>5. h \in Hangups
        BY ZenonT(60), <1>0 DEF Hangups
    <2> HIDE DEF h
    <2>6. \A d \in Calls \ {c} : SameCall(d)
        BY <1>0, <2>1, <2>3 DEF SameCall
    <2>7. StageOf(c)' /\ ChargedOf(c)' /\ Onward(c)
        BY <1>0, <2>1, <2>2, <2>3 DEF StageOf, ChargedOf, Onward
    <2>8. LifeTypeOK'
        BY <1>0, <2>1, <2>4, <2>5 DEF LifeTypeOK, ChanStates
    <2> QED
        BY <2>1, <2>6, <2>7, <2>8, OneCallMoves
<1>8. ASSUME HangupComplete(c) PROVE LifeInv'
    <2>1. rec' = rec /\ \A d \in Calls \ {c} : SameCall(d)
        BY <1>0, <1>8 DEF HangupComplete, SameCall, vars
    <2>2. StageOf(c)' /\ ChargedOf(c)' /\ Onward(c)
        BY <1>0, <1>8 DEF HangupComplete, StageOf, ChargedOf, Onward, vars, Inv, SettledOnce
    <2>3. LifeTypeOK'
        BY <1>0, <1>8 DEF HangupComplete, LifeTypeOK, ChanStates, PostStates
    <2> QED
        BY <2>1, <2>2, <2>3, OneCallMoves
<1>9. ASSUME Destroy(c) PROVE LifeInv'
    <2>1. rec' = rec /\ \A d \in Calls \ {c} : SameCall(d)
        BY ZenonT(60), <1>0, <1>9 DEF Destroy, SameCall, vars
    <2>2. StageOf(c)' /\ ChargedOf(c)' /\ Onward(c)
        BY <1>0, <1>9 DEF Destroy, StageOf, ChargedOf, Onward, vars
    <2>3. LifeTypeOK'
        BY <1>0, <1>9 DEF Destroy, LifeTypeOK, ChanStates
    <2> QED
        BY <2>1, <2>2, <2>3, OneCallMoves
<1>10. ASSUME Ageing(c) PROVE LifeInv'
    <2>1. rec' = rec /\ \A d \in Calls \ {c} : SameCall(d)
        BY <1>0, <1>10 DEF Ageing, SameCall, vars
    <2>2. StageOf(c)' /\ ChargedOf(c)' /\ Onward(c)
        BY <1>0, <1>10 DEF Ageing, StageOf, ChargedOf, Onward, vars
    <2>3. LifeTypeOK'
        BY ZenonT(60), <1>0, <1>10 DEF Ageing, LifeTypeOK
    <2> QED
        BY <2>1, <2>2, <2>3, OneCallMoves
<1> QED
    BY <1>1, <1>2, <1>3, <1>4, <1>5, <1>6, <1>7, <1>8, <1>9, <1>10 DEF Hangs

\* A trigger that bills call c, and one that fails, change only the CDR of
\* c and the state of the delivery.
LEMMA TriggerBills ==
    ASSUME Inv, LifeInv, NEW c \in Calls, BillHangup(c, talk[c]),
           chan[c] \in {"reporting", "gone"}, LifeTypeOK',
           UNCHANGED <<chan, talk, age, rec>>,
           \A d \in Calls \ {c} : UNCHANGED <<evt[d], post[d]>>,
           post'[c] = "trying" => post[c] = "trying",
           post'[c] = "done" => post[c] \in {"trying", "done"}
    PROVE  LifeInv'
<1>1. StageOf(c) /\ ChargedOf(c)
    BY CallFacts
<1>2. \A d \in Calls \ {c} : SameCall(d)
    BY TableTypes, BillEffect DEF SameCall
<1>3. setup' = setup /\ (cdr[c] # "none" => cdr'[c] = "billed")
    BY TableTypes, BillEffect
<1>4. StageOf(c)'
    BY <1>1, <1>3 DEF StageOf
<1>5. ChargedOf(c)' /\ Onward(c)
    BY <1>1, TableTypes, BillEffect DEF ChargedOf, Onward
<1> QED
    BY <1>2, <1>4, <1>5, OneCallMoves

\* The failed try.
LEMMA TriggerFails ==
    ASSUME Inv, LifeInv, NEW c \in Calls, UNCHANGED vars,
           chan[c] \in {"reporting", "gone"}, LifeTypeOK',
           UNCHANGED <<chan, talk, age, rec>>,
           \A d \in Calls \ {c} : UNCHANGED <<evt[d], post[d]>>,
           post'[c] \in {"trying", "done"} => post'[c] = post[c]
    PROVE  LifeInv'
<1>1. StageOf(c) /\ ChargedOf(c)
    BY CallFacts
<1>2. UNCHANGED <<setup, cdr, charged, open>>
    BY DEF vars
<1>3. \A d \in Calls \ {c} : SameCall(d)
    BY <1>2 DEF SameCall
<1>4. StageOf(c)'
    BY <1>1, <1>2 DEF StageOf
<1>5. ChargedOf(c)' /\ Onward(c)
    BY ZenonT(60), <1>1, <1>2 DEF ChargedOf, Onward
<1> QED
    BY ZenonT(60), <1>3, <1>4, <1>5, OneCallMoves

\* Triggers 1 and 2: the hangup event and the CDR document.
LEMMA TriggerInv ==
    ASSUME Inv, LifeInv, NEW c \in Calls
    PROVE  EslBill(c) \/ JsonPost(c) \/ JsonSpool(c) \/ Replay(c) => LifeInv'
<1>0. LifeTypeOK /\ StageOf(c)
    BY DEF LifeInv, Stage
<1>1. ASSUME EslBill(c) PROVE LifeInv'
    <2>1. UNCHANGED <<chan, talk, post, age, apiUp, eslUp, dead, rec>>
            /\ evt' = [evt EXCEPT ![c] = "over"] /\ evt[c] = "queued"
        BY <1>1 DEF EslBill
    <2>2. chan[c] \in {"reporting", "gone"}
        BY ZenonT(60), <1>0, <2>1 DEF StageOf, LifeTypeOK, ChanStates
    <2>3. faults' \in 0..MaxFaults
        BY <1>0, <1>1, FaultCount DEF EslBill
    <2>4. LifeTypeOK' /\ \A d \in Calls \ {c} : UNCHANGED <<evt[d], post[d]>>
        BY <1>0, <2>1, <2>3 DEF LifeTypeOK
    <2>5. BillHangup(c, talk[c]) \/ UNCHANGED vars
        BY <1>1 DEF EslBill
    <2> QED
        BY ZenonT(60), <2>1, <2>2, <2>4, <2>5, TriggerBills, TriggerFails
<1>2. ASSUME JsonPost(c) PROVE LifeInv'
    <2>1. UNCHANGED <<chan, talk, evt, age, apiUp, eslUp, dead, rec>>
            /\ chan[c] = "reporting" /\ post[c] = "trying"
            /\ BillHangup(c, talk[c])
        BY <1>2 DEF JsonPost
    <2>2. post' = post \/ post' = [post EXCEPT ![c] = "done"]
        BY <1>2 DEF JsonPost
    <2>3. faults' \in 0..MaxFaults
        BY <1>0, <1>2, FaultCount DEF JsonPost
    <2>4. LifeTypeOK' /\ \A d \in Calls \ {c} : UNCHANGED <<evt[d], post[d]>>
        BY <1>0, <2>1, <2>2, <2>3 DEF LifeTypeOK, PostStates
    <2> QED
        BY <2>1, <2>4, TriggerBills
<1>3. ASSUME JsonSpool(c) PROVE LifeInv'
    <2>1. UNCHANGED <<chan, talk, evt, age, apiUp, eslUp, dead, rec>>
            /\ UNCHANGED vars /\ chan[c] = "reporting"
            /\ post' = [post EXCEPT ![c] = "spooled"]
        BY <1>3 DEF JsonSpool
    <2>2. faults' \in 0..MaxFaults
        BY <1>0, <1>3, FaultCount DEF JsonSpool
    <2>3. /\ LifeTypeOK' /\ post'[c] = "spooled"
          /\ \A d \in Calls \ {c} : UNCHANGED <<evt[d], post[d]>>
        BY <1>0, <2>1, <2>2 DEF LifeTypeOK, PostStates
    <2> QED
        BY <2>1, <2>3, TriggerFails
<1>4. ASSUME Replay(c) PROVE LifeInv'
    <2>1. UNCHANGED <<chan, talk, evt, age, apiUp, eslUp, dead, rec, faults>>
            /\ BillHangup(c, talk[c]) /\ post[c] = "spooled"
            /\ post' = [post EXCEPT ![c] = "replayed"]
        BY ZenonT(60), <1>4 DEF Replay
    <2>2. chan[c] \in {"reporting", "gone"}
        BY <1>0, <2>1 DEF StageOf, LifeTypeOK, ChanStates
    <2>3. /\ LifeTypeOK' /\ post'[c] = "replayed"
          /\ \A d \in Calls \ {c} : UNCHANGED <<evt[d], post[d]>>
        BY <1>0, <2>1 DEF LifeTypeOK, PostStates
    <2> QED
        BY <2>1, <2>2, <2>3, TriggerBills
<1> QED
    BY <1>1, <1>2, <1>3, <1>4

\* Trigger 3: an orphan is gone, and no document of it was delivered.
LEMMA RecBillInv ==
    ASSUME Inv, LifeInv, NEW n \in Nodes, NEW c \in Calls, RecBill(n, c)
    PROVE  LifeInv'
<1>0. StageOf(c) /\ ChargedOf(c) /\ LifeTypeOK
    BY CallFacts
<1>t. cdr \in [Calls -> {"none", "pending", "billed"}] /\ charged \in [Calls -> Nat]
    BY TableTypes
<1>1. chan[c] = "gone"
    BY DEF RecBill, LifeInv, Sweep, PassOK
<1>2. LifeTypeOK'
    <2> DEFINE pass == IF rec[n].cand = {c} THEN Idle
                       ELSE [rec[n] EXCEPT !.cand = rec[n].cand \ {c}]
    <2>1. rec[n] \in Passes
        BY <1>0 DEF LifeTypeOK
    <2>2. pass \in Passes
        BY <2>1 DEF Idle, Passes
    <2>3. rec' = [rec EXCEPT ![n] = pass]
        BY DEF RecBill
    <2> HIDE DEF pass
    <2>4. rec' \in [Nodes -> Passes]
        BY <1>0, <2>2, <2>3 DEF LifeTypeOK
    <2>5. faults' \in 0..MaxFaults
        BY <1>0, FaultCount DEF RecBill
    <2> QED
        BY <1>0, <2>4, <2>5 DEF RecBill, LifeTypeOK
<1>3. Sweep'
    BY <1>0 DEF RecBill, LifeInv, Sweep, PassOK, Idle, LifeTypeOK
<1>4. UNCHANGED <<chan, talk, evt, post, age>>
    BY DEF RecBill
<1>5. CASE BillHangup(c, Silent)
    <2>1. /\ setup' = setup
          /\ \A d \in Calls \ {c} : SameCall(d)
          /\ cdr[c] # "none" => cdr'[c] = "billed"
        BY ZenonT(60), <1>t, <1>4, <1>5, BillEffect DEF SameCall
    <2>2. StageOf(c)'
        BY ZenonT(60), <1>0, <1>1, <1>4, <2>1 DEF StageOf
    <2>3. ChargedOf(c)'
        <3>1. CASE cdr[c] = "pending"
            <4>1. charged'[c] = 0
                BY <1>t, <1>5, <3>1, BillEffect DEF Silent
            <4>2. post[c] \in {"trying", "done"} => talk[c].price = 0
                BY <1>0, <1>1, <3>1 DEF StageOf
            <4> QED
                BY <1>4, <4>1, <4>2 DEF ChargedOf
        <3>2. CASE cdr[c] # "pending"
            <4>1. UNCHANGED <<cdr, charged>>
                BY <1>5, <3>2, BillEffect
            <4> QED
                BY <1>0, <1>4, <4>1 DEF ChargedOf
        <3> QED
            BY <3>1, <3>2
    <2> QED
        BY ZenonT(60), <1>2, <1>3, <2>1, <2>2, <2>3, OneCallStages DEF LifeInv
<1>6. CASE UNCHANGED vars
    <2>1. \A d \in Calls \ {c} : SameCall(d)
        BY <1>4, <1>6 DEF SameCall, vars
    <2>2. StageOf(c)' /\ ChargedOf(c)'
        BY ZenonT(60), <1>0, <1>4, <1>6 DEF StageOf, ChargedOf, vars
    <2> QED
        BY <1>2, <1>3, <2>1, <2>2, OneCallStages DEF LifeInv
<1> QED
    BY <1>5, <1>6 DEF RecBill

\* The reconciler's two lists: a pass that is right about its calls is all
\* such a step has to leave behind.
LEMMA PassInv ==
    ASSUME LifeInv, NEW n \in Nodes, NEW pass \in Passes, PassOK(n, pass),
           rec' = [rec EXCEPT ![n] = pass],
           UNCHANGED <<vars, chan, talk, evt, post, age, apiUp, eslUp, dead, faults>>
    PROVE  LifeInv'
<1>1. UNCHANGED <<setup, cdr, charged, open>>
    BY DEF vars
<1>2. (Stage /\ DeliveredIsCharged)'
    BY <1>1 DEF LifeInv, Stage, StageOf, DeliveredIsCharged
<1>3. LifeTypeOK'
    BY DEF LifeInv, LifeTypeOK
<1>4. \A m \in Nodes : rec'[m] = IF m = n THEN pass ELSE rec[m]
    BY DEF LifeInv, LifeTypeOK
<1>5. Sweep'
    BY <1>4 DEF LifeInv, Sweep, PassOK
<1> QED
    BY <1>2, <1>3, <1>5 DEF LifeInv

\* RecList lists the rows, RecShow asks for the channels.
LEMMA SweepInv ==
    ASSUME Inv, LifeInv, NEW n \in Nodes
    PROVE  RecList(n) \/ RecShow(n) => LifeInv'
<1>0. rec[n] \in Passes /\ PassOK(n, rec[n])
    BY DEF LifeInv, LifeTypeOK, Sweep
<1>1. ASSUME RecList(n) PROVE LifeInv'
    <2> DEFINE by == IF n \in eslUp THEN "channels" ELSE "clock"
    <2> DEFINE pass == [pc |-> "listed", by |-> by, cand |-> Candidates(n)]
    <2>1. \A c \in Candidates(n) : /\ c \in Calls /\ chan[c] # "idle"
                                   /\ n \in eslUp => Node[c] = n
                                   /\ n \notin eslUp => chan[c] = "gone"
        BY TableTypes DEF Candidates, LifeInv, Stage, StageOf
    <2>2. pass \in Passes /\ PassOK(n, pass)
        BY <2>1 DEF Passes, PassOK
    <2>3. rec' = [rec EXCEPT ![n] = pass]
            /\ UNCHANGED <<vars, chan, talk, evt, post, age, apiUp, eslUp, dead, faults>>
        BY <1>1 DEF RecList
    <2> HIDE DEF pass
    <2> QED
        BY ZenonT(60), <2>2, <2>3, PassInv
<1>2. ASSUME RecShow(n) PROVE LifeInv'
    <2> DEFINE pass == [rec[n] EXCEPT !.pc = "billing", !.cand = Orphans(n)]
    <2>1. /\ rec' = [rec EXCEPT ![n] = Idle] \/ rec' = [rec EXCEPT ![n] = pass]
          /\ UNCHANGED <<vars, chan, talk, evt, post, age, apiUp, eslUp, dead, faults>>
          /\ rec[n].pc = "listed"
        BY ZenonT(60), <1>2 DEF RecShow
    <2>2. Idle \in Passes /\ PassOK(n, Idle)
        BY DEF Idle, Passes, PassOK
    <2>3. rec[n].cand \subseteq Calls /\ rec[n].by \in {"channels", "clock"}
        BY <1>0 DEF Passes
    <2>4. Orphans(n) \subseteq rec[n].cand /\ \A c \in Orphans(n) : chan[c] = "gone"
        BY <1>0, <2>1, <2>3 DEF Orphans, LiveChannels, PassOK
    <2>5. pass \in Passes /\ pass.by = rec[n].by /\ pass.cand = Orphans(n)
        BY ZenonT(60), <1>0, <2>3, <2>4 DEF Passes
    <2> HIDE DEF pass
    <2>6. PassOK(n, pass)
        BY <1>0, <2>4, <2>5 DEF PassOK
    <2> QED
        BY <2>1, <2>2, <2>5, <2>6, PassInv
<1> QED
    BY <1>1, <1>2

\* Everything that breaks and comes back.
LEMMA FaultInv ==
    ASSUME LifeInv, NEW n \in Nodes,
           \/ ApiCrash(n) \/ ApiStart(n) \/ EslDrop(n) \/ EslConnect(n)
           \/ FsCrash(n) \/ NodeDies(n)
    PROVE  LifeInv'
<1>0. LifeTypeOK
    BY DEF LifeInv
<1> USE DEF ApiCrash, ApiStart, EslDrop, EslConnect, FsCrash, NodeDies
<1>1. UNCHANGED <<vars, talk, evt, age>>
    OBVIOUS
<1>2. rec' = rec \/ rec' = [rec EXCEPT ![n] = Idle]
    OBVIOUS
<1>3. UNCHANGED <<chan, post>> \/ DropChannels(n)
    OBVIOUS
<1>4. faults' \in 0..MaxFaults
    BY <1>0, FaultCount
<1>5. /\ apiUp' \subseteq Nodes /\ dead' \subseteq Nodes
    BY <1>0 DEF LifeTypeOK
<1>6. eslUp' \subseteq Nodes
    BY <1>0 DEF LifeTypeOK
<1> HIDE DEF ApiCrash, ApiStart, EslDrop, EslConnect, FsCrash, NodeDies
<1>7. /\ chan' \in [Calls -> ChanStates] /\ post' \in [Calls -> PostStates]
      /\ \A c \in Calls :
            \/ UNCHANGED <<chan[c], post[c]>>
            \/ /\ chan[c] # "idle" /\ chan'[c] = "gone"
               /\ post'[c] \in {"lost", post[c]} \ {"trying"}
    BY <1>0, <1>3 DEF DropChannels, LifeTypeOK, ChanStates, PostStates
<1>8. LifeTypeOK'
    <2>1. Idle \in Passes
        BY ZenonT(60) DEF Idle, Passes
    <2>2. rec' \in [Nodes -> Passes]
        BY <1>0, <1>2, <2>1 DEF LifeTypeOK
    <2> QED
        BY <1>0, <1>1, <1>4, <1>5, <1>6, <1>7, <2>2 DEF LifeTypeOK
<1>9. Stage'
    <2>1. UNCHANGED <<setup, cdr, charged, open>>
        BY <1>1 DEF vars
    <2> SUFFICES ASSUME NEW c \in Calls PROVE StageOf(c)'
        BY DEF Stage
    <2>2. StageOf(c)
        BY DEF LifeInv, Stage
    <2> QED
        BY ZenonT(60), <1>1, <1>7, <2>1, <2>2 DEF StageOf
<1>10. DeliveredIsCharged'
    BY ZenonT(60), <1>1, <1>7 DEF LifeInv, DeliveredIsCharged, vars
<1>11. Sweep'
    <2>1. \A m \in Nodes : rec'[m] = rec[m] \/ rec'[m].cand = {}
        BY <1>0, <1>2 DEF LifeTypeOK, Idle
    <2>2. \A c \in Calls : Onward(c)
        BY <1>7 DEF Onward
    <2> QED
        BY <2>1, <2>2, SweepStays
<1> QED
    BY <1>8, <1>9, <1>10, <1>11 DEF LifeInv

-----------------------------------------------------------------------------
(***************************************************************************)
(* The results.                                                            *)
(***************************************************************************)

\* No step breaks the stages.
LEMMA LifeNextInv == Inv /\ LifeInv /\ [LifeNext]_allVars => LifeInv'
<1> SUFFICES ASSUME Inv, LifeInv, [LifeNext]_allVars PROVE LifeInv'
    OBVIOUS
<1>1. CASE UNCHANGED allVars
    <2>1. UNCHANGED <<setup, cdr, charged, open>> /\ UNCHANGED lifeVars
        BY <1>1 DEF allVars, vars
    <2>2. LifeTypeOK'
        BY <2>1 DEF LifeInv, LifeTypeOK, lifeVars
    <2>3. (Stage /\ DeliveredIsCharged)'
        BY ZenonT(60), <2>1 DEF LifeInv, Stage, StageOf, DeliveredIsCharged, lifeVars
    <2>4. Sweep'
        BY <2>1 DEF LifeInv, Sweep, PassOK, lifeVars
    <2> QED
        BY <2>2, <2>3, <2>4 DEF LifeInv
<1>2. ASSUME NEW c \in Calls, CallNext(c) PROVE LifeInv'
    <2>1. CASE Handle(c) \/ HandleError(c)
        BY <2>1, HandleInv
    <2>2. CASE EslBill(c) \/ JsonPost(c) \/ JsonSpool(c) \/ Replay(c)
        BY <2>2, TriggerInv
    <2>3. CASE \/ Invite(c) \/ SetupReply(c) \/ GiveUp(c)
               \/ \E k \in Carriers : AttemptFails(c, k) \/ Answer(c, k)
               \/ DialEnds(c) \/ Hangs(c) \/ HangupComplete(c) \/ Destroy(c)
               \/ Ageing(c)
        BY <2>3, ScriptInv
    <2> QED
        BY <1>2, <2>1, <2>2, <2>3 DEF CallNext
<1>3. ASSUME NEW n \in Nodes, NodeNext(n) PROVE LifeInv'
    <2>1. CASE RecList(n) \/ RecShow(n)
        BY <2>1, SweepInv
    <2>2. CASE \/ ApiCrash(n) \/ ApiStart(n) \/ EslDrop(n) \/ EslConnect(n)
               \/ FsCrash(n) \/ NodeDies(n)
        BY <2>2, FaultInv
    <2>3. CASE \E c \in Calls : RecBill(n, c)
        BY <2>3, RecBillInv
    <2> QED
        BY <1>3, <2>1, <2>2, <2>3 DEF NodeNext
<1> QED
    BY <1>1, <1>2, <1>3 DEF LifeNext

\* The two invariants hold together, throughout.
THEOREM LifeInvariance == LifeSpec => [](Inv /\ LifeInv)
<1>1. LifeInit => Inv /\ LifeInv
    BY InitInv, LifeInitInv DEF LifeInit
<1>2. Inv /\ LifeInv /\ [LifeNext]_allVars => (Inv /\ LifeInv)'
    BY NextInv, TablesStep, LifeNextInv DEF LifeInv
<1> QED
    BY <1>1, <1>2, PTL DEF LifeSpec

\* Whatever scripts, triggers, reconcilers and faults do, the tables only
\* take the steps of Billing.
THEOREM LifecycleImplementsTables == LifeSpec => TablesSpec
<1>1. LifeInit => Init
    BY DEF LifeInit
<1>2. LifeInv /\ [LifeNext]_allVars => [Next]_vars
    BY TablesStep DEF LifeInv
<1> QED
    BY <1>1, <1>2, LifeInvariance, PTL DEF LifeSpec, TablesSpec, Spec

\* So the books balance and each call is settled once in a system that
\* crashes, loses and repeats.
THEOREM LifecycleBooksBalance == LifeSpec => [](ReconcileOK /\ SettledOnce)
<1>1. Inv => ReconcileOK /\ SettledOnce
    BY DEF Inv
<1> QED
    BY <1>1, LifeInvariance, PTL

\* A call that is dialled or talks keeps its reservation and its pending CDR,
\* whatever reconcilers see and whenever they look.
THEOREM LiveStaysOpen == LifeSpec => []LiveIsOpen
<1>1. Inv /\ LifeInv => LiveIsOpen
    BY DEF Inv, SettledOnce, LifeInv, Stage, StageOf, LiveIsOpen
<1> QED
    BY <1>1, LifeInvariance, PTL

\* A delivered CDR document is charged at its price, even when ESL event,
\* document and reconciler race.
THEOREM DeliveredStaysCharged == LifeSpec => []DeliveredIsCharged
<1>1. LifeInv => DeliveredIsCharged
    BY DEF LifeInv
<1> QED
    BY <1>1, LifeInvariance, PTL

=============================================================================
