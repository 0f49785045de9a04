------------------------------- MODULE Rating -------------------------------
(***************************************************************************)
(* internal/rating: what a number of seconds costs, what is reserved for a *)
(* call and how long the money lasts; and one prepaid call that is timed   *)
(* by these operators, from Pipeline.Reserve to the price Bill computes.   *)
(*                                                                         *)
(* Money is counted in millionths (Scale = 6): a rate, a fee and a balance *)
(* are NUMERIC(_, 6), hence integers here.                                 *)
(***************************************************************************)
EXTENDS Integers

CONSTANTS
    Rates,           \* rates of the sell decks
    Funds,           \* the available funds a call may find
    ReserveMinutes,  \* billing.reserve_minutes
    Cap,             \* billing.max_call_duration in seconds
    Late             \* how late sched_hangup may fire, in seconds

RateType == [perMinute : Nat, fee : Nat, initial : Nat \ {0},
             subsequent : Nat \ {0}, minDuration : Nat]

\* The CHECKs of the rates table.
ASSUME RatesType == Rates \subseteq RateType
ASSUME FundsType == Funds \subseteq Int
ASSUME LimitsType ==
    /\ ReserveMinutes \in Nat \ {0} /\ Cap \in Nat \ {0}
    /\ Late \in {0, 1}

VARIABLES
    rate,    \* the sell rate of the call
    avail,   \* Account.Available() as Reserve read it
    secs,    \* seconds talked
    phase    \* "new", "refused", "dialled", "ended"

vars == <<rate, avail, secs, phase>>

-----------------------------------------------------------------------------
(***************************************************************************)
(* The package.                                                            *)
(***************************************************************************)

\* x / y rounded half up, for x >= 0 (decimal.Round, decimal.DivRound).
Round(x, y) == (2 * x + y) \div (2 * y)

BilledSeconds(billsec, r) ==
    IF billsec <= 0 \/ billsec < r.minDuration THEN 0
    ELSE IF billsec <= r.initial THEN r.initial
    ELSE r.initial
            + ((billsec - r.initial + r.subsequent - 1) \div r.subsequent)
                * r.subsequent

\* Rounded to ten places by DivRound, then to six.
Amount(billed, perMinute, fee) ==
    IF billed <= 0 THEN 0
    ELSE fee + Round(Round(perMinute * billed * 10000, 60), 10000)

Price(billsec, r) == Amount(BilledSeconds(billsec, r), r.perMinute, r.fee)

\* Mutant: the reserved minutes are priced without the increments.
ReserveRaw(r) == Amount(ReserveMinutes * 60, r.perMinute, r.fee)
ReserveAmount(r) == Price(ReserveMinutes * 60, r)

Least(x, y) == IF x <= y THEN x ELSE y

\* Mutant: the connect fee is not paid first.
MaxIgnoringFee(spendable, r) ==
    IF spendable <= 0 THEN 0
    ELSE IF r.perMinute = 0 THEN Cap
    ELSE Least((spendable * 60) \div r.perMinute, Cap)
\* The quotient is exact enough to take its floor: Div keeps 16 places and a
\* rate is below 10^12 millionths.
MaxCallSeconds(spendable, r) ==
    IF spendable <= 0 \/ spendable - r.fee <= 0 THEN 0
    ELSE IF r.perMinute = 0 THEN Cap
    ELSE Least(((spendable - r.fee) * 60) \div r.perMinute, Cap)

-----------------------------------------------------------------------------
(***************************************************************************)
(* One call.                                                               *)
(***************************************************************************)

Init ==
    /\ rate \in Rates
    /\ avail \in Funds
    /\ secs = 0
    /\ phase = "new"

\* Step 4 and the limit Reserve returns.
Reserve ==
    /\ phase = "new"
    /\ phase' = IF avail > 0 /\ avail >= ReserveAmount(rate)
                THEN "dialled" ELSE "refused"
    /\ UNCHANGED <<rate, avail, secs>>

\* The script schedules a hangup only for a limit above zero.
Limit == MaxCallSeconds(avail, rate)
Scheduled == Limit > 0

\* A second passes; without a scheduled hangup nothing stops the call (the
\* model ends it at Cap + 1).
Second ==
    /\ phase = "dialled"
    /\ secs < IF Scheduled THEN Limit + Late ELSE Cap + 1
    /\ secs' = secs + 1
    /\ UNCHANGED <<rate, avail, phase>>

Hangup ==
    /\ phase = "dialled"
    /\ phase' = "ended"
    /\ UNCHANGED <<rate, avail, secs>>

Next == Reserve \/ Second \/ Hangup

Spec == Init /\ [][Next]_vars

-----------------------------------------------------------------------------
(***************************************************************************)
(* Properties.                                                             *)
(***************************************************************************)

TypeOK ==
    /\ rate \in Rates /\ avail \in Funds /\ secs \in Nat
    /\ phase \in {"new", "refused", "dialled", "ended"}

\* The grace of a rate is shorter than the reserved minutes.
ShortGrace(r) == r.minDuration <= ReserveMinutes * 60

\* D-21: talking to the limit costs at most one subsequent increment more
\* than the funds the limit was computed from.
OverrunBound ==
    phase \in {"dialled", "ended"} /\ ShortGrace(rate) =>
        Price(secs, rate) <= avail + Amount(rate.subsequent, rate.perMinute, 0)

\* The reservation pays for every call that is not longer than the reserved
\* minutes: only longer calls are charged more than what was held (D-18).
ReserveCovers ==
    ShortGrace(rate) /\ secs <= ReserveMinutes * 60 =>
        Price(secs, rate) <= ReserveAmount(rate)

\* A longer call never costs less, whatever increments the rate has.
PriceGrows == [][Price(secs', rate) >= Price(secs, rate)]_vars

\* Rounding twice does no harm: the usage is within half a millionth of
\* rate_per_min * billed / 60, and exactly half is rounded up.
RoundedOnce ==
    LET billed == BilledSeconds(secs, rate)
        error == 60 * (Price(secs, rate) - rate.fee) - rate.perMinute * billed
    IN  billed > 0 => -30 < error /\ error <= 30

=============================================================================
