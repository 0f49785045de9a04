---------------------------- MODULE RatingProofs ----------------------------
(***************************************************************************)
(* The properties of Rating for every rate, balance, reserve period and    *)
(* cap: facts about division, what the operators of internal/rating        *)
(* return, then the call they time.                                        *)
(***************************************************************************)
EXTENDS Rating, TLAPS

\* A leaf that names no prover is tried with each of these in turn.
USE SMTT(30), Z3T(30), ZenonT(30)

\* Integer division, as Go's for operands that are not negative.
LEMMA DivBounds ==
    ASSUME NEW a \in Nat, NEW b \in Nat \ {0}
    PROVE  /\ a \div b \in Nat
           /\ (a \div b) * b <= a
           /\ a < (a \div b) * b + b
OBVIOUS

\* The product of what is larger is larger.
LEMMA MulMono ==
    ASSUME NEW p \in Nat, NEW x \in Nat, NEW z \in Nat, x <= z
    PROVE  p * x \in Nat /\ p * z \in Nat /\ p * x <= p * z
OBVIOUS

\* (a + b - 1) / b is the ceiling BilledSeconds takes.
LEMMA DivUp ==
    ASSUME NEW a \in Nat, NEW b \in Nat \ {0}
    PROVE  /\ (a + b - 1) \div b \in Nat
           /\ ((a + b - 1) \div b) * b >= a
           /\ ((a + b - 1) \div b) * b < a + b
           /\ ((a + b - 1) \div b) * b \in Nat
<1>1. a + b - 1 \in Nat
    OBVIOUS
<1>2. PICK q \in Nat : q = (a + b - 1) \div b
    BY <1>1, DivBounds
<1>3. q * b <= a + b - 1 /\ a + b - 1 < q * b + b
    BY <1>1, <1>2, DivBounds
<1>4. q * b \in Nat
    BY MulMono
<1> QED
    BY <1>2, <1>3, <1>4

\* The ceiling grows with the dividend.
LEMMA DivUpMono ==
    ASSUME NEW a \in Nat, NEW d \in Nat, NEW b \in Nat \ {0}, a <= d
    PROVE  ((a + b - 1) \div b) * b <= ((d + b - 1) \div b) * b
<1> DEFINE q == (a + b - 1) \div b
           r == (d + b - 1) \div b
<1>1. q \in Nat /\ r \in Nat
    BY DivUp
<1>2. q * b < a + b /\ d <= r * b
    BY DivUp
<1> HIDE DEF q, r
<1>3. q <= r
    <2>1. SUFFICES ASSUME r + 1 <= q PROVE FALSE
        BY <1>1
    <2>2. b * (r + 1) <= b * q
        BY <1>1, <2>1, MulMono
    <2>3. b * (r + 1) = r * b + b /\ b * q = q * b
        BY <1>1
    <2> QED
        BY <1>1, <1>2, <2>2, <2>3
<1>4. b * q <= b * r
    BY <1>1, <1>3, MulMono
<1>5. b * q = q * b /\ b * r = r * b
    BY <1>1
<1> QED
    BY <1>4, <1>5 DEF q, r

\* Rounding to ten places and then to six is rounding to six.
LEMMA RoundTwice ==
    ASSUME NEW x \in Nat
    PROVE  Round(Round(x * 10000, 60), 10000) = Round(x, 60)
BY DEF Round

\* Rounding keeps the order, and commutes with adding whole millionths.
LEMMA RoundFacts ==
    ASSUME NEW x \in Nat, NEW z \in Nat
    PROVE  /\ Round(x, 60) \in Nat
           /\ x <= z => Round(x, 60) <= Round(z, 60)
           /\ Round(60 * z + x, 60) = z + Round(x, 60)
           /\ -30 < 60 * Round(x, 60) - x /\ 60 * Round(x, 60) - x <= 30
BY DEF Round

-----------------------------------------------------------------------------
\* What the increments make of a billable call: at least the initial block
\* and its seconds, and less than one increment more than those.
LEMMA BilledBounds ==
    ASSUME NEW r \in RateType, NEW s \in Nat
    PROVE  /\ BilledSeconds(s, r) \in Nat
           /\ s > 0 /\ s >= r.minDuration =>
                /\ BilledSeconds(s, r) >= r.initial
                /\ BilledSeconds(s, r) >= s
           /\ s <= r.initial => BilledSeconds(s, r) <= r.initial
           /\ s > r.initial => BilledSeconds(s, r) <= s + r.subsequent - 1
<1>1. /\ r.initial \in Nat \ {0} /\ r.subsequent \in Nat \ {0}
      /\ r.minDuration \in Nat
    BY DEF RateType
<1>2. CASE s > r.initial
    <2> DEFINE a == s - r.initial
               b == r.subsequent
               up == ((a + b - 1) \div b) * b
    <2>0. a \in Nat /\ b \in Nat \ {0}
        BY <1>1, <1>2
    <2>1. up \in Nat /\ up >= a /\ up < a + b
        <3> HIDE DEF a, b
        <3> QED
            BY ZenonT(60), <2>0, DivUp
    <2>2. \/ BilledSeconds(s, r) = 0 /\ s < r.minDuration
          \/ BilledSeconds(s, r) = r.initial + up
        BY <1>1, <1>2 DEF BilledSeconds
    <2> HIDE DEF up
    <2> QED
        BY <1>1, <1>2, <2>1, <2>2
<1>3. CASE ~(s > r.initial)
    BY <1>1, <1>3 DEF BilledSeconds
<1> QED
    BY <1>2, <1>3

\* A longer call is never billed fewer seconds.
LEMMA BilledMono ==
    ASSUME NEW r \in RateType, NEW s \in Nat, NEW t \in Nat, s <= t
    PROVE  BilledSeconds(s, r) <= BilledSeconds(t, r)
<1>1. /\ r.initial \in Nat \ {0} /\ r.subsequent \in Nat \ {0}
      /\ r.minDuration \in Nat
    BY DEF RateType
<1>2. CASE s <= r.initial
    <2>1. s = 0 \/ s < r.minDuration \/ BilledSeconds(t, r) >= r.initial
        BY <1>1, BilledBounds
    <2>2. s = 0 \/ s < r.minDuration => BilledSeconds(s, r) = 0
        BY <1>1 DEF BilledSeconds
    <2> QED
        BY <1>1, <1>2, <2>1, <2>2, BilledBounds
<1>3. CASE s > r.initial /\ s >= r.minDuration
    <2> DEFINE b == r.subsequent
               a == s - r.initial
               d == t - r.initial
               ups == ((a + b - 1) \div b) * b
               upt == ((d + b - 1) \div b) * b
    <2>0. a \in Nat /\ d \in Nat /\ a <= d /\ b \in Nat \ {0}
        BY <1>1, <1>3
    <2>1. ups <= upt
        <3> HIDE DEF a, b, d
        <3> QED
            BY <2>0, DivUpMono
    <2>2. ups \in Nat /\ upt \in Nat
        <3> HIDE DEF a, b, d
        <3> QED
            BY <2>0, DivUp
    <2>3. BilledSeconds(s, r) = r.initial + ups
        BY <1>1, <1>3 DEF BilledSeconds
    <2>4. BilledSeconds(t, r) = r.initial + upt
        BY <1>1, <1>3 DEF BilledSeconds
    <2> HIDE DEF ups, upt
    <2> QED
        BY <1>1, <2>1, <2>2, <2>3, <2>4
<1>4. CASE s < r.minDuration
    <2>1. BilledSeconds(s, r) = 0
        BY <1>1, <1>4 DEF BilledSeconds
    <2> QED
        BY <2>1, BilledBounds
<1> QED
    BY <1>1, <1>2, <1>3, <1>4

\* Amount in closed form.
LEMMA AmountIs ==
    ASSUME NEW p \in Nat, NEW f \in Nat, NEW b \in Nat
    PROVE  /\ Amount(b, p, f) = IF b = 0 THEN 0 ELSE f + Round(p * b, 60)
           /\ Amount(b, p, f) \in Nat
           /\ p * b \in Nat
<1>1. p * b \in Nat
    BY MulMono
<1>2. Round(Round(p * b * 10000, 60), 10000) = Round(p * b, 60)
    BY <1>1, RoundTwice
<1>3. Round(p * b, 60) \in Nat
    BY <1>1, RoundFacts
<1>4. Amount(b, p, f) = IF b = 0 THEN 0 ELSE f + Round(p * b, 60)
    BY <1>2 DEF Amount
<1> QED
    BY <1>1, <1>3, <1>4

\* More seconds never cost less.
LEMMA PriceMono ==
    ASSUME NEW r \in RateType, NEW s \in Nat, NEW t \in Nat, s <= t
    PROVE  Price(s, r) <= Price(t, r) /\ Price(s, r) \in Nat
<1> DEFINE b == BilledSeconds(s, r)
           d == BilledSeconds(t, r)
<1>1. r.perMinute \in Nat /\ r.fee \in Nat
    BY DEF RateType
<1>2. b \in Nat /\ d \in Nat /\ b <= d
    BY BilledBounds, BilledMono
<1> HIDE DEF b, d
<1>3. r.perMinute * b <= r.perMinute * d
    BY <1>1, <1>2, MulMono
<1>4. Round(r.perMinute * b, 60) <= Round(r.perMinute * d, 60)
    BY ZenonT(60), <1>1, <1>2, <1>3, AmountIs, RoundFacts
<1>5. /\ Amount(b, r.perMinute, r.fee) <= Amount(d, r.perMinute, r.fee)
      /\ Amount(b, r.perMinute, r.fee) \in Nat
    <2>1. /\ Amount(b, r.perMinute, r.fee) =
                IF b = 0 THEN 0 ELSE r.fee + Round(r.perMinute * b, 60)
          /\ Amount(d, r.perMinute, r.fee) =
                IF d = 0 THEN 0 ELSE r.fee + Round(r.perMinute * d, 60)
          /\ Amount(b, r.perMinute, r.fee) \in Nat
          /\ Amount(d, r.perMinute, r.fee) \in Nat
        BY ZenonT(60), <1>1, <1>2, AmountIs
    <2>2. Round(r.perMinute * b, 60) \in Nat /\ Round(r.perMinute * d, 60) \in Nat
        BY ZenonT(60), <1>1, <1>2, AmountIs, RoundFacts
    <2> QED
        BY <1>1, <1>2, <1>4, <2>1, <2>2
<1> QED
    BY <1>5 DEF Price, b, d

-----------------------------------------------------------------------------
\* Within the limit of MaxCallSeconds, and one second of lateness, a call
\* whose reservation the funds covered costs at most one increment more.
LEMMA PriceOfMaxSeconds ==
    ASSUME NEW r \in RateType, NEW m \in Int, NEW s \in Nat, ShortGrace(r),
           m > 0, m >= ReserveAmount(r),
           MaxCallSeconds(m, r) > 0 => s <= MaxCallSeconds(m, r) + Late
    PROVE  Price(s, r) <= m + Amount(r.subsequent, r.perMinute, 0)
<1> DEFINE P == r.perMinute
           F == r.fee
           b == BilledSeconds(s, r)
           rb == BilledSeconds(ReserveMinutes * 60, r)
           over == Round(P * r.subsequent, 60)
<1>1. /\ P \in Nat /\ F \in Nat /\ r.initial \in Nat \ {0}
      /\ r.subsequent \in Nat \ {0} /\ r.minDuration \in Nat
    BY DEF RateType
<1>2. b \in Nat /\ Price(s, r) = IF b = 0 THEN 0 ELSE F + Round(P * b, 60)
    BY ZenonT(60), <1>1, BilledBounds, AmountIs DEF Price
<1>3. over \in Nat /\ Amount(r.subsequent, P, 0) = over /\ P * b \in Nat
    <2>1. P * r.subsequent \in Nat /\ P * b \in Nat
        BY <1>1, <1>2, MulMono
    <2>2. over \in Nat
        BY <2>1, RoundFacts
    <2>3. 0 \in Nat /\ r.subsequent \in Nat /\ r.subsequent # 0
        BY <1>1
    <2>4. Amount(r.subsequent, P, 0) = 0 + over
        BY ZenonT(60), <1>1, <2>3, AmountIs
    <2> QED
        BY <2>1, <2>2, <2>4
<1>4. /\ ReserveMinutes * 60 \in Nat /\ ReserveMinutes * 60 >= 60
      /\ ReserveMinutes * 60 >= r.minDuration
    BY LimitsType DEF ShortGrace
<1>5. rb \in Nat /\ rb >= r.initial /\ rb >= 60
    BY <1>1, <1>4, BilledBounds
<1>6. P * rb \in Nat /\ F + Round(P * rb, 60) <= m
    <2>1. P * rb \in Nat
        BY <1>1, <1>5, MulMono
    <2>2. Amount(rb, P, F) = F + Round(P * rb, 60)
        <3> HIDE DEF rb, P, F
        <3>1. rb # 0
            BY <1>5
        <3> QED
            BY <1>1, <1>5, <3>1, AmountIs
    <2>3. ReserveAmount(r) = Amount(rb, P, F)
        BY DEF ReserveAmount, Price
    <2> QED
        BY <2>1, <2>2, <2>3
<1> HIDE DEF P, F, b, rb, over
<1>7. CASE b <= rb
    <2>1. P * b <= P * rb
        BY <1>1, <1>2, <1>5, <1>7, MulMono
    <2>2. Round(P * b, 60) <= Round(P * rb, 60)
        BY <1>3, <1>6, <2>1, RoundFacts
    <2>3. Round(P * b, 60) \in Nat /\ Round(P * rb, 60) \in Nat
        BY <1>3, <1>6, RoundFacts
    <2> QED
        BY <1>1, <1>2, <1>3, <1>6, <2>2, <2>3 DEF P
<1>8. CASE b > rb
    <2>1. s > r.initial
        BY <1>1, <1>2, <1>5, <1>8, BilledBounds DEF b
    <2>2. b <= s + r.subsequent - 1
        BY <2>1, BilledBounds DEF b
    <2>3. m - F >= P
        <3>1. P * 60 <= P * rb
            BY <1>1, <1>5, MulMono
        <3>2. Round(60 * P + 0, 60) = P + Round(0, 60)
            BY <1>1, RoundFacts
        <3>3. Round(0, 60) \in Nat
            BY RoundFacts
        <3>4. Round(P * 60, 60) <= Round(P * rb, 60)
            BY <1>1, <1>6, <3>1, RoundFacts
        <3>5. Round(P * rb, 60) \in Nat
            BY <1>6, RoundFacts
        <3> QED
            BY <1>1, <1>6, <3>2, <3>3, <3>4, <3>5
    <2>4. CASE P = 0
        <3>1. P * b = 0 /\ P * rb = 0
            BY <1>2, <1>5, <2>4
        <3>2. Round(P * b, 60) = Round(P * rb, 60) /\ Round(P * rb, 60) \in Nat
            BY <1>6, <3>1, RoundFacts
        <3> QED
            BY <1>1, <1>2, <1>3, <1>6, <3>2 DEF P
    <2>5. CASE P > 0
        <3> DEFINE q == ((m - F) * 60) \div P
        <3>1. (m - F) * 60 \in Nat /\ m - F \in Nat
            BY <1>1, <2>3
        <3>2. q \in Nat /\ q * P <= (m - F) * 60
            BY <1>1, <2>5, <3>1, DivBounds
        <3>3. q >= 1
            <4>1. (m - F) * 60 < q * P + P
                BY <1>1, <2>5, <3>1, DivBounds
            <4> HIDE DEF q
            <4>2. q = 0 => q * P = 0
                BY <1>1
            <4> QED
                BY <1>1, <2>3, <2>5, <3>2, <4>1, <4>2
        <3>4. MaxCallSeconds(m, r) = Least(q, Cap)
            BY <1>1, <2>3, <2>5 DEF MaxCallSeconds, P, F
        <3> HIDE DEF q
        <3>5. MaxCallSeconds(m, r) > 0 /\ MaxCallSeconds(m, r) <= q
            BY <3>2, <3>3, <3>4, LimitsType DEF Least
        <3>6. s <= q + 1
            BY <3>2, <3>4, <3>5, LimitsType DEF Least
        <3>7. b <= q + r.subsequent
            BY <1>1, <1>2, <2>2, <3>2, <3>6
        <3>8. P * b <= P * (q + r.subsequent)
            BY <1>1, <1>2, <3>2, <3>7, MulMono
        <3>9. P * (q + r.subsequent) = q * P + P * r.subsequent
            BY <1>1, <3>2
        <3>10. P * r.subsequent \in Nat /\ q * P \in Nat
            BY <1>1, <3>2, MulMono
        <3>11. P * b <= 60 * (m - F) + P * r.subsequent
            BY <1>1, <1>3, <3>1, <3>2, <3>8, <3>9, <3>10
        <3>12. Round(P * b, 60) <= Round(60 * (m - F) + P * r.subsequent, 60)
            <4>1. 60 * (m - F) + P * r.subsequent \in Nat
                BY <3>1, <3>10
            <4> QED
                BY <1>3, <3>11, <4>1, RoundFacts
        <3>13. Round(60 * (m - F) + P * r.subsequent, 60) = (m - F) + over
            BY ZenonT(60), <3>1, <3>10, RoundFacts DEF over
        <3>14. Round(P * b, 60) \in Nat
            BY <1>3, RoundFacts
        <3> QED
            BY <1>1, <1>2, <1>3, <3>12, <3>13, <3>14 DEF P
    <2> QED
        BY <1>1, <2>4, <2>5
<1> QED
    BY <1>2, <1>5, <1>7, <1>8

-----------------------------------------------------------------------------
\* What holds of the call at every second: its reservation was affordable
\* and it has not talked past its limit.
Inv ==
    /\ TypeOK
    /\ phase \in {"dialled", "ended"} =>
            /\ avail > 0 /\ avail >= ReserveAmount(rate)
            /\ Scheduled => secs <= Limit + Late
    /\ phase \in {"new", "refused"} => secs = 0

\* Inv is inductive.
LEMMA InvHolds == Spec => []Inv
<1>1. Init => Inv
    BY DEF Init, Inv, TypeOK
<1>2. Inv /\ [Next]_vars => Inv'
    <2> SUFFICES ASSUME Inv, [Next]_vars PROVE Inv'
        OBVIOUS
    <2> USE DEF Inv, TypeOK
    <2>0. Limit \in Nat
        <3>1. avail \in Int /\ rate \in RateType
            BY FundsType, RatesType
        <3>2. rate.perMinute \in Nat /\ rate.fee \in Nat
            BY <3>1 DEF RateType
        <3>3. CASE avail - rate.fee <= 0 \/ avail <= 0 \/ rate.perMinute = 0
            BY <3>1, <3>2, <3>3, LimitsType DEF Limit, MaxCallSeconds
        <3>4. CASE avail - rate.fee > 0 /\ avail > 0 /\ rate.perMinute > 0
            <4> DEFINE q == ((avail - rate.fee) * 60) \div rate.perMinute
            <4>1. (avail - rate.fee) * 60 \in Nat
                BY <3>1, <3>2, <3>4
            <4>2. q \in Nat
                BY <3>2, <3>4, <4>1, DivBounds
            <4>3. Limit = Least(q, Cap)
                <5>1. ~(avail <= 0 \/ avail - rate.fee <= 0) /\ rate.perMinute # 0
                    BY <3>1, <3>2, <3>4
                <5> QED
                    BY <5>1 DEF Limit, MaxCallSeconds
            <4> QED
                BY <4>2, <4>3, LimitsType DEF Least
        <3> QED
            BY <3>1, <3>2, <3>3, <3>4
    <2>1. CASE Reserve
        <3>1. Limit' = Limit /\ Scheduled' = Scheduled
                /\ ReserveAmount(rate)' = ReserveAmount(rate)
            BY <2>1 DEF Reserve, Limit, Scheduled
        <3> QED
            BY <2>0, <2>1, <3>1, FundsType, LimitsType DEF Reserve
    <2>2. CASE Second
        <3>1. Limit' = Limit /\ Scheduled' = Scheduled
            BY <2>2 DEF Second, Limit, Scheduled
        <3>2. Scheduled => secs + 1 <= Limit + Late
            BY <2>0, <2>2, LimitsType DEF Second
        <3> QED
            BY <2>0, <2>2, <3>1, <3>2 DEF Second
    <2>3. CASE Hangup
        <3>1. Limit' = Limit /\ Scheduled' = Scheduled
            BY <2>3 DEF Hangup, Limit, Scheduled
        <3> QED
            BY <2>3, <3>1 DEF Hangup
    <2>4. CASE UNCHANGED vars
        BY <2>4 DEF vars, Limit, Scheduled
    <2> QED
        BY <2>1, <2>2, <2>3, <2>4 DEF Next
<1> QED
    BY <1>1, <1>2, PTL DEF Spec

\* D-21 for every rate and balance: a call that is hung up at its limit, or a
\* second later, costs at most one increment more than the funds.
THEOREM OverrunBounded == Spec => []OverrunBound
<1>1. Inv => OverrunBound
    <2> SUFFICES ASSUME Inv, phase \in {"dialled", "ended"}, ShortGrace(rate)
                 PROVE  Price(secs, rate) <= avail
                            + Amount(rate.subsequent, rate.perMinute, 0)
        BY DEF OverrunBound
    <2>1. rate \in RateType /\ avail \in Int /\ secs \in Nat
        BY RatesType, FundsType DEF Inv, TypeOK
    <2> QED
        BY <2>1, PriceOfMaxSeconds DEF Inv, Scheduled, Limit
<1> QED
    BY <1>1, InvHolds, PTL

\* The reservation covers every call within the reserved minutes (D-18).
THEOREM ReservationCovers == Spec => []ReserveCovers
<1>1. Inv => ReserveCovers
    <2>1. Inv => rate \in RateType /\ secs \in Nat
        BY RatesType DEF Inv, TypeOK
    <2>2. ReserveMinutes * 60 \in Nat
        BY LimitsType
    <2> QED
        BY <2>1, <2>2, PriceMono DEF ReserveCovers, ReserveAmount
<1> QED
    BY <1>1, InvHolds, PTL

\* A second more never makes a call cheaper.
THEOREM PriceNeverFalls == Spec => PriceGrows
<1>1. Inv /\ [Next]_vars => [Price(secs', rate) >= Price(secs, rate)]_vars
    <2> SUFFICES ASSUME Inv, Next PROVE Price(secs', rate) >= Price(secs, rate)
        OBVIOUS
    <2>1. rate \in RateType /\ secs \in Nat
        BY RatesType DEF Inv, TypeOK
    <2>2. secs' \in Nat /\ secs <= secs'
        BY <2>1 DEF Next, Reserve, Second, Hangup
    <2>3. Price(secs, rate) <= Price(secs', rate)
        BY <2>1, <2>2, PriceMono
    <2>4. Price(secs, rate) \in Nat /\ Price(secs', rate) \in Nat
        BY <2>1, <2>2, PriceMono
    <2> QED
        BY <2>3, <2>4
<1> QED
    BY <1>1, InvHolds, PTL DEF Spec, PriceGrows

\* The two roundings of Amount are one rounding, half up.
THEOREM RoundingIsExact == Spec => []RoundedOnce
<1>1. Inv => RoundedOnce
    <2> SUFFICES ASSUME Inv PROVE RoundedOnce
        OBVIOUS
    <2> DEFINE b == BilledSeconds(secs, rate)
    <2>1. rate \in RateType /\ secs \in Nat
        BY RatesType DEF Inv, TypeOK
    <2>2. rate.perMinute \in Nat /\ rate.fee \in Nat /\ b \in Nat
        BY <2>1, BilledBounds DEF RateType
    <2>3. /\ rate.perMinute * b \in Nat
          /\ b > 0 => Price(secs, rate) = rate.fee + Round(rate.perMinute * b, 60)
        <3>1. Price(secs, rate) = Amount(b, rate.perMinute, rate.fee)
            BY DEF Price
        <3> HIDE DEF b
        <3>2. b > 0 => b # 0
            BY <2>2
        <3>3. /\ rate.perMinute * b \in Nat
              /\ Amount(b, rate.perMinute, rate.fee) =
                    IF b = 0 THEN 0 ELSE rate.fee + Round(rate.perMinute * b, 60)
            BY ZenonT(60), <2>2, AmountIs
        <3> QED
            BY <3>1, <3>2, <3>3
    <2> HIDE DEF b
    <2>4. LET x == rate.perMinute * b
              error == 60 * Round(x, 60) - x
          IN  Round(x, 60) \in Nat /\ -30 < error /\ error <= 30
        BY ZenonT(60), <2>3, RoundFacts
    <2>5. b > 0 => 60 * (Price(secs, rate) - rate.fee)
                    = 60 * Round(rate.perMinute * b, 60)
        BY <2>2, <2>3, <2>4
    <2> QED
        BY <2>4, <2>5 DEF RoundedOnce, b
<1> QED
    BY <1>1, InvHolds, PTL

=============================================================================
