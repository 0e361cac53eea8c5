---------------------------- MODULE RealTimeProofs ----------------------------
(***************************************************************************)
(* Simulated time keeps the pace of the host's clock for all ratios,       *)
(* corrections and periods, however often the ratio is adjusted: what the  *)
(* conversions of hwtimer_adjust_rt_ratio truncate is less than a          *)
(* microsecond each time, and the errors only add up.                      *)
(***************************************************************************)
EXTENDS RealTime, WellFoundedInduction, TLAPS

-----------------------------------------------------------------------------
(* Division of integers, and fractions.                                    *)

LEMMA Quotient ==
  ASSUME NEW a \in Int, NEW b \in Nat \ {0}
  PROVE  /\ a \div b \in Int
         /\ b * (a \div b) <= a
         /\ a < b * (a \div b) + b
<1>1. a \div b \in Int
  OBVIOUS
<1>2. b * (a \div b) <= a
  BY SMTT(60)
<1>3. a < b * (a \div b) + b
  BY SMTT(60)
<1> QED BY <1>1, <1>2, <1>3

LEMMA QuotientNatural ==
  ASSUME NEW a \in Nat, NEW b \in Nat \ {0}
  PROVE  a \div b \in Nat
OBVIOUS

LEMMA NoRemainder ==
  ASSUME NEW a \in Int, NEW b \in Nat \ {0}, a % b = 0
  PROVE  a = b * (a \div b)
<1>1. ASSUME NEW q \in Int, NEW r \in Int, q = a \div b, r = a % b
      PROVE  a = b * q + r
  BY <1>1
<1>2. a \div b \in Int /\ a % b \in Int
  OBVIOUS
<1> QED BY <1>1, <1>2

LEMMA Multiple ==
  ASSUME NEW a \in Int, NEW b \in Nat \ {0}
  PROVE  (a * b) % b = 0
OBVIOUS

LEMMA NaturalProduct ==
  ASSUME NEW a \in Nat, NEW b \in Nat
  PROVE  /\ a * b \in Nat
         /\ a # 0 /\ b # 0 => a * b # 0
OBVIOUS

(* A common factor may be left out.                                        *)
LEMMA CancelLess ==
  ASSUME NEW a \in Int, NEW b \in Int, NEW c \in Nat \ {0}, c * a < c * b
  PROVE  a < b
OBVIOUS

LEMMA CancelLeq ==
  ASSUME NEW a \in Int, NEW b \in Int, NEW c \in Nat \ {0}, c * a <= c * b
  PROVE  a <= b
OBVIOUS

LEMMA CancelEqual ==
  ASSUME NEW a \in Int, NEW b \in Int, NEW c \in Nat \ {0}, c * a = c * b
  PROVE  a = b
<1>1. a <= b
  BY CancelLeq
<1>2. b <= a
  BY CancelLeq
<1> QED BY <1>1, <1>2

LEMMA MultiplyLeq ==
  ASSUME NEW a \in Int, NEW b \in Int, NEW c \in Nat, a <= b
  PROVE  c * a <= c * b
OBVIOUS

LEMMA MultiplyLess ==
  ASSUME NEW a \in Int, NEW b \in Int, NEW c \in Nat \ {0}, a < b
  PROVE  c * a < c * b
OBVIOUS

LEMMA LeastNatural ==
  ASSUME NEW S \in SUBSET Nat, S # {}
  PROVE  \E n \in S : \A m \in S : n <= m
<1> DEFINE R == {pair \in Nat \X Nat : pair[1] < pair[2]}
<1>1. IsWellFoundedOn(R, Nat)
  BY NatLessThanWellFounded DEF OpToRel
<1>2. \A m, n \in Nat : m < n => <<m, n>> \in R
  OBVIOUS
<1> HIDE DEF R
<1>3. PICK n \in S : \A m \in S : <<m, n>> \notin R
  BY <1>1, WFMin
<1>4. \A m \in S : m \in Nat
  OBVIOUS
<1>5. \A m \in S : ~(m < n)
  BY <1>2, <1>3, <1>4
<1> QED BY <1>4, <1>5

(* Reduced does not change the fraction.                                   *)
LEMMA ReducedIsEqual ==
  ASSUME NEW n \in Nat, NEW d \in Nat \ {0}
  PROVE  /\ Reduced(n, d) \in Nat \X (Nat \ {0})
         /\ Reduced(n, d)[1] * d = n * Reduced(n, d)[2]
         /\ n # 0 => Reduced(n, d)[1] # 0
<1> DEFINE Fits(q) == (n * q) % d = 0
           S == {q \in 1 .. d : Fits(q)}
           least == CHOOSE q \in 1 .. d : Fits(q) /\ \A r \in 1 .. q - 1 : ~Fits(r)
<1>1. d \in S
  BY Multiple
<1>2. S \in SUBSET Nat
  OBVIOUS
<1>3. PICK q \in S : \A m \in S : q <= m
  <2> HIDE DEF S
  <2> QED BY <1>1, <1>2, LeastNatural
<1>4. q \in 1 .. d /\ Fits(q) /\ \A r \in 1 .. q - 1 : ~Fits(r)
  <2> HIDE DEF Fits
  <2> QED BY <1>3
<1>5. least \in 1 .. d /\ Fits(least)
  <2> HIDE DEF Fits
  <2> QED BY <1>4
<1>6. Reduced(n, d) = <<(n * least) \div d, least>>
  BY DEF Reduced
<1> HIDE DEF least
<1>7. n * least \in Nat /\ least \in Nat \ {0}
  BY <1>5, NaturalProduct
<1>8. (n * least) \div d \in Nat
  BY <1>7, QuotientNatural
<1>9. n * least = d * ((n * least) \div d)
  BY <1>5, <1>7, NoRemainder
<1>10. n # 0 => (n * least) \div d # 0
  <2>1. n # 0 => n * least # 0
    BY <1>7, NaturalProduct
  <2> QED BY <1>7, <1>8, <1>9, <2>1
<1> QED BY <1>6, <1>7, <1>8, <1>9, <1>10

-----------------------------------------------------------------------------
(* The time line of the host.  The simulation has gone D microseconds      *)
(* since the last adjustment, which was R on the host, at the ratio n / d; *)
(* p / q is the host time that all ratios ask for.  Lost is what that is   *)
(* ahead of R and D, in q * n-ths of a microsecond.                        *)

Lost(p, q, n, d, D, R) == p * n - q * (D * d + R * n)
WithinLoss(lost, q, n, adj) == 0 <= lost /\ lost <= q * n * adj

(* Simulated time goes on by t.                                            *)
LEMMA LostAtAdvance ==
  ASSUME NEW p \in Nat, NEW q \in Nat \ {0}, NEW n \in Nat \ {0}, NEW d \in Nat \ {0},
         NEW D \in Nat, NEW R \in Nat, NEW adj \in Nat, NEW t \in Nat,
         NEW p2 \in Nat, NEW q2 \in Nat \ {0},
         p2 * (q * n) = (p * n + t * d * q) * q2,
         WithinLoss(Lost(p, q, n, d, D, R), q, n, adj)
  PROVE  WithinLoss(Lost(p2, q2, n, d, D + t, R), q2, n, adj)
<1> DEFINE lost == Lost(p, q, n, d, D, R)
           lost2 == Lost(p2, q2, n, d, D + t, R)
<1>1. lost \in Int /\ lost2 \in Int
  BY DEF Lost
<1>2. n * (q * lost2) = n * (q2 * lost)
  <2>1. n * (q * lost2) = n * (p2 * (q * n)) - n * q * q2 * ((D + t) * d + R * n)
    BY DEF Lost
  <2>2. n * (q2 * lost) = n * ((p * n + t * d * q) * q2) - n * q * q2 * ((D + t) * d + R * n)
    BY DEF Lost
  <2> QED BY <2>1, <2>2
<1>3. q * lost2 = q2 * lost
  <2>1. q * lost2 \in Int /\ q2 * lost \in Int
    BY <1>1
  <2> QED BY <1>2, <2>1, CancelEqual
<1>4. 0 <= lost /\ lost <= q * n * adj
  BY DEF WithinLoss
<1> HIDE DEF lost, lost2
<1>5. q2 * 0 <= q2 * lost /\ q2 * lost <= q2 * (q * n * adj)
  BY <1>1, <1>4, MultiplyLeq
<1>6. q * 0 <= q * lost2 /\ q * lost2 <= q * (q2 * n * adj)
  BY <1>1, <1>3, <1>5
<1>7. 0 <= lost2 /\ lost2 <= q2 * n * adj
  BY <1>1, <1>6, CancelLeq
<1> QED BY <1>7 DEF WithinLoss, lost2

(* The ratio is adjusted: the host time of now becomes the next R, and     *)
(* loses less than a microsecond.                                          *)
LEMMA LostAtAdjustment ==
  ASSUME NEW p \in Nat, NEW q \in Nat \ {0}, NEW n \in Nat \ {0}, NEW d \in Nat \ {0},
         NEW D \in Nat, NEW R \in Nat, NEW adj \in Nat,
         NEW n2 \in Nat \ {0}, NEW d2 \in Nat \ {0},
         WithinLoss(Lost(p, q, n, d, D, R), q, n, adj)
  PROVE  WithinLoss(Lost(p, q, n2, d2, 0, R + (D * d) \div n), q, n2, adj + 1)
<1> DEFINE F == (D * d) \div n
           lost == Lost(p, q, n, d, D, R)
           short == p - q * (R + F)
<1>1. D * d \in Nat /\ F \in Int /\ n * F <= D * d /\ D * d < n * F + n
  BY NaturalProduct, Quotient
<1> HIDE DEF F
<1>2. short \in Int /\ lost \in Int
  BY <1>1 DEF Lost
<1>3. n * short = lost + q * (D * d - n * F)
  BY <1>1 DEF Lost
<1>4. q * 0 <= q * (D * d - n * F) /\ q * (D * d - n * F) <= q * n
  BY <1>1, MultiplyLeq
<1>5. 0 <= lost /\ lost <= q * n * adj
  BY DEF WithinLoss
<1>6. n * 0 <= n * short /\ n * short <= n * (q * (adj + 1))
  <2> HIDE DEF short, lost
  <2>1. q * (D * d - n * F) \in Int
    BY <1>1
  <2>2. n * (q * (adj + 1)) = q * n * adj + q * n
    OBVIOUS
  <2> QED BY <1>1, <1>2, <1>3, <1>4, <1>5, <2>1, <2>2
<1>7. 0 <= short /\ short <= q * (adj + 1)
  BY <1>2, <1>6, CancelLeq
<1>8. n2 * 0 <= n2 * short /\ n2 * short <= n2 * (q * (adj + 1))
  BY <1>2, <1>7, MultiplyLeq
<1>9. Lost(p, q, n2, d2, 0, R + F) = n2 * short
  BY <1>1 DEF Lost
<1> HIDE DEF short
<1> QED BY <1>2, <1>8, <1>9 DEF WithinLoss, F

(* The host time that a tick waits for, against the one all ratios ask for *)
LEMMA ExpectedAgainstIdeal ==
  ASSUME NEW p \in Nat, NEW q \in Nat \ {0}, NEW n \in Nat \ {0}, NEW d \in Nat \ {0},
         NEW D \in Nat, NEW R \in Nat, NEW adj \in Nat,
         WithinLoss(Lost(p, q, n, d, D, R), q, n, adj),
         NEW h \in Nat
  PROVE  /\ h >= (D * d) \div n + R => (h + adj + 1) * q > p
         /\ h * q >= p => h >= (D * d) \div n + R
<1> DEFINE F == (D * d) \div n
           lost == Lost(p, q, n, d, D, R)
<1>1. D * d \in Nat /\ F \in Int /\ n * F <= D * d /\ D * d < n * F + n
  BY NaturalProduct, Quotient
<1>2. 0 <= lost /\ lost <= q * n * adj /\ lost \in Int
  BY DEF WithinLoss, Lost
<1>3. n * p = lost + q * (D * d + R * n)
  BY DEF Lost
<1> HIDE DEF F, lost
<1>4. ASSUME h >= F + R
      PROVE  (h + adj + 1) * q > p
  <2>1. n * (F + R) <= n * h
    BY <1>1, <1>4, MultiplyLeq
  <2>2. D * d + R * n < n * h + n
    BY <1>1, <2>1
  <2>3. q * (D * d + R * n) < q * (n * h + n)
    BY <1>1, <2>2, MultiplyLess
  <2>4. n * ((h + adj + 1) * q) = q * n * adj + q * (n * h + n)
    OBVIOUS
  <2>5. n * p < n * ((h + adj + 1) * q)
    BY <1>1, <1>2, <1>3, <2>3, <2>4
  <2> QED BY <2>5, CancelLess
<1>5. ASSUME h * q >= p
      PROVE  h >= F + R
  <2>1. n * p <= n * (h * q)
    BY <1>5, MultiplyLeq
  <2>2. q * (n * F + R * n) <= q * (D * d + R * n)
    BY <1>1, MultiplyLeq
  <2>3. (q * n) * (F + R) = q * (n * F + R * n)
    BY <1>1
  <2>4. (q * n) * h = n * (h * q)
    OBVIOUS
  <2>5. (q * n) * (F + R) <= (q * n) * h
    BY <1>1, <1>2, <1>3, <2>1, <2>2, <2>3, <2>4
  <2>6. q * n \in Nat \ {0} /\ F + R \in Int
    BY <1>1, NaturalProduct
  <2> QED BY <2>5, <2>6, CancelLeq
<1> QED BY <1>4, <1>5 DEF F

(* The pseudo-host clock, X, against the RTC.                              *)
LEMMA ClocksApart ==
  ASSUME NEW p \in Nat, NEW q \in Nat \ {0}, NEW n \in Nat \ {0}, NEW d \in Nat \ {0},
         NEW s \in Nat, NEW S \in Nat, NEW R \in Nat, NEW adj \in Nat,
         WithinLoss(Lost(p, q, n, d, S - s, R), q, n, adj),
         NEW h \in Nat, NEW o \in Int, NEW X \in Int,
         d * X <= (h - R) * n + (s + o) * d,
         (h - R) * n + (s + o) * d < d * X + d
  PROVE  /\ n * (q * h - p) - q * d < q * d * (X - (S + o))
         /\ q * d * (X - (S + o)) <= n * (q * h - p) + adj * q * n
<1> DEFINE lost == Lost(p, q, n, d, S - s, R)
           N == (h - R) * n + (s + o) * d
<1>1. 0 <= lost /\ lost <= q * n * adj /\ lost \in Int
  BY DEF WithinLoss, Lost
<1>2. q * (N - d * (S + o)) = n * (q * h - p) + lost
  BY DEF Lost
<1>3. N \in Int /\ d * X <= N /\ N < d * X + d
  OBVIOUS
<1> HIDE DEF lost, N
<1>4. q * (d * X) <= q * N /\ q * N < q * (d * X + d)
  BY <1>3, MultiplyLeq, MultiplyLess
<1>5. q * d * (X - (S + o)) = q * (d * X) - q * (d * (S + o))
  OBVIOUS
<1>6. q * (N - d * (S + o)) = q * N - q * (d * (S + o))
  BY <1>3
<1>7. q * (d * X + d) = q * (d * X) + q * d /\ adj * q * n = q * n * adj
  OBVIOUS
<1> QED BY <1>1, <1>2, <1>3, <1>4, <1>5, <1>6, <1>7
-----------------------------------------------------------------------------
(* The inductive invariant.                                                *)

(* A tick is never due before simulated time.                              *)
TickInv ==
  ~NoTicks => /\ simu_time <= hw_timer_tick_timer
              /\ tick_p \in TickPeriods

Elapsed == simu_time - last_radj_stime

(* No more than a microsecond per adjustment is lost.                      *)
PaceInv ==
  real_time_mode =>
    WithinLoss(Lost(ideal[1], ideal[2], num, den, Elapsed, last_radj_rtime),
               ideal[2], num, adjustments)

IInv ==
  /\ TypeOK
  /\ TickInv
  /\ PaceInv

LEMMA InitInv == Init => IInv
<1> SUFFICES ASSUME Init
             PROVE  IInv
  OBVIOUS
<1>1. /\ Boot \in Nat /\ MaxTime \in Nat /\ MaxAdjustments \in Nat
      /\ Ratios \subseteq (Nat \ {0}) \X (Nat \ {0})
      /\ RtcOffsets \subseteq Int
  BY RealTimeAssumption DEF RealTimeAssumption
<1>2. clock_ratio \in (Nat \ {0}) \X (Nat \ {0})
  BY <1>1 DEF Init
<1>3. TypeOK
  <2>1. /\ simu_time \in 0 .. MaxTime /\ last_radj_stime \in 0 .. simu_time
        /\ tick_p \in TickPeriods \cup {0}
        /\ rtc_offset \in Int /\ adjustments \in 0 .. MaxAdjustments
    BY <1>1 DEF Init
  <2>2. {hw_timer_tick_timer, host, last_radj_rtime} \subseteq Nat
    BY <1>1 DEF Init
  <2>3. {real_time_mode, signaled_end, exited} \subseteq BOOLEAN
    BY DEF Init
  <2>4. num \in Nat \ {0} /\ den \in Nat \ {0}
    BY <1>2 DEF num, den
  <2>5. ideal \in Nat \X (Nat \ {0})
    BY <1>1 DEF Init
  <2> QED BY <2>1, <2>2, <2>3, <2>4, <2>5 DEF TypeOK
<1>4. TickInv
  BY DEF Init, TickInv, NoTicks
<1>5. PaceInv
  <2> SUFFICES ASSUME real_time_mode
               PROVE  WithinLoss(Lost(ideal[1], ideal[2], num, den, Elapsed, last_radj_rtime),
                                 ideal[2], num, adjustments)
    BY DEF PaceInv
  <2>1. /\ ideal[1] = Boot /\ ideal[2] = 1 /\ last_radj_rtime = Boot
        /\ Elapsed = 0 /\ adjustments = 0
    BY DEF Init, Elapsed
  <2>2. num \in Nat /\ den \in Nat
    BY <1>3 DEF TypeOK
  <2>3. Lost(Boot, 1, num, den, 0, Boot) = 0
    BY <1>1, <2>2 DEF Lost
  <2>4. WithinLoss(0, 1, num, 0)
    BY <2>2 DEF WithinLoss
  <2> QED BY <2>1, <2>3, <2>4
<1> QED BY <1>3, <1>4, <1>5 DEF IInv

(* Simulated time goes on.                                                 *)
LEMMA AdvanceInv ==
  ASSUME IInv, NEW time \in Nat, simu_time <= time, AdvanceTo(time),
         UNCHANGED <<real_time_mode, radj, adjustments>>
  PROVE  /\ simu_time' = time /\ time \in 0 .. MaxTime
         /\ last_radj_stime' \in 0 .. time
         /\ ideal' \in Nat \X (Nat \ {0})
         /\ PaceInv'
<1> DEFINE p == ideal[1]
           q == ideal[2]
           t == time - simu_time
<1>1. /\ p \in Nat /\ q \in Nat \ {0} /\ num \in Nat \ {0} /\ den \in Nat \ {0}
      /\ last_radj_rtime \in Nat /\ Elapsed \in Nat /\ t \in Nat
      /\ adjustments \in Nat
      /\ MaxTime \in Nat
  BY RealTimeAssumption DEF IInv, TypeOK, Elapsed, RealTimeAssumption
<1>2. /\ time <= MaxTime /\ simu_time' = time
      /\ ideal' = Reduced(p * num + t * den * q, q * num)
      /\ UNCHANGED <<real_time_mode, last_radj_rtime, last_radj_stime, adjustments>>
      /\ num' = num /\ den' = den
  BY DEF AdvanceTo, radj, num, den
<1> HIDE DEF p, q, t
<1>3. p * num + t * den * q \in Nat /\ q * num \in Nat \ {0}
  <2>1. p * num \in Nat /\ t * den \in Nat
    BY <1>1, NaturalProduct
  <2>2. (t * den) * q \in Nat
    BY <1>1, <2>1, NaturalProduct
  <2> QED BY <1>1, <2>1, <2>2, NaturalProduct
<1>4. /\ ideal' \in Nat \X (Nat \ {0})
      /\ ideal'[1] * (q * num) = (p * num + t * den * q) * ideal'[2]
  BY <1>2, <1>3, ReducedIsEqual
<1>5. Elapsed' = Elapsed + t
  BY <1>1, <1>2 DEF Elapsed, t, IInv, TypeOK
<1>6. PaceInv'
  <2> SUFFICES ASSUME real_time_mode
               PROVE  WithinLoss(Lost(ideal'[1], ideal'[2], num, den, Elapsed + t, last_radj_rtime),
                                 ideal'[2], num, adjustments)
    BY <1>2, <1>5 DEF PaceInv
  <2>1. WithinLoss(Lost(p, q, num, den, Elapsed, last_radj_rtime), q, num, adjustments)
    BY DEF IInv, PaceInv, p, q
  <2>2. ideal'[1] \in Nat /\ ideal'[2] \in Nat \ {0}
    BY <1>4
  <2> QED BY <1>1, <1>4, <2>1, <2>2, LostAtAdvance
<1>7. last_radj_stime' \in 0 .. time
  BY <1>2 DEF IInv, TypeOK
<1> QED BY <1>1, <1>2, <1>4, <1>6, <1>7

(* The ratio is adjusted.                                                  *)
LEMMA AdjustInv ==
  ASSUME IInv, NEW correction \in Corrections, AdjustRtRatio(correction)
  PROVE  IInv'
<1> DEFINE p == ideal[1]
           q == ideal[2]
<1>1. /\ p \in Nat /\ q \in Nat \ {0} /\ num \in Nat \ {0} /\ den \in Nat \ {0}
      /\ last_radj_rtime \in Nat /\ Elapsed \in Nat /\ adjustments \in Nat
      /\ simu_time \in Nat
  BY RealTimeAssumption DEF IInv, TypeOK, Elapsed, RealTimeAssumption
<1>2. correction[1] \in Nat \ {0} /\ correction[2] \in Nat \ {0}
  BY RealTimeAssumption DEF RealTimeAssumption
<1>3. /\ clock_ratio' = Reduced(num * correction[1], den * correction[2])
      /\ last_radj_rtime' = last_radj_rtime + HostTimeFor(Elapsed)
      /\ last_radj_stime' = simu_time
      /\ adjustments' = adjustments + 1 /\ adjustments < MaxAdjustments
      /\ UNCHANGED <<simu_time, hw_timer_tick_timer, tick_p, host, real_time_mode, rtc_offset,
                     signaled_end, exited, ideal>>
  BY DEF AdjustRtRatio, Corrected, ticks, Elapsed
<1>4. num' \in Nat \ {0} /\ den' \in Nat \ {0}
  <2>1. num * correction[1] \in Nat \ {0} /\ den * correction[2] \in Nat \ {0}
    BY <1>1, <1>2, NaturalProduct
  <2>2. /\ clock_ratio' \in Nat \X (Nat \ {0})
        /\ clock_ratio'[1] # 0
    BY <1>3, <2>1, ReducedIsEqual
  <2> QED BY <2>2 DEF num, den
<1>5. HostTimeFor(Elapsed) \in Nat
  BY <1>1, NaturalProduct, QuotientNatural DEF HostTimeFor
<1>6. Elapsed' = 0
  BY <1>1, <1>3 DEF Elapsed
<1>7. PaceInv'
  <2> SUFFICES ASSUME real_time_mode
               PROVE  WithinLoss(Lost(p, q, num', den', 0, last_radj_rtime + HostTimeFor(Elapsed)),
                                 q, num', adjustments + 1)
    BY <1>3, <1>6 DEF PaceInv
  <2>1. WithinLoss(Lost(p, q, num, den, Elapsed, last_radj_rtime), q, num, adjustments)
    BY DEF IInv, PaceInv
  <2> HIDE DEF p, q
  <2> QED BY <1>1, <1>4, <2>1, LostAtAdjustment DEF HostTimeFor
<1>8. TypeOK'
  BY <1>1, <1>3, <1>4, <1>5, RealTimeAssumption DEF IInv, TypeOK, RealTimeAssumption
<1>9. TickInv'
  BY <1>3 DEF IInv, TickInv, NoTicks
<1> QED BY <1>7, <1>8, <1>9 DEF IInv

LEMMA StepInv == IInv /\ [Next]_vars => IInv'
<1> SUFFICES ASSUME IInv, [Next]_vars
             PROVE  IInv'
  OBVIOUS
<1>1. /\ simu_time \in Nat /\ hw_timer_tick_timer \in Nat /\ host \in Nat
      /\ MaxTime \in Nat /\ MaxAdjustments \in Nat
      /\ TickPeriods \subseteq Nat \ {0} /\ OffsetDeltas \subseteq Int
  BY RealTimeAssumption DEF IInv, TypeOK, RealTimeAssumption
<1>2. ASSUME UNCHANGED <<simu_time, real_time_mode, radj, ideal, adjustments>>
      PROVE  PaceInv'
  BY <1>2 DEF radj, num, den, Elapsed, IInv, PaceInv
<1>3. ASSUME NEW period \in TickPeriods, HwtimerEnable(period)
      PROVE  IInv'
  <2>1. PaceInv'
    BY <1>2, <1>3 DEF HwtimerEnable
  <2>2. TypeOK' /\ TickInv'
    BY <1>1, <1>3 DEF HwtimerEnable, radj, num, den, NoTicks, IInv, TypeOK, TickInv
  <2> QED BY <2>1, <2>2 DEF IInv
<1>4. ASSUME NEW correction \in Corrections, AdjustRtRatio(correction)
      PROVE  IInv'
  BY <1>4, AdjustInv
<1>5. ASSUME NEW offset_delta \in OffsetDeltas, AdjustRtcOffset(offset_delta)
      PROVE  IInv'
  <2>1. /\ rtc_offset' = rtc_offset + offset_delta
        /\ adjustments < MaxAdjustments /\ adjustments' = adjustments + 1
        /\ UNCHANGED <<simu_time, hw_timer_tick_timer, tick_p, host, real_time_mode, clock_ratio,
                       last_radj_rtime, last_radj_stime, signaled_end, exited, ideal>>
    BY <1>5 DEF AdjustRtcOffset, ticks, radj
  <2>2. PaceInv'
    <3> SUFFICES ASSUME real_time_mode
                 PROVE  WithinLoss(Lost(ideal[1], ideal[2], num, den, Elapsed, last_radj_rtime),
                                   ideal[2], num, adjustments + 1)
      BY <2>1 DEF PaceInv, num, den, Elapsed
    <3> DEFINE lost == Lost(ideal[1], ideal[2], num, den, Elapsed, last_radj_rtime)
    <3>1. WithinLoss(lost, ideal[2], num, adjustments)
      BY DEF IInv, PaceInv
    <3>2. ideal[2] \in Nat /\ num \in Nat /\ adjustments \in Nat
      BY <1>1 DEF IInv, TypeOK
    <3>3. lost \in Int
      BY DEF Lost, IInv, TypeOK, Elapsed
    <3> HIDE DEF lost
    <3>4. ideal[2] * num \in Nat
      BY <3>2, NaturalProduct
    <3>5. (ideal[2] * num) * adjustments <= (ideal[2] * num) * (adjustments + 1)
      BY <3>2, <3>4, MultiplyLeq
    <3>6. 0 <= lost /\ lost <= (ideal[2] * num) * adjustments
      BY <3>1 DEF WithinLoss
    <3>7. lost <= (ideal[2] * num) * (adjustments + 1)
      <4>1. /\ (ideal[2] * num) * adjustments \in Int
            /\ (ideal[2] * num) * (adjustments + 1) \in Int
        BY <3>2, <3>4
      <4> QED BY <3>3, <3>5, <3>6, <4>1
    <3>8. WithinLoss(lost, ideal[2], num, adjustments + 1)
      BY <3>6, <3>7 DEF WithinLoss
    <3> QED BY <3>8 DEF lost
  <2>3. TypeOK' /\ TickInv'
    BY <1>1, <2>1 DEF num, den, NoTicks, IInv, TypeOK, TickInv
  <2> QED BY <2>2, <2>3 DEF IInv
<1>6. CASE HostAdvances
  <2>1. PaceInv'
    BY <1>2, <1>6 DEF HostAdvances
  <2>2. TypeOK' /\ TickInv'
    BY <1>1, <1>6 DEF HostAdvances, ticks, radj, num, den, NoTicks, IInv, TypeOK, TickInv
  <2> QED BY <2>1, <2>2 DEF IInv
<1>7. CASE Signal \/ Stop
  <2>1. PaceInv'
    BY <1>2, <1>7 DEF Signal, Stop
  <2>2. TypeOK' /\ TickInv'
    BY <1>1, <1>7 DEF Signal, Stop, ticks, radj, num, den, NoTicks, IInv, TypeOK, TickInv
  <2> QED BY <2>1, <2>2 DEF IInv
<1>8. ASSUME NEW time \in 1 .. MaxTime, OtherEvent(time)
      PROVE  IInv'
  <2>1. /\ AdvanceTo(time) /\ simu_time <= time /\ time \in Nat
        /\ UNCHANGED <<ticks, host, real_time_mode, radj, rtc_offset, signaled_end, exited,
                       adjustments>>
        /\ NoTicks \/ time < hw_timer_tick_timer
    BY <1>1, <1>8 DEF OtherEvent
  <2>2. /\ simu_time' = time /\ time \in 0 .. MaxTime
        /\ last_radj_stime' \in 0 .. time
        /\ ideal' \in Nat \X (Nat \ {0})
        /\ PaceInv'
    BY <2>1, AdvanceInv
  <2>3. TypeOK'
    BY <2>1, <2>2 DEF ticks, radj, num, den, IInv, TypeOK
  <2>4. TickInv'
    BY <1>1, <2>1, <2>2 DEF ticks, NoTicks, IInv, TickInv
  <2> QED BY <2>2, <2>3, <2>4 DEF IInv
<1>9. CASE TickTimerReached
  <2>1. /\ ~NoTicks /\ AdvanceTo(hw_timer_tick_timer)
        /\ simu_time <= hw_timer_tick_timer /\ tick_p \in TickPeriods
        /\ hw_timer_tick_timer' = hw_timer_tick_timer + tick_p
        /\ UNCHANGED <<tick_p, real_time_mode, radj, rtc_offset, exited, adjustments>>
    BY <1>9 DEF TickTimerReached, IInv, TickInv
  <2>2. /\ simu_time' = hw_timer_tick_timer /\ hw_timer_tick_timer \in 0 .. MaxTime
        /\ last_radj_stime' \in 0 .. hw_timer_tick_timer
        /\ ideal' \in Nat \X (Nat \ {0})
        /\ PaceInv'
    BY <1>1, <2>1, AdvanceInv
  <2>3. host' \in Nat /\ signaled_end' \in BOOLEAN
    <3>1. ExpectedRt(hw_timer_tick_timer) \in Int
      <4>1. (hw_timer_tick_timer - last_radj_stime) * den \in Int /\ num \in Nat \ {0}
        BY <1>1 DEF IInv, TypeOK
      <4>2. HostTimeFor(hw_timer_tick_timer - last_radj_stime) \in Int
        BY <4>1, Quotient DEF HostTimeFor
      <4> QED BY <4>2 DEF ExpectedRt, IInv, TypeOK
    <3>2. SlowDown(ExpectedRt(hw_timer_tick_timer))
      BY <1>9 DEF TickTimerReached
    <3>3. host' \in Nat
      BY <1>1, <3>1, <3>2 DEF SlowDown
    <3>4. signaled_end' \in {signaled_end, TRUE}
      BY <3>2 DEF SlowDown
    <3>5. signaled_end \in BOOLEAN
      BY DEF IInv, TypeOK
    <3> QED BY <3>3, <3>4, <3>5
  <2>4. TypeOK'
    BY <1>1, <2>1, <2>2, <2>3 DEF radj, num, den, IInv, TypeOK
  <2>5. TickInv'
    BY <1>1, <2>1, <2>2 DEF NoTicks, IInv, TickInv
  <2> QED BY <2>2, <2>4, <2>5 DEF IInv
<1>10. CASE UNCHANGED vars
  <2>1. PaceInv'
    BY <1>2, <1>10 DEF vars
  <2>2. TypeOK' /\ TickInv'
    BY <1>10 DEF vars, ticks, radj, num, den, NoTicks, IInv, TypeOK, TickInv
  <2> QED BY <2>1, <2>2 DEF IInv
<1> QED BY <1>3, <1>4, <1>5, <1>6, <1>7, <1>8, <1>9, <1>10 DEF Next

THEOREM Invariant == Spec => []IInv
<1> QED BY InitInv, StepInv, PTL DEF Spec

-----------------------------------------------------------------------------
(* Times, clocks and ratio stay in their ranges, and the ratio positive,   *)
(* whatever corrections native_rtc_adjust_clock is given.                  *)
THEOREM TypeCorrect == Spec => []TypeOK
<1>1. IInv => TypeOK
  BY DEF IInv
<1> QED BY <1>1, Invariant, PTL

(* Whatever adjustments came before, the two clocks of the RTC are as far  *)
(* apart as simulated time lags now, at the ratio in force now: less than  *)
(* a microsecond below that and at most `adjustments` times the ratio      *)
(* above, as long as no clock leaves its range.  The distance itself jumps *)
(* with an adjustment of the ratio made during a lag                       *)
(* (hwtimer_get_pseudohost_rtc_time, hwtimer_adjust_rt_ratio,              *)
(* hwtimer_adjust_rtc_offset, native_rtc_gettime_us).                      *)
THEOREM ClocksStayTogether == Spec => []PseudohostAhead
<1>1. IInv => PseudohostAhead
  <2> SUFFICES ASSUME IInv, real_time_mode, ClocksInRange
               PROVE  PseudohostAhead
    BY DEF PseudohostAhead
  <2> DEFINE p == ideal[1]
             q == ideal[2]
             base == last_radj_stime + rtc_offset
             N == (host - last_radj_rtime) * num + base * den
             X == PseudohostRtcTime
  <2>1. /\ p \in Nat /\ q \in Nat \ {0} /\ num \in Nat \ {0} /\ den \in Nat \ {0}
        /\ last_radj_rtime \in Nat /\ last_radj_stime \in Nat /\ simu_time \in Nat
        /\ host \in Nat /\ rtc_offset \in Int /\ adjustments \in Nat
    BY RealTimeAssumption DEF IInv, TypeOK, RealTimeAssumption
  <2>2. WithinLoss(Lost(p, q, num, den, simu_time - last_radj_stime, last_radj_rtime),
                   q, num, adjustments)
    BY DEF IInv, PaceInv, Elapsed
  <2>3. N \in Int
    BY <2>1
  <2>4. WORD \in Nat \ {0} /\ {base, SimuRtcTime, X} \subseteq 0 .. WORD - 1
    BY RealTimeAssumption DEF RealTimeAssumption, ClocksInRange
  <2>5. base % WORD = base
    <3> HIDE DEF base, X
    <3> QED BY <2>4
  <2>6. X \in Int /\ den * X <= N /\ N < den * X + den
    <3>1. X = N \div den
      BY <2>5 DEF PseudohostRtcTime
    <3> HIDE DEF N, X
    <3> QED BY <2>1, <2>3, <3>1, Quotient
  <2>7. /\ GettimeUs("PSEUDOHOSTREALTIME") = X
        /\ GettimeUs("REALTIME") = simu_time + rtc_offset
    <3>1. X % WORD = X /\ SimuRtcTime % WORD = SimuRtcTime
      <4> HIDE DEF base, X
      <4> QED BY <2>4
    <3> HIDE DEF X
    <3>2. GettimeUs("REALTIME") = SimuRtcTime
      BY <3>1 DEF GettimeUs
    <3>3. GettimeUs("PSEUDOHOSTREALTIME") = X
      BY <3>1 DEF GettimeUs, X
    <3> QED BY <3>2, <3>3 DEF SimuRtcTime
  <2>8. /\ num * (q * host - p) - q * den < q * den * (X - (simu_time + rtc_offset))
        /\ q * den * (X - (simu_time + rtc_offset))
             <= num * (q * host - p) + adjustments * q * num
    <3>1. N = (host - last_radj_rtime) * num + (last_radj_stime + rtc_offset) * den
      OBVIOUS
    <3> HIDE DEF p, q, N, X
    <3> QED BY <2>1, <2>2, <2>6, <3>1, ClocksApart
  <2> QED BY <2>7, <2>8 DEF PseudohostAhead
<1> QED BY <1>1, Invariant, PTL

(* Every tick waits for the host, and no tick waits longer than it has to, *)
(* whatever ratios were in force before (hwtimer_tick_timer_reached).      *)
THEOREM TicksKeepPace == Spec => TicksPaced
<1> DEFINE Paced ==
      LET tick == ~NoTicks /\ hw_timer_tick_timer' # hw_timer_tick_timer
      IN  tick =>
            IF real_time_mode
            THEN /\ \/ signaled_end'
                    \/ (host' + adjustments + 1) * ideal'[2] > ideal'[1]
                 /\ host * ideal'[2] >= ideal'[1] => host' = host
            ELSE host' = host
<1>1. ASSUME IInv, IInv', TickTimerReached
      PROVE  Paced
  <2> DEFINE expected == ExpectedRt(hw_timer_tick_timer)
             p == ideal'[1]
             q == ideal'[2]
             D == hw_timer_tick_timer - last_radj_stime
  <2>1. /\ simu_time' = hw_timer_tick_timer
        /\ UNCHANGED <<real_time_mode, num, den, last_radj_rtime, last_radj_stime, adjustments>>
        /\ SlowDown(expected)
    BY <1>1 DEF TickTimerReached, AdvanceTo, radj, num, den
  <2>2. CASE ~real_time_mode
    BY <2>1, <2>2 DEF SlowDown
  <2>3. CASE real_time_mode
    <3>1. /\ p \in Nat /\ q \in Nat \ {0} /\ num \in Nat \ {0} /\ den \in Nat \ {0}
          /\ last_radj_rtime \in Nat /\ D \in Nat /\ adjustments \in Nat
          /\ host \in Nat /\ host' \in Nat
      BY <1>1, <2>1, RealTimeAssumption DEF IInv, TypeOK, RealTimeAssumption
    <3>2. WithinLoss(Lost(p, q, num, den, D, last_radj_rtime), q, num, adjustments)
      BY <1>1, <2>1, <2>3 DEF IInv, PaceInv, Elapsed
    <3>3. expected = (D * den) \div num + last_radj_rtime
      BY DEF ExpectedRt, HostTimeFor
    <3> HIDE DEF expected, p, q, D
    <3>4. /\ host' >= expected => (host' + adjustments + 1) * q > p
          /\ host * q >= p => host >= expected
      BY <3>1, <3>2, <3>3, ExpectedAgainstIdeal
    <3>5. expected \in Int
      <4>1. D * den \in Int
        BY <3>1
      <4> QED BY <3>1, <3>3, <4>1, Quotient
    <3>6. signaled_end' \/ host' >= expected
      BY <2>1, <2>3, <3>1, <3>5 DEF SlowDown
    <3>7. host >= expected => host' = host
      BY <2>1, <2>3, <3>1, <3>5 DEF SlowDown
    <3> QED BY <2>3, <3>4, <3>6, <3>7 DEF p, q
  <2> QED BY <2>2, <2>3
<1>2. ASSUME IInv, IInv', [Next]_vars
      PROVE  [Paced]_vars
  <2>1. CASE TickTimerReached
    BY <1>1, <1>2, <2>1
  <2>2. CASE ~TickTimerReached
    <3>1. NoTicks \/ hw_timer_tick_timer' = hw_timer_tick_timer
      <4>1. ASSUME NEW period \in TickPeriods, HwtimerEnable(period)
            PROVE  NoTicks
        BY <4>1 DEF HwtimerEnable
      <4>2. ASSUME NEW correction \in Corrections, AdjustRtRatio(correction)
            PROVE  hw_timer_tick_timer' = hw_timer_tick_timer
        BY <4>2 DEF AdjustRtRatio, ticks
      <4>3. ASSUME NEW offset_delta \in OffsetDeltas, AdjustRtcOffset(offset_delta)
            PROVE  hw_timer_tick_timer' = hw_timer_tick_timer
        BY <4>3 DEF AdjustRtcOffset, ticks
      <4>4. ASSUME NEW time \in 1 .. MaxTime, OtherEvent(time)
            PROVE  hw_timer_tick_timer' = hw_timer_tick_timer
        BY <4>4 DEF OtherEvent, ticks
      <4>5. CASE HostAdvances \/ Signal \/ Stop \/ UNCHANGED vars
        BY <4>5 DEF HostAdvances, Signal, Stop, vars, ticks
      <4> QED BY <1>2, <2>2, <4>1, <4>2, <4>3, <4>4, <4>5 DEF Next
    <3> QED BY <3>1
  <2> QED BY <2>1, <2>2
<1> QED BY <1>2, Invariant, PTL DEF Spec, TicksPaced
=============================================================================
