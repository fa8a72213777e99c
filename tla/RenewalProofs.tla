--------------------------- MODULE RenewalProofs ---------------------------
(***************************************************************************)
(* The safety of the renewal loop for all intervals and periods, and for   *)
(* attempts of any length.                                                 *)
(***************************************************************************)
EXTENDS RenewalLoop, TLAPS

\* The ticker fires within every interval: as long as it has not fired since
\* the last attempt began, that attempt is no older than the ticker's phase.
Rhythm == pc # "ended" /\ ~ready => elapsed <= phase

\* The threshold is the alarm's count times the factor.
Threshold ==
    /\ failCount = 0 => nextAlarm = 1
    /\ failCount > 0 => /\ alarmed > 0
                        /\ nextAlarm = AlarmFactor * alarmed
                        /\ failCount < nextAlarm

\* An attempt that began after stop took the tick, and there is no other
\* until the ticker fires again.
TickTaken ==
    /\ ~stop => late = 0
    /\ late <= 1
    /\ late = 1 => ~ready

\* How old the last grant can be: an interval, and what the attempt overran
\* it for, for each attempt begun since, and as much of the one at hand as
\* has passed.
Intervals(n, i) == n * i

Elapsed == IF elapsed < interval THEN elapsed ELSE interval

GrantAge ==
    granted /\ pc # "ended" => since <= Intervals(begun, interval) + overrun + Elapsed

RenewalInv == TypeOK /\ Rhythm /\ Threshold /\ TickTaken /\ GrantAge

\* The arithmetic that the steps need.
LEMMA OneIntervalMore ==
    ASSUME NEW n \in Nat, NEW i \in Nat
    PROVE  /\ Intervals(n, i) \in Nat
           /\ Intervals(n + 1, i) = Intervals(n, i) + i
  BY DEF Intervals

LEMMA FactorGrows ==
    ASSUME NEW n \in Nat \ {0}
    PROVE  /\ n * AlarmFactor = AlarmFactor * n
           /\ n * AlarmFactor \in Nat \ {0}
           /\ n < n * AlarmFactor
  <1>1. PICK k \in Nat : AlarmFactor = k + 2
    <2>1. AlarmFactor - 2 \in Nat /\ AlarmFactor = (AlarmFactor - 2) + 2
      BY RenewalAssumption
    <2>2. QED
      BY <2>1
  <1>2. n * (k + 2) = n * k + n + n
    OBVIOUS
  <1>3. n * k \in Nat
    OBVIOUS
  <1>4. QED
    BY <1>1, <1>2, <1>3, RenewalAssumption

LEMMA RenewalInit == Init => RenewalInv
  <1> SUFFICES ASSUME Init PROVE RenewalInv
    OBVIOUS
  <1>1. TypeOK
    <2>1. interval \in Nat \ {0}
      BY RenewalAssumption DEF Init, CheckValid, SetDefaultValue
    <2>2. phase \in 0 .. interval - 1 /\ since \in 0 .. Period
      BY <2>1, RenewalAssumption DEF Init
    <2>3. flight \in [Ages -> Nat]
      BY DEF Init
    <2>4. /\ pc = "attempt" /\ elapsed \in Nat /\ failCount \in Nat
          /\ nextAlarm \in Nat \ {0} /\ {begun, overrun, alarmed, late} \subseteq Nat
      BY DEF Init
    <2>5. {ready, stop, trouble, granted} \subseteq BOOLEAN
      BY DEF Init
    <2>6. QED
      BY <2>1, <2>2, <2>3, <2>4, <2>5 DEF TypeOK
  <1>2. Rhythm /\ Threshold /\ TickTaken /\ GrantAge
    BY DEF Init, Rhythm, Threshold, TickTaken, GrantAge
  <1>3. QED
    BY <1>1, <1>2 DEF RenewalInv

\* A response more, one less, or all of them a tick older.
LEMMA FlightTyped ==
    ASSUME flight \in [Ages -> Nat]
    PROVE  /\ [flight EXCEPT ![0] = @ + 1] \in [Ages -> Nat]
           /\ \A a \in Ages : flight[a] > 0 =>
                  [flight EXCEPT ![a] = @ - 1] \in [Ages -> Nat]
           /\ Older \in [Ages -> Nat]
  <1>1. 0 \in Ages /\ \A a \in Ages : a \in Nat /\ (a # 0 => a - 1 \in Ages)
    BY RenewalAssumption DEF Ages
  <1>2. \A a \in Ages : flight[a] \in Nat
    OBVIOUS
  <1>3. \A a \in Ages : flight[a] > 0 => flight[a] - 1 \in Nat
    BY <1>2
  <1>4. QED
    BY <1>1, <1>2, <1>3 DEF Older

LEMMA RenewalStep == RenewalInv /\ [Next]_vars => RenewalInv'
  <1> SUFFICES ASSUME RenewalInv, [Next]_vars PROVE RenewalInv'
    OBVIOUS
  <1> USE RenewalAssumption DEF RenewalInv, ticker, counters, server, account, world
  <1>0. /\ Intervals(begun, interval) \in Nat
        /\ Intervals(begun + 1, interval) = Intervals(begun, interval) + interval
    <2>1. begun \in Nat /\ interval \in Nat
      BY DEF TypeOK
    <2>2. QED
      BY <2>1, OneIntervalMore
  <1>1. CASE Fail
    <2>1. TypeOK'
      BY <1>1, FactorGrows DEF Fail, MayMiss, TypeOK
    <2>2. Threshold'
      BY <1>1, FactorGrows DEF Fail, TypeOK, Threshold
    <2>3. Rhythm' /\ TickTaken' /\ GrantAge'
      BY <1>1 DEF Fail, Rhythm, TickTaken, GrantAge, Elapsed
    <2>4. QED
      BY <2>1, <2>2, <2>3
  <1>2. CASE Succeed
    <2>1. TypeOK'
      BY <1>2, FlightTyped DEF Succeed, TypeOK
    <2>2. Rhythm' /\ Threshold' /\ TickTaken' /\ GrantAge'
      BY <1>2 DEF Succeed, Rhythm, Threshold, TickTaken, GrantAge, Elapsed
    <2>3. QED
      BY <2>1, <2>2
  <1>3. CASE Arrive
    <2>1. TypeOK'
      BY <1>3, FlightTyped DEF Arrive, TypeOK
    <2>2. Rhythm' /\ Threshold' /\ TickTaken'
      BY <1>3 DEF Arrive, Rhythm, Threshold, TickTaken
    <2>3. GrantAge'
      <3>1. Intervals(0, interval) \in Nat
        BY OneIntervalMore DEF TypeOK
      <3>2. since' = 0 /\ begun' = 0 /\ overrun' = 0 /\ interval' = interval
        BY <1>3 DEF Arrive
      <3>3. Elapsed' \in Nat
        BY <2>1 DEF TypeOK, Elapsed
      <3>4. Intervals(begun', interval') \in Nat
        BY <3>1, <3>2
      <3>5. QED
        BY <3>2, <3>3, <3>4 DEF GrantAge
    <2>4. QED
      BY <2>1, <2>2, <2>3
  <1>4. CASE Lose
    <2>1. TypeOK'
      BY <1>4, FlightTyped DEF Lose, TypeOK
    <2>2. Rhythm' /\ Threshold' /\ TickTaken' /\ GrantAge'
      BY <1>4 DEF Lose, Rhythm, Threshold, TickTaken, GrantAge, Elapsed
    <2>3. QED
      BY <2>1, <2>2
  <1>5. CASE Continue
    <2>1. TypeOK'
      <3>1. /\ UNCHANGED <<interval, phase, failCount, nextAlarm, alarmed, flight, since,
                          granted, stop, trouble, overrun>>
            /\ ready' = FALSE /\ pc' = "attempt" /\ elapsed' = 0
            /\ begun' = begun + 1 /\ late' \in {late, late + 1}
        BY <1>5 DEF Continue, Begin
      <3>2. begun' \in Nat /\ late' \in Nat
        BY <3>1 DEF TypeOK
      <3>3. QED
        BY <3>1, <3>2 DEF TypeOK
    <2>2. Rhythm' /\ Threshold'
      BY <1>5 DEF Continue, Begin, TypeOK, Rhythm, Threshold
    <2>3. TickTaken'
      BY <1>5 DEF Continue, Begin, TypeOK, TickTaken
    <2>4. GrantAge'
      BY <1>5, <1>0 DEF Continue, Begin, TypeOK, GrantAge, Elapsed
    <2>5. QED
      BY <2>1, <2>2, <2>3, <2>4
  <1>6. CASE Break
    BY <1>6 DEF Break, TypeOK, Rhythm, Threshold, TickTaken, GrantAge
  <1>7. CASE Tick
    <2>1. TypeOK'
      <3>1. /\ UNCHANGED <<interval, pc, failCount, nextAlarm, alarmed, granted, stop,
                          trouble, begun>>
            /\ flight' \in [Ages -> Nat]
        BY <1>7, FlightTyped DEF Tick, TypeOK
      <3>2. phase' \in 0 .. interval - 1 /\ late' \in Nat
        BY <1>7 DEF Tick, TickerRuns, TypeOK
      <3>3. ready' \in BOOLEAN
        BY <1>7 DEF Tick, TickerRuns, TypeOK
      <3>4. since' \in 0 .. Period /\ elapsed' \in Nat /\ overrun' \in Nat
        BY <1>7 DEF Tick, TypeOK
      <3>5. QED
        BY <3>1, <3>2, <3>3, <3>4 DEF TypeOK
    <2>2. Threshold'
      BY <1>7 DEF Tick, Threshold
    <2>3. TickTaken'
      BY <1>7 DEF Tick, TickerRuns, TypeOK, TickTaken
    <2>4. Rhythm'
      BY <1>7 DEF Tick, TickerRuns, TypeOK, Rhythm
    <2>5. GrantAge'
      BY <1>7, <1>0 DEF Tick, Waits, TickerRuns, TypeOK, Rhythm, GrantAge, Elapsed
    <2>6. QED
      BY <2>1, <2>2, <2>3, <2>4, <2>5
  <1>8. CASE CloseStop
    BY <1>8 DEF CloseStop, TypeOK, Rhythm, Threshold, TickTaken, GrantAge, Elapsed
  <1>9. CASE TroubleEnds
    BY <1>9 DEF TroubleEnds, TypeOK, Rhythm, Threshold, TickTaken, GrantAge, Elapsed
  <1>10. CASE UNCHANGED vars
    BY <1>10 DEF vars, TypeOK, Rhythm, Threshold, TickTaken, GrantAge, Elapsed
  <1>11. QED
    BY <1>1, <1>2, <1>3, <1>4, <1>5, <1>6, <1>7, <1>8, <1>9, <1>10 DEF Next

LEMMA RenewalInvariant == Spec => []RenewalInv
  BY RenewalInit, RenewalStep, PTL DEF Spec

-----------------------------------------------------------------------------
\* The state of the loop is well typed.
THEOREM LoopTypeCorrect == Spec => []TypeOK
  <1>1. RenewalInv => TypeOK
    BY DEF RenewalInv
  <1>2. QED
    BY <1>1, RenewalInvariant, PTL

\* Access lapses only after enough attempts without a grant, or attempts that
\* lasted too long, for every interval and period, whatever the resolver and
\* the network take (auth.go:15, 152-173).
THEOREM LapseExplained == Spec => []LapseAccounted
  <1>1. RenewalInv => LapseAccounted
    <2> SUFFICES ASSUME RenewalInv, granted, pc # "ended", since = Period
                 PROVE  (begun + 1) * interval + overrun >= Period
      BY DEF LapseAccounted
    <2>1. /\ Intervals(begun, interval) \in Nat
          /\ Intervals(begun + 1, interval) = Intervals(begun, interval) + interval
      <3>1. begun \in Nat /\ interval \in Nat
        BY DEF RenewalInv, TypeOK
      <3>2. QED
        BY <3>1, OneIntervalMore
    <2>2. Intervals(begun + 1, interval) + overrun >= Period
      BY <2>1, RenewalAssumption DEF RenewalInv, TypeOK, GrantAge, Elapsed
    <2>3. QED
      BY <2>2 DEF Intervals
  <1>2. QED
    BY <1>1, RenewalInvariant, PTL

\* No failure is silenced for longer than the growing threshold allows.
THEOREM AlarmsHeard == Spec => []AlarmsKeepPace
  <1>1. RenewalInv => AlarmsKeepPace
    BY DEF RenewalInv, Threshold, AlarmsKeepPace
  <1>2. QED
    BY <1>1, RenewalInvariant, PTL

\* At most one attempt begins per tick after stop is closed, for attempts of
\* any length.
THEOREM StopHeeded == Spec => []OneAttemptPerTick
  <1>1. RenewalInv => OneAttemptPerTick
    BY DEF RenewalInv, TickTaken, OneAttemptPerTick
  <1>2. QED
    BY <1>1, RenewalInvariant, PTL
=============================================================================
