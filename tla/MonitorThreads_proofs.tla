------------------------ MODULE MonitorThreads_proofs ------------------------
(***************************************************************************)
(* Proofs about the monitor's own threads: the watchdog's, which decides   *)
(* when the application hangs (Watchdog), and the finalizers', which turn  *)
(* the events into reports (Finalization).                                 *)
(***************************************************************************)
EXTENDS Watchdog, Finalization, TLAPS

-----------------------------------------------------------------------------
(***************************************************************************)
(* Proofs about Watchdog, for every configuration WatchdogConfig::validate *)
(* accepts, every wake-up lag and every horizon.                           *)
(*                                                                         *)
(* None of the properties is inductive: they speak of the history, and the *)
(* code knows only its accumulators.  Accounting relates the two: what the *)
(* accumulators and the unsampled interval add up to is a lower (and, with *)
(* the period and the lags of the events, an upper) bound of the           *)
(* application time since the latest heartbeat and since the latest grant. *)
(***************************************************************************)

\* Application time since the latest sample.
Unsampled == (IF loop = "waiting" THEN now ELSE workStart) - lastCheck

Period == CheckInterval + WakeLag

\* How much longer the application may run before the next check if no event
\* comes.
Slack ==
    WakeLag + (IF loop = "waiting" THEN wakeAt - now ELSE SaturatingSub(CheckInterval, Unsampled))

\* What the events since the latest heartbeat or grant may have postponed it by.
Lags == WakeLag * interrupts

\* Application time since the later of the latest heartbeat and grant.
Since == appTime - (IF beatAt > graceAt THEN beatAt ELSE graceAt)

\* What is left of the warmup or the cooldown.
Remaining == wd.warmup + wd.cooldown

\* The clock readings are ordered, and the next check is at most Period away.
Clocks ==
    /\ lastCheck <= now
    /\ loop = "working" => lastCheck <= workStart /\ workStart <= now
    /\ loop = "waiting" => wakeAt >= lastCheck + CheckInterval
    /\ Slack \in 0 .. Period
    /\ beatAt <= appTime
    /\ graceAt <= appTime

\* The shape of the watchdog state: at most one accumulator runs.
Shape ==
    /\ wd.prev <= counter
    /\ wd.prev = None => wd = Disarmed
    /\ wd.warmup > 0 => wd.cooldown = 0
    /\ Remaining > 0 => wd.hang = 0
    /\ wd.hang < Threshold
    /\ wd.prev # None => Remaining <= grace

\* The accumulators never exceed the application time they stand for.
Lower ==
    /\ wd.prev = counter => wd.hang + Unsampled <= appTime - beatAt
    /\ wd.prev # None => (grace - Remaining) + wd.hang + Unsampled <= appTime - graceAt

\* And they miss at most one period and the lags of it.
Upper ==
    /\ Remaining > 0 /\ wd.prev # None =>
          /\ appTime - graceAt <= (grace - Remaining) + Unsampled
          /\ Since + Slack <= (grace - Remaining) + Period + Lags
    /\ Remaining = 0 /\ wd.prev = counter =>
          /\ Since <= grace + Period + wd.hang + Unsampled + Lags
          /\ Since + Slack <= grace + 2 * Period + wd.hang + Lags
    /\ wd.prev # None /\ wd.prev # counter => (appTime - beatAt) + Slack <= Period + Lags

IInv == TypeOK /\ Clocks /\ Shape /\ Lower /\ Upper

-----------------------------------------------------------------------------

\* What is used of the product in Lags.
LEMMA Products ==
  ASSUME NEW a \in Nat, NEW b \in Nat
  PROVE  a * b \in Nat /\ a * 0 = 0 /\ a * (b + 1) = a * b + a
  OBVIOUS

(* A watchdog that was just started satisfies the inductive invariant.  *)
LEMMA InitInv == Init => IInv
  <1> SUFFICES ASSUME Init PROVE IInv
    OBVIOUS
  <1> USE WatchdogConfigAssumption, BoundAssumption
  <1>1. LiveHeartbeat \in {None, 0}
    BY DEF Init, LiveHeartbeat
  <1>2. wd = [warmup |-> Warmup, prev |-> LiveHeartbeat, hang |-> 0, cooldown |-> 0]
    BY DEF Init, NewState
  <1>3. TypeOK
    BY <1>1, <1>2 DEF Init, TypeOK, WatchdogState, None
  <1>4. Shape
    BY <1>1, <1>2 DEF Init, Shape, Remaining, Disarmed, NewState, None
  <1>5. Unsampled = 0 /\ Slack = Period /\ Since = 0 /\ Lags = 0
    <2>1. Unsampled = 0 /\ Since = 0
      BY DEF Init, Unsampled, Since
    <2>2. Slack = Period
      BY DEF Init, Slack, Period
    <2>3. Lags = 0
      BY Products DEF Init, Lags
    <2> QED
      BY <2>1, <2>2, <2>3
  <1>6. Clocks
    BY <1>5 DEF Init, Clocks, Period
  <1>7. Lower /\ Upper
    BY <1>1, <1>2, <1>5 DEF Init, Lower, Upper, Period, Remaining, None
  <1> QED
    BY <1>3, <1>4, <1>6, <1>7 DEF IInv

\* Saturating subtraction: never below zero, exact above it.
LEMMA Saturating ==
  ASSUME NEW a \in Nat, NEW b \in Nat
  PROVE  /\ SaturatingSub(a, b) \in 0 .. a
         /\ a - b <= SaturatingSub(a, b)
         /\ SaturatingSub(a, b) > 0 => SaturatingSub(a, b) = a - b
  BY DEF SaturatingSub

\* A sample is either None or the counter.
LEMMA Sample == ASSUME TypeOK PROVE LiveHeartbeat \in {None, counter}
  BY DEF LiveHeartbeat, TypeOK

\* The derived quantities are natural numbers, and Since is the shorter time.
LEMMA Measures ==
  ASSUME IInv
  PROVE  /\ Slack \in Nat /\ Slack <= Period
         /\ Lags \in Nat
         /\ Since \in Nat /\ Since <= appTime - beatAt /\ Since <= appTime - graceAt
  <1> USE WatchdogConfigAssumption, BoundAssumption
  <1>1. Slack \in Nat /\ Slack <= Period
    BY DEF IInv, Clocks, Period
  <1>2. Lags \in Nat
    <2>1. interrupts \in Nat
      BY DEF IInv, TypeOK
    <2> QED
      BY <2>1, Products DEF Lags
  <1>3. Since \in Nat /\ Since <= appTime - beatAt /\ Since <= appTime - graceAt
    BY DEF IInv, TypeOK, Clocks, Since
  <1> QED
    BY <1>1, <1>2, <1>3

\* A grant starts the measured time over; a step without one keeps it.
LEMMA GrantMeasures ==
  ASSUME IInv, beatAt' = beatAt, appTime' = appTime
  PROVE  /\ graceAt' = appTime /\ interrupts' = 0 => Since' = 0 /\ Lags' = 0
         /\ graceAt' = graceAt /\ interrupts' = interrupts => Since' = Since /\ Lags' = Lags
  <1>1. graceAt' = appTime => Since' = 0
    BY DEF IInv, TypeOK, Clocks, Since
  <1>2. graceAt' = graceAt => Since' = Since
    BY DEF Since
  <1>3. interrupts' = 0 => Lags' = 0
    BY Products, BoundAssumption DEF Lags
  <1>4. interrupts' = interrupts => Lags' = Lags
    BY DEF Lags
  <1> QED
    BY <1>1, <1>2, <1>3, <1>4

(***************************************************************************)
(* One sample of the inline check: every case of update_watchdog_state     *)
(* keeps the accounting.                                                   *)
(***************************************************************************)
LEMMA CheckInv == IInv /\ Check => IInv'
  <1> SUFFICES ASSUME IInv, Check PROVE IInv'
    OBVIOUS
  <1> USE WatchdogConfigAssumption, BoundAssumption
  <1> DEFINE e == now - lastCheck
             r == Tick(wd, LiveHeartbeat, e)
  <1>0. /\ loop = "waiting" /\ wd' = r.s /\ hangFor' = r.fired /\ lastCheck' = now
        /\ now' = now /\ counter' = counter /\ ready' = ready
        /\ appTime' = appTime /\ beatAt' = beatAt
        /\ e \in Nat /\ Unsampled = e
    BY DEF Check, IInv, TypeOK, Clocks, Unsampled, shm
  <1>1. /\ r.fired > 0 => /\ loop' = "working" /\ workStart' = now /\ wakeAt' = wakeAt
                          /\ graceAt' = appTime /\ grace' = Cooldown /\ interrupts' = 0
        /\ ~(r.fired > 0) => /\ loop' = loop /\ workStart' = workStart /\ WaitUntil(now)
                             /\ IF wd.prev = None /\ wd'.prev # None
                                THEN graceAt' = appTime /\ grace' = Warmup /\ interrupts' = 0
                                ELSE graceAt' = graceAt /\ grace' = grace /\ interrupts' = interrupts
    <2>1. ASSUME r.fired > 0
          PROVE  /\ loop' = "working" /\ workStart' = now /\ wakeAt' = wakeAt
                 /\ graceAt' = appTime /\ grace' = Cooldown /\ interrupts' = 0
      BY <2>1, Zenon DEF Check
    <2>2. ASSUME ~(r.fired > 0)
          PROVE  Granted(r.s) /\ WaitUntil(now) /\ loop' = loop /\ workStart' = workStart
      BY <2>2, Zenon DEF Check
    <2> QED
      BY <2>1, <2>2, <1>0, Zenon DEF Granted
  <1>t. /\ appTime \in Nat /\ beatAt \in Nat /\ graceAt \in Nat /\ grace \in {Warmup, Cooldown}
        /\ wd.warmup \in 0 .. Warmup /\ wd.cooldown \in 0 .. Cooldown
        /\ wd.hang \in Nat /\ wd.prev \in Nat \cup {None} /\ wd.prev \in Int
        /\ counter \in Nat /\ beatAt <= appTime /\ graceAt <= appTime
        /\ now \in 0 .. MaxTime /\ wakeAt \in Nat /\ interrupts \in 0 .. MaxInterrupts
    <2>1. /\ appTime \in Nat /\ beatAt \in Nat /\ graceAt \in Nat /\ grace \in {Warmup, Cooldown}
          /\ beatAt <= appTime /\ graceAt <= appTime /\ counter \in 0 .. MaxBeats
          /\ now \in 0 .. MaxTime /\ wakeAt \in Nat /\ interrupts \in 0 .. MaxInterrupts
          /\ wd \in WatchdogState
      BY Zenon DEF IInv, TypeOK, Clocks
    <2>2. /\ wd.warmup \in 0 .. Warmup /\ wd.cooldown \in 0 .. Cooldown
          /\ wd.hang \in Nat /\ wd.prev \in Nat \cup {None} /\ wd.prev \in Int
      BY <2>1 DEF WatchdogState, None
    <2> QED
      BY <2>1, <2>2
  <1>m. /\ Slack \in Nat /\ Slack <= Period /\ Lags \in Nat /\ Period \in Nat
        /\ Since \in Nat /\ Since <= appTime - beatAt /\ Since <= appTime - graceAt
    BY Measures DEF Period
  <1>g. /\ graceAt' = appTime /\ interrupts' = 0 => Since' = 0 /\ Lags' = 0
        /\ graceAt' = graceAt /\ interrupts' = interrupts => Since' = Since /\ Lags' = Lags
    BY <1>0, GrantMeasures
  <1>h. /\ ~(r.fired > 0) => loop' = "waiting" /\ wakeAt' = now + CheckInterval
        /\ interrupts' \in 0 .. MaxInterrupts /\ graceAt' \in Nat /\ graceAt' <= appTime
        /\ wakeAt' \in Nat
    <2>1. ASSUME ~(r.fired > 0) PROVE wakeAt' = now + CheckInterval
      <3>1. WaitUntil(now)
        BY <2>1, <1>1
      <3> QED
        BY <3>1, <1>t DEF WaitUntil
    <2>2. interrupts' \in {0, interrupts} /\ graceAt' \in {appTime, graceAt}
      BY <1>1, Zenon
    <2>3. r.fired > 0 => wakeAt' = wakeAt
      BY <1>1
    <2> HIDE DEF r
    <2> QED
      BY <2>1, <2>2, <2>3, <1>0, <1>1, <1>t
  <1>a. Unsampled' = 0 /\ Slack' = Period /\ lastCheck' = now'
    <2> HIDE DEF r
    <2>1. Unsampled' = 0
      BY <1>0, <1>1, <1>h, <1>t DEF Unsampled
    <2>2. CASE r.fired > 0
      BY <2>1, <2>2, <1>0, <1>1 DEF Slack, SaturatingSub, Period
    <2>3. CASE ~(r.fired > 0)
      BY <2>1, <2>3, <1>0, <1>1, <1>h, <1>t DEF Slack, Period
    <2> QED
      BY <2>1, <2>2, <2>3, <1>0
  <1>c. Clocks'
    <2> HIDE DEF r
    <2> QED
      BY <1>0, <1>1, <1>h, <1>a, <1>t, <1>m DEF Clocks
  <1>2. CASE LiveHeartbeat = None
    <2>1. wd' = [warmup |-> Warmup, prev |-> None, hang |-> 0, cooldown |-> 0] /\ r.fired = 0
      BY <1>0, <1>2 DEF Tick, Disarmed, NewState
    <2>2. graceAt' = graceAt /\ grace' = grace /\ interrupts' = interrupts /\ loop' = loop /\ workStart' = workStart
      BY <2>1, <1>1
    <2>3. TypeOK'
      <3>1. wd' \in WatchdogState /\ hangFor' \in Nat
        BY <2>1, <1>0 DEF WatchdogState, None
      <3> QED
        BY <3>1, <2>2, <1>0, <1>h, Zenon DEF IInv, TypeOK
    <2>4. Shape'
      BY <2>1, <1>0, <1>t DEF Shape, Remaining, None, Disarmed, NewState
    <2>5. Lower' /\ Upper'
      BY <2>1, <1>0, <1>t DEF Lower, Upper, None
    <2> QED
      BY <2>3, <2>4, <2>5, <1>c DEF IInv
  <1>3. CASE LiveHeartbeat = counter /\ wd.prev = None
    <2>1. wd' = [wd EXCEPT !.prev = counter] /\ r.fired = 0
      BY <1>0, <1>3 DEF Tick, IInv, TypeOK, None
    <2>2. wd = [warmup |-> Warmup, prev |-> None, hang |-> 0, cooldown |-> 0]
      BY <1>3 DEF IInv, Shape, Disarmed, NewState
    <2>3. wd' = [warmup |-> Warmup, prev |-> counter, hang |-> 0, cooldown |-> 0]
      BY <2>1, <2>2
    <2>4. /\ graceAt' = appTime /\ grace' = Warmup /\ interrupts' = 0
          /\ loop' = loop /\ workStart' = workStart
      BY <2>1, <2>3, <1>1, <1>3, <1>t DEF None
    <2>5. TypeOK'
      <3>1. wd' \in WatchdogState /\ hangFor' \in Nat
        <4>1. wd' \in WatchdogState
          BY <2>3, <1>t, SMTT(30) DEF WatchdogState
        <4> QED
          BY <4>1, <2>1, <1>0
      <3> QED
        BY <3>1, <2>4, <1>0, <1>h, Zenon DEF IInv, TypeOK
    <2>6. Shape'
      BY <2>3, <2>4, <1>0, <1>t DEF Shape, Remaining, None
    <2>7. Since' = 0 /\ Lags' = 0
      BY <2>4, <1>g
    <2>8. Lower' /\ Upper'
      BY <2>3, <2>4, <2>7, <1>0, <1>a, <1>t, <1>m DEF Lower, Upper, Remaining, None
    <2> QED
      BY <2>5, <2>6, <2>8, <1>c DEF IInv
  <1> DEFINE armed == LiveHeartbeat = counter /\ counter # None /\ wd.prev # None
  <1>4. CASE armed /\ wd.warmup > 0
    <2>1. /\ wd' = [wd EXCEPT !.warmup = SaturatingSub(@, e), !.prev = counter, !.hang = 0]
          /\ r.fired = 0
      BY <1>0, <1>4 DEF Tick
    <2>2. /\ wd'.warmup = SaturatingSub(wd.warmup, e) /\ wd'.prev = counter
          /\ wd'.hang = 0 /\ wd'.cooldown = wd.cooldown /\ wd' \in WatchdogState
      <3>1. wd' = [warmup |-> SaturatingSub(wd.warmup, e), prev |-> counter, hang |-> 0, cooldown |-> wd.cooldown]
        BY <2>1, Zenon DEF IInv, TypeOK, WatchdogState
      <3>2. /\ SaturatingSub(wd.warmup, e) \in 0 .. Warmup /\ counter \in Nat \cup {None}
            /\ 0 \in Nat /\ wd.cooldown \in 0 .. Cooldown
        BY <1>0, <1>t DEF SaturatingSub
      <3>3. wd' \in WatchdogState
        BY <3>1, <3>2 DEF WatchdogState
      <3> QED
        BY <3>1, <3>3
    <2>3. /\ graceAt' = graceAt /\ grace' = grace /\ interrupts' = interrupts
          /\ loop' = loop /\ workStart' = workStart
      BY <1>4, <2>1, <2>2, <1>0, <1>1, <1>t
    <2>4. TypeOK'
      <3>1. hangFor' \in Nat
        BY <2>1, <1>0
      <3> QED
        BY <3>1, <2>2, <2>3, <1>0, <1>h, Zenon DEF IInv, TypeOK
    <2>5. Since' = Since /\ Lags' = Lags
      BY <2>3, <1>g
    <2>6. Shape'
      BY <1>4, <2>1, <2>2, <2>3, <1>0, <1>t, Saturating DEF IInv, Shape, Remaining, None
    <2>7. Lower'
      BY <1>4, <2>1, <2>2, <2>3, <1>0, <1>a, <1>t, Saturating DEF IInv, Lower, Shape, Remaining
    <2>8. Upper'
      BY <1>4, <2>1, <2>2, <2>3, <2>5, <1>0, <1>a, <1>t, <1>m, Saturating DEF IInv, Upper, Shape, Remaining
    <2> QED
      BY <2>4, <2>6, <2>7, <2>8, <1>c DEF IInv
  <1>5. CASE armed /\ ~(wd.warmup > 0) /\ wd.cooldown > 0
    <2>1. /\ wd' = [wd EXCEPT !.cooldown = SaturatingSub(@, e), !.prev = counter, !.hang = 0]
          /\ r.fired = 0
      BY <1>0, <1>5 DEF Tick
    <2>2. /\ wd'.warmup = wd.warmup /\ wd'.prev = counter
          /\ wd'.hang = 0 /\ wd'.cooldown = SaturatingSub(wd.cooldown, e) /\ wd' \in WatchdogState
      <3>1. wd' = [warmup |-> wd.warmup, prev |-> counter, hang |-> 0, cooldown |-> SaturatingSub(wd.cooldown, e)]
        BY <2>1, Zenon DEF IInv, TypeOK, WatchdogState
      <3>2. /\ wd.warmup \in 0 .. Warmup /\ counter \in Nat \cup {None}
            /\ 0 \in Nat /\ SaturatingSub(wd.cooldown, e) \in 0 .. Cooldown
        BY <1>0, <1>t DEF SaturatingSub
      <3>3. wd' \in WatchdogState
        BY <3>1, <3>2 DEF WatchdogState
      <3> QED
        BY <3>1, <3>3
    <2>3. /\ graceAt' = graceAt /\ grace' = grace /\ interrupts' = interrupts
          /\ loop' = loop /\ workStart' = workStart
      BY <1>5, <2>1, <2>2, <1>0, <1>1, <1>t
    <2>4. TypeOK'
      <3>1. hangFor' \in Nat
        BY <2>1, <1>0
      <3> QED
        BY <3>1, <2>2, <2>3, <1>0, <1>h, Zenon DEF IInv, TypeOK
    <2>5. Since' = Since /\ Lags' = Lags
      BY <2>3, <1>g
    <2>6. Shape'
      BY <1>5, <2>1, <2>2, <2>3, <1>0, <1>t, Saturating DEF IInv, Shape, Remaining, None
    <2>7. Lower'
      BY <1>5, <2>1, <2>2, <2>3, <1>0, <1>a, <1>t, Saturating DEF IInv, Lower, Shape, Remaining
    <2>8. Upper'
      <3> DEFINE c == SaturatingSub(wd.cooldown, e)
      <3>1. /\ appTime - graceAt <= (grace - wd.cooldown) + e
            /\ Since + Slack <= (grace - wd.cooldown) + Period + Lags
        BY <1>5, <1>0, <1>t DEF IInv, Upper, Remaining
      <3>2. c \in 0 .. wd.cooldown /\ (c > 0 => c = wd.cooldown - e)
        <4>1. wd.cooldown \in Nat /\ e \in Nat
          BY <1>0, <1>t
        <4> HIDE DEF e
        <4> QED
          BY <4>1 DEF SaturatingSub
      <3>3. wd'.warmup = 0 /\ wd'.cooldown = c /\ wd'.prev = counter /\ wd'.hang = 0
        BY <2>2, <1>5, <1>t
      <3> HIDE DEF c, r, e
      <3> QED
        BY <3>1, <3>2, <3>3, <2>3, <2>5, <1>0, <1>a, <1>t, <1>m DEF Upper, Remaining
    <2> QED
      BY <2>4, <2>6, <2>7, <2>8, <1>c DEF IInv
  <1> DEFINE over == armed /\ ~(wd.warmup > 0) /\ ~(wd.cooldown > 0)
  <1>6. CASE over /\ counter # wd.prev
    <2>1. wd' = [wd EXCEPT !.prev = counter, !.hang = 0] /\ r.fired = 0
      BY <1>0, <1>6 DEF Tick
    <2>2. /\ wd'.warmup = wd.warmup /\ wd'.prev = counter
          /\ wd'.hang = 0 /\ wd'.cooldown = wd.cooldown /\ wd' \in WatchdogState
      <3>1. wd' = [warmup |-> wd.warmup, prev |-> counter, hang |-> 0, cooldown |-> wd.cooldown]
        BY <2>1, Zenon DEF IInv, TypeOK, WatchdogState
      <3>2. /\ wd.warmup \in 0 .. Warmup /\ counter \in Nat \cup {None}
            /\ 0 \in Nat /\ wd.cooldown \in 0 .. Cooldown
        BY <1>0, <1>t
      <3>3. wd' \in WatchdogState
        BY <3>1, <3>2 DEF WatchdogState
      <3> QED
        BY <3>1, <3>3
    <2>3. /\ graceAt' = graceAt /\ grace' = grace /\ interrupts' = interrupts
          /\ loop' = loop /\ workStart' = workStart
      BY <1>6, <2>1, <2>2, <1>0, <1>1, <1>t
    <2>4. TypeOK'
      <3>1. hangFor' \in Nat
        BY <2>1, <1>0
      <3> QED
        BY <3>1, <2>2, <2>3, <1>0, <1>h, Zenon DEF IInv, TypeOK
    <2>5. Since' = Since /\ Lags' = Lags
      BY <2>3, <1>g
    <2>6. Shape'
      BY <1>6, <2>1, <2>2, <2>3, <1>0, <1>t, Saturating DEF IInv, Shape, Remaining, None
    <2>7. Lower'
      BY <1>6, <2>1, <2>2, <2>3, <1>0, <1>a, <1>t DEF IInv, Lower, Shape, Remaining
    <2>8. Upper'
      BY <1>6, <2>1, <2>2, <2>3, <2>5, <1>0, <1>a, <1>t, <1>m DEF IInv, Upper, Shape, Remaining
    <2> QED
      BY <2>4, <2>6, <2>7, <2>8, <1>c DEF IInv
  <1>7. CASE over /\ counter = wd.prev /\ wd.hang + e >= Threshold
    <2>1. wd' = [wd EXCEPT !.cooldown = Cooldown, !.hang = 0] /\ r.fired = wd.hang + e
      BY <1>0, <1>7 DEF Tick
    <2>2. /\ wd'.warmup = wd.warmup /\ wd'.prev = wd.prev
          /\ wd'.hang = 0 /\ wd'.cooldown = Cooldown /\ wd' \in WatchdogState
      <3>1. wd' = [warmup |-> wd.warmup, prev |-> wd.prev, hang |-> 0, cooldown |-> Cooldown]
        BY <2>1, Zenon DEF IInv, TypeOK, WatchdogState
      <3>2. /\ wd.warmup \in 0 .. Warmup /\ wd.prev \in Nat \cup {None}
            /\ 0 \in Nat /\ Cooldown \in 0 .. Cooldown
        BY <1>0, <1>t
      <3>3. wd' \in WatchdogState
        BY <3>1, <3>2 DEF WatchdogState
      <3> QED
        BY <3>1, <3>3
    <2>3. r.fired > 0 /\ r.fired \in Nat
      BY <2>1, <1>7, <1>0 DEF IInv, TypeOK, WatchdogState
    <2>4. /\ graceAt' = appTime /\ grace' = Cooldown /\ interrupts' = 0
          /\ loop' = "working" /\ workStart' = now
      BY <1>7, <2>1, <2>2, <2>3, <1>0, <1>1, <1>t
    <2>5. TypeOK'
      BY <2>2, <2>3, <2>4, <1>0, <1>h, <1>t, Zenon DEF IInv, TypeOK
    <2>6. Since' = 0 /\ Lags' = 0
      BY <2>4, <1>g
    <2>7. Shape'
      BY <1>7, <2>1, <2>2, <2>3, <2>4, <1>0, <1>t, Saturating DEF IInv, Shape, Remaining, None
    <2>8. Lower'
      BY <1>7, <2>1, <2>2, <2>3, <2>4, <1>0, <1>a, <1>t DEF IInv, Lower, Shape, Remaining
    <2>9. Upper'
      BY <1>7, <2>1, <2>2, <2>3, <2>4, <2>6, <1>0, <1>a, <1>t, <1>m DEF IInv, Upper, Shape, Remaining
    <2> QED
      BY <2>5, <2>7, <2>8, <2>9, <1>c DEF IInv
  <1>8. CASE over /\ counter = wd.prev /\ ~(wd.hang + e >= Threshold)
    <2>1. wd' = [wd EXCEPT !.hang = wd.hang + e] /\ r.fired = 0
      BY <1>0, <1>8 DEF Tick
    <2>2. /\ wd'.warmup = wd.warmup /\ wd'.prev = wd.prev
          /\ wd'.hang = wd.hang + e /\ wd'.cooldown = wd.cooldown /\ wd' \in WatchdogState
      <3>1. wd' = [warmup |-> wd.warmup, prev |-> wd.prev, hang |-> wd.hang + e, cooldown |-> wd.cooldown]
        BY <2>1 DEF IInv, TypeOK, WatchdogState
      <3>2. /\ wd.warmup \in 0 .. Warmup /\ wd.prev \in Nat \cup {None}
            /\ wd.hang + e \in Nat /\ wd.cooldown \in 0 .. Cooldown
        BY <1>0, <1>t
      <3>3. wd' \in WatchdogState
        BY <3>1, <3>2 DEF WatchdogState
      <3> QED
        BY <3>1, <3>3
    <2>3. /\ graceAt' = graceAt /\ grace' = grace /\ interrupts' = interrupts
          /\ loop' = loop /\ workStart' = workStart
      BY <1>8, <2>1, <2>2, <1>0, <1>1, <1>t
    <2>4. TypeOK'
      <3>1. hangFor' \in Nat
        BY <2>1, <1>0
      <3> QED
        BY <3>1, <2>2, <2>3, <1>0, <1>h, Zenon DEF IInv, TypeOK
    <2>5. Since' = Since /\ Lags' = Lags
      BY <2>3, <1>g
    <2>6. Shape'
      BY <1>8, <2>1, <2>2, <2>3, <1>0, <1>t, Saturating DEF IInv, Shape, Remaining, None
    <2>7. Lower'
      BY <1>8, <2>1, <2>2, <2>3, <1>0, <1>a, <1>t DEF IInv, Lower, Shape, Remaining
    <2>8. Upper'
      BY <1>8, <2>1, <2>2, <2>3, <2>5, <1>0, <1>a, <1>t, <1>m DEF IInv, Upper, Shape, Remaining
    <2> QED
      BY <2>4, <2>6, <2>7, <2>8, <1>c DEF IInv
  <1>9. counter # None
    BY DEF IInv, TypeOK, None
  <1> QED
    BY <1>2, <1>3, <1>4, <1>5, <1>6, <1>7, <1>8, <1>9, Sample DEF IInv

(***************************************************************************)
(* The sample after a capture: removing the capture from the clock keeps   *)
(* the unsampled application time, and a reset drops only time that        *)
(* belongs to an earlier heartbeat or to a grace.                          *)
(***************************************************************************)
LEMMA FinishInv == IInv /\ FinishWork => IInv'
  <1> SUFFICES ASSUME IInv, FinishWork PROVE IInv'
    OBVIOUS
  <1> USE WatchdogConfigAssumption, BoundAssumption
  <1> DEFINE e == SaturatingSub(workStart, lastCheck)
             r == Rebase(wd, LiveHeartbeat, e)
  <1>0. /\ loop = "working" /\ loop' = "waiting" /\ wd' = r.s /\ hangFor' = 0
        /\ lastCheck' = IF r.reset THEN now ELSE ExcludeMonitorWork(lastCheck, workStart, now)
        /\ now' = now /\ counter' = counter /\ ready' = ready /\ workStart' = workStart
        /\ appTime' = appTime /\ beatAt' = beatAt /\ WaitUntil(lastCheck')
    BY DEF FinishWork, shm
  <1>1. IF wd.prev = None /\ wd'.prev # None
        THEN graceAt' = appTime /\ grace' = Warmup /\ interrupts' = 0
        ELSE graceAt' = graceAt /\ grace' = grace /\ interrupts' = interrupts
    BY DEF FinishWork, Granted
  <1>t. /\ appTime \in Nat /\ beatAt \in Nat /\ graceAt \in Nat /\ grace \in {Warmup, Cooldown}
        /\ wd.warmup \in 0 .. Warmup /\ wd.cooldown \in 0 .. Cooldown
        /\ wd.hang \in Nat /\ wd.prev \in Nat \cup {None} /\ wd.prev \in Int
        /\ counter \in Nat /\ beatAt <= appTime /\ graceAt <= appTime
        /\ now \in 0 .. MaxTime /\ lastCheck \in 0 .. MaxTime /\ workStart \in 0 .. MaxTime
        /\ lastCheck <= workStart /\ workStart <= now
    BY <1>0 DEF IInv, TypeOK, WatchdogState, Clocks, None
  <1>m. /\ Slack \in Nat /\ Slack <= Period /\ Lags \in Nat /\ Period \in Nat
        /\ Since \in Nat /\ Since <= appTime - beatAt /\ Since <= appTime - graceAt
    BY Measures DEF Period
  <1>g. /\ graceAt' = appTime /\ interrupts' = 0 => Since' = 0 /\ Lags' = 0
        /\ graceAt' = graceAt /\ interrupts' = interrupts => Since' = Since /\ Lags' = Lags
    BY <1>0, GrantMeasures
  <1>e. e \in Nat /\ e = workStart - lastCheck /\ Unsampled = e
    BY <1>0, <1>t DEF SaturatingSub, Unsampled
  <1>x. ExcludeMonitorWork(lastCheck, workStart, now) = lastCheck + (now - workStart)
    BY <1>t DEF ExcludeMonitorWork, SaturatingSub
  <1>h. interrupts' \in 0 .. MaxInterrupts /\ graceAt' \in Nat /\ graceAt' <= appTime
    <2>1. interrupts' \in {0, interrupts} /\ graceAt' \in {appTime, graceAt}
      BY <1>1, Zenon
    <2>2. interrupts \in 0 .. MaxInterrupts
      BY DEF IInv, TypeOK
    <2> QED
      BY <2>1, <2>2, <1>t
  <1>r. ASSUME r.reset
        PROVE  lastCheck' = now /\ wakeAt' \in Nat /\ Unsampled' = 0 /\ Slack' = Period /\ Clocks'
    <2>1. lastCheck' = now
      BY <1>r, <1>0
    <2>0. /\ now' = now /\ loop' = "waiting" /\ appTime' = appTime /\ beatAt' = beatAt
          /\ WaitUntil(now)
      BY <1>0, <2>1
    <2> HIDE DEF r, e
    <2>2. wakeAt' = now + CheckInterval
      BY <2>0, <1>t DEF WaitUntil
    <2>3. Unsampled' = 0
      BY <2>0, <2>1, <1>t DEF Unsampled
    <2>4. Slack' = Period
      BY <2>2, <2>0, <1>t DEF Slack, Period
    <2>5. Clocks'
      BY <2>0, <2>1, <2>2, <2>4, <1>h, <1>t, <1>m DEF Clocks
    <2> QED
      BY <2>1, <2>2, <2>3, <2>4, <2>5, <1>t
  <1>2. CASE LiveHeartbeat = None
    <2>1. wd' = [warmup |-> Warmup, prev |-> None, hang |-> 0, cooldown |-> 0] /\ r.reset
      BY <1>0, <1>2 DEF Rebase, Disarmed, NewState
    <2>2. graceAt' = graceAt /\ grace' = grace /\ interrupts' = interrupts
      BY <2>1, <1>1
    <2>3. TypeOK'
      <3>1. wd' \in WatchdogState /\ hangFor' \in Nat
        BY <2>1, <1>0 DEF WatchdogState, None
      <3> QED
        BY <3>1, <2>1, <2>2, <1>r, <1>0, <1>h, Zenon DEF IInv, TypeOK
    <2>4. Shape'
      BY <2>1, <1>0, <1>t DEF Shape, Remaining, None, Disarmed, NewState
    <2>5. Lower' /\ Upper'
      BY <2>1, <1>0, <1>t DEF Lower, Upper, None
    <2> QED
      BY <2>1, <2>3, <2>4, <2>5, <1>r DEF IInv
  <1>3. CASE LiveHeartbeat = counter /\ wd.prev = None
    <2>1. wd' = [wd EXCEPT !.prev = counter] /\ r.reset
      BY <1>0, <1>3, <1>t DEF Rebase, None
    <2>2. Unsampled' = 0 /\ Slack' = Period
      BY <2>1, <1>r
    <2>3. wd = [warmup |-> Warmup, prev |-> None, hang |-> 0, cooldown |-> 0]
      BY <1>3 DEF IInv, Shape, Disarmed, NewState
    <2>4. wd' = [warmup |-> Warmup, prev |-> counter, hang |-> 0, cooldown |-> 0]
      BY <2>1, <2>3
    <2>5. /\ wd'.warmup = Warmup /\ wd'.prev = counter /\ wd'.hang = 0 /\ wd'.cooldown = 0
          /\ wd' \in WatchdogState
      <3>1. wd'.warmup = Warmup /\ wd'.prev = counter /\ wd'.hang = 0 /\ wd'.cooldown = 0
        BY <2>4
      <3>2. wd' \in WatchdogState
        BY <2>4, <1>t, SMTT(30) DEF WatchdogState
      <3>q. QED
        BY <3>1, <3>2
    <2>6. graceAt' = appTime /\ grace' = Warmup /\ interrupts' = 0
      BY <2>5, <1>1, <1>3, <1>t DEF None
    <2>7. TypeOK'
      <3>1. hangFor' \in Nat /\ grace' \in {Warmup, Cooldown}
        BY <2>6, <1>0
      <3> QED
        BY <3>1, <2>1, <2>5, <1>r, <1>0, <1>h, <1>t, Zenon DEF IInv, TypeOK
    <2>8. Since' = 0 /\ Lags' = 0
      BY <2>6, <1>g
    <2>9. Shape'
      BY <2>5, <2>6, <1>0, <1>t DEF Shape, Remaining, None
    <2>10. Lower' /\ Upper'
      <3> HIDE DEF r, e
      <3> QED
        BY <2>2, <2>5, <2>6, <2>8, <1>0, <1>t, <1>m DEF Lower, Upper, Remaining
    <2> QED
      BY <2>1, <2>7, <2>9, <2>10, <1>r DEF IInv
  <1>4. CASE LiveHeartbeat = counter /\ counter # None /\ wd.prev # None /\ wd.prev # counter
    <2>1. /\ wd' = [ConsumeActiveGrace(wd, e) EXCEPT !.prev = counter, !.hang = 0]
          /\ r.reset
      BY <1>0, <1>4 DEF Rebase
    <2> DEFINE w == IF wd.warmup > 0 THEN SaturatingSub(wd.warmup, e) ELSE wd.warmup
               c == IF wd.warmup > 0 THEN wd.cooldown ELSE SaturatingSub(wd.cooldown, e)
    <2>2. wd' = [warmup |-> w, prev |-> counter, hang |-> 0, cooldown |-> c]
      BY <2>1, Zenon DEF ConsumeActiveGrace, IInv, TypeOK, WatchdogState
    <2>3. /\ w \in 0 .. Warmup /\ c \in 0 .. Cooldown
          /\ wd.warmup + wd.cooldown - e <= w + c
          /\ w + c <= wd.warmup + wd.cooldown
          /\ w + c > 0 => w + c = wd.warmup + wd.cooldown - e
          /\ w > 0 => c = 0
      BY <1>e, <1>t DEF SaturatingSub, IInv, Shape, Remaining
    <2>4. Unsampled' = 0 /\ Slack' = Period
      BY <2>1, <1>r
    <2>5. graceAt' = graceAt /\ grace' = grace /\ interrupts' = interrupts
      BY <1>1, <1>4
    <2>6. /\ wd'.warmup = w /\ wd'.prev = counter /\ wd'.hang = 0 /\ wd'.cooldown = c
          /\ wd' \in WatchdogState
      BY <2>2, <2>3, <1>t DEF WatchdogState
    <2>7. TypeOK'
      <3>1. hangFor' \in Nat
        BY <1>0
      <3> HIDE DEF w, c
      <3> QED
        BY <3>1, <2>1, <2>5, <2>6, <1>r, <1>0, <1>h, Zenon DEF IInv, TypeOK
    <2>8. Since' = Since /\ Lags' = Lags
      BY <2>5, <1>g
    <2> HIDE DEF w, c
    <2>s. Shape'
      <3> HIDE DEF r, e
      <3> QED
        BY <2>3, <2>5, <2>6, <1>0, <1>t, <1>4 DEF IInv, Shape, Remaining, None
    <2>9. Lower'
      BY <2>3, <2>4, <2>5, <2>6, <1>0, <1>e, <1>t, <1>4 DEF IInv, Lower, Shape, Remaining
    <2>10. Upper'
      <3> HIDE DEF r, e
      <3>1. (appTime - beatAt) + Slack <= Period + Lags
        BY <1>4 DEF IInv, Upper
      <3>2. wd.warmup + wd.cooldown > 0 => appTime - graceAt <= (grace - (wd.warmup + wd.cooldown)) + e
        BY <1>4, <1>e, <1>t DEF IInv, Upper, Remaining
      <3> QED
        BY <3>1, <3>2, <2>3, <2>4, <2>5, <2>6, <2>8, <1>0, <1>e, <1>t, <1>m DEF Upper, Remaining
    <2> QED
      BY <2>1, <2>7, <2>s, <2>9, <2>10, <1>r DEF IInv
  <1>5. CASE LiveHeartbeat = counter /\ counter # None /\ wd.prev = counter
    <2>1. wd' = wd /\ ~r.reset
      BY <1>0, <1>5 DEF Rebase
    <2>2. lastCheck' = lastCheck + (now - workStart) /\ lastCheck' \in 0 .. MaxTime
      <3> HIDE DEF r
      <3>1. lastCheck' = lastCheck + (now - workStart)
        BY <2>1, <1>0, <1>x
      <3> QED
        BY <3>1, <1>t
    <2>3. graceAt' = graceAt /\ grace' = grace /\ interrupts' = interrupts
      BY <1>1, <1>5, <2>1
    <2>u. Unsampled' = e /\ Unsampled = e
      <3> HIDE DEF r
      <3> QED
        BY <2>2, <1>0, <1>e, <1>t DEF Unsampled
    <2>w. /\ wakeAt' \in Nat /\ wakeAt' >= lastCheck' + CheckInterval
          /\ wakeAt' = now + SaturatingSub(CheckInterval, e)
      <3> HIDE DEF r
      <3> QED
        BY <2>2, <1>0, <1>e, <1>t DEF WaitUntil, SaturatingSub
    <2>s. Slack' = Slack
      <3>1. Slack' = WakeLag + (wakeAt' - now)
        BY <1>0 DEF Slack
      <3>2. Slack = WakeLag + SaturatingSub(CheckInterval, e)
        BY <2>u, <1>0 DEF Slack
      <3>3. SaturatingSub(CheckInterval, e) \in Nat
        <4>1. e \in Nat
          BY <1>e
        <4> HIDE DEF e, r
        <4> QED
          BY <4>1 DEF SaturatingSub
      <3> HIDE DEF e, r
      <3> QED
        BY <3>1, <3>2, <3>3, <2>w, <1>t
    <2>g. Since' = Since /\ Lags' = Lags
      BY <2>3, <1>g
    <2>4. TypeOK'
      <3>1. hangFor' \in Nat
        BY <1>0
      <3> QED
        BY <3>1, <2>1, <2>2, <2>3, <2>w, <1>0, <1>t, Zenon DEF IInv, TypeOK
    <2>5. Clocks'
      <3>1. Slack' \in 0 .. Period
        BY <2>s, <1>m
      <3>2. lastCheck' <= now'
        BY <2>2, <1>0, <1>t
      <3> QED
        BY <3>1, <3>2, <2>3, <2>w, <1>0, <1>t DEF Clocks
    <2>6. Shape' /\ Lower'
      BY <2>1, <2>u, <2>3, <1>0, Zenon DEF IInv, Shape, Lower, Remaining, Disarmed, NewState
    <2>7. Upper'
      BY <2>1, <2>u, <2>s, <2>g, <2>3, <1>0, Zenon DEF IInv, Upper, Remaining, Period
    <2> QED
      BY <2>4, <2>5, <2>6, <2>7 DEF IInv
  <1>6. counter # None
    BY <1>t DEF None
  <1> QED
    BY <1>2, <1>3, <1>4, <1>5, <1>6, Sample DEF IInv

\* An event that postpones the check by one more lag keeps an upper bound.
LEMMA Postponed ==
  ASSUME NEW a \in Int, NEW b \in Int, NEW s \in Nat, NEW t \in Nat, NEW k \in Nat, NEW l \in Nat,
         a + s <= b + l, t <= s + k
  PROVE  a + t <= b + (l + k)
  OBVIOUS

(* Every step of the event loop, the application and the clocks keeps    *)
(* the inductive invariant.                                            *)
LEMMA StepInv == IInv /\ [Next]_vars => IInv'
  <1> SUFFICES ASSUME IInv, [Next]_vars PROVE IInv'
    OBVIOUS
  <1> USE WatchdogConfigAssumption, BoundAssumption
  <1>t. /\ appTime \in Nat /\ beatAt \in Nat /\ graceAt \in Nat /\ grace \in Nat
        /\ wd.warmup \in Nat /\ wd.cooldown \in Nat /\ wd.hang \in Nat /\ wd.prev \in Int
        /\ counter \in Nat /\ now \in 0 .. MaxTime /\ lastCheck \in 0 .. MaxTime
        /\ workStart \in 0 .. MaxTime /\ wakeAt \in Nat /\ interrupts \in Nat
        /\ loop \in {"waiting", "working"} /\ lastCheck <= now /\ beatAt <= appTime
        /\ graceAt <= appTime /\ (loop = "working" => lastCheck <= workStart)
        /\ (loop = "waiting" => wakeAt >= lastCheck + CheckInterval)
    BY DEF IInv, TypeOK, WatchdogState, Clocks, None
  <1>m. /\ Slack \in Nat /\ Slack <= Period /\ Lags \in Nat /\ Period \in Nat
        /\ Since \in Nat /\ Since <= appTime - beatAt /\ Since <= appTime - graceAt
    BY Measures DEF Period
  <1>1. CASE Check
    BY <1>1, CheckInv, Zenon
  <1>2. CASE FinishWork
    BY <1>2, FinishInv, Zenon
  <1>3. ASSUME Event, UNCHANGED <<now, shm, wd, lastCheck, hangFor, appTime, beatAt, graceAt, grace>>,
               \/ loop' = "working" /\ workStart' = now /\ UNCHANGED wakeAt
               \/ WaitUntil(lastCheck) /\ UNCHANGED <<loop, workStart>>
        PROVE  IInv'
    <2>1. /\ loop = "waiting" /\ interrupts' = interrupts + 1 /\ interrupts' \in 0 .. MaxInterrupts
          /\ now' = now /\ counter' = counter /\ ready' = ready /\ wd' = wd /\ lastCheck' = lastCheck
          /\ hangFor' = hangFor /\ appTime' = appTime /\ beatAt' = beatAt
          /\ graceAt' = graceAt /\ grace' = grace
      BY <1>3, <1>t DEF Event, shm
    <2>2. \/ loop' = "working" /\ workStart' = now /\ wakeAt' = wakeAt
          \/ /\ loop' = "waiting" /\ workStart' = workStart
             /\ wakeAt' = IF lastCheck + CheckInterval > now THEN lastCheck + CheckInterval ELSE now
      BY <1>3, <2>1 DEF WaitUntil
    <2>3. Lags' = Lags + WakeLag
      BY <2>1, <1>t, Products DEF Lags
    <2>4. Since' = Since /\ Unsampled' = Unsampled /\ Unsampled = now - lastCheck
      BY <2>1, <2>2 DEF Since, Unsampled
    <2>5. Slack' \in Nat /\ Slack' <= Period /\ Slack' <= Slack + WakeLag
      <3>1. Slack = WakeLag + (wakeAt - now)
        BY <2>1 DEF Slack
      <3>2. CASE loop' = "waiting"
        <4>1. Slack' = WakeLag + (wakeAt' - now)
          BY <3>2, <2>1 DEF Slack
        <4> QED
          BY <3>1, <3>2, <4>1, <2>1, <2>2, <1>t, <1>m DEF Period
      <3>3. CASE loop' = "working"
        <4>1. Slack' = WakeLag + SaturatingSub(CheckInterval, now - lastCheck)
          BY <3>3, <2>4 DEF Slack
        <4> QED
          BY <3>1, <4>1, <2>1, <1>t, <1>m DEF Period, SaturatingSub
      <3> QED
        BY <2>2, <3>2, <3>3
    <2>6. TypeOK'
      <3>1. loop' \in {"waiting", "working"} /\ workStart' \in 0 .. MaxTime /\ wakeAt' \in Nat
        BY <2>1, <2>2, <1>t
      <3> QED
        BY <3>1, <2>1, Zenon DEF IInv, TypeOK
    <2>7. Clocks'
      BY <2>1, <2>2, <2>5, <1>t, <1>m DEF Clocks
    <2>8. Shape' /\ Lower'
      BY <2>1, <2>4, Zenon DEF IInv, Shape, Lower, Remaining, Disarmed, NewState
    <2>9. Upper'
      <3>1. wd'.warmup = wd.warmup /\ wd'.cooldown = wd.cooldown /\ wd'.hang = wd.hang /\ wd'.prev = wd.prev
        BY <2>1
      <3>2. Unsampled \in Int
        BY <2>4, <1>t
      <3> QED
        <4>1. Remaining' = Remaining /\ Remaining \in Nat
          BY <3>1, <1>t DEF Remaining
        <4>n. Unsampled' = Unsampled /\ Since' = Since /\ Slack' \in Nat /\ Lags' = Lags + WakeLag
          BY <2>3, <2>4, <2>5
        <4>2. CASE Remaining > 0
          <5>1. wd.prev # None => /\ appTime - graceAt <= (grace - Remaining) + Unsampled
                                  /\ Since + Slack <= (grace - Remaining) + Period + Lags
            BY <4>2, Zenon DEF IInv, Upper
          <5>2. wd.prev # None /\ wd.prev # counter => (appTime - beatAt) + Slack <= Period + Lags
            BY Zenon DEF IInv, Upper
          <5>3. wd.prev # None => Since + Slack' <= (grace - Remaining) + Period + Lags'
            <6>1. grace - Remaining + Period \in Int
              BY <4>1, <1>t, <1>m
            <6> QED
              BY <6>1, <4>n, <5>1, <2>5, <1>m, Postponed
          <5>4. wd.prev # None /\ wd.prev # counter => (appTime - beatAt) + Slack' <= Period + Lags'
            <6>1. appTime - beatAt \in Int
              BY <1>t
            <6> QED
              BY <6>1, <4>n, <5>2, <2>5, <1>m, Postponed
          <5> QED
            BY <4>1, <4>n, <4>2, <3>1, <2>1, <5>1, <5>3, <5>4 DEF Upper
        <4>3. CASE Remaining = 0
          <5>1. wd.prev = counter => /\ Since <= grace + Period + wd.hang + Unsampled + Lags
                                     /\ Since + Slack <= grace + 2 * Period + wd.hang + Lags
            BY <4>3, Zenon DEF IInv, Upper
          <5>2. wd.prev # None /\ wd.prev # counter => (appTime - beatAt) + Slack <= Period + Lags
            BY Zenon DEF IInv, Upper
          <5>3. wd.prev = counter => /\ Since <= grace + Period + wd.hang + Unsampled + Lags'
                                     /\ Since + Slack' <= grace + 2 * Period + wd.hang + Lags'
            BY <3>2, <4>n, <5>1, <2>5, <1>t, <1>m
          <5>4. wd.prev # None /\ wd.prev # counter => (appTime - beatAt) + Slack' <= Period + Lags'
            <6>1. appTime - beatAt \in Int
              BY <1>t
            <6> QED
              BY <6>1, <4>n, <5>2, <2>5, <1>m, Postponed
          <5> QED
            BY <4>1, <4>n, <4>3, <3>1, <2>1, <5>3, <5>4 DEF Upper
        <4> QED
          BY <4>1, <4>2, <4>3
    <2> QED
      BY <2>6, <2>7, <2>8, <2>9 DEF IInv
  <1>4. CASE Snapshot
    BY <1>3, <1>4 DEF Snapshot
  <1>5. CASE Ignored
    BY <1>3, <1>5 DEF Ignored
  <1>6. CASE Wait
    <2>1. /\ loop = "waiting" /\ now < MaxTime /\ now < wakeAt + WakeLag /\ now' = now + 1
          /\ appTime' = appTime + 1 /\ counter' = counter /\ ready' = ready /\ wd' = wd
          /\ lastCheck' = lastCheck /\ wakeAt' = wakeAt /\ loop' = loop /\ workStart' = workStart
          /\ hangFor' = hangFor /\ beatAt' = beatAt /\ graceAt' = graceAt /\ grace' = grace
          /\ interrupts' = interrupts
      BY <1>6, Zenon DEF Wait, shm
    <2>2. Unsampled' = Unsampled + 1 /\ Unsampled \in Int
      BY <2>1, <1>t DEF Unsampled
    <2>3. Slack' = Slack - 1 /\ Slack > 0
      BY <2>1, <1>t DEF Slack
    <2>4. Since' = Since + 1 /\ Lags' = Lags
      BY <2>1, <1>t DEF Since, Lags
    <2>5. TypeOK'
      <3>1. now' \in 0 .. MaxTime /\ appTime' \in Nat
        BY <2>1, <1>t
      <3> QED
        BY <3>1, <2>1, Zenon DEF IInv, TypeOK
    <2>6. Clocks'
      BY <2>1, <2>3, <1>t, <1>m DEF Clocks
    <2>w. wd'.warmup = wd.warmup /\ wd'.cooldown = wd.cooldown /\ wd'.hang = wd.hang /\ wd'.prev = wd.prev
      BY <2>1
    <2>7. Shape'
      BY <2>1, Zenon DEF IInv, Shape, Remaining, Disarmed, NewState
    <2>8. Lower'
      BY <2>1, <2>2, <2>w, <1>t DEF IInv, Lower, Remaining
    <2>9. Upper'
      BY <2>1, <2>2, <2>3, <2>4, <2>w, <1>t, <1>m DEF IInv, Upper, Remaining
    <2> QED
      BY <2>5, <2>6, <2>7, <2>8, <2>9 DEF IInv
  <1>7. CASE Work
    <2>1. /\ loop = "working" /\ now < MaxTime /\ now' = now + 1
          /\ UNCHANGED <<counter, ready, wd, lastCheck, wakeAt, loop, workStart, hangFor>>
          /\ UNCHANGED <<appTime, beatAt, graceAt, grace, interrupts>>
      BY <1>7 DEF Work, shm, history
    <2>2. Unsampled' = Unsampled /\ Since' = Since /\ Lags' = Lags
      BY <2>1 DEF Unsampled, Since, Lags
    <2>3. Slack' = Slack
      BY <2>1, <2>2 DEF Slack
    <2>4. TypeOK'
      <3>1. now' \in 0 .. MaxTime
        BY <2>1, <1>t
      <3> QED
        BY <3>1, <2>1, Zenon DEF IInv, TypeOK
    <2>5. Clocks'
      BY <2>1, <2>3, <1>t, <1>m DEF IInv, Clocks
    <2>6. Shape' /\ Lower'
      BY <2>1, <2>2, Zenon DEF IInv, Shape, Lower, Remaining, Disarmed, NewState
    <2>7. Upper'
      BY <2>1, <2>2, <2>3, Zenon DEF IInv, Upper, Remaining, Period
    <2> QED
      BY <2>4, <2>5, <2>6, <2>7 DEF IInv
  <1>8. ASSUME counter < MaxBeats, counter' = counter + 1, beatAt' = appTime, interrupts' = 0,
               ready' \in {"no", "yes"},
               UNCHANGED <<now, wd, lastCheck, wakeAt, loop, workStart, hangFor, appTime, graceAt, grace>>
        PROVE  IInv'
    <2>1. Unsampled' = Unsampled
      BY <1>8 DEF Unsampled
    <2>2. Slack' = Slack
      BY <1>8, <2>1 DEF Slack
    <2>3. Since' = 0 /\ Lags' = 0
      <3>1. Since' = 0
        BY <1>8, <1>t DEF Since
      <3> QED
        BY <3>1, <1>8, Products DEF Lags
    <2>4. TypeOK'
      <3>1. counter' \in 0 .. MaxBeats /\ interrupts' \in 0 .. MaxInterrupts /\ beatAt' \in Nat
        BY <1>8, <1>t
      <3> QED
        BY <3>1, <1>8, Zenon DEF IInv, TypeOK
    <2>5. Clocks'
      BY <1>8, <2>2, <1>t, <1>m DEF IInv, Clocks
    <2>w. wd'.warmup = wd.warmup /\ wd'.cooldown = wd.cooldown /\ wd'.hang = wd.hang /\ wd'.prev = wd.prev
      BY <1>8
    <2>6. Shape'
      <3>1. wd.prev <= counter
        BY DEF IInv, Shape
      <3>2. wd'.prev <= counter' /\ wd'.prev # counter'
        BY <3>1, <1>8, <2>w, <1>t
      <3> QED
        BY <3>2, <1>8, Zenon DEF IInv, Shape, Remaining, Disarmed, NewState
    <2>7. Lower' /\ Upper'
      <3>1. wd.prev # counter'
        BY <1>8, <1>t DEF IInv, Shape
      <3>2. wd.prev # None => Remaining <= grace
        BY DEF IInv, Shape
      <3>3. Unsampled \in Int
        BY <1>t DEF Unsampled
      <3>4. Lower'
        BY <3>1, <3>3, <2>1, <2>w, <1>8, <1>t DEF IInv, Lower, Remaining
      <3> QED
        BY <3>1, <3>2, <3>3, <3>4, <2>1, <2>2, <2>3, <2>w, <1>8, <1>t, <1>m DEF IInv, Upper, Remaining
    <2> QED
      BY <2>4, <2>5, <2>6, <2>7 DEF IInv
  <1>9. CASE Heartbeat
    BY <1>8, <1>9 DEF Heartbeat, IInv, TypeOK
  <1>10. CASE MarkReady
    BY <1>8, <1>10 DEF MarkReady
  <1>11. CASE Unready \/ UNCHANGED vars
    <2>1. /\ UNCHANGED <<now, counter, wd, lastCheck, wakeAt, loop, workStart, hangFor>>
          /\ UNCHANGED <<appTime, beatAt, graceAt, grace, interrupts>>
      BY <1>11 DEF Unready, vars, shm, history
    <2>2. ready' \in {"no", "yes"}
      BY <1>11 DEF Unready, vars, shm, IInv, TypeOK
    <2>3. UNCHANGED <<Unsampled, Since, Lags, Remaining>>
      BY <2>1 DEF Unsampled, Since, Lags, Remaining
    <2>4. Slack' = Slack
      BY <2>1, <2>3 DEF Slack
    <2>5. TypeOK'
      BY <2>1, <2>2, Zenon DEF IInv, TypeOK
    <2>6. Clocks' /\ Shape' /\ Lower'
      BY <2>1, <2>3, <2>4, Zenon DEF IInv, Clocks, Shape, Lower, Disarmed, NewState, Period
    <2>7. Upper'
      BY <2>1, <2>3, <2>4, Zenon DEF IInv, Upper, Period
    <2> QED
      BY <2>5, <2>6, <2>7 DEF IInv
  <1> QED
    BY <1>1, <1>2, <1>4, <1>5, <1>6, <1>7, <1>9, <1>10, <1>11, Zenon DEF Next

(* The inductive invariant holds in every reachable state.              *)
LEMMA Invariance == Spec => []IInv
  BY InitInv, StepInv, PTL DEF Spec

-----------------------------------------------------------------------------
(* Theorems.                                                               *)

(***************************************************************************)
(* The watchdog and the clock keep their types; in particular saturating   *)
(* subtraction never drives a budget below zero (watchdog.rs).             *)
(***************************************************************************)
THEOREM TypeCorrect == Spec => []TypeOK
  BY Invariance, PTL DEF IInv

(***************************************************************************)
(* A hang is reported in bounded application time, whatever captures       *)
(* happen in between (finish_anr_monitor_work) and however many events     *)
(* wait_until returns before it looks at its deadline: each one costs at   *)
(* most one wake-up lag.                                                   *)
(***************************************************************************)
THEOREM HangReported == Spec => []HangIsReported
  <1>1. IInv => HangIsReported
    <2> SUFFICES ASSUME IInv, wd.prev # None
                 PROVE  Since <= grace + Threshold + 2 * Period + Lags
      BY DEF HangIsReported, Since, Period, Lags
    <2> USE WatchdogConfigAssumption, BoundAssumption
    <2>1. /\ Slack \in Nat /\ Lags \in Nat /\ Period \in Nat
          /\ Since \in Nat /\ Since <= appTime - beatAt
      BY Measures DEF Period
    <2>2. /\ appTime \in Nat /\ beatAt \in Nat /\ grace \in Nat /\ wd.hang \in Nat
          /\ Remaining \in Nat
      BY DEF IInv, TypeOK, WatchdogState, Remaining
    <2>3. wd.hang < Threshold
      BY DEF IInv, Shape
    <2> QED
      BY <2>1, <2>2, <2>3 DEF IInv, Upper
  <1> QED
    BY <1>1, Invariance, PTL

\* What is known when the inline check reports a hang.
LEMMA ReportStep ==
  ASSUME IInv, [Next]_vars, hangFor = 0, hangFor' > 0
  PROVE  hangFor' <= appTime - beatAt /\ appTime - graceAt >= grace + Threshold
  <1> USE WatchdogConfigAssumption, BoundAssumption
  <1>1. Check
    BY DEF Next, FinishWork, Snapshot, Ignored, Wait, Work, Heartbeat, MarkReady, Unready, vars
  <1> DEFINE e == now - lastCheck
             r == Tick(wd, LiveHeartbeat, e)
  <1>2. hangFor' = r.fired /\ Unsampled = e /\ e \in Int
    BY <1>1 DEF Check, Unsampled, IInv, TypeOK
  <1>3. /\ wd.prev # None /\ ~(wd.warmup > 0) /\ ~(wd.cooldown > 0)
        /\ LiveHeartbeat = wd.prev /\ wd.hang + e >= Threshold /\ r.fired = wd.hang + e
    BY <1>2 DEF Tick
  <1>4. wd.prev = counter
    BY <1>3, Sample DEF IInv
  <1>5. Remaining = 0 /\ wd.hang \in Nat
    BY <1>3 DEF Remaining, IInv, TypeOK, WatchdogState
  <1> QED
    BY <1>2, <1>3, <1>4, <1>5 DEF IInv, TypeOK, Lower

(***************************************************************************)
(* A reported hang duration is application-running time since the latest   *)
(* heartbeat: captures and time before readiness are never in it.          *)
(***************************************************************************)
THEOREM HangApplicationTime == Spec => HangIsApplicationTime
  <1>1. IInv /\ [Next]_vars =>
            [hangFor = 0 /\ hangFor' > 0 => hangFor' <= appTime - beatAt]_vars
    BY ReportStep
  <1> QED
    BY <1>1, Invariance, PTL DEF Spec, HangIsApplicationTime

(***************************************************************************)
(* A hang is reported only after the whole warmup or cooldown and a whole  *)
(* threshold of application-running time.                                  *)
(***************************************************************************)
THEOREM GraceApplicationTime == Spec => GraceIsApplicationTime
  <1>1. IInv /\ [Next]_vars =>
            [hangFor = 0 /\ hangFor' > 0 => appTime - graceAt >= grace + Threshold]_vars
    BY ReportStep
  <1> QED
    BY <1>1, Invariance, PTL DEF Spec, GraceIsApplicationTime

-----------------------------------------------------------------------------
(***************************************************************************)
(* Finalization.  For any number of events and any capacity of the         *)
(* background queue, an accepted event is finalized once, the bounded      *)
(* waits of the main thread leave nothing undecided unless one of them     *)
(* expired, and the report of a crash is begun with the status that        *)
(* reaping returned.                                                       *)
(***************************************************************************)

Decided == {"published", "suppressed", "lost"}
Owned == ticket \in {"Pending", "Deferred"}
Ended == {"unspawned", "done", "dead"}

\* An event has one report if it is published and none otherwise; it has no
\* fate before it is captured.
EventInv ==
    \A e \in Events :
        /\ reports[e] = IF fate[e] = "published" THEN 1 ELSE 0
        /\ e > events <=> fate[e] = "none"

\* An accepted event is in one place: in work, or once in the channel.
QueueInv ==
    /\ background = "busy" <=> current # NoEvent
    /\ current # NoEvent => fate[current] = "queued"
    /\ \A i \in 1 .. Len(queue) : queue[i] # current /\ fate[queue[i]] = "queued"
    /\ \A i, j \in 1 .. Len(queue) : queue[i] = queue[j] => i = j
    /\ \A e \in Events : fate[e] = "queued" => e = current \/ \E i \in 1 .. Len(queue) : queue[i] = e
    /\ background \in Ended => queue = <<>>
    /\ background \in {"unspawned", "done"} => sender = "closed"

\* A ticket, and then its thread, owns the held event until it is decided; a
\* ticket that was given up has handed a reason over.
TicketInv ==
    /\ ticket = "Pending" => fatal = "waiting"
    /\ ticket = "Deferred" => fatal = "none"
    /\ Owned => reason = "none" /\ main \in {"reap", "complete"}
    /\ Owned \/ fatal \in {"waiting", "busy"} => held # NoEvent /\ fate[held] = "held"
    /\ held # NoEvent /\ ~Owned /\ fatal \notin {"waiting", "busy"} => fate[held] \in Decided
    /\ fatal # "none" => held # NoEvent
    /\ held # NoEvent /\ ~Owned => reason # "none"

\* What each position of the main thread says of the rest.
MainInv ==
    /\ main = "loop" =>
          held = NoEvent /\ ticket = "none" /\ fatal = "none" /\ reason = "none" /\ ended = "no"
    /\ ended = "no" => main = "loop"
    /\ main = "complete" => Owned /\ ended \in {"crash", "contained"}
    /\ main = "wait" => fatal # "none" /\ ended \in {"crash", "contained", "terminated"}
    /\ main \in {"drain", "reap", "exit"} => sender = "closed"
    /\ main = "drain" => ended \in {"terminated", "other"}
    /\ ended \in {"terminated", "other"} => ticket = "none"
    /\ ended = "crash" => main \in {"reap", "complete", "wait", "exit"}
    /\ ended = "crash" /\ main = "reap" => reason = "none"
    /\ ended = "crash" /\ main # "reap" => termination # "none"
    /\ ended = "crash" /\ reason # "none" => reason = termination

\* What a wait that did not expire has waited for.
WaitInv ==
    /\ main \in {"drain", "exit"} \/ (main = "reap" /\ ~Owned) =>
          held = NoEvent \/ fate[held] \in Decided \/ expired = "yes"
    /\ ended \in {"terminated", "other"} /\ main \in {"reap", "exit"} /\ expired = "no" =>
          background \in Ended

FinalizationInv == FinalizationTypeOK /\ EventInv /\ QueueInv /\ TicketInv /\ MainInv /\ WaitInv

-----------------------------------------------------------------------------
(* Lemmas about the operators.                                             *)

\* Taking the first event of the channel moves the others one place up.
LEMMA TailOfQueue ==
  ASSUME NEW q \in Seq(Events), q # <<>>
  PROVE  /\ Len(q) \in Nat \ {0} /\ Head(q) = q[1] /\ q[1] \in Events
         /\ Tail(q) \in Seq(Events) /\ Len(Tail(q)) = Len(q) - 1
         /\ \A i \in 1 .. Len(Tail(q)) : i + 1 \in 1 .. Len(q) /\ Tail(q)[i] = q[i + 1]
OBVIOUS

\* The positions after the first one.
LEMMA LaterPlaces ==
  \A n : \A i \in 1 .. n : i + 1 # 1
OBVIOUS

\* Submitting an event leaves the others in their places.
LEMMA AppendToQueue ==
  ASSUME NEW q \in Seq(Events), NEW e \in Events
  PROVE  /\ Append(q, e) \in Seq(Events) /\ Len(Append(q, e)) = Len(q) + 1
         /\ Append(q, e)[Len(q) + 1] = e
         /\ \A i \in 1 .. Len(q) : Append(q, e)[i] = q[i]
OBVIOUS

\* No event is the one that stands for none.
LEMMA EventsAreNumbered == Events \subseteq Nat \ {0} /\ NoEvent \notin Events
BY FinalizationAssumption DEF Events, NoEvent

\* A finalization decides its event, with a report if it publishes one.
LEMMA FinalizeDecides ==
  ASSUME FinalizationTypeOK, EventInv, NEW e \in Events, fate[e] \in {"queued", "held"}, Finalize(e)
  PROVE  /\ fate' \in [Events -> Fates] /\ reports' \in [Events -> 0 .. 2]
         /\ fate'[e] \in Decided
         /\ \A f \in Events \ {e} : fate'[f] = fate[f]
         /\ \A f \in Events : reports'[f] = IF fate'[f] = "published" THEN 1 ELSE 0
BY DEF FinalizationTypeOK, EventInv, Finalize, Fates, Decided

(* In the first state no event was captured and no thread has work.        *)
LEMMA FinalizationStarts == FinalizationInit => FinalizationInv
<1> SUFFICES ASSUME FinalizationInit PROVE FinalizationInv
  OBVIOUS
<1>1. FinalizationTypeOK
  BY FinalizationAssumption DEF FinalizationInit, FinalizationTypeOK, Mains, Fates, Events
<1>2. EventInv
  BY FinalizationAssumption DEF FinalizationInit, EventInv, Events
<1>3. QueueInv
  BY DEF FinalizationInit, QueueInv, Ended
<1>4. TicketInv /\ MainInv /\ WaitInv
  BY DEF FinalizationInit, TicketInv, MainInv, WaitInv, Owned, Ended
<1> QED
  BY <1>1, <1>2, <1>3, <1>4 DEF FinalizationInv
-----------------------------------------------------------------------------
(* The event loop.                                                         *)

(* try_submit: a captured event is accepted, or dropped because the queue  *)
(* is full or its thread is gone.                                          *)
LEMMA TrySubmitStep ==
  ASSUME FinalizationInv, NEW e \in Events, TrySubmit(e)
  PROVE  FinalizationInv'
<1> USE DEF FinalizationInv
<1>1. e = events + 1 /\ main = "loop" /\ fate[e] = "none" /\ e \in Nat \ {0}
  BY EventsAreNumbered DEF TrySubmit, Captured, EventInv, FinalizationTypeOK
<1>2. fate' \in [Events -> Fates] /\ fate'[e] \in {"queued", "dropped"}
  BY DEF TrySubmit, FinalizationTypeOK, Fates
<1>3. \A f \in Events \ {e} : fate'[f] = fate[f]
  BY DEF TrySubmit, FinalizationTypeOK
<1>4. EventInv'
  BY <1>1, <1>2, <1>3, EventsAreNumbered DEF TrySubmit, Captured, EventInv, FinalizationTypeOK
<1>5. QueueInv' /\ queue' \in Seq(Events) /\ Len(queue') <= QueueCapacity
  <2>0. \A i \in 1 .. Len(queue) : queue[i] \in Events /\ queue[i] # e
    BY <1>1 DEF QueueInv, FinalizationTypeOK
  <2>1. CASE Accepts
    <3>1. queue' = Append(queue, e) /\ fate'[e] = "queued"
      BY <2>1 DEF TrySubmit, FinalizationTypeOK
    <3>2. /\ queue' \in Seq(Events) /\ Len(queue') = Len(queue) + 1 /\ Len(queue) \in Nat
          /\ queue'[Len(queue) + 1] = e /\ \A i \in 1 .. Len(queue) : queue'[i] = queue[i]
      <4>1. queue \in Seq(Events)
        BY Zenon DEF FinalizationTypeOK
      <4>2. Len(queue) \in Nat
        BY <4>1
      <4> QED
        BY <3>1, <4>1, <4>2, AppendToQueue, Zenon
    <3>3. Len(queue') <= QueueCapacity
      BY <3>2, <2>1, FinalizationAssumption DEF Accepts
    <3>4. e # current
      BY <1>1, EventsAreNumbered DEF QueueInv, FinalizationTypeOK
    <3>5. \A i \in 1 .. Len(queue') : queue'[i] # current /\ fate'[queue'[i]] = "queued"
      BY <3>1, <3>2, <3>4, <2>0, <1>3 DEF QueueInv
    <3>6. \A i, j \in 1 .. Len(queue') : queue'[i] = queue'[j] => i = j
      BY <3>2, <2>0 DEF QueueInv
    <3>7. ASSUME NEW f \in Events, fate'[f] = "queued"
          PROVE  f = current \/ \E i \in 1 .. Len(queue') : queue'[i] = f
      BY <3>7, <3>2, <1>3 DEF QueueInv
    <3>8. current # NoEvent => fate'[current] = "queued"
      BY <3>4, <1>3 DEF QueueInv, FinalizationTypeOK
    <3>9. background \notin Ended
      BY <2>1 DEF Accepts, QueueInv, Ended
    <3> QED
      BY <3>2, <3>3, <3>5, <3>6, <3>7, <3>8, <3>9, Zenon DEF TrySubmit, QueueInv, Ended
  <2>2. CASE ~Accepts
    <3>1. queue' = queue /\ fate'[e] = "dropped"
      BY <2>2 DEF TrySubmit, FinalizationTypeOK
    <3>2. e # current
      BY <1>1, EventsAreNumbered DEF QueueInv, FinalizationTypeOK
    <3> QED
      BY <3>1, <3>2, <2>0, <1>3 DEF TrySubmit, QueueInv, FinalizationTypeOK
  <2> QED
    BY <2>1, <2>2
<1>6. FinalizationTypeOK'
  BY <1>1, <1>2, <1>5 DEF TrySubmit, FinalizationTypeOK, Captured, Events, mainVars, ticketVars
<1>7. TicketInv' /\ MainInv' /\ WaitInv'
  BY <1>1, Zenon DEF TrySubmit, TicketInv, MainInv, WaitInv, Owned, mainVars, ticketVars
<1> QED
  BY <1>4, <1>5, <1>6, <1>7

\* An event that is captured for a ticket or for the terminated child is in
\* nobody else's hands.
LEMMA HeldEvent ==
  ASSUME FinalizationInv, NEW e \in Events, e = events + 1, events' = e,
         fate' = [fate EXCEPT ![e] = "held"],
         UNCHANGED <<reports, queue, background, current>>, sender' \in {sender, "closed"}
  PROVE  /\ fate' \in [Events -> Fates] /\ fate'[e] = "held" /\ e # NoEvent
         /\ EventInv' /\ QueueInv'
<1> USE DEF FinalizationInv
<1>1. fate' \in [Events -> Fates] /\ fate'[e] = "held"
  BY DEF FinalizationTypeOK, Fates
<1>2. fate[e] = "none" /\ e \in Nat \ {0}
  BY EventsAreNumbered DEF EventInv, FinalizationTypeOK
<1>3. \A f \in Events \ {e} : fate'[f] = fate[f]
  BY DEF FinalizationTypeOK
<1>4. EventInv'
  BY <1>1, <1>2, <1>3, EventsAreNumbered DEF EventInv, FinalizationTypeOK
<1>5. e # current /\ \A i \in 1 .. Len(queue) : queue[i] \in Events /\ queue[i] # e
  BY <1>2, EventsAreNumbered DEF QueueInv, FinalizationTypeOK
<1>6. QueueInv'
  BY <1>1, <1>3, <1>5 DEF QueueInv, FinalizationTypeOK
<1> QED
  BY <1>1, <1>2, <1>4, <1>6 DEF NoEvent

(* CrashFinalization::start: the ticket owns the event.                    *)
LEMMA TicketStarts ==
  ASSUME FinalizationInv, NEW e \in Events, Captured(e), StartTicket(e),
         UNCHANGED <<reports, queue, background, current>>, sender' \in {sender, "closed"}
  PROVE  /\ fate' \in [Events -> Fates] /\ events' \in 0 .. MaxEvents
         /\ EventInv' /\ QueueInv'
         /\ held' = e /\ e # NoEvent /\ fate'[e] = "held"
         /\ Owned' /\ reason' = "none"
         /\ ticket' = "Pending" => fatal' = "waiting"
         /\ ticket' = "Deferred" => fatal' = "none"
         /\ fatal' \in {"none", "waiting"}
<1>1. e = events + 1 /\ events' = e /\ fate' = [fate EXCEPT ![e] = "held"] /\ main = "loop"
  BY DEF Captured, StartTicket
<1>2. fate' \in [Events -> Fates] /\ fate'[e] = "held" /\ e # NoEvent /\ EventInv' /\ QueueInv'
  BY <1>1, HeldEvent, Zenon
<1>3. reason' = "none"
  BY <1>1 DEF StartTicket, FinalizationInv, MainInv
<1> QED
  BY <1>1, <1>2, <1>3 DEF StartTicket, Owned, Events

\* The types, from what a step of another thread than the main one changes.
LEMMA TypesFrame ==
  ASSUME FinalizationTypeOK,
         UNCHANGED <<main, ended, termination, events, sender, ticket, held, reason, expired>>,
         fate' = fate \/ fate' \in [Events -> Fates],
         reports' = reports \/ reports' \in [Events -> 0 .. 2],
         queue' = queue \/ (queue' \in Seq(Events) /\ Len(queue') <= QueueCapacity),
         background' = background \/ background' \in {"idle", "busy", "done", "dead"},
         current' = current \/ current' \in Events \cup {NoEvent},
         fatal' = fatal \/ fatal' \in {"busy", "done", "dead"}
  PROVE  FinalizationTypeOK'
<1>1. main' \in Mains /\ ended' \in Endings \cup {"no"} /\ termination' \in {"none", "known", "unknown"}
  BY Zenon DEF FinalizationTypeOK
<1>2. events' \in 0 .. MaxEvents /\ sender' \in {"open", "closed"} /\ held' \in Events \cup {NoEvent}
  BY Zenon DEF FinalizationTypeOK
<1>3. /\ ticket' \in {"none", "Pending", "Deferred", "consumed"}
      /\ reason' \in {"none", "known", "unknown"} /\ expired' \in {"yes", "no"}
  BY Zenon DEF FinalizationTypeOK
<1>4. fate' \in [Events -> Fates] /\ reports' \in [Events -> 0 .. 2]
  BY Zenon DEF FinalizationTypeOK
<1>5. queue' \in Seq(Events) /\ Len(queue') <= QueueCapacity
  BY Zenon DEF FinalizationTypeOK
<1>6. /\ background' \in {"unspawned", "idle", "busy", "done", "dead"}
      /\ fatal' \in {"none", "waiting", "busy", "done", "dead"}
      /\ current' \in Events \cup {NoEvent}
  BY Zenon DEF FinalizationTypeOK
<1> QED
  BY Zenon, <1>1, <1>2, <1>3, <1>4, <1>5, <1>6 DEF FinalizationTypeOK

\* Nothing is taken from or given to the background thread.
LEMMA QuietQueue ==
  ASSUME FinalizationInv, UNCHANGED <<eventVars, queue, background, current>>,
         sender' \in {sender, "closed"}
  PROVE  EventInv' /\ QueueInv'
BY DEF FinalizationInv, EventInv, QueueInv, eventVars

(* A crash ends the loop, with a ticket or without.                        *)
LEMMA CrashStep ==
  ASSUME FinalizationInv, NEW e \in Events, Crash(e)
  PROVE  FinalizationInv'
<1> USE DEF FinalizationInv
<1>1. /\ main = "loop" /\ main' = "reap" /\ ended' = "crash" /\ sender' = "closed"
      /\ UNCHANGED <<termination, reports, queue, background, current, expired>>
  BY DEF Crash, Captured
<1>2. CASE Captured(e) /\ StartTicket(e)
  <2>1. /\ fate' \in [Events -> Fates] /\ events' \in 0 .. MaxEvents /\ EventInv' /\ QueueInv'
        /\ held' = e /\ e # NoEvent /\ fate'[e] = "held" /\ Owned' /\ reason' = "none"
        /\ ticket' = "Pending" => fatal' = "waiting"
        /\ ticket' = "Deferred" => fatal' = "none"
        /\ fatal' \in {"none", "waiting"}
    BY <1>1, <1>2, TicketStarts
  <2>2. FinalizationTypeOK'
    BY <1>1, <2>1 DEF FinalizationTypeOK, Owned, Mains, Endings
  <2>3. TicketInv' /\ MainInv' /\ WaitInv'
    BY <1>1, <2>1, Zenon DEF TicketInv, MainInv, WaitInv, Owned
  <2> QED
    BY <2>1, <2>2, <2>3
<1>3. CASE UNCHANGED <<events, fate, ticketVars>>
  <2>1. EventInv' /\ QueueInv'
    BY <1>1, <1>3, QuietQueue DEF eventVars
  <2>2. FinalizationTypeOK'
    BY <1>1, <1>3 DEF FinalizationTypeOK, Mains, Endings, ticketVars
  <2>3. TicketInv' /\ MainInv' /\ WaitInv'
    BY <1>1, <1>3, Zenon DEF TicketInv, MainInv, WaitInv, Owned, ticketVars
  <2> QED
    BY <2>1, <2>2, <2>3
<1> QED
  BY <1>2, <1>3 DEF Crash

(* A contained capture keeps its ticket for the loop to complete, or ends  *)
(* the loop without one.                                                   *)
LEMMA ContainedCaptureStep ==
  ASSUME FinalizationInv, NEW e \in Events, ContainedCapture(e)
  PROVE  FinalizationInv'
<1> USE DEF FinalizationInv
<1>1. /\ main = "loop" /\ ended' = "contained"
      /\ UNCHANGED <<termination, reports, queue, background, current, expired>>
  BY DEF ContainedCapture, Captured
<1>2. CASE Captured(e) /\ StartTicket(e) /\ main' = "complete" /\ UNCHANGED sender
  <2>1. /\ fate' \in [Events -> Fates] /\ events' \in 0 .. MaxEvents /\ EventInv' /\ QueueInv'
        /\ held' = e /\ e # NoEvent /\ fate'[e] = "held" /\ Owned' /\ reason' = "none"
        /\ ticket' = "Pending" => fatal' = "waiting"
        /\ ticket' = "Deferred" => fatal' = "none"
        /\ fatal' \in {"none", "waiting"}
    BY <1>1, <1>2, TicketStarts
  <2>2. FinalizationTypeOK'
    BY <1>1, <1>2, <2>1 DEF FinalizationTypeOK, Owned, Mains, Endings
  <2>3. TicketInv' /\ MainInv' /\ WaitInv'
    BY <1>1, <1>2, <2>1, Zenon DEF TicketInv, MainInv, WaitInv, Owned
  <2> QED
    BY <2>1, <2>2, <2>3
<1>3. CASE main' = "reap" /\ sender' = "closed" /\ UNCHANGED <<events, fate, ticketVars>>
  <2>1. EventInv' /\ QueueInv'
    BY <1>1, <1>3, QuietQueue DEF eventVars
  <2>2. FinalizationTypeOK'
    BY <1>1, <1>3 DEF FinalizationTypeOK, Mains, Endings, ticketVars
  <2>3. TicketInv' /\ MainInv' /\ WaitInv'
    BY <1>1, <1>3, Zenon DEF TicketInv, MainInv, WaitInv, Owned, ticketVars
  <2> QED
    BY <2>1, <2>2, <2>3
<1> QED
  BY <1>2, <1>3 DEF ContainedCapture

(* finalize_terminated_child runs on a thread of its own, or the loop ends *)
(* without a report.                                                       *)
LEMMA ChildTerminatedStep ==
  ASSUME FinalizationInv, NEW e \in Events, ChildTerminated(e)
  PROVE  FinalizationInv'
<1> USE DEF FinalizationInv
<1>1. /\ main = "loop" /\ ended' = "terminated" /\ termination' = "known"
      /\ UNCHANGED <<reports, queue, background, current, expired>>
  BY DEF ChildTerminated, Captured
<1>2. CASE /\ Captured(e) /\ fate' = [fate EXCEPT ![e] = "held"] /\ held' = e
           /\ fatal' = "busy" /\ reason' = "known" /\ main' = "wait"
           /\ UNCHANGED <<sender, ticket>>
  <2>1. e = events + 1 /\ events' = e /\ events' \in 0 .. MaxEvents
    BY <1>2 DEF Captured, Events
  <2>2. fate' \in [Events -> Fates] /\ fate'[e] = "held" /\ e # NoEvent /\ EventInv' /\ QueueInv'
    BY <1>1, <1>2, <2>1, HeldEvent, Zenon
  <2>3. FinalizationTypeOK'
    BY <1>1, <1>2, <2>1, <2>2, Zenon DEF FinalizationTypeOK, Mains, Endings
  <2>4. TicketInv' /\ MainInv' /\ WaitInv'
    BY <1>1, <1>2, <2>2, Zenon DEF TicketInv, MainInv, WaitInv, Owned
  <2> QED
    BY <2>2, <2>3, <2>4
<1>3. CASE main' = "drain" /\ sender' = "closed" /\ UNCHANGED <<events, fate, ticketVars>>
  <2>1. EventInv' /\ QueueInv'
    BY <1>1, <1>3, QuietQueue DEF eventVars
  <2>2. FinalizationTypeOK'
    BY <1>1, <1>3 DEF FinalizationTypeOK, Mains, Endings, ticketVars
  <2>3. TicketInv' /\ MainInv' /\ WaitInv'
    BY <1>1, <1>3, Zenon DEF TicketInv, MainInv, WaitInv, Owned, ticketVars
  <2> QED
    BY <2>1, <2>2, <2>3
<1> QED
  BY <1>2, <1>3 DEF ChildTerminated

-----------------------------------------------------------------------------
(* The main thread after the event loop.                                   *)

(* The ends without an event, the drain and the reaping.                   *)
LEMMA MainStep ==
  ASSUME FinalizationInv, OtherEnd \/ Drain \/ DrainExpires \/ ReapChild
  PROVE  FinalizationInv'
<1> USE DEF FinalizationInv
<1>1. UNCHANGED <<eventVars, queue, background, current, ticketVars>> /\ sender' \in {sender, "closed"}
  BY DEF OtherEnd, Drain, DrainExpires, ReapChild, backgroundVars
<1>2. EventInv' /\ QueueInv'
  BY <1>1, QuietQueue
<1>3. CASE OtherEnd
  <2>1. FinalizationTypeOK'
    BY <1>1, <1>3, Zenon DEF OtherEnd, FinalizationTypeOK, Mains, Endings, ticketVars, eventVars
  <2>2. TicketInv' /\ MainInv' /\ WaitInv'
    BY <1>1, <1>3, Zenon DEF OtherEnd, TicketInv, MainInv, WaitInv, Owned, ticketVars, eventVars
  <2> QED
    BY <1>2, <2>1, <2>2
<1>4. CASE Drain
  <2>1. FinalizationTypeOK'
    BY <1>1, <1>4, Zenon DEF Drain, FinalizationTypeOK, Mains, ticketVars, eventVars, backgroundVars
  <2>2. TicketInv' /\ MainInv' /\ WaitInv'
    BY <1>1, <1>4, Zenon DEF Drain, TicketInv, MainInv, WaitInv, Owned, Ended, ticketVars, eventVars,
                      backgroundVars
  <2> QED
    BY <1>2, <2>1, <2>2
<1>5. CASE DrainExpires
  <2>1. FinalizationTypeOK'
    BY <1>1, <1>5, Zenon DEF DrainExpires, FinalizationTypeOK, Mains, ticketVars, eventVars, backgroundVars
  <2>2. TicketInv' /\ MainInv' /\ WaitInv'
    BY <1>1, <1>5, Zenon DEF DrainExpires, TicketInv, MainInv, WaitInv, Owned, ticketVars, eventVars,
                      backgroundVars
  <2> QED
    BY <1>2, <2>1, <2>2
<1>6. CASE ReapChild
  <2>1. FinalizationTypeOK'
    BY <1>1, <1>6, Zenon DEF ReapChild, FinalizationTypeOK, Mains, ticketVars, eventVars, backgroundVars
  <2>2. /\ main = "reap" /\ sender' = sender /\ termination' \in {"known", "unknown"}
        /\ main' = IF Owned THEN "complete" ELSE "exit"
        /\ UNCHANGED <<ended, fate, ticket, fatal, held, reason, background, expired>>
    BY <1>6 DEF ReapChild, Owned, ticketVars, eventVars, backgroundVars
  <2>3. TicketInv' /\ WaitInv'
    BY <2>2, Zenon DEF TicketInv, WaitInv, Owned
  <2>4. MainInv'
    BY <2>2, Zenon DEF MainInv, TicketInv, Owned, FinalizationTypeOK, Endings
  <2> QED
    BY <1>2, <2>1, <2>3, <2>4
<1> QED
  BY <1>3, <1>4, <1>5, <1>6

\* An event of the ticket that is decided leaves the background's alone.
LEMMA HeldDecided ==
  ASSUME FinalizationInv, held # NoEvent, fate[held] = "held",
         fate' \in [Events -> Fates], fate'[held] \in Decided,
         \A f \in Events \ {held} : fate'[f] = fate[f],
         \A f \in Events : reports'[f] = IF fate'[f] = "published" THEN 1 ELSE 0,
         UNCHANGED <<events, queue, background, current>>, sender' \in {sender, "closed"}
  PROVE  EventInv' /\ QueueInv'
<1> USE DEF FinalizationInv
<1>1. held \in Events
  BY DEF FinalizationTypeOK
<1>2. \A e \in Events : (fate'[e] = "queued" <=> fate[e] = "queued") /\ (fate'[e] = "none" <=> fate[e] = "none")
  BY <1>1, Zenon DEF Decided
<1>3. EventInv'
  BY <1>2 DEF EventInv
<1>4. QueueInv'
  BY <1>2 DEF QueueInv, FinalizationTypeOK
<1> QED
  BY <1>3, <1>4, Zenon

(* CrashFinalization::complete: the reason is what reaping returned, and a *)
(* deferred event gets a thread or is finalized here.                      *)
LEMMA CompleteStep ==
  ASSUME FinalizationInv, Complete
  PROVE  FinalizationInv'
<1> USE DEF FinalizationInv
<1>1. /\ main = "complete" /\ ticket' = "consumed" /\ reason' = Handoff /\ Owned
      /\ held # NoEvent /\ fate[held] = "held" /\ ended \in {"crash", "contained"}
      /\ UNCHANGED <<ended, termination, events, queue, background, current, held, expired>>
  BY DEF Complete, MainInv, TicketInv
<1>2. /\ reason' \in {"known", "unknown"}
      /\ termination # "none" => reason' = termination
      /\ ended = "crash" => termination # "none"
  BY <1>1 DEF Handoff, FinalizationTypeOK, MainInv
<1>3. CASE /\ ticket = "Pending" \/ (ticket = "Deferred" /\ fatal' = "waiting")
           /\ ticket = "Pending" => UNCHANGED fatal
           /\ main' = "wait" /\ UNCHANGED <<fate, reports, sender>>
  <2>1. EventInv' /\ QueueInv'
    BY <1>1, <1>3, QuietQueue DEF eventVars
  <2>2. fatal' = "waiting"
    BY <1>3 DEF TicketInv
  <2>3. FinalizationTypeOK'
    BY <1>1, <1>2, <1>3, <2>2 DEF FinalizationTypeOK, Mains
  <2>4. TicketInv' /\ MainInv' /\ WaitInv'
    BY <1>1, <1>2, <1>3, <2>2, Zenon DEF TicketInv, MainInv, WaitInv, Owned
  <2> QED
    BY <2>1, <2>3, <2>4
<1>4. CASE ticket = "Deferred" /\ Finalize(held) /\ AfterTicket /\ UNCHANGED fatal
  <2>1. /\ fate' \in [Events -> Fates] /\ reports' \in [Events -> 0 .. 2] /\ fate'[held] \in Decided
        /\ \A f \in Events \ {held} : fate'[f] = fate[f]
        /\ \A f \in Events : reports'[f] = IF fate'[f] = "published" THEN 1 ELSE 0
    BY <1>1, <1>4, FinalizeDecides, Zenon DEF FinalizationTypeOK
  <2>2. sender' = "closed" /\ main' = IF ended = "contained" THEN "reap" ELSE "exit"
    BY <1>1, <1>4 DEF AfterTicket
  <2>3. EventInv' /\ QueueInv'
    BY <1>1, <2>1, <2>2, HeldDecided
  <2>4. fatal' = "none"
    BY <1>4 DEF TicketInv
  <2>5. FinalizationTypeOK'
    BY <1>1, <1>2, <2>1, <2>2, <2>4, Zenon DEF FinalizationTypeOK, Mains
  <2>6. TicketInv' /\ MainInv' /\ WaitInv'
    BY <1>1, <1>2, <2>1, <2>2, <2>4, Zenon DEF TicketInv, MainInv, WaitInv, Owned
  <2> QED
    BY <2>3, <2>5, <2>6
<1> QED
  BY <1>3, <1>4 DEF Complete

(* The wait for the ticket's thread ends with its result, or expires.      *)
LEMMA WaitStep ==
  ASSUME FinalizationInv, WaitForResult
  PROVE  FinalizationInv'
<1> USE DEF FinalizationInv
<1>1. /\ main = "wait" /\ sender' = "closed" /\ fatal # "none" /\ ~Owned
      /\ main' = IF ended = "contained" THEN "reap" ELSE IF ended = "terminated" THEN "drain" ELSE "exit"
      /\ expired' = IF fatal \in {"done", "dead"} THEN expired ELSE "yes"
      /\ UNCHANGED <<ended, termination, eventVars, queue, background, current, ticketVars>>
  BY Zenon DEF WaitForResult, AfterTicket, MainInv, TicketInv
<1>2. EventInv' /\ QueueInv'
  BY <1>1, QuietQueue
<1>3. FinalizationTypeOK'
  BY <1>1 DEF FinalizationTypeOK, Mains, eventVars, ticketVars
<1>4. fatal \in {"done", "dead"} => fate[held] \in Decided
  BY <1>1 DEF TicketInv
<1>5. TicketInv' /\ MainInv'
  BY <1>1, Zenon DEF TicketInv, MainInv, Owned, eventVars, ticketVars
<1>6. WaitInv'
  BY <1>1, <1>4, Zenon DEF MainInv, WaitInv, Owned, eventVars, ticketVars, FinalizationTypeOK, Endings
<1> QED
  BY <1>2, <1>3, <1>5, <1>6

-----------------------------------------------------------------------------
(* The finalizer threads.                                                  *)

\* What the background thread does to its own events leaves the held event and
\* the main thread alone.
LEMMA BackgroundFrame ==
  ASSUME FinalizationInv,
         UNCHANGED <<main, ended, termination, sender, ticket, fatal, held, reason, expired>>,
         held # NoEvent => fate'[held] = fate[held],
         background \in Ended => background' \in Ended
  PROVE  TicketInv' /\ MainInv' /\ WaitInv'
<1> USE DEF FinalizationInv
<1>1. TicketInv'
  BY Zenon DEF TicketInv, Owned
<1>2. MainInv'
  BY Zenon DEF MainInv, Owned
<1>3. WaitInv'
  BY Zenon DEF WaitInv, Owned
<1> QED
  BY <1>1, <1>2, <1>3, Zenon

\* The held event is not one of the background's.
LEMMA HeldIsNotQueued ==
  ASSUME FinalizationInv, held # NoEvent
  PROVE  held \in Events /\ fate[held] # "queued"
BY DEF FinalizationInv, FinalizationTypeOK, TicketInv, Decided

(* The background thread takes the next event, or ends.                    *)
LEMMA BackgroundRecvStep ==
  ASSUME FinalizationInv, BackgroundRecv
  PROVE  FinalizationInv'
<1> USE DEF FinalizationInv
<1>1. /\ background = "idle" /\ current = NoEvent
      /\ UNCHANGED <<main, ended, termination, events, fate, reports, sender, ticket, fatal, held,
                     reason, expired>>
  BY DEF BackgroundRecv, QueueInv, mainVars, eventVars, ticketVars
<1>2. EventInv'
  BY <1>1 DEF EventInv
<1>3. TicketInv' /\ MainInv' /\ WaitInv'
  BY <1>1, BackgroundFrame DEF Ended
<1>4. CASE queue # <<>> /\ current' = Head(queue) /\ queue' = Tail(queue) /\ background' = "busy"
  <2>1. /\ Len(queue) \in Nat \ {0} /\ current' = queue[1] /\ current' \in Events
        /\ queue' \in Seq(Events) /\ Len(queue') = Len(queue) - 1
        /\ \A i \in 1 .. Len(queue') : i + 1 \in 1 .. Len(queue) /\ queue'[i] = queue[i + 1]
    BY <1>4, TailOfQueue, Zenon DEF FinalizationTypeOK
  <2>2. FinalizationTypeOK'
    <3>1. Len(queue') <= QueueCapacity
      BY <2>1, FinalizationAssumption DEF FinalizationTypeOK
    <3> QED
      BY Zenon, <1>1, <1>4, <2>1, <3>1, TypesFrame
  <2>3. current' # NoEvent /\ 1 \in 1 .. Len(queue) /\ fate[queue[1]] = "queued"
    BY <2>1, EventsAreNumbered DEF QueueInv
  <2>4. ASSUME NEW i \in 1 .. Len(queue')
        PROVE  queue'[i] # current' /\ fate'[queue'[i]] = "queued"
    <3>1. i + 1 \in 1 .. Len(queue) /\ queue'[i] = queue[i + 1] /\ i + 1 # 1
      BY Zenon, <2>1, LaterPlaces
    <3> QED
      <4>1. queue[i + 1] # queue[1] /\ fate[queue[i + 1]] = "queued"
        BY Zenon, <2>3, <3>1 DEF QueueInv
      <4> QED
        BY Zenon, <1>1, <2>1, <3>1, <4>1
  <2>5. \A i, j \in 1 .. Len(queue') : queue'[i] = queue'[j] => i = j
    BY <2>1 DEF QueueInv
  <2>6. ASSUME NEW e \in Events, fate'[e] = "queued"
        PROVE  e = current' \/ \E i \in 1 .. Len(queue') : queue'[i] = e
    <3>1. PICK i \in 1 .. Len(queue) : queue[i] = e
      BY <1>1, <2>6, EventsAreNumbered, Zenon DEF QueueInv
    <3>2. CASE i = 1
      BY <3>1, <3>2, <2>1, Zenon
    <3>3. CASE i # 1
      <4>1. i - 1 \in 1 .. Len(queue') /\ (i - 1) + 1 = i
        BY <3>3, <2>1
      <4> QED
        BY <4>1, <3>1, <2>1, Zenon
    <3> QED
      BY <3>2, <3>3
  <2>7. QueueInv'
    BY <1>1, <1>4, <2>1, <2>3, <2>4, <2>5, <2>6, Zenon DEF QueueInv, Ended
  <2> QED
    BY <1>2, <1>3, <2>2, <2>7
<1>5. CASE queue = <<>> /\ sender = "closed" /\ background' = "done" /\ UNCHANGED <<queue, current>>
  <2>1. FinalizationTypeOK'
    BY Zenon, <1>1, <1>5, TypesFrame
  <2>2. QueueInv'
    BY <1>1, <1>5 DEF QueueInv
  <2> QED
    BY <1>2, <1>3, <2>1, <2>2
<1> QED
  BY <1>4, <1>5 DEF BackgroundRecv

(* The background thread decides its event.                                *)
LEMMA BackgroundFinalizesStep ==
  ASSUME FinalizationInv, BackgroundFinalizes
  PROVE  FinalizationInv'
<1> USE DEF FinalizationInv
<1>1. /\ background = "busy" /\ background' = "idle" /\ current' = NoEvent /\ Finalize(current)
      /\ UNCHANGED <<main, ended, termination, events, queue, sender, ticket, fatal, held, reason,
                     expired>>
  BY DEF BackgroundFinalizes, mainVars, ticketVars
<1>2. current \in Events /\ fate[current] = "queued"
  BY <1>1, Zenon DEF QueueInv, FinalizationTypeOK
<1>3. /\ fate' \in [Events -> Fates] /\ reports' \in [Events -> 0 .. 2] /\ fate'[current] \in Decided
      /\ \A f \in Events \ {current} : fate'[f] = fate[f]
      /\ \A f \in Events : reports'[f] = IF fate'[f] = "published" THEN 1 ELSE 0
  BY <1>1, <1>2, FinalizeDecides, Zenon
<1>4. FinalizationTypeOK'
  BY Zenon, <1>1, <1>3, TypesFrame
<1>5. EventInv'
  BY <1>1, <1>2, <1>3, Zenon DEF EventInv, Decided
<1>6. QueueInv'
  <2>1. \A i \in 1 .. Len(queue) : queue[i] \in Events
    BY DEF FinalizationTypeOK
  <2>2. NoEvent \notin Events
    BY EventsAreNumbered
  <2> QED
    <3>1. \A i \in 1 .. Len(queue) : queue[i] # NoEvent /\ fate'[queue[i]] = "queued"
      <4> TAKE i \in 1 .. Len(queue)
      <4>1. queue[i] \in Events /\ queue[i] # current /\ fate[queue[i]] = "queued"
        BY Zenon, <2>1 DEF QueueInv
      <4> QED
        BY Zenon, <1>3, <2>2, <4>1
    <3>2. \A e \in Events : fate'[e] = "queued" => \E i \in 1 .. Len(queue) : queue[i] = e
      BY <1>1, <1>2, <1>3, Zenon DEF QueueInv, Decided
    <3> QED
      <4>1. /\ background' # "busy" /\ current' = NoEvent /\ background' \notin Ended
            /\ background' \notin {"unspawned", "done"}
        BY Zenon, <1>1 DEF Ended
      <4>2. \A i, j \in 1 .. Len(queue) : queue[i] = queue[j] => i = j
        BY Zenon DEF QueueInv
      <4>3. /\ background' = "busy" <=> current' # NoEvent
            /\ current' # NoEvent => fate'[current'] = "queued"
            /\ background' \in Ended => queue' = <<>>
            /\ background' \in {"unspawned", "done"} => sender' = "closed"
        BY Zenon, <4>1
      <4>4. queue' = queue /\ current' = NoEvent
        BY Zenon, <1>1
      <4>5. \A i \in 1 .. Len(queue') : queue'[i] # current' /\ fate'[queue'[i]] = "queued"
        BY Zenon, <3>1, <4>4
      <4>6. \A i, j \in 1 .. Len(queue') : queue'[i] = queue'[j] => i = j
        BY Zenon, <4>2, <4>4
      <4>7. \A e \in Events : fate'[e] = "queued" => e = current' \/ \E i \in 1 .. Len(queue') : queue'[i] = e
        BY Zenon, <3>2, <4>4
      <4> QED
        BY Zenon, <4>3, <4>5, <4>6, <4>7 DEF QueueInv
<1>7. TicketInv' /\ MainInv' /\ WaitInv'
  BY <1>1, <1>2, <1>3, BackgroundFrame, HeldIsNotQueued, Zenon DEF Ended
<1> QED
  BY <1>4, <1>5, <1>6, <1>7

(* A panic of the background thread loses its event and the channel's.     *)
LEMMA BackgroundPanicsStep ==
  ASSUME FinalizationInv, BackgroundPanics
  PROVE  FinalizationInv'
<1> USE DEF FinalizationInv
<1>1. /\ background = "busy" /\ background' = "dead" /\ current' = NoEvent /\ queue' = <<>>
      /\ fate' = [e \in Events |-> IF e = current \/ InChannel(e) THEN "lost" ELSE fate[e]]
      /\ UNCHANGED <<main, ended, termination, events, reports, sender, ticket, fatal, held, reason,
                     expired>>
  BY DEF BackgroundPanics, mainVars, ticketVars
<1>2. \A i \in 1 .. Len(queue) : queue[i] \in Events
  BY DEF FinalizationTypeOK
<1>3. \A e \in Events : e = current \/ InChannel(e) <=> fate[e] = "queued"
  <2> TAKE e \in Events
  <2>1. fate[e] = "queued" => e = current \/ InChannel(e)
    BY Zenon DEF QueueInv, InChannel
  <2>2. e = current => fate[e] = "queued"
    BY Zenon, EventsAreNumbered DEF QueueInv
  <2>3. ASSUME InChannel(e)
        PROVE  fate[e] = "queued"
    <3>1. PICK i \in 1 .. Len(queue) : queue[i] = e
      BY Zenon, <2>3 DEF InChannel
    <3>2. fate[queue[i]] = "queued"
      BY Zenon DEF QueueInv
    <3> QED
      BY Zenon, <3>1, <3>2
  <2> QED
    BY Zenon, <2>1, <2>2, <2>3
<1>4. fate' \in [Events -> Fates] /\ \A e \in Events : fate'[e] = IF fate[e] = "queued" THEN "lost" ELSE fate[e]
  BY <1>1, <1>3, Zenon DEF FinalizationTypeOK, Fates
<1>5. FinalizationTypeOK'
  <2>1. <<>> \in Seq(Events) /\ Len(<<>>) <= QueueCapacity
    BY FinalizationAssumption
  <2> QED
    BY Zenon, <1>1, <1>4, <2>1, TypesFrame
<1>6. EventInv'
  BY <1>1, <1>4 DEF EventInv
<1>7. QueueInv'
  BY <1>1, <1>4 DEF QueueInv, Ended
<1>8. TicketInv' /\ MainInv' /\ WaitInv'
  BY <1>1, <1>4, BackgroundFrame, HeldIsNotQueued, Zenon DEF Ended
<1> QED
  BY <1>5, <1>6, <1>7, <1>8

(* The ticket's thread begins once it has a reason, and then decides its   *)
(* event or panics.                                                        *)
LEMMA FatalStep ==
  ASSUME FinalizationInv, FatalRecv \/ FatalFinalizes \/ FatalPanics
  PROVE  FinalizationInv'
<1> USE DEF FinalizationInv
<1>1. /\ fatal \in {"waiting", "busy"} /\ held \in Events /\ held # NoEvent /\ fate[held] = "held"
      /\ ~Owned
      /\ UNCHANGED <<main, ended, termination, events, queue, sender, background, current, ticket,
                     held, reason, expired>>
  BY Zenon DEF FatalRecv, FatalFinalizes, FatalPanics, TicketInv, FinalizationTypeOK, Owned, mainVars, eventVars,
         backgroundVars
<1>2. CASE FatalRecv
  <2>1. fatal' = "busy" /\ UNCHANGED <<fate, reports>>
    BY <1>2 DEF FatalRecv, eventVars
  <2>2. EventInv' /\ QueueInv'
    BY <1>1, <2>1, QuietQueue DEF eventVars
  <2>3. FinalizationTypeOK'
    BY Zenon, <1>1, <2>1, TypesFrame
  <2>4. TicketInv' /\ MainInv' /\ WaitInv'
    BY <1>1, <2>1, Zenon DEF TicketInv, MainInv, WaitInv, Owned
  <2> QED
    BY <2>2, <2>3, <2>4
<1>3. CASE FatalFinalizes \/ FatalPanics
  <2>1. fatal' \in {"done", "dead"}
    BY <1>3 DEF FatalFinalizes, FatalPanics
  <2>2. /\ fate' \in [Events -> Fates] /\ reports' \in [Events -> 0 .. 2] /\ fate'[held] \in Decided
        /\ \A f \in Events \ {held} : fate'[f] = fate[f]
        /\ \A f \in Events : reports'[f] = IF fate'[f] = "published" THEN 1 ELSE 0
    <3>1. CASE FatalFinalizes
      BY <1>1, <3>1, FinalizeDecides, Zenon DEF FatalFinalizes
    <3>2. CASE FatalPanics
      BY <1>1, <3>2, Zenon DEF FatalPanics, FinalizationTypeOK, EventInv, Fates, Decided
    <3> QED
      BY <1>3, <3>1, <3>2, Zenon
  <2>3. EventInv' /\ QueueInv'
    BY <1>1, <2>2, HeldDecided, Zenon
  <2>4. FinalizationTypeOK'
    BY Zenon, <1>1, <2>1, <2>2, TypesFrame
  <2>5. TicketInv' /\ MainInv' /\ WaitInv'
    BY <1>1, <2>1, <2>2, Zenon DEF TicketInv, MainInv, WaitInv, Owned
  <2> QED
    BY <2>3, <2>4, <2>5
<1> QED
  BY <1>2, <1>3

-----------------------------------------------------------------------------

(* Every step keeps the invariant.                                         *)
LEMMA FinalizationSteps == FinalizationInv /\ [FinalizationNext]_finalizationVars => FinalizationInv'
<1> SUFFICES ASSUME FinalizationInv, [FinalizationNext]_finalizationVars PROVE FinalizationInv'
  OBVIOUS
<1>1. CASE Main
  BY <1>1, TrySubmitStep, CrashStep, ContainedCaptureStep, ChildTerminatedStep, MainStep,
     CompleteStep, WaitStep DEF Main
<1>2. CASE BackgroundRecv \/ BackgroundFinalizes \/ BackgroundPanics
  BY <1>2, BackgroundRecvStep, BackgroundFinalizesStep, BackgroundPanicsStep
<1>3. CASE FatalRecv \/ FatalFinalizes \/ FatalPanics
  BY <1>3, FatalStep
<1>4. CASE UNCHANGED finalizationVars
  <2>1. UNCHANGED <<main, ended, termination, events, fate, reports, queue, sender, background, current,
                    ticket, fatal, held, reason, expired>>
    BY <1>4, Zenon DEF finalizationVars, mainVars, eventVars, backgroundVars, ticketVars
  <2>2. FinalizationTypeOK'
    BY Zenon, <2>1, TypesFrame DEF FinalizationInv
  <2>3. EventInv' /\ QueueInv'
    BY Zenon, <2>1, QuietQueue DEF eventVars
  <2>4. TicketInv'
    BY <2>1, Zenon DEF FinalizationInv, TicketInv, Owned
  <2>5. MainInv'
    BY <2>1, Zenon DEF FinalizationInv, MainInv, Owned
  <2>6. WaitInv'
    BY <2>1, Zenon DEF FinalizationInv, WaitInv, Owned
  <2> QED
    BY <2>2, <2>3, <2>4, <2>5, <2>6, Zenon DEF FinalizationInv
<1> QED
  BY <1>1, <1>2, <1>3, <1>4 DEF FinalizationNext

(***************************************************************************)
(* The invariant of the finalizers: for any number of events and any queue *)
(* capacity, an accepted event is in one pair of hands until it is         *)
(* decided, whichever threads panic and whichever waits expire.            *)
(***************************************************************************)
THEOREM FinalizationInvariant == FinalizationSpec => []FinalizationInv
<1> QED
  BY FinalizationStarts, FinalizationSteps, PTL DEF FinalizationSpec

(***************************************************************************)
(* An accepted event is finalized once; at the exit a held event is        *)
(* decided and, where the queue is drained, no accepted event is left,     *)
(* unless a bounded wait expired (CrashFinalization::complete,             *)
(* BackgroundFinalizeWorker::shutdown).                                    *)
(***************************************************************************)
THEOREM EventsFinalizedOnce == FinalizationSpec => []FinalizedOnce
<1>1. FinalizationInv => FinalizedOnce
  <2> SUFFICES ASSUME FinalizationInv PROVE FinalizedOnce
    OBVIOUS
  <2> USE DEF FinalizationInv
  <2>1. \A e \in Events : reports[e] <= 1
    BY DEF EventInv
  <2>2. main = "exit" /\ held # NoEvent => fate[held] \in {"published", "suppressed", "lost"} \/ expired = "yes"
    BY DEF WaitInv, Decided
  <2>3. ASSUME main = "exit", ended \in {"terminated", "other"}, expired = "no",
               NEW e \in Events
        PROVE  fate[e] # "queued"
    <3>1. background \in Ended
      BY <2>3 DEF WaitInv
    <3>2. queue = <<>> /\ current = NoEvent
      BY <3>1 DEF QueueInv, Ended
    <3>3. ~ \E i \in 1 .. Len(queue) : queue[i] = e
      BY <3>2
    <3> QED
      BY <3>2, <3>3, EventsAreNumbered DEF QueueInv
  <2> QED
    BY <2>1, <2>2, <2>3, Zenon DEF FinalizedOnce
<1> QED
  BY <1>1, FinalizationInvariant, PTL

(***************************************************************************)
(* The report of a crash is not begun before the child was reaped, and is  *)
(* given what reaping returned (CrashFinalization::start, complete).       *)
(***************************************************************************)
THEOREM CrashReportsHaveStatus == FinalizationSpec => []CrashReportHasStatus
<1>1. FinalizationInv => CrashReportHasStatus
  <2> SUFFICES ASSUME FinalizationInv, ended = "crash",
                      fatal \in {"busy", "done"} \/ (held # NoEvent /\ reports[held] > 0)
               PROVE  termination # "none" /\ reason = termination
    BY DEF CrashReportHasStatus
  <2> USE DEF FinalizationInv
  <2>1. held # NoEvent /\ held \in Events
    BY Zenon DEF TicketInv, FinalizationTypeOK
  <2>2. CASE fatal \in {"busy", "done"}
    BY <2>1, <2>2, Zenon DEF TicketInv, MainInv, Owned
  <2>3. CASE reports[held] > 0
    <3>1. fate[held] = "published"
      BY <2>1, <2>3 DEF EventInv
    <3> QED
      BY <3>1, <2>1, Zenon DEF TicketInv, MainInv, Owned
  <2> QED
    BY <2>2, <2>3
<1> QED
  BY <1>1, FinalizationInvariant, PTL

=============================================================================
