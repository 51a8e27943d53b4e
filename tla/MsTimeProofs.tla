---------------------------- MODULE MsTimeProofs ----------------------------
(***************************************************************************)
(* The timers are right for every width of the clock word, every set of    *)
(* timers and all delays and oversleeps within the bounds of MsTime's      *)
(* assumptions: a timer is neither lost at the wrap-around nor early, the  *)
(* loop does not sleep past the ones it polls, and those that it adjusts   *)
(* when the clock has been set are in time afterwards.                     *)
(***************************************************************************)
EXTENDS MsTime, FiniteSetTheorems, WellFoundedInduction, TLAPS

-----------------------------------------------------------------------------
(* The clock's circle *)

LEMMA HalfTyped ==
  /\ Half \in Nat /\ Half > 2 /\ Modulus = 2 * Half /\ Modulus \in Nat
  /\ Late \in Nat /\ Busy \in Nat /\ Late <= Tolerance /\ Busy <= Tolerance
  /\ Slack \in Nat /\ Slack >= Late /\ Slack >= Busy
  /\ Tolerance \in Nat /\ Period \in Nat /\ Period + Late + Slack + 2 < Half
  /\ \A ms \in Delay : ms \in Nat /\ ms + Late + Slack + 2 < Half
<1>1. Half \in Int /\ Modulus \in Nat /\ Modulus = 2 * Half
  BY ModulusAssumption DEF Half
<1> HIDE DEF Half
<1>2. /\ Period \in Nat /\ Period + Late + Slack + 2 < Half
      /\ \A ms \in Delay : ms \in Nat /\ ms + Late + Slack + 2 < Half
  BY DelayAssumption
<1>3. Slack \in Nat /\ Slack >= Late /\ Slack >= Busy
  BY DelayAssumption DEF Slack, Larger
<1> QED BY <1>1, <1>2, <1>3, DelayAssumption

LEMMA WrapTyped == ASSUME NEW n \in Int PROVE Wrap(n) \in Word
  BY ModulusAssumption DEF Wrap, Word

LEMMA WrapCases ==
  ASSUME NEW n \in -Modulus..2 * Modulus - 1
  PROVE  Wrap(n) = IF n < 0 THEN n + Modulus
                   ELSE IF n < Modulus THEN n ELSE n - Modulus
  BY ModulusAssumption, SMT DEF Wrap

LEMMA WrapSum ==
  ASSUME NEW w \in Word, NEW d \in 0..Modulus - 1
  PROVE  Wrap(w + d) \in Word /\ Wrap(w + d) \in {w + d, w + d - Modulus}
<1>1. w \in Int /\ d \in Int /\ w + d \in 0..2 * Modulus - 1
  BY HalfTyped DEF Word
<1>2. w + d \in -Modulus..2 * Modulus - 1
  BY <1>1, HalfTyped
<1>3. Wrap(w + d) = IF w + d < 0 THEN w + d + Modulus
                    ELSE IF w + d < Modulus THEN w + d ELSE w + d - Modulus
  BY <1>1, <1>2, WrapCases, HalfTyped
<1>4. Wrap(w + d) \in Word
  BY <1>1, WrapTyped
<1> QED BY <1>1, <1>3, <1>4, HalfTyped

\* How far a word is ahead of another, from half a circle behind to half ahead.
Ahead(w, now) == Signed(Wrap(w - now))

LEMMA AheadCases ==
  ASSUME NEW w \in Word, NEW now \in Word
  PROVE  /\ Ahead(w, now) \in -Half..Half - 1
         /\ Ahead(w, now) \in {w - now, w - now + Modulus, w - now - Modulus}
<1>1. w - now \in -Modulus..2 * Modulus - 1 /\ w \in Int /\ now \in Int
  BY HalfTyped DEF Word
<1>2. Wrap(w - now) = IF w - now < 0 THEN w - now + Modulus
                      ELSE IF w - now < Modulus THEN w - now ELSE w - now - Modulus
  BY <1>1, WrapCases
<1>3. Wrap(w - now) \in Word
  BY <1>1, WrapTyped
<1> QED BY <1>1, <1>2, <1>3, HalfTyped DEF Ahead, Signed, Word

\* Time passes by d: what was ahead comes nearer by as much.
LEMMA ClockAdvances ==
  ASSUME NEW w \in Word, NEW now \in Word, NEW d \in 0..Half - 1,
         Ahead(w, now) - d >= -Half
  PROVE  Ahead(w, Wrap(now + d)) = Ahead(w, now) - d
<1>1. d \in 0..Modulus - 1
  BY HalfTyped
<1>2. Wrap(now + d) \in Word /\ Wrap(now + d) \in {now + d, now + d - Modulus}
  BY <1>1, WrapSum
<1> DEFINE later == Wrap(now + d)
<1> HIDE DEF later
<1>3. /\ Ahead(w, later) \in -Half..Half - 1
      /\ Ahead(w, later) \in {w - later, w - later + Modulus, w - later - Modulus}
  BY <1>2, AheadCases DEF later
<1>4. /\ Ahead(w, now) \in -Half..Half - 1
      /\ Ahead(w, now) \in {w - now, w - now + Modulus, w - now - Modulus}
  BY AheadCases
<1>5. Ahead(w, later) = Ahead(w, now) - d
  BY <1>1, <1>2, <1>3, <1>4, HalfTyped DEF later, Word
<1> QED BY <1>5 DEF later

\* A clock that is not set is not taken for one that was.
LEMMA DeltaIsElapsed ==
  ASSUME g_mstime \in Word, NEW d \in 0..Half - 1
  PROVE  Delta(Wrap(g_mstime + d)) = d
<1>1. d \in 0..Modulus - 1
  BY HalfTyped
<1>2. Wrap(g_mstime + d) \in Word /\ Wrap(g_mstime + d) \in {g_mstime + d, g_mstime + d - Modulus}
  BY <1>1, WrapSum
<1> DEFINE later == Wrap(g_mstime + d)
<1> HIDE DEF later
<1>3. /\ Ahead(later, g_mstime) \in -Half..Half - 1
      /\ Ahead(later, g_mstime) \in
           {later - g_mstime, later - g_mstime + Modulus, later - g_mstime - Modulus}
  BY <1>2, AheadCases DEF later
<1>4. Ahead(later, g_mstime) = d
  BY <1>2, <1>3, HalfTyped DEF later, Word
<1> QED BY <1>4 DEF later, Delta, Ahead

\* A timer armed for ms milliseconds, which is moved from 0 to 1.
LEMMA ArmedAhead ==
  ASSUME NEW now \in Word, NEW ms \in Nat, ms + 2 < Half
  PROVE  /\ Armed(now, ms) \in Word \ {0}
         /\ Ahead(Armed(now, ms), now) - ms \in {0, 1}
<1>1. ms \in 0..Modulus - 1
  BY HalfTyped
<1>2. Wrap(now + ms) \in Word /\ Wrap(now + ms) \in {now + ms, now + ms - Modulus}
  BY <1>1, WrapSum
<1> DEFINE t == Armed(now, ms)
<1>3. t \in Word \ {0} /\ t - Wrap(now + ms) \in {0, 1}
  BY <1>2, HalfTyped DEF Armed, Word
<1> HIDE DEF t
<1>4. /\ Ahead(t, now) \in -Half..Half - 1
      /\ Ahead(t, now) \in {t - now, t - now + Modulus, t - now - Modulus}
  BY <1>3, AheadCases
<1>5. Ahead(t, now) - ms \in {0, 1}
  BY <1>2, <1>3, <1>4, HalfTyped DEF Word
<1> QED BY <1>3, <1>5 DEF t

LEMMA LeftIsAhead ==
  ASSUME NEW now, NEW t, t # 0
  PROVE  Left(now, t) = Larger(Ahead(t, now), 0)
  BY DEF Left, Ahead

-----------------------------------------------------------------------------
(* The sleep *)

\* Of the prefixes of S, which are finite, one contains no other.
LEMMA LeastExists ==
  ASSUME NEW S \in SUBSET Nat, S # {}
  PROVE  \E m \in S : \A n \in S : m <= n
<1> DEFINE Below(m) == S \cap (0..m)
           T == {Below(m) : m \in S}
<1>1. T \subseteq FiniteSubsetsOf(S) /\ T # {}
  <2>1. \A m \in S : IsFiniteSet(0..m)
    BY FS_Interval
  <2>2. \A m \in S : IsFiniteSet(Below(m))
    BY <2>1, FS_Intersection
  <2> QED BY <2>2 DEF FiniteSubsetsOf
<1>2. IsWellFoundedOn(StrictSubsetOrdering(S), FiniteSubsetsOf(S))
  BY FS_StrictSubsetOrderingWellFounded
<1> HIDE DEF T
<1>3. \E X \in T : \A Y \in T : <<Y, X>> \notin StrictSubsetOrdering(S)
  BY <1>1, <1>2, WFMin
<1> USE DEF T
<1>4. PICK m \in S : \A n \in S : <<Below(n), Below(m)>> \notin StrictSubsetOrdering(S)
  BY <1>3
<1>5. ASSUME NEW n \in S, n < m PROVE FALSE
  <2>1. Below(n) \subseteq Below(m) /\ m \in Below(m) /\ m \notin Below(n)
    BY <1>5
  <2> QED BY <1>4, <1>5, <2>1 DEF StrictSubsetOrdering
<1> QED BY <1>5

\* poll() is given the least of what the polled timers have left, or a period.
LEMMA SleepIsLeast ==
  ASSUME NEW now \in Word, NEW timers \in [Timer -> Word]
  PROVE  /\ Sleep(now, timers) \in 0..Half - 1
         /\ \A t \in Polled : timers[t] # 0 => Sleep(now, timers) <= Left(now, timers[t])
         /\ \/ Sleep(now, timers) = Period
            \/ \E t \in Polled : timers[t] # 0 /\ Sleep(now, timers) = Left(now, timers[t])
<1> DEFINE D == Deadlines(now, timers)
<1>1. ASSUME NEW t \in Polled
      PROVE  /\ timers[t] # 0 => Left(now, timers[t]) \in 0..Half - 1
             /\ timers[t] = 0 => Left(now, timers[t]) = -1
  <2>1. timers[t] \in Word
    BY TimerAssumption
  <2>2. timers[t] # 0 => Left(now, timers[t]) = Larger(Ahead(timers[t], now), 0)
    BY LeftIsAhead
  <2>3. Ahead(timers[t], now) \in -Half..Half - 1
    BY <2>1, AheadCases
  <2> QED BY <2>2, <2>3, HalfTyped DEF Larger, Left
<1>2. /\ \A d \in D : \E t \in Polled : timers[t] # 0 /\ d = Left(now, timers[t])
      /\ \A t \in Polled : timers[t] # 0 => Left(now, timers[t]) \in D
      /\ D \subseteq 0..Half - 1
  BY <1>1, HalfTyped DEF Deadlines
<1>3. CASE D = {}
  BY <1>2, <1>3, HalfTyped DEF Sleep
<1>4. CASE D # {}
  <2>1. \E d \in D : \A e \in D : d <= e
    BY <1>2, <1>4, LeastExists
  <2>2. Sleep(now, timers) = CHOOSE d \in D : \A e \in D : d <= e
    BY <1>4 DEF Sleep
  <2> HIDE DEF D
  <2>3. Sleep(now, timers) \in D /\ \A e \in D : Sleep(now, timers) <= e
    BY <2>1, <2>2
  <2> QED BY <1>2, <2>3
<1> QED BY <1>3, <1>4

-----------------------------------------------------------------------------
(* Types *)

LEMMA PassedTyped ==
  ASSUME NEW w \in (-Half..Half - 1) \cup {Off}, NEW d \in Nat
  PROVE  Passed(w, d) \in (-Half..Half - 1) \cup {Off}
  BY HalfTyped, JumpAssumption DEF Passed, Larger

LEMMA SafeUpdateTyped ==
  ASSUME TypeOK, NEW d \in Nat, NEW j \in Jump \cup {0}, NEW slept \in Int,
         SafeUpdate(d, j, slept)
  PROVE  /\ g_mstime' \in Word /\ ost' \in [Timer -> Word]
         /\ wait' \in [Timer -> (-Half..Half - 1) \cup {Off}]
         /\ clock_set' \in {"no", "noticed", "unnoticed"}
<1> DEFINE now == Wrap(g_mstime + d + j)
           changed == ClockChanged(now, slept)
<1>1. j \in Int /\ g_mstime \in Int
  BY JumpAssumption, HalfTyped DEF TypeOK, Word
<1>2. now \in Word
  BY <1>1, WrapTyped
<1>3. g_mstime' = now
  BY DEF SafeUpdate
<1>4. ost' = [t \in Timer |-> IF changed /\ t \in Adjusted /\ ost[t] # 0
                              THEN Adjust(ost[t], now, slept) ELSE ost[t]]
  BY DEF SafeUpdate
<1>5. wait' = [t \in Timer |-> Passed(wait[t], d)]
  BY DEF SafeUpdate
<1>6. clock_set' \in {"no", "noticed", "unnoticed"}
  BY DEF SafeUpdate, TypeOK
<1> HIDE DEF now, changed
<1>7. ASSUME NEW t \in Timer PROVE Adjust(ost[t], now, slept) \in Word
  <2>1. Ahead(now, g_mstime) \in Int
    BY <1>2, AheadCases, HalfTyped DEF TypeOK
  <2>2. Delta(now) \in Int
    BY <2>1 DEF Delta, Ahead
  <2>3. ost[t] \in Int
    BY HalfTyped DEF TypeOK, Word
  <2>4. ost[t] + Delta(now) - slept \in Int
    BY <2>2, <2>3
  <2> QED BY <2>4, WrapTyped DEF Adjust
<1>8. ost' \in [Timer -> Word]
  BY <1>4, <1>7 DEF TypeOK
<1>9. wait' \in [Timer -> (-Half..Half - 1) \cup {Off}]
  BY <1>5, PassedTyped DEF TypeOK
<1> QED BY <1>2, <1>3, <1>6, <1>8, <1>9

LEMMA InitTyped == Init => TypeOK
<1> SUFFICES ASSUME Init PROVE TypeOK
  OBVIOUS
<1>1. g_mstime \in Word /\ 0 \in Word
  BY HalfTyped DEF Init, Word
<1>2. Armed(g_mstime, Period) \in Word
  BY <1>1, ArmedAhead, HalfTyped
<1>3. ost \in [Timer -> Word]
  BY <1>1, <1>2 DEF Init
<1>4. wait \in [Timer -> (-Half..Half - 1) \cup {Off}]
  BY HalfTyped DEF Init
<1> QED BY <1>1, <1>3, <1>4, HalfTyped DEF Init, TypeOK

LEMMA StepTyped == TypeOK /\ [Next]_vars => TypeOK'
<1> SUFFICES ASSUME TypeOK, [Next]_vars PROVE TypeOK'
  OBVIOUS
<1>1. CASE Top
  <2>1. PICK d \in 0..Busy, j \in Jump \cup {0} : SafeUpdate(d, j, 0)
    BY <1>1 DEF Top
  <2>2. /\ g_mstime' \in Word /\ ost' \in [Timer -> Word]
        /\ wait' \in [Timer -> (-Half..Half - 1) \cup {Off}]
        /\ clock_set' \in {"no", "noticed", "unnoticed"}
    BY <2>1, SafeUpdateTyped, HalfTyped
  <2>3. to' \in 0..Half - 1
    BY <1>1, <2>2, SleepIsLeast DEF Top
  <2> QED BY <1>1, <2>2, <2>3 DEF Top, TypeOK
<1>2. CASE Poll
  <2>1. PICK d \in 0..to + Late, j \in Jump \cup {0} : SafeUpdate(d, j, to)
    BY <1>2 DEF Poll
  <2>2. d \in Nat /\ to \in Int
    BY HalfTyped DEF TypeOK
  <2>3. /\ g_mstime' \in Word /\ ost' \in [Timer -> Word]
        /\ wait' \in [Timer -> (-Half..Half - 1) \cup {Off}]
        /\ clock_set' \in {"no", "noticed", "unnoticed"}
    BY <2>1, <2>2, SafeUpdateTyped
  <2> QED BY <1>2, <2>3 DEF Poll, TypeOK
<1>3. ASSUME NEW t \in Timer, NEW ms \in Delay, Arm(t, ms) PROVE TypeOK'
  <2>1. Armed(g_mstime, ms) \in Word /\ ms \in -Half..Half - 1
    BY ArmedAhead, HalfTyped DEF TypeOK
  <2> QED BY <1>3, <2>1 DEF Arm, TypeOK
<1>4. ASSUME NEW t \in Timer, Disable(t) PROVE TypeOK'
  <2>1. 0 \in Word
    BY HalfTyped DEF Word
  <2> QED BY <1>4, <2>1 DEF Disable, TypeOK
<1>5. ASSUME NEW t \in Timer, Test(t) PROVE TypeOK'
  <2>1. Armed(g_mstime, Period) \in Word /\ 0 \in Word /\ Period \in -Half..Half - 1
    BY ArmedAhead, HalfTyped DEF TypeOK, Word
  <2>2. ost' \in [Timer -> Word] /\ wait' \in [Timer -> (-Half..Half - 1) \cup {Off}]
    BY <1>5, <2>1 DEF Test, TypeOK
  <2> QED BY <1>5, <2>2 DEF Test, TypeOK
<1>6. CASE Again \/ UNCHANGED vars
  BY <1>6 DEF Again, vars, TypeOK
<1> QED BY <1>1, <1>2, <1>3, <1>4, <1>5, <1>6 DEF Next

\* For every width of the clock every variable keeps its range, whatever is armed
\* and however the clock is set.
THEOREM TypeCorrect == Spec => []TypeOK
  BY InitTyped, StepTyped, PTL DEF Spec

-----------------------------------------------------------------------------
(* Timers while the clock is not set                                       *)
(*                                                                         *)
(* OnTime speaks of the difference of what is left and what remains to be  *)
(* waited for, cut off at 0; the invariant says that of the difference     *)
(* itself, which a step of the clock keeps.  How late a polled timer can   *)
(* be depends on the part of the iteration: tested timers are in time, and *)
(* none is later than poll's oversleep and an iteration's work.            *)

Exact(t) ==
  ost[t] # 0 /\ wait[t] > -Half => Ahead(ost[t], g_mstime) - wait[t] \in {0, 1}
Punctual(t) ==
  /\ pc = "top" => wait[t] >= 0
  /\ pc = "poll" => wait[t] >= -Busy /\ to <= Left(g_mstime, ost[t])
  /\ pc = "serve" => /\ wait[t] >= -(Late + Busy + 1)
                     /\ t \in tested => wait[t] >= 0

WaitIsBounded == \A t \in Timer : wait[t] # Off => wait[t] + Late + Slack + 2 < Half
TimersAreExact == \A t \in Timer : (ost[t] = 0 <=> wait[t] = Off) /\ Exact(t)
PolledArePunctual == \A t \in Polled : ost[t] # 0 => Punctual(t)
TimeInv ==
  /\ WaitIsBounded
  /\ clock_set = "no" =>
       /\ TimersAreExact /\ PolledArePunctual
       /\ pc = "poll" => to + Late + Busy + 1 < Half

LEMMA WaitTyped ==
  ASSUME TypeOK, NEW t \in Timer, wait[t] # Off
  PROVE  wait[t] \in Int /\ wait[t] \in -Half..Half - 1
  BY HalfTyped DEF TypeOK

\* A refresh of the clock that was not set.
LEMMA QuietUpdate ==
  ASSUME TypeOK, NEW d \in 0..Half - 1, NEW j \in Jump \cup {0},
         NEW slept \in Nat, d <= slept + Tolerance,
         SafeUpdate(d, j, slept), clock_set' = "no"
  PROVE  /\ clock_set = "no" /\ ost' = ost
         /\ g_mstime' = Wrap(g_mstime + d)
         /\ wait' = [t \in Timer |-> Passed(wait[t], d)]
<1>1. j = 0 /\ clock_set = "no"
  BY DEF SafeUpdate
<1>2. g_mstime \in Int /\ d \in Int /\ g_mstime + d + 0 = g_mstime + d
  BY HalfTyped DEF TypeOK, Word
<1>3. Delta(Wrap(g_mstime + d)) = d
  BY DeltaIsElapsed DEF TypeOK
<1>4. ~ClockChanged(Wrap(g_mstime + d), slept)
  BY <1>3, HalfTyped DEF ClockChanged
<1>5. /\ g_mstime' = Wrap(g_mstime + d + j)
      /\ ost' = [t \in Timer |->
                   IF /\ ClockChanged(Wrap(g_mstime + d + j), slept)
                      /\ t \in Adjusted /\ ost[t] # 0
                   THEN Adjust(ost[t], Wrap(g_mstime + d + j), slept) ELSE ost[t]]
      /\ wait' = [t \in Timer |-> Passed(wait[t], d)]
  BY DEF SafeUpdate
<1>6. ost' = [t \in Timer |-> ost[t]]
  BY <1>1, <1>2, <1>4, <1>5
<1>7. ost' = ost
  BY <1>6 DEF TypeOK
<1> QED BY <1>1, <1>2, <1>5, <1>7

\* A timer after d milliseconds.
LEMMA Elapses ==
  ASSUME TypeOK, NEW t \in Timer, NEW d \in 0..Half - 1, Exact(t),
         ost[t] = 0 <=> wait[t] = Off, ost' = ost,
         g_mstime' = Wrap(g_mstime + d), wait'[t] = Passed(wait[t], d)
  PROVE  /\ (ost[t] = 0 <=> wait[t] = Off)' /\ Exact(t)'
         /\ wait[t] # Off => /\ wait'[t] \in Int /\ wait'[t] <= wait[t]
                             /\ wait'[t] >= wait[t] - d
<1>1. CASE wait[t] = Off
  BY <1>1 DEF Passed, Exact
<1>2. CASE wait[t] # Off
  <2>1. wait[t] \in Int /\ wait[t] \in -Half..Half - 1
    BY <1>2, WaitTyped
  <2>2. wait'[t] = Larger(wait[t] - d, -Half)
    BY <1>2 DEF Passed
  <2>3. wait'[t] \in Int /\ wait'[t] <= wait[t] /\ wait'[t] >= wait[t] - d
    BY <2>1, <2>2, HalfTyped DEF Larger
  <2>4. wait'[t] # Off
    BY <2>3, JumpAssumption
  <2>5. ASSUME ost[t] # 0, wait'[t] > -Half
        PROVE  Ahead(ost[t], g_mstime') - wait'[t] \in {0, 1}
    <3>1. wait'[t] = wait[t] - d /\ wait[t] > -Half
      BY <2>1, <2>2, <2>5, HalfTyped DEF Larger
    <3>2. Ahead(ost[t], g_mstime) - wait[t] \in {0, 1}
      BY <2>5, <3>1 DEF Exact
    <3>3. ost[t] \in Word /\ g_mstime \in Word
      BY DEF TypeOK
    <3>4. Ahead(ost[t], g_mstime) \in -Half..Half - 1
      BY <3>3, AheadCases
    <3>5. Ahead(ost[t], g_mstime) - d >= -Half
      BY <2>1, <2>5, <3>1, <3>2, <3>4, HalfTyped
    <3>6. Ahead(ost[t], g_mstime') = Ahead(ost[t], g_mstime) - d
      BY <3>3, <3>5, ClockAdvances
    <3> QED BY <2>1, <3>1, <3>2, <3>4, <3>6, HalfTyped
  <2> QED BY <1>2, <2>3, <2>4, <2>5 DEF Exact
<1> QED BY <1>1, <1>2

\* What an exact timer has left.
LEMMA ExactLeft ==
  ASSUME NEW o \in Word, NEW now \in Word, NEW w \in Int, o # 0,
         Ahead(o, now) - w \in {0, 1}
  PROVE  Left(now, o) \in Nat /\ Left(now, o) - Larger(w, 0) \in {0, 1}
<1>1. Ahead(o, now) \in -Half..Half - 1
  BY AheadCases
<1>2. Left(now, o) = Larger(Ahead(o, now), 0)
  BY LeftIsAhead
<1> QED BY <1>1, <1>2, HalfTyped DEF Larger

LEMMA WaitStaysBounded ==
  ASSUME TypeOK, WaitIsBounded, NEW d \in Nat,
         wait' = [t \in Timer |-> Passed(wait[t], d)]
  PROVE  WaitIsBounded'
<1> SUFFICES ASSUME NEW t \in Timer, wait'[t] # Off
             PROVE  wait'[t] + Late + Slack + 2 < Half
  BY DEF WaitIsBounded
<1>1. wait[t] # Off /\ wait'[t] = Larger(wait[t] - d, -Half)
  BY DEF Passed
<1>2. wait[t] \in Int /\ wait[t] + Late + Slack + 2 < Half
  BY <1>1, WaitTyped DEF WaitIsBounded
<1> QED BY <1>1, <1>2, HalfTyped DEF Larger

LEMMA TopTimes == TypeOK /\ TimeInv /\ Top => TimeInv'
<1> SUFFICES ASSUME TypeOK, TimeInv, Top PROVE TimeInv'
  OBVIOUS
<1>1. PICK d \in 0..Busy, j \in Jump \cup {0} : SafeUpdate(d, j, 0)
  BY DEF Top
<1>2. d \in Nat /\ d \in 0..Half - 1 /\ d <= 0 + Tolerance
  BY HalfTyped
<1>3. WaitIsBounded'
  <2>1. wait' = [t \in Timer |-> Passed(wait[t], d)]
    BY <1>1 DEF SafeUpdate
  <2> QED BY <1>2, <2>1, WaitStaysBounded DEF TimeInv
<1>4. ASSUME clock_set' = "no"
      PROVE  TimersAreExact' /\ PolledArePunctual' /\ to' + Late + Busy + 1 < Half
  <2>1. /\ clock_set = "no" /\ ost' = ost
        /\ g_mstime' = Wrap(g_mstime + d)
        /\ wait' = [t \in Timer |-> Passed(wait[t], d)]
    BY <1>1, <1>2, <1>4, QuietUpdate
  <2>2. TimersAreExact /\ PolledArePunctual
    BY <2>1 DEF TimeInv
  <2>3. ASSUME NEW t \in Timer
        PROVE  /\ (ost[t] = 0 <=> wait[t] = Off)' /\ Exact(t)'
               /\ wait[t] # Off => /\ wait'[t] \in Int /\ wait'[t] <= wait[t]
                                   /\ wait'[t] >= wait[t] - d
    BY <1>2, <2>1, <2>2, Elapses DEF TimersAreExact
  <2>4. TypeOK'
    BY StepTyped DEF Next
  <2>5. /\ to' \in 0..Half - 1
        /\ \A t \in Polled : ost'[t] # 0 => to' <= Left(g_mstime', ost'[t])
        /\ \/ to' = Period
           \/ \E t \in Polled : ost'[t] # 0 /\ to' = Left(g_mstime', ost'[t])
    BY <2>4, SleepIsLeast DEF Top, TypeOK
  <2>6. ASSUME NEW t \in Polled, ost'[t] # 0
        PROVE  /\ t \in Timer /\ wait'[t] \in Int /\ wait'[t] # Off
               /\ wait'[t] >= -Busy /\ wait'[t] > -Half
    <3>1. t \in Timer /\ wait[t] # Off
      BY <2>1, <2>2, <2>6, TimerAssumption DEF TimersAreExact
    <3>2. wait[t] \in Int /\ wait[t] >= 0
      BY <2>1, <2>2, <2>6, <3>1, WaitTyped DEF PolledArePunctual, Punctual, Top
    <3> QED BY <1>2, <2>3, <3>1, <3>2, HalfTyped, JumpAssumption
  <2>7. PolledArePunctual'
    BY <2>5, <2>6 DEF PolledArePunctual, Punctual, Top
  <2>8. to' + Late + Busy + 1 < Half
    <3>1. CASE to' = Period
      BY <3>1, HalfTyped
    <3>2. ASSUME NEW t \in Polled, ost'[t] # 0, to' = Left(g_mstime', ost'[t])
          PROVE  to' + Late + Busy + 1 < Half
      <4>1. t \in Timer /\ wait'[t] \in Int /\ wait'[t] # Off /\ wait'[t] > -Half
        BY <2>6, <3>2
      <4>2. ost'[t] \in Word /\ g_mstime' \in Word
        BY <2>4, <4>1 DEF TypeOK
      <4>3. Ahead(ost'[t], g_mstime') - wait'[t] \in {0, 1}
        BY <2>3, <3>2, <4>1 DEF Exact
      <4>4. to' \in Nat /\ to' - Larger(wait'[t], 0) \in {0, 1}
        BY <3>2, <4>1, <4>2, <4>3, ExactLeft
      <4>5. wait'[t] + Late + Slack + 2 < Half
        BY <1>3, <4>1 DEF WaitIsBounded
      <4>6. to' = Larger(wait'[t], 0) \/ to' = Larger(wait'[t], 0) + 1
        BY <4>1, <4>4 DEF Larger
      <4>7. Larger(wait'[t], 0) + Late + Slack + 2 < Half
        BY <4>1, <4>5, HalfTyped DEF Larger
      <4> QED BY <4>1, <4>6, <4>7, HalfTyped DEF Larger
    <3> QED BY <2>5, <3>1, <3>2
  <2>9. TimersAreExact'
    BY <2>3 DEF TimersAreExact
  <2> QED BY <2>7, <2>8, <2>9
<1> QED BY <1>3, <1>4 DEF TimeInv

LEMMA PollTimes == TypeOK /\ TimeInv /\ Poll => TimeInv'
<1> SUFFICES ASSUME TypeOK, TimeInv, Poll PROVE TimeInv'
  OBVIOUS
<1>1. PICK d \in 0..to + Late, j \in Jump \cup {0} : SafeUpdate(d, j, to)
  BY DEF Poll
<1>2. d \in Nat /\ to \in Nat /\ d <= to + Late
  BY HalfTyped DEF TypeOK
<1>3. WaitIsBounded'
  <2>1. wait' = [t \in Timer |-> Passed(wait[t], d)]
    BY <1>1 DEF SafeUpdate
  <2> QED BY <1>2, <2>1, WaitStaysBounded DEF TimeInv
<1>4. ASSUME clock_set' = "no"
      PROVE  TimersAreExact' /\ PolledArePunctual'
  <2>1. clock_set = "no"
    BY <1>1, <1>4 DEF SafeUpdate
  <2>2. /\ TimersAreExact /\ PolledArePunctual /\ to + Late + Busy + 1 < Half
        /\ pc = "poll"
    BY <2>1 DEF TimeInv, Poll
  <2>3. d \in 0..Half - 1 /\ d <= to + Tolerance
    BY <1>2, <2>2, HalfTyped
  <2>4. /\ ost' = ost /\ g_mstime' = Wrap(g_mstime + d)
        /\ wait' = [t \in Timer |-> Passed(wait[t], d)]
    BY <1>1, <1>2, <1>4, <2>3, QuietUpdate
  <2>5. ASSUME NEW t \in Timer
        PROVE  /\ (ost[t] = 0 <=> wait[t] = Off)' /\ Exact(t)'
               /\ wait[t] # Off => /\ wait'[t] \in Int /\ wait'[t] <= wait[t]
                                   /\ wait'[t] >= wait[t] - d
    BY <2>2, <2>3, <2>4, Elapses DEF TimersAreExact
  <2>6. ASSUME NEW t \in Polled, ost'[t] # 0
        PROVE  wait'[t] >= -(Late + Busy + 1)
    <3>1. t \in Timer /\ ost[t] # 0 /\ wait[t] # Off
      BY <2>2, <2>4, <2>6, TimerAssumption DEF TimersAreExact
    <3>2. wait[t] \in Int /\ wait[t] >= -Busy /\ to <= Left(g_mstime, ost[t])
      BY <2>2, <3>1, WaitTyped DEF PolledArePunctual, Punctual
    <3>3. Ahead(ost[t], g_mstime) - wait[t] \in {0, 1}
      BY <2>2, <3>1, <3>2, HalfTyped DEF TimersAreExact, Exact
    <3>4. /\ Left(g_mstime, ost[t]) \in Nat
          /\ Left(g_mstime, ost[t]) = Larger(Ahead(ost[t], g_mstime), 0)
      BY <3>1, <3>2, <3>3, ExactLeft, LeftIsAhead DEF TypeOK
    <3>5. Ahead(ost[t], g_mstime) \in -Half..Half - 1
      BY <3>1, AheadCases DEF TypeOK
    <3>6. wait'[t] \in Int /\ wait'[t] >= wait[t] - d
      BY <2>5, <3>1
    <3>7. CASE wait[t] >= 0
      <4>1. to <= wait[t] + 1
        <5>1. Ahead(ost[t], g_mstime) = wait[t] \/ Ahead(ost[t], g_mstime) = wait[t] + 1
          BY <3>2, <3>3, <3>5, HalfTyped
        <5>2. Left(g_mstime, ost[t]) = Ahead(ost[t], g_mstime)
          BY <3>2, <3>4, <3>7, <5>1 DEF Larger
        <5> QED BY <1>2, <3>2, <5>1, <5>2
      <4> QED BY <1>2, <3>2, <3>6, <4>1, HalfTyped
    <3>8. CASE wait[t] < 0
      <4>1. to = 0
        BY <1>2, <3>2, <3>3, <3>4, <3>5, <3>8, HalfTyped DEF Larger
      <4> QED BY <1>2, <3>2, <3>6, <4>1, HalfTyped
    <3> QED BY <3>2, <3>7, <3>8
  <2>7. PolledArePunctual'
    BY <2>6 DEF PolledArePunctual, Punctual, Poll
  <2>8. TimersAreExact'
    BY <2>5 DEF TimersAreExact
  <2> QED BY <2>7, <2>8
<1>5. pc' # "poll"
  BY DEF Poll
<1> QED BY <1>3, <1>4, <1>5 DEF TimeInv

\* A timer that is armed or disabled while the events are served.
LEMMA ServeTimes ==
  ASSUME TypeOK, TimeInv, pc = "serve", NEW t \in Timer,
         UNCHANGED <<g_mstime, to, pc, clock_set>>, tested' \subseteq tested \cup {t},
         NEW o, NEW w, ost' = [ost EXCEPT ![t] = o], wait' = [wait EXCEPT ![t] = w],
         \/ o = 0 /\ w = Off
         \/ /\ o \in Word \ {0} /\ w \in Nat /\ w + Late + Slack + 2 < Half
            /\ Ahead(o, g_mstime) - w \in {0, 1}
  PROVE  TimeInv'
<1>1. ost'[t] = o /\ wait'[t] = w
  BY DEF TypeOK
<1>2. \A u \in Timer \ {t} : ost'[u] = ost[u] /\ wait'[u] = wait[u]
  BY DEF TypeOK
<1>3. w = Off => o = 0
  BY JumpAssumption
<1>4. WaitIsBounded'
  BY <1>1, <1>2 DEF WaitIsBounded, TimeInv
<1>5. ASSUME clock_set = "no" PROVE TimersAreExact' /\ PolledArePunctual'
  <2>1. TimersAreExact /\ PolledArePunctual
    BY <1>5 DEF TimeInv
  <2>2. TimersAreExact'
    BY <1>1, <1>2, <1>3, <2>1 DEF TimersAreExact, Exact
  <2>3. ASSUME NEW u \in Polled, ost'[u] # 0 PROVE Punctual(u)'
    <3>1. CASE u = t
      BY <1>1, <2>3, <3>1, HalfTyped DEF Punctual
    <3>2. CASE u # t
      BY <1>2, <2>1, <2>3, <3>2, TimerAssumption DEF PolledArePunctual, Punctual
    <3> QED BY <3>1, <3>2
  <2> QED BY <2>2, <2>3 DEF PolledArePunctual
<1> QED BY <1>4, <1>5 DEF TimeInv

LEMMA StepTimes == TypeOK /\ TimeInv /\ [Next]_vars => TimeInv'
<1> SUFFICES ASSUME TypeOK, TimeInv, [Next]_vars PROVE TimeInv'
  OBVIOUS
<1>1. ASSUME NEW t \in Timer, NEW ms \in Delay, Arm(t, ms) PROVE TimeInv'
  <2>1. ms \in Nat /\ ms + 2 < Half /\ ms + Late + Slack + 2 < Half
    BY HalfTyped
  <2>2. /\ Armed(g_mstime, ms) \in Word \ {0}
        /\ Ahead(Armed(g_mstime, ms), g_mstime) - ms \in {0, 1}
    BY <2>1, ArmedAhead DEF TypeOK
  <2> QED BY <1>1, <2>1, <2>2, ServeTimes DEF Arm
<1>2. ASSUME NEW t \in Timer, Disable(t) PROVE TimeInv'
  BY <1>2, ServeTimes DEF Disable
<1>3. ASSUME NEW t \in Timer, Test(t) PROVE TimeInv'
  <2>1. CASE Left(g_mstime, ost[t]) = 0 /\ t \in Periodic
    <3>1. Period \in Nat /\ Period + 2 < Half /\ Period + Late + Slack + 2 < Half
      BY HalfTyped
    <3>2. /\ Armed(g_mstime, Period) \in Word \ {0}
          /\ Ahead(Armed(g_mstime, Period), g_mstime) - Period \in {0, 1}
      BY <3>1, ArmedAhead DEF TypeOK
    <3> QED BY <1>3, <2>1, <3>1, <3>2, ServeTimes DEF Test
  <2>2. CASE Left(g_mstime, ost[t]) = 0 /\ t \notin Periodic
    BY <1>3, <2>2, ServeTimes DEF Test
  <2>3. CASE Left(g_mstime, ost[t]) # 0
    <3>1. /\ UNCHANGED <<g_mstime, ost, wait, to, pc, clock_set>>
          /\ pc = "serve" /\ tested' = tested \cup {t}
      BY <1>3, <2>3 DEF Test
    <3>2. WaitIsBounded'
      BY <3>1 DEF TimeInv, WaitIsBounded
    <3>3. ASSUME clock_set = "no" PROVE TimersAreExact' /\ PolledArePunctual'
      <4>1. TimersAreExact /\ PolledArePunctual
        BY <3>3 DEF TimeInv
      <4>2. TimersAreExact'
        BY <3>1, <4>1 DEF TimersAreExact, Exact
      <4>3. ASSUME ost[t] # 0, t \in Polled PROVE wait[t] >= 0
        <5>1. wait[t] \in Int /\ wait[t] >= -(Late + Busy + 1)
          BY <3>1, <4>1, <4>3, WaitTyped DEF TimersAreExact, PolledArePunctual, Punctual
        <5>2. Ahead(ost[t], g_mstime) - wait[t] \in {0, 1}
          BY <4>1, <4>3, <5>1, HalfTyped DEF TimersAreExact, Exact
        <5>3. /\ Left(g_mstime, ost[t]) = Larger(Ahead(ost[t], g_mstime), 0)
              /\ Ahead(ost[t], g_mstime) \in -Half..Half - 1
          BY <4>3, LeftIsAhead, AheadCases DEF TypeOK
        <5>4. Ahead(ost[t], g_mstime) > 0
          BY <2>3, <5>3, HalfTyped DEF Larger
        <5> QED BY <5>1, <5>2, <5>3, <5>4, HalfTyped
      <4>4. ASSUME NEW u \in Polled, ost'[u] # 0 PROVE Punctual(u)'
        BY <3>1, <4>1, <4>3, <4>4 DEF PolledArePunctual, Punctual
      <4> QED BY <4>2, <4>4 DEF PolledArePunctual
    <3> QED BY <3>1, <3>2, <3>3 DEF TimeInv
  <2> QED BY <2>1, <2>2, <2>3
<1>4. CASE Again
  <2>1. \A t \in Polled : Punctual(t) => Punctual(t)'
    BY <1>4 DEF Again, Punctual
  <2> QED BY <1>4, <2>1 DEF Again, TimeInv, WaitIsBounded, TimersAreExact, Exact,
                            PolledArePunctual
<1>5. CASE UNCHANGED vars
  BY <1>5 DEF vars, TimeInv, WaitIsBounded, TimersAreExact, Exact, PolledArePunctual,
              Punctual
<1> QED BY <1>1, <1>2, <1>3, <1>4, <1>5, TopTimes, PollTimes DEF Next

LEMMA InitTimes == Init => TimeInv
<1> SUFFICES ASSUME Init PROVE TimeInv
  OBVIOUS
<1>1. /\ Armed(g_mstime, Period) \in Word \ {0}
      /\ Ahead(Armed(g_mstime, Period), g_mstime) - Period \in {0, 1}
  BY ArmedAhead, HalfTyped DEF Init
<1>2. Period # Off /\ Period \in Nat /\ Period >= 0
  BY HalfTyped, JumpAssumption
<1>3. \A t \in Timer :
        /\ t \in Periodic => ost[t] = Armed(g_mstime, Period) /\ wait[t] = Period
        /\ t \notin Periodic => ost[t] = 0 /\ wait[t] = Off
  BY DEF Init
<1>4. WaitIsBounded
  BY <1>3, HalfTyped DEF WaitIsBounded
<1>5. TimersAreExact
  BY <1>1, <1>2, <1>3 DEF TimersAreExact, Exact
<1>6. PolledArePunctual
  BY <1>2, <1>3, TimerAssumption DEF PolledArePunctual, Punctual, Init
<1> QED BY <1>4, <1>5, <1>6 DEF TimeInv, Init

LEMMA TimesAlways == Spec => [](TypeOK /\ TimeInv)
  BY InitTimes, StepTimes, TypeCorrect, PTL DEF Spec

\* For every width of the clock and every set of timers, a timer that was armed is
\* neither lost at the wrap-around nor early, and late by a millisecond at most.
THEOREM TimersOnTime == Spec => []OnTime
<1>1. TypeOK /\ TimeInv => OnTime
  <2> SUFFICES ASSUME TypeOK, TimeInv, clock_set = "no", NEW t \in Timer,
                      ost[t] # 0, wait[t] > -Half
               PROVE  Remaining(t) - Larger(wait[t], 0) \in {0, 1}
    BY DEF OnTime, TimeInv, TimersAreExact
  <2>1. wait[t] # Off /\ Ahead(ost[t], g_mstime) - wait[t] \in {0, 1}
    BY DEF TimeInv, TimersAreExact, Exact
  <2> QED BY <2>1, WaitTyped, ExactLeft DEF Remaining, TypeOK
<1> QED BY <1>1, TimesAlways, PTL

\* For every such instance, the loop does not sleep past a polled timer by more
\* than poll's oversleep and the work of an iteration.
THEOREM LoopWakesInTime == Spec => []NeverOversleeps
<1>1. TypeOK /\ TimeInv => NeverOversleeps
  <2> SUFFICES ASSUME TypeOK, TimeInv, clock_set = "no", pc # "top",
                      NEW t \in Polled, ost[t] # 0
               PROVE  wait[t] >= -(Late + Busy + 1)
    BY DEF NeverOversleeps
  <2>1. t \in Timer /\ wait[t] # Off /\ Punctual(t)
    BY TimerAssumption DEF TimeInv, TimersAreExact, PolledArePunctual
  <2>2. wait[t] \in Int
    BY <2>1, WaitTyped
  <2>3. pc = "poll" \/ pc = "serve"
    BY DEF TypeOK
  <2> QED BY <2>1, <2>2, <2>3, HalfTyped DEF Punctual
<1> QED BY <1>1, TimesAlways, PTL

-----------------------------------------------------------------------------
(* Adjusted timers after a change of the clock                             *)
(*                                                                         *)
(* The change moves a timer to where it was before the sleep, less what    *)
(* the sleep should have been: the difference of what is left and what     *)
(* remains to be waited for grows by the oversleep.  Until then it is 1 at *)
(* most.  The sleep was no longer than what the timer had left, so that no *)
(* later sleep is taken for a change of the clock.                         *)

LateBy == IF clock_set = "no" THEN 0 ELSE Slack
InTime(t) ==
  LET left == Ahead(ost[t], g_mstime)
  IN /\ wait[t] # Off /\ left <= wait[t] + 1 + LateBy
     /\ pc = "top" => left >= 0
     /\ pc = "poll" => left >= -Busy /\ to <= Left(g_mstime, ost[t])
     /\ pc = "serve" => left >= -(Late + Busy) /\ (t \in tested => left >= 0)
AdjustInv ==
  clock_set # "unnoticed" => \A t \in Adjusted : ost[t] # 0 => InTime(t)

\* mstime_adjust puts a timer as far ahead of the new clock as it was ahead of the
\* old one, less the sleep.
LEMMA AdjustAhead ==
  ASSUME g_mstime \in Word, NEW now \in Word, NEW w \in Word, NEW slept \in 0..Half - 1,
         Ahead(w, g_mstime) - slept >= -Half
  PROVE  /\ Adjust(w, now, slept) \in Word
         /\ Ahead(Adjust(w, now, slept), now) = Ahead(w, g_mstime) - slept
<1> DEFINE delta == Delta(now)
           moved == Adjust(w, now, slept)
<1>1. /\ delta \in -Half..Half - 1
      /\ delta \in {now - g_mstime, now - g_mstime + Modulus, now - g_mstime - Modulus}
  BY AheadCases DEF Delta, Ahead
<1>2. moved = Wrap(w + delta - slept)
  BY DEF Adjust
<1> HIDE DEF delta
<1>3. w \in Int /\ w + delta - slept \in -Modulus..2 * Modulus - 1
  BY <1>1, HalfTyped DEF Word
<1>4. /\ moved \in Word
      /\ moved \in {w + delta - slept, w + delta - slept + Modulus,
                    w + delta - slept - Modulus}
  BY <1>1, <1>2, <1>3, WrapCases, WrapTyped, HalfTyped
<1> HIDE DEF moved
<1>5. /\ Ahead(moved, now) \in -Half..Half - 1
      /\ Ahead(moved, now) \in {moved - now, moved - now + Modulus, moved - now - Modulus}
  BY <1>4, AheadCases
<1>6. /\ Ahead(w, g_mstime) \in -Half..Half - 1
      /\ Ahead(w, g_mstime) \in {w - g_mstime, w - g_mstime + Modulus, w - g_mstime - Modulus}
  BY AheadCases
<1>7. Ahead(moved, now) = Ahead(w, g_mstime) - slept
  BY <1>1, <1>3, <1>4, <1>5, <1>6, HalfTyped DEF Word
<1> QED BY <1>4, <1>7 DEF moved

\* A refresh of the clock, set or not, after d milliseconds of which `slept' were
\* asked for; `before' is how late the timer may be before it.
LEMMA UpdateInTime ==
  ASSUME TypeOK, WaitIsBounded, NEW t \in Adjusted, NEW d \in Nat, NEW j \in Jump \cup {0},
         NEW slept \in 0..Half - 1, SafeUpdate(d, j, slept),
         clock_set' # "unnoticed", ost'[t] # 0,
         NEW before \in 0..Busy, Ahead(ost[t], g_mstime) + before >= 0,
         wait[t] # Off, Ahead(ost[t], g_mstime) <= wait[t] + 1 + LateBy,
         slept <= Larger(Ahead(ost[t], g_mstime), 0),
         d <= slept + Late \/ (slept = 0 /\ d <= Busy /\ before = 0)
  PROVE  /\ wait'[t] # Off
         /\ Ahead(ost'[t], g_mstime') <= wait'[t] + 1 + LateBy'
         /\ Ahead(ost'[t], g_mstime') >= Ahead(ost[t], g_mstime) - Larger(d, slept)
         /\ j = 0 => Ahead(ost'[t], g_mstime') = Ahead(ost[t], g_mstime) - d
         /\ j # 0 => Ahead(ost'[t], g_mstime') = Ahead(ost[t], g_mstime) - slept
<1> DEFINE now == Wrap(g_mstime + d + j)
           changed == ClockChanged(now, slept)
<1>1. /\ t \in Timer /\ g_mstime \in Word /\ ost[t] \in Word /\ g_mstime \in Int
      /\ wait[t] \in Int /\ wait[t] \in -Half..Half - 1
      /\ wait[t] + Late + Slack + 2 < Half
  BY TimerAssumption, WaitTyped, HalfTyped DEF TypeOK, WaitIsBounded, Word
<1>2. /\ g_mstime' = now
      /\ ost'[t] = IF changed /\ ost[t] # 0 THEN Adjust(ost[t], now, slept) ELSE ost[t]
      /\ wait'[t] = Passed(wait[t], d)
      /\ clock_set' = IF j = 0 THEN clock_set ELSE IF changed THEN "noticed" ELSE "unnoticed"
      /\ j # 0 => clock_set = "no"
  BY <1>1 DEF SafeUpdate
<1>3. Ahead(ost[t], g_mstime) \in -Half..Half - 1
  BY <1>1, AheadCases
<1>4. wait'[t] \in Int /\ wait'[t] # Off /\ wait'[t] >= wait[t] - d
  <2>1. wait'[t] = Larger(wait[t] - d, -Half)
    BY <1>2 DEF Passed
  <2>2. wait'[t] \in Int /\ wait'[t] >= wait[t] - d
    BY <1>1, <2>1, HalfTyped DEF Larger
  <2> QED BY <2>2, JumpAssumption
<1>5. j \in Int /\ LateBy \in 0..Slack
  BY JumpAssumption, HalfTyped DEF LateBy
<1>6. now \in Word
  BY <1>1, <1>5, WrapTyped
<1> DEFINE left == Ahead(ost[t], g_mstime)
<1> HIDE DEF changed
<1>7. CASE j = 0
  <2>1. d \in 0..Half - 1 /\ left - d >= -Half /\ d <= slept + Tolerance
    <3>1. slept <= Larger(wait[t] + 1 + Slack, 0)
      BY <1>1, <1>3, <1>5, HalfTyped DEF Larger
    <3>2. d < Half
      BY <1>1, <1>5, <3>1, HalfTyped DEF Larger
    <3>3. left - d >= -Half
      BY <1>3, HalfTyped DEF Larger
    <3> QED BY <3>2, <3>3, HalfTyped
  <2>2. now = Wrap(g_mstime + d)
    BY <1>1, <1>7
  <2>3. Delta(now) = d
    BY <1>1, <2>1, <2>2, DeltaIsElapsed
  <2>4. ~changed
    BY <2>1, <2>3, HalfTyped DEF ClockChanged, changed
  <2>5. ost'[t] = ost[t] /\ clock_set' = clock_set
    BY <1>2, <1>7, <2>4
  <2> HIDE DEF now
  <2>6. Ahead(ost'[t], g_mstime') = left - d
    BY <1>1, <1>2, <2>1, <2>2, <2>5, ClockAdvances
  <2>7. LateBy' = LateBy
    BY <2>5 DEF LateBy
  <2> HIDE DEF left
  <2>8. left - d <= wait'[t] + 1 + LateBy
    BY <1>1, <1>3, <1>4, <1>5, HalfTyped DEF left
  <2>9. left - d >= left - Larger(d, slept)
    BY <1>3, HalfTyped DEF Larger, left
  <2> QED BY <1>4, <1>7, <2>6, <2>7, <2>8, <2>9 DEF left
<1>8. CASE j # 0
  <2>1. changed /\ clock_set = "no" /\ clock_set' = "noticed" /\ ost[t] # 0
    BY <1>2, <1>8
  <2>2. LateBy = 0 /\ LateBy' = Slack
    BY <2>1 DEF LateBy
  <2>3. left - slept >= -Half
    BY <1>3, HalfTyped DEF Larger
  <2>4. ost'[t] = Adjust(ost[t], now, slept)
    BY <1>2, <2>1
  <2> HIDE DEF now
  <2>5. Ahead(ost'[t], g_mstime') = left - slept
    <3>1. Ahead(Adjust(ost[t], now, slept), now) = left - slept
      BY <1>1, <1>6, <2>3, AdjustAhead
    <3> QED BY <1>2, <2>4, <3>1
  <2> HIDE DEF left
  <2>6. left - slept <= wait'[t] + 1 + Slack
    BY <1>1, <1>3, <1>4, <2>2, HalfTyped DEF left
  <2>7. left - slept >= left - Larger(d, slept)
    BY <1>3, HalfTyped DEF Larger, left
  <2> QED BY <1>4, <1>8, <2>2, <2>5, <2>6, <2>7 DEF left
<1> QED BY <1>7, <1>8

\* Only refreshes of the clock change clock_set, and none back.
LEMMA UpdateKeepsTimers ==
  ASSUME TypeOK, NEW t \in Timer, NEW d, NEW j, NEW slept, SafeUpdate(d, j, slept),
         ost'[t] # 0
  PROVE  ost[t] # 0
  BY DEF SafeUpdate

LEMMA NoticedBefore ==
  ASSUME NEW d, NEW j, NEW slept, SafeUpdate(d, j, slept), clock_set' # "unnoticed"
  PROVE  clock_set # "unnoticed"
  BY DEF SafeUpdate

LEMMA AdjustTop == TypeOK /\ TimeInv /\ AdjustInv /\ Top => AdjustInv'
<1> SUFFICES ASSUME TypeOK, TimeInv, AdjustInv, Top, clock_set' # "unnoticed",
                    NEW t \in Adjusted, ost'[t] # 0
             PROVE  InTime(t)'
  BY DEF AdjustInv
<1>1. PICK d \in 0..Busy, j \in Jump \cup {0} : SafeUpdate(d, j, 0)
  BY DEF Top
<1>2. t \in Timer /\ t \in Polled /\ d \in Nat /\ d <= Busy /\ 0 \in 0..Half - 1
  BY TimerAssumption, HalfTyped
<1>3. ost[t] # 0 /\ clock_set # "unnoticed"
  BY <1>1, <1>2, UpdateKeepsTimers, NoticedBefore
<1>4. /\ wait[t] # Off /\ Ahead(ost[t], g_mstime) <= wait[t] + 1 + LateBy
      /\ Ahead(ost[t], g_mstime) >= 0
  BY <1>3 DEF AdjustInv, InTime, Top
<1>5. Ahead(ost[t], g_mstime) \in -Half..Half - 1
  BY <1>2, AheadCases DEF TypeOK
<1>6. WaitIsBounded /\ 0 <= Larger(Ahead(ost[t], g_mstime), 0)
  BY <1>4, <1>5, HalfTyped DEF TimeInv, Larger
<1>7. 0 \in 0..Busy /\ Ahead(ost[t], g_mstime) + 0 >= 0
  BY <1>4, <1>5, HalfTyped
<1>8. /\ wait'[t] # Off
      /\ Ahead(ost'[t], g_mstime') <= wait'[t] + 1 + LateBy'
      /\ Ahead(ost'[t], g_mstime') >= Ahead(ost[t], g_mstime) - Larger(d, 0)
  BY <1>1, <1>2, <1>4, <1>6, <1>7, UpdateInTime
<1>9. TypeOK'
  BY StepTyped DEF Next
<1>10. to' <= Left(g_mstime', ost'[t])
  BY <1>2, <1>9, SleepIsLeast DEF Top, TypeOK
<1>11. Ahead(ost'[t], g_mstime') \in -Half..Half - 1
  BY <1>2, <1>9, AheadCases DEF TypeOK
<1>12. Ahead(ost'[t], g_mstime') >= -Busy
  BY <1>2, <1>4, <1>5, <1>8, <1>11, HalfTyped DEF Larger
<1> QED BY <1>8, <1>10, <1>12 DEF InTime, Top

LEMMA AdjustPoll == TypeOK /\ TimeInv /\ AdjustInv /\ Poll => AdjustInv'
<1> SUFFICES ASSUME TypeOK, TimeInv, AdjustInv, Poll, clock_set' # "unnoticed",
                    NEW t \in Adjusted, ost'[t] # 0
             PROVE  InTime(t)'
  BY DEF AdjustInv
<1>1. PICK d \in 0..to + Late, j \in Jump \cup {0} : SafeUpdate(d, j, to)
  BY DEF Poll
<1>2. /\ t \in Timer /\ to \in 0..Half - 1 /\ d \in Nat /\ d <= to + Late
      /\ Busy \in 0..Busy
  BY TimerAssumption, HalfTyped DEF TypeOK
<1>3. ost[t] # 0 /\ clock_set # "unnoticed"
  BY <1>1, <1>2, UpdateKeepsTimers, NoticedBefore
<1>4. /\ wait[t] # Off /\ Ahead(ost[t], g_mstime) <= wait[t] + 1 + LateBy
      /\ Ahead(ost[t], g_mstime) >= -Busy /\ to <= Left(g_mstime, ost[t])
  BY <1>3 DEF AdjustInv, InTime, Poll
<1>5. to <= Larger(Ahead(ost[t], g_mstime), 0) /\ WaitIsBounded
  BY <1>3, <1>4, LeftIsAhead DEF TimeInv
<1>6. TypeOK'
  BY StepTyped DEF Next
<1>7. /\ Ahead(ost'[t], g_mstime') \in -Half..Half - 1
      /\ Ahead(ost[t], g_mstime) \in -Half..Half - 1
  BY <1>2, <1>6, AheadCases DEF TypeOK
<1>8. Ahead(ost[t], g_mstime) + Busy >= 0
  BY <1>4, <1>7, HalfTyped
<1>9. /\ wait'[t] # Off
      /\ Ahead(ost'[t], g_mstime') <= wait'[t] + 1 + LateBy'
      /\ Ahead(ost'[t], g_mstime') >= Ahead(ost[t], g_mstime) - Larger(d, to)
  BY <1>1, <1>2, <1>4, <1>5, <1>8, UpdateInTime
<1>10. Ahead(ost'[t], g_mstime') >= -(Late + Busy)
  BY <1>2, <1>4, <1>5, <1>9, <1>7, HalfTyped DEF Larger
<1> QED BY <1>9, <1>10 DEF InTime, Poll

\* A timer armed, disabled or found to be running while the events are served.
LEMMA AdjustServe ==
  ASSUME TypeOK, AdjustInv, pc = "serve", NEW t \in Timer,
         UNCHANGED <<g_mstime, pc, clock_set>>, tested' \subseteq tested \cup {t},
         \A u \in Timer \ {t} : ost'[u] = ost[u] /\ wait'[u] = wait[u],
         \/ ost'[t] = 0
         \/ /\ wait'[t] \in Nat /\ ost'[t] \in Word
            /\ Ahead(ost'[t], g_mstime) - wait'[t] \in {0, 1}
         \/ ost'[t] = ost[t] /\ wait'[t] = wait[t] /\ Left(g_mstime, ost[t]) # 0
  PROVE  AdjustInv'
<1> SUFFICES ASSUME clock_set # "unnoticed", NEW u \in Adjusted, ost'[u] # 0
             PROVE  InTime(u)'
  BY DEF AdjustInv
<1>1. u \in Timer /\ LateBy' = LateBy /\ LateBy \in Nat
  BY TimerAssumption, HalfTyped DEF LateBy
<1>2. CASE ost'[u] = ost[u] /\ wait'[u] = wait[u] /\ (u = t => Left(g_mstime, ost[t]) # 0)
  <2>1. InTime(u) /\ ost[u] # 0
    BY <1>2 DEF AdjustInv
  <2>2. u = t => Ahead(ost[u], g_mstime) >= 0
    <3>1. Ahead(ost[u], g_mstime) \in -Half..Half - 1
      BY <1>1, AheadCases DEF TypeOK
    <3>2. Left(g_mstime, ost[u]) = Larger(Ahead(ost[u], g_mstime), 0)
      BY <2>1, LeftIsAhead
    <3> QED BY <1>2, <3>1, <3>2, HalfTyped DEF Larger
  <2> QED BY <1>1, <1>2, <2>1, <2>2 DEF InTime
<1>3. CASE u = t /\ wait'[t] \in Nat /\ ost'[t] \in Word
           /\ Ahead(ost'[t], g_mstime) - wait'[t] \in {0, 1}
  <2>1. wait'[t] # Off
    BY <1>3, JumpAssumption
  <2>2. Ahead(ost'[t], g_mstime) \in Int
    <3>1. Ahead(ost'[t], g_mstime) \in -Half..Half - 1
      BY <1>3, AheadCases DEF TypeOK
    <3> QED BY <3>1, HalfTyped
  <2>3. Ahead(ost'[t], g_mstime) >= 0 /\ Ahead(ost'[t], g_mstime) <= wait'[t] + 1 + LateBy
    BY <1>1, <1>3, <2>2
  <2> QED BY <1>1, <1>3, <2>1, <2>2, <2>3, HalfTyped DEF InTime
<1> QED BY <1>1, <1>2, <1>3

LEMMA AdjustStep == TypeOK /\ TimeInv /\ AdjustInv /\ [Next]_vars => AdjustInv'
<1> SUFFICES ASSUME TypeOK, TimeInv, AdjustInv, [Next]_vars PROVE AdjustInv'
  OBVIOUS
<1>1. ASSUME NEW t \in Timer, NEW ms \in Delay, Arm(t, ms) PROVE AdjustInv'
  <2>1. /\ ms \in Nat /\ Armed(g_mstime, ms) \in Word
        /\ Ahead(Armed(g_mstime, ms), g_mstime) - ms \in {0, 1}
    BY ArmedAhead, HalfTyped DEF TypeOK
  <2>2. ost'[t] = Armed(g_mstime, ms) /\ wait'[t] = ms
    BY <1>1 DEF Arm, TypeOK
  <2>3. \A u \in Timer \ {t} : ost'[u] = ost[u] /\ wait'[u] = wait[u]
    BY <1>1 DEF Arm, TypeOK
  <2> QED BY <1>1, <2>1, <2>2, <2>3, AdjustServe DEF Arm
<1>2. ASSUME NEW t \in Timer, Disable(t) PROVE AdjustInv'
  <2>1. ost'[t] = 0 /\ \A u \in Timer \ {t} : ost'[u] = ost[u] /\ wait'[u] = wait[u]
    BY <1>2 DEF Disable, TypeOK
  <2> QED BY <1>2, <2>1, AdjustServe DEF Disable
<1>3. ASSUME NEW t \in Timer, Test(t) PROVE AdjustInv'
  <2>1. \A u \in Timer \ {t} : ost'[u] = ost[u] /\ wait'[u] = wait[u]
    BY <1>3 DEF Test, TypeOK
  <2>2. CASE Left(g_mstime, ost[t]) = 0 /\ t \in Periodic
    <3>1. /\ Period \in Nat /\ Armed(g_mstime, Period) \in Word
          /\ Ahead(Armed(g_mstime, Period), g_mstime) - Period \in {0, 1}
      BY ArmedAhead, HalfTyped DEF TypeOK
    <3>2. ost'[t] = Armed(g_mstime, Period) /\ wait'[t] = Period
      BY <1>3, <2>2 DEF Test, TypeOK
    <3> QED BY <1>3, <2>1, <3>1, <3>2, AdjustServe DEF Test
  <2>3. CASE Left(g_mstime, ost[t]) = 0 /\ t \notin Periodic
    <3>1. ost'[t] = 0
      BY <1>3, <2>3 DEF Test, TypeOK
    <3> QED BY <1>3, <2>1, <3>1, AdjustServe DEF Test
  <2>4. CASE Left(g_mstime, ost[t]) # 0
    <3>1. ost'[t] = ost[t] /\ wait'[t] = wait[t]
      BY <1>3, <2>4 DEF Test
    <3> QED BY <1>3, <2>1, <2>4, <3>1, AdjustServe DEF Test
  <2> QED BY <2>2, <2>3, <2>4
<1>4. CASE Again
  <2>1. ASSUME NEW t \in Adjusted, InTime(t) PROVE InTime(t)'
    BY <1>4, <2>1, TimerAssumption DEF Again, InTime, LateBy
  <2> QED BY <1>4, <2>1 DEF Again, AdjustInv
<1>5. CASE UNCHANGED vars
  BY <1>5 DEF vars, AdjustInv, InTime, LateBy
<1> QED BY <1>1, <1>2, <1>3, <1>4, <1>5, AdjustTop, AdjustPoll DEF Next

LEMMA AdjustInit == Init => AdjustInv
<1> SUFFICES ASSUME Init, NEW t \in Adjusted, ost[t] # 0 PROVE InTime(t)
  BY DEF AdjustInv
<1>1. /\ Armed(g_mstime, Period) \in Word
      /\ Ahead(Armed(g_mstime, Period), g_mstime) - Period \in {0, 1}
  BY ArmedAhead, HalfTyped DEF Init
<1>2. Ahead(Armed(g_mstime, Period), g_mstime) \in -Half..Half - 1
  BY <1>1, AheadCases DEF Init
<1>3. t \in Timer /\ ost[t] = Armed(g_mstime, Period) /\ wait[t] = Period
  BY TimerAssumption DEF Init
<1>4. Period # Off /\ LateBy = 0
  BY HalfTyped, JumpAssumption DEF Init, LateBy
<1>5. Ahead(ost[t], g_mstime) >= 0 /\ Ahead(ost[t], g_mstime) <= wait[t] + 1 + LateBy
  BY <1>1, <1>2, <1>3, <1>4, HalfTyped
<1> QED BY <1>3, <1>4, <1>5 DEF InTime, Init

\* For every width of the clock, every set of timers and every change of the clock
\* that the daemon notices: what safe_mstime_update makes of an adjusted timer is
\* late by no more than one oversleep, however long the loop runs on.
THEOREM AdjustedTimersInTime == Spec => []AdjustedNotLate
<1>1. TypeOK /\ AdjustInv => AdjustedNotLate
  <2> SUFFICES ASSUME TypeOK, AdjustInv, clock_set # "unnoticed", NEW t \in Adjusted,
                      ost[t] # 0
               PROVE  Remaining(t) <= Larger(wait[t], 0) + 1 + Slack
    BY DEF AdjustedNotLate
  <2>1. t \in Timer /\ wait[t] # Off /\ Ahead(ost[t], g_mstime) <= wait[t] + 1 + LateBy
    BY TimerAssumption DEF AdjustInv, InTime
  <2>2. wait[t] \in Int /\ LateBy \in 0..Slack
    BY <2>1, WaitTyped, HalfTyped DEF LateBy
  <2>3. Ahead(ost[t], g_mstime) \in -Half..Half - 1
    BY <2>1, AheadCases DEF TypeOK
  <2>4. Remaining(t) = Larger(Ahead(ost[t], g_mstime), 0)
    BY LeftIsAhead DEF Remaining
  <2> QED BY <2>1, <2>2, <2>3, <2>4, HalfTyped DEF Larger
<1> QED BY <1>1, AdjustInit, AdjustStep, TimesAlways, PTL DEF Spec
=============================================================================
