------------------------------- MODULE MsTime -------------------------------
(***************************************************************************)
(* The millisecond timers of mstime.h and how afrd_run keeps them: a timer *)
(* is an unsigned word that holds the time it expires at, 0 when disabled; *)
(* the clock is the system's, which wraps around and which may be set at   *)
(* any moment.  poll() sleeps until the first of the Polled timers, and    *)
(* after a sleep that looks like a change of the clock the Adjusted timers *)
(* are moved by it.  The other timers are looked at only when an event     *)
(* asks for them.                                                          *)
(*                                                                         *)
(* `wait' is not in the code: the milliseconds that have really still to   *)
(* pass before the timer should expire, negative when it is overdue.       *)
(***************************************************************************)
EXTENDS Integers

CONSTANTS
  Modulus,      \* 2^32
  Timer,        \* the timers
  Polled,       \* those that limit the sleep and are tested after it
  Periodic,     \* the polled ones that are armed again when they expire
  Adjusted,     \* those safe_mstime_update moves
  Delay,        \* the delays handlers arm timers for
  Period,       \* the delay of periodic timers
  Tolerance,    \* the oversleep that passes for none (10000 ms)
  Late, Busy,   \* bounds of poll's oversleep and of the work of an iteration
  Jump,         \* by how much the clock may be set
  Off           \* a timer that is not armed

Half == Modulus \div 2

ASSUME ModulusAssumption ==
  Modulus \in Nat /\ Modulus > 1 /\ Modulus = 2 * Half
\* The adjusted timers are the polled ones but for g_ost_hdcp_check.
ASSUME TimerAssumption ==
  Periodic \cup Adjusted \subseteq Polled /\ Polled \subseteq Timer
Larger(a, b) == IF a >= b THEN a ELSE b
Slack == Larger(Late, Busy)
\* Delays, and the sleeps they lead to, are far below 2^31 ms (25 days); a late
\* wake-up is not taken for a clock change.
ASSUME DelayAssumption ==
  /\ Delay \cup {Period} \subseteq {d \in Nat : d + Late + Slack + 2 < Half}
  /\ Tolerance \in Nat /\ Late \in 0..Tolerance /\ Busy \in 0..Tolerance
ASSUME JumpAssumption ==
  /\ Jump \subseteq (-Modulus..Modulus) \ {0}
  /\ Off \notin Int

VARIABLES
  g_mstime,     \* the clock as last read
  ost,          \* the timers
  to,           \* the timeout poll is called with
  pc,           \* the next part of the iteration
  tested,       \* the polled timers tested in this iteration
  wait,
  clock_set     \* "no", or whether the daemon has "noticed" the change or not

vars == <<g_mstime, ost, to, pc, tested, wait, clock_set>>

Word == 0..Modulus - 1
Wrap_bug(n) == n
Wrap(n) == n % Modulus
Signed(w) == IF w < Half THEN w ELSE w - Modulus

-----------------------------------------------------------------------------
(* mstime.h *)

Armed_bug(now, ms) == Wrap(now + ms)
Armed(now, ms) == LET t == Wrap(now + ms) IN IF t = 0 THEN 1 ELSE t

\* -1 when the timer is disabled, 0 when it has expired.
Left_bug(now, t) == IF t = 0 THEN -1 ELSE Larger(Wrap(t - now), 0)
Left(now, t) == IF t = 0 THEN -1 ELSE Larger(Signed(Wrap(t - now)), 0)

-----------------------------------------------------------------------------
(* safe_mstime_update *)

Delta(now) == Signed(Wrap(now - g_mstime))
ClockChanged(now, slept) ==
  Delta(now) < 0 \/ Delta(now) > slept + Tolerance

\* The sleep is taken to have been as long as asked for.
Adjust_bug(t, now, slept) == Wrap(t + Delta(now))
Adjust(t, now, slept) == Wrap(t + Delta(now) - slept)

Passed(w, d) == IF w = Off THEN Off ELSE Larger(w - d, -Half)

\* d milliseconds pass and the clock is set by j; one change of the clock is
\* looked at.
SafeUpdate(d, j, slept) ==
  LET now == Wrap(g_mstime + d + j)
      changed == ClockChanged(now, slept)
  IN /\ j # 0 => clock_set = "no"
     /\ g_mstime' = now
     /\ ost' = [t \in Timer |-> IF changed /\ t \in Adjusted /\ ost[t] # 0
                                THEN Adjust(ost[t], now, slept) ELSE ost[t]]
     /\ wait' = [t \in Timer |-> Passed(wait[t], d)]
     /\ clock_set' = IF j = 0 THEN clock_set
                     ELSE IF changed THEN "noticed" ELSE "unnoticed"

-----------------------------------------------------------------------------
(* afrd_run *)

\* min_time over the polled timers; there is always one, or else a minute.
Deadlines(now, timers) == {Left(now, timers[t]) : t \in Polled} \ {-1}
Sleep_bug(now, timers) ==
  IF Deadlines(now, timers) = {} THEN Period
  ELSE CHOOSE d \in Deadlines(now, timers) :
         \A e \in Deadlines(now, timers) : e <= d
Sleep(now, timers) ==
  IF Deadlines(now, timers) = {} THEN Period
  ELSE CHOOSE d \in Deadlines(now, timers) :
         \A e \in Deadlines(now, timers) : d <= e

Top ==
  /\ pc = "top"
  /\ pc' = "poll"
  /\ \E d \in 0..Busy, j \in Jump \cup {0} : SafeUpdate(d, j, 0)
  /\ to' = Sleep(g_mstime', ost')
  /\ UNCHANGED tested

\* An event or the timeout ends the sleep.
Poll ==
  /\ pc = "poll"
  /\ pc' = "serve"
  /\ \E d \in 0..to + Late, j \in Jump \cup {0} : SafeUpdate(d, j, to)
  /\ tested' = {}
  /\ UNCHANGED to

\* The handlers arm and disable timers.
Arm(t, ms) ==
  /\ pc = "serve"
  /\ ost' = [ost EXCEPT ![t] = Armed(g_mstime, ms)]
  /\ wait' = [wait EXCEPT ![t] = ms]
  /\ UNCHANGED <<g_mstime, to, pc, tested, clock_set>>

Disable(t) ==
  /\ pc = "serve" /\ t \notin Periodic
  /\ ost' = [ost EXCEPT ![t] = 0]
  /\ wait' = [wait EXCEPT ![t] = Off]
  /\ UNCHANGED <<g_mstime, to, pc, tested, clock_set>>

\* mstime_expired and mstime_running: what has expired is disabled.
Test(t) ==
  /\ pc = "serve" /\ t \notin tested
  /\ tested' = tested \cup {t}
  /\ IF Left(g_mstime, ost[t]) # 0 THEN UNCHANGED <<ost, wait>>
     ELSE LET again == t \in Periodic
          IN /\ ost' = [ost EXCEPT ![t] = IF again THEN Armed(g_mstime, Period)
                                          ELSE 0]
             /\ wait' = [wait EXCEPT ![t] = IF again THEN Period ELSE Off]
  /\ UNCHANGED <<g_mstime, to, pc, clock_set>>

Again ==
  /\ pc = "serve" /\ Polled \subseteq tested
  /\ pc' = "top"
  /\ UNCHANGED <<g_mstime, ost, to, tested, wait, clock_set>>

Init ==
  /\ g_mstime \in Word
  /\ ost = [t \in Timer |-> IF t \in Periodic THEN Armed(g_mstime, Period)
                            ELSE 0]
  /\ wait = [t \in Timer |-> IF t \in Periodic THEN Period ELSE Off]
  /\ to = 0 /\ pc = "top" /\ tested = {} /\ clock_set = "no"

Next ==
  \/ Top \/ Poll \/ Again
  \/ \E t \in Timer :
       Disable(t) \/ Test(t) \/ \E ms \in Delay : Arm(t, ms)

Spec == Init /\ [][Next]_vars

-----------------------------------------------------------------------------
(* Properties *)

\* Timers are words, and waiting times lie within half the clock's circle.
TypeOK ==
  /\ g_mstime \in Word /\ ost \in [Timer -> Word]
  /\ to \in 0..Half - 1 /\ pc \in {"top", "poll", "serve"}
  /\ tested \subseteq Timer
  /\ wait \in [Timer -> (-Half..Half - 1) \cup {Off}]
  /\ clock_set \in {"no", "noticed", "unnoticed"}

Remaining(t) == Left(g_mstime, ost[t])

\* While nobody sets the clock, a timer that was armed is neither lost at the
\* wrap-around nor early, and late by a millisecond at most; this holds for 25
\* days after it should have expired.
OnTime ==
  clock_set = "no" =>
    \A t \in Timer :
      /\ ost[t] = 0 <=> wait[t] = Off
      /\ ost[t] # 0 /\ wait[t] > -Half =>
           Remaining(t) - Larger(wait[t], 0) \in {0, 1}

\* The loop does not sleep past a polled timer by more than poll's oversleep.
NeverOversleeps ==
  clock_set = "no" /\ pc # "top" =>
    \A t \in Polled : ost[t] # 0 => wait[t] >= -(Late + Busy + 1)

\* A change of the clock that the daemon notices makes an adjusted timer later by
\* no more than an oversleep.
AdjustedNotLate ==
  clock_set # "unnoticed" =>
    \A t \in Adjusted :
      ost[t] # 0 => Remaining(t) <= Larger(wait[t], 0) + 1 + Slack

=============================================================================
