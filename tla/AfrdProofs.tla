----------------------------- MODULE AfrdProofs -----------------------------
(***************************************************************************)
(* Theorems about Afrd, for every set of decoders, rates, modes and        *)
(* configurations.                                                         *)
(***************************************************************************)
EXTENDS Afrd, TLAPS

-----------------------------------------------------------------------------
(* Type correctness *)

\* A configuration is a record of afrd_init's options.
LEMMA ConfigTyped == ASSUME NEW c \in Config PROVE c \in ConfigType
  BY ConfigAssumption

\* The frame rates of a scenario are among those of the instance.
LEMMA RatesAreHz == Rates \subseteq Hz
  BY DEF Rates

\* The parts of a mode, empty or not.
LEMMA ModeParts ==
  ASSUME NEW m \in ModeOrNone
  PROVE  m.name \in ModeName \union {NoName} /\ m.frac \in BOOLEAN
<1>1. CASE m \in Mode BY <1>1 DEF Mode
<1>2. CASE m = NoMode BY <1>2 DEF NoMode
<1> QED BY <1>1, <1>2 DEF ModeOrNone

\* display_mode_switch leaves a mode in the cache and in the kernel.
LEMMA DisplayModeSwitchTyped ==
  ASSUME DisplayTypeOK, NEW mode \in ModeOrNone, NEW force,
         DisplayModeSwitch(mode, force)
  PROVE  DisplayTypeOK'
<1>1. CASE UNCHANGED display
  BY <1>1 DEF DisplayTypeOK, display
<1>2. CASE ~UNCHANGED display
  <2> DEFINE p == [hw EXCEPT !.policy = mode.frac]
             n == IF ViaNull(mode, force) THEN WriteNull(p) ELSE p
  <2>1. p \in HwType
    BY ModeParts DEF DisplayTypeOK, HwType
  <2>2. n \in HwType
    BY <2>1 DEF WriteNull, WriteMode, HwType
  <2>3. WriteMode(n, mode.name) \in HwType
    BY <2>2, ModeParts DEF WriteMode, HwType
  <2>4. hw' = HdcpRestored(WriteMode(n, mode.name))
        /\ g_current_mode' = mode /\ g_blackened' = FALSE
    BY <1>2 DEF DisplayModeSwitch
  <2>5. hw' \in HwType
    BY <2>3, <2>4 DEF HdcpRestored, HwType
  <2> QED BY <2>4, <2>5 DEF DisplayTypeOK
<1> QED BY <1>1, <1>2

\* What update_stats publishes of typed state is typed.
LEMMA UpdateStatsTyped ==
  ASSUME cfg \in Config, g_state' \in StateType, DisplayTypeOK', UpdateStats
  PROVE  stats' \in StatsType
  BY ConfigTyped
     DEF UpdateStats, Stats, StatsType, StateType, DisplayTypeOK, ConfigType

LEMMA ZeroStateTyped == ZeroState \in StateType
  BY DEF ZeroState, StateType, TimerState, ModeOrNone

\* framerate_restore keeps the types.
LEMMA FramerateRestoreTyped ==
  ASSUME SwitchTypeOK, LoopTypeOK, NEW gs \in StateType, NEW b,
         FramerateRestore(gs, b)
  PROVE  SwitchTypeOK'
<1>1. ost_switch' \in TimerState /\ ost_blackout' \in TimerState
  BY DEF FramerateRestore, TimerState
<1>2. CASE b /\ ~g_blackened
  BY <1>1, <1>2 DEF FramerateRestore, SwitchTypeOK, DisplayTypeOK, display
<1>3. CASE ~(b /\ ~g_blackened)
  <2>1. RestoreMode(gs) \in ModeOrNone
    BY DEF RestoreMode, StateType, SwitchTypeOK, DisplayTypeOK
  <2>2. DisplayModeSwitch(RestoreMode(gs), FALSE) /\ g_state' = ZeroState
        /\ UpdateStats /\ ost_hdcp' = "run"
    BY <1>3 DEF FramerateRestore
  <2>3. DisplayTypeOK'
    BY <2>1, <2>2, DisplayModeSwitchTyped DEF SwitchTypeOK
  <2>4. stats' \in StatsType
    BY <2>2, <2>3, UpdateStatsTyped, ZeroStateTyped DEF LoopTypeOK
  <2> QED BY <1>1, <2>2, <2>3, <2>4, ZeroStateTyped DEF SwitchTypeOK
<1> QED BY <1>2, <1>3

\* The mode search yields a mode of the configuration or none.
LEMMA BestModeTyped ==
  ASSUME LoopTypeOK, NEW hz \in Hz
  PROVE  BestMode(hz) \in ModeOrNone
  BY ConfigTyped DEF LoopTypeOK, BestMode, ConfigType, ModeOrNone

\* The switch itself keeps the types.
LEMMA SwitchToTyped ==
  ASSUME SwitchTypeOK, LoopTypeOK, NEW gs \in StateType,
         NEW best \in ModeOrNone, NEW force, NEW switch \in TimerState,
         SwitchTo(gs, best, force, switch)
  PROVE  SwitchTypeOK'
<1>1. SavedMode(gs) \in ModeOrNone
  BY DEF SavedMode, StateType, SwitchTypeOK, DisplayTypeOK
<1>2. g_state' \in StateType
  BY <1>1 DEF SwitchTo, StateType
<1>3. DisplayTypeOK'
  BY DisplayModeSwitchTyped DEF SwitchTo, SwitchTypeOK
<1>4. stats' \in StatsType
  BY <1>2, <1>3, UpdateStatsTyped DEF SwitchTo, LoopTypeOK
<1> QED BY <1>2, <1>3, <1>4 DEF SwitchTo, SwitchTypeOK, TimerState

\* So does framerate_switch once a frame rate is known,
LEMMA SwitchToHzTyped ==
  ASSUME SwitchTypeOK, LoopTypeOK, NEW gs \in StateType, gs.hz \in Hz,
         NEW force, NEW switch \in TimerState,
         SwitchToHz(gs, force, switch)
  PROVE  SwitchTypeOK'
<1> DEFINE best == BestMode(gs.hz)
<1>1. best \in ModeOrNone
  BY BestModeTyped
<1>2. CASE FramerateRestore(gs, TRUE)
  BY <1>2, FramerateRestoreTyped
<1>3. CASE SwitchTo(gs, best, force, switch)
  BY <1>1, <1>3, SwitchToTyped
<1> QED BY <1>2, <1>3 DEF SwitchToHz

\* while it is being detected,
LEMMA DetectTyped ==
  ASSUME SwitchTypeOK, LoopTypeOK, NEW gs \in StateType,
         NEW force, NEW switch \in TimerState,
         Detect(gs, force, switch)
  PROVE  SwitchTypeOK'
<1>1. PICK found \in Hz \union {NoHz} :
        IF gs.hz_ost = "due"
        THEN LET late == [gs EXCEPT !.hz_ost = "off", !.hz = found]
             IN /\ gs.sampled \/ found = NoHz
                /\ IF found = NoHz THEN GiveUp(late)
                   ELSE SwitchToHz(late, force, switch)
        ELSE IF found = NoHz THEN RetryDetection(gs)
             ELSE SwitchToHz([gs EXCEPT !.hz = found, !.sampled = TRUE],
                             force, switch)
  BY RatesAreHz DEF Detect
<1> DEFINE late == [gs EXCEPT !.hz_ost = "off", !.hz = found]
           asked == [gs EXCEPT !.sampled = TRUE]
           known == [gs EXCEPT !.hz = found, !.sampled = TRUE]
<1>2. late \in StateType /\ asked \in StateType /\ known \in StateType
  BY DEF StateType, TimerState
<1>3. late.hz = found /\ known.hz = found
  BY DEF StateType
<1>4. CASE GiveUp(late)
  BY <1>2, <1>4, FramerateRestoreTyped DEF GiveUp
<1>5. CASE found # NoHz /\ SwitchToHz(late, force, switch)
  <2> HIDE DEF late
  <2> QED BY <1>2, <1>3, <1>5, SwitchToHzTyped
<1>6. CASE found # NoHz /\ SwitchToHz(known, force, switch)
  <2> HIDE DEF known
  <2> QED BY <1>2, <1>3, <1>6, SwitchToHzTyped
<1>7. CASE RetryDetection(gs)
  <2>1. CASE cfg.retry
    BY <1>2, <1>7, <2>1
       DEF RetryDetection, SwitchTypeOK, DisplayTypeOK, display, TimerState
  <2>2. CASE ~cfg.retry
    BY <1>2, <1>7, <2>2, FramerateRestoreTyped DEF RetryDetection, GiveUp
  <2> QED BY <2>1, <2>2
<1> QED BY <1>1, <1>4, <1>5, <1>6, <1>7

\* and as a whole.
LEMMA FramerateSwitchTyped ==
  ASSUME SwitchTypeOK, LoopTypeOK, NEW gs0 \in StateType,
         NEW force, NEW switch \in TimerState,
         FramerateSwitch(gs0, force, switch)
  PROVE  SwitchTypeOK'
<1> DEFINE gs == [gs0 EXCEPT !.delayed_switch = FALSE]
<1>1. gs \in StateType
  BY DEF StateType
<1>2. gs.hz = NoHz \/ gs.hz \in Hz
  BY <1>1 DEF StateType
<1>3. \/ FramerateRestore(gs, FALSE)
      \/ FramerateRestore(gs, TRUE)
      \/ Detect(gs, force, switch)
      \/ gs.hz # NoHz /\ SwitchToHz(gs, force, switch)
  BY DEF FramerateSwitch
<1> HIDE DEF gs
<1> QED BY <1>1, <1>2, <1>3, FramerateRestoreTyped, DetectTyped, SwitchToHzTyped

\* delay_framerate_switch keeps the types.
LEMMA DelayFramerateSwitchTyped ==
  ASSUME SwitchTypeOK, LoopTypeOK, NEW restore \in BOOLEAN,
         NEW hz \in Hz \union {NoHz}, NEW codec \in Codec \union {NoCodec},
         DelayFramerateSwitch(restore, hz, codec)
  PROVE  SwitchTypeOK' /\ ost_off' \in {"off", "run"}
<1>1. ost_off' \in {"off", "run"}
  BY DEF DelayFramerateSwitch, Ignored, LoopTypeOK
<1>2. CASE Ignored
  <2>1. g_state' \in StateType /\ DisplayTypeOK'
    BY <1>2 DEF Ignored, StateType, SwitchTypeOK, DisplayTypeOK, display
  <2>2. stats' \in StatsType
    BY <1>2, <2>1, UpdateStatsTyped DEF Ignored, LoopTypeOK
  <2> QED BY <1>1, <1>2, <2>1, <2>2 DEF Ignored, SwitchTypeOK, TimerState
<1>3. CASE RestoreDisabled
  <2>1. DisplayTypeOK' /\ ost_hdcp' \in {"off", "run"}
    <3>1. RestoreMode(g_state) \in ModeOrNone
      BY DEF RestoreMode, StateType, SwitchTypeOK, DisplayTypeOK
    <3>2. CASE g_blackened
      BY <1>3, <3>1, <3>2, DisplayModeSwitchTyped
         DEF RestoreDisabled, SwitchTypeOK
    <3>3. CASE ~g_blackened
      BY <1>3, <3>3 DEF RestoreDisabled, SwitchTypeOK, DisplayTypeOK, display
    <3> QED BY <3>2, <3>3
  <2>2. g_state' \in StateType
    BY <1>3, ZeroStateTyped DEF RestoreDisabled
  <2>3. stats' \in StatsType
    BY <1>3, <2>1, <2>2, UpdateStatsTyped DEF RestoreDisabled, LoopTypeOK
  <2> QED
    BY <1>1, <1>3, <2>1, <2>2, <2>3
       DEF RestoreDisabled, SwitchTypeOK, TimerState
<1>4. CASE Blacklisted
  BY <1>1, <1>4 DEF Blacklisted, SwitchTypeOK, DisplayTypeOK, display, TimerState
<1>5. CASE ArmSwitch(restore, hz, codec)
  <2>1. Turned(restore, hz, codec) \in StateType
    BY DEF Turned, StateType, SwitchTypeOK
  <2>2. Hint(restore, hz) \in Hz \union {NoHz}
    BY DEF Hint, LoopTypeOK
  <2>3. WithHint(Turned(restore, hz, codec), Hint(restore, hz))
          \subseteq StateType
    BY <2>1, <2>2, RatesAreHz DEF WithHint, StateType
  <2>4. PICK gs \in WithHint(Turned(restore, hz, codec), Hint(restore, hz)) :
          /\ g_state' = [gs EXCEPT !.hz_ost = TimeLimit(restore),
                                   !.delayed_switch = @ \/ ~restore]
          /\ ost_switch' = Arm(SwitchDelay(restore))
          /\ ost_blackout' = IF ~restore /\ BlackoutWanted(gs) THEN "run"
                             ELSE "off"
          /\ UNCHANGED <<display, ost_hdcp, stats>>
    BY <1>5 DEF ArmSwitch
  <2>5. TimeLimit(restore) \in TimerState /\ ost_switch' \in TimerState
        /\ ost_blackout' \in TimerState
    BY <2>4 DEF TimeLimit, Arm, TimerState
  <2>6. g_state' \in StateType
    BY <2>3, <2>4, <2>5 DEF StateType
  <2> QED BY <1>1, <2>4, <2>5, <2>6 DEF SwitchTypeOK, DisplayTypeOK, display
<1> QED BY <1>1, <1>2, <1>3, <1>4, <1>5 DEF DelayFramerateSwitch

\* Init and every step: the type invariant.
LEMMA InitTyped == Init => TypeOK
<1> SUFFICES ASSUME Init PROVE TypeOK
  OBVIOUS
<1>1. cfg \in Config /\ user_mode \in Mode
  <2>1. scenario.config \subseteq Config /\ scenario.names \subseteq ModeName
    BY ScenarioAssumption DEF Init
  <2>2. cfg_file \in scenario.config /\ cfg = cfg_file
        /\ user_mode \in [name : scenario.names, frac : BOOLEAN]
    BY DEF Init
  <2> QED BY <2>1, <2>2 DEF Mode
<1>2. user_mode.name \in ModeName /\ user_mode.frac \in BOOLEAN
  BY <1>1 DEF Mode
<1>3. DisplayTypeOK
  <2>1. ("hdcp" \in Inputs) \in BOOLEAN
    OBVIOUS
  <2>2. hw \in HwType
    BY <1>2, <2>1, Zenon DEF Init, HwType
  <2> QED BY <2>2 DEF Init, DisplayTypeOK, ModeOrNone
<1>4. stats \in StatsType
  BY DEF Init, Stats, ZeroState, StatsType, ModeOrNone, NoMode
<1>5. SwitchTypeOK
  BY <1>3, <1>4, ZeroStateTyped DEF Init, SwitchTypeOK, TimerState
<1>6. LoopTypeOK /\ WorldTypeOK
  BY <1>1 DEF Init, LoopTypeOK, WorldTypeOK, Alive, TimerState
<1> QED BY <1>5, <1>6 DEF TypeOK

LEMMA UeventsTyped == TypeOK /\ Uevents => TypeOK'
<1> SUFFICES ASSUME TypeOK, Uevents PROVE TypeOK'
  OBVIOUS
<1> USE DEF TypeOK
<1>1. ASSUME NEW c \in Codec, VdecAdd(c) \/ VdecRemove(c)
      PROVE  TypeOK'
  <2>1. SwitchTypeOK' /\ ost_off' \in {"off", "run"}
    BY <1>1, DelayFramerateSwitchTyped DEF VdecAdd, VdecRemove
  <2>2. LoopTypeOK' /\ WorldTypeOK'
    BY <1>1, <2>1 DEF VdecAdd, VdecRemove, UNTOUCHED, LoopTypeOK, WorldTypeOK
  <2> QED BY <2>1, <2>2
<1>2. ASSUME NEW c \in Codec \union {NoCodec}, NEW hz \in Hz \union {NoHz},
             FrhintEnd(c) \/ FrhintStart(hz, c)
      PROVE  TypeOK'
  <2>1. SwitchTypeOK' /\ ost_off' \in {"off", "run"}
    <3>1. CASE DelayFramerateSwitch(FALSE, hz, c)
      BY <3>1, DelayFramerateSwitchTyped
    <3>2. CASE DelayFramerateSwitch(TRUE, NoHz, c)
      BY <3>2, DelayFramerateSwitchTyped
    <3>3. CASE UNCHANGED <<display, g_state, ost_blackout, ost_switch, ost_off,
                           ost_hdcp, stats>>
      BY <3>3 DEF SwitchTypeOK, LoopTypeOK, DisplayTypeOK, display
    <3> QED BY <1>2, <3>1, <3>2, <3>3 DEF FrhintEnd, FrhintStart
  <2>2. LoopTypeOK' /\ WorldTypeOK'
    BY <1>2, <2>1 DEF FrhintEnd, FrhintStart, UNTOUCHED, LoopTypeOK, WorldTypeOK
  <2> QED BY <2>1, <2>2
<1>3. CASE HdmiUevent
  <2>1. ost_hdmi' \in TimerState
    BY <1>3 DEF HdmiUevent, LoopTypeOK, TimerState
  <2>2. SwitchTypeOK'
    BY <1>3 DEF HdmiUevent, SwitchTypeOK, DisplayTypeOK, display
  <2>3. LoopTypeOK' /\ WorldTypeOK'
    BY <1>3, <2>1 DEF HdmiUevent, LoopTypeOK, WorldTypeOK
  <2> QED BY <2>2, <2>3
<1>4. CASE HdcpUevent
  <2>1. hw' \in HwType /\ hdcp_enabled' \in BOOLEAN
    BY <1>4 DEF HdcpUevent, HwType, SwitchTypeOK, LoopTypeOK, DisplayTypeOK
  <2> QED BY <1>4, <2>1
             DEF HdcpUevent, SwitchTypeOK, LoopTypeOK, WorldTypeOK,
                 DisplayTypeOK, world, active
<1> QED
  <2>1. NoHz \in Hz \union {NoHz}
    OBVIOUS
  <2> QED BY <1>1, <1>2, <1>3, <1>4, <2>1, RatesAreHz DEF Uevents

LEMMA ApiTyped == TypeOK /\ Api => TypeOK'
<1> SUFFICES ASSUME TypeOK, Api PROVE TypeOK'
  OBVIOUS
<1> USE DEF TypeOK
<1>1. ASSUME NEW hz \in Hz \union {NoHz}, ApiFrameRateHint(hz)
      PROVE  TypeOK'
  BY <1>1 DEF ApiFrameRateHint, SwitchTypeOK, LoopTypeOK, WorldTypeOK,
              DisplayTypeOK, world, active, display
<1>2. ASSUME NEW hz \in Hz \union {NoHz}, ApiRefreshRate(hz)
      PROVE  TypeOK'
  <2> DEFINE gs == [g_state EXCEPT !.restore = (hz = NoHz), !.hz = hz]
  <2>1. gs \in StateType
    BY DEF SwitchTypeOK, StateType
  <2>2. ost_switch \in TimerState /\ FramerateSwitch(gs, TRUE, ost_switch)
    BY <1>2 DEF ApiRefreshRate, SwitchTypeOK
  <2>3. SwitchTypeOK'
    <3> HIDE DEF gs
    <3> QED BY <2>1, <2>2, FramerateSwitchTyped
  <2> QED BY <1>2, <2>3
             DEF ApiRefreshRate, UNTOUCHED, LoopTypeOK, WorldTypeOK, world
<1>3. CASE ApiReconf
  BY <1>3 DEF ApiReconf, SwitchTypeOK, LoopTypeOK, WorldTypeOK, DisplayTypeOK,
              world, display, TimerState
<1> QED BY <1>1, <1>2, <1>3, RatesAreHz DEF Api

\* A timer that time passes over keeps its range.
LEMMA ElapsedTyped ==
  ASSUME NEW t \in TimerState, NEW u \in Elapsed(t)
  PROVE  u \in TimerState
  BY DEF Elapsed, TimerState
LEMMA FadedTyped ==
  ASSUME NEW t \in {"off", "run"}, NEW u \in Faded(t)
  PROVE  u \in {"off", "run"}
  BY DEF Faded

LEMMA CurrentModeTyped ==
  ASSUME DisplayTypeOK PROVE CurrentMode \in ModeOrNone
  BY DEF CurrentMode, DisplayTypeOK, HwType, ModeOrNone, Mode

\* handle_hdmi_switch keeps the types.
LEMMA HandleHdmiSwitchTyped ==
  ASSUME SwitchTypeOK, NEW on, HandleHdmiSwitch(on)
  PROVE  /\ g_state' \in StateType /\ g_current_mode' \in ModeOrNone
         /\ modes' \in BOOLEAN /\ hdcp_enabled' \in BOOLEAN
<1>1. NoMode \in ModeOrNone
  BY DEF ModeOrNone
<1>2. CASE on
  BY <1>2, CurrentModeTyped DEF HandleHdmiSwitch, SwitchTypeOK, DisplayTypeOK
<1>3. CASE ~on
  BY <1>1, <1>3 DEF HandleHdmiSwitch, SwitchTypeOK, DisplayTypeOK, StateType
<1> QED BY <1>2, <1>3

LEMMA PollTyped == TypeOK /\ Poll => TypeOK'
<1> SUFFICES ASSUME TypeOK, Poll PROVE TypeOK'
  OBVIOUS
<1> USE DEF TypeOK
<1>1. /\ ost_switch' \in TimerState /\ ost_hdmi' \in TimerState
      /\ ost_blackout' \in TimerState /\ ost_config' \in TimerState
      /\ ost_hdcp_check' \in TimerState
  BY ElapsedTyped DEF Poll, SwitchTypeOK, LoopTypeOK
<1>2. ost_off' \in {"off", "run"} /\ ost_hdcp' \in {"off", "run"}
  BY FadedTyped DEF Poll, SwitchTypeOK, LoopTypeOK
<1>3. g_state' \in StateType
  <2>1. PICK t \in Elapsed(g_state.hz_ost) :
          g_state' = [g_state EXCEPT !.hz_ost = t]
    BY DEF Poll
  <2>2. g_state.hz_ost \in TimerState
    BY DEF SwitchTypeOK, StateType
  <2>3. t \in TimerState
    BY <2>2, ElapsedTyped
  <2> QED BY <2>1, <2>3 DEF SwitchTypeOK, StateType
<1>4. frame_rate_hint' \in Hz \union {NoHz, NoHint} /\ pc' \in Alive
  BY DEF Poll, LoopTypeOK, Alive, Loop
<1> QED BY <1>1, <1>2, <1>3, <1>4
           DEF Poll, SwitchTypeOK, LoopTypeOK, WorldTypeOK, DisplayTypeOK,
               display, world

LEMMA BlackoutTyped == TypeOK /\ Blackout => TypeOK'
<1> SUFFICES ASSUME TypeOK, Blackout PROVE TypeOK'
  OBVIOUS
<1> USE DEF TypeOK
<1>1. ost_blackout' \in TimerState
  BY DEF Blackout, SwitchTypeOK, TimerState
<1>2. g_state' \in StateType /\ DisplayTypeOK' /\ stats' \in StatsType
  <2>1. CASE UNCHANGED <<g_state, display, stats>>
    BY <2>1 DEF SwitchTypeOK, DisplayTypeOK, display
  <2>2. CASE Blacken /\ ~g_blackened
    <3>1. CurrentMode \in ModeOrNone
      BY CurrentModeTyped DEF SwitchTypeOK
    <3>2. WriteNull(hw) \in HwType
      BY DEF WriteNull, WriteMode, HwType, SwitchTypeOK, DisplayTypeOK
    <3>3. g_state' \in StateType
      BY <2>2, <3>1 DEF Blacken, SwitchTypeOK, StateType
    <3>4. DisplayTypeOK'
      BY <2>2, <3>1, <3>2 DEF Blacken, DisplayTypeOK
    <3> QED BY <2>2, <3>3, <3>4, UpdateStatsTyped DEF Blacken, LoopTypeOK
  <2> QED BY <2>1, <2>2 DEF Blackout, Blacken
<1> QED BY <1>1, <1>2
           DEF Blackout, SwitchTypeOK, LoopTypeOK, WorldTypeOK, Alive, Loop, world

LEMMA DaemonTyped == TypeOK /\ Daemon => TypeOK'
<1> SUFFICES ASSUME TypeOK, Daemon PROVE TypeOK'
  OBVIOUS
<1> USE DEF TypeOK
<1>1. CASE Poll
  BY <1>1, PollTyped
<1>2. CASE Blackout
  BY <1>2, BlackoutTyped
<1>3. CASE UeventsDone \/ ApiDone \/ Leave
  BY <1>3 DEF UeventsDone, ApiDone, Leave, SwitchTypeOK, LoopTypeOK, WorldTypeOK,
              DisplayTypeOK, display, world, active, Alive, Loop
<1>4. CASE Switch
  <2>1. SwitchTypeOK'
    <3>1. CASE FramerateSwitch(g_state, FALSE, "off")
      BY <3>1, FramerateSwitchTyped DEF SwitchTypeOK, TimerState
    <3>2. CASE UNCHANGED <<g_state, display, ost_switch, ost_blackout, ost_hdcp,
                           stats>>
      BY <3>2 DEF SwitchTypeOK, DisplayTypeOK, display
    <3> QED BY <1>4, <3>1, <3>2 DEF Switch
  <2> QED BY <1>4, <2>1
             DEF Switch, LoopTypeOK, WorldTypeOK, world, Alive, Loop
<1>5. CASE Hdmi
  <2>1. /\ g_state' \in StateType /\ g_current_mode' \in ModeOrNone
        /\ modes' \in BOOLEAN /\ hdcp_enabled' \in BOOLEAN
        /\ ost_hdmi' \in TimerState
    <3>1. CASE ost_hdmi = "due"
      BY <1>5, <3>1, HandleHdmiSwitchTyped DEF Hdmi, TimerState
    <3>2. CASE ost_hdmi # "due"
      BY <1>5, <3>2 DEF Hdmi, SwitchTypeOK, LoopTypeOK, DisplayTypeOK
    <3> QED BY <3>1, <3>2
  <2> QED BY <1>5, <2>1
             DEF Hdmi, SwitchTypeOK, LoopTypeOK, WorldTypeOK, DisplayTypeOK,
                 world, Alive, Loop
<1>6. CASE CheckConfig
  <2>1. pc' \in Alive /\ ost_config' \in TimerState
    BY <1>6 DEF CheckConfig, Periodic, LoopTypeOK, TimerState, Alive, Loop
  <2> QED BY <1>6, <2>1
             DEF CheckConfig, SwitchTypeOK, LoopTypeOK, WorldTypeOK,
                 DisplayTypeOK, display, world
<1>7. CASE HdcpCheck
  <2>1. pc' \in Alive /\ ost_hdcp_check' \in TimerState
    BY <1>7 DEF HdcpCheck, Periodic, LoopTypeOK, TimerState, Alive, Loop
  <2>2. hw' \in HwType
    BY <1>7 DEF HdcpCheck, HdcpRestored, HwType, SwitchTypeOK, DisplayTypeOK
  <2> QED BY <1>7, <2>1, <2>2
             DEF HdcpCheck, SwitchTypeOK, LoopTypeOK, WorldTypeOK,
                 DisplayTypeOK, world
<1>8. CASE FinalRestore
  <2>1. FinalState \in StateType
    BY DEF FinalState, SwitchTypeOK, StateType
  <2>2. SwitchTypeOK'
    BY <1>8, <2>1, FramerateSwitchTyped DEF FinalRestore, SwitchTypeOK
  <2> QED BY <1>8, <2>2
             DEF FinalRestore, AfterRun, LoopTypeOK, WorldTypeOK, world, Alive
<1>9. CASE AfrdInit
  <2>1. /\ g_state' \in StateType /\ g_current_mode' \in ModeOrNone
        /\ modes' \in BOOLEAN /\ hdcp_enabled' \in BOOLEAN
    BY <1>9, HandleHdmiSwitchTyped DEF AfrdInit
  <2> QED BY <1>9, <2>1
             DEF AfrdInit, SwitchTypeOK, LoopTypeOK, WorldTypeOK,
                 DisplayTypeOK, world, active, Alive
<1>10. CASE Prologue
  <2>1. g_state' \in StateType /\ DisplayTypeOK'
    BY <1>10 DEF Prologue, SwitchTypeOK, DisplayTypeOK, display
  <2>2. stats' \in StatsType
    BY <1>10, <2>1, UpdateStatsTyped DEF Prologue, LoopTypeOK
  <2> QED BY <1>10, <2>1, <2>2
             DEF Prologue, SwitchTypeOK, LoopTypeOK, WorldTypeOK, world, Alive,
                 Loop, TimerState
<1> QED BY <1>1, <1>2, <1>3, <1>4, <1>5, <1>6, <1>7, <1>8, <1>9, <1>10 DEF Daemon

LEMMA EnvironmentTyped == TypeOK /\ Environment => TypeOK'
<1> SUFFICES ASSUME TypeOK, Environment PROVE TypeOK'
  OBVIOUS
<1> USE DEF TypeOK
<1>1. CASE Signal \/ HdmiPlug \/ Quieten
  <2>1. UNCHANGED <<daemon, hw>>
    BY <1>1 DEF Signal, HdmiPlug, Quieten
  <2>2. SwitchTypeOK'
    BY <2>1 DEF SwitchTypeOK, DisplayTypeOK, daemon, active
  <2>3. g_shutdown' \in BOOLEAN /\ touched' \in BOOLEAN
    BY <1>1 DEF Signal, HdmiPlug, Quieten, LoopTypeOK
  <2>4. LoopTypeOK'
    BY <2>1, <2>3 DEF LoopTypeOK, daemon, active
  <2>5. WorldTypeOK'
    BY <1>1 DEF Signal, HdmiPlug, Quieten, WorldTypeOK, world
  <2> QED BY <2>2, <2>4, <2>5
<1>2. CASE Crash
  <2>1. SwitchTypeOK'
    <3>1. CASE Switched
      BY <1>2, <3>1, FramerateRestoreTyped DEF Crash, SwitchTypeOK
    <3>2. CASE ~Switched
      BY <1>2, <3>2 DEF Crash, SwitchTypeOK, DisplayTypeOK, display
    <3> QED BY <3>1, <3>2
  <2> QED BY <1>2, <2>1 DEF Crash, LoopTypeOK, WorldTypeOK, world
<1>3. CASE HdcpDrop
  <2>1. hw' \in HwType
    BY <1>3 DEF HdcpDrop, SwitchTypeOK, DisplayTypeOK, HwType
  <2> QED BY <1>3, <2>1 DEF HdcpDrop, SwitchTypeOK, LoopTypeOK, WorldTypeOK,
                            DisplayTypeOK, daemon, world, active
<1>4. ASSUME NEW m \in Mode, UserMode(m) PROVE TypeOK'
  <2>1. hw' \in HwType
    BY <1>4 DEF UserMode, SwitchTypeOK, DisplayTypeOK, HwType, Mode
  <2> QED BY <1>4, <2>1 DEF UserMode, SwitchTypeOK, LoopTypeOK, WorldTypeOK,
                            DisplayTypeOK, daemon, active
<1>5. ASSUME NEW c \in Config, WriteConfig(c) PROVE TypeOK'
  BY <1>5 DEF WriteConfig, SwitchTypeOK, LoopTypeOK, WorldTypeOK, DisplayTypeOK,
              daemon, active
<1> QED BY <1>1, <1>2, <1>3, <1>4, <1>5 DEF Environment

LEMMA StutterTyped == TypeOK /\ UNCHANGED vars => TypeOK'
  BY DEF TypeOK, SwitchTypeOK, LoopTypeOK, WorldTypeOK, DisplayTypeOK, vars,
         daemon, world, active

\* For every instance, each variable of afrd keeps its range.
THEOREM TypeCorrect == Spec => []TypeOK
<1>1. TypeOK /\ [Next]_vars => TypeOK'
  BY UeventsTyped, ApiTyped, DaemonTyped, EnvironmentTyped, StutterTyped
     DEF Next, Terminated
<1> QED BY <1>1, InitTyped, PTL DEF Spec

-----------------------------------------------------------------------------
(* The timers of a switch.                                                 *)
(*                                                                         *)
(* BlackScreenHasPendingSwitch, DetectionIsBounded and                     *)
(* BlackoutOnlyFromOriginal are consequences of one invariant: an armed    *)
(* blackout stands before an armed switch in the original mode, a black    *)
(* screen before an armed switch, and a switch that waits for a frame rate *)
(* has its time limit.  The first two need to know that afrd_init finds    *)
(* both timers stopped.                                                    *)

BlackoutIsArmedSafely ==
  ost_blackout # "off" => ost_switch # "off" /\ cfg.enable /\ ~Switched

InitIsIdle ==
  pc \in {"init", "prologue"} => ost_switch = "off" /\ ost_blackout = "off"

SwitchInv == BlackoutIsArmedSafely /\ DetectionIsBounded /\ InitIsIdle

BlackScreenIsTemporary == pc \in Alive /\ g_blackened => ost_switch # "off"

\* display_mode_switch ends with a picture.
LEMMA DisplayModeSwitchLights ==
  ASSUME DisplayTypeOK, NEW mode, NEW force, DisplayModeSwitch(mode, force)
  PROVE  ~g_blackened'
  BY DEF DisplayTypeOK, DisplayModeSwitch, display

\* framerate_restore stops both timers and ends with a picture, whether it has
\* been asked to restore only a black screen or not.
LEMMA FramerateRestoreEffect ==
  ASSUME DisplayTypeOK, NEW gs, NEW b \in BOOLEAN, FramerateRestore(gs, b)
  PROVE  ost_switch' = "off" /\ ost_blackout' = "off" /\ ~g_blackened'
<1>1. CASE b /\ ~g_blackened
  BY <1>1 DEF FramerateRestore, display
<1>2. CASE ~(b /\ ~g_blackened)
  BY <1>2, DisplayModeSwitchLights DEF FramerateRestore
<1> QED BY <1>1, <1>2

\* What framerate_switch can come to.
Over == ost_switch' = "off" /\ ost_blackout' = "off" /\ ~g_blackened'
Done(switch) ==
  /\ ost_switch' = switch /\ ost_blackout' = "off" /\ ~g_blackened'
  /\ g_state'.hz # NoHz
Waiting(gs) ==
  /\ ost_switch' = "run" /\ UNCHANGED <<ost_blackout, g_blackened>>
  /\ ~gs.restore /\ gs.hz = NoHz /\ gs.hz_ost # "due"
  /\ g_state'.hz_ost = gs.hz_ost /\ g_state'.orig_mode = gs.orig_mode

LEMMA SwitchToHzEffect ==
  ASSUME DisplayTypeOK, NEW gs \in StateType, gs.hz # NoHz, NEW force,
         NEW switch, SwitchToHz(gs, force, switch)
  PROVE  Over \/ Done(switch)
<1>1. CASE FramerateRestore(gs, TRUE)
  BY <1>1, FramerateRestoreEffect DEF Over
<1>2. CASE SwitchTo(gs, BestMode(gs.hz), force, switch)
  <2>1. ~g_blackened'
    BY <1>2, DisplayModeSwitchLights DEF SwitchTo
  <2>2. g_state'.hz = gs.hz
    BY <1>2 DEF SwitchTo, StateType
  <2> QED BY <1>2, <2>1, <2>2 DEF SwitchTo, Done
<1> QED BY <1>1, <1>2 DEF SwitchToHz

LEMMA DetectEffect ==
  ASSUME DisplayTypeOK, NEW gs \in StateType, ~gs.restore, gs.hz = NoHz,
         NEW force, NEW switch, Detect(gs, force, switch)
  PROVE  Over \/ Done(switch) \/ Waiting(gs)
<1>1. PICK found \in Hz \union {NoHz} :
        IF gs.hz_ost = "due"
        THEN LET late == [gs EXCEPT !.hz_ost = "off", !.hz = found]
             IN /\ gs.sampled \/ found = NoHz
                /\ IF found = NoHz THEN GiveUp(late)
                   ELSE SwitchToHz(late, force, switch)
        ELSE IF found = NoHz THEN RetryDetection(gs)
             ELSE SwitchToHz([gs EXCEPT !.hz = found, !.sampled = TRUE],
                             force, switch)
  BY RatesAreHz DEF Detect
<1> DEFINE late == [gs EXCEPT !.hz_ost = "off", !.hz = found]
           known == [gs EXCEPT !.hz = found, !.sampled = TRUE]
<1>2. late \in StateType /\ late.hz = found
      /\ known \in StateType /\ known.hz = found
  BY DEF StateType, TimerState
<1>3. CASE GiveUp(late)
  BY <1>3, FramerateRestoreEffect DEF GiveUp, Over
<1>4. CASE found # NoHz /\ SwitchToHz(late, force, switch)
  <2> HIDE DEF late
  <2> QED BY <1>2, <1>4, SwitchToHzEffect
<1>5. CASE found # NoHz /\ SwitchToHz(known, force, switch)
  <2> HIDE DEF known
  <2> QED BY <1>2, <1>5, SwitchToHzEffect
<1>6. CASE gs.hz_ost # "due" /\ RetryDetection(gs)
  <2>1. CASE cfg.retry
    BY <1>6, <2>1 DEF RetryDetection, Waiting, StateType, display
  <2>2. CASE ~cfg.retry
    BY <1>6, <2>2, FramerateRestoreEffect DEF RetryDetection, GiveUp, Over
  <2> QED BY <2>1, <2>2
<1> QED BY <1>1, <1>3, <1>4, <1>5, <1>6

LEMMA FramerateSwitchEffect ==
  ASSUME DisplayTypeOK, NEW gs0 \in StateType, NEW force, NEW switch,
         FramerateSwitch(gs0, force, switch)
  PROVE  Over \/ Done(switch) \/ Waiting(gs0)
<1> DEFINE gs == [gs0 EXCEPT !.delayed_switch = FALSE]
<1>1. /\ gs \in StateType /\ gs.hz = gs0.hz /\ gs.restore = gs0.restore
      /\ gs.hz_ost = gs0.hz_ost /\ gs.orig_mode = gs0.orig_mode
  BY DEF StateType
<1>2. \/ FramerateRestore(gs, FALSE)
      \/ FramerateRestore(gs, TRUE)
      \/ ~gs.restore /\ gs.hz = NoHz /\ Detect(gs, force, switch)
      \/ gs.hz # NoHz /\ SwitchToHz(gs, force, switch)
  BY DEF FramerateSwitch
<1>3. Waiting(gs) => Waiting(gs0)
  BY <1>1 DEF Waiting
<1> HIDE DEF gs
<1> QED
  <2>1. CASE FramerateRestore(gs, FALSE) \/ FramerateRestore(gs, TRUE)
    BY <2>1, FramerateRestoreEffect DEF Over
  <2>2. CASE ~gs.restore /\ gs.hz = NoHz /\ Detect(gs, force, switch)
    BY <1>1, <1>3, <2>2, DetectEffect
  <2>3. CASE gs.hz # NoHz /\ SwitchToHz(gs, force, switch)
    BY <1>1, <2>3, SwitchToHzEffect
  <2> QED BY <1>2, <2>1, <2>2, <2>3

\* What delay_framerate_switch can come to.
Skipped(codec) ==
  /\ ost_switch' = "off" /\ ost_blackout' = "off" /\ UNCHANGED g_blackened
  /\ codec \in cfg.vdec_blacklist
Armed(restore) ==
  /\ ost_switch' # "off" /\ UNCHANGED g_blackened
  /\ g_state'.restore = restore
  /\ g_state'.orig_mode = g_state.orig_mode
  /\ ~restore => g_state'.hz_ost # "off"
  /\ ost_blackout' # "off" => cfg.enable /\ ~Switched

LEMMA DelayFramerateSwitchEffect ==
  ASSUME DisplayTypeOK, g_state \in StateType, frame_rate_hint # NoHint =>
           frame_rate_hint \in Hz \union {NoHz},
         NEW restore \in BOOLEAN, NEW hz \in Hz \union {NoHz},
         NEW codec \in Codec \union {NoCodec},
         DelayFramerateSwitch(restore, hz, codec)
  PROVE  Over \/ Skipped(codec) \/ Armed(restore)
<1>1. CASE Ignored /\ IgnoreStart
  BY <1>1 DEF Ignored, IgnoreStart, Over, display
<1>2. CASE RestoreDisabled
  <2>1. CASE g_blackened
    BY <1>2, <2>1, DisplayModeSwitchLights DEF RestoreDisabled, Over
  <2>2. CASE ~g_blackened
    BY <1>2, <2>2 DEF RestoreDisabled, Over, display
  <2> QED BY <2>1, <2>2
<1>3. CASE codec \in cfg.vdec_blacklist /\ Blacklisted
  BY <1>3 DEF Blacklisted, Skipped, display
<1>4. CASE ArmSwitch(restore, hz, codec)
  <2> DEFINE turned == Turned(restore, hz, codec)
  <2>1. /\ turned \in StateType /\ turned.restore = restore
        /\ turned.orig_mode = g_state.orig_mode
    BY DEF Turned, StateType
  <2>2. Hint(restore, hz) \in Hz \union {NoHz}
    BY DEF Hint
  <2>3. PICK gs \in WithHint(turned, Hint(restore, hz)) :
          /\ ost_switch' = Arm(SwitchDelay(restore))
          /\ g_state' = [gs EXCEPT !.hz_ost = TimeLimit(restore),
                                   !.delayed_switch = @ \/ ~restore]
          /\ ost_blackout' = IF ~restore /\ BlackoutWanted(gs) THEN "run"
                             ELSE "off"
          /\ UNCHANGED <<display, ost_hdcp, stats>>
    BY <1>4 DEF ArmSwitch
  <2> HIDE DEF turned
  <2>4. /\ gs \in StateType /\ gs.restore = restore
        /\ gs.orig_mode = g_state.orig_mode
    BY <2>1, <2>2, <2>3, RatesAreHz DEF WithHint, StateType
  <2>5. ost_switch' # "off"
    BY <2>3 DEF Arm
  <2>6. /\ g_state'.restore = restore
        /\ g_state'.orig_mode = g_state.orig_mode
        /\ g_state'.hz_ost = TimeLimit(restore)
    BY <2>3, <2>4 DEF StateType
  <2>7. ~restore => TimeLimit(restore) # "off"
    BY DEF TimeLimit, Arm
  <2>8. ost_blackout' # "off" => cfg.enable /\ ~Switched
    BY <2>3, <2>4 DEF BlackoutWanted, Switched
  <2> QED BY <2>3, <2>5, <2>6, <2>7, <2>8 DEF Armed, display
<1> QED BY <1>1, <1>2, <1>3, <1>4 DEF DelayFramerateSwitch, IgnoreEvent

LEMMA SwitchInvInit == Init => SwitchInv /\ BlackScreenIsTemporary
  BY DEF Init, SwitchInv, BlackoutIsArmedSafely, DetectionIsBounded, InitIsIdle,
         BlackScreenIsTemporary, Loop

\* Steps that leave the switch alone keep the invariant unless they enter the
\* loop or run afrd_init.
LEMMA SwitchInvFrame ==
  ASSUME SwitchInv, UNCHANGED <<g_state, ost_switch, ost_blackout, cfg>>,
         pc' \in Loop => pc \in Loop,
         pc' \notin {"init", "prologue"}
  PROVE  SwitchInv'
  BY DEF SwitchInv, BlackoutIsArmedSafely, DetectionIsBounded, InitIsIdle, Switched

\* framerate_switch keeps the invariant.
LEMMA SwitchInvSwitch ==
  ASSUME TypeOK, SwitchInv, NEW gs0 \in StateType, NEW force, NEW switch,
         gs0.orig_mode = g_state.orig_mode,
         ~gs0.restore /\ gs0.hz = NoHz /\ pc' \in Loop => gs0.hz_ost # "off",
         FramerateSwitch(gs0, force, switch),
         pc' \notin {"init", "prologue"}, cfg' = cfg
  PROVE  SwitchInv'
<1>1. Over \/ Done(switch) \/ Waiting(gs0)
  BY FramerateSwitchEffect DEF TypeOK, SwitchTypeOK
<1>2. CASE Over
  BY <1>2 DEF Over, SwitchInv, BlackoutIsArmedSafely, DetectionIsBounded, InitIsIdle
<1>3. CASE Done(switch)
  BY <1>3 DEF Done, SwitchInv, BlackoutIsArmedSafely, DetectionIsBounded, InitIsIdle
<1>4. CASE Waiting(gs0)
  BY <1>4 DEF Waiting, SwitchInv, BlackoutIsArmedSafely, DetectionIsBounded,
              InitIsIdle, Switched
<1> QED BY <1>1, <1>2, <1>3, <1>4

\* So does delay_framerate_switch.
LEMMA SwitchInvDelay ==
  ASSUME TypeOK, SwitchInv, NEW restore \in BOOLEAN,
         NEW hz \in Hz \union {NoHz}, NEW codec \in Codec \union {NoCodec},
         DelayFramerateSwitch(restore, hz, codec),
         pc = "uevents", UNCHANGED <<pc, cfg>>
  PROVE  SwitchInv'
<1>1. Over \/ Skipped(codec) \/ Armed(restore)
  BY DelayFramerateSwitchEffect DEF TypeOK, SwitchTypeOK, LoopTypeOK
<1>2. CASE Over
  BY <1>2 DEF Over, SwitchInv, BlackoutIsArmedSafely, DetectionIsBounded, InitIsIdle
<1>3. CASE Skipped(codec)
  BY <1>3 DEF Skipped, SwitchInv, BlackoutIsArmedSafely, DetectionIsBounded, InitIsIdle
<1>4. CASE Armed(restore)
  BY <1>4 DEF Armed, SwitchInv, BlackoutIsArmedSafely, DetectionIsBounded,
              InitIsIdle, Switched
<1> QED BY <1>1, <1>2, <1>3, <1>4

LEMMA SwitchInvStep == TypeOK /\ SwitchInv /\ [Next]_vars => SwitchInv'
<1> SUFFICES ASSUME TypeOK, SwitchInv, [Next]_vars PROVE SwitchInv'
  OBVIOUS
<1>1. ASSUME NEW c \in Codec, VdecAdd(c) \/ VdecRemove(c) PROVE SwitchInv'
  BY <1>1, SwitchInvDelay DEF VdecAdd, VdecRemove, UNTOUCHED
<1>2. ASSUME NEW c \in Codec \union {NoCodec}, NEW hz \in Hz \union {NoHz},
             FrhintEnd(c) \/ FrhintStart(hz, c)
      PROVE  SwitchInv'
  <2>1. pc = "uevents" /\ UNCHANGED <<pc, cfg>>
    BY <1>2 DEF FrhintEnd, FrhintStart, UNTOUCHED
  <2>2. CASE DelayFramerateSwitch(FALSE, hz, c)
    BY <2>1, <2>2, SwitchInvDelay
  <2>3. CASE DelayFramerateSwitch(TRUE, NoHz, c)
    BY <2>1, <2>3, SwitchInvDelay
  <2>4. CASE UNCHANGED <<display, g_state, ost_blackout, ost_switch, ost_off,
                         ost_hdcp, stats>>
    BY <2>1, <2>4, SwitchInvFrame DEF Loop
  <2> QED BY <1>2, <2>2, <2>3, <2>4 DEF FrhintEnd, FrhintStart
<1>3. CASE HdmiUevent \/ HdcpUevent \/ UeventsDone \/ ApiReconf \/ ApiDone
           \/ HdcpCheck \/ (\E hz \in Hz \union {NoHz} : ApiFrameRateHint(hz))
  BY <1>3, SwitchInvFrame
     DEF HdmiUevent, HdcpUevent, UeventsDone, ApiReconf, ApiDone, HdcpCheck,
         ApiFrameRateHint, active, Loop
<1>4. ASSUME NEW hz \in Hz \union {NoHz}, ApiRefreshRate(hz) PROVE SwitchInv'
  <2> DEFINE gs == [g_state EXCEPT !.restore = (hz = NoHz), !.hz = hz]
  <2>1. /\ gs \in StateType /\ gs.orig_mode = g_state.orig_mode
        /\ gs.restore \/ gs.hz # NoHz
    BY DEF TypeOK, SwitchTypeOK, StateType
  <2>2. FramerateSwitch(gs, TRUE, ost_switch) /\ UNCHANGED <<pc, cfg>>
        /\ pc' \notin {"init", "prologue"}
    BY <1>4 DEF ApiRefreshRate, UNTOUCHED
  <2> HIDE DEF gs
  <2> QED BY <2>1, <2>2, SwitchInvSwitch
<1>5. CASE Poll
  <2>1. PICK t \in Elapsed(g_state.hz_ost) :
          g_state' = [g_state EXCEPT !.hz_ost = t]
    BY <1>5 DEF Poll
  <2>2. /\ g_state'.hz_ost = t /\ g_state'.restore = g_state.restore
        /\ g_state'.hz = g_state.hz /\ g_state'.orig_mode = g_state.orig_mode
    BY <2>1 DEF TypeOK, SwitchTypeOK, StateType
  <2>3. /\ t = "off" <=> g_state.hz_ost = "off"
        /\ ost_switch' = "off" <=> ost_switch = "off"
        /\ ost_blackout' = "off" <=> ost_blackout = "off"
    BY <1>5 DEF Poll, Elapsed
  <2> QED BY <1>5, <2>2, <2>3
             DEF Poll, SwitchInv, BlackoutIsArmedSafely, DetectionIsBounded,
                 InitIsIdle, Switched, Loop
<1>6. CASE Blackout
  <2>1. UNCHANGED <<ost_switch, cfg>> /\ pc = "blackout" /\ pc' = "switch"
    BY <1>6 DEF Blackout
  <2>2. CASE UNCHANGED <<g_state, ost_blackout>>
    BY <2>1, <2>2, SwitchInvFrame DEF Loop
  <2>3. CASE ost_blackout' = "off"
    <3>1. /\ g_state'.restore = g_state.restore /\ g_state'.hz = g_state.hz
          /\ g_state'.hz_ost = g_state.hz_ost
      BY <1>6 DEF Blackout, Blacken, TypeOK, SwitchTypeOK, StateType
    <3> QED BY <2>1, <2>3, <3>1
               DEF SwitchInv, BlackoutIsArmedSafely, DetectionIsBounded,
                   InitIsIdle, Loop
  <2> QED BY <1>6, <2>2, <2>3 DEF Blackout
<1>7. CASE Switch
  <2>1. pc = "switch" /\ pc' = "hdmi" /\ cfg' = cfg
    BY <1>7 DEF Switch
  <2>2. CASE ost_switch = "due"
    <3>1. FramerateSwitch(g_state, FALSE, "off")
      BY <1>7, <2>2 DEF Switch
    <3>2. ~g_state.restore /\ g_state.hz = NoHz => g_state.hz_ost # "off"
      BY <2>1, <2>2 DEF SwitchInv, DetectionIsBounded, Loop
    <3>3. g_state \in StateType
      BY DEF TypeOK, SwitchTypeOK
    <3> QED BY <2>1, <3>1, <3>2, <3>3, SwitchInvSwitch
  <2>3. CASE ost_switch # "due"
    BY <1>7, <2>1, <2>3, SwitchInvFrame DEF Switch, Loop
  <2> QED BY <2>2, <2>3
<1>8. CASE Hdmi
  <2>1. /\ UNCHANGED <<ost_switch, ost_blackout, cfg>>
        /\ pc = "hdmi" /\ pc' = "config"
    BY <1>8 DEF Hdmi
  <2>2. /\ g_state'.restore = g_state.restore /\ g_state'.hz = g_state.hz
        /\ g_state'.hz_ost = g_state.hz_ost
        /\ \/ g_state'.orig_mode = g_state.orig_mode
           \/ g_state'.orig_mode = NoMode
    BY <1>8 DEF Hdmi, HandleHdmiSwitch, TypeOK, SwitchTypeOK, StateType
  <2> QED BY <2>1, <2>2
             DEF SwitchInv, BlackoutIsArmedSafely, DetectionIsBounded,
                 InitIsIdle, Switched, NoMode, Loop
<1>9. CASE CheckConfig \/ Leave
  BY <1>9, SwitchInvFrame DEF CheckConfig, Leave, active, Loop
<1>10. CASE FinalRestore \/ Crash
  <2>1. cfg' = cfg /\ pc' \notin Loop
    BY <1>10 DEF FinalRestore, Crash, AfterRun, Loop
  <2>2. CASE Over
    BY <2>1, <2>2 DEF Over, SwitchInv, BlackoutIsArmedSafely,
                      DetectionIsBounded, InitIsIdle
  <2>3. CASE pc' = "dead" /\ UNCHANGED <<g_state, ost_switch, ost_blackout>>
    BY <2>1, <2>3, SwitchInvFrame
  <2>4. CASE FinalRestore
    <3> DEFINE gs == [FinalState EXCEPT !.delayed_switch = FALSE]
    <3>1. FinalState.restore
      BY DEF FinalState, TypeOK, SwitchTypeOK, StateType
    <3>2. FramerateRestore(gs, FALSE)
      BY <2>4, <3>1 DEF FinalRestore, FramerateSwitch, FinalState, TypeOK,
                        SwitchTypeOK, StateType
    <3> QED BY <2>2, <3>2, FramerateRestoreEffect DEF Over, TypeOK, SwitchTypeOK
  <2>5. CASE Crash
    BY <2>2, <2>3, <2>5, FramerateRestoreEffect
       DEF Crash, Over, TypeOK, SwitchTypeOK
  <2> QED BY <1>10, <2>4, <2>5
<1>11. CASE AfrdInit
  BY <1>11 DEF AfrdInit, active, SwitchInv, BlackoutIsArmedSafely,
               DetectionIsBounded, InitIsIdle, Loop
<1>12. CASE Prologue
  BY <1>12 DEF Prologue, SwitchInv, BlackoutIsArmedSafely, DetectionIsBounded,
               InitIsIdle
<1>13. CASE UNCHANGED <<pc, g_state, ost_switch, ost_blackout, cfg>>
  BY <1>13 DEF SwitchInv, BlackoutIsArmedSafely, DetectionIsBounded, InitIsIdle,
               Switched
<1>14. ASSUME Environment, ~Crash
       PROVE  UNCHANGED <<pc, g_state, ost_switch, ost_blackout, cfg>>
  BY <1>14 DEF Environment, Signal, HdmiPlug, HdcpDrop, Quieten, UserMode,
               WriteConfig, daemon, active
<1>15. UNCHANGED vars => UNCHANGED <<pc, g_state, ost_switch, ost_blackout, cfg>>
  BY DEF vars, daemon, active
<1>16. CASE Uevents
  <2>1. NoHz \in Hz \union {NoHz}
    OBVIOUS
  <2> QED BY <1>1, <1>2, <1>3, <1>16, <2>1, RatesAreHz DEF Uevents
<1>17. CASE Api
  BY <1>3, <1>4, <1>17, RatesAreHz DEF Api
<1>18. CASE Daemon
  BY <1>3, <1>5, <1>6, <1>7, <1>8, <1>9, <1>10, <1>11, <1>12, <1>18 DEF Daemon
<1> QED BY <1>10, <1>13, <1>14, <1>15, <1>16, <1>17, <1>18 DEF Next, Terminated

LEMMA SwitchInvAlways == Spec => [](TypeOK /\ SwitchInv)
<1>1. TypeOK /\ SwitchInv /\ [Next]_vars => SwitchInv'
  BY SwitchInvStep
<1> QED BY <1>1, SwitchInvInit, TypeCorrect, PTL DEF Spec

\* For every instance, a switch that waits for a frame rate has a time limit.
THEOREM DetectionBounded == Spec => []DetectionIsBounded
<1>1. SwitchInv => DetectionIsBounded
  BY DEF SwitchInv
<1> QED BY <1>1, SwitchInvAlways, PTL

\* What a step does to a black screen: only the blackout itself brings one;
\* every other step ends it, leaves it with the switch armed, leaves both as
\* they were, or is the uevent of a blacklisted decoder.
SameScreen ==
  /\ UNCHANGED g_blackened /\ (ost_switch' = "off" <=> ost_switch = "off")
  /\ pc' \in Alive => pc \in Alive
AwaitsSwitch == UNCHANGED g_blackened /\ ost_switch' # "off"
SkipsBlacklisted ==
  /\ UNCHANGED g_blackened
  /\ \E c \in Codec \union {NoCodec} : c \in cfg.vdec_blacklist
ScreenEffect ==
  ~g_blackened' \/ SameScreen \/ AwaitsSwitch \/ SkipsBlacklisted

LEMMA ScreenDelay ==
  ASSUME TypeOK, NEW restore \in BOOLEAN, NEW hz \in Hz \union {NoHz},
         NEW codec \in Codec \union {NoCodec},
         DelayFramerateSwitch(restore, hz, codec)
  PROVE  ScreenEffect
<1>1. Over \/ Skipped(codec) \/ Armed(restore)
  BY DelayFramerateSwitchEffect DEF TypeOK, SwitchTypeOK, LoopTypeOK
<1> QED BY <1>1 DEF Over, Skipped, Armed, ScreenEffect, AwaitsSwitch,
                    SkipsBlacklisted

LEMMA ScreenSwitch ==
  ASSUME TypeOK, NEW gs \in StateType, NEW force, NEW switch,
         FramerateSwitch(gs, force, switch)
  PROVE  ScreenEffect
<1>1. Over \/ Done(switch) \/ Waiting(gs)
  BY FramerateSwitchEffect DEF TypeOK, SwitchTypeOK
<1> QED BY <1>1 DEF Over, Done, Waiting, ScreenEffect, AwaitsSwitch

LEMMA ScreenStep ==
  ASSUME TypeOK, InitIsIdle, [Next]_vars
  PROVE  Blackout \/ ScreenEffect
<1>1. ASSUME NEW c \in Codec, VdecAdd(c) \/ VdecRemove(c) PROVE ScreenEffect
  BY <1>1, ScreenDelay DEF VdecAdd, VdecRemove
<1>2. ASSUME NEW c \in Codec \union {NoCodec}, NEW hz \in Hz \union {NoHz},
             FrhintEnd(c) \/ FrhintStart(hz, c)
      PROVE  ScreenEffect
  <2>1. CASE DelayFramerateSwitch(FALSE, hz, c)
    BY <2>1, ScreenDelay
  <2>2. CASE DelayFramerateSwitch(TRUE, NoHz, c)
    BY <2>2, ScreenDelay
  <2>3. CASE UNCHANGED <<display, g_state, ost_blackout, ost_switch, ost_off,
                         ost_hdcp, stats>> /\ UNCHANGED pc
    BY <2>3 DEF ScreenEffect, SameScreen, display
  <2> QED BY <1>2, <2>1, <2>2, <2>3 DEF FrhintEnd, FrhintStart, UNTOUCHED
<1>3. CASE HdmiUevent \/ HdcpUevent \/ UeventsDone \/ ApiReconf \/ ApiDone
           \/ HdcpCheck \/ (\E hz \in Hz \union {NoHz} : ApiFrameRateHint(hz))
           \/ Hdmi \/ CheckConfig \/ Leave \/ AfrdInit
  BY <1>3 DEF HdmiUevent, HdcpUevent, UeventsDone, ApiReconf, ApiDone,
              HdcpCheck, ApiFrameRateHint, Hdmi, CheckConfig, Leave, AfrdInit,
              active, display, Alive, Loop, ScreenEffect, SameScreen
<1>4. ASSUME NEW hz \in Hz \union {NoHz}, ApiRefreshRate(hz)
      PROVE  ScreenEffect
  <2> DEFINE gs == [g_state EXCEPT !.restore = (hz = NoHz), !.hz = hz]
  <2>1. gs \in StateType
    BY DEF TypeOK, SwitchTypeOK, StateType
  <2>2. FramerateSwitch(gs, TRUE, ost_switch)
    BY <1>4 DEF ApiRefreshRate
  <2> HIDE DEF gs
  <2> QED BY <2>1, <2>2, ScreenSwitch
<1>5. CASE Poll
  <2>1. ost_switch' = "off" <=> ost_switch = "off"
    BY <1>5 DEF Poll, Elapsed
  <2> QED BY <1>5, <2>1 DEF Poll, display, Alive, Loop, ScreenEffect, SameScreen
<1>6. CASE Switch
  <2>1. CASE FramerateSwitch(g_state, FALSE, "off")
    BY <2>1, ScreenSwitch DEF TypeOK, SwitchTypeOK
  <2>2. CASE UNCHANGED <<g_state, display, ost_switch, ost_blackout, ost_hdcp,
                         stats>>
    BY <1>6, <2>2 DEF Switch, display, Alive, Loop, ScreenEffect, SameScreen
  <2> QED BY <1>6, <2>1, <2>2 DEF Switch
<1>7. CASE FinalRestore
  <2>1. FinalState \in StateType
    BY DEF FinalState, TypeOK, SwitchTypeOK, StateType
  <2> QED BY <1>7, <2>1, ScreenSwitch DEF FinalRestore
<1>8. CASE Crash
  <2>1. CASE FramerateRestore(g_state, FALSE)
    BY <2>1, FramerateRestoreEffect DEF ScreenEffect, TypeOK, SwitchTypeOK
  <2>2. CASE UNCHANGED <<g_state, display, ost_switch, ost_blackout, ost_hdcp,
                         stats>>
    BY <1>8, <2>2 DEF Crash, display, ScreenEffect, SameScreen
  <2> QED BY <1>8, <2>1, <2>2 DEF Crash
<1>9. CASE Prologue
  <2>1. ost_switch = "off" /\ ost_switch' = "off" /\ UNCHANGED g_blackened
        /\ pc \in Alive
    BY <1>9 DEF Prologue, InitIsIdle, display, Alive
  <2> QED BY <2>1 DEF ScreenEffect, SameScreen
<1>10. ASSUME Environment, ~Crash PROVE ScreenEffect
  BY <1>10 DEF Environment, Signal, HdmiPlug, HdcpDrop, Quieten, UserMode,
               WriteConfig, daemon, active, ScreenEffect, SameScreen
<1>11. CASE UNCHANGED vars
  BY <1>11 DEF vars, daemon, active, ScreenEffect, SameScreen
<1>12. CASE Uevents
  <2>1. NoHz \in Hz \union {NoHz}
    OBVIOUS
  <2> QED BY <1>1, <1>2, <1>3, <1>12, <2>1, RatesAreHz DEF Uevents
<1>13. CASE Api
  BY <1>3, <1>4, <1>13, RatesAreHz DEF Api
<1>14. CASE Daemon
  BY <1>3, <1>5, <1>6, <1>7, <1>9, <1>14 DEF Daemon
<1> QED BY <1>8, <1>10, <1>11, <1>12, <1>13, <1>14 DEF Next, Terminated

\* For every instance, the screen goes black only from the original mode, while
\* afrd is enabled and with the switch armed.
THEOREM BlackoutOnlyBeforeSwitch == Spec => BlackoutOnlyFromOriginal
<1>1. TypeOK /\ SwitchInv /\ [Next]_vars
        => [~g_blackened /\ g_blackened'
              => cfg.enable /\ ~Switched /\ ost_switch # "off"]_vars
  <2> SUFFICES ASSUME TypeOK, SwitchInv, [Next]_vars,
                      ~g_blackened, g_blackened'
               PROVE  cfg.enable /\ ~Switched /\ ost_switch # "off"
    OBVIOUS
  <2>1. Blackout \/ ScreenEffect
    BY ScreenStep DEF SwitchInv
  <2>2. ~ScreenEffect
    BY DEF ScreenEffect, SameScreen, AwaitsSwitch, SkipsBlacklisted, TypeOK,
           SwitchTypeOK, DisplayTypeOK
  <2>3. ost_blackout = "due"
    BY <2>1, <2>2 DEF Blackout, display
  <2> QED BY <2>3 DEF SwitchInv, BlackoutIsArmedSafely
<1> QED BY <1>1, SwitchInvAlways, PTL DEF Spec, BlackoutOnlyFromOriginal

\* For every instance without a decoder blacklist, a black screen always has the
\* switch armed that ends it.
THEOREM BlackScreenAwaitsSwitch ==
  ASSUME NoVdecBlacklist
  PROVE  Spec => []BlackScreenHasPendingSwitch
<1>1. ASSUME TypeOK, SwitchInv, BlackScreenIsTemporary, [Next]_vars
      PROVE  BlackScreenIsTemporary'
  <2>1. ~SkipsBlacklisted
    BY <1>1, NoVdecBlacklist
       DEF SkipsBlacklisted, NoVdecBlacklist, TypeOK, LoopTypeOK
  <2>2. CASE Blackout
    <3>1. pc \in Alive /\ UNCHANGED ost_switch
      BY <2>2 DEF Blackout, Alive, Loop
    <3>2. CASE ost_blackout = "due"
      BY <1>1, <3>1, <3>2
         DEF BlackScreenIsTemporary, SwitchInv, BlackoutIsArmedSafely
    <3>3. CASE ost_blackout # "due"
      BY <1>1, <2>2, <3>1, <3>3 DEF Blackout, BlackScreenIsTemporary, display
    <3> QED BY <3>2, <3>3
  <2>3. CASE ScreenEffect
    BY <1>1, <2>1, <2>3 DEF ScreenEffect, SameScreen, AwaitsSwitch,
                            BlackScreenIsTemporary
  <2> QED BY <1>1, <2>2, <2>3, ScreenStep DEF SwitchInv
<1>2. TypeOK /\ SwitchInv /\ BlackScreenIsTemporary /\ [Next]_vars
        => BlackScreenIsTemporary'
  BY <1>1
<1>3. SwitchInv /\ BlackScreenIsTemporary => BlackScreenHasPendingSwitch
  BY DEF SwitchInv, BlackoutIsArmedSafely, BlackScreenIsTemporary,
         BlackScreenHasPendingSwitch
<1> QED BY <1>2, <1>3, SwitchInvInit, SwitchInvAlways, PTL DEF Spec
=============================================================================
