-------------------------- MODULE AfrdDisplayProofs --------------------------
(***************************************************************************)
(* What afrd does to the display, for every instance: what it believes of  *)
(* the kernel is so, clients are told of it, the user's mode is kept and   *)
(* comes back, a disabled afrd touches nothing, and the display is         *)
(* borrowed as DisplayLoan says.                                           *)
(*                                                                         *)
(* Every step has one of nine effects on the display (StepEffect); the     *)
(* invariants follow from the effects, and do not look at actions again.   *)
(***************************************************************************)
EXTENDS AfrdProofs

SameShown == hw'.mode = hw.mode /\ hw'.policy = hw.policy /\ hw'.frac = hw.frac
SameMode ==
  /\ UNCHANGED <<g_blackened, g_current_mode>> /\ SameShown
  /\ g_state'.orig_mode = g_state.orig_mode

Kept == SameMode /\ UNCHANGED stats
Published == SameMode /\ UpdateStats
Restored ==
  /\ DisplayModeSwitch(RestoreMode(g_state), FALSE)
  /\ g_state' = ZeroState /\ UpdateStats
SwitchedTo ==
  /\ cfg.enable /\ g_current_mode.name # NoName
  /\ g_state'.orig_mode = SavedMode(g_state)
  /\ \E best \in Mode, force \in BOOLEAN : DisplayModeSwitch(best, force)
  /\ UpdateStats
Forgotten ==
  /\ ~cfg.delay_off /\ ~g_blackened
  /\ UNCHANGED display /\ g_state' = ZeroState /\ UpdateStats
Blackened == ~g_blackened /\ ost_blackout = "due" /\ Blacken
Replugged ==
  /\ ost_hdmi = "due" /\ HandleHdmiSwitch(hdmi_on)
  /\ UNCHANGED <<g_blackened, hw, stats>>
Handled == Kept \/ Published \/ Restored \/ SwitchedTo \/ Forgotten
Chosen == "user" \in Inputs /\ UNCHANGED daemon /\ hw'.mode \in ModeName
Effect == Handled \/ Blackened \/ Replugged \/ AfrdInit \/ Chosen

-----------------------------------------------------------------------------
(* The effects of the steps *)

LEMMA RestoreDisplay ==
  ASSUME NEW gs, gs.orig_mode = g_state.orig_mode, NEW b \in BOOLEAN,
         FramerateRestore(gs, b)
  PROVE  Kept \/ Restored
<1>1. CASE b /\ ~g_blackened
  BY <1>1 DEF FramerateRestore, Kept, SameMode, SameShown, display
<1>2. CASE ~(b /\ ~g_blackened)
  BY <1>2 DEF FramerateRestore, Restored, RestoreMode
<1> QED BY <1>1, <1>2

LEMMA HzDisplay ==
  ASSUME LoopTypeOK, cfg.enable, NEW gs \in StateType, gs.hz \in Hz,
         gs.orig_mode = g_state.orig_mode, NEW force \in BOOLEAN, NEW switch,
         SwitchToHz(gs, force, switch)
  PROVE  Handled
<1> DEFINE best == BestMode(gs.hz)
<1>1. CASE FramerateRestore(gs, TRUE)
  BY <1>1, RestoreDisplay DEF Handled
<1>2. CASE best # NoMode /\ SwitchTo(gs, best, force, switch)
  <2>1. best \in Mode /\ g_current_mode.name # NoName
    BY <1>2, BestModeTyped DEF BestMode, ModeOrNone
  <2>2. g_state'.orig_mode = SavedMode(g_state)
    BY <1>2 DEF SwitchTo, SavedMode, StateType
  <2> QED BY <1>2, <2>1, <2>2 DEF SwitchTo, SwitchedTo, Handled
<1> QED BY <1>1, <1>2 DEF SwitchToHz

LEMMA DetectDisplay ==
  ASSUME LoopTypeOK, cfg.enable, NEW gs \in StateType,
         gs.orig_mode = g_state.orig_mode, NEW force \in BOOLEAN, NEW switch,
         Detect(gs, force, switch)
  PROVE  Handled
<1>1. PICK found \in Hz \union {NoHz} :
        IF gs.hz_ost = "due"
        THEN LET late == [gs EXCEPT !.hz_ost = "off", !.hz = found]
             IN /\ gs.sampled \/ found = NoHz
                /\ IF found = NoHz THEN GiveUp(late)
                   ELSE SwitchToHz(late, force, switch)
        ELSE IF found = NoHz THEN RetryDetection(gs)
             ELSE SwitchToHz([gs EXCEPT !.hz = found, !.sampled = TRUE],
                             force, switch)
  BY RatesAreHz DEF Detect
<1> DEFINE late == [gs EXCEPT !.hz_ost = "off", !.hz = found]
           known == [gs EXCEPT !.hz = found, !.sampled = TRUE]
           again == [gs EXCEPT !.sampled = TRUE]
<1>2. /\ late \in StateType /\ late.hz = found /\ late.orig_mode = g_state.orig_mode
      /\ known \in StateType /\ known.hz = found /\ known.orig_mode = g_state.orig_mode
      /\ again.orig_mode = g_state.orig_mode
  BY DEF StateType, TimerState
<1>3. CASE GiveUp(late)
  <2> HIDE DEF late
  <2> QED BY <1>2, <1>3, RestoreDisplay DEF GiveUp, Handled
<1>4. CASE found # NoHz /\ SwitchToHz(late, force, switch)
  <2> HIDE DEF late
  <2> QED BY <1>2, <1>4, HzDisplay
<1>5. CASE found # NoHz /\ SwitchToHz(known, force, switch)
  <2> HIDE DEF known
  <2> QED BY <1>2, <1>5, HzDisplay
<1>6. CASE RetryDetection(gs)
  <2>1. CASE cfg.retry
    BY <1>2, <1>6, <2>1 DEF RetryDetection, Kept, Handled, SameMode, SameShown, display
  <2>2. CASE ~cfg.retry
    <3>1. GiveUp(again)
      BY <1>6, <2>2 DEF RetryDetection
    <3> HIDE DEF again
    <3> QED BY <1>2, <3>1, RestoreDisplay DEF GiveUp, Handled
  <2> QED BY <2>1, <2>2
<1> QED BY <1>1, <1>3, <1>4, <1>5, <1>6

LEMMA SwitchDisplay ==
  ASSUME LoopTypeOK, NEW gs0 \in StateType, gs0.orig_mode = g_state.orig_mode,
         NEW force \in BOOLEAN, NEW switch, FramerateSwitch(gs0, force, switch)
  PROVE  Handled
<1> DEFINE gs == [gs0 EXCEPT !.delayed_switch = FALSE]
<1>1. gs \in StateType /\ gs.orig_mode = g_state.orig_mode
  BY DEF StateType
<1>2. \/ \E b \in BOOLEAN : FramerateRestore(gs, b)
      \/ cfg.enable /\ Detect(gs, force, switch)
      \/ cfg.enable /\ gs.hz # NoHz /\ SwitchToHz(gs, force, switch)
  BY DEF FramerateSwitch, Enabled
<1>3. gs.hz # NoHz => gs.hz \in Hz
  BY <1>1 DEF StateType
<1> HIDE DEF gs
<1> QED BY <1>1, <1>2, <1>3, RestoreDisplay, DetectDisplay, HzDisplay DEF Handled

LEMMA DelayDisplay ==
  ASSUME TypeOK, NEW restore \in BOOLEAN, NEW hz \in Hz \union {NoHz},
         NEW codec \in Codec \union {NoCodec},
         DelayFramerateSwitch(restore, hz, codec)
  PROVE  Handled
<1>1. g_state \in StateType
  BY DEF TypeOK, SwitchTypeOK
<1>2. CASE Ignored
  BY <1>1, <1>2 DEF Ignored, Published, SameMode, SameShown, display, StateType, Handled
<1>3. CASE ~cfg.delay_off /\ RestoreDisabled
  BY <1>3 DEF RestoreDisabled, Restored, Forgotten, Handled
<1>4. CASE Blacklisted
  BY <1>4 DEF Blacklisted, Kept, SameMode, SameShown, display, Handled
<1>5. CASE ArmSwitch(restore, hz, codec)
  <2> DEFINE turned == Turned(restore, hz, codec)
  <2>1. turned \in StateType /\ turned.orig_mode = g_state.orig_mode
    BY <1>1 DEF Turned, StateType
  <2>2. PICK gs \in WithHint(turned, Hint(restore, hz)) :
          /\ g_state' = [gs EXCEPT !.hz_ost = TimeLimit(restore),
                                   !.delayed_switch = @ \/ ~restore]
          /\ UNCHANGED <<display, ost_hdcp, stats>>
    BY <1>5 DEF ArmSwitch
  <2> HIDE DEF turned
  <2>3. g_state'.orig_mode = g_state.orig_mode
    BY <2>1, <2>2 DEF WithHint, StateType
  <2> QED BY <2>2, <2>3 DEF Kept, SameMode, SameShown, display, Handled
<1> QED BY <1>2, <1>3, <1>4, <1>5 DEF DelayFramerateSwitch

LEMMA FinalDisplay ==
  ASSUME TypeOK, FinalRestore
  PROVE  Restored
<1> DEFINE gs == [FinalState EXCEPT !.delayed_switch = FALSE]
<1>1. FinalState \in StateType /\ FinalState.restore /\ FinalState.orig_mode = g_state.orig_mode
  BY DEF FinalState, TypeOK, SwitchTypeOK, StateType
<1>2. FramerateRestore(gs, FALSE) /\ gs.orig_mode = g_state.orig_mode
  BY <1>1 DEF FinalRestore, FramerateSwitch, StateType
<1> HIDE DEF gs
<1> QED BY <1>2 DEF FramerateRestore, Restored, RestoreMode

\* Every step has an effect.
LEMMA StepEffect == TypeOK /\ [Next]_vars => Effect
<1> SUFFICES ASSUME TypeOK, [Next]_vars PROVE Effect
  OBVIOUS
<1>0. g_state \in StateType /\ LoopTypeOK
  BY DEF TypeOK, SwitchTypeOK
<1>1. ASSUME NEW c \in Codec, VdecAdd(c) \/ VdecRemove(c) PROVE Effect
  BY <1>1, DelayDisplay DEF VdecAdd, VdecRemove, Effect
<1>2. ASSUME NEW c \in Codec \union {NoCodec}, NEW hz \in Hz \union {NoHz},
             FrhintEnd(c) \/ FrhintStart(hz, c)
      PROVE  Effect
  <2>1. CASE DelayFramerateSwitch(FALSE, hz, c)
    BY <2>1, DelayDisplay DEF Effect
  <2>2. CASE DelayFramerateSwitch(TRUE, NoHz, c)
    BY <2>2, DelayDisplay DEF Effect
  <2>3. CASE UNCHANGED <<display, g_state, ost_blackout, ost_switch, ost_off, ost_hdcp, stats>>
    BY <2>3 DEF Effect, Handled, Kept, SameMode, SameShown, display
  <2> QED BY <1>2, <2>1, <2>2, <2>3 DEF FrhintEnd, FrhintStart
<1>3. CASE HdmiUevent \/ UeventsDone \/ ApiReconf \/ ApiDone \/ CheckConfig \/ Leave
           \/ (\E hz \in Hz \union {NoHz} : ApiFrameRateHint(hz))
  BY <1>3 DEF HdmiUevent, UeventsDone, ApiReconf, ApiDone, CheckConfig, Leave,
              ApiFrameRateHint, display, Effect, Handled, Kept, SameMode, SameShown
<1>4. CASE HdcpUevent \/ HdcpCheck \/ HdcpDrop
  <2>1. /\ hw'.mode = hw.mode /\ hw'.policy = hw.policy /\ hw'.frac = hw.frac
        /\ UNCHANGED <<g_blackened, g_current_mode, g_state, stats>>
    BY <1>4 DEF HdcpUevent, HdcpCheck, HdcpDrop, HdcpRestored, TypeOK, SwitchTypeOK,
                DisplayTypeOK, HwType, daemon
  <2> QED BY <2>1 DEF Effect, Handled, Kept, SameMode, SameShown
<1>5. ASSUME NEW hz \in Hz \union {NoHz}, ApiRefreshRate(hz) PROVE Effect
  <2> DEFINE gs == [g_state EXCEPT !.restore = (hz = NoHz), !.hz = hz]
  <2>1. gs \in StateType /\ gs.orig_mode = g_state.orig_mode
    BY <1>0 DEF StateType
  <2>2. FramerateSwitch(gs, TRUE, ost_switch)
    BY <1>5 DEF ApiRefreshRate
  <2> HIDE DEF gs
  <2> QED BY <1>0, <2>1, <2>2, SwitchDisplay DEF Effect
<1>6. CASE Poll
  <2>1. g_state'.orig_mode = g_state.orig_mode
    BY <1>0, <1>6 DEF Poll, StateType
  <2> QED BY <1>6, <2>1 DEF Poll, display, Effect, Handled, Kept, SameMode, SameShown
<1>7. CASE Blackout
  <2>1. CASE ost_blackout = "due" /\ ~g_blackened /\ Blacken
    BY <2>1 DEF Effect, Blackened
  <2>2. CASE UNCHANGED <<g_state, display, stats>>
    BY <2>2 DEF display, Effect, Handled, Kept, SameMode, SameShown
  <2> QED BY <1>7, <2>1, <2>2 DEF Blackout, Blacken
<1>8. CASE Switch
  <2>1. CASE FramerateSwitch(g_state, FALSE, "off")
    BY <1>0, <2>1, SwitchDisplay DEF Effect
  <2>2. CASE UNCHANGED <<g_state, display, ost_switch, ost_blackout, ost_hdcp, stats>>
    BY <2>2 DEF display, Effect, Handled, Kept, SameMode, SameShown
  <2> QED BY <1>8, <2>1, <2>2 DEF Switch
<1>9. CASE Hdmi
  <2>1. CASE ost_hdmi = "due"
    BY <1>9, <2>1 DEF Hdmi, Effect, Replugged
  <2>2. CASE ost_hdmi # "due"
    BY <1>9, <2>2 DEF Hdmi, Effect, Handled, Kept, SameMode, SameShown
  <2> QED BY <2>1, <2>2
<1>10. CASE FinalRestore
  BY <1>10, FinalDisplay DEF Effect, Handled
<1>11. CASE Prologue
  BY <1>11 DEF Prologue, display, Effect, Handled, Published, SameMode, SameShown
<1>12. CASE Crash
  <2>1. CASE FramerateRestore(g_state, FALSE)
    BY <2>1, RestoreDisplay DEF Effect, Handled
  <2>2. CASE UNCHANGED <<g_state, display, ost_switch, ost_blackout, ost_hdcp, stats>>
    BY <2>2 DEF display, Effect, Handled, Kept, SameMode, SameShown
  <2> QED BY <1>12, <2>1, <2>2 DEF Crash
<1>13. CASE Signal \/ HdmiPlug \/ Quieten \/ (\E c \in Config : WriteConfig(c)) \/ UNCHANGED vars
  BY <1>13 DEF Signal, HdmiPlug, Quieten, WriteConfig, vars, daemon,
               Effect, Handled, Kept, SameMode, SameShown
<1>14. ASSUME NEW m \in Mode, UserMode(m) PROVE Effect
  <2>1. m.name \in ModeName /\ hw \in HwType
    BY DEF Mode, TypeOK, SwitchTypeOK, DisplayTypeOK
  <2> QED BY <1>14, <2>1 DEF UserMode, Chosen, Effect, HwType
<1>15. CASE Uevents
  <2>1. NoHz \in Hz \union {NoHz}
    OBVIOUS
  <2> QED BY <1>1, <1>2, <1>3, <1>4, <1>15, <2>1, RatesAreHz DEF Uevents
<1>16. CASE Api
  BY <1>3, <1>5, <1>16, RatesAreHz DEF Api
<1>17. CASE Daemon
  BY <1>3, <1>4, <1>6, <1>7, <1>8, <1>9, <1>10, <1>11, <1>17 DEF Daemon, Effect
<1>18. CASE Environment
  BY <1>4, <1>12, <1>13, <1>14, <1>18 DEF Environment
<1> QED BY <1>13, <1>15, <1>16, <1>17, <1>18 DEF Next, Terminated

-----------------------------------------------------------------------------
(* What else a step may change, and where the control of afrd goes *)

LinkIsQuiet == "hdmi" \notin Inputs => ~hdmi_uevent /\ ost_hdmi = "off"
ConfigIsScenarios == cfg \in scenario.config /\ cfg_file \in scenario.config
FrameInv == LinkIsQuiet /\ ConfigIsScenarios

Framed ==
  /\ UNCHANGED scenario
  /\ AfrdInit \/ UNCHANGED cfg
  /\ "user" \notin Inputs => UNCHANGED user_mode

Starting == {"init", "prologue"}

\* The loop is entered with the status published; afrd starts again, and ends,
\* after a restoration or with nothing to restore.
Controlled ==
  /\ pc' \in Loop => pc \in Loop \/ Published
  /\ pc' \in Starting =>
       \/ Restored
       \/ pc \in Starting /\ UNCHANGED <<g_state, g_blackened>>
  /\ pc' \notin Alive =>
       \/ Restored
       \/ UNCHANGED <<g_state, g_blackened>> /\ (pc \notin Alive \/ ~Switched)
  /\ pc' \in Alive \ {"init"} => pc \in Alive \ {"init"} \/ AfrdInit

LEMMA StepFrame ==
  TypeOK /\ FrameInv /\ [Next]_vars => Framed /\ FrameInv'
<1> SUFFICES ASSUME TypeOK, FrameInv, [Next]_vars PROVE Framed /\ FrameInv'
  OBVIOUS
<1> USE DEF FrameInv, LinkIsQuiet, ConfigIsScenarios, Framed, Inputs
<1>1. CASE Uevents
  <2>1. ASSUME NEW c \in Codec, VdecAdd(c) \/ VdecRemove(c)
        PROVE  UNCHANGED <<scenario, cfg, user_mode, cfg_file, ost_hdmi, hdmi_uevent>>
    BY <2>1 DEF VdecAdd, VdecRemove, UNTOUCHED
  <2>2. ASSUME NEW c, NEW hz, FrhintEnd(c) \/ FrhintStart(hz, c)
        PROVE  UNCHANGED <<scenario, cfg, user_mode, cfg_file, ost_hdmi, hdmi_uevent>>
    BY <2>2 DEF FrhintEnd, FrhintStart, UNTOUCHED
  <2>3. CASE HdmiUevent
    BY <2>3 DEF HdmiUevent
  <2>4. CASE HdcpUevent
    BY <2>4 DEF HdcpUevent, world, active
  <2> QED BY <1>1, <2>1, <2>2, <2>3, <2>4 DEF Uevents
<1>2. CASE Api
  <2>1. UNCHANGED <<scenario, cfg, user_mode, cfg_file, ost_hdmi, hdmi_uevent>>
    BY <1>2 DEF Api, ApiFrameRateHint, ApiRefreshRate, ApiReconf, UNTOUCHED, world,
                active
  <2> QED BY <2>1
<1>3. CASE Daemon
  <2>1. UNCHANGED <<scenario, user_mode, cfg_file, hdmi_uevent>>
    BY <1>3 DEF Daemon, Poll, UeventsDone, ApiDone, Blackout, Switch, Hdmi,
                CheckConfig, HdcpCheck, Leave, FinalRestore, AfrdInit, Prologue, world
  <2>2. UNCHANGED cfg \/ (AfrdInit /\ cfg' = cfg_file)
    BY <1>3 DEF Daemon, Poll, UeventsDone, ApiDone, Blackout, Switch, Hdmi,
                CheckConfig, HdcpCheck, Leave, FinalRestore, AfrdInit, Prologue
  <2>3. ost_hdmi = "off" => ost_hdmi' = "off"
    BY <1>3 DEF Daemon, Poll, UeventsDone, ApiDone, Blackout, Switch, Hdmi,
                CheckConfig, HdcpCheck, Leave, FinalRestore, AfrdInit, Prologue,
                Elapsed, active
  <2> QED BY <2>1, <2>2, <2>3
<1>4. CASE Environment
  <2>1. ASSUME NEW m \in Mode, UserMode(m) PROVE Framed /\ FrameInv'
    BY <2>1 DEF UserMode, daemon, active
  <2>2. ASSUME NEW c \in Config, WriteConfig(c) PROVE Framed /\ FrameInv'
    BY <2>2 DEF WriteConfig, daemon, active
  <2>3. CASE HdmiPlug
    BY <2>3 DEF HdmiPlug, daemon, active
  <2>4. CASE Signal \/ Crash \/ HdcpDrop \/ Quieten
    <3>1. UNCHANGED <<scenario, cfg, user_mode, cfg_file, ost_hdmi, hdmi_uevent>>
      BY <2>4 DEF Signal, Crash, HdcpDrop, Quieten, daemon, active, world
    <3> QED BY <3>1
  <2> QED BY <1>4, <2>1, <2>2, <2>3, <2>4 DEF Environment
<1>5. CASE UNCHANGED vars
  BY <1>5 DEF vars, daemon, active, world
<1> QED BY <1>1, <1>2, <1>3, <1>4, <1>5 DEF Next, Terminated

LEMMA StepControl == TypeOK /\ [Next]_vars => Controlled
<1> SUFFICES ASSUME TypeOK, [Next]_vars PROVE Controlled
  OBVIOUS
<1>1. CASE Uevents
  BY <1>1 DEF Uevents, VdecAdd, VdecRemove, FrhintStart, FrhintEnd, HdmiUevent,
              HdcpUevent, UNTOUCHED, Controlled, Loop, Starting, Alive
<1>2. CASE Api
  BY <1>2 DEF Api, ApiFrameRateHint, ApiRefreshRate, ApiReconf, UNTOUCHED,
              Controlled, Loop, Starting, Alive
<1>3. CASE Poll \/ UeventsDone \/ ApiDone \/ Blackout \/ Switch \/ Hdmi
           \/ CheckConfig \/ HdcpCheck \/ Leave
  BY <1>3 DEF Poll, UeventsDone, ApiDone, Blackout, Switch, Hdmi, CheckConfig,
              HdcpCheck, Leave, Controlled, Loop, Starting, Alive
<1>4. CASE FinalRestore
  <2>1. Restored
    BY <1>4, FinalDisplay
  <2>2. pc' \in {"init", "stopped"}
    BY <1>4 DEF FinalRestore, AfterRun
  <2>3. pc' \notin Loop /\ pc' \notin Alive \ {"init"}
    BY <2>2 DEF Loop, Alive
  <2> QED BY <2>1, <2>3 DEF Controlled
<1>5. CASE AfrdInit
  <2>1. UNCHANGED <<g_state, g_blackened>> /\ pc = "init" /\ pc' = "prologue"
    BY <1>5 DEF AfrdInit, HandleHdmiSwitch
  <2> QED BY <1>5, <2>1 DEF Controlled, Loop, Starting, Alive
<1>6. CASE Prologue
  BY <1>6 DEF Prologue, display, Published, SameMode, SameShown, Controlled, Loop,
              Starting, Alive
<1>7. CASE Crash
  <2>1. CASE Switched /\ FramerateRestore(g_state, FALSE)
    BY <1>7, <2>1 DEF Crash, FramerateRestore, Restored, RestoreMode, Controlled,
                      Loop, Starting, Alive
  <2>2. CASE ~Switched
    BY <1>7, <2>2 DEF Crash, display, Controlled, Loop, Starting, Alive
  <2> QED BY <1>7, <2>1, <2>2 DEF Crash
<1>8. CASE Environment /\ ~Crash
  BY <1>8 DEF Environment, Signal, HdmiPlug, HdcpDrop, Quieten, UserMode,
              WriteConfig, daemon, Controlled, Loop, Starting, Alive
<1>9. CASE UNCHANGED vars
  BY <1>9 DEF vars, daemon, Controlled, Loop, Starting, Alive
<1>10. CASE Daemon
  BY <1>3, <1>4, <1>5, <1>6, <1>10 DEF Daemon
<1> QED BY <1>1, <1>2, <1>7, <1>8, <1>9, <1>10 DEF Next, Terminated

LEMMA FrameInvAlways == Spec => []FrameInv
<1>1. Init => FrameInv
  BY DEF Init, FrameInv, LinkIsQuiet, ConfigIsScenarios
<1>2. TypeOK /\ FrameInv /\ [Next]_vars => FrameInv'
  BY StepFrame
<1> QED BY <1>1, <1>2, TypeCorrect, PTL DEF Spec

-----------------------------------------------------------------------------
(* Clients see the state as it is *)

LEMMA StatsKept ==
  ASSUME Kept, UNCHANGED cfg, stats = Stats(cfg.enable, g_state, g_blackened, g_current_mode)
  PROVE  stats' = Stats(cfg'.enable, g_state', g_blackened', g_current_mode')
  BY DEF Kept, SameMode, Stats

\* For every instance whose HDMI link stays, what clients are told of the switch
\* is so in every state of the loop.
THEOREM StatusIsFresh == Spec => []StatsFresh
<1>1. Init => StatsFresh
  BY DEF Init, StatsFresh, Loop
<1>2. TypeOK /\ FrameInv /\ StatsFresh /\ [Next]_vars => StatsFresh'
  <2> SUFFICES ASSUME TypeOK, FrameInv, StatsFresh, [Next]_vars,
                      pc' \in Loop, "hdmi" \notin Inputs'
               PROVE  stats' = Stats(cfg'.enable, g_state', g_blackened', g_current_mode')
    BY DEF StatsFresh
  <2>1. Effect /\ Framed /\ Controlled
    BY StepEffect, StepFrame, StepControl
  <2>2. "hdmi" \notin Inputs
    BY <2>1 DEF Framed, Inputs
  <2>3. ~AfrdInit
    BY DEF AfrdInit, Loop
  <2>4. UNCHANGED cfg
    BY <2>1, <2>3 DEF Framed
  <2>5. CASE UpdateStats
    BY <2>4, <2>5 DEF UpdateStats
  <2>6. CASE pc \in Loop /\ Kept
    BY <2>2, <2>4, <2>6, StatsKept DEF StatsFresh
  <2>7. CASE Chosen
    BY <2>2, <2>7 DEF Chosen, daemon, StatsFresh
  <2>8. ~Replugged
    BY <2>2 DEF Replugged, FrameInv, LinkIsQuiet
  <2> QED BY <2>1, <2>3, <2>5, <2>6, <2>7, <2>8
          DEF Effect, Handled, Published, Restored, SwitchedTo, Forgotten,
              Blackened, Blacken, Controlled
<1> QED BY <1>1, <1>2, FrameInvAlways, TypeCorrect, PTL DEF Spec

-----------------------------------------------------------------------------
(* The cache agrees with the kernel *)

Agrees ==
  /\ g_blackened <=> hw.mode = Null
  /\ ~g_blackened /\ hw.mode \in Fractional => hw.policy = hw.frac
  /\ ~g_blackened /\ g_current_mode # NoMode =>
       /\ hw.mode = g_current_mode.name
       /\ hw.mode \in Fractional => hw.frac = g_current_mode.frac
  /\ g_blackened \/ Switched => g_current_mode \in Mode

\* display_mode_switch, from a known mode to another, shows that mode: the
\* detour over "null" makes the kernel apply the fraction.
LEMMA SwitchAgrees ==
  ASSUME DisplayTypeOK, Agrees, g_current_mode \in Mode, NEW mode \in Mode,
         NEW force \in BOOLEAN, DisplayModeSwitch(mode, force)
  PROVE  /\ ~g_blackened' /\ g_current_mode' \in Mode
         /\ hw'.mode = g_current_mode'.name
         /\ hw'.mode \in Fractional =>
              hw'.frac = g_current_mode'.frac /\ hw'.policy = hw'.frac
         /\ DisplayModeEqual(g_current_mode', mode)
<1>1. /\ mode.name \in ModeName /\ mode.frac \in BOOLEAN
      /\ g_current_mode.name \in ModeName /\ g_current_mode # NoMode
      /\ Null \notin ModeName /\ NoName \notin ModeName
  BY NamesAssumption DEF Mode, NoMode
<1>2. CASE ~g_blackened /\ ~force /\ DisplayModeEqual(mode, g_current_mode)
  BY <1>1, <1>2 DEF DisplayModeSwitch, display, Agrees, DisplayModeEqual
<1>3. CASE ~(~g_blackened /\ ~force /\ DisplayModeEqual(mode, g_current_mode))
  <2> DEFINE p == [hw EXCEPT !.policy = mode.frac]
             n == IF ViaNull(mode, force) THEN WriteNull(p) ELSE p
  <2>1. /\ hw' = HdcpRestored(WriteMode(n, mode.name))
        /\ g_current_mode' = mode /\ g_blackened' = FALSE
    BY <1>3 DEF DisplayModeSwitch
  <2>2. p.mode = hw.mode /\ p.policy = mode.frac /\ p \in HwType
    BY <1>1 DEF DisplayTypeOK, HwType
  <2> HIDE DEF p
  <2>3. n.mode # mode.name /\ n.policy = mode.frac /\ n \in HwType
    <3>1. CASE g_blackened
      BY <1>1, <2>2, <3>1 DEF WriteNull, Agrees
    <3>2. CASE ~g_blackened /\ ViaNull(mode, force)
      BY <1>1, <2>2, <3>2, NamesAssumption DEF WriteNull, WriteMode, Agrees, HwType
    <3>3. CASE ~g_blackened /\ ~ViaNull(mode, force)
      <4>1. mode.name # g_current_mode.name
        BY <1>3, <3>3 DEF ViaNull, DisplayModeEqual
      <4> QED BY <1>1, <2>2, <3>3, <4>1 DEF Agrees
    <3> QED BY <3>1, <3>2, <3>3
  <2> HIDE DEF n
  <2>4. hw'.mode = mode.name /\ hw'.policy = mode.frac /\ hw'.frac = mode.frac
    BY <1>1, <2>1, <2>3 DEF WriteMode, HdcpRestored, HwType
  <2> QED BY <1>1, <2>1, <2>4 DEF DisplayModeEqual
<1> QED BY <1>2, <1>3

\* With nothing to restore, a restoration does nothing to the display.
LEMMA NothingToRestore ==
  ASSUME ~Switched, ~g_blackened, Restored
  PROVE  UNCHANGED display
  BY DEF Restored, RestoreMode, Switched, DisplayModeSwitch, DisplayModeEqual

LEMMA CurrentModeAgrees ==
  ASSUME DisplayTypeOK, Agrees, ~g_blackened
  PROVE  /\ CurrentMode \in Mode /\ CurrentMode.name = hw.mode
         /\ hw.mode \in Fractional => hw.frac = CurrentMode.frac
         /\ DisplayModeEqual(CurrentMode, Shown)
  BY DEF DisplayTypeOK, HwType, Agrees, CurrentMode, Mode, DisplayModeEqual, Shown

\* A mode framerate_restore switches back to is one of the display's.
LEMMA SavedIsMode ==
  ASSUME TypeOK, Agrees, g_blackened \/ Switched
  PROVE  RestoreMode(g_state) \in Mode /\ g_current_mode \in Mode
<1>1. g_state.orig_mode \in ModeOrNone
  BY DEF TypeOK, SwitchTypeOK, StateType
<1>2. Switched => g_state.orig_mode \in Mode
  BY <1>1 DEF Switched, ModeOrNone, NoMode
<1> QED BY <1>2 DEF Agrees, RestoreMode, Switched

\* Every effect but the user's keeps the agreement.
LEMMA EffectAgrees ==
  ASSUME TypeOK, Agrees, Effect, ~Chosen
  PROVE  Agrees'
<1>0. DisplayTypeOK /\ g_state \in StateType
  BY DEF TypeOK, SwitchTypeOK
<1>1. CASE SameMode
  BY <1>1 DEF SameMode, SameShown, Agrees, Switched
<1>2. CASE Restored
  <2>1. CASE g_blackened \/ Switched
    <3>1. RestoreMode(g_state) \in Mode /\ g_current_mode \in Mode
      BY <2>1, SavedIsMode
    <3>2. DisplayModeSwitch(RestoreMode(g_state), FALSE)
      BY <1>2 DEF Restored
    <3>3. /\ ~g_blackened' /\ g_current_mode' \in Mode
          /\ hw'.mode = g_current_mode'.name
          /\ hw'.mode \in Fractional =>
               hw'.frac = g_current_mode'.frac /\ hw'.policy = hw'.frac
      BY <1>0, <3>1, <3>2, SwitchAgrees
    <3> QED BY <3>3, NamesAssumption DEF Agrees, Mode
  <2>2. CASE ~g_blackened /\ ~Switched
    <3>1. UNCHANGED display /\ g_state' = ZeroState
      BY <1>2, <2>2, NothingToRestore DEF Restored
    <3> QED BY <2>2, <3>1 DEF Agrees, display, Switched, ZeroState, NoMode
  <2> QED BY <2>1, <2>2
<1>3. CASE SwitchedTo
  <2>1. g_current_mode \in Mode
    BY <1>0, <1>3 DEF SwitchedTo, DisplayTypeOK, ModeOrNone, NoMode
  <2>2. PICK best \in Mode, force \in BOOLEAN : DisplayModeSwitch(best, force)
    BY <1>3 DEF SwitchedTo
  <2>3. /\ ~g_blackened' /\ g_current_mode' \in Mode
        /\ hw'.mode = g_current_mode'.name
        /\ hw'.mode \in Fractional =>
             hw'.frac = g_current_mode'.frac /\ hw'.policy = hw'.frac
    BY <1>0, <2>1, <2>2, SwitchAgrees
  <2> QED BY <2>3, NamesAssumption DEF Agrees, Mode
<1>4. CASE Forgotten
  BY <1>4 DEF Forgotten, display, Agrees, Switched, ZeroState, NoMode
<1>5. CASE Blackened
  <2>1. /\ g_current_mode' = CurrentMode /\ g_blackened' /\ hw' = WriteNull(hw)
    BY <1>5 DEF Blackened, Blacken
  <2>2. CurrentMode \in Mode
    BY <1>0, <1>5, CurrentModeAgrees DEF Blackened
  <2>3. hw'.mode = Null
    BY <1>0, <1>5, <2>1, NamesAssumption
       DEF Blackened, WriteNull, WriteMode, DisplayTypeOK, HwType
  <2> QED BY <2>1, <2>2, <2>3 DEF Agrees
<1>6. CASE UNCHANGED <<g_blackened, hw>> /\ g_current_mode' \in {g_current_mode, CurrentMode}
           /\ g_state'.orig_mode \in {g_state.orig_mode, NoMode}
  <2>1. CASE g_blackened
    BY <1>6, <2>1 DEF Agrees, CurrentMode
  <2>2. CASE ~g_blackened
    <3>1. /\ CurrentMode \in Mode /\ CurrentMode.name = hw.mode
          /\ hw.mode \in Fractional => hw.frac = CurrentMode.frac
      BY <1>0, <2>2, CurrentModeAgrees
    <3>2. Switched' => Switched
      BY <1>6 DEF Switched, NoMode
    <3> QED BY <1>6, <2>2, <3>1, <3>2 DEF Agrees
  <2> QED BY <2>1, <2>2
<1>7. ASSUME NEW on, HandleHdmiSwitch(on)
      PROVE  /\ g_current_mode' \in {g_current_mode, CurrentMode}
             /\ g_state'.orig_mode \in {g_state.orig_mode, NoMode}
  BY <1>0, <1>7 DEF HandleHdmiSwitch, StateType
<1>8. CASE Replugged
  BY <1>6, <1>7, <1>8 DEF Replugged
<1>9. CASE AfrdInit
  BY <1>6, <1>7, <1>9 DEF AfrdInit
<1> QED BY <1>1, <1>2, <1>3, <1>4, <1>5, <1>8, <1>9 DEF Effect, Handled, Kept, Published

KernelInv == "user" \notin Inputs => Agrees

LEMMA KernelInvAlways == Spec => []KernelInv
<1>1. Init => KernelInv
  <2> SUFFICES ASSUME Init PROVE Agrees
    BY DEF KernelInv
  <2>1. scenario.names \subseteq ModeName
    BY ScenarioAssumption DEF Init
  <2>2. user_mode.name \in ModeName
    BY <2>1 DEF Init
  <2> QED BY <2>2, NamesAssumption DEF Init, Agrees, Switched, ZeroState, NoMode
<1>2. TypeOK /\ FrameInv /\ KernelInv /\ [Next]_vars => KernelInv'
  <2> SUFFICES ASSUME TypeOK, FrameInv, KernelInv, [Next]_vars, "user" \notin Inputs'
               PROVE  Agrees'
    BY DEF KernelInv
  <2>1. "user" \notin Inputs
    BY StepFrame DEF Framed, Inputs
  <2> QED BY <2>1, StepEffect, EffectAgrees DEF KernelInv, Chosen
<1> QED BY <1>1, <1>2, FrameInvAlways, TypeCorrect, PTL DEF Spec

\* For every instance in which only afrd changes the mode, its cached mode and
\* blackout flag are what the kernel shows, the applied fraction included.
THEOREM CacheAgrees == Spec => []DisplayAgrees
<1>1. KernelInv => DisplayAgrees
  BY DEF KernelInv, Agrees, DisplayAgrees
<1> QED BY <1>1, KernelInvAlways, PTL

-----------------------------------------------------------------------------
(* A disabled afrd is inert *)

\* It holds no mode and no black screen, which it entered afrd_init without.
DisabledInv ==
  "user" \notin Inputs /\ (~cfg.enable \/ pc \in Starting) =>
    ~Switched /\ ~g_blackened

LEMMA RestoredHoldsNothing ==
  ASSUME TypeOK, Restored
  PROVE  ~Switched' /\ ~g_blackened'
<1>1. ~Switched'
  BY DEF Restored, Switched, ZeroState, NoMode
<1>2. ~g_blackened'
  BY DisplayModeSwitchLights DEF Restored, TypeOK, SwitchTypeOK
<1> QED BY <1>1, <1>2

LEMMA DisabledStep ==
  TypeOK /\ SwitchInv /\ FrameInv /\ DisabledInv /\ [Next]_vars => DisabledInv'
<1> SUFFICES ASSUME TypeOK, SwitchInv, FrameInv, DisabledInv, [Next]_vars,
                    "user" \notin Inputs', ~cfg'.enable \/ pc' \in Starting
             PROVE  ~Switched' /\ ~g_blackened'
  BY DEF DisabledInv
<1>1. Effect /\ Framed /\ Controlled
  BY StepEffect, StepFrame, StepControl
<1>2. "user" \notin Inputs
  BY <1>1 DEF Framed, Inputs
<1>3. CASE Restored
  BY <1>3, RestoredHoldsNothing
<1>4. CASE pc' \in Starting /\ ~Restored
  <2>1. pc \in Starting /\ UNCHANGED <<g_state, g_blackened>>
    BY <1>1, <1>4 DEF Controlled
  <2> QED BY <1>2, <2>1 DEF DisabledInv, Switched
<1>5. CASE pc' \notin Starting /\ ~Restored
  <2>1. UNCHANGED cfg /\ ~cfg.enable
    BY <1>1, <1>5 DEF Framed, AfrdInit, Starting
  <2>2. ~Switched /\ ~g_blackened
    BY <1>2, <2>1 DEF DisabledInv
  <2>3. ~Blackened /\ ~SwitchedTo /\ ~AfrdInit /\ ~Chosen
    BY <1>2, <1>5, <2>1 DEF Blackened, SwitchedTo, AfrdInit, Chosen, Starting,
                            SwitchInv, BlackoutIsArmedSafely
  <2>4. CASE SameMode
    BY <2>2, <2>4 DEF SameMode, Switched
  <2>5. CASE Forgotten
    BY <2>5 DEF Forgotten, display, Switched, ZeroState, NoMode
  <2>6. CASE Replugged
    <3>1. g_state'.orig_mode \in {g_state.orig_mode, NoMode} /\ UNCHANGED g_blackened
      BY <2>6 DEF Replugged, HandleHdmiSwitch, TypeOK, SwitchTypeOK, StateType
    <3> QED BY <2>2, <3>1 DEF Switched, NoMode
  <2> QED BY <1>1, <1>5, <2>3, <2>4, <2>5, <2>6 DEF Effect, Handled, Kept, Published
<1> QED BY <1>3, <1>4, <1>5

LEMMA DisabledInvAlways == Spec => []DisabledInv
<1>1. Init => DisabledInv
  BY DEF Init, DisabledInv, Switched, ZeroState, NoMode
<1> QED BY <1>1, DisabledStep, SwitchInvAlways, FrameInvAlways, PTL DEF Spec

\* For every instance in which only afrd changes the mode, a disabled afrd
\* changes neither the mode nor its fraction, on no event and no request.
THEOREM DisabledDoesNothing == Spec => DisabledIsInert
<1>1. TypeOK /\ SwitchInv /\ DisabledInv /\ [Next]_vars
        => [~cfg.enable /\ "user" \notin Inputs
              => Shown' = Shown /\ hw'.policy = hw.policy]_vars
  <2> SUFFICES ASSUME TypeOK, SwitchInv, DisabledInv, [Next]_vars,
                      ~cfg.enable, "user" \notin Inputs
               PROVE  SameShown
    BY DEF SameShown, Shown
  <2>1. ~Switched /\ ~g_blackened
    BY DEF DisabledInv
  <2>2. CASE Restored
    BY <2>1, <2>2, NothingToRestore DEF display, SameShown
  <2>3. ~Blackened /\ ~SwitchedTo /\ ~Chosen
    BY DEF Blackened, SwitchedTo, Chosen, SwitchInv, BlackoutIsArmedSafely
  <2> QED BY <2>2, <2>3, StepEffect
          DEF Effect, Handled, Kept, Published, SameMode, SameShown, Forgotten,
              display, Replugged, AfrdInit
<1> QED BY <1>1, DisabledInvAlways, SwitchInvAlways, FrameInvAlways, PTL
        DEF Spec, DisabledIsInert

-----------------------------------------------------------------------------
(* The user's mode is kept and comes back *)

\* Equal modes are shown alike: an equivalence, of modes before and after a step.
LEMMA EqualIsEquivalence ==
  ASSUME NEW m, NEW n, NEW o, DisplayModeEqual(m, n), DisplayModeEqual(n, o)
  PROVE  DisplayModeEqual(m, o) /\ DisplayModeEqual(n, m) /\ DisplayModeEqual(m, m)
  BY DEF DisplayModeEqual

RestoreInv ==
  RestoresMode =>
    /\ Switched => DisplayModeEqual(g_state.orig_mode, user_mode)
    /\ ~Switched => ~g_blackened /\ ShowsUserMode
    /\ pc \in Alive \ {"init"} => g_current_mode \in Mode
    /\ pc \in Starting \/ pc \notin Alive => ~Switched

LEMMA RestoreInit == Init => RestoreInv
<1> SUFFICES ASSUME Init PROVE RestoreInv
  OBVIOUS
<1>1. user_mode.name # Null
  BY NamesAssumption, ScenarioAssumption DEF Init
<1>2. ~Switched /\ ~g_blackened /\ pc = "init"
  BY DEF Init, Switched, ZeroState, NoMode
<1>3. ShowsUserMode
  BY <1>1 DEF Init, ShowsUserMode, Shown, DisplayModeEqual
<1> QED BY <1>2, <1>3 DEF RestoreInv, Alive, Loop

LEMMA RestoreStep ==
  TypeOK /\ SwitchInv /\ FrameInv /\ KernelInv /\ RestoreInv /\ [Next]_vars
    => RestoreInv'
<1> SUFFICES ASSUME TypeOK, SwitchInv, FrameInv, KernelInv, RestoreInv, [Next]_vars,
                    RestoresMode'
             PROVE  /\ Switched' => DisplayModeEqual(g_state'.orig_mode, user_mode')
                    /\ ~Switched' => ~g_blackened' /\ ShowsUserMode'
                    /\ pc' \in Alive \ {"init"} => g_current_mode' \in Mode
                    /\ pc' \in Starting \/ pc' \notin Alive => ~Switched'
  BY DEF RestoreInv
<1>0. DisplayTypeOK /\ g_state \in StateType
  BY DEF TypeOK, SwitchTypeOK
<1>1. Effect /\ Framed /\ Controlled /\ FrameInv'
  BY StepEffect, StepFrame, StepControl
<1>2. RestoresMode /\ "user" \notin Inputs /\ "hdmi" \notin Inputs
  BY <1>1 DEF Framed, RestoresMode, Inputs
<1>3. UNCHANGED user_mode /\ cfg.delay_off
  BY <1>1, <1>2 DEF Framed, RestoresMode, FrameInv, ConfigIsScenarios
<1>4. Agrees /\ Agrees'
  BY <1>1, <1>2, StepEffect, EffectAgrees DEF KernelInv, Chosen
<1>5. /\ Switched => DisplayModeEqual(g_state.orig_mode, user_mode)
      /\ ~Switched => ~g_blackened /\ ShowsUserMode
      /\ pc \in Alive \ {"init"} => g_current_mode \in Mode
      /\ pc \in Starting \/ pc \notin Alive => ~Switched
  BY <1>2 DEF RestoreInv
<1>6. ~Forgotten /\ ~Replugged /\ ~Chosen
  BY <1>2, <1>3 DEF Forgotten, Replugged, Chosen, FrameInv, LinkIsQuiet
<1>7. pc' \in Starting \/ pc' \notin Alive => ~Switched'
  <2>1. CASE Restored
    BY <2>1, RestoredHoldsNothing
  <2>2. CASE ~Restored /\ (pc' \in Starting \/ pc' \notin Alive)
    BY <1>1, <1>5, <2>2 DEF Controlled, Switched
  <2> QED BY <2>1, <2>2
<1>8. CASE SameMode
  <2>1. UNCHANGED <<Switched, Shown, g_blackened, g_current_mode>> /\ hw'.mode = hw.mode
    BY <1>8 DEF SameMode, SameShown, Switched, Shown
  <2>2. ShowsUserMode => ShowsUserMode'
    BY <1>3, <2>1 DEF ShowsUserMode
  <2>3. CASE AfrdInit
    <3>1. pc = "init" /\ modes' = TRUE /\ g_current_mode' = CurrentMode
      BY <1>2, <2>3 DEF AfrdInit, HandleHdmiSwitch
    <3>2. CurrentMode \in Mode
      BY <1>0, <1>4, <1>5, <3>1, CurrentModeAgrees DEF Starting
    <3> QED BY <1>3, <1>5, <1>7, <1>8, <2>1, <2>2, <3>1, <3>2 DEF SameMode
  <2>4. CASE ~AfrdInit
    BY <1>1, <1>3, <1>5, <1>7, <1>8, <2>1, <2>2, <2>4 DEF SameMode, Controlled
  <2> QED BY <2>3, <2>4
<1>9. CASE AfrdInit
  <2>1. pc = "init" /\ modes' = TRUE /\ g_current_mode' = CurrentMode
    BY <1>2, <1>9 DEF AfrdInit, HandleHdmiSwitch
  <2>2. ~Switched /\ ~g_blackened /\ ShowsUserMode
    BY <1>5, <2>1 DEF Starting
  <2>3. CurrentMode \in Mode
    BY <1>0, <1>4, <2>2, CurrentModeAgrees
  <2>4. UNCHANGED <<g_state, g_blackened, hw>>
    BY <1>9 DEF AfrdInit, HandleHdmiSwitch
  <2>5. ~Switched' /\ ShowsUserMode'
    BY <1>3, <2>2, <2>4 DEF Switched, ShowsUserMode, Shown
  <2> QED BY <2>1, <2>2, <2>3, <2>4, <2>5
<1>10. CASE Restored /\ Switched
  <2>1. ~Switched' /\ ~g_blackened'
    BY <1>10, RestoredHoldsNothing
  <2>2. RestoreMode(g_state) = g_state.orig_mode
    BY <1>10 DEF RestoreMode, Switched
  <2>3. g_state.orig_mode \in Mode /\ g_current_mode \in Mode
    BY <1>4, <1>10, <2>2, SavedIsMode
  <2>4. DisplayModeSwitch(g_state.orig_mode, FALSE)
    BY <1>10, <2>2 DEF Restored
  <2>5. /\ g_current_mode' \in Mode /\ hw'.mode = g_current_mode'.name
        /\ hw'.mode \in Fractional => hw'.frac = g_current_mode'.frac
        /\ DisplayModeEqual(g_current_mode', g_state.orig_mode)
    BY <1>0, <1>4, <2>3, <2>4, SwitchAgrees
  <2>6. DisplayModeEqual(Shown', g_current_mode')
    BY <2>5 DEF DisplayModeEqual, Shown
  <2>7. DisplayModeEqual(Shown', user_mode)
    BY <1>5, <1>10, <2>5, <2>6, EqualIsEquivalence
  <2>8. ShowsUserMode'
    BY <1>3, <1>4, <2>1, <2>7 DEF ShowsUserMode, Agrees
  <2> QED BY <2>1, <2>5, <2>8
<1>11. CASE Restored /\ ~Switched
  <2>1. ~g_blackened /\ ShowsUserMode
    BY <1>5, <1>11
  <2>2. UNCHANGED <<g_current_mode, g_blackened, hw>>
    BY <1>11, <2>1, NothingToRestore DEF display
  <2>3. ~Switched' /\ ShowsUserMode'
    BY <1>3, <1>11, <2>1, <2>2, RestoredHoldsNothing DEF ShowsUserMode, Shown
  <2> QED BY <1>1, <1>5, <1>9, <2>1, <2>2, <2>3 DEF Controlled
<1>12. CASE SwitchedTo
  <2>1. g_current_mode \in Mode
    BY <1>0, <1>12 DEF SwitchedTo, DisplayTypeOK, ModeOrNone, NoMode
  <2>2. PICK best \in Mode, force \in BOOLEAN : DisplayModeSwitch(best, force)
    BY <1>12 DEF SwitchedTo
  <2>3. ~g_blackened' /\ g_current_mode' \in Mode
    BY <1>0, <1>4, <2>1, <2>2, SwitchAgrees
  <2>4. g_state'.orig_mode = SavedMode(g_state)
    BY <1>12 DEF SwitchedTo
  <2>5. CASE Switched
    BY <1>3, <1>5, <1>7, <2>3, <2>4, <2>5 DEF SavedMode, Switched
  <2>6. CASE ~Switched
    <3>1. g_state'.orig_mode = g_current_mode /\ Switched'
      BY <2>1, <2>4, <2>6, NamesAssumption DEF SavedMode, Switched, Mode
    <3>2. DisplayModeEqual(g_current_mode, Shown)
      BY <1>4, <1>5, <2>1, <2>6, NamesAssumption
         DEF Agrees, DisplayModeEqual, Shown, Mode, NoMode
    <3>3. DisplayModeEqual(g_current_mode, user_mode)
      BY <1>5, <2>6, <3>2, EqualIsEquivalence DEF ShowsUserMode
    <3> QED BY <1>3, <1>7, <2>3, <3>1, <3>3
  <2> QED BY <2>5, <2>6
<1>13. CASE Blackened
  <2>1. /\ g_current_mode' = CurrentMode /\ g_state'.orig_mode = CurrentMode
    BY <1>0, <1>13 DEF Blackened, Blacken, StateType
  <2>2. ~Switched /\ ShowsUserMode
    BY <1>5, <1>13 DEF Blackened, SwitchInv, BlackoutIsArmedSafely
  <2>3. CurrentMode \in Mode /\ DisplayModeEqual(CurrentMode, Shown)
    BY <1>0, <1>4, <1>13, CurrentModeAgrees DEF Blackened
  <2>4. DisplayModeEqual(CurrentMode, user_mode)
    BY <2>2, <2>3, EqualIsEquivalence DEF ShowsUserMode
  <2>5. Switched'
    BY <2>1, <2>3, NamesAssumption DEF Switched, Mode
  <2> QED BY <1>3, <1>7, <2>1, <2>3, <2>4, <2>5
<1> QED BY <1>1, <1>6, <1>8, <1>9, <1>10, <1>11, <1>12, <1>13
        DEF Effect, Handled, Kept, Published

LEMMA RestoreInvAlways == Spec => [](TypeOK /\ KernelInv /\ RestoreInv)
  BY RestoreInit, RestoreStep, SwitchInvAlways, FrameInvAlways, KernelInvAlways, PTL
     DEF Spec

\* For every instance in which only afrd changes the mode, through every chain of
\* switches, blackouts, hints, requests and reloads the mode to go back to is the
\* user's.
THEOREM UserModeIsKept == Spec => []OriginalModeKept
<1>1. TypeOK /\ KernelInv /\ RestoreInv => OriginalModeKept
  <2> SUFFICES ASSUME KernelInv, RestoreInv, RestoresMode, pc \in Loop, ~Switched
               PROVE  DisplayModeEqual(g_current_mode, user_mode)
    BY DEF OriginalModeKept, RestoreInv
  <2>1. g_current_mode \in Mode /\ ~g_blackened /\ ShowsUserMode
    BY DEF RestoreInv, Alive, Loop
  <2>2. DisplayModeEqual(g_current_mode, Shown)
    BY <2>1, NamesAssumption DEF KernelInv, RestoresMode, Agrees, DisplayModeEqual,
                                 Shown, Mode, NoMode
  <2> QED BY <2>1, <2>2, EqualIsEquivalence DEF ShowsUserMode
<1> QED BY <1>1, RestoreInvAlways, PTL

\* For every such instance, however afrd ends, in whatever part of its iteration
\* a signal or a fault meets it, it leaves a picture in the user's mode.
THEOREM UserModeComesBack == Spec => []LeavesOriginalMode
<1>1. RestoreInv => LeavesOriginalMode
  BY DEF RestoreInv, LeavesOriginalMode
<1> QED BY <1>1, RestoreInvAlways, PTL

-----------------------------------------------------------------------------
(* A blackout saves what is shown *)

\* Whoever else changes the mode, and whatever happens to the link: only a screen
\* that afrd blackened is dark, and behind it is a mode of the display.
NullIsBlack ==
  /\ ~g_blackened => hw.mode # Null
  /\ g_blackened => g_current_mode \in Mode

LEMMA SwitchShows ==
  ASSUME DisplayTypeOK, NullIsBlack, NEW mode \in Mode, NEW force \in BOOLEAN,
         DisplayModeSwitch(mode, force)
  PROVE  ~g_blackened' /\ hw'.mode # Null
<1>1. mode.name \in ModeName /\ mode.name # Null /\ mode.name # NoName
  BY NamesAssumption DEF Mode
<1>2. CASE ~g_blackened /\ ~force /\ DisplayModeEqual(mode, g_current_mode)
  BY <1>2 DEF DisplayModeSwitch, display, NullIsBlack
<1>3. CASE ~(~g_blackened /\ ~force /\ DisplayModeEqual(mode, g_current_mode))
  <2> DEFINE p == [hw EXCEPT !.policy = mode.frac]
             n == IF ViaNull(mode, force) THEN WriteNull(p) ELSE p
  <2>1. hw' = HdcpRestored(WriteMode(n, mode.name)) /\ g_blackened' = FALSE
    BY <1>3 DEF DisplayModeSwitch
  <2>2. p \in HwType
    BY DEF DisplayTypeOK, HwType, Mode
  <2> HIDE DEF p
  <2>3. n \in HwType
    BY <2>2 DEF WriteNull, WriteMode, HwType
  <2> HIDE DEF n
  <2>4. WriteMode(n, mode.name).mode = mode.name /\ WriteMode(n, mode.name) \in HwType
    BY <1>1, <2>3 DEF WriteMode, HwType
  <2>5. hw'.mode = mode.name
    BY <2>1, <2>4 DEF HdcpRestored, HwType
  <2> QED BY <1>1, <2>1, <2>5
<1> QED BY <1>2, <1>3

LEMMA EffectShows ==
  ASSUME TypeOK, NullIsBlack, Effect
  PROVE  NullIsBlack'
<1>0. DisplayTypeOK /\ g_state \in StateType
  BY DEF TypeOK, SwitchTypeOK
<1>1. CASE SameMode
  BY <1>1 DEF SameMode, SameShown, NullIsBlack
<1>2. CASE Restored
  <2> DEFINE mode == RestoreMode(g_state)
  <2>1. DisplayModeSwitch(mode, FALSE)
    BY <1>2 DEF Restored
  <2>2. mode \in Mode \/ (~g_blackened /\ mode = g_current_mode)
    BY <1>0 DEF RestoreMode, StateType, ModeOrNone, NoMode, NullIsBlack
  <2> HIDE DEF mode
  <2>3. CASE mode \in Mode
    BY <1>0, <2>1, <2>3, SwitchShows DEF NullIsBlack
  <2>4. CASE ~g_blackened /\ mode = g_current_mode
    BY <2>1, <2>4 DEF DisplayModeSwitch, DisplayModeEqual, display, NullIsBlack
  <2> QED BY <2>2, <2>3, <2>4
<1>3. CASE SwitchedTo
  BY <1>0, <1>3, SwitchShows DEF SwitchedTo, NullIsBlack
<1>4. CASE Forgotten
  BY <1>4 DEF Forgotten, display, NullIsBlack
<1>5. CASE Blackened
  <2>1. CurrentMode \in Mode /\ g_current_mode' = CurrentMode /\ g_blackened'
    BY <1>0, <1>5
       DEF Blackened, Blacken, CurrentMode, NullIsBlack, DisplayTypeOK, HwType, Mode
  <2> QED BY <2>1 DEF NullIsBlack
<1>6. CASE UNCHANGED <<g_blackened, hw>> /\ g_current_mode' \in {g_current_mode, CurrentMode}
  BY <1>0, <1>6 DEF NullIsBlack, CurrentMode, DisplayTypeOK, HwType, Mode
<1>7. CASE Replugged \/ AfrdInit
  BY <1>6, <1>7 DEF Replugged, AfrdInit, HandleHdmiSwitch
<1>8. CASE Chosen
  BY <1>8, NamesAssumption DEF Chosen, daemon, NullIsBlack
<1> QED BY <1>1, <1>2, <1>3, <1>4, <1>5, <1>7, <1>8 DEF Effect, Handled, Kept, Published

LEMMA NullIsBlackAlways == Spec => []NullIsBlack
<1>1. Init => NullIsBlack
  <2> SUFFICES ASSUME Init PROVE NullIsBlack
    OBVIOUS
  <2>1. user_mode.name \in ModeName
    BY ScenarioAssumption DEF Init
  <2> QED BY <2>1, NamesAssumption DEF Init, NullIsBlack
<1>2. TypeOK /\ NullIsBlack /\ [Next]_vars => NullIsBlack'
  BY StepEffect, EffectShows
<1> QED BY <1>1, <1>2, TypeCorrect, PTL DEF Spec

\* For every instance, the user's changes of mode and the link's included, a
\* blackout saves the mode that the kernel shows, however stale the cache is.
THEOREM BlackoutSavesWhatIsShown == Spec => BlackoutRemembersShownMode
<1>1. TypeOK /\ NullIsBlack /\ [Next]_vars
        => [~g_blackened /\ g_blackened' => g_state'.orig_mode.name = hw.mode]_vars
  <2> SUFFICES ASSUME TypeOK, NullIsBlack, Next, ~g_blackened, g_blackened'
               PROVE  g_state'.orig_mode.name = hw.mode
    OBVIOUS
  <2>1. Effect /\ g_state \in StateType
    BY StepEffect DEF TypeOK, SwitchTypeOK
  <2>2. CASE Blackened
    BY <2>1, <2>2 DEF Blackened, Blacken, CurrentMode, StateType, NullIsBlack
  <2>3. ~Restored /\ ~SwitchedTo
    BY DisplayModeSwitchLights DEF Restored, SwitchedTo, TypeOK, SwitchTypeOK
  <2>4. ~SameMode /\ ~Forgotten /\ ~Replugged /\ ~AfrdInit /\ ~Chosen
    BY DEF SameMode, Forgotten, display, Replugged, AfrdInit, Chosen, daemon
  <2> QED BY <2>1, <2>2, <2>3, <2>4 DEF Effect, Handled, Kept, Published
<1> QED BY <1>1, NullIsBlackAlways, TypeCorrect, PTL
        DEF Spec, BlackoutRemembersShownMode
-----------------------------------------------------------------------------
(* The display is borrowed and given back *)

LEMMA EqualLooks ==
  ASSUME NEW m, NEW n
  PROVE  DisplayModeEqual(m, n) <=> LookOf(m) = LookOf(n)
  BY Zenon DEF DisplayModeEqual, LookOf

\* A mode looks like something.
LEMMA ModesLook ==
  ASSUME NEW m \in ModeOrNone
  PROVE  /\ LookOf(m) # LookOf(NoMode) <=> m.name # NoName
         /\ m.name # NoName => LookOf(m) \in Looks
<1>1. CASE m \in Mode
  <2>1. m.name \in ModeName /\ m.name # NoName
    BY <1>1, NamesAssumption DEF Mode
  <2>2. Format[m.name] # Format[NoMode.name]
    BY <2>1, FormatAssumption DEF NoMode
  <2> QED BY <1>1, <2>1, <2>2 DEF LookOf, Looks
<1>2. CASE m = NoMode
  BY <1>2 DEF NoMode
<1> QED BY <1>1, <1>2 DEF ModeOrNone

\* Only a plug changes the link, and after its end afrd does nothing.
LEMMA StepLink == [Next]_vars => HdmiPlug \/ UNCHANGED hdmi_on
<1> SUFFICES ASSUME [Next]_vars, ~HdmiPlug PROVE UNCHANGED hdmi_on
  OBVIOUS
<1>1. CASE Uevents
  BY <1>1, Zenon DEF Uevents, VdecAdd, VdecRemove, FrhintStart, FrhintEnd, HdmiUevent,
                     HdcpUevent, world
<1>2. CASE Api
  BY <1>2, Zenon DEF Api, ApiFrameRateHint, ApiRefreshRate, ApiReconf, world
<1>3. CASE Daemon
  BY <1>3, Zenon DEF Daemon, Poll, UeventsDone, ApiDone, Blackout, Switch, Hdmi,
                     CheckConfig, HdcpCheck, Leave, FinalRestore, AfrdInit, Prologue, world
<1>4. CASE Environment
  BY <1>4, Zenon DEF Environment, Signal, Crash, HdcpDrop, UserMode, WriteConfig,
                     Quieten, world
<1>5. CASE UNCHANGED vars
  BY <1>5 DEF vars, world
<1> QED BY <1>1, <1>2, <1>3, <1>4, <1>5 DEF Next, Terminated

LEMMA DeadIsStill ==
  [Next]_vars /\ pc \notin Alive
    => UNCHANGED <<pc, g_state, g_current_mode, hw, cfg, hdmi_on>>
<1> SUFFICES ASSUME [Next]_vars, pc \notin Alive
             PROVE  UNCHANGED <<pc, g_state, g_current_mode, hw, cfg, hdmi_on>>
  OBVIOUS
<1>1. /\ pc # "poll" /\ pc # "uevents" /\ pc # "api" /\ pc # "blackout"
      /\ pc # "switch" /\ pc # "hdmi" /\ pc # "config" /\ pc # "hdcp_check"
      /\ pc # "init" /\ pc # "prologue" /\ pc \notin {"reload", "exit"}
  BY DEF Alive, Loop
<1>2. ~Uevents
  BY <1>1, Zenon DEF Uevents, VdecAdd, VdecRemove, FrhintStart, FrhintEnd, HdmiUevent,
                     HdcpUevent
<1>3. ~Api
  BY <1>1, Zenon DEF Api, ApiFrameRateHint, ApiRefreshRate, ApiReconf
<1>4. ~Daemon
  BY <1>1, Zenon DEF Daemon, Poll, UeventsDone, ApiDone, Blackout, Switch, Hdmi,
                     CheckConfig, HdcpCheck, Leave, FinalRestore, AfrdInit, Prologue
<1>5. Environment => Quieten
  BY Zenon DEF Environment, Signal, Crash, HdmiPlug, HdcpDrop, UserMode, WriteConfig
<1>6. Quieten \/ UNCHANGED vars
  BY <1>2, <1>3, <1>4, <1>5 DEF Next, Terminated
<1> QED BY <1>6 DEF Quieten, vars, daemon, world

LEMMA LoanInit == Init => Loan!Init
<1> SUFFICES ASSUME Init PROVE Loan!Init
  OBVIOUS
<1>1. user_mode.name \in ModeName /\ user_mode \in Mode /\ user_mode.name # Null
  BY NamesAssumption, ScenarioAssumption DEF Init, Mode
<1>2. hw.mode # Null /\ Shown = user_mode
  BY <1>1 DEF Init, Shown, Mode
<1>3. OnScreen \in Looks
  BY <1>1, <1>2 DEF OnScreen, Looks
<1>4. cfg \in ConfigType
  BY ConfigAssumption, ScenarioAssumption DEF Init
<1>5. cfg.enable \in BOOLEAN /\ cfg.delay_off \in BOOLEAN
  BY <1>4 DEF ConfigType
<1>6. g_state.orig_mode = NoMode /\ pc \in Alive /\ hdmi_on = TRUE
  BY DEF Init, ZeroState, Alive
<1> QED BY <1>2, <1>3, <1>5, <1>6 DEF Loan!Init

\* Effects that leave the screen alone.
LEMMA ScreenKept ==
  ASSUME DisplayTypeOK, Agrees,
         \/ SameMode \/ Forgotten
         \/ UNCHANGED <<g_blackened, hw>> /\ g_current_mode' \in {g_current_mode, CurrentMode}
  PROVE  OnScreen' = OnScreen /\ hw'.mode = hw.mode
<1>1. CASE SameMode \/ Forgotten
  BY <1>1 DEF SameMode, SameShown, Forgotten, display, OnScreen, Shown
<1>2. CASE UNCHANGED <<g_blackened, hw>> /\ g_current_mode' \in {g_current_mode, CurrentMode}
  BY <1>2 DEF OnScreen, Shown, CurrentMode
<1> QED BY <1>1, <1>2

\* After a switch of display_mode_switch the screen looks like the mode asked for.
LEMMA ScreenSwitched ==
  ASSUME DisplayTypeOK, Agrees, g_current_mode \in Mode, NEW mode \in Mode,
         NEW force \in BOOLEAN, DisplayModeSwitch(mode, force)
  PROVE  OnScreen' = LookOf(mode) /\ hw'.mode # Null
<1>1. /\ g_current_mode' \in Mode /\ hw'.mode = g_current_mode'.name
      /\ hw'.mode \in Fractional => hw'.frac = g_current_mode'.frac
      /\ DisplayModeEqual(g_current_mode', mode)
  BY SwitchAgrees
<1>2. hw'.mode # Null
  BY <1>1, NamesAssumption DEF Mode
<1>3. OnScreen' = LookOf(g_current_mode')
  BY <1>1, <1>2, Zenon DEF OnScreen, Shown, LookOf
<1> QED BY <1>1, <1>2, <1>3, EqualLooks

LEMMA ScreenIsCurrent ==
  ASSUME Agrees, g_current_mode # NoMode
  PROVE  OnScreen = LookOf(g_current_mode)
<1>1. CASE hw.mode = Null
  BY <1>1 DEF OnScreen
<1>2. CASE hw.mode # Null
  BY <1>2, Zenon DEF Agrees, OnScreen, Shown, LookOf
<1> QED BY <1>1, <1>2

\* A restoration gives back what was borrowed.
LEMMA RestoredReturns ==
  ASSUME TypeOK, Agrees, Restored
  PROVE  Loan!Returned
<1>0. DisplayTypeOK /\ g_state \in StateType /\ g_state.orig_mode \in ModeOrNone
  BY DEF TypeOK, SwitchTypeOK, StateType
<1>1. g_state'.orig_mode = NoMode
  BY DEF Restored, ZeroState
<1>2. LookOf(g_state.orig_mode) # LookOf(NoMode) <=> Switched
  BY <1>0, ModesLook DEF Switched
<1>3. CASE g_blackened \/ Switched
  <2>1. RestoreMode(g_state) \in Mode /\ g_current_mode \in Mode
    BY <1>3, SavedIsMode
  <2>2. OnScreen' = LookOf(RestoreMode(g_state)) /\ hw'.mode # Null
    BY <1>0, <2>1, ScreenSwitched DEF Restored
  <2>3. ~Switched => OnScreen = LookOf(RestoreMode(g_state))
    BY <2>1, ScreenIsCurrent, NamesAssumption DEF RestoreMode, Switched, Mode, NoMode
  <2> QED BY <1>1, <1>2, <2>2, <2>3 DEF Loan!Returned, Loan!Borrowed, RestoreMode, Switched
<1>4. CASE ~g_blackened /\ ~Switched
  <2>1. UNCHANGED <<hw, g_current_mode>> /\ hw.mode # Null
    BY <1>4, NothingToRestore DEF display, Agrees
  <2>2. OnScreen' = OnScreen
    BY <2>1 DEF OnScreen, Shown
  <2> QED BY <1>1, <1>2, <1>4, <2>1, <2>2 DEF Loan!Returned, Loan!Borrowed
<1> QED BY <1>3, <1>4

LEMMA LoanStep ==
  ASSUME TypeOK, SwitchInv, FrameInv, KernelInv, DisabledInv, [Next]_vars,
         "user" \notin Inputs
  PROVE  [Loan!Next]_(Loan!vars)
<1> USE DEF Loan!Next, Loan!vars
<1>0. /\ DisplayTypeOK /\ g_state \in StateType /\ g_state.orig_mode \in ModeOrNone
      /\ cfg \in Config /\ cfg_file \in Config
  BY DEF TypeOK, SwitchTypeOK, LoopTypeOK, WorldTypeOK, StateType
<1>1. Effect /\ ~Chosen /\ Framed /\ Controlled /\ Agrees /\ Inputs' = Inputs
  BY StepEffect, StepFrame, StepControl DEF Chosen, KernelInv, Framed, Inputs
<1>2. Loan!Borrowed <=> Switched
  BY <1>0, ModesLook DEF Switched, Loan!Borrowed
<1>3. CASE pc \notin Alive
  <2>1. UNCHANGED <<pc, g_state, g_current_mode, hw, cfg, hdmi_on>>
    BY <1>3, DeadIsStill
  <2>2. UNCHANGED OnScreen
    BY <2>1 DEF OnScreen, Shown
  <2> QED BY <1>1, <2>1, <2>2
<1>4. CASE HdmiPlug
  <2>1. UNCHANGED <<pc, g_state, g_current_mode, hw, cfg>> /\ hdmi_on' = ~hdmi_on
    BY <1>4 DEF HdmiPlug, daemon
  <2>2. UNCHANGED OnScreen
    BY <2>1 DEF OnScreen, Shown
  <2> QED BY <1>1, <2>1, <2>2 DEF Loan!Plug
<1>5. CASE AfrdInit
  <2>1. /\ pc \in Alive /\ pc' \in Alive /\ cfg' = cfg_file
        /\ UNCHANGED <<g_state, g_blackened, hw, hdmi_on>>
        /\ g_current_mode' \in {g_current_mode, CurrentMode}
    BY <1>5 DEF AfrdInit, HandleHdmiSwitch, Alive, world
  <2>2. ~Switched /\ hw.mode # Null
    BY <1>1, <1>5 DEF AfrdInit, DisabledInv, Starting, Agrees
  <2>3. OnScreen' = OnScreen
    BY <1>0, <1>1, <2>1, ScreenKept
  <2>4. cfg_file.enable \in BOOLEAN /\ cfg_file.delay_off \in BOOLEAN
    BY <1>0, ConfigAssumption DEF ConfigType
  <2>5. [enable |-> cfg'.enable, delay_off |-> cfg'.delay_off]
          \in [enable : BOOLEAN, delay_off : BOOLEAN]
    BY <2>1, <2>4
  <2> QED BY <1>1, <1>2, <2>1, <2>2, <2>3, <2>5 DEF Loan!Configure
<1> DEFINE Others == pc \in Alive /\ UNCHANGED <<hdmi_on, cfg, Inputs>>
<1>6. CASE Others /\ Restored
  <2>1. Loan!Returned
    BY <1>1, <1>6, RestoredReturns
  <2> QED BY <1>6, <2>1 DEF Loan!GiveBack, Loan!End
<1>7. CASE Others /\ ~Restored /\ ~AfrdInit /\ pc' \notin Alive
  <2>1. UNCHANGED <<g_state, g_blackened>> /\ ~Switched
    BY <1>1, <1>7 DEF Controlled
  <2>2. ~Blackened /\ ~SwitchedTo
    <3>1. ~Blackened
      BY <2>1 DEF Blackened, Blacken
    <3>2. ASSUME SwitchedTo PROVE FALSE
      <4>1. g_state'.orig_mode.name # NoName
        BY <2>1, <3>2 DEF SwitchedTo, SavedMode, Switched
      <4> QED BY <2>1, <4>1 DEF Switched
    <3> QED BY <3>1, <3>2
  <2>3. \/ SameMode \/ Forgotten
        \/ UNCHANGED <<g_blackened, hw>> /\ g_current_mode' \in {g_current_mode, CurrentMode}
    BY <1>1, <1>7, <2>2 DEF Effect, Handled, Kept, Published, Replugged, HandleHdmiSwitch
  <2>4. OnScreen' = OnScreen /\ hw'.mode = hw.mode
    BY <1>0, <1>1, <2>3, ScreenKept
  <2> QED BY <1>2, <1>7, <2>1, <2>4 DEF Loan!End
<1>8. CASE Others /\ pc' \in Alive /\ SameMode
  <2>1. OnScreen' = OnScreen /\ hw'.mode = hw.mode
    BY <1>0, <1>1, <1>8, ScreenKept
  <2> QED BY <1>8, <2>1 DEF SameMode
<1>9. CASE Others /\ pc' \in Alive /\ SwitchedTo
  <2>1. g_current_mode \in Mode /\ g_current_mode # NoMode
    BY <1>0, <1>9, NamesAssumption DEF SwitchedTo, DisplayTypeOK, ModeOrNone, NoMode, Mode
  <2>2. PICK best \in Mode, force \in BOOLEAN : DisplayModeSwitch(best, force)
    BY <1>9 DEF SwitchedTo
  <2>3. OnScreen' = LookOf(best) /\ hw'.mode # Null
    BY <1>0, <1>1, <2>1, <2>2, ScreenSwitched
  <2>4. LookOf(g_state'.orig_mode) =
          IF Loan!Borrowed THEN LookOf(g_state.orig_mode) ELSE OnScreen
    BY <1>1, <1>2, <1>9, <2>1, ScreenIsCurrent DEF SwitchedTo, SavedMode, Switched
  <2>5. LookOf(best) \in Looks
    BY DEF Looks
  <2> QED BY <1>9, <2>3, <2>4, <2>5 DEF Loan!Take, SwitchedTo
<1>10. CASE Others /\ pc' \in Alive /\ Forgotten
  <2>1. OnScreen' = OnScreen /\ hw'.mode = hw.mode
    BY <1>0, <1>1, <1>10, ScreenKept
  <2>2. g_state'.orig_mode = NoMode /\ ~cfg.delay_off /\ hw.mode # Null
    BY <1>1, <1>10 DEF Forgotten, ZeroState, Agrees
  <2> QED BY <1>10, <2>1, <2>2 DEF Loan!Keep
<1>11. CASE Others /\ pc' \in Alive /\ Blackened
  <2>1. cfg.enable /\ ~Switched
    BY <1>11 DEF Blackened, SwitchInv, BlackoutIsArmedSafely
  <2>2. /\ g_current_mode' = CurrentMode /\ g_state'.orig_mode = CurrentMode
        /\ g_blackened' /\ hw.mode # Null
    BY <1>0, <1>1, <1>11 DEF Blackened, Blacken, StateType, Agrees
  <2>3. hw'.mode = Null
    BY <1>0, <1>11, NamesAssumption
       DEF Blackened, Blacken, WriteNull, WriteMode, DisplayTypeOK, HwType
  <2>4. LookOf(CurrentMode) = LookOf(Shown)
    BY <1>0, <1>1, <1>11, CurrentModeAgrees, EqualLooks DEF Blackened
  <2>5. OnScreen = LookOf(CurrentMode) /\ OnScreen' = LookOf(CurrentMode)
    BY <2>2, <2>3, <2>4 DEF OnScreen
  <2> QED BY <1>2, <1>11, <2>1, <2>2, <2>3, <2>5 DEF Loan!Darken
<1>12. CASE Others /\ pc' \in Alive /\ Replugged
  <2>1. /\ UNCHANGED hw /\ UNCHANGED g_blackened
        /\ g_current_mode' \in {g_current_mode, CurrentMode}
        /\ \/ UNCHANGED g_state
           \/ ~hdmi_on /\ g_state'.orig_mode = NoMode
    BY <1>0, <1>12 DEF Replugged, HandleHdmiSwitch, StateType
  <2>2. OnScreen' = OnScreen
    BY <1>0, <1>1, <2>1, ScreenKept
  <2> QED BY <1>12, <2>1, <2>2 DEF Loan!Lose
<1>13. HdmiPlug \/ AfrdInit \/ UNCHANGED <<hdmi_on, cfg, Inputs>>
  BY <1>1, StepLink DEF Framed
<1> QED BY <1>1, <1>3, <1>4, <1>5, <1>6, <1>7, <1>8, <1>9, <1>10, <1>11, <1>12, <1>13
        DEF Effect, Handled, Kept, Published

\* For every instance in which only afrd changes the mode, the links that come and go
\* and switch.delay.off=0 included, afrd borrows the display and gives it back.
THEOREM DisplayLoanImplemented == Spec => ImplementsDisplayLoan
<1>1. TypeOK /\ SwitchInv /\ FrameInv /\ KernelInv /\ DisabledInv /\ [Next]_vars
        => [Loan!Next]_(Loan!vars)
  <2> SUFFICES ASSUME TypeOK, SwitchInv, FrameInv, KernelInv, DisabledInv, [Next]_vars
               PROVE  [Loan!Next]_(Loan!vars)
    OBVIOUS
  <2>1. CASE "user" \in Inputs
    <3>1. Inputs' = Inputs
      BY StepFrame DEF Framed, Inputs
    <3> QED BY <2>1, <3>1 DEF Loan!Next, Loan!Meddled
  <2>2. CASE "user" \notin Inputs
    BY <2>2, LoanStep
  <2> QED BY <2>1, <2>2
<1> QED BY <1>1, LoanInit, DisabledInvAlways, SwitchInvAlways, FrameInvAlways,
           KernelInvAlways, PTL
        DEF Spec, Loan!Spec, ImplementsDisplayLoan
=============================================================================
