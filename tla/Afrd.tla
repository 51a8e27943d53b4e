-------------------------------- MODULE Afrd --------------------------------
(***************************************************************************)
(* The control loop of afrd, the automatic frame rate daemon: the handlers *)
(* of afrd.c, the display mode switching of modes.c, HDCP recovery         *)
(* (hdcp.c) and the init / run / fini cycle of main.c.                     *)
(*                                                                         *)
(* The daemon is one thread. An iteration of afrd_run refreshes the clock, *)
(* drains the kernel uevents, serves one API datagram and then tests its   *)
(* timers one after another; `pc' names the part of the iteration that     *)
(* comes next.  The outside world (decoders, the HDMI link, the user, the  *)
(* configuration file, signals) moves between any two parts.               *)
(*                                                                         *)
(* Time: g_mstime is refreshed only around poll(), so a timer armed for a  *)
(* non-zero delay can become due at Poll and nowhere else.  Which running  *)
(* timers a Poll makes due is left open, so that every choice of the       *)
(* delays in the configuration is covered (module MsTime has the 32-bit    *)
(* arithmetic behind this).                                                *)
(*                                                                         *)
(* A definition X_bug is what X would be with a plausible mistake in the   *)
(* code; nothing uses it but the mutation runs PROJECT.json lists.         *)
(***************************************************************************)
EXTENDS Naturals, FiniteSets

CONSTANTS
  Codec, NoCodec,     \* decoder names (MODALIAS); an uevent or state without one
  Hz, NoHz,           \* movie frame rates within HZ_MIN..HZ_MAX; 0 or out of range
  NoHint,             \* no frame rate hint from the API is fresh
  ModeName, NoName,   \* names of video modes; the empty name of a zeroed mode
  Format,             \* name -> width, height, scan and nominal rate of the mode
  Fractional,         \* the names whose mode has a fractional variant
  Null,               \* the "null" mode: no picture
  Config,             \* the configurations the file may hold
  Scenario            \* what an instance lets the outside world do

Mode == [name : ModeName, frac : BOOLEAN]
NoMode == [name |-> NoName, frac |-> FALSE]

\* What afrd_init reads.  A delay is TRUE when it is non-zero; `best' is the
\* mode the search of framerate_switch settles on for a frame rate, given
\* mode.prefer.exact, mode.use.fract, mode.blacklist.rates and mode.extra.
ConfigType ==
  [enable : BOOLEAN, delay_on : BOOLEAN, delay_off : BOOLEAN, retry : BOOLEAN,
   timeout : BOOLEAN, blackout : BOOLEAN, ignore : BOOLEAN, hdmi : BOOLEAN,
   vdec_blacklist : SUBSET Codec, frhint_blacklist : SUBSET Codec,
   best : [Hz -> Mode \union {NoMode}]]

ASSUME NamesAssumption ==
  /\ NoName \notin ModeName /\ Null \notin ModeName \union {NoName}
  /\ NoHz \notin Hz /\ NoHint \notin Hz \union {NoHz}
  /\ NoCodec \notin Codec
ASSUME FormatAssumption ==
  /\ Fractional \subseteq ModeName
  /\ \A n \in ModeName : Format[n] # Format[NoName]
ASSUME ConfigAssumption == Config \subseteq ConfigType
\* A scenario: the kinds of outside events, the decoders that come and go, the
\* frame rates of the movies, the names of the modes the user selects and the
\* configurations of the file.
ASSUME ScenarioAssumption ==
  \A s \in Scenario : /\ s.decoders \subseteq Codec
                      /\ s.rates \subseteq Hz
                      /\ s.names \subseteq ModeName
                      /\ s.config \subseteq Config

VARIABLES
  pc,               \* the next part of the daemon's iteration
  g_state,          \* the state of the frame rate switch
  frame_rate_hint,  \* the API's hint while it is fresh, else NoHint
  ost_switch, ost_hdmi, ost_blackout, ost_config, ost_hdcp_check,  \* timers
  ost_off, ost_hdcp,          \* stamps: "run" while recent, else "off"
  g_current_mode, g_blackened,
  modes,            \* whether g_modes holds the modes of a display
  hdcp_enabled,     \* g_hdcp_enabled # 0
  cfg,              \* the configuration afrd_init loaded
  stats,            \* g_afrd_stats, as published in shared memory
  g_shutdown,
  hw,               \* the kernel's side: mode, policy, applied fraction, HDCP
  hdmi_on, hdmi_uevent,       \* the HDMI link, and an uevent about it unread
  vdec, hinted,     \* decoders present; an unended FRAME_RATE_HINT
  user_mode,        \* the mode the system or the user selected last
  cfg_file,         \* the configuration in the file
  touched,          \* the file's mtime differs from g_config_mtime
  quiet,            \* the outside world has stopped acting
  scenario          \* the scenario of this behaviour, chosen at the start

active == <<ost_switch, ost_hdmi, ost_blackout, ost_config, ost_hdcp_check>>
display == <<g_current_mode, g_blackened, hw>>
world == <<hdmi_on, hdmi_uevent, vdec, hinted, user_mode, cfg_file, quiet,
           scenario>>
daemon == <<pc, g_state, frame_rate_hint, active, ost_off, ost_hdcp,
            g_current_mode, g_blackened, modes, hdcp_enabled, cfg, stats>>
vars == <<daemon, g_shutdown, hw, world, touched>>

TimerState == {"off", "run", "due"}
Loop == {"poll", "uevents", "api", "blackout", "switch", "hdmi", "config",
         "hdcp_check"}
Alive == Loop \union {"init", "prologue", "reload", "exit"}

Inputs == scenario.inputs
Rates == Hz \cap scenario.rates

-----------------------------------------------------------------------------
(* Timers *)

Arm(nonzero) == IF nonzero THEN "run" ELSE "due"
Elapsed(t) == IF t = "run" THEN {"run", "due"} ELSE {t}
Faded_bug(t) == Elapsed(t)
Faded(t) == IF t = "run" THEN {"run", "off"} ELSE {t}
\* A periodic timer is armed again when it is served.
Periodic_bug(t) == IF t = "due" THEN "off" ELSE t
Periodic(t) == IF t = "due" THEN "run" ELSE t

-----------------------------------------------------------------------------
(* The state of a switch, and what is published of it *)

ZeroState ==
  [restore |-> FALSE, delayed_switch |-> FALSE, hz |-> NoHz,
   orig_mode |-> NoMode, modalias |-> NoCodec, hz_ost |-> "off",
   sampled |-> FALSE]   \* sampled: hz_stat holds samples from the decoder

Switched == g_state.orig_mode.name # NoName

Stats(enabled, gs, black, current) ==
  [enabled |-> enabled, switched |-> gs.orig_mode.name # NoName,
   blackened |-> black, current |-> current,
   original |-> IF gs.orig_mode.name # NoName THEN gs.orig_mode ELSE current]

UpdateStats_bug ==
  stats' = Stats(cfg.enable, g_state, g_blackened', g_current_mode')
UpdateStats ==
  stats' = Stats(cfg.enable, g_state', g_blackened', g_current_mode')

-----------------------------------------------------------------------------
(* Display modes *)

\* A fraction is effective only for the rates that have a fractional variant.
DisplayModeEqual(m, n) ==
  /\ Format[m.name] = Format[n.name]
  /\ (m.frac /\ m.name \in Fractional) <=> (n.frac /\ n.name \in Fractional)

\* Both modes have the geometry of the current mode: the rates are close when
\* the nominal rates are the same.
HzClose(m, n) == Format[m.name] = Format[n.name]

\* The kernel: writing the name of the mode in use does nothing, so that a new
\* frac_rate_policy takes effect only when the name changes; a new mode has to
\* authenticate HDCP again.
WriteMode(h, name) ==
  IF name = h.mode \/ name = NoName THEN h
  ELSE [h EXCEPT !.mode = name, !.frac = h.policy, !.auth = FALSE]

WriteNull(h) == IF g_blackened THEN h ELSE WriteMode(h, Null)

HdcpRestored(h) == IF hdcp_enabled THEN [h EXCEPT !.auth = TRUE] ELSE h

ViaNull_bug(mode, force) == force
ViaNull(mode, force) ==
  \/ force
  \/ mode.name = g_current_mode.name /\ mode.frac # g_current_mode.frac

DisplayModeSwitch(mode, force) ==
  IF ~g_blackened /\ ~force /\ DisplayModeEqual(mode, g_current_mode)
  THEN UNCHANGED display
  ELSE LET p == [hw EXCEPT !.policy = mode.frac]
           n == IF ViaNull(mode, force) THEN WriteNull(p) ELSE p
       IN /\ hw' = HdcpRestored(WriteMode(n, mode.name))
          /\ g_current_mode' = mode
          /\ g_blackened' = FALSE

CurrentMode_bug == g_current_mode
CurrentMode ==
  IF hw.mode = Null THEN g_current_mode
  ELSE [name |-> hw.mode, frac |-> hw.policy]

-----------------------------------------------------------------------------
(* framerate_restore and framerate_switch                                  *)
(*                                                                         *)
(* Both take g_state as the caller left it; the caller frames what neither *)
(* of them touches.                                                        *)

RestoreMode_bug(gs) == g_current_mode
RestoreMode(gs) ==
  IF gs.orig_mode.name # NoName THEN gs.orig_mode ELSE g_current_mode

FramerateRestore(gs, only_if_black) ==
  /\ ost_blackout' = "off"
  /\ ost_switch' = "off"
  /\ IF only_if_black /\ ~g_blackened
     THEN g_state' = gs /\ UNCHANGED <<display, ost_hdcp, stats>>
     ELSE /\ ost_hdcp' = "run"
          /\ DisplayModeSwitch(RestoreMode(gs), FALSE)
          /\ g_state' = ZeroState
          /\ UpdateStats

GiveUp_bug(gs) ==
  /\ ost_switch' = "off" /\ g_state' = gs
  /\ UNCHANGED <<display, ost_blackout, ost_hdcp, stats>>
GiveUp(gs) == FramerateRestore(gs, TRUE)

\* The sources are asked again after the retry delay; without one afrd gives up.
RetryDetection(gs) ==
  IF cfg.retry
  THEN /\ ost_switch' = "run"
       /\ g_state' = [gs EXCEPT !.sampled = TRUE]
       /\ UNCHANGED <<display, ost_blackout, ost_hdcp, stats>>
  ELSE GiveUp([gs EXCEPT !.sampled = TRUE])

SkipSwitch(gs, best, force) ==
  /\ gs.orig_mode.name # NoName /\ ~g_blackened /\ ~force
  /\ HzClose(best, g_current_mode)

SavedMode_bug(gs) == g_current_mode
SavedMode(gs) ==
  IF gs.orig_mode.name = NoName THEN g_current_mode ELSE gs.orig_mode

SwitchTo(gs, best, force, switch) ==
  /\ ost_blackout' = "off"
  /\ ost_switch' = switch
  /\ ost_hdcp' = "run"
  /\ g_state' = [gs EXCEPT !.orig_mode = SavedMode(gs)]
  /\ DisplayModeSwitch(best, force)
  /\ UpdateStats

BestMode(hz) ==
  IF modes /\ g_current_mode.name # NoName THEN cfg.best[hz] ELSE NoMode

SwitchToHz(gs, force, switch) ==
  LET best == BestMode(gs.hz)
  IN IF best = NoMode \/ SkipSwitch(gs, best, force)
     THEN FramerateRestore(gs, TRUE)
     ELSE SwitchTo(gs, best, force, switch)

\* `found' is what best_fps makes of the samples: on the last chance it has
\* only those of earlier queries.
Detect(gs, force, switch) ==
  \E found \in Rates \union {NoHz} :
    IF gs.hz_ost = "due"
    THEN LET late == [gs EXCEPT !.hz_ost = "off", !.hz = found]
         IN /\ gs.sampled \/ found = NoHz
            /\ IF found = NoHz THEN GiveUp(late)
               ELSE SwitchToHz(late, force, switch)
    ELSE IF found = NoHz THEN RetryDetection(gs)
         ELSE SwitchToHz([gs EXCEPT !.hz = found, !.sampled = TRUE],
                         force, switch)

Enabled_bug == TRUE
Enabled == cfg.enable

\* `switch' is the switch timer as the caller left it.
FramerateSwitch(gs0, force, switch) ==
  LET gs == [gs0 EXCEPT !.delayed_switch = FALSE]
  IN IF gs.restore THEN FramerateRestore(gs, FALSE)
     ELSE IF ~Enabled THEN FramerateRestore(gs, TRUE)
     ELSE IF gs.hz = NoHz THEN Detect(gs, force, switch)
     ELSE SwitchToHz(gs, force, switch)

-----------------------------------------------------------------------------
(* delay_framerate_switch *)

IgnoreStart ==
  /\ cfg.ignore /\ ost_off = "run"
  /\ Switched /\ ~g_blackened /\ ~g_state.delayed_switch

IgnoreEvent_bug(restore) == IgnoreStart
IgnoreEvent(restore) == ~restore /\ IgnoreStart

\* The decoder was only restarted (a seek): the pending restore is dropped.
Ignored ==
  /\ IgnoreStart
  /\ ost_blackout' = "off" /\ ost_switch' = "off"
  /\ g_state' = [g_state EXCEPT !.restore = FALSE]
  /\ UNCHANGED <<display, ost_off, ost_hdcp>>
  /\ UpdateStats

\* switch.delay.off=0: the mode is kept, but a black screen is not.
RestoreDisabled ==
  /\ ost_blackout' = "off" /\ ost_switch' = "off"
  /\ IF g_blackened
     THEN ost_hdcp' = "run" /\ DisplayModeSwitch(RestoreMode(g_state), FALSE)
     ELSE UNCHANGED <<display, ost_hdcp>>
  /\ g_state' = ZeroState
  /\ UpdateStats

Blacklisted ==
  /\ ost_blackout' = "off" /\ ost_switch' = "off"
  /\ UNCHANGED <<display, g_state, ost_hdcp, stats>>

\* Turning between switch and restore starts the collection of samples anew.
Turned(restore, hz, codec) ==
  LET gs == IF codec = NoCodec THEN g_state
            ELSE [g_state EXCEPT !.modalias = codec]
  IN IF gs.restore = restore THEN gs
     ELSE [gs EXCEPT !.restore = restore, !.hz = hz, !.sampled = FALSE]

Hint(restore, hz) ==
  IF ~restore /\ frame_rate_hint # NoHint THEN frame_rate_hint ELSE hz

\* A hint outweighs the other sources unless they have been sampled.
WithHint(gs, hz) ==
  IF hz = NoHz THEN {gs}
  ELSE {[gs EXCEPT !.hz = h] : h \in IF gs.sampled THEN Rates ELSE {hz}}

BlackoutWanted_bug(gs) == cfg.enable /\ cfg.blackout /\ gs.hz = NoHz
BlackoutWanted(gs) ==
  /\ cfg.enable /\ cfg.blackout
  /\ gs.hz = NoHz /\ gs.orig_mode.name = NoName

\* switch.timeout limits the detection of a frame rate.
TimeLimit_bug(restore) == IF restore THEN "off" ELSE g_state.hz_ost
TimeLimit(restore) == IF restore THEN "off" ELSE Arm(cfg.timeout)

SwitchDelay(restore) ==
  IF restore /\ ~g_blackened THEN cfg.delay_off ELSE cfg.delay_on

ArmSwitch(restore, hz, codec) ==
  \E gs \in WithHint(Turned(restore, hz, codec), Hint(restore, hz)) :
    /\ ost_switch' = Arm(SwitchDelay(restore))
    /\ g_state' = [gs EXCEPT !.hz_ost = TimeLimit(restore),
                             !.delayed_switch = @ \/ ~restore]
    /\ ost_blackout' = IF ~restore /\ BlackoutWanted(gs) THEN "run" ELSE "off"
    /\ UNCHANGED <<display, ost_hdcp, stats>>

DelayFramerateSwitch(restore, hz, codec) ==
  IF IgnoreEvent(restore) THEN Ignored
  ELSE /\ ost_off' = IF cfg.ignore /\ restore THEN "run" ELSE ost_off
       /\ IF restore /\ ~cfg.delay_off THEN RestoreDisabled
          ELSE IF codec \in cfg.vdec_blacklist THEN Blacklisted
          ELSE ArmSwitch(restore, hz, codec)

-----------------------------------------------------------------------------
(* Kernel uevents *)

UNTOUCHED == UNCHANGED <<pc, frame_rate_hint, ost_hdmi, ost_config,
                         ost_hdcp_check, modes, hdcp_enabled, cfg,
                         g_shutdown, touched>>

VdecAdd(c) ==
  /\ pc = "uevents" /\ c \in scenario.decoders /\ ~quiet
  /\ c \notin vdec
  /\ vdec' = vdec \union {c}
  /\ DelayFramerateSwitch(FALSE, NoHz, c)
  /\ UNTOUCHED
  /\ UNCHANGED <<hdmi_on, hdmi_uevent, hinted, user_mode, cfg_file, quiet,
                 scenario>>

VdecRemove(c) ==
  /\ pc = "uevents" /\ c \in scenario.decoders /\ ~quiet
  /\ c \in vdec
  /\ vdec' = vdec \ {c}
  /\ DelayFramerateSwitch(TRUE, NoHz, c)
  /\ UNTOUCHED
  /\ UNCHANGED <<hdmi_on, hdmi_uevent, hinted, user_mode, cfg_file, quiet,
                 scenario>>

\* FRAME_RATE_HINT: hz_round makes NoHz of a rate that is not a standard one.
FrhintStart(hz, c) ==
  /\ pc = "uevents" /\ "hint" \in Inputs /\ ~quiet
  /\ c \in scenario.decoders \union {NoCodec}
  /\ hinted' = TRUE
  /\ IF g_state.modalias \in cfg.frhint_blacklist
     THEN UNCHANGED <<display, g_state, ost_blackout, ost_switch, ost_off,
                      ost_hdcp, stats>>
     ELSE DelayFramerateSwitch(FALSE, hz, c)
  /\ UNTOUCHED
  /\ UNCHANGED <<hdmi_on, hdmi_uevent, vdec, user_mode, cfg_file, quiet,
                 scenario>>

FrhintEnd(c) ==
  /\ pc = "uevents" /\ "hint" \in Inputs /\ ~quiet
  /\ c \in scenario.decoders \union {NoCodec}
  /\ hinted' = FALSE
  /\ DelayFramerateSwitch(TRUE, NoHz, c)
  /\ UNTOUCHED
  /\ UNCHANGED <<hdmi_on, hdmi_uevent, vdec, user_mode, cfg_file, quiet,
                 scenario>>

HdmiUevent ==
  /\ pc = "uevents" /\ hdmi_uevent
  /\ hdmi_uevent' = FALSE
  /\ ost_hdmi' = IF cfg.hdmi THEN "run" ELSE ost_hdmi
  /\ UNCHANGED <<pc, g_state, frame_rate_hint, ost_switch, ost_blackout,
                 ost_config, ost_hdcp_check, ost_off, ost_hdcp, display, modes,
                 hdcp_enabled, cfg, stats, g_shutdown, hdmi_on, vdec, hinted,
                 user_mode, cfg_file, touched, quiet, scenario>>

\* "HDCP turned HDMI off": HDCP is forced on during playback or right after a
\* mode switch.
HdcpUevent ==
  /\ pc = "uevents" /\ "hdcp" \in Inputs /\ ~quiet
  /\ LET forced == Switched \/ ost_hdcp = "run"
     IN /\ hdcp_enabled' = (hdcp_enabled \/ forced)
        /\ hw' = [hw EXCEPT !.auth = forced /\ ~g_blackened]
  /\ UNCHANGED <<pc, g_state, frame_rate_hint, active, ost_off, ost_hdcp,
                 g_current_mode, g_blackened, modes, cfg, stats, g_shutdown,
                 world, touched>>

UeventsDone ==
  /\ pc = "uevents" /\ ~hdmi_uevent
  /\ pc' = "api"
  /\ UNCHANGED <<g_state, frame_rate_hint, active, ost_off, ost_hdcp, display,
                 modes, hdcp_enabled, cfg, stats, g_shutdown, world, touched>>

-----------------------------------------------------------------------------
(* The API: a datagram holds any number of commands *)

ApiFrameRateHint(hz) ==
  /\ pc = "api" /\ "api_hint" \in Inputs /\ ~quiet
  /\ frame_rate_hint' = hz
  /\ UNCHANGED <<pc, g_state, active, ost_off, ost_hdcp, display, modes,
                 hdcp_enabled, cfg, stats, g_shutdown, world, touched>>

\* The pending switch timer stays armed unless framerate_restore stops it.
ApiRefreshRate(hz) ==
  /\ pc = "api" /\ "api_rate" \in Inputs /\ ~quiet
  /\ FramerateSwitch([g_state EXCEPT !.restore = (hz = NoHz), !.hz = hz],
                     TRUE, ost_switch)
  /\ UNTOUCHED
  /\ UNCHANGED <<ost_off, world>>

ApiReconf ==
  /\ pc = "api" /\ "reconf" \in Inputs /\ ~quiet
  /\ ost_config' = "due"
  /\ touched' = TRUE
  /\ UNCHANGED <<pc, g_state, frame_rate_hint, ost_switch, ost_hdmi,
                 ost_blackout, ost_hdcp_check, ost_off, ost_hdcp, display,
                 modes, hdcp_enabled, cfg, stats, g_shutdown, world>>

ApiDone ==
  /\ pc = "api"
  /\ pc' = "blackout"
  /\ UNCHANGED <<g_state, frame_rate_hint, active, ost_off, ost_hdcp, display,
                 modes, hdcp_enabled, cfg, stats, g_shutdown, world, touched>>

-----------------------------------------------------------------------------
(* The main loop *)

\* Sleeps, then refreshes the clock: running timers may have become due.
Poll ==
  /\ pc = "poll" /\ ~g_shutdown
  /\ pc' = "uevents"
  /\ ost_switch' \in Elapsed(ost_switch)
  /\ ost_hdmi' \in Elapsed(ost_hdmi)
  /\ ost_blackout' \in Elapsed(ost_blackout)
  /\ ost_config' \in Elapsed(ost_config)
  /\ ost_hdcp_check' \in Elapsed(ost_hdcp_check)
  /\ \E t \in Elapsed(g_state.hz_ost) : g_state' = [g_state EXCEPT !.hz_ost = t]
  /\ ost_off' \in Faded(ost_off)
  /\ ost_hdcp' \in Faded(ost_hdcp)
  /\ frame_rate_hint' \in {frame_rate_hint, NoHint}
  /\ UNCHANGED <<display, modes, hdcp_enabled, cfg, stats, g_shutdown, world,
                 touched>>

Blacken ==
  IF g_blackened THEN UNCHANGED <<g_state, display, stats>>
  ELSE /\ g_current_mode' = CurrentMode
       /\ g_state' = [g_state EXCEPT !.orig_mode = CurrentMode]
       /\ hw' = WriteNull(hw)
       /\ g_blackened' = TRUE
       /\ UpdateStats

Blackout ==
  /\ pc = "blackout"
  /\ pc' = "switch"
  /\ ost_blackout' = IF ost_blackout = "due" THEN "off" ELSE ost_blackout
  /\ IF ost_blackout = "due" /\ ~g_state.restore THEN Blacken
     ELSE UNCHANGED <<g_state, display, stats>>
  /\ UNCHANGED <<frame_rate_hint, ost_switch, ost_hdmi, ost_config,
                 ost_hdcp_check, ost_off, ost_hdcp, modes, hdcp_enabled, cfg,
                 g_shutdown, world, touched>>

Switch ==
  /\ pc = "switch"
  /\ pc' = "hdmi"
  /\ IF ost_switch = "due" THEN FramerateSwitch(g_state, FALSE, "off")
     ELSE UNCHANGED <<g_state, display, ost_switch, ost_blackout, ost_hdcp,
                      stats>>
  /\ UNCHANGED <<frame_rate_hint, ost_hdmi, ost_config, ost_hdcp_check,
                 ost_off, modes, hdcp_enabled, cfg, g_shutdown, world, touched>>

\* With `on' the lists are read anew: disp_cap may be unreadable, the display
\* may know HDCP or not.
HandleHdmiSwitch(on) ==
  IF ~on
  THEN /\ hdcp_enabled' = FALSE
       /\ modes' = FALSE
       /\ g_state' = [g_state EXCEPT !.orig_mode = NoMode]
       /\ UNCHANGED g_current_mode
  ELSE /\ hdcp_enabled' \in IF "hdcp" \in Inputs THEN BOOLEAN ELSE {FALSE}
       /\ modes' \in IF "hdmi" \in Inputs THEN BOOLEAN ELSE {TRUE}
       /\ g_current_mode' = IF modes' THEN CurrentMode ELSE g_current_mode
       /\ UNCHANGED g_state

Hdmi ==
  /\ pc = "hdmi"
  /\ pc' = "config"
  /\ IF ost_hdmi = "due"
     THEN ost_hdmi' = "off" /\ HandleHdmiSwitch(hdmi_on)
     ELSE UNCHANGED <<ost_hdmi, hdcp_enabled, modes, g_state, g_current_mode>>
  /\ UNCHANGED <<frame_rate_hint, ost_switch, ost_blackout, ost_config,
                 ost_hdcp_check, ost_off, ost_hdcp, g_blackened, hw, cfg, stats,
                 g_shutdown, world, touched>>

Idle == ost_blackout = "off" /\ ost_switch = "off" /\ ost_hdmi = "off"

CheckConfig ==
  /\ pc = "config"
  /\ pc' = IF ost_config = "due" /\ Idle /\ touched THEN "reload"
           ELSE "hdcp_check"
  /\ ost_config' = Periodic(ost_config)
  /\ UNCHANGED <<g_state, frame_rate_hint, ost_switch, ost_hdmi, ost_blackout,
                 ost_hdcp_check, ost_off, ost_hdcp, display, modes,
                 hdcp_enabled, cfg, stats, g_shutdown, world, touched>>

\* HDCP 1.4 or 2.2 is supported, the link has lost it and there is a picture.
HdcpCheck ==
  /\ pc = "hdcp_check"
  /\ pc' = "poll"
  /\ ost_hdcp_check' = Periodic(ost_hdcp_check)
  /\ hw' = IF ost_hdcp_check = "due" /\ ~g_blackened THEN HdcpRestored(hw)
           ELSE hw
  /\ UNCHANGED <<g_state, frame_rate_hint, ost_switch, ost_hdmi, ost_blackout,
                 ost_config, ost_off, ost_hdcp, g_current_mode, g_blackened,
                 modes, hdcp_enabled, cfg, stats, g_shutdown, world, touched>>

Leave ==
  /\ pc = "poll" /\ g_shutdown
  /\ pc' = "exit"
  /\ UNCHANGED <<g_state, frame_rate_hint, active, ost_off, ost_hdcp, display,
                 modes, hdcp_enabled, cfg, stats, g_shutdown, world, touched>>

FinalState_bug == g_state
FinalState == [g_state EXCEPT !.restore = TRUE]

\* main starts over after a reload only.
AfterRun_bug == "init"
AfterRun == IF pc = "reload" THEN "init" ELSE "stopped"

\* The end of afrd_run and afrd_fini: the display is restored "just in case".
FinalRestore ==
  /\ pc \in {"reload", "exit"}
  /\ pc' = AfterRun
  /\ FramerateSwitch(FinalState, FALSE, ost_switch)
  /\ hdcp_enabled' = FALSE
  /\ modes' = FALSE
  /\ UNCHANGED <<frame_rate_hint, ost_hdmi, ost_config, ost_hdcp_check, ost_off,
                 cfg, g_shutdown, world, touched>>

AfrdInit ==
  /\ pc = "init"
  /\ pc' = "prologue"
  /\ cfg' = cfg_file
  /\ HandleHdmiSwitch(TRUE)
  /\ UNCHANGED <<frame_rate_hint, active, ost_off, ost_hdcp, g_blackened, hw,
                 stats, g_shutdown, world, touched>>

\* The start of afrd_run; only here is the file's mtime remembered.
Prologue ==
  /\ pc = "prologue"
  /\ pc' = "poll"
  /\ ost_switch' = "off" /\ ost_hdmi' = "off" /\ ost_blackout' = "off"
  /\ ost_off' = "off" /\ ost_hdcp' = "off"
  /\ ost_config' = "run" /\ ost_hdcp_check' = "run"
  /\ touched' = FALSE
  /\ UNCHANGED <<g_state, frame_rate_hint, display, modes, hdcp_enabled, cfg,
                 g_shutdown, world>>
  /\ UpdateStats

-----------------------------------------------------------------------------
(* The outside world *)

Outside == <<g_state, frame_rate_hint, active, ost_off, ost_hdcp,
             g_current_mode, g_blackened, modes, hdcp_enabled, cfg, stats>>

\* SIGINT, SIGQUIT, SIGTERM.
Signal ==
  /\ pc \in Alive /\ "signal" \in Inputs /\ ~quiet
  /\ g_shutdown' = TRUE
  /\ UNCHANGED <<daemon, hw, world, touched>>

\* SIGSEGV, SIGFPE, SIGILL: signal_emerg, then the default action ends afrd.
Crash ==
  /\ pc \in Alive /\ "crash" \in Inputs /\ ~quiet
  /\ pc' = "dead"
  /\ IF Switched THEN FramerateRestore(g_state, FALSE)
     ELSE UNCHANGED <<g_state, display, ost_switch, ost_blackout, ost_hdcp,
                      stats>>
  /\ UNCHANGED <<frame_rate_hint, ost_hdmi, ost_config, ost_hdcp_check, ost_off,
                 modes, hdcp_enabled, cfg, g_shutdown, world, touched>>

HdmiPlug ==
  /\ pc \in Alive /\ "hdmi" \in Inputs /\ ~quiet
  /\ hdmi_on' = ~hdmi_on
  /\ hdmi_uevent' = TRUE
  /\ UNCHANGED <<daemon, g_shutdown, hw, vdec, hinted, user_mode, cfg_file,
                 touched, quiet, scenario>>

\* HDCP is lost without an uevent.
HdcpDrop ==
  /\ pc \in Alive /\ "hdcp" \in Inputs /\ ~quiet
  /\ hw' = [hw EXCEPT !.auth = FALSE]
  /\ UNCHANGED <<daemon, g_shutdown, world, touched>>

\* The user picks another mode in the system settings.
UserMode(m) ==
  /\ pc \in Alive /\ "user" \in Inputs /\ ~quiet
  /\ m.name \in scenario.names
  /\ m.frac => m.name \in Fractional
  /\ user_mode' = m
  /\ hw' = [hw EXCEPT !.mode = m.name, !.policy = m.frac, !.frac = m.frac]
  /\ UNCHANGED <<daemon, g_shutdown, hdmi_on, hdmi_uevent, vdec, hinted,
                 cfg_file, touched, quiet, scenario>>

WriteConfig(c) ==
  /\ pc \in Alive /\ "touch" \in Inputs /\ ~quiet
  /\ c \in scenario.config
  /\ cfg_file' = c
  /\ touched' = TRUE
  /\ UNCHANGED <<daemon, g_shutdown, hw, hdmi_on, hdmi_uevent, vdec, hinted,
                 user_mode, quiet, scenario>>

Quieten ==
  /\ ~quiet
  /\ quiet' = TRUE
  /\ UNCHANGED <<daemon, g_shutdown, hw, hdmi_on, hdmi_uevent, vdec, hinted,
                 user_mode, cfg_file, touched, scenario>>

Terminated == pc \notin Alive /\ UNCHANGED vars

-----------------------------------------------------------------------------
Init ==
  /\ pc = "init"
  /\ g_state = ZeroState
  /\ frame_rate_hint = NoHint
  /\ ost_switch = "off" /\ ost_hdmi = "off" /\ ost_blackout = "off"
  /\ ost_config = "off" /\ ost_hdcp_check = "off"
  /\ ost_off = "off" /\ ost_hdcp = "off"
  /\ g_current_mode = NoMode
  /\ g_blackened = FALSE
  /\ modes = FALSE /\ hdcp_enabled = FALSE
  /\ scenario \in Scenario
  /\ cfg_file \in scenario.config /\ cfg = cfg_file
  /\ stats = Stats(FALSE, ZeroState, FALSE, NoMode)
  /\ g_shutdown = FALSE
  /\ user_mode \in [name : scenario.names, frac : BOOLEAN]
  /\ user_mode.frac => user_mode.name \in Fractional
  /\ hw = [mode |-> user_mode.name, policy |-> user_mode.frac,
           frac |-> user_mode.frac, auth |-> "hdcp" \in Inputs]
  /\ hdmi_on = TRUE /\ hdmi_uevent = FALSE
  /\ vdec = {} /\ hinted = FALSE
  /\ touched = FALSE /\ quiet = FALSE

Uevents ==
  \/ \E c \in Codec : VdecAdd(c) \/ VdecRemove(c)
  \/ \E c \in Codec \union {NoCodec} :
       FrhintEnd(c) \/ \E hz \in Rates \union {NoHz} : FrhintStart(hz, c)
  \/ HdmiUevent \/ HdcpUevent

Api ==
  \/ \E hz \in Rates \union {NoHz} : ApiFrameRateHint(hz) \/ ApiRefreshRate(hz)
  \/ ApiReconf

\* The steps the daemon takes by itself.
Daemon ==
  \/ Poll \/ UeventsDone \/ ApiDone
  \/ Blackout \/ Switch \/ Hdmi \/ CheckConfig \/ HdcpCheck
  \/ Leave \/ FinalRestore \/ AfrdInit \/ Prologue

Environment ==
  \/ Signal \/ Crash \/ HdmiPlug \/ HdcpDrop \/ Quieten
  \/ \E m \in Mode : UserMode(m)
  \/ \E c \in Config : WriteConfig(c)

Next == Uevents \/ Api \/ Daemon \/ Environment \/ Terminated

Spec == Init /\ [][Next]_vars

\* The loop runs on, an uevent in the socket is read, and once the outside
\* world has stopped re-arming them the timers that run come due: poll sleeps no
\* longer than the least of them.
FairSpec ==
  /\ Spec
  /\ WF_vars(Daemon)
  /\ WF_vars(HdmiUevent)
  /\ SF_vars(quiet /\ Poll /\ ost_switch' = "due")
  /\ SF_vars(quiet /\ Poll /\ ost_hdmi' = "due")
  /\ SF_vars(quiet /\ Poll /\ ost_config' = "due")
  /\ SF_vars(quiet /\ Poll /\ ost_hdcp_check' = "due")
  /\ SF_vars(quiet /\ Poll /\ g_state'.hz_ost = "due")

-----------------------------------------------------------------------------
(* Properties *)

ModeOrNone == Mode \union {NoMode}
StateType ==
  [restore : BOOLEAN, delayed_switch : BOOLEAN, hz : Hz \union {NoHz},
   orig_mode : ModeOrNone, modalias : Codec \union {NoCodec},
   hz_ost : TimerState, sampled : BOOLEAN]
StatsType ==
  [enabled : BOOLEAN, switched : BOOLEAN, blackened : BOOLEAN,
   current : ModeOrNone, original : ModeOrNone]
HwType ==
  [mode : ModeName \union {Null}, policy : BOOLEAN, frac : BOOLEAN,
   auth : BOOLEAN]

DisplayTypeOK ==
  /\ g_current_mode \in ModeOrNone /\ g_blackened \in BOOLEAN
  /\ hw \in HwType
\* What framerate_switch and framerate_restore write.
SwitchTypeOK ==
  /\ g_state \in StateType
  /\ ost_switch \in TimerState /\ ost_blackout \in TimerState
  /\ ost_hdcp \in {"off", "run"}
  /\ DisplayTypeOK
  /\ stats \in StatsType
\* What only the loop writes.
LoopTypeOK ==
  /\ pc \in Alive \union {"stopped", "dead"}
  /\ frame_rate_hint \in Hz \union {NoHz, NoHint}
  /\ ost_hdmi \in TimerState /\ ost_config \in TimerState
  /\ ost_hdcp_check \in TimerState /\ ost_off \in {"off", "run"}
  /\ modes \in BOOLEAN /\ hdcp_enabled \in BOOLEAN
  /\ cfg \in Config /\ g_shutdown \in BOOLEAN /\ touched \in BOOLEAN
WorldTypeOK ==
  /\ hdmi_on \in BOOLEAN /\ hdmi_uevent \in BOOLEAN
  /\ vdec \in SUBSET Codec /\ hinted \in BOOLEAN
  /\ user_mode \in Mode /\ cfg_file \in Config /\ quiet \in BOOLEAN

\* Every variable keeps its range; the timers of afrd.c stay off, running or due
\* and the saved and cached modes are modes of the display or empty.
TypeOK == SwitchTypeOK /\ LoopTypeOK /\ WorldTypeOK

\* What the kernel shows, as a mode.
Shown == [name |-> hw.mode, frac |-> hw.frac]
ShowsUserMode == hw.mode # Null /\ DisplayModeEqual(Shown, user_mode)

NoVdecBlacklist == \A c \in Config : c.vdec_blacklist = {}

\* A black screen always has the mode switch still to come that ends it ("when
\* movie starts, disable screen until we switch to actual frame rate"): no
\* handler may stop g_ost_switch and leave g_blackened set.
BlackScreenHasPendingSwitch ==
  pc \in Alive /\ (g_blackened \/ ost_blackout # "off") => ost_switch # "off"

\* Between two detection attempts the time limit keeps running: a switch that
\* waits for a frame rate is one that switch.timeout will end.
DetectionIsBounded ==
  pc \in Loop /\ ost_switch # "off" /\ ~g_state.restore /\ g_state.hz = NoHz
    => g_state.hz_ost # "off"

\* The screen goes black only while afrd is enabled, before a pending switch and
\* with the original mode on it, never during playback in a switched mode
\* (blackout() overwrites orig_mode).
BlackoutOnlyFromOriginal ==
  [][~g_blackened /\ g_blackened'
       => cfg.enable /\ ~Switched /\ ost_switch # "off"]_vars

\* Where afrd is to bring the mode back: nobody else changes it, the link stays
\* (handle_hdmi_switch forgets the mode when it goes off), and switch.delay.off=0
\* does not ask to keep the movie's.
RestoresMode ==
  /\ Inputs \cap {"user", "hdmi"} = {}
  /\ \A c \in scenario.config : c.delay_off

\* The mode afrd would go back to is the one selected before it first switched,
\* through every chain of switches, blackouts, hints and API requests.
OriginalModeKept ==
  RestoresMode /\ pc \in Loop =>
    DisplayModeEqual(IF Switched THEN g_state.orig_mode ELSE g_current_mode,
                     user_mode)

\* blackout() reads the mode from the kernel again, so that the mode it saves is
\* the one shown even after the user has chosen another.
BlackoutRemembersShownMode ==
  [][~g_blackened /\ g_blackened' => g_state'.orig_mode.name = hw.mode]_vars

\* The cached mode and blackout flag agree with the kernel, the applied
\* fractional rate included: without the detour over "null" the kernel would
\* ignore a change of the fraction alone.
DisplayAgrees ==
  "user" \notin Inputs =>
    /\ g_blackened <=> hw.mode = Null
    /\ ~g_blackened /\ g_current_mode # NoMode =>
         /\ hw.mode = g_current_mode.name
         /\ hw.mode \in Fractional => hw.frac = g_current_mode.frac

\* With enable=0 afrd touches neither the mode nor its fraction, not even on its
\* way out or on an API request.
DisabledIsInert ==
  [][~cfg.enable /\ "user" \notin Inputs
       => Shown' = Shown /\ hw'.policy = hw.policy]_vars

\* Clients of the shared memory see the state as it is: every handler that
\* changes it ends in update_stats, but for handle_hdmi_switch.
StatsFresh ==
  pc \in Loop /\ "hdmi" \notin Inputs =>
    stats = Stats(cfg.enable, g_state, g_blackened, g_current_mode)

\* However afrd ends, by a signal or by a fault of its own, the display shows a
\* picture in the mode the user had.
LeavesOriginalMode == RestoresMode /\ pc \notin Alive => ShowsUserMode

\* What a mode is to the owner of the display.
LookOf(m) == <<Format[m.name], m.frac /\ m.name \in Fractional>>
Looks == {LookOf(m) : m \in Mode}

OnScreen == LookOf(IF hw.mode = Null THEN g_current_mode ELSE Shown)

Loan == INSTANCE DisplayLoan WITH
  Look <- Looks, NoLook <- LookOf(NoMode),
  Options <- [enable : BOOLEAN, delay_off : BOOLEAN],
  shown <- OnScreen, dark <- hw.mode = Null,
  users <- LookOf(g_state.orig_mode),
  options <- [enable |-> cfg.enable, delay_off |-> cfg.delay_off],
  link <- hdmi_on, meddled <- "user" \in Inputs,
  alive <- pc \in Alive

\* afrd borrows the display: what it saves when it leaves the original mode is what
\* the kernel shows at that moment ("remember current video mode to restore it
\* later"), through every later switch it is this that comes back, on reloads and
\* at any end, and nothing is borrowed with enable=0.
ImplementsDisplayLoan == Loan!Spec

\* Once the outside world is quiet the screen does not stay black.
BlackScreenEnds == quiet /\ hw.mode = Null ~> hw.mode # Null

\* switch.timeout: afrd does not try forever to detect a frame rate.
DetectionEnds == quiet ~> ost_switch = "off"

\* After the last decoder has gone and the last hint has ended the original mode
\* returns, whatever the order in which decoders and hints came and went.
RestoredAfterStop == quiet /\ vdec = {} /\ ~hinted ~> ShowsUserMode

\* HDCP that was in use and was lost is switched on again.
HdcpRecovers == quiet ~> hw.auth \/ ~hdcp_enabled

\* A change of the file that the running loop can see is loaded in the end.
ConfigTakesEffect ==
  quiet /\ touched /\ pc \in Loop ~> cfg = cfg_file \/ pc = "stopped"

\* SIGTERM ends the daemon, whatever it is doing.
ShutdownHonoured == g_shutdown ~> pc \notin Alive

=============================================================================
