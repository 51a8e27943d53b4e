----------------------------- MODULE ModeSelect -----------------------------
(***************************************************************************)
(* The modes of a display and the one afrd picks for a movie.  Displays    *)
(* list their modes in any order (disp_cap); each time one is plugged in   *)
(* the list is built anew, with the current mode and mode.extra added; each*)
(* movie makes afrd search it.  When and how afrd switches to the mode that*)
(* is found, and restores the original one, is modelled in Afrd.           *)
(***************************************************************************)
EXTENDS Modes

CONSTANTS
  Caps,      \* disp_cap: the sequences of modes that displays list
  Extra,     \* mode.extra
  System,    \* the modes the system may have selected when afrd reads them
  Measured,  \* frame rates as the driver or a hint's frame duration gives them
  Requested, \* frame rates that API clients ask for
  Config     \* [prefer_exact, use_fract, rates]: mode.prefer.exact, ...

\* mode_parse reads a name into a format and a rate, which is 0 if it has none.
Listed == ToSet(Extra) \cup UNION {ToSet(cap) : cap \in Caps}
IsMode(m) == m \in [name : {m.name}, format : {m.format}, framerate : Nat,
                    fractional : BOOLEAN]
Known == Listed \cup (System \ {NoMode})
ModeType == [name : {m.name : m \in Known}, format : {m.format : m \in Known},
             framerate : Nat, fractional : BOOLEAN]
ASSUME ModeAssumption ==
  /\ Caps \cup {Extra} \subseteq Seq(Listed)
  /\ \A m \in Known : IsMode(m)
ASSUME NoModeAssumption == NoMode \notin ModeType
ASSUME ConfigAssumption ==
  Config \subseteq [prefer_exact : BOOLEAN, use_fract : 0..2, rates : SUBSET Nat]
ASSUME MeasuredAssumption == Measured \subseteq Nat
ASSUME RequestedAssumption ==    \* HZ_MIN, HZ_MAX
  \A movie \in Requested : movie \in Nat /\ movie >= 2560 /\ movie < 25600

VARIABLES
  g_modes, g_current_mode,
  cfg,
  hz,        \* the movie's frame rate, 0 before the first
  best       \* what the search found for it in the list

vars == <<g_modes, g_current_mode, cfg, hz, best>>

\* display_modes_init: the list is emptied, then read; a display that shows no
\* mode leaves g_current_mode as it was.
DisplayModesInit(cap, shown) ==
  /\ g_modes = <<>> /\ shown # NoMode
  /\ g_current_mode' = shown
  /\ g_modes' = FoldLeft(DisplayModeAdd, <<>>, cap \o <<shown>> \o Extra)
  /\ hz' = 0 /\ best' = NoMode
  /\ UNCHANGED cfg

\* The display is unplugged.
DisplayModesFini ==
  /\ g_modes # <<>>
  /\ g_modes' = <<>>
  /\ hz' = 0 /\ best' = NoMode
  /\ UNCHANGED <<g_current_mode, cfg>>

\* framerate_switch, once the movie's rate is known: a mode found is switched to,
\* but when it is close to the current one it may be left at that.
FramerateSwitch(movie) ==
  /\ g_modes # <<>>
  /\ hz' = UseFract(movie, cfg.use_fract)
  /\ best' = BestMode(g_modes, g_current_mode, hz', cfg.prefer_exact, cfg.rates)
  /\ \/ best' # NoMode /\ g_current_mode' = best'
     \/ best' = NoMode /\ UNCHANGED g_current_mode
     \/ best' # NoMode /\ UNCHANGED g_current_mode
        /\ HzClose(DisplayModeHz(best'), DisplayModeHz(g_current_mode))
  /\ UNCHANGED <<g_modes, cfg>>

Init ==
  /\ g_modes = <<>> /\ g_current_mode = NoMode
  /\ cfg \in Config
  /\ hz = 0 /\ best = NoMode

Next ==
  \/ \E cap \in Caps, shown \in System \cup {g_current_mode} :
       DisplayModesInit(cap, shown)
  \/ DisplayModesFini
  \/ \E movie \in Requested \cup ({HzRound(m) : m \in Measured} \ {0}) :
       FramerateSwitch(movie)

Spec == Init /\ [][Next]_vars

-----------------------------------------------------------------------------
(* Properties *)

\* The list holds modes without a fraction, in which the mode found is listed.
TypeOK ==
  /\ \A m \in ToSet(g_modes) :
       DOMAIN m = {"name", "format", "framerate", "fractional"} /\ ~m.fractional
  /\ best # NoMode => [best EXCEPT !.fractional = FALSE] \in ToSet(g_modes)
  /\ hz \in Nat /\ cfg \in Config

\* No two modes of the list have the same format and rate, in whatever order the
\* display, the system and the configuration name them, fractional or not.
NoDuplicates ==
  \A i, j \in DOMAIN g_modes :
    /\ g_modes[i].format = g_modes[j].format
    /\ g_modes[i].framerate = g_modes[j].framerate
    => i = j

Allowed(v) == ~RateIsBlacklisted(v, cfg.rates)
Variants(m) == {v \in {DisplayModeHz([m EXCEPT !.fractional = f]) : f \in BOOLEAN} :
                  Allowed(v)}

\* A movie is never shown in another format, at a blacklisted rate (both variants
\* of a mode may be banned), nor more than 12/256 off a multiple of its rate.
NeverBadMode ==
  best # NoMode =>
    /\ Allowed(DisplayModeHz(best))
    /\ \E m \in ToSet(g_modes) : m.name = best.name /\ m.format = g_current_mode.format
    /\ \E n \in 1..3 :
         256 * Distance(best.framerate * 256, n * hz) < 12 * n * hz

\* The reference: the modes that show each frame n times, rounding aside.
Suits(m, n) ==
  /\ m.format = g_current_mode.format
  /\ HzClose(m.framerate * 256, n * hz)
  /\ Variants(m) # {}
SuitsTimes(n) == \E m \in ToSet(g_modes) : Suits(m, n)
Wanted == IF cfg.prefer_exact
          THEN IF SuitsTimes(1) THEN 1 ELSE 2
          ELSE IF SuitsTimes(2) THEN 2 ELSE 1

\* A mode that shows a movie is as fast, or faster by less than 1/384: the rates of
\* films and of the modes for them are equal or apart by 1001/1000.
JustAbove(hz1, hz2) == hz2 <= hz1 /\ 384 * hz1 < 385 * hz2
UsualRates ==
  hz # 0 =>
    \A m \in ToSet(g_modes), n \in 1..3 :
      m.format = g_current_mode.format /\ HzClose(m.framerate * 256, n * hz)
        => JustAbove(m.framerate * 256, n * hz)

\* Where the display has a mode that shows every frame once or twice, such a mode
\* is found: twice, or once with mode.prefer.exact, if it can be had; in the
\* variant that is nearest to the movie among those allowed; and this for every
\* order of the list.
BestIsFound ==
  hz # 0 /\ (SuitsTimes(1) \/ SuitsTimes(2)) =>
    /\ best # NoMode /\ HzClose(best.framerate * 256, Wanted * hz)
    /\ \A v \in Variants(best) :
         Distance(DisplayModeHz(best), Wanted * hz) <= Distance(v, Wanted * hz)

\* "If 0 (default setting), AFRD will prefer the video mode with highest refresh
\* rate which is a exact multiple of movie frame rate".
HighestMultiple ==
  hz # 0 /\ ~cfg.prefer_exact =>
    \A m \in ToSet(g_modes), n \in 1..8 :
      Suits(m, n) => best # NoMode /\ best.framerate >= m.framerate

=============================================================================
