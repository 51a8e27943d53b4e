------------------------------- MODULE MCAfrd -------------------------------
(***************************************************************************)
(* Instances of Afrd for TLC: a few modes of one display, the frame rates  *)
(* of a film (23.976) and of a 60 fps video, and configurations that       *)
(* differ from the default one in an option each.                          *)
(***************************************************************************)
EXTENDS Afrd, Sequences

CONSTANTS m24, m50, m60, k60, h24, h60, c1

OneMode == {m60}
\* k60 is the 60 Hz mode under another name (2160p60hz420 for 2160p60hz).
FourModes == {m24, m50, m60, k60}

MCFormat == [n \in {m24, m50, m60, k60, NoName} |->
               CASE n = m24 -> 24 [] n = m50 -> 50 [] n \in {m60, k60} -> 60
                 [] OTHER -> 0]
\* 24 and 60 Hz have fractional variants, 50 Hz has none.
MCFractional == ModeName \ {m50}

M(n, f) == IF n \in ModeName THEN [name |-> n, frac |-> f] ELSE NoMode

Best == [h \in Hz |-> IF h = h24 THEN M(m24, TRUE) ELSE M(m60, FALSE)]
\* With 60.00 in mode.blacklist.rates the 60 fps video gets 59.94 Hz.
Best59 == [h \in Hz |-> IF h = h24 THEN M(m24, TRUE) ELSE M(m60, TRUE)]

Modes == INSTANCE Modes

\* The display's modes as display_modes_init lists them, and what the search of
\* framerate_switch finds there for 23.976 and 60 fps with mode.blacklist.rates.
Listed ==
  LET mode(n) == [name |-> n, format |-> "p", framerate |-> MCFormat[n],
                  fractional |-> FALSE]
      names == SelectSeq(<<m24, m50, m60, k60>>, LAMBDA n : n \in ModeName)
  IN Modes!FoldLeft(Modes!DisplayModeAdd, <<>>, [i \in DOMAIN names |-> mode(names[i])])
Found(rates) ==
  LET search(hz) == Modes!BestMode(Listed, Listed[1], hz, FALSE, rates)
      mode(m) == IF m = NoMode THEN NoMode ELSE M(m.name, m.fractional)
  IN [h \in Hz |-> mode(search(IF h = h24 THEN 6138 ELSE 15360))]

ASSUME SearchAssumption == Best = Found({}) /\ Best59 = Found({15360})

Default ==
  [enable |-> TRUE, delay_on |-> TRUE, delay_off |-> TRUE, retry |-> TRUE,
   timeout |-> TRUE, blackout |-> TRUE, ignore |-> TRUE, hdmi |-> TRUE,
   vdec_blacklist |-> {}, frhint_blacklist |-> {}, best |-> Best]

Default59 == [Default EXCEPT !.best = Best59]

\* One option changed in each.
Options == {Default,
            [Default59 EXCEPT !.ignore = FALSE],
            [Default59 EXCEPT !.delay_on = FALSE],
            [Default59 EXCEPT !.retry = FALSE, !.timeout = FALSE],
            [Default59 EXCEPT !.blackout = FALSE, !.frhint_blacklist = Codec]}
\* enable=0, switch.delay.off=0 and a blacklist, one replacing another.
Changes == {[c EXCEPT !.ignore = FALSE, !.blackout = FALSE] :
              c \in {[Default59 EXCEPT !.enable = FALSE],
                     [Default59 EXCEPT !.delay_off = FALSE],
                     [Default59 EXCEPT !.vdec_blacklist = Codec]}}
Sixty == {Default59}
Sixty_NoIgnore == {[Default59 EXCEPT !.ignore = FALSE]}
\* No delay before the restore, or before an HDMI event is looked at.
Undelayed == {[c EXCEPT !.delay_off = FALSE] : c \in Sixty_NoIgnore} \union
             {[c EXCEPT !.hdmi = FALSE] : c \in Sixty_NoIgnore}
SixtyConfigs == Sixty \union Sixty_NoIgnore
OneBlacklisted ==
  {[Default59 EXCEPT !.ignore = FALSE,
                     !.vdec_blacklist = {CHOOSE c \in Codec : TRUE}]}

Run(inputs, decoders, names, config) ==
  [inputs |-> inputs, decoders |-> decoders, rates |-> {h60}, names |-> names,
   config |-> config]

Playback ==
  [Run({"hint"}, Codec, {m50, m60}, Options) EXCEPT !.rates = {h24, h60}]
\* Every way to the end of afrd, and a display whose HDMI link and mode change.
Endings == Run({"api_hint", "api_rate", "crash", "signal"}, {c1}, {m60, k60}, Sixty)
Link == Run({"hdmi", "user"}, {c1}, {m50}, Undelayed)
Plug == Run({"crash", "hdmi"}, {c1}, {m50}, Undelayed)
Movies == {Playback, Endings, Link, Plug}
MoviesConfigs == Options \union Sixty \union Undelayed
Players == Run({}, Codec, {m60}, Sixty)
\* HDCP lost while a movie plays, or across a reload.
Hdcp == {Run({"hdcp"}, {c1}, {m60}, Sixty_NoIgnore),
         Run({"hdcp", "reconf"}, {}, {m60}, Sixty_NoIgnore)}
\* A decoder and hints that overlap.
Hints == Run({"hint"}, {c1}, {m60}, Sixty_NoIgnore)
PlayersAndHdcp == {Players, Hints} \union Hdcp
Control == {Run({"touch", "signal"}, {c1}, {m60}, Changes)}
BlacklistedPlayer == {Run({}, Codec, {m60}, OneBlacklisted)}
=============================================================================
