---------------------------- MODULE MCModeSelect ----------------------------
(***************************************************************************)
(* Instances of ModeSelect: every order of up to three of the usual modes, *)
(* an interlaced one from mode.extra, the current mode with a fraction or  *)
(* under another name.                                                     *)
(***************************************************************************)
EXTENDS ModeSelect

M(name, format, framerate, fractional) ==
  [name |-> name, format |-> format, framerate |-> framerate,
   fractional |-> fractional]

P(framerate) == M(<<"1080p", framerate>>, "p", framerate, FALSE)
Usual == {cap \in UNION {[1..n -> {P(f) : f \in {24, 30, 50, 60}}] : n \in 1..3} :
            IsInjective(cap)}
Fast == {<<P(60)>>, <<P(60), P(120)>>, <<P(120)>>}
Interlaced == <<M(<<"1080i", 60>>, "i", 60, FALSE)>>
\* 59.94 Hz, and 60 Hz by another name.
Selected == {M(<<"1080p", 60>>, "p", 60, TRUE),
             M(<<"1080p60hz420", 60>>, "p", 60, FALSE)}
\* Near 23.976 (between it and 24, too), 25, 30, 50 and 60; 35 is no rate.
Seen == {6120, 6141, 6390, 7690, 12850, 15350, 9000}
\* What the API makes of 23976, 59940 and 24000.
Asked == {6137, 15344, 6144}
\* Blacklisted: 23.976 as the sample configurations suggest, or 24 as well.
Options ==
  [prefer_exact : BOOLEAN, use_fract : 0..2, rates : {{}}] \cup
  [prefer_exact : BOOLEAN, use_fract : {0}, rates : {{6138}, {6138, 6144}}]
\* The rates of these movies are usual ones for the usual modes (UsualRates).
ASSUME UsualAssumption ==
  \A framerate \in {24, 30, 50, 60}, n \in 1..3, config \in Options,
     movie \in Asked \cup ({HzRound(m) : m \in Seen} \ {0}) :
    LET h == n * UseFract(movie, config.use_fract)
    IN HzClose(framerate * 256, h) => JustAbove(framerate * 256, h)

Defaults == {[prefer_exact |-> FALSE, use_fract |-> 0, rates |-> {}]}
=============================================================================
