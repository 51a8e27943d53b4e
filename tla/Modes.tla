------------------------------- MODULE Modes --------------------------------
(***************************************************************************)
(* Frame rates and display modes as numbers: the arithmetic of afrd.c and  *)
(* modes.c on rates in 24.8 fixed point, the list of the display's modes,  *)
(* and the search for the mode that suits a movie.  A mode is              *)
(*   [name, format, framerate, fractional]                                 *)
(* where the format is the width, height and scan that its name means.     *)
(***************************************************************************)
EXTENDS Integers, SequencesExt

CONSTANT NoMode    \* no mode has been found

Distance(a, b) == IF a >= b THEN a - b ELSE b - a

-----------------------------------------------------------------------------
(* Rates *)

\* "If they are no more than 0.5% apart, it's a rounding error".
HzClose(hz1, hz2) ==
  \/ Distance(hz1, hz2) <= 1
  \/ Distance(10000, (hz1 * 10000 + hz2 \div 2) \div hz2) <= 50

\* 23.976, 24, 25, 29.97, 30, 50, 59.94 and 60 Hz.
SaneHz == {6138, 6144, 6400, 7672, 7680, 12800, 15345, 15360}

\* The first of equally near rates is the lowest; 0 when none is near.
HzRound(hz) ==
  LET nearest == CHOOSE s \in SaneHz :
        \A r \in SaneHz : \/ Distance(s, hz) < Distance(r, hz)
                          \/ Distance(s, hz) = Distance(r, hz) /\ s <= r
  IN IF HzClose(hz, nearest) THEN nearest ELSE 0

FractionalHz ==
  [f \in {24, 30, 60, 120, 240} |->
     CASE f = 24  -> (2997 * 256 + 62) \div 125
       [] f = 30  -> (2997 * 256 + 50) \div 100
       [] f = 60  -> (5994 * 256 + 50) \div 100
       [] f = 120 -> (11988 * 256 + 50) \div 100
       [] f = 240 -> (23976 * 256 + 50) \div 100]

DisplayModeHz(m) ==
  IF m.fractional /\ m.framerate \in DOMAIN FractionalHz
  THEN FractionalHz[m.framerate] ELSE m.framerate * 256

\* mode.use.fract: 1 prefers fractional rates, 2 integer ones.
UseFract(hz, use_fract) ==
  IF use_fract = 0 THEN hz
  ELSE DisplayModeHz([framerate |-> (hz + 128) \div 256,
                      fractional |-> use_fract = 1])

\* mode.blacklist.rates
RateIsBlacklisted(hz, rates) == \E r \in rates : Distance(r, hz) <= 1

-----------------------------------------------------------------------------
(* The list of modes *)

DisplayModeEqual(m, n) ==
  m.format = n.format /\ DisplayModeHz(m) = DisplayModeHz(n)

\* Only modes that are not fractional are kept.
NewMode_bug(m) == m
NewMode(m) == [m EXCEPT !.fractional = FALSE]

DisplayModeAdd_bug(modes, m) ==
  IF \E n \in ToSet(modes) : DisplayModeEqual(m, n) THEN modes
  ELSE Append(modes, NewMode(m))
DisplayModeAdd(modes, m) ==
  IF \E n \in ToSet(modes) : DisplayModeEqual(NewMode(m), n) THEN modes
  ELSE Append(modes, NewMode(m))

-----------------------------------------------------------------------------
(* The search of framerate_switch *)

\* The multiple of hz closest to the mode's integer rate: the loop stops at the
\* first that is followed by one further away.
ClosestMultiple(m, hz) ==
  LET away(n) == Distance(hz * n, m.framerate * 256)
      stops(n) == away(n + 1) > away(n)
  IN hz * (CHOOSE n \in 1..m.framerate * 256 :
             stops(n) /\ \A k \in 1..n - 1 : ~stops(k))

DisplayModeSetHz(m, hz) ==
  LET int == m.framerate * 256
      frac == DisplayModeHz([m EXCEPT !.fractional = TRUE])
      best == ClosestMultiple(m, hz)
  IN [m EXCEPT !.fractional =
        frac # int /\ Distance(int, best) >= Distance(frac, best)]

\* If the chosen variant is blacklisted, the other one is taken.
AllowedVariant(m, hz, rates) ==
  LET t == DisplayModeSetHz(m, hz)
  IN IF RateIsBlacklisted(DisplayModeHz(t), rates)
     THEN [t EXCEPT !.fractional = ~@] ELSE t

\* How often a frame is shown, in 24.8: divided by n = 1, 2, ... until no more
\* than one and a half.
Shows(m, hz, n) == (m.framerate * 65536) \div (hz * n)
Divisor(m, hz) ==
  CHOOSE n \in 1..m.framerate * 256 + 1 :
    Shows(m, hz, n) <= 384 /\ \A k \in 1..n - 1 : Shows(m, hz, k) > 384
Delta(m, hz) == Distance(Shows(m, hz, Divisor(m, hz)), 256)

\* 11/256 are 4.3%; the other variant may be blacklisted, too.
Usable_bug(m, delta, variant, current, rates) ==
  m.format = current.format /\ delta <= 11
Usable(m, delta, variant, current, rates) ==
  /\ m.format = current.format
  /\ delta <= 11
  /\ ~RateIsBlacklisted(DisplayModeHz(variant), rates)

Rating_bug(delta, divisor, prefer_exact) == (11 - delta) * 16
Rating(delta, divisor, prefer_exact) ==
  LET n == IF divisor > 3 THEN 3 ELSE divisor - 1
  IN (11 - delta) * 16 + 4 * (IF prefer_exact THEN 3 - n ELSE n)

\* A mode takes the place of the best so far if it is rated higher.
Better(best, m, current, hz, prefer_exact, rates) ==
  LET delta == Delta(m, hz)
      rating == Rating(delta, Divisor(m, hz), prefer_exact)
      variant == AllowedVariant(m, hz, rates)
  IN IF rating > best.rating /\ Usable(m, delta, variant, current, rates)
     THEN [rating |-> rating, mode |-> variant]
     ELSE best

\* The first of the best rated modes of the current format.
BestMode(modes, current, hz, prefer_exact, rates) ==
  FoldLeft(LAMBDA best, m : Better(best, m, current, hz, prefer_exact, rates),
           [rating |-> 0, mode |-> NoMode], modes).mode

=============================================================================
