------------------------------ MODULE FpsDetect -----------------------------
(***************************************************************************)
(* How afrd finds the frame rate of a movie: up to three files of the      *)
(* decoder's driver are read at every attempt, hints come with a start,    *)
(* and each source collects weight while its samples agree.  Module Afrd   *)
(* leaves open what a detection finds; this one says what it may be.       *)
(*                                                                         *)
(* What was collected is thrown away when a decoder stops, not when the    *)
(* next one starts: a movie that starts without a stop before it inherits  *)
(* the samples of the one before, and its rate if that had been found.     *)
(*                                                                         *)
(* The rates stand for what hz_round lets through.  Attempts are           *)
(* switch.delay.retry apart (it is not 0), or more when the daemon is      *)
(* busy; a source is fresh for twice that long.  Left out are the rates    *)
(* set by afrd_refresh_rate and what mode.use.fract makes of the rate      *)
(* found.                                                                  *)
(***************************************************************************)
EXTENDS Integers, FiniteSets

CONSTANTS
  Rate,      \* standard frame rates
  NoRate,    \* 0: unknown
  Close,     \* the pairs of rates hz_close takes for the same
  Movies,    \* the movies: frame rates that decoders really play
  Attempts,  \* bound of the attempts until switch.timeout
  Errors,    \* bound of the wrong samples the driver gives between two stops
  Starts     \* bound of the starts between two stops

ASSUME RateAssumption == NoRate \notin Rate /\ Movies \subseteq Rate
\* "This function considers fractional rate equal to integer rate": of the rates in
\* sane_hz, 23.976 and 24, 29.97 and 30, 59.94 and 60, and no others.
ASSUME CloseAssumption ==
  /\ Close \subseteq Rate \X Rate
  /\ \A r, s \in Rate : <<r, r>> \in Close /\ (<<r, s>> \in Close => <<s, r>> \in Close)
  /\ \A r, s, t \in Rate :
       <<r, s>> \in Close /\ <<s, t>> \in Close => <<r, t>> \in Close
ASSUME BoundsAssumption == {Attempts, Errors, Starts} \subseteq Nat

\* In the order of hz_source_t, the most reliable first.
FRH == 1
CHUNKS == 2
BLOCKS == 3
VDEC == 4
Source == FRH..VDEC

src_weight_bug == [src \in Source |-> IF src = VDEC THEN 34 ELSE
                     CASE src = FRH -> 100 [] src = CHUNKS -> 50 [] OTHER -> 34]
src_weight == [src \in Source |->
  CASE src = FRH -> 100 [] src = CHUNKS -> 50 [] src = BLOCKS -> 34
    [] OTHER -> 25]
ACCEPT_HZ_WEIGHT == 100
Fresh == 2   \* retry delays that stat->timeout runs for

VARIABLES
  hz_stat,     \* of each source: rate last seen, weight, retry delays left
  hz,          \* the rate found, or NoRate
  pc,          \* "idle", "restore" (g_state.restore: a decoder has stopped),
               \* "detect", "found", "last" (found on the last chance), "over"
  attempt,     \* attempts since the last start
  movie,       \* the rate of the movie that started last
  history      \* what has happened since the statistics were cleared

vars == <<hz_stat, hz, pc, attempt, movie, history>>

NoStat == [hz |-> NoRate, weight |-> 0, timeout |-> 0]
Clear == [src \in Source |-> NoStat]
NoHistory ==
  [agreed |-> [src \in Source |-> 0],  \* samples of each source in agreement
   wrong |-> 0,                        \* samples of another rate than the movie's
   starts |-> 0,
   rates |-> {},       \* the movies that started, and what hints called them
   steady |-> Source]  \* who has been right at every attempt since the last start

IsClose(r, s) == <<r, s>> \in Close
Agrees_bug(stat, r) == stat.weight # 0 /\ r = stat.hz
Agrees(stat, r) == stat.weight # 0 /\ IsClose(r, stat.hz)

-----------------------------------------------------------------------------
(* accumulate_fps and best_fps *)

BaseWeight_bug(stat, r) == stat.weight
BaseWeight(stat, r) == IF Agrees(stat, r) THEN stat.weight ELSE 0

AccumulateFps(stat, r, src) ==
  IF r = NoRate THEN stat
  ELSE [hz |-> r, weight |-> BaseWeight(stat, r) + src_weight[src],
        timeout |-> Fresh]

\* A source that is fresh and not yet sure is waited for: nothing after it in the
\* order is looked at.
Waited(stats) ==
  {src \in Source : stats[src].weight < ACCEPT_HZ_WEIGHT /\ stats[src].timeout > 0}

Candidates_bug(stats, last_chance) ==
  IF last_chance
  THEN {src \in Source : stats[src].weight * 2 >= ACCEPT_HZ_WEIGHT}
  ELSE {src \in Source : stats[src].weight >= ACCEPT_HZ_WEIGHT /\ Waited(stats) = {}}
Candidates(stats, last_chance) ==
  IF last_chance
  THEN {src \in Source : stats[src].weight * 2 >= ACCEPT_HZ_WEIGHT}
  ELSE LET waited == Waited(stats)
       IN {src \in Source : /\ stats[src].weight >= ACCEPT_HZ_WEIGHT
                            /\ \A w \in waited : src < w}

\* The heaviest candidate, the first of equals.
BestSource(stats, candidates) ==
  CHOOSE src \in candidates :
    \A other \in candidates \ {src} :
      \/ stats[src].weight > stats[other].weight
      \/ stats[src].weight = stats[other].weight /\ src < other

BestFps(stats, last_chance) ==
  LET candidates == Candidates(stats, last_chance)
  IN IF candidates = {} THEN NoRate ELSE stats[BestSource(stats, candidates)].hz

-----------------------------------------------------------------------------
(* Starts, attempts and stops *)

\* Retry delays pass before the samples of an attempt or a hint are added.
Aged_bug(stat, delays) == [stat EXCEPT !.timeout = @ - delays]
Aged(stat, delays) ==
  [stat EXCEPT !.timeout = IF @ > delays THEN @ - delays ELSE 0]

Remember(stats, past, samples) ==
  LET given == {src \in Source : samples[src] # NoRate}
      right == {src \in given : IsClose(samples[src], movie')}
  IN [past EXCEPT
       !.agreed = [src \in Source |->
                     IF src \notin given THEN past.agreed[src]
                     ELSE IF Agrees(stats[src], samples[src])
                     THEN past.agreed[src] + 1 ELSE 1],
       !.wrong = @ + Cardinality(given \ (right \cup {FRH})),
       !.steady = @ \cap right]

Take(stats, past, samples, delays) ==
  /\ history' = Remember(stats, past, samples) /\ history'.wrong <= Errors
  /\ \E d \in delays :
       hz_stat' = [src \in Source |->
         AccumulateFps(Aged(stats[src], d), samples[src], src)]
  /\ hz' = BestFps(hz_stat', FALSE)
  /\ pc' = IF hz' = NoRate THEN "detect" ELSE "found"

\* What was collected is forgotten when g_state.restore changes.
Forget_bug(restore) == hz_stat
Forget(restore) == IF (pc = "restore") = restore THEN hz_stat ELSE Clear

\* A decoder appears: an uevent of the driver, or a hint that names the rate r.
Start(m, r) ==
  LET again == pc # "restore"
      stats == Forget(FALSE)
      old == IF again THEN history ELSE NoHistory
      past == [old EXCEPT !.starts = @ + 1, !.steady = Source,
                          !.rates = @ \cup ({m, r} \ {NoRate})]
  IN /\ old.starts < Starts
     /\ movie' = m /\ attempt' = 0
     /\ \/ /\ r = NoRate
           /\ hz_stat' = stats /\ history' = past
           /\ hz' = IF again THEN hz ELSE NoRate
           /\ pc' = IF hz' = NoRate THEN "detect"
                    ELSE IF pc = "last" THEN "last" ELSE "found"
        \/ /\ r # NoRate
           /\ Take(stats, past, [src \in Source |-> IF src = FRH THEN r ELSE NoRate],
                   0..Fresh)

\* A start soon after the stop is ignored (switch.ignore): nothing is detected.
Ignored ==
  /\ pc = "restore" /\ pc' = "idle"
  /\ UNCHANGED <<hz_stat, hz, attempt, movie, history>>

Attempt(chunks, blocks, vdec) ==
  /\ pc = "detect" /\ attempt < Attempts
  /\ attempt' = attempt + 1 /\ UNCHANGED movie
  /\ Take(hz_stat, history, <<NoRate, chunks, blocks, vdec>>, 1..Fresh)

\* framerate_restore empties g_state: after a delay when a decoder has stopped, at
\* once for switch.delay.off=0, when the configuration is read again, ...
Restored ==
  /\ pc' = "idle" /\ hz' = NoRate /\ hz_stat' = Clear /\ history' = NoHistory
  /\ UNCHANGED <<attempt, movie>>

\* switch.timeout has expired.  Giving up, a black screen is restored.
LastChance ==
  /\ pc = "detect" /\ UNCHANGED <<attempt, movie>>
  /\ hz' = BestFps(hz_stat, TRUE)
  /\ pc' = IF hz' = NoRate THEN "over" ELSE "last"
  /\ \/ UNCHANGED <<hz_stat, history>>
     \/ pc' = "over" /\ hz_stat' = Clear /\ history' = NoHistory

\* The decoder, or a hint, ends.
Stop ==
  /\ pc' = "restore" /\ hz_stat' = Forget(TRUE)
  /\ IF pc = "restore" THEN UNCHANGED <<hz, history>>
     ELSE hz' = NoRate /\ history' = NoHistory
  /\ UNCHANGED <<attempt, movie>>

Init ==
  /\ hz_stat = Clear /\ hz = NoRate /\ pc = "idle" /\ attempt = 0
  /\ movie \in Movies /\ history = NoHistory

Next ==
  \/ \E m \in Movies, r \in Rate \cup {NoRate} : Start(m, r)
  \/ \E chunks, blocks, vdec \in Rate \cup {NoRate} :
       Attempt(chunks, blocks, vdec)
  \/ Ignored \/ LastChance \/ Stop \/ Restored

Spec == Init /\ [][Next]_vars

-----------------------------------------------------------------------------
(* Properties *)

\* Weights add up to what the attempts allow, and a source stays fresh no longer
\* than its time.
TypeOK ==
  /\ hz_stat \in [Source -> [hz : Rate \cup {NoRate}, weight : Nat,
                             timeout : 0..Fresh]]
  /\ hz \in Rate \cup {NoRate} /\ movie \in Movies
  /\ pc \in {"idle", "restore", "detect", "found", "last", "over"}
  /\ attempt \in 0..Attempts
  /\ history \in [agreed : [Source -> Nat], wrong : 0..Errors, starts : 0..Starts,
                  rates : SUBSET Rate, steady : SUBSET Source]

\* "Only 2 confirmations", "3 confirmations", "need 4 confirmations".
Needed == [src \in Source |-> src]

\* A rate is accepted only after one source has given it, without disagreeing with
\* itself since a decoder last stopped, as often as the source is reliable; half as
\* often does on the last chance.  A start alone does not begin the count anew.
Confirmed ==
  /\ pc = "found" => \E src \in Source :
       hz_stat[src].hz = hz /\ history.agreed[src] >= Needed[src]
  /\ pc = "last" => \E src \in Source :
       hz_stat[src].hz = hz /\ 2 * history.agreed[src] >= Needed[src]

\* One wrong sample, whenever and from whichever file, does not make afrd choose a
\* wrong rate while there is still time: what it uses is close to the rate of a
\* movie, or to one that a hint has named, since a decoder last stopped (of several
\* that started since then it may be an earlier one's).
OneErrorHarmless ==
  pc = "found" /\ history.wrong <= 1 => \E r \in history.rates : IsClose(hz, r)

\* A movie whose rate one of the files gives right at every attempt, often enough to
\* be more than half sure, is not given up when the time is over: a wrong sample of
\* another file, whoever is waited for and 23.976 taken for 24 in between do not
\* keep afrd from using the rate of a movie that has played.
SteadySourceSucceeds ==
  [][/\ pc = "detect" /\ pc' \in {"last", "over"} /\ history.wrong <= 1
     /\ \E src \in history.steady : 2 * attempt * src_weight[src] > ACCEPT_HZ_WEIGHT
     => pc' = "last" /\ \E r \in history.rates : IsClose(hz', r)]_vars

\* "FRAME_RATE_HINT should be immediately usable", whatever the other sources are
\* waited for.
HintUsableAtOnce ==
  [][history'.agreed[FRH] > history.agreed[FRH] => pc' = "found"]_vars

=============================================================================
