------------------------------ MODULE Settling ------------------------------
(***************************************************************************)
(* sweep.Settle and sweep.SettleReleased: polling the goroutine count of a *)
(* process that is still starting work, or still giving it back, to decide *)
(* when a sample describes a process at rest.                              *)
(*                                                                         *)
(* Settle waits for the count to be the same for a while, SettleReleased   *)
(* for it to reach no new low for a while.  Both give up at a deadline.    *)
(*                                                                         *)
(* External: the process.  It has some goroutines left to start or to give *)
(* back, and pauses in between for no longer than MaxPause polls.  Next to *)
(* them there is noise: up to MaxNoise goroutines that come and go.        *)
(***************************************************************************)
EXTENDS Integers

CONSTANTS
  MaxLag,    \* goroutines left to start or to give back at first
  MaxPause,  \* polls in a row at which nothing was started or given back
  MaxNoise,
  Quiet,     \* polls of quiet asked for: quiet / interval
  Deadline   \* polls before giving up: timeout / interval

ASSUME SettlingAssumption ==
  /\ MaxLag \in Nat /\ MaxPause \in Nat /\ MaxNoise \in Nat
  /\ Quiet \in Nat \ {0} /\ Deadline \in Nat

\* quiet outlasts the pauses that noise can hide, one after another.
ASSUME QuietOutlasts == Quiet >= (MaxNoise + 1) * (MaxPause + 1)

VARIABLES
  waitsFor,  \* "start" (Settle) or "release" (SettleReleased)
  lag, noise,
  pause,     \* polls since the process last moved
  reading,   \* last of Settle, lowest of SettleReleased
  quietFor,
  polls,
  verdict,   \* "none", "settled", "gaveUp"
  floorAt    \* history: the poll at which a teardown first read its true end

settlingVars == <<waitsFor, lag, noise, pause, reading, quietFor, polls, verdict, floorAt>>

\* runtime.NumGoroutine, from the level the process will end at.
NumGoroutine(what, l, n) == IF what = "start" THEN n - l ELSE n + l

SettlingTypeOK ==
  /\ waitsFor \in {"start", "release"}
  /\ lag \in Nat /\ noise \in 0..MaxNoise /\ pause \in 0..MaxPause
  /\ reading \in Int /\ quietFor \in Nat /\ polls \in 0..Deadline
  /\ verdict \in {"none", "settled", "gaveUp"}
  /\ floorAt \in 0..(Deadline + 1)

SettlingInit ==
  /\ waitsFor \in {"start", "release"}
  /\ lag \in 0..MaxLag /\ noise \in 0..MaxNoise
  /\ pause = 0
  /\ reading = NumGoroutine(waitsFor, lag, noise)
  /\ quietFor = 0 /\ polls = 0 /\ verdict = "none"
  /\ floorAt = Deadline + 1

\* What the process did during one interval.
Moves ==
  /\ lag' \in 0..lag /\ noise' \in 0..MaxNoise
  /\ pause' = IF lag' < lag \/ lag' = 0 THEN 0 ELSE pause + 1
  /\ pause' <= MaxPause
  /\ floorAt' = IF floorAt > Deadline /\ lag' = 0 /\ noise' = 0 THEN polls + 1 ELSE floorAt

\* Settle: any change.  SettleReleased: a count not reached before.
StillMoving(current) ==
  IF waitsFor = "start" THEN current # reading ELSE current < reading

\* Mutant: what moves does not start the quiet over.
PollKeepsQuiet ==
  /\ verdict = "none" /\ polls < Deadline
  /\ Moves
  /\ LET current == NumGoroutine(waitsFor, lag', noise')
     IN  reading' = IF StillMoving(current) THEN current ELSE reading
  /\ quietFor' = quietFor + 1
  /\ verdict' = IF quietFor' >= Quiet THEN "settled" ELSE "none"
  /\ polls' = polls + 1
  /\ UNCHANGED waitsFor

\* One turn of the loop: the sleep, the reading and the decision.
Poll ==
  /\ verdict = "none" /\ polls < Deadline
  /\ Moves
  /\ LET current == NumGoroutine(waitsFor, lag', noise')
     IN  IF StillMoving(current)
           THEN reading' = current /\ quietFor' = 0
           ELSE quietFor' = quietFor + 1 /\ UNCHANGED reading
  /\ verdict' = IF quietFor' >= Quiet THEN "settled" ELSE "none"
  /\ polls' = polls + 1
  /\ UNCHANGED waitsFor

GiveUp ==
  /\ verdict = "none" /\ polls = Deadline
  /\ verdict' = "gaveUp"
  /\ UNCHANGED <<waitsFor, lag, noise, pause, reading, quietFor, polls, floorAt>>

SettlingNext == Poll \/ GiveUp

SettlingSpec == SettlingInit /\ [][SettlingNext]_settlingVars

-----------------------------------------------------------------------------
(* Properties *)

\* TRUE means the process has finished reacting: nothing is left to start or
\* to give back (report.go:144-158 and 188-196).
SettledIsDone == verdict = "settled" => lag = 0

\* Noise upward does not keep a finished teardown from being recognised: once
\* the count has been at its end, SettleReleased gives up only if the deadline
\* comes within quiet of that (report.go:183-187).
ReleaseIsRecognised ==
  waitsFor = "release" /\ verdict = "gaveUp" /\ floorAt <= Deadline
    => Deadline - floorAt < Quiet

\* Neither verdict is wrong: no sample is taken of a process still at work, and
\* none is given up for noise.
VerdictIsRight == SettledIsDone /\ ReleaseIsRecognised

=============================================================================
