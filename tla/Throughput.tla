----------------------------- MODULE Throughput -----------------------------
(***************************************************************************)
(* scaleharness.Throughput: Begin starts a measurement, reconcilers call   *)
(* Completed from any goroutine, and Await blocks until the target is      *)
(* reached, its context ends or its timeout passes.                        *)
(*                                                                         *)
(* Begin and Completed hold t.mu throughout.  Await takes the channel      *)
(* under t.mu, waits without it, and takes it again to read the count, so  *)
(* completions and further measurements come in between.  Elapsed time and *)
(* the rate are left out.                                                  *)
(***************************************************************************)
EXTENDS Naturals

CONSTANTS
  Waiters,         \* calls of Await
  Targets,         \* completions asked of a measurement
  MaxBegins,       \* bound: measurements in one behaviour
  MaxCompletions   \* bound: reconciles that finish in one behaviour

\* A measurement of no completions would not end before its timeout: the
\* harness asks for at least one.
ASSUME ThroughputAssumption ==
  /\ Targets \subseteq Nat \ {0}
  /\ MaxBegins \in Nat /\ MaxCompletions \in Nat

VARIABLES
  running, count, target,
  done,       \* the channel in t.done: that of the n-th Begin, 0 for nil
  closedDone, \* the channels that are closed
  begins,     \* history: how many Begins there were
  finished,   \* history: reconciles finished in all, and when Begin was called
  finishedAt,
  awaits,     \* where each Await is
  awaited     \* the channel each Await took, 0 for nil

throughputVars == <<running, count, target, done, closedDone, begins,
                    finished, finishedAt, awaits, awaited>>

ThroughputTypeOK ==
  /\ running \in BOOLEAN /\ count \in 0..MaxCompletions
  /\ target \in Targets \cup {0}
  /\ done \in 0..begins /\ closedDone \subseteq 1..begins
  /\ begins \in 0..MaxBegins
  /\ finished \in 0..MaxCompletions /\ finishedAt \in 0..finished
  /\ awaits \in [Waiters -> {"idle", "waiting", "judging", "refused", "reached", "short"}]
  /\ awaited \in [Waiters -> 0..begins]

ThroughputInit ==
  /\ running = FALSE /\ count = 0 /\ target = 0 /\ done = 0
  /\ closedDone = {} /\ begins = 0
  /\ finished = 0 /\ finishedAt = 0
  /\ awaits = [w \in Waiters |-> "idle"]
  /\ awaited = [w \in Waiters |-> 0]

\* The channel of an earlier measurement is dropped as it is.
Begin(n) ==
  /\ begins < MaxBegins /\ begins' = begins + 1
  /\ running' = TRUE
  /\ count' = 0 /\ target' = n /\ done' = begins'
  /\ finishedAt' = finished
  /\ UNCHANGED <<closedDone, finished, awaits, awaited>>

CompletedPastTarget ==
  /\ finished < MaxCompletions /\ finished' = finished + 1
  /\ count' = IF running THEN count + 1 ELSE count
  /\ IF running /\ count' > target /\ done # 0
       THEN closedDone' = closedDone \cup {done} /\ done' = 0
       ELSE UNCHANGED <<closedDone, done>>
  /\ UNCHANGED <<running, target, begins, finishedAt, awaits, awaited>>

\* A reconcile that finishes before any Begin is not counted.
Completed ==
  /\ finished < MaxCompletions /\ finished' = finished + 1
  /\ count' = IF running THEN count + 1 ELSE count
  /\ IF running /\ count' >= target /\ done # 0
       THEN closedDone' = closedDone \cup {done} /\ done' = 0
       ELSE UNCHANGED <<closedDone, done>>
  /\ UNCHANGED <<running, target, begins, finishedAt, awaits, awaited>>

Reaches(w, place) == awaits' = [awaits EXCEPT ![w] = place]

\* Await up to the wait: a nil channel is one whose target was reached already.
Await(w) ==
  /\ awaits[w] = "idle"
  /\ Reaches(w, IF ~running THEN "refused" ELSE IF done = 0 THEN "judging" ELSE "waiting")
  /\ awaited' = [awaited EXCEPT ![w] = done]
  /\ UNCHANGED <<running, count, target, done, closedDone, begins, finished, finishedAt>>

Woken(w) ==
  /\ awaits[w] = "waiting" /\ awaited[w] \in closedDone
  /\ Reaches(w, "judging")
  /\ UNCHANGED <<running, count, target, done, closedDone, begins, finished, finishedAt, awaited>>

TimedOut(w) ==
  /\ awaits[w] = "waiting"
  /\ Reaches(w, "judging")
  /\ UNCHANGED <<running, count, target, done, closedDone, begins, finished, finishedAt, awaited>>

Judged(w) ==
  /\ awaits[w] = "judging"
  /\ Reaches(w, IF count < target THEN "short" ELSE "reached")
  /\ UNCHANGED <<running, count, target, done, closedDone, begins, finished, finishedAt, awaited>>

ThroughputNext ==
  \/ \E n \in Targets : Begin(n)
  \/ Completed
  \/ \E w \in Waiters : Await(w) \/ Woken(w) \/ TimedOut(w) \/ Judged(w)

ThroughputSpec == ThroughputInit /\ [][ThroughputNext]_throughputVars

-----------------------------------------------------------------------------
(* Properties *)

\* The channel of the current measurement is closed exactly when as many
\* reconciles have finished since its Begin as it asked for, and is the one an
\* Await that found the target unreached waits on: no wake-up is lost between
\* the lock and the wait, none comes early from work of before the measurement,
\* and no Await waits on a nil channel (throughput.go:84-87, 96-99, 115-124).
ReachedIsWoken ==
  /\ begins > 0 => (begins \in closedDone <=> finished - finishedAt >= target)
  /\ \A w \in Waiters : awaits[w] = "waiting" => awaited[w] \in 1..begins

=============================================================================
