------------------------------- MODULE Stacks -------------------------------
(***************************************************************************)
(* sweep.takeStacks and sweep.StacksGrown: the goroutine profile of two    *)
(* samples, grouped by stack and subtracted from one another, to name the  *)
(* goroutines that were not given back in between.                         *)
(*                                                                         *)
(* A profile is the sequence of its lines.  A stack is an address; its     *)
(* frames, symbols without offsets, may be those of another address too.   *)
(*                                                                         *)
(* External: the goroutines, and pprof's WriteTo with debug=1.  It prints  *)
(* a header line, and then a record for each stack, the one with the most  *)
(* goroutines first: the count, the frames and a blank line.               *)
(***************************************************************************)
EXTENDS Integers, SequencesExt

CONSTANTS
  Addresses,  \* \subseteq Nat
  Sampler,    \* the stack of the goroutine that takes the samples
  FramesOf,   \* the frames of each address
  MaxLive     \* bound: goroutines on one stack

VARIABLES
  live,          \* how many goroutines there are on each stack
  taken,         \* how many of the two samples are taken
  before, after, \* their Stacks
  was            \* history: live at the first sample

stacksVars == <<live, taken, before, after, was>>

NoStacks == [f \in {} |-> 0]

StacksInit ==
  /\ live \in [Addresses -> 0..MaxLive] /\ live[Sampler] > 0
  /\ taken = 0 /\ before = NoStacks /\ after = NoStacks /\ was = live

-----------------------------------------------------------------------------
(* WriteTo *)

Header == [kind |-> "header"]
Blank == [kind |-> "blank"]
Record(a, n) == <<[kind |-> "count", n |-> n], [kind |-> "frame", symbol |-> FramesOf[a]], Blank>>

ByCount(population) ==
  SetToSortSeq({a \in Addresses : population[a] > 0},
               LAMBDA a, b : \/ population[a] > population[b]
                             \/ population[a] = population[b] /\ a < b)

WriteTo(population) ==
  FoldLeft(LAMBDA text, a : text \o Record(a, population[a]), <<Header>>, ByCount(population))

-----------------------------------------------------------------------------
(* parseStacks *)

\* strings.Split at the blank lines: the lines between two of them.
SplitRecords(lines) ==
  LET cuts == {0, Len(lines) + 1} \cup {i \in DOMAIN lines : lines[i] = Blank}
  IN  {[from |-> i + 1, to |-> j - 1] :
         <<i, j>> \in {c \in cuts \X cuts : c[1] < c[2] /\ \A k \in cuts : k <= c[1] \/ c[2] <= k}}

\* Too short, or not starting with a count: passed over.
IsRecord(lines, r) == r.to - r.from >= 1 /\ lines[r.from].kind = "count"

RecordFrames(lines, r) == lines[r.from + 1].symbol

ParseStacks(lines) ==
  LET records == {r \in SplitRecords(lines) : IsRecord(lines, r)}
  IN  [f \in {RecordFrames(lines, r) : r \in records} |->
         FoldSet(LAMBDA r, sum : sum + lines[r.from].n, 0,
                 {r \in records : RecordFrames(lines, r) = f})]

Count(stacks, frames) == IF frames \in DOMAIN stacks THEN stacks[frames] ELSE 0

StacksGrown(from, to) ==
  {[stack |-> f, before |-> Count(from, f), after |-> to[f]] :
     f \in {g \in DOMAIN to : to[g] > Count(from, g)}}

-----------------------------------------------------------------------------
TakeBefore ==
  /\ taken = 0 /\ taken' = 1
  /\ before' = ParseStacks(WriteTo(live)) /\ was' = live
  /\ UNCHANGED <<live, after>>

TakeAfter ==
  /\ taken = 1 /\ taken' = 2
  /\ after' = ParseStacks(WriteTo(live))
  /\ UNCHANGED <<live, before, was>>

Spawn(a) ==
  /\ taken < 2 /\ live[a] < MaxLive
  /\ live' = [live EXCEPT ![a] = @ + 1]
  /\ UNCHANGED <<taken, before, after, was>>

Exit(a) ==
  /\ taken < 2 /\ live[a] > (IF a = Sampler THEN 1 ELSE 0)
  /\ live' = [live EXCEPT ![a] = @ - 1]
  /\ UNCHANGED <<taken, before, after, was>>

StacksNext == TakeBefore \/ TakeAfter \/ \E a \in Addresses : Spawn(a) \/ Exit(a)

StacksSpec == StacksInit /\ [][StacksNext]_stacksVars

-----------------------------------------------------------------------------
(* Properties *)

OnFrames(population, f) ==
  FoldSet(LAMBDA a, sum : sum + population[a], 0, {a \in Addresses : FramesOf[a] = f})

\* "lists the stacks that hold more goroutines in after than in before": each
\* with its growth, and no others (stacks.go:121-125).
GrownIsGrowth ==
  taken = 2 => StacksGrown(before, after) =
    {[stack |-> f, before |-> OnFrames(was, f), after |-> OnFrames(live, f)] :
       f \in {FramesOf[a] : a \in {b \in Addresses : OnFrames(live, FramesOf[b]) > OnFrames(was, FramesOf[b])}}}
=============================================================================
