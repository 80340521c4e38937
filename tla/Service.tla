------------------------------- MODULE Service -------------------------------
(***************************************************************************)
(* What the wiring promises a workspace, without maps, locks or threads:   *)
(* its controllers run on behalf of one engagement at a time.  An          *)
(* engagement begins once everything of the workspace's earlier ones has   *)
(* returned, may start runnables until it is closed, and none after.       *)
(*                                                                         *)
(* It is the contract of internal/providerwiring (Wiring.Engage, Add and   *)
(* disengage) towards a provider that waits for a disengagement; Wiring    *)
(* implements it.                                                          *)
(***************************************************************************)
EXTENDS Integers

CONSTANTS Engagements, Workspaces, None

VARIABLES
  home,  \* the workspace an engagement serves, None before it begins
  open,  \* the engagements that may start runnables
  runs   \* runnables of each engagement that have not returned

vars == <<home, open, runs>>

Init ==
  /\ home = [e \in Engagements |-> None]
  /\ open = {}
  /\ runs = [e \in Engagements |-> 0]

\* Nothing of the engagement runs, and nothing of it will.
Quiet(e) == e \notin open /\ runs[e] = 0

Begin(e, w) ==
  /\ home[e] = None
  /\ \A f \in Engagements : home[f] = w => Quiet(f)
  /\ home' = [home EXCEPT ![e] = w]
  /\ open' = open \cup {e}
  /\ UNCHANGED runs

Run(e) ==
  /\ e \in open
  /\ runs' = [runs EXCEPT ![e] = @ + 1]
  /\ UNCHANGED <<home, open>>

Return(e) ==
  /\ runs[e] > 0
  /\ runs' = [runs EXCEPT ![e] = @ - 1]
  /\ UNCHANGED <<home, open>>

Close(e) ==
  /\ e \in open
  /\ open' = open \ {e}
  /\ UNCHANGED <<home, runs>>

Next ==
  \E e \in Engagements :
    \/ Run(e) \/ Return(e) \/ Close(e)
    \/ \E w \in Workspaces : Begin(e, w)

Spec == Init /\ [][Next]_vars

\* No workspace is ever reconciled on behalf of two engagements.
ServedOnce ==
  \A e, f \in Engagements :
    e # f /\ home[e] # None /\ home[e] = home[f] => Quiet(e) \/ Quiet(f)

=============================================================================
