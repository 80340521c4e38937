------------------------------- MODULE MCDemo -------------------------------
(* Instances for TLC: the runs that differ.  Some are refused by validate:   *)
(* a user named twice, more users than workspaces, a reserved name.          *)
EXTENDS Demo

Option(mode, users, count, runManager) ==
  [mode |-> mode, users |-> users, count |-> count, runManager |-> runManager,
   nutanix |-> FALSE, privileged |-> TRUE]

\* Two tenants share out two workspaces, or three.
MCRuns ==
  {Option("workspace-type", <<"alice">>, 1, TRUE),
   Option("manual", <<"alice", "alice">>, 2, TRUE),
   Option("manual", <<"alice", "bob">>, 2, TRUE),
   Option("manual", <<"alice", "bob", "carol">>, 2, TRUE),
   Option("manual", <<"nobody">>, 1, FALSE),
   [Option("manual", <<>>, 1, TRUE) EXCEPT !.nutanix = TRUE],
   [Option("workspace-type", <<"alice">>, 2, FALSE) EXCEPT !.privileged = FALSE],
   Option("workspace-type", <<"alice", "bob">>, 3, FALSE)}

MCProviders == <<"core", "infrastructure">>
=============================================================================
