--------------------------- MODULE MCHubSessions ---------------------------
(* Instances of HubSessions for model checking. *)
EXTENDS HubSessions, TLC

\* Sound for the runs without liveness: no action or property tells two sockets
\* or two requests apart.
SessionSymmetry == Permutations(Sockets) \cup Permutations(Requests)
=============================================================================
