---------------------------- MODULE MCProviders ----------------------------
(* Instances of Providers for TLC.                                         *)
EXTENDS Providers, TLC

\* All coroutines share the manager of one process: run_background_service, which
\* starts the listener, the workers and the live subscription.
OneHome == [c \in Clients |-> "background"]

\* All are active, and one that answers is primary.
OnePrimaryRow ==
  LET first == CHOOSE n \in Reachable : TRUE
  IN [n \in Names |-> [active |-> TRUE, primary |-> n = first]]

\* What a page saves makes a provider the primary one; it may also delete it.
MakePrimary == {[active |-> TRUE, primary |-> TRUE]}
=============================================================================
