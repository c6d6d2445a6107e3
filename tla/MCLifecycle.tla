----------------------------- MODULE MCLifecycle -----------------------------
(***************************************************************************)
(* Three clients at a pool of two connections, and environments on both    *)
(* sides of every rule of the configuration.                               *)
(***************************************************************************)
EXTENDS Lifecycle

GoodEnvironment == [parsed |-> TRUE, appEnv |-> "production", port |-> 65535,
                    secretLength |-> 32, jwtTTL |-> 1, externalTimeout |-> 1]

MCEnvironments ==
  {GoodEnvironment,
   [GoodEnvironment EXCEPT !.parsed = FALSE],
   [GoodEnvironment EXCEPT !.appEnv = "staging"],
   [GoodEnvironment EXCEPT !.port = 65536],
   [GoodEnvironment EXCEPT !.secretLength = 31],
   [GoodEnvironment EXCEPT !.jwtTTL = 0],
   [GoodEnvironment EXCEPT !.externalTimeout = 0]}
=============================================================================
