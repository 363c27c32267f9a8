-------------------------------- MODULE Claims --------------------------------
(***************************************************************************)
(* Sentences of the documentation about the orchestrator that its code     *)
(* does not keep.  Each is checked by a run of its own that ends with the  *)
(* behaviour that contradicts it.                                          *)
(***************************************************************************)
EXTENDS StateMachine

(* docs/StateMachine.md, section 6: SHUTDOWN completes.  Awaiting a fan or *)
(* ignition task that has failed raises its exception on every attempt.    *)
ShutdownCompletes == state = "SHUTDOWN" ~> life = "halted"

(* The docstring of _rfcomm_genuine_disconnect: a new RFCOMM connection    *)
(* while OpenAuto still runs is a renegotiation, and is ignored.           *)
RenegotiationIgnored ==
  [][(pc = "proj_decide" /\ pc' = "proj_splash" /\ done = {"rfcomm"}) => openauto # Running]_vars
=============================================================================
