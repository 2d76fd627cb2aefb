-------------------------------- MODULE Nmt ---------------------------------
(***************************************************************************)
(* The NMT state of a CANopen node, which its SDO server (SdoServer) and   *)
(* its PDOs (Pdo) look at.                                                 *)
(***************************************************************************)

VARIABLE nodeState

\* proceedSDO answers in these states only.
Serving == nodeState \in {"Pre_operational", "Operational"}
=============================================================================
