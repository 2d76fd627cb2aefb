------------------------------ MODULE MCDac11 --------------------------------
(***************************************************************************)
(* Three serial numbers for the boards of Dac11, whose order depends on    *)
(* who is there: bytes 1 tie, byte 2 puts board 3 first; without board 2   *)
(* byte 1 puts board 1 before board 3.                                     *)
(***************************************************************************)
EXTENDS Dac11, TLC

MCSerN ==
  (1 :> <<2, 1, 0, 0, 0, 0, 1>>) @@ (2 :> <<2, 2, 0, 0, 0, 0, 2>>) @@ (3 :> <<1, 3, 0, 0, 0, 0, 0>>)
=============================================================================
