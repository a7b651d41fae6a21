------------------------------- MODULE MCWork --------------------------------
(***************************************************************************)
(* Small instances of RhinoWork: a work run at once, a delayed work with   *)
(* its timer, and a periodic timer of the application.                     *)
(***************************************************************************)
EXTENDS RhinoWork, TLC

CONSTANTS w1, w2, x2, p

MCWorkTimer == w2 :> x2
MCFirst == [x \in Timer |-> IF x = x2 THEN 1 ELSE 2]
MCRound == [x \in Timer |-> IF x = x2 THEN 0 ELSE 2]
==============================================================================
