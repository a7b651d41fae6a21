------------------------------- MODULE MCRhino -------------------------------
(***************************************************************************)
(* Small instances of RhinoKernel for TLC.                                 *)
(***************************************************************************)
EXTENDS RhinoKernel, TLC

CONSTANTS t1, t2, t3

\* Three tasks at three priorities, or t2 and t3 at one (in MCBasePriLow below
\* the highest, so that a cycle of them can still be raised), or two tasks.
MCBasePri3 == (t1 :> 2) @@ (t2 :> 1) @@ (t3 :> 0)
MCBasePriEq == (t1 :> 1) @@ (t2 :> 0) @@ (t3 :> 0)
MCBasePriLow == (t1 :> 2) @@ (t2 :> 1) @@ (t3 :> 1)
MCBasePri2 == (t1 :> 1) @@ (t2 :> 0)

\* The instances satisfy what the theorem about the tick list assumes.
ASSUME MCShortTimeouts == ShortTimeouts
=============================================================================
