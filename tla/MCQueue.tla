------------------------------- MODULE MCQueue -------------------------------
(***************************************************************************)
(* Small instances of RhinoQueue.  With bytes of two bits a length of 1    *)
(* takes one byte, 2 and 3 take two, and 4 takes three.                    *)
(***************************************************************************)
EXTENDS RhinoQueue, TLC

CONSTANTS t1, t2

MCPri == (t1 :> 1) @@ (t2 :> 2)

\* Messages of each length of the length field.
MCMsg == {<<1>>, <<1, 2>>, <<3, 3>>, <<3, 2, 1, 0>>}

\* Sent to the front: messages that are the same when rotated.
MCFrontMsg == {<<1>>, <<3, 3>>}

\* States that differ only in bytes of the ring no message occupies are one.
MCView == <<obj_type, Content(ringbuf), [ringbuf EXCEPT !.mem = <<>>], cur_num,
            waitVars, ev>>
==============================================================================
