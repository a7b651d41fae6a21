-------------------------------- MODULE MCKv ---------------------------------
(***************************************************************************)
(* Small instances of KvMgr.                                               *)
(***************************************************************************)
EXTENDS KvMgr

\* Keys, values and clients are never compared for order.
MCSymmetry == Permutations(Key) \cup Permutations(Val) \cup Permutations(Client)
==============================================================================
