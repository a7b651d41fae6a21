------------------------------ MODULE RhinoList ------------------------------
(***************************************************************************)
(* k_list.h and the list part of k_pend.c: a klist_t head is the sequence  *)
(* of the elements linked on it.                                           *)
(***************************************************************************)
EXTENDS Integers, Sequences, SequencesExt

\* Where a list does not hold t, klist_rm is the identity.
klist_rm(s, t) ==
    IF \E i \in 1 .. Len(s) : s[i] = t
    THEN RemoveAt(s, CHOOSE i \in 1 .. Len(s) : s[i] = t)
    ELSE s

\* The first position whose element is in behind, or the end of the list.
InsertPos(s, behind) ==
    CHOOSE i \in 1 .. Len(s) + 1 :
        /\ i <= Len(s) => s[i] \in behind
        /\ \A j \in 1 .. i - 1 : s[j] \notin behind

\* Mutant: waiters queue in arrival order.
pend_list_add_fifo(s, t, pr) == Append(s, t)

\* pr is the priority of every task, that of t already the new one.
pend_list_add(s, t, pr) ==
    LET lower == {u \in ToSet(s) : pr[u] > pr[t]}
    IN InsertAt(s, InsertPos(s, lower), t)
==============================================================================
