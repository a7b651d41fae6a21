------------------------------ MODULE RhinoPri -------------------------------
(***************************************************************************)
(* Priority inheritance: task_pri_change of k_task.c and the functions of  *)
(* k_mutex.c that find the priority a mutex owner should have.             *)
(*                                                                         *)
(* task_pri_change is a loop that walks from a waiter to the owner of the  *)
(* mutex it waits for.  Each iteration is one step, with interrupts        *)
(* disabled, on the locals chg.task and chg.pri; the caller that goes on   *)
(* when chg.task is NULL is op.fn.                                         *)
(***************************************************************************)
EXTENDS RhinoPend

(***************************************************************************)
(* The highest priority among base and the first waiter of each mutex that *)
(* t holds, mutex_rel left out.  bl and pr are the block lists and the     *)
(* priorities at that point of the caller.                                 *)
(***************************************************************************)
HighestPri(t, base, mutex_rel, bl, pr) ==
    LET held == {m \in ToSet(mutex_list[t]) \ {mutex_rel} : bl[m] # <<>>}
    IN Min({base} \cup {pr[Head(bl[m])] : m \in held})

mutex_pri_look(t, mutex_rel, bl, pr) == HighestPri(t, b_prio[t], mutex_rel, bl, pr)
mutex_pri_limit(t, pri) == HighestPri(t, pri, NULL, blk_list, prio)

\* The priority change mutex_release asks for; the caller updates mutex_list.
mutex_release(t, mutex_rel, bl) ==
    LET new_pri == mutex_pri_look(t, mutex_rel, bl, prio)
    IN IF new_pri # prio[t] THEN [task |-> t, pri |-> new_pri] ELSE NoChg

\* Mutant: the owner keeps the priority of a waiter that gave up.
mutex_task_pri_keep(t, bl) == NoChg

\* t has left the block list of blk_obj[t]: bl is without it.
mutex_task_pri_reset(t, bl) ==
    LET o == blk_obj[t]
    IN IF obj_type[o] = "RHINO_MUTEX_OBJ_TYPE" /\ prio[mutex_task[o]] = prio[t]
       THEN mutex_release(mutex_task[o], NULL, bl)
       ELSE NoChg

\* Where the loop goes after the waiter t of o went to priority pr[t].
next_owner(t, o, bl, pr) ==
    LET owner == mutex_task[o]
        new_pri == mutex_pri_look(owner, NULL, bl, pr)
    IN IF obj_type[o] # "RHINO_MUTEX_OBJ_TYPE" THEN NoChg
       ELSE IF pr[owner] > pr[t] THEN [task |-> owner, pri |-> pr[t]]
       ELSE IF pr[owner] = prio[t] /\ new_pri # pr[owner]
            THEN [task |-> owner, pri |-> new_pri]
       ELSE NoChg

pri_change_same ==
    /\ prio[chg.task] = chg.pri
    /\ chg' = NoChg
    /\ UNCHANGED <<prio, g_ready_queue, blk_list>>

pri_change_ready ==
    LET t == chg.task
        rq == ready_list_rm(g_ready_queue, t)
    IN /\ prio[t] # chg.pri
       /\ task_state[t] = "K_RDY"
       /\ g_ready_queue' = IF t = g_active_task
                           THEN ready_list_add_head(rq, t, chg.pri)
                           ELSE ready_list_add_tail(rq, t, chg.pri)
       /\ prio' = [prio EXCEPT ![t] = chg.pri]
       /\ chg' = NoChg
       /\ UNCHANGED blk_list

pri_change_idle ==
    /\ prio[chg.task] # chg.pri
    /\ task_state[chg.task] \in Sleeping \cup {"K_SUSPENDED"}
    /\ prio' = [prio EXCEPT ![chg.task] = chg.pri]
    /\ chg' = NoChg
    /\ UNCHANGED <<g_ready_queue, blk_list>>

\* Mutant: the new priority of a waiter is passed on and not stored.
pri_change_pend_unsaved ==
    LET t == chg.task
        o == blk_obj[t]
        pr == [prio EXCEPT ![t] = chg.pri]
        bl == [blk_list EXCEPT ![o] = pend_list_reorder(@, t, pr)]
    IN /\ prio[t] # chg.pri
       /\ task_state[t] \in Pending
       /\ blk_list' = bl
       /\ chg' = next_owner(t, o, bl, pr)
       /\ UNCHANGED <<prio, g_ready_queue>>

pri_change_pend ==
    LET t == chg.task
        o == blk_obj[t]
        pr == [prio EXCEPT ![t] = chg.pri]
        bl == [blk_list EXCEPT ![o] = pend_list_reorder(@, t, pr)]
    IN /\ prio[t] # chg.pri
       /\ task_state[t] \in Pending
       /\ prio' = pr
       /\ blk_list' = bl
       /\ chg' = next_owner(t, o, bl, pr)
       /\ UNCHANGED g_ready_queue

task_pri_change ==
    /\ pc = "pri"
    /\ chg.task # NULL
    /\ pri_change_same \/ pri_change_ready \/ pri_change_idle \/ pri_change_pend
    /\ UNCHANGED <<taskVars, b_prio, obj_type, mutexVars, count, tickVars,
                   schedVars, pc, op>>

\* Enter the loop with the change c on behalf of the call o.
StartPriChange(c, o) == pc' = "pri" /\ chg' = c /\ op' = o

\* The loop is over and the caller fn goes on.
PriChanged(fn) == pc = "pri" /\ chg.task = NULL /\ op.fn = fn
=============================================================================
