------------------------------ MODULE RhinoPend ------------------------------
(***************************************************************************)
(* k_tick.c and k_pend.c: the tick list, which holds every task that waits *)
(* with a timeout, and the block list of a kernel object, which holds its  *)
(* waiters in priority order.  All objects of the kernel use               *)
(* BLK_POLICY_PRI.                                                         *)
(***************************************************************************)
EXTENDS RhinoSched

\* tick_match - g_tick_count in the width of tick_t.
TickLeft(t) == (tick_match[t] - g_tick_count) % TickMod

\* delta <= 0 for the signed difference tick_i_t.
Expired(t) == TickLeft(t) = 0 \/ TickLeft(t) >= TickMod \div 2

\* Mutant: a timed waiter goes to the end of the tick list.
tick_list_append(t, time) == Append(g_tick_head, t)

tick_list_pri_insert(t, time) ==
    LET later == {u \in ToSet(g_tick_head) : TickLeft(u) > time}
    IN InsertAt(g_tick_head, InsertPos(g_tick_head, later), t)

\* Mutant: tick_match is not reduced to the width of tick_t.
tick_list_insert_nowrap(t, time) ==
    /\ tick_match' = [tick_match EXCEPT ![t] = g_tick_count + time]
    /\ g_tick_head' = tick_list_pri_insert(t, time)

tick_list_insert(t, time) ==
    /\ tick_match' = [tick_match EXCEPT ![t] = (g_tick_count + time) % TickMod]
    /\ g_tick_head' = tick_list_pri_insert(t, time)

\* tick_match of a task off the list is dead; it is kept at 0.
tick_list_rm(t) ==
    /\ tick_match' = [tick_match EXCEPT ![t] = 0]
    /\ g_tick_head' = klist_rm(g_tick_head, t)

\* Mutant: a waiter keeps its place when its priority changes.
pend_list_keep(s, t, pr) == s

pend_list_reorder(s, t, pr) == pend_list_add(klist_rm(s, t), t, pr)

(***************************************************************************)
(* The running task starts to wait for o, with blk_state left as it was.   *)
(***************************************************************************)
pend_to_blk_obj(o, t, timeout) ==
    /\ blk_obj' = [blk_obj EXCEPT ![t] = o]
    /\ IF timeout # RHINO_WAIT_FOREVER
       THEN tick_list_insert(t, timeout)
       ELSE UNCHANGED <<tick_match, g_tick_head>>
    /\ task_state' = [task_state EXCEPT ![t] = "K_PEND"]
    /\ g_ready_queue' = ready_list_rm(g_ready_queue, t)
    /\ blk_list' = [blk_list EXCEPT ![o] = pend_list_add(@, t, prio)]
    /\ call' = [call EXCEPT ![t] = o]
    /\ UNCHANGED <<suspend_count, blk_state, g_tick_count>>

\* Mutant: a waiter that is woken runs, suspended or not.
pend_task_wakeup_ready(t, o, why) ==
    /\ blk_list' = [blk_list EXCEPT ![o] = klist_rm(@, t)]
    /\ g_ready_queue' = ready_list_add(g_ready_queue, t)
    /\ task_state' = [task_state EXCEPT ![t] = "K_RDY"]
    /\ tick_list_rm(t)
    /\ blk_state' = [blk_state EXCEPT ![t] = why]
    /\ blk_obj' = [blk_obj EXCEPT ![t] = NULL]
    /\ UNCHANGED <<suspend_count, g_tick_count, call>>

(***************************************************************************)
(* pend_task_wakeup (why = BLK_FINISH) and pend_task_rm (why = BLK_DEL):   *)
(* a waiter of o leaves the block list and the tick list; a suspended one  *)
(* stays suspended.                                                        *)
(***************************************************************************)
pend_task_wakeup(t, o, why) ==
    /\ blk_list' = [blk_list EXCEPT ![o] = klist_rm(@, t)]
    /\ \/ /\ task_state[t] = "K_PEND"
          /\ g_ready_queue' = ready_list_add(g_ready_queue, t)
          /\ task_state' = [task_state EXCEPT ![t] = "K_RDY"]
       \/ /\ task_state[t] = "K_PEND_SUSPENDED"
          /\ task_state' = [task_state EXCEPT ![t] = "K_SUSPENDED"]
          /\ UNCHANGED g_ready_queue
    /\ tick_list_rm(t)
    /\ blk_state' = [blk_state EXCEPT ![t] = why]
    /\ blk_obj' = [blk_obj EXCEPT ![t] = NULL]
    /\ UNCHANGED <<suspend_count, g_tick_count, call>>

(***************************************************************************)
(* The wake-all loops: krhino_mutex_del and krhino_sem_del wake with       *)
(* BLK_DEL, krhino_sem_give_all with BLK_FINISH.                           *)
(***************************************************************************)
drain_step ==
    /\ pc = "drain"
    /\ blk_list[op.obj] # <<>>
    /\ pend_task_wakeup(Head(blk_list[op.obj]), op.obj,
                        IF op.fn = "give_all" THEN "BLK_FINISH" ELSE "BLK_DEL")
    /\ UNCHANGED <<priVars, obj_type, mutexVars, count, schedVars, ctlVars>>

drain_done ==
    /\ pc = "drain"
    /\ blk_list[op.obj] = <<>>
    /\ pc' = "sched" /\ op' = NoOp
    /\ UNCHANGED <<taskVars, priVars, objVars, mutexVars, count, tickVars,
                   g_ready_queue, schedVars, chg>>

(***************************************************************************)
(* The end of a blocking call: the task runs again and turns blk_state     *)
(* into the status it returns (pend_state_end_proc).  blk_state is dead    *)
(* from then until the next wake-up; it is kept at BLK_FINISH.             *)
(***************************************************************************)
pend_state_end_proc ==
    /\ pc = "run"
    /\ call[g_active_task] # NULL
    /\ call' = [call EXCEPT ![g_active_task] = NULL]
    /\ blk_state' = [blk_state EXCEPT ![g_active_task] = "BLK_FINISH"]
    /\ UNCHANGED <<task_state, suspend_count, blk_obj, priVars, objVars,
                   mutexVars, count, tickVars, g_ready_queue, schedVars,
                   ctlVars>>
=============================================================================
