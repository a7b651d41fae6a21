------------------------------ MODULE RhinoTask ------------------------------
(***************************************************************************)
(* k_task.c (task_pri_change is in RhinoPri, krhino_task_yield in          *)
(* RhinoSched) and tick_list_update of k_tick.c, which ends the timed      *)
(* waits.  A call that returns an error leaves the state as it is and is   *)
(* not an action.                                                          *)
(***************************************************************************)
EXTENDS RhinoPri

\* task_create on a control block that is not in use: it is zeroed first.
krhino_task_create(t, autorun) ==
    /\ TaskCalls(IF autorun THEN "task_create" ELSE "task_create_suspended")
    /\ task_state[t] \in Dead
    /\ prio' = [prio EXCEPT ![t] = BasePri[t]]
    /\ b_prio' = [b_prio EXCEPT ![t] = BasePri[t]]
    /\ blk_state' = [blk_state EXCEPT ![t] = "BLK_FINISH"]
    /\ blk_obj' = [blk_obj EXCEPT ![t] = NULL]
    /\ \/ /\ autorun
          /\ task_state' = [task_state EXCEPT ![t] = "K_RDY"]
          /\ suspend_count' = [suspend_count EXCEPT ![t] = 0]
          /\ g_ready_queue' = ready_list_add_tail(g_ready_queue, t, BasePri[t])
          /\ pc' = "sched"
       \/ /\ ~autorun
          /\ task_state' = [task_state EXCEPT ![t] = "K_SUSPENDED"]
          /\ suspend_count' = [suspend_count EXCEPT ![t] = 1]
          /\ UNCHANGED <<g_ready_queue, pc>>
    /\ UNCHANGED <<call, objVars, mutexVars, count, tickVars, schedVars, op, chg>>

krhino_task_sleep(ticks) ==
    LET t == g_active_task
    IN /\ TaskCalls("sleep")
       /\ g_sched_lock = 0
       /\ task_state' = [task_state EXCEPT ![t] = "K_SLEEP"]
       /\ tick_list_insert(t, ticks)
       /\ g_ready_queue' = ready_list_rm(g_ready_queue, t)
       /\ call' = [call EXCEPT ![t] = "sleep"]
       /\ pc' = "sched"
       /\ UNCHANGED <<suspend_count, blk_state, blk_obj, priVars, objVars,
                      mutexVars, count, g_tick_count, schedVars, op, chg>>

SuspendedFrom == [s \in {"K_RDY", "K_SLEEP", "K_PEND"} |->
    CASE s = "K_RDY" -> "K_SUSPENDED"
      [] s = "K_SLEEP" -> "K_SLEEP_SUSPENDED"
      [] s = "K_PEND" -> "K_PEND_SUSPENDED"]

\* Mutant: a task that locked the scheduler may suspend itself.
task_suspend_unlocked(t) ==
    /\ Calls("task_suspend")
    /\ task_state[t] \in {"K_RDY", "K_SLEEP", "K_PEND"}
    /\ suspend_count' = [suspend_count EXCEPT ![t] = 1]
    /\ task_state' = [task_state EXCEPT ![t] = SuspendedFrom[@]]
    /\ g_ready_queue' = IF task_state[t] = "K_RDY"
                        THEN ready_list_rm(g_ready_queue, t)
                        ELSE g_ready_queue
    /\ pc' = "sched"
    /\ UNCHANGED <<blk_state, blk_obj, call, priVars, objVars, mutexVars, count,
                   tickVars, schedVars, op, chg>>

\* Mutant: the suspensions of a suspended task are counted without a limit.
task_suspend_nolimit(t) ==
    /\ Calls("task_suspend")
    /\ ~(t = g_active_task /\ g_sched_lock > 0)
    /\ \/ /\ task_state[t] \in {"K_RDY", "K_SLEEP", "K_PEND"}
          /\ suspend_count' = [suspend_count EXCEPT ![t] = 1]
          /\ task_state' = [task_state EXCEPT ![t] = SuspendedFrom[@]]
          /\ g_ready_queue' = IF task_state[t] = "K_RDY"
                              THEN ready_list_rm(g_ready_queue, t)
                              ELSE g_ready_queue
       \/ /\ task_state[t] \in Suspended
          /\ suspend_count' = [suspend_count EXCEPT ![t] = @ + 1]
          /\ UNCHANGED <<task_state, g_ready_queue>>
    /\ pc' = "sched"
    /\ UNCHANGED <<blk_state, blk_obj, call, priVars, objVars, mutexVars, count,
                   tickVars, schedVars, op, chg>>

krhino_task_suspend(t) ==
    /\ Calls("task_suspend")
    /\ ~(t = g_active_task /\ g_sched_lock > 0)
    /\ \/ /\ task_state[t] \in {"K_RDY", "K_SLEEP", "K_PEND"}
          /\ suspend_count' = [suspend_count EXCEPT ![t] = 1]
          /\ task_state' = [task_state EXCEPT ![t] = SuspendedFrom[@]]
          /\ g_ready_queue' = IF task_state[t] = "K_RDY"
                              THEN ready_list_rm(g_ready_queue, t)
                              ELSE g_ready_queue
       \/ /\ task_state[t] \in Suspended
          /\ suspend_count[t] < SuspendMax
          /\ suspend_count' = [suspend_count EXCEPT ![t] = @ + 1]
          /\ UNCHANGED <<task_state, g_ready_queue>>
    /\ pc' = "sched"
    /\ UNCHANGED <<blk_state, blk_obj, call, priVars, objVars, mutexVars, count,
                   tickVars, schedVars, op, chg>>

ResumedFrom == [s \in Suspended |->
    CASE s = "K_SUSPENDED" -> "K_RDY"
      [] s = "K_SLEEP_SUSPENDED" -> "K_SLEEP"
      [] s = "K_PEND_SUSPENDED" -> "K_PEND"]

krhino_task_resume(t) ==
    /\ Calls("task_resume")
    /\ task_state[t] \in Suspended
    /\ suspend_count' = [suspend_count EXCEPT ![t] = @ - 1]
    /\ \/ /\ suspend_count[t] = 1
          /\ task_state' = [task_state EXCEPT ![t] = ResumedFrom[@]]
          /\ g_ready_queue' = IF task_state[t] = "K_SUSPENDED"
                              THEN ready_list_add(g_ready_queue, t)
                              ELSE g_ready_queue
       \/ /\ suspend_count[t] > 1
          /\ UNCHANGED <<task_state, g_ready_queue>>
    /\ pc' = "sched"
    /\ UNCHANGED <<blk_state, blk_obj, call, priVars, objVars, mutexVars, count,
                   tickVars, schedVars, op, chg>>

\* The priority asked for is the new base; the one set is limited by the
\* waiters of the mutexes t holds.
krhino_task_pri_change(t, pri) ==
    /\ TaskCalls("task_pri_change")
    /\ task_state[t] \notin Dead
    /\ b_prio' = [b_prio EXCEPT ![t] = pri]
    /\ StartPriChange([task |-> t, pri |-> mutex_pri_limit(t, pri)],
         [fn |-> "pri_change", task |-> t, obj |-> NULL, ticks |-> 0])
    /\ UNCHANGED <<taskVars, prio, objVars, mutexVars, count, tickVars,
                   g_ready_queue, schedVars>>

\* Mutant: a priority change or a deletion returns without core_sched.
pri_change_no_sched ==
    /\ PriChanged("pri_change") \/ PriChanged("del")
    /\ pc' = "run" /\ op' = NoOp
    /\ UNCHANGED <<taskVars, priVars, objVars, mutexVars, count, tickVars,
                   g_ready_queue, schedVars, chg>>

pri_change_done ==
    /\ PriChanged("pri_change") \/ PriChanged("del")
    /\ pc' = "sched" /\ op' = NoOp
    /\ UNCHANGED <<taskVars, priVars, objVars, mutexVars, count, tickVars,
                   g_ready_queue, schedVars, chg>>

(***************************************************************************)
(* krhino_task_wait_abort: whatever t waits for, it runs again; a          *)
(* suspended task does too, and keeps its suspend_count.                   *)
(***************************************************************************)
wait_abort_nonpend(t) ==
    /\ TaskCalls("wait_abort")
    /\ task_state[t] \in {"K_SUSPENDED"} \cup Sleeping
    /\ tick_list_rm(t)
    /\ g_ready_queue' = ready_list_add(g_ready_queue, t)
    /\ task_state' = [task_state EXCEPT ![t] = "K_RDY"]
    /\ blk_state' = [blk_state EXCEPT ![t] =
                       IF task_state[t] \in Sleeping THEN "BLK_ABORT" ELSE @]
    /\ pc' = "sched"
    /\ UNCHANGED <<suspend_count, blk_obj, call, priVars, objVars, mutexVars,
                   count, g_tick_count, schedVars, op, chg>>

\* Mutant: an aborted waiter is not told so.
wait_abort_silent(t) ==
    LET o == blk_obj[t]
        bl == [blk_list EXCEPT ![o] = klist_rm(@, t)]
    IN /\ TaskCalls("wait_abort")
       /\ task_state[t] \in Pending
       /\ tick_list_rm(t)
       /\ blk_list' = bl
       /\ g_ready_queue' = ready_list_add(g_ready_queue, t)
       /\ task_state' = [task_state EXCEPT ![t] = "K_RDY"]
       /\ StartPriChange(mutex_task_pri_reset(t, bl),
            [fn |-> "abort", task |-> t, obj |-> NULL, ticks |-> 0])
       /\ UNCHANGED <<blk_state, suspend_count, blk_obj, call, priVars, obj_type,
                      mutexVars, count, g_tick_count, schedVars>>

wait_abort_pend(t) ==
    LET o == blk_obj[t]
        bl == [blk_list EXCEPT ![o] = klist_rm(@, t)]
    IN /\ TaskCalls("wait_abort")
       /\ task_state[t] \in Pending
       /\ tick_list_rm(t)
       /\ blk_list' = bl
       /\ g_ready_queue' = ready_list_add(g_ready_queue, t)
       /\ task_state' = [task_state EXCEPT ![t] = "K_RDY"]
       /\ blk_state' = [blk_state EXCEPT ![t] = "BLK_ABORT"]
       /\ StartPriChange(mutex_task_pri_reset(t, bl),
            [fn |-> "abort", task |-> t, obj |-> NULL, ticks |-> 0])
       /\ UNCHANGED <<suspend_count, blk_obj, call, priVars, obj_type,
                      mutexVars, count, g_tick_count, schedVars>>

krhino_task_wait_abort(t) == wait_abort_nonpend(t) \/ wait_abort_pend(t)

\* The last assignment of the abort and timeout paths: blk_obj = NULL.
pend_left ==
    /\ PriChanged("abort") \/ PriChanged("tick")
    /\ blk_obj' = [blk_obj EXCEPT ![op.task] = NULL]
    /\ pc' = IF op.fn = "tick" THEN "tick" ELSE "sched"
    /\ op' = NoOp
    /\ UNCHANGED <<task_state, suspend_count, blk_state, call, priVars, objVars,
                   mutexVars, count, tickVars, g_ready_queue, schedVars, chg>>

(***************************************************************************)
(* krhino_task_del: free the mutexes t holds, then unlink t.  The control  *)
(* block keeps its mutex_list and blk_obj, which task_create zeroes; they  *)
(* are emptied here.                                                       *)
(***************************************************************************)
krhino_task_del(t) ==
    /\ TaskCalls("task_del")
    /\ task_state[t] \notin Dead
    /\ ~(t = g_active_task /\ g_sched_lock > 0)
    /\ pc' = "mfree"
    /\ op' = [fn |-> "del", task |-> t, obj |-> NULL, ticks |-> 0]
    /\ UNCHANGED <<taskVars, priVars, objVars, mutexVars, count, tickVars,
                   g_ready_queue, schedVars, chg>>

\* Mutant: the new owner does not get the mutex on its list.
task_mutex_free_unlinked ==
    LET t == op.task
        m == Head(mutex_list[t])
        w == Head(blk_list[m])
    IN /\ pc = "mfree"
       /\ mutex_list[t] # <<>>
       /\ mutex_list' = [mutex_list EXCEPT ![t] = Tail(@)]
       /\ \/ /\ blk_list[m] # <<>>
             /\ pend_task_wakeup(w, m, "BLK_FINISH")
             /\ mutex_task' = [mutex_task EXCEPT ![m] = w]
             /\ UNCHANGED obj_type
          \/ /\ blk_list[m] = <<>>
             /\ mutex_task' = [mutex_task EXCEPT ![m] = NULL]
             /\ UNCHANGED <<taskVars, objVars, tickVars, g_ready_queue>>
       /\ UNCHANGED <<priVars, owner_nested, count, schedVars, ctlVars>>

\* One mutex of the deleted task goes to its first waiter, which keeps the
\* owner_nested of the deleted owner, or becomes free.
task_mutex_free ==
    LET t == op.task
        m == Head(mutex_list[t])
        w == Head(blk_list[m])
        Kept(u) == IF u = t THEN Tail(mutex_list[u]) ELSE mutex_list[u]
    IN /\ pc = "mfree"
       /\ mutex_list[t] # <<>>
       /\ \/ /\ blk_list[m] # <<>>
             /\ pend_task_wakeup(w, m, "BLK_FINISH")
             /\ mutex_task' = [mutex_task EXCEPT ![m] = w]
             /\ mutex_list' = [u \in AllTask |->
                                 IF u = w THEN <<m>> \o Kept(u) ELSE Kept(u)]
             /\ UNCHANGED <<obj_type, owner_nested>>
          \/ /\ blk_list[m] = <<>>
             /\ mutex_task' = [mutex_task EXCEPT ![m] = NULL]
             /\ mutex_list' = [mutex_list EXCEPT ![t] = Tail(@)]
             /\ UNCHANGED <<taskVars, objVars, owner_nested, tickVars,
                            g_ready_queue>>
       /\ UNCHANGED <<priVars, count, schedVars, ctlVars>>

task_del_unlink ==
    LET t == op.task
        o == blk_obj[t]
        bl == IF task_state[t] \in Pending
              THEN [blk_list EXCEPT ![o] = klist_rm(@, t)] ELSE blk_list
    IN /\ pc = "mfree"
       /\ mutex_list[t] = <<>>
       /\ g_ready_queue' = IF task_state[t] = "K_RDY"
                           THEN ready_list_rm(g_ready_queue, t)
                           ELSE g_ready_queue
       /\ tick_list_rm(t)
       /\ blk_list' = bl
       /\ task_state' = [task_state EXCEPT ![t] = "K_DELETED"]
       /\ blk_obj' = [blk_obj EXCEPT ![t] = NULL]
       /\ call' = [call EXCEPT ![t] = NULL]
       /\ pc' = "pri"
       /\ chg' = IF task_state[t] \in Pending
                 THEN mutex_task_pri_reset(t, bl) ELSE NoChg
       /\ UNCHANGED <<suspend_count, blk_state, priVars, obj_type, mutexVars,
                      count, g_tick_count, schedVars, op>>

\* Mutant: the tick counter stops at its maximum and does not wrap.
tick_proc_saturating ==
    /\ InIsr
    /\ g_tick_count' = IF g_tick_count + 1 < TickMod THEN g_tick_count + 1 ELSE g_tick_count
    /\ pc' = "tick"
    /\ UNCHANGED <<taskVars, priVars, objVars, mutexVars, count, tick_match,
                   g_tick_head, g_ready_queue, schedVars, op, chg>>

(***************************************************************************)
(* The tick interrupt: krhino_tick_proc runs tick_list_update, one step    *)
(* per expired task, then time_slice_update, then krhino_intrpt_exit.      *)
(***************************************************************************)
krhino_tick_proc ==
    /\ InIsr
    /\ g_tick_count' = (g_tick_count + 1) % TickMod
    /\ pc' = "tick"
    /\ UNCHANGED <<taskVars, priVars, objVars, mutexVars, count, tick_match,
                   g_tick_head, g_ready_queue, schedVars, op, chg>>

TickHeadExpired == g_tick_head # <<>> /\ Expired(Head(g_tick_head))

\* Mutant: a sleep that is over makes a suspended task ready.
tick_expire_sleep_ready ==
    LET t == Head(g_tick_head)
    IN /\ pc = "tick" /\ TickHeadExpired
       /\ task_state[t] \in Sleeping
       /\ blk_state' = [blk_state EXCEPT ![t] = "BLK_FINISH"]
       /\ task_state' = [task_state EXCEPT ![t] = "K_RDY"]
       /\ tick_list_rm(t)
       /\ g_ready_queue' = ready_list_add(g_ready_queue, t)
       /\ UNCHANGED <<suspend_count, blk_obj, call, priVars, objVars, mutexVars,
                      count, g_tick_count, schedVars, ctlVars>>

tick_expire_sleep ==
    LET t == Head(g_tick_head)
    IN /\ pc = "tick" /\ TickHeadExpired
       /\ task_state[t] \in Sleeping
       /\ blk_state' = [blk_state EXCEPT ![t] = "BLK_FINISH"]
       /\ task_state' = [task_state EXCEPT ![t] =
                           IF @ = "K_SLEEP" THEN "K_RDY" ELSE "K_SUSPENDED"]
       /\ tick_list_rm(t)
       /\ g_ready_queue' = IF task_state[t] = "K_SLEEP"
                           THEN ready_list_add(g_ready_queue, t)
                           ELSE g_ready_queue
       /\ UNCHANGED <<suspend_count, blk_obj, call, priVars, objVars, mutexVars,
                      count, g_tick_count, schedVars, ctlVars>>

tick_expire_pend ==
    LET t == Head(g_tick_head)
        o == blk_obj[t]
        bl == [blk_list EXCEPT ![o] = klist_rm(@, t)]
    IN /\ pc = "tick" /\ TickHeadExpired
       /\ task_state[t] \in Pending
       /\ tick_list_rm(t)
       /\ blk_list' = bl
       /\ g_ready_queue' = IF task_state[t] = "K_PEND"
                           THEN ready_list_add(g_ready_queue, t)
                           ELSE g_ready_queue
       /\ blk_state' = [blk_state EXCEPT ![t] = "BLK_TIMEOUT"]
       /\ task_state' = [task_state EXCEPT ![t] =
                           IF @ = "K_PEND" THEN "K_RDY" ELSE "K_SUSPENDED"]
       /\ StartPriChange(mutex_task_pri_reset(t, bl),
            [fn |-> "tick", task |-> t, obj |-> NULL, ticks |-> 0])
       /\ UNCHANGED <<suspend_count, blk_obj, call, priVars, obj_type,
                      mutexVars, count, g_tick_count, schedVars>>

tick_done ==
    /\ pc = "tick" /\ ~TickHeadExpired
    /\ time_slice_update(prio[g_active_task])
    /\ pc' = "sched"
    /\ UNCHANGED <<taskVars, priVars, objVars, mutexVars, count, tickVars,
                   schedVars, op, chg>>
=============================================================================
