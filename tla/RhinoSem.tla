------------------------------ MODULE RhinoSem -------------------------------
(***************************************************************************)
(* k_sem.c: counting semaphores.  Interrupt handlers may give.  peak_count *)
(* and the kobj_set notification are left out.                             *)
(***************************************************************************)
EXTENDS RhinoPend

ValidSem(s) == obj_type[s] = "RHINO_SEM_OBJ_TYPE"

\* The application initialises a semaphore nobody uses any more.
krhino_sem_create(s, n) ==
    /\ TaskCalls("sem_create")
    /\ obj_type[s] = "RHINO_OBJ_TYPE_NONE"
    /\ \A t \in Task : call[t] # s
    /\ obj_type' = [obj_type EXCEPT ![s] = "RHINO_SEM_OBJ_TYPE"]
    /\ blk_list' = [blk_list EXCEPT ![s] = <<>>]
    /\ count' = [count EXCEPT ![s] = n]
    /\ UNCHANGED <<taskVars, priVars, mutexVars, tickVars, g_ready_queue,
                   schedVars, ctlVars>>

krhino_sem_del(s) ==
    /\ TaskCalls("sem_del") /\ ValidSem(s)
    /\ obj_type' = [obj_type EXCEPT ![s] = "RHINO_OBJ_TYPE_NONE"]
    /\ pc' = "drain"
    /\ op' = [fn |-> "sem_del", task |-> g_active_task, obj |-> s, ticks |-> 0]
    /\ UNCHANGED <<taskVars, priVars, blk_list, mutexVars, count, tickVars,
                   g_ready_queue, schedVars, chg>>

\* Nobody waits: the token is kept, up to the overflow check.
sem_give_count(s) ==
    /\ Calls("sem_give") \/ Calls("sem_give_all")
    /\ ValidSem(s)
    /\ blk_list[s] = <<>>
    /\ count[s] < SemMax
    /\ count' = [count EXCEPT ![s] = @ + 1]
    /\ UNCHANGED <<taskVars, priVars, objVars, mutexVars, tickVars,
                   g_ready_queue, schedVars, ctlVars>>

\* Mutant: the woken waiter does not preempt.
sem_give_no_sched(s) ==
    /\ Calls("sem_give") /\ ValidSem(s)
    /\ blk_list[s] # <<>>
    /\ pend_task_wakeup(Head(blk_list[s]), s, "BLK_FINISH")
    /\ UNCHANGED <<priVars, obj_type, mutexVars, count, schedVars, ctlVars>>

sem_give_one(s) ==
    /\ Calls("sem_give") /\ ValidSem(s)
    /\ blk_list[s] # <<>>
    /\ pend_task_wakeup(Head(blk_list[s]), s, "BLK_FINISH")
    /\ pc' = "sched"
    /\ UNCHANGED <<priVars, obj_type, mutexVars, count, schedVars, op, chg>>

sem_give_all(s) ==
    /\ Calls("sem_give_all") /\ ValidSem(s)
    /\ blk_list[s] # <<>>
    /\ pc' = "drain"
    /\ op' = [fn |-> "give_all", task |-> NULL, obj |-> s, ticks |-> 0]
    /\ UNCHANGED <<taskVars, priVars, objVars, mutexVars, count, tickVars,
                   g_ready_queue, schedVars, chg>>

sem_take_count(s) ==
    /\ TaskCalls("sem_take") /\ ValidSem(s)
    /\ count[s] > 0
    /\ count' = [count EXCEPT ![s] = @ - 1]
    /\ UNCHANGED <<taskVars, priVars, objVars, mutexVars, tickVars,
                   g_ready_queue, schedVars, ctlVars>>

sem_take_pend(s, ticks) ==
    /\ TaskCalls("sem_take") /\ ValidSem(s)
    /\ count[s] = 0
    /\ g_sched_lock = 0
    /\ pend_to_blk_obj(s, g_active_task, ticks)
    /\ pc' = "sched"
    /\ UNCHANGED <<priVars, obj_type, mutexVars, count, schedVars, op, chg>>

krhino_sem_take(s, ticks) == sem_take_count(s) \/ sem_take_pend(s, ticks)

\* Mutant: the count is set although tasks wait.
sem_count_set_unchecked(s, n) ==
    /\ TaskCalls("sem_count_set") /\ ValidSem(s)
    /\ count' = [count EXCEPT ![s] = n]
    /\ UNCHANGED <<taskVars, priVars, objVars, mutexVars, tickVars,
                   g_ready_queue, schedVars, ctlVars>>

krhino_sem_count_set(s, n) ==
    /\ TaskCalls("sem_count_set") /\ ValidSem(s)
    /\ count[s] > 0 \/ blk_list[s] = <<>>
    /\ count' = [count EXCEPT ![s] = n]
    /\ UNCHANGED <<taskVars, priVars, objVars, mutexVars, tickVars,
                   g_ready_queue, schedVars, ctlVars>>
=============================================================================
