----------------------------- MODULE RhinoMutex ------------------------------
(***************************************************************************)
(* k_mutex.c: recursive mutexes with priority inheritance.  A call that    *)
(* returns an error leaves the state as it is and is not an action.        *)
(***************************************************************************)
EXTENDS RhinoPri

Valid(m) == obj_type[m] = "RHINO_MUTEX_OBJ_TYPE"

\* The application initialises a mutex nobody uses any more.
krhino_mutex_create(m) ==
    /\ TaskCalls("mutex_create")
    /\ obj_type[m] = "RHINO_OBJ_TYPE_NONE"
    /\ \A t \in Task : call[t] # m
    /\ obj_type' = [obj_type EXCEPT ![m] = "RHINO_MUTEX_OBJ_TYPE"]
    /\ blk_list' = [blk_list EXCEPT ![m] = <<>>]
    /\ mutex_task' = [mutex_task EXCEPT ![m] = NULL]
    /\ UNCHANGED <<taskVars, priVars, mutex_list, owner_nested, count,
                   tickVars, g_ready_queue, schedVars, ctlVars>>

mutex_lock_nested(m) ==
    /\ TaskCalls("mutex_lock") /\ Valid(m)
    /\ mutex_task[m] = g_active_task
    /\ owner_nested[m] < NestMax
    /\ owner_nested' = [owner_nested EXCEPT ![m] = @ + 1]
    /\ UNCHANGED <<taskVars, priVars, objVars, mutex_list, mutex_task, count,
                   tickVars, g_ready_queue, schedVars, ctlVars>>

mutex_lock_free(m) ==
    /\ TaskCalls("mutex_lock") /\ Valid(m)
    /\ mutex_task[m] = NULL
    /\ mutex_task' = [mutex_task EXCEPT ![m] = g_active_task]
    /\ mutex_list' = [mutex_list EXCEPT ![g_active_task] = <<m>> \o @]
    /\ owner_nested' = [owner_nested EXCEPT ![m] = 1]
    /\ UNCHANGED <<taskVars, priVars, objVars, count, tickVars, g_ready_queue,
                   schedVars, ctlVars>>

\* The mutex is taken: raise the owner to the caller's priority if it is lower.
mutex_lock_inherit(m, ticks) ==
    /\ TaskCalls("mutex_lock") /\ Valid(m)
    /\ mutex_task[m] \notin {NULL, g_active_task}
    /\ g_sched_lock = 0
    /\ StartPriChange(
         IF prio[g_active_task] < prio[mutex_task[m]]
         THEN [task |-> mutex_task[m], pri |-> prio[g_active_task]]
         ELSE NoChg,
         [fn |-> "lock", task |-> g_active_task, obj |-> m, ticks |-> ticks])
    /\ UNCHANGED <<taskVars, priVars, objVars, mutexVars, count, tickVars,
                   g_ready_queue, schedVars>>

mutex_lock_pend ==
    /\ PriChanged("lock")
    /\ pend_to_blk_obj(op.obj, op.task, op.ticks)
    /\ pc' = "sched" /\ op' = NoOp
    /\ UNCHANGED <<priVars, obj_type, mutexVars, count, schedVars, chg>>

krhino_mutex_lock(m, ticks) ==
    \/ mutex_lock_nested(m)
    \/ mutex_lock_free(m)
    \/ mutex_lock_inherit(m, ticks)

mutex_unlock_nested(m) ==
    /\ TaskCalls("mutex_lock") /\ Valid(m)
    /\ mutex_task[m] = g_active_task
    /\ owner_nested[m] > 1
    /\ owner_nested' = [owner_nested EXCEPT ![m] = @ - 1]
    /\ UNCHANGED <<taskVars, priVars, objVars, mutex_list, mutex_task, count,
                   tickVars, g_ready_queue, schedVars, ctlVars>>

\* The last unlock: m leaves the owner's list and the owner's priority drops
\* to what the mutexes it still holds ask for.
mutex_unlock_release(m) ==
    /\ TaskCalls("mutex_lock") /\ Valid(m)
    /\ mutex_task[m] = g_active_task
    /\ owner_nested[m] = 1
    /\ owner_nested' = [owner_nested EXCEPT ![m] = 0]
    /\ mutex_list' = [mutex_list EXCEPT ![g_active_task] = klist_rm(@, m)]
    /\ StartPriChange(mutex_release(g_active_task, m, blk_list),
         [fn |-> "unlock", task |-> g_active_task, obj |-> m, ticks |-> 0])
    /\ UNCHANGED <<taskVars, priVars, objVars, mutex_task, count, tickVars,
                   g_ready_queue, schedVars>>

krhino_mutex_unlock(m) == mutex_unlock_nested(m) \/ mutex_unlock_release(m)

\* Mutant: the last unlock does not clear mutex_task.
mutex_unlock_keep ==
    /\ PriChanged("unlock")
    /\ blk_list[op.obj] = <<>>
    /\ pc' = "run" /\ op' = NoOp
    /\ UNCHANGED <<taskVars, priVars, objVars, mutexVars, count, tickVars,
                   g_ready_queue, schedVars, chg>>

\* Nobody waits: the call returns without core_sched.
mutex_unlock_free ==
    /\ PriChanged("unlock")
    /\ blk_list[op.obj] = <<>>
    /\ mutex_task' = [mutex_task EXCEPT ![op.obj] = NULL]
    /\ pc' = "run" /\ op' = NoOp
    /\ UNCHANGED <<taskVars, priVars, objVars, mutex_list, owner_nested, count,
                   tickVars, g_ready_queue, schedVars, chg>>

\* Mutant: the waiter is woken and the mutex left free for whoever runs first.
mutex_unlock_wake_only ==
    LET m == op.obj
    IN /\ PriChanged("unlock")
       /\ blk_list[m] # <<>>
       /\ pend_task_wakeup(Head(blk_list[m]), m, "BLK_FINISH")
       /\ mutex_task' = [mutex_task EXCEPT ![m] = NULL]
       /\ pc' = "sched" /\ op' = NoOp
       /\ UNCHANGED <<mutex_list, owner_nested, priVars, obj_type, count,
                      schedVars, chg>>

\* The first waiter becomes the owner before it runs.
mutex_unlock_handover ==
    LET m == op.obj
        t == Head(blk_list[m])
    IN /\ PriChanged("unlock")
       /\ blk_list[m] # <<>>
       /\ pend_task_wakeup(t, m, "BLK_FINISH")
       /\ mutex_task' = [mutex_task EXCEPT ![m] = t]
       /\ mutex_list' = [mutex_list EXCEPT ![t] = <<m>> \o @]
       /\ owner_nested' = [owner_nested EXCEPT ![m] = 1]
       /\ pc' = "sched" /\ op' = NoOp
       /\ UNCHANGED <<priVars, obj_type, count, schedVars, chg>>

\* Mutant: the owner keeps the priority it inherited through a deleted mutex.
mutex_del_keep_pri(m) ==
    /\ TaskCalls("mutex_del") /\ Valid(m)
    /\ obj_type' = [obj_type EXCEPT ![m] = "RHINO_OBJ_TYPE_NONE"]
    /\ mutex_task' = [mutex_task EXCEPT ![m] = NULL]
    /\ owner_nested' = [owner_nested EXCEPT ![m] = 0]
    /\ mutex_list' = [t \in AllTask |-> klist_rm(mutex_list[t], m)]
    /\ StartPriChange(NoChg, [fn |-> "mutex_del", task |-> g_active_task,
                              obj |-> m, ticks |-> 0])
    /\ UNCHANGED <<taskVars, priVars, blk_list, count, tickVars,
                   g_ready_queue, schedVars>>

(***************************************************************************)
(* krhino_mutex_del (and krhino_mutex_dyn_del, which also frees the        *)
(* memory): the owner loses the mutex and what it inherited through it,    *)
(* then every waiter is woken with BLK_DEL.  mutex_task and owner_nested   *)
(* keep their values; the code never reads them again before               *)
(* mutex_create, and they are kept at NULL and 0.                          *)
(***************************************************************************)
krhino_mutex_del(m) ==
    LET owner == mutex_task[m]
        call_ == [fn |-> "mutex_del", task |-> g_active_task, obj |-> m, ticks |-> 0]
    IN /\ TaskCalls("mutex_del") /\ Valid(m)
       /\ obj_type' = [obj_type EXCEPT ![m] = "RHINO_OBJ_TYPE_NONE"]
       /\ mutex_task' = [mutex_task EXCEPT ![m] = NULL]
       /\ owner_nested' = [owner_nested EXCEPT ![m] = 0]
       /\ IF owner = NULL
          THEN StartPriChange(NoChg, call_) /\ UNCHANGED mutex_list
          ELSE /\ mutex_list' = [mutex_list EXCEPT ![owner] = klist_rm(@, m)]
               /\ StartPriChange(mutex_release(owner, m, blk_list), call_)
       /\ UNCHANGED <<taskVars, priVars, blk_list, count, tickVars,
                      g_ready_queue, schedVars>>

mutex_del_wake ==
    /\ PriChanged("mutex_del")
    /\ pc' = "drain"
    /\ UNCHANGED <<taskVars, priVars, objVars, mutexVars, count, tickVars,
                   g_ready_queue, schedVars, op, chg>>
=============================================================================
