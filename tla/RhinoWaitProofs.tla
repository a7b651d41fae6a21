--------------------------- MODULE RhinoWaitProofs ---------------------------
(***************************************************************************)
(* Waiting, for any number of tasks, objects and priorities: block lists   *)
(* stay in priority order while priorities change under the waiters, a     *)
(* mutex that changes hands goes to a waiter nobody outranks, a semaphore  *)
(* with a token has no waiter, and the tick list stays in order when the   *)
(* counter wraps.  Everything here stands on IInv.                         *)
(***************************************************************************)
EXTENDS RhinoKernelProofs

USE DEF taskVars, priVars, objVars, mutexVars, tickVars, schedVars, ctlVars

\* A priority is an integer.
LEMMA PrioInt == Prio \subseteq Int
BY PriAssumption DEF Prio

-----------------------------------------------------------------------------
(***************************************************************************)
(* The order of the block lists.                                           *)
(***************************************************************************)
WaitersSorted == \A o \in Obj : Sorted(blk_list[o], prio)

\* A step that changes neither the lists nor the priority of a waiter.
LEMMA OrderUntouched ==
    ASSUME IInv, WaitersSorted, UNCHANGED blk_list,
           \A t \in AllTask : task_state[t] \in Pending => prio'[t] = prio[t]
    PROVE  WaitersSorted'
<1>. SUFFICES ASSUME NEW o \in Obj PROVE Sorted(blk_list[o], prio')
  BY DEF WaitersSorted
<1>1. blk_list[o] \in Seq(AllTask)
  BY DEF IInv, TypeOK
<1>2. \A u \in ToSet(blk_list[o]) : prio'[u] = prio[u]
  BY <1>1, ToSetProps DEF IInv, WaitersListed
<1>. QED BY <1>1, <1>2, SortedFrame DEF WaitersSorted

\* A step that takes a task off a list.
LEMMA OrderRm ==
    ASSUME IInv, WaitersSorted, NEW o, NEW t,
           blk_list' = [blk_list EXCEPT ![o] = klist_rm(@, t)], UNCHANGED prio
    PROVE  WaitersSorted'
<1>. SUFFICES ASSUME NEW w \in Obj PROVE Sorted(blk_list'[w], prio)
  BY DEF WaitersSorted
<1>1. blk_list \in [Obj -> Seq(AllTask)]
  BY DEF IInv, TypeOK
<1>2. CASE w # o
  BY <1>1, <1>2 DEF WaitersSorted
<1>3. CASE w = o
  <2>1. blk_list'[w] = klist_rm(blk_list[w], t) /\ blk_list[w] \in Seq(AllTask)
    BY <1>1, <1>3
  <2>2. Sorted(blk_list[w], prio)
    BY DEF WaitersSorted
  <2>. QED BY <2>1, <2>2, SortedRm
<1>. QED BY <1>2, <1>3

\* A step that puts one list in order for the new priorities.
LEMMA OrderSet ==
    ASSUME IInv, WaitersSorted, NEW o \in Obj, NEW s,
           blk_list' = [blk_list EXCEPT ![o] = s], Sorted(s, prio'),
           \A t \in AllTask : (task_state[t] \in Pending /\ blk_obj[t] # o) =>
                                 prio'[t] = prio[t]
    PROVE  WaitersSorted'
<1>. SUFFICES ASSUME NEW w \in Obj PROVE Sorted(blk_list'[w], prio')
  BY DEF WaitersSorted
<1>1. blk_list \in [Obj -> Seq(AllTask)]
  BY DEF IInv, TypeOK
<1>2. CASE w # o
  <2>1. blk_list'[w] = blk_list[w] /\ blk_list[w] \in Seq(AllTask)
    BY <1>1, <1>2
  <2>2. \A u \in ToSet(blk_list[w]) : prio'[u] = prio[u]
    BY <1>2, <2>1, ToSetProps DEF IInv, WaitersListed
  <2>3. Sorted(blk_list[w], prio)
    BY DEF WaitersSorted
  <2>. QED BY <2>1, <2>2, <2>3, SortedFrame
<1>3. CASE w = o
  BY <1>1, <1>3
<1>. QED BY <1>2, <1>3

\* A step that lets a task wait.
LEMMA OrderPend ==
    ASSUME IInv, WaitersSorted, NEW o \in Obj, NEW t \in AllTask, NEW timeout,
           pend_to_blk_obj(o, t, timeout), UNCHANGED prio
    PROVE  WaitersSorted'
<1>1. /\ blk_list[o] \in Seq(AllTask) /\ prio \in [AllTask -> Int]
      /\ Sorted(blk_list[o], prio)
  BY PrioInt DEF IInv, TypeOK, WaitersSorted
<1>2. Sorted(pend_list_add(blk_list[o], t, prio), prio)
  BY <1>1, SortedAdd
<1>3. blk_list' = [blk_list EXCEPT ![o] = pend_list_add(blk_list[o], t, prio)]
  BY DEF pend_to_blk_obj
<1>. QED BY <1>2, <1>3, OrderSet

\* A waiter whose priority changes goes to its new place.
LEMMA OrderPriChange ==
    ASSUME IInv, WaitersSorted, task_pri_change
    PROVE  WaitersSorted'
<1>. DEFINE t == chg.task
            pr == [prio EXCEPT ![t] = chg.pri]
<1>0. t \in AllTask /\ pr \in [AllTask -> Prio] /\ prio \in [AllTask -> Prio]
  BY Consts DEF task_pri_change, IInv, TypeOK, CallOK
<1>1. CASE pri_change_same
  BY <1>1, OrderUntouched DEF pri_change_same
<1>2. CASE pri_change_ready \/ pri_change_idle
  <2>1. UNCHANGED blk_list /\ prio' = pr /\ task_state[t] \notin Pending
    BY <1>2, StateNames DEF pri_change_ready, pri_change_idle
  <2>2. \A u \in AllTask : task_state[u] \in Pending => prio'[u] = prio[u]
    BY <1>0, <2>1
  <2>. QED BY <2>1, <2>2, OrderUntouched
<1>3. CASE pri_change_pend
  <2>. DEFINE o == blk_obj[t]
              s == blk_list[o]
              r == klist_rm(s, t)
  <2>1. /\ task_state[t] \in Pending /\ prio' = pr
        /\ blk_list' = [blk_list EXCEPT ![o] = pend_list_reorder(s, t, pr)]
    BY <1>3 DEF pri_change_pend
  <2>2. /\ o \in Obj /\ s \in Seq(AllTask) /\ IsInjective(s)
        /\ Sorted(s, prio)
    BY <1>0, <2>1 DEF IInv, WaitersListed, TypeOK, WaitersSorted
  <2>. HIDE DEF s
  <2>3. r \in Seq(AllTask) /\ ToSet(r) = ToSet(s) \ {t} /\ Sorted(r, prio)
    BY <2>2, KlistRm, SortedRm
  <2>. HIDE DEF r
  <2>4. \A u \in ToSet(r) : pr[u] = prio[u]
    <3>1. ToSet(r) \subseteq AllTask
      BY <2>3, ToSetProps
    <3>. QED BY <1>0, <2>3, <3>1
  <2>. HIDE DEF pr, t
  <2>5. Sorted(r, pr)
    BY <2>3, <2>4, SortedFrame
  <2>6. Sorted(pend_list_add(r, t, pr), pr)
    <3>1. pr \in [AllTask -> Int] /\ t \in AllTask
      BY <1>0, PrioInt
    <3>. QED BY <2>3, <2>5, <3>1, SortedAdd
  <2>7. Sorted(pend_list_reorder(s, t, pr), prio')
    BY <2>1, <2>6 DEF pend_list_reorder, r
  <2>8. \A u \in AllTask : (task_state[u] \in Pending /\ blk_obj[u] # o) => prio'[u] = prio[u]
    BY <1>0, <2>1 DEF pr
  <2>. HIDE DEF o
  <2>. QED BY <2>1, <2>2, <2>7, <2>8, OrderSet
<1>. QED BY <1>1, <1>2, <1>3 DEF task_pri_change

\* Every step keeps the block lists in order.
LEMMA NextSorted == IInv /\ WaitersSorted /\ [Next]_vars => WaitersSorted'
<1>. SUFFICES ASSUME IInv, WaitersSorted, [Next]_vars PROVE WaitersSorted'
  OBVIOUS
<1>0. Mutex \subseteq Obj /\ Sem \subseteq Obj /\ Task \subseteq AllTask
  BY Consts
<1>1. ASSUME UNCHANGED <<blk_list, prio>> PROVE WaitersSorted'
  BY <1>1 DEF WaitersSorted
<1>2. CASE KernelStep
  <2>1. CASE mutex_lock_pend
    <3>1. op.obj \in Obj /\ op.task \in AllTask
      BY <1>0, <2>1 DEF mutex_lock_pend, PriChanged, IInv, CallOK
    <3>2. pend_to_blk_obj(op.obj, op.task, op.ticks) /\ UNCHANGED prio
      BY <2>1 DEF mutex_lock_pend
    <3>. QED BY <3>1, <3>2, OrderPend
  <2>2. CASE drain_step
    BY <2>2, OrderRm DEF drain_step, pend_task_wakeup
  <2>3. CASE mutex_unlock_handover
    BY <2>3, OrderRm DEF mutex_unlock_handover, pend_task_wakeup
  <2>4. CASE task_mutex_free
    <3>. DEFINE m == Head(mutex_list[op.task])
                w == Head(blk_list[m])
    <3>1. \/ pend_task_wakeup(w, m, "BLK_FINISH")
          \/ UNCHANGED blk_list
      BY <2>4 DEF task_mutex_free
    <3>2. UNCHANGED prio
      BY <2>4 DEF task_mutex_free
    <3>. HIDE DEF m, w
    <3>3. CASE pend_task_wakeup(w, m, "BLK_FINISH")
      BY <3>2, <3>3, OrderRm DEF pend_task_wakeup
    <3>. QED BY <1>1, <3>1, <3>2, <3>3
  <2>5. CASE task_del_unlink
    <3>1. UNCHANGED prio
      BY <2>5 DEF task_del_unlink
    <3>2. CASE task_state[op.task] \in Pending
      BY <2>5, <3>1, <3>2, OrderRm DEF task_del_unlink
    <3>3. CASE task_state[op.task] \notin Pending
      BY <1>1, <2>5, <3>1, <3>3 DEF task_del_unlink
    <3>. QED BY <3>2, <3>3
  <2>6. CASE tick_expire_pend
    BY <2>6, OrderRm DEF tick_expire_pend
  <2>7. CASE \/ mutex_unlock_free \/ mutex_del_wake \/ drain_done \/ pri_change_done
             \/ pend_left \/ tick_expire_sleep \/ tick_done
    BY <1>1, <2>7
       DEF mutex_unlock_free, mutex_del_wake, drain_done, pri_change_done, pend_left,
           tick_expire_sleep, tick_done
  <2>. QED BY <1>2, <2>1, <2>2, <2>3, <2>4, <2>5, <2>6, <2>7, OrderPriChange DEF KernelStep
<1>3. ASSUME NEW o \in Obj, blk_list' = [blk_list EXCEPT ![o] = <<>>], UNCHANGED prio
      PROVE  WaitersSorted'
  <2>1. Sorted(<<>>, prio')
    BY DEF Sorted
  <2>. QED BY <1>3, <2>1, OrderSet
<1>4. CASE MutexCall
  BY <1>0, <1>1, <1>3, <1>4
     DEF MutexCall, krhino_mutex_create, krhino_mutex_lock, krhino_mutex_unlock,
         krhino_mutex_del, mutex_lock_nested, mutex_lock_free, mutex_lock_inherit,
         mutex_unlock_nested, mutex_unlock_release
<1>5. ASSUME NEW s \in Sem, NEW ticks \in Timeouts, sem_take_pend(s, ticks)
      PROVE  WaitersSorted'
  <2>1. pend_to_blk_obj(s, g_active_task, ticks) /\ UNCHANGED prio
    BY <1>5 DEF sem_take_pend
  <2>2. g_active_task \in AllTask
    BY DEF IInv, TypeOK
  <2>. QED BY <1>0, <2>1, <2>2, OrderPend
<1>6. ASSUME NEW s \in Sem, sem_give_one(s)
      PROVE  WaitersSorted'
  BY <1>6, OrderRm DEF sem_give_one, pend_task_wakeup
<1>7. CASE SemCall
  BY <1>0, <1>1, <1>3, <1>5, <1>6, <1>7
     DEF SemCall, krhino_sem_create, krhino_sem_count_set, krhino_sem_del,
         sem_give_count, sem_give_all, krhino_sem_take, sem_take_count
<1>8. ASSUME NEW t \in Task, NEW autorun \in BOOLEAN, krhino_task_create(t, autorun)
      PROVE  WaitersSorted'
  <2>1. UNCHANGED blk_list /\ prio' = [prio EXCEPT ![t] = BasePri[t]]
        /\ task_state[t] \notin Pending
    BY <1>8, StateNames DEF krhino_task_create, Dead, Pending
  <2>2. \A u \in AllTask : task_state[u] \in Pending => prio'[u] = prio[u]
    BY <2>1 DEF IInv, TypeOK
  <2>. QED BY <2>1, <2>2, OrderUntouched
<1>9. ASSUME NEW t \in Task, wait_abort_pend(t)
      PROVE  WaitersSorted'
  BY <1>9, OrderRm DEF wait_abort_pend
<1>10. CASE TaskCall
  BY <1>1, <1>8, <1>9, <1>10
     DEF TaskCall, krhino_task_suspend, krhino_task_resume, krhino_task_pri_change,
         krhino_task_wait_abort, wait_abort_nonpend, krhino_task_del
<1>11. CASE CpuCall \/ core_sched \/ pend_state_end_proc \/ krhino_tick_proc \/ UNCHANGED vars
  BY <1>1, <1>11
     DEF CpuCall, krhino_task_sleep, krhino_task_yield, krhino_sched_disable,
         krhino_sched_enable, core_sched, pend_state_end_proc, krhino_tick_proc, vars
<1>. QED BY <1>2, <1>4, <1>7, <1>10, <1>11 DEF Next

\* The waiters of every object stand in the order of their priorities, in every
\* state: also in the middle of task_pri_change.
THEOREM WaitersInOrder == Spec => []WaitersSorted
<1>1. Init => WaitersSorted
  BY DEF Init, WaitersSorted, Sorted
<1>2. IInv /\ WaitersSorted /\ [Next]_vars => WaitersSorted'
  BY NextSorted
<1>. QED BY <1>1, <1>2, KernelInvariant, PTL DEF Spec

\* The block list of an object holds exactly the tasks that wait for it, once,
\* the most urgent first, for any number of tasks, objects and priorities.
THEOREM BlockLists == Spec => []BlkListOK
<1>1. IInv /\ WaitersSorted => BlkListOK
  <2>. SUFFICES ASSUME IInv, WaitersSorted, NEW o \in Obj
                PROVE  /\ ToSet(blk_list[o]) =
                            {t \in AllTask : task_state[t] \in Pending /\ blk_obj[t] = o}
                       /\ IsInjective(blk_list[o])
                       /\ \A i, j \in 1 .. Len(blk_list[o]) :
                            i < j => prio[blk_list[o][i]] <= prio[blk_list[o][j]]
    BY DEF BlkListOK
  <2>1. ToSet(blk_list[o]) \subseteq AllTask
    BY ToSetProps DEF IInv, TypeOK
  <2>. QED BY <2>1 DEF IInv, WaitersListed, WaitersSorted, Sorted
<1>. QED BY <1>1, WaitersInOrder, KernelInvariant, PTL

\* The first waiter of a mutex is one no other waiter outranks.
LEMMA FirstIsHighest ==
    ASSUME IInv, WaitersSorted, NEW o \in Obj, blk_list[o] # <<>>
    PROVE  /\ Head(blk_list[o]) \in ToSet(blk_list[o])
           /\ \A t \in ToSet(blk_list[o]) : prio[Head(blk_list[o])] <= prio[t]
<1>1. /\ blk_list[o] \in Seq(AllTask) /\ Sorted(blk_list[o], prio)
      /\ prio \in [AllTask -> Int]
  BY PrioInt DEF IInv, TypeOK, WaitersSorted
<1>. QED BY <1>1, HeadSorted

\* A mutex that changes hands goes to a waiter no other waiter outranks, by
\* krhino_mutex_unlock and by the deletion of its owner.
THEOREM HandoverHighest == Spec => HandoverToHighest
<1>. DEFINE Handover(m) ==
       (mutex_task[m] # NULL /\ mutex_task'[m] \notin {NULL, mutex_task[m]}) =>
           /\ mutex_task'[m] \in ToSet(blk_list[m])
           /\ \A t \in ToSet(blk_list[m]) : prio[mutex_task'[m]] <= prio[t]
<1>1. IInv /\ WaitersSorted /\ [Next]_vars => [\A m \in Mutex : Handover(m)]_vars
  <2>. SUFFICES ASSUME IInv, WaitersSorted, Next, NEW m \in Mutex PROVE Handover(m)
    OBVIOUS
  <2>0. mutex_task \in [Mutex -> AllTask \cup {NULL}] /\ m \in Obj
    BY Consts DEF IInv, TypeOK
  <2>1. ASSUME UNCHANGED mutex_task PROVE Handover(m)
    BY <2>1
  <2>2. ASSUME NEW o, NEW t, mutex_task' = [mutex_task EXCEPT ![o] = t], t = NULL
        PROVE  Handover(m)
    BY <2>0, <2>2
  <2>3. ASSUME NEW o, mutex_task' = [mutex_task EXCEPT ![o] = Head(blk_list[o])],
               blk_list[o] # <<>>
        PROVE  Handover(m)
    <3>1. CASE o = m
      BY <2>0, <2>3, <3>1, FirstIsHighest
    <3>. QED BY <2>0, <2>3, <3>1
  <2>4. CASE KernelStep
    <3>1. CASE task_mutex_free
      <4>. DEFINE o == Head(mutex_list[op.task])
      <4>1. \/ mutex_task' = [mutex_task EXCEPT ![o] = Head(blk_list[o])] /\ blk_list[o] # <<>>
            \/ mutex_task' = [mutex_task EXCEPT ![o] = NULL]
        BY <3>1 DEF task_mutex_free
      <4>. HIDE DEF o
      <4>. QED BY <2>2, <2>3, <4>1
    <3>2. CASE mutex_unlock_handover
      BY <2>3, <3>2 DEF mutex_unlock_handover
    <3>3. CASE mutex_unlock_free
      BY <2>2, <3>3 DEF mutex_unlock_free
    <3>. HIDE DEF Handover
    <3>4. CASE \/ task_pri_change \/ mutex_lock_pend \/ mutex_del_wake \/ drain_step
               \/ drain_done \/ pri_change_done \/ pend_left \/ task_del_unlink
               \/ tick_expire_sleep \/ tick_expire_pend \/ tick_done
      BY <2>1, <3>4
         DEF task_pri_change, mutex_lock_pend, mutex_del_wake, drain_step, drain_done,
             pri_change_done, pend_left, task_del_unlink, tick_expire_sleep,
             tick_expire_pend, tick_done
    <3>. QED BY <2>4, <3>1, <3>2, <3>3, <3>4 DEF KernelStep
  <2>5. CASE MutexCall
    <3>1. ASSUME NEW o \in Mutex, mutex_lock_free(o) PROVE Handover(m)
      BY <2>0, <3>1 DEF mutex_lock_free
    <3>2. ASSUME NEW o \in Mutex, krhino_mutex_create(o) \/ krhino_mutex_del(o)
          PROVE  Handover(m)
      BY <2>2, <3>2 DEF krhino_mutex_create, krhino_mutex_del
    <3>. HIDE DEF Handover
    <3>. QED BY <2>1, <2>5, <3>1, <3>2
             DEF MutexCall, krhino_mutex_lock, krhino_mutex_unlock, mutex_lock_nested,
                 mutex_lock_inherit, mutex_unlock_nested, mutex_unlock_release
  <2>. HIDE DEF Handover
  <2>6. CASE SemCall
    BY <2>1, <2>6
       DEF SemCall, krhino_sem_create, krhino_sem_count_set, krhino_sem_del,
           sem_give_count, sem_give_one, sem_give_all, krhino_sem_take, sem_take_count,
           sem_take_pend
  <2>7. CASE TaskCall
    BY <2>1, <2>7
       DEF TaskCall, krhino_task_create, krhino_task_suspend, krhino_task_resume,
           krhino_task_pri_change, krhino_task_wait_abort, wait_abort_nonpend,
           wait_abort_pend, krhino_task_del
  <2>8. CASE CpuCall \/ core_sched \/ pend_state_end_proc \/ krhino_tick_proc
    BY <2>1, <2>8
       DEF CpuCall, krhino_task_sleep, krhino_task_yield, krhino_sched_disable,
           krhino_sched_enable, core_sched, pend_state_end_proc, krhino_tick_proc
  <2>. QED BY <2>4, <2>5, <2>6, <2>7, <2>8 DEF Next
<1>. HIDE DEF Handover
<1>2. HandoverToHighest <=> [][\A m \in Mutex : Handover(m)]_vars
  BY PTL DEF HandoverToHighest, Handover
<1>. QED BY <1>1, <1>2, KernelInvariant, WaitersInOrder, PTL DEF Spec

-----------------------------------------------------------------------------
(***************************************************************************)
(* The tokens of the semaphores.  The argument needs IInv where a block    *)
(* list changes on behalf of another call: a waiter whose priority changes *)
(* is already on the list, and krhino_mutex_lock waits on a mutex.         *)
(***************************************************************************)
\* A step that takes or leaves no token and puts nobody on the block list of a
\* semaphore that has none.
LEMMA TokensKept ==
    ASSUME SemNoLostToken, UNCHANGED count,
           \A s \in Sem : blk_list[s] = <<>> => blk_list'[s] = <<>>
    PROVE  SemNoLostToken'
BY DEF SemNoLostToken

\* Taking a task off a block list keeps an empty list empty.
LEMMA RmKeepsEmpty ==
    ASSUME NEW o, NEW t, blk_list \in [Obj -> Seq(AllTask)],
           blk_list' = [blk_list EXCEPT ![o] = klist_rm(@, t)]
    PROVE  \A s \in Obj : blk_list[s] = <<>> => blk_list'[s] = <<>>
<1>1. klist_rm(<<>>, t) = <<>>
  BY DEF klist_rm
<1>. QED BY <1>1

\* A step that leaves the block lists and the counts alone.
LEMMA TokensUntouched ==
    ASSUME SemNoLostToken, UNCHANGED <<blk_list, count>>
    PROVE  SemNoLostToken'
BY DEF SemNoLostToken

\* The steps with interrupts disabled keep every token.
LEMMA KernelStepTokens ==
    ASSUME IInv, SemNoLostToken, KernelStep
    PROVE  SemNoLostToken'
<1>0. blk_list \in [Obj -> Seq(AllTask)] /\ Sem \subseteq Obj /\ Mutex \cap Sem = {}
  BY TasksAssumption DEF IInv, TypeOK, Obj
<1>1. CASE task_pri_change
  <2>1. UNCHANGED count
    BY <1>1 DEF task_pri_change
  <2>2. CASE UNCHANGED blk_list
    BY <2>1, <2>2, TokensUntouched
  <2>3. CASE pri_change_pend
    <3>. DEFINE t == chg.task
                o == blk_obj[t]
    <3>1. t \in AllTask /\ task_state[t] \in Pending
      BY <1>1, <2>3 DEF task_pri_change, pri_change_pend, IInv, TypeOK
    <3>2. o \in Obj /\ blk_list[o] # <<>>
      BY <3>1 DEF IInv, WaitersListed, ToSet
    <3>3. \A s \in Obj : s # o => blk_list'[s] = blk_list[s]
      BY <1>0, <2>3 DEF pri_change_pend
    <3>. QED BY <1>0, <2>1, <3>2, <3>3, TokensKept
  <2>. QED BY <1>1, <2>2, <2>3
           DEF task_pri_change, pri_change_same, pri_change_ready, pri_change_idle
<1>2. CASE mutex_lock_pend
  <2>1. op.obj \in Mutex /\ UNCHANGED count
    BY <1>2 DEF mutex_lock_pend, PriChanged, IInv, CallOK
  <2>2. \A s \in Obj : s # op.obj => blk_list'[s] = blk_list[s]
    BY <1>0, <1>2 DEF mutex_lock_pend, pend_to_blk_obj
  <2>. QED BY <1>0, <2>1, <2>2, TokensKept
<1>3. CASE drain_step
  <2>1. UNCHANGED count /\ \A s \in Sem : blk_list[s] = <<>> => blk_list'[s] = <<>>
    BY <1>0, <1>3, RmKeepsEmpty DEF drain_step, pend_task_wakeup
  <2>. QED BY <2>1, TokensKept
<1>4. CASE mutex_unlock_handover
  <2>1. UNCHANGED count /\ \A s \in Sem : blk_list[s] = <<>> => blk_list'[s] = <<>>
    BY <1>0, <1>4, RmKeepsEmpty DEF mutex_unlock_handover, pend_task_wakeup
  <2>. QED BY <2>1, TokensKept
<1>5. CASE task_mutex_free
  <2>1. UNCHANGED count
    BY <1>5 DEF task_mutex_free
  <2>2. CASE UNCHANGED blk_list
    BY <2>1, <2>2, TokensUntouched
  <2>3. CASE ~ UNCHANGED blk_list
    <3>. DEFINE m == Head(mutex_list[op.task])
                w == Head(blk_list[m])
    <3>1. pend_task_wakeup(w, m, "BLK_FINISH")
      BY <1>5, <2>3 DEF task_mutex_free
    <3>. HIDE DEF m, w
    <3>2. \A s \in Sem : blk_list[s] = <<>> => blk_list'[s] = <<>>
      BY <1>0, <3>1, RmKeepsEmpty DEF pend_task_wakeup
    <3>. QED BY <2>1, <3>2, TokensKept
  <2>. QED BY <2>2, <2>3
<1>6. CASE task_del_unlink
  <2>1. UNCHANGED count
    BY <1>6 DEF task_del_unlink
  <2>2. CASE task_state[op.task] \in Pending
    BY <1>0, <1>6, <2>1, <2>2, RmKeepsEmpty, TokensKept DEF task_del_unlink
  <2>3. CASE task_state[op.task] \notin Pending
    BY <1>6, <2>1, <2>3, TokensUntouched DEF task_del_unlink
  <2>. QED BY <2>2, <2>3
<1>7. CASE tick_expire_pend
  <2>1. UNCHANGED count /\ \A s \in Sem : blk_list[s] = <<>> => blk_list'[s] = <<>>
    BY <1>0, <1>7, RmKeepsEmpty DEF tick_expire_pend
  <2>. QED BY <2>1, TokensKept
<1>8. CASE \/ mutex_unlock_free \/ mutex_del_wake \/ drain_done \/ pri_change_done
           \/ pend_left \/ tick_expire_sleep \/ tick_done
  BY <1>8, TokensUntouched
     DEF mutex_unlock_free, mutex_del_wake, drain_done, pri_change_done, pend_left,
         tick_expire_sleep, tick_done
<1>. QED BY <1>1, <1>2, <1>3, <1>4, <1>5, <1>6, <1>7, <1>8 DEF KernelStep

\* The semaphore calls leave a token only where nobody waits, and let a task
\* wait only where there is none.
LEMMA SemCallTokens ==
    ASSUME IInv, SemNoLostToken, SemCall
    PROVE  SemNoLostToken'
<1>0. /\ blk_list \in [Obj -> Seq(AllTask)] /\ count \in [Sem -> 0 .. SemMax]
      /\ Sem \subseteq Obj
  BY DEF IInv, TypeOK, Obj
<1>1. PICK s \in Sem :
        \/ \E n \in 0 .. SemMax : krhino_sem_create(s, n) \/ krhino_sem_count_set(s, n)
        \/ krhino_sem_del(s)
        \/ sem_give_count(s) \/ sem_give_one(s) \/ sem_give_all(s)
        \/ \E ticks \in Timeouts : krhino_sem_take(s, ticks)
  BY DEF SemCall
<1>2. ASSUME NEW n \in 0 .. SemMax, krhino_sem_create(s, n)
      PROVE  SemNoLostToken'
  BY <1>0, <1>2 DEF krhino_sem_create, SemNoLostToken
<1>3. ASSUME NEW n \in 0 .. SemMax, krhino_sem_count_set(s, n)
      PROVE  SemNoLostToken'
  BY <1>0, <1>3 DEF krhino_sem_count_set, SemNoLostToken
<1>4. CASE sem_give_count(s)
  BY <1>0, <1>4 DEF sem_give_count, SemNoLostToken
<1>5. CASE sem_give_one(s)
  <2>1. UNCHANGED count /\ \A u \in Sem : blk_list[u] = <<>> => blk_list'[u] = <<>>
    BY <1>0, <1>5, RmKeepsEmpty DEF sem_give_one, pend_task_wakeup
  <2>. QED BY <2>1, TokensKept
<1>6. CASE krhino_sem_del(s) \/ sem_give_all(s)
  BY <1>6, TokensUntouched DEF krhino_sem_del, sem_give_all
<1>7. ASSUME NEW ticks \in Timeouts, sem_take_pend(s, ticks)
      PROVE  SemNoLostToken'
  <2>1. count[s] = 0 /\ UNCHANGED count
    BY <1>7 DEF sem_take_pend
  <2>2. \A u \in Sem : u # s => blk_list'[u] = blk_list[u]
    BY <1>0, <1>7 DEF sem_take_pend, pend_to_blk_obj
  <2>. QED BY <2>1, <2>2 DEF SemNoLostToken
<1>8. CASE sem_take_count(s)
  BY <1>0, <1>8 DEF sem_take_count, SemNoLostToken
<1>. QED BY <1>1, <1>2, <1>3, <1>4, <1>5, <1>6, <1>7, <1>8 DEF krhino_sem_take

\* The other calls do not touch a semaphore's tokens, and only krhino_mutex_create
\* and krhino_task_wait_abort touch a block list.
LEMMA OtherCallTokens ==
    ASSUME IInv, SemNoLostToken, MutexCall \/ TaskCall \/ CpuCall
    PROVE  SemNoLostToken'
<1>0. blk_list \in [Obj -> Seq(AllTask)] /\ Sem \subseteq Obj /\ Mutex \cap Sem = {}
  BY TasksAssumption DEF IInv, TypeOK, Obj
<1>1. ASSUME NEW m \in Mutex, krhino_mutex_create(m)
      PROVE  SemNoLostToken'
  BY <1>0, <1>1, TokensKept DEF krhino_mutex_create
<1>2. ASSUME NEW t \in Task, wait_abort_pend(t)
      PROVE  SemNoLostToken'
  <2>1. UNCHANGED count /\ \A s \in Sem : blk_list[s] = <<>> => blk_list'[s] = <<>>
    BY <1>0, <1>2, RmKeepsEmpty DEF wait_abort_pend
  <2>. QED BY <2>1, TokensKept
<1>3. CASE MutexCall
  BY <1>1, <1>3, TokensUntouched
     DEF MutexCall, krhino_mutex_lock, krhino_mutex_unlock, krhino_mutex_del,
         mutex_lock_nested, mutex_lock_free, mutex_lock_inherit,
         mutex_unlock_nested, mutex_unlock_release
<1>4. CASE TaskCall
  BY <1>2, <1>4, TokensUntouched
     DEF TaskCall, krhino_task_create, krhino_task_suspend, krhino_task_resume,
         krhino_task_pri_change, krhino_task_wait_abort, wait_abort_nonpend,
         krhino_task_del
<1>5. CASE CpuCall
  BY <1>5, TokensUntouched
     DEF CpuCall, krhino_task_sleep, krhino_task_yield, krhino_sched_disable,
         krhino_sched_enable
<1>. QED BY <1>3, <1>4, <1>5

\* No lost token: whatever tasks and interrupt handlers do, a semaphore that
\* holds a token has no waiter.
THEOREM SemTokens == Spec => []SemNoLostToken
<1>1. Init => SemNoLostToken
  BY DEF Init, SemNoLostToken
<1>2. IInv /\ SemNoLostToken /\ [Next]_vars => SemNoLostToken'
  <2>. SUFFICES ASSUME IInv, SemNoLostToken, [Next]_vars PROVE SemNoLostToken'
    OBVIOUS
  <2>1. CASE core_sched \/ pend_state_end_proc \/ krhino_tick_proc \/ UNCHANGED vars
    BY <2>1, TokensUntouched DEF core_sched, pend_state_end_proc, krhino_tick_proc, vars
  <2>. QED BY <2>1, KernelStepTokens, SemCallTokens, OtherCallTokens DEF Next
<1>. QED BY <1>1, <1>2, KernelInvariant, PTL DEF Spec

-----------------------------------------------------------------------------
(***************************************************************************)
(* The tick list.  tick_match and g_tick_count wrap, so the order is that  *)
(* of the ticks left, modulo the width of tick_t.  It needs every finite   *)
(* timeout below half the tick range: a longer one counts as expired.      *)
(***************************************************************************)
\* The ticks every task has left.
Left == [t \in AllTask |-> TickLeft(t)]

\* The tick handler runs, or task_pri_change on behalf of it.
Ticking == pc = "tick" \/ (pc = "pri" /\ op.fn = "tick")

\* The parts of TickListOK that hold in the tick handler too, and no task that
\* is later than the signed comparison of tick_list_update can tell.
TickOrder ==
    /\ IsInjective(g_tick_head)
    /\ \A t \in ToSet(g_tick_head) : task_state[t] \in Sleeping \cup Pending
    /\ \A t \in AllTask : task_state[t] \in Sleeping => t \in ToSet(g_tick_head)
    /\ Sorted(g_tick_head, Left)
    /\ \A t \in ToSet(g_tick_head) : Left[t] < TickMod \div 2

\* Nobody on the list has expired.
OnTime == \A t \in ToSet(g_tick_head) : Left[t] > 0

TickInv ==
    /\ TickOrder
    /\ ~Ticking => OnTime
    /\ pc = "pri" /\ op.fn = "lock" => op.ticks \in Timeouts

\* The modulus.
LEMMA TickArith ==
    /\ \A x \in Int : 0 <= x /\ x < TickMod => x % TickMod = x
    /\ \A x \in Int : -TickMod <= x /\ x < 0 => x % TickMod = x + TickMod
    /\ \A x \in Int : TickMod <= x /\ x < 2 * TickMod => x % TickMod = x - TickMod
    /\ TickMod \in Nat /\ TickMod >= 4 /\ TickMod \div 2 \in Nat
    /\ TickMod \div 2 >= 2 /\ 2 * (TickMod \div 2) <= TickMod
<1>1. TickMod \in Nat /\ TickMod >= 4
  BY BoundsAssumption
<1>2. ASSUME NEW M \in Nat, M >= 4
      PROVE  /\ \A x \in Int : 0 <= x /\ x < M => x % M = x
             /\ \A x \in Int : -M <= x /\ x < 0 => x % M = x + M
             /\ \A x \in Int : M <= x /\ x < 2 * M => x % M = x - M
             /\ M \div 2 \in Nat /\ M \div 2 >= 2 /\ 2 * (M \div 2) <= M
  <2>1. \A x \in Int : 0 <= x /\ x < M => x % M = x
    BY <1>2
  <2>2. \A x \in Int : -M <= x /\ x < 0 => x % M = x + M
    BY <1>2
  <2>3. \A x \in Int : M <= x /\ x < 2 * M => x % M = x - M
    BY <1>2
  <2>4. M \div 2 \in Nat /\ M \div 2 >= 2 /\ 2 * (M \div 2) <= M
    BY <1>2
  <2>. QED BY <2>1, <2>2, <2>3, <2>4
<1>. QED BY <1>1, <1>2

\* What is left of a timeout is the timeout.
LEMMA LeftStart ==
    ASSUME NEW c \in Tick, NEW n \in Tick
    PROVE  (((c + n) % TickMod) - c) % TickMod = n
<1>1. c \in Nat /\ n \in Nat /\ c < TickMod /\ n < TickMod /\ TickMod \in Nat
  BY BoundsAssumption DEF Tick
<1>2. CASE c + n < TickMod
  <2>1. (c + n) % TickMod = c + n
    BY <1>1, <1>2, TickArith
  <2>2. (c + n) - c = n
    BY <1>1
  <2>3. n % TickMod = n
    BY <1>1, TickArith
  <2>. QED BY <2>1, <2>2, <2>3
<1>3. CASE c + n >= TickMod
  <2>1. (c + n) % TickMod = (c + n) - TickMod
    BY <1>1, <1>3, TickArith
  <2>. DEFINE x == ((c + n) - TickMod) - c
  <2>2. x = n - TickMod /\ x \in Int /\ -TickMod <= x /\ x < 0
    BY <1>1
  <2>3. x % TickMod = x + TickMod
    <3>. HIDE DEF x
    <3>. QED BY <2>2, TickArith
  <2>4. x + TickMod = n
    BY <1>1
  <2>. QED BY <2>1, <2>3, <2>4
<1>. QED BY <1>1, <1>2, <1>3

\* A tick takes one from what is left, also where a counter wraps.
LEMMA LeftTick ==
    ASSUME NEW m \in Tick, NEW c \in Tick, (m - c) % TickMod > 0
    PROVE  (m - ((c + 1) % TickMod)) % TickMod = ((m - c) % TickMod) - 1
<1>1. c \in Nat /\ m \in Nat /\ c < TickMod /\ m < TickMod /\ TickMod \in Nat /\ TickMod >= 4
  BY BoundsAssumption DEF Tick
<1>2. m # c
  <2>1. CASE m = c
    <3>1. m - c = 0 /\ 0 % TickMod = 0
      BY <1>1, <2>1, TickArith
    <3>. QED BY <3>1
  <2>. QED BY <2>1
<1>. DEFINE d == (c + 1) % TickMod
<1>3. CASE c + 1 < TickMod
  <2>1. d = c + 1
    BY <1>1, <1>3, TickArith
  <2>. HIDE DEF d
  <2>2. CASE m > c
    <3>1. (m - c) % TickMod = m - c
      BY <1>1, <2>2, TickArith
    <3>2. (m - d) % TickMod = m - d
      BY <1>1, <2>1, <2>2, TickArith
    <3>3. m - d = (m - c) - 1
      BY <1>1, <2>1
    <3>. QED BY <3>1, <3>2, <3>3 DEF d
  <2>3. CASE m < c
    <3>1. (m - c) % TickMod = (m - c) + TickMod
      BY <1>1, <2>3, TickArith
    <3>2. (m - d) % TickMod = (m - d) + TickMod
      BY <1>1, <1>3, <2>1, <2>3, TickArith
    <3>3. (m - d) + TickMod = ((m - c) + TickMod) - 1
      BY <1>1, <2>1
    <3>. QED BY <3>1, <3>2, <3>3 DEF d
  <2>. QED BY <1>1, <1>2, <2>2, <2>3
<1>4. CASE c + 1 = TickMod
  <2>1. d = 0
    BY <1>1, <1>4, TickArith
  <2>2. m < c
    BY <1>1, <1>2, <1>4
  <2>3. (m - c) % TickMod = (m - c) + TickMod
    BY <1>1, <2>2, TickArith
  <2>. HIDE DEF d
  <2>4. (m - d) % TickMod = m
    BY <1>1, <2>1, TickArith
  <2>5. m = ((m - c) + TickMod) - 1
    BY <1>1, <1>4
  <2>. QED BY <2>3, <2>4, <2>5 DEF d
<1>. QED BY <1>1, <1>3, <1>4

\* What is left is a number of ticks.
LEMMA LeftType ==
    ASSUME TypeOK
    PROVE  Left \in [AllTask -> Int] /\ \A t \in AllTask : Left[t] = TickLeft(t) /\ Left[t] >= 0
<1>1. ASSUME NEW t \in AllTask PROVE TickLeft(t) \in Int /\ TickLeft(t) >= 0
  <2>1. tick_match[t] - g_tick_count \in Int
    BY DEF TypeOK, Tick
  <2>2. \A x \in Int : x % TickMod \in Int /\ x % TickMod >= 0
    BY BoundsAssumption
  <2>. QED BY <2>1, <2>2 DEF TickLeft
<1>. QED BY <1>1 DEF Left

\* A step that leaves the tick list alone and lets nobody on it run.
LEMMA TickStay ==
    ASSUME IInv, TickOrder, UNCHANGED <<tick_match, g_tick_head, g_tick_count>>,
           \A u \in AllTask :
             /\ task_state[u] \in Sleeping \cup Pending => task_state'[u] \in Sleeping \cup Pending
             /\ task_state'[u] \in Sleeping => task_state[u] \in Sleeping
    PROVE  TickOrder' /\ (OnTime => OnTime')
<1>1. Left' = Left
  BY DEF Left, TickLeft
<1>2. ToSet(g_tick_head) \subseteq AllTask
  BY ToSetProps DEF IInv, TypeOK
<1>3. OnTime => OnTime'
  BY <1>1 DEF OnTime
<1>4. /\ IsInjective(g_tick_head') /\ Sorted(g_tick_head', Left')
      /\ \A t \in ToSet(g_tick_head') : Left'[t] < TickMod \div 2
  BY <1>1 DEF TickOrder
<1>5. /\ \A t \in ToSet(g_tick_head) : task_state'[t] \in Sleeping \cup Pending
      /\ \A t \in AllTask : task_state'[t] \in Sleeping => t \in ToSet(g_tick_head)
  BY <1>2 DEF TickOrder
<1>. QED BY <1>3, <1>4, <1>5 DEF TickOrder

\* A step that takes a task off the tick list, which sleeps no longer.
LEMMA TickLeave ==
    ASSUME IInv, TickOrder, NEW t \in AllTask, tick_list_rm(t), UNCHANGED g_tick_count,
           task_state'[t] \notin Sleeping,
           \A u \in AllTask : u # t => task_state'[u] = task_state[u]
    PROVE  TickOrder' /\ (OnTime => OnTime')
<1>0. g_tick_head \in Seq(AllTask) /\ IsInjective(g_tick_head) /\ Sorted(g_tick_head, Left)
  BY DEF IInv, TypeOK, TickOrder
<1>. PICK s : s = klist_rm(g_tick_head, t)
  OBVIOUS
<1>1. g_tick_head' = s
  BY DEF tick_list_rm
<1>2. s \in Seq(AllTask) /\ ToSet(s) = ToSet(g_tick_head) \ {t} /\ IsInjective(s)
  BY <1>0, KlistRm
<1>3. Sorted(s, Left)
  BY <1>0, SortedRm
<1>4. ToSet(s) \subseteq AllTask /\ ToSet(g_tick_head) \subseteq AllTask
  BY <1>0, <1>2, ToSetProps
<1>5. \A u \in ToSet(s) : Left'[u] = Left[u]
  <2>. TAKE u \in ToSet(s)
  <2>1. u \in AllTask /\ u # t /\ tick_match'[u] = tick_match[u]
    BY <1>2, <1>4 DEF tick_list_rm, IInv, TypeOK
  <2>. QED BY <2>1 DEF Left, TickLeft
<1>6. Sorted(s, Left')
  BY <1>2, <1>3, <1>5, SortedFrame
<1>7. OnTime => OnTime'
  BY <1>1, <1>2, <1>5 DEF OnTime
<1>8. \A u \in ToSet(s) : Left'[u] < TickMod \div 2 /\ task_state'[u] \in Sleeping \cup Pending
  BY <1>2, <1>4, <1>5 DEF TickOrder
<1>9. \A u \in AllTask : task_state'[u] \in Sleeping => u \in ToSet(s)
  BY <1>2 DEF TickOrder
<1>. QED BY <1>1, <1>2, <1>6, <1>7, <1>8, <1>9 DEF TickOrder

\* A step that lets a ready task wait for a while.
LEMMA TickEnter ==
    ASSUME IInv, TickOrder, NEW t \in AllTask, task_state[t] = "K_RDY",
           NEW n \in Timeouts, n < TickMod \div 2,
           tick_list_insert(t, n), UNCHANGED g_tick_count,
           task_state'[t] \in Sleeping \cup Pending,
           \A u \in AllTask : u # t => task_state'[u] = task_state[u]
    PROVE  TickOrder' /\ (OnTime => OnTime')
<1>0. /\ g_tick_head \in Seq(AllTask) /\ IsInjective(g_tick_head) /\ Sorted(g_tick_head, Left)
      /\ tick_match \in [AllTask -> Tick] /\ g_tick_count \in Tick /\ TypeOK
      /\ n \in Tick /\ n \in Int /\ n > 0
  <2>1. TypeOK
    BY DEF IInv
  <2>2. n \in Tick /\ n \in Int /\ n > 0
    BY BoundsAssumption DEF Tick
  <2>. QED BY <2>1, <2>2 DEF TypeOK, TickOrder
<1>1. ToSet(g_tick_head) \subseteq AllTask /\ t \notin ToSet(g_tick_head)
  BY <1>0, ToSetProps, StateNames DEF TickOrder
<1>. PICK L : L = Left'
  OBVIOUS
<1>2. L[t] = n /\ \A u \in AllTask : u # t => L[u] = Left[u]
  <2>1. tick_match'[t] = (g_tick_count + n) % TickMod
        /\ \A u \in AllTask : u # t => tick_match'[u] = tick_match[u]
    BY <1>0 DEF tick_list_insert
  <2>2. TickLeft(t)' = n
    BY <1>0, <2>1, LeftStart DEF TickLeft
  <2>. QED BY <2>1, <2>2 DEF Left, TickLeft
<1>3. L \in [AllTask -> Int] /\ Left \in [AllTask -> Int]
      /\ \A u \in AllTask : TickLeft(u) = Left[u]
  <2>1. Left \in [AllTask -> Int] /\ \A u \in AllTask : TickLeft(u) = Left[u]
    BY <1>0, LeftType
  <2>2. L = [u \in AllTask |-> L[u]]
    BY DEF Left
  <2>. QED BY <1>0, <1>2, <2>1, <2>2
<1>. PICK s : s = pend_list_add(g_tick_head, t, L)
  OBVIOUS
<1>4. g_tick_head' = s
  <2>1. {u \in ToSet(g_tick_head) : TickLeft(u) > n} = {u \in ToSet(g_tick_head) : L[u] > L[t]}
    BY <1>1, <1>2, <1>3
  <2>. QED BY <2>1 DEF tick_list_insert, tick_list_pri_insert, pend_list_add
<1>5. s \in Seq(AllTask) /\ ToSet(s) = ToSet(g_tick_head) \cup {t} /\ IsInjective(s)
  BY <1>0, <1>1, PendListAdd
<1>6. Sorted(s, L)
  <2>1. \A u \in ToSet(g_tick_head) : L[u] = Left[u]
    BY <1>1, <1>2
  <2>2. Sorted(g_tick_head, L)
    BY <1>0, <2>1, SortedFrame
  <2>. QED BY <1>0, <1>3, <2>2, SortedAdd
<1>7. \A u \in ToSet(s) : L[u] < TickMod \div 2 /\ (OnTime => L[u] > 0)
  <2>. TAKE u \in ToSet(s)
  <2>1. CASE u = t
    BY <1>0, <1>2, <2>1
  <2>2. CASE u # t
    BY <1>1, <1>2, <1>5, <2>2 DEF TickOrder, OnTime
  <2>. QED BY <2>1, <2>2
<1>8. \A u \in ToSet(s) : task_state'[u] \in Sleeping \cup Pending
  BY <1>1, <1>5 DEF TickOrder
<1>9. \A u \in AllTask : task_state'[u] \in Sleeping => u \in ToSet(s)
  BY <1>5 DEF TickOrder
<1>. QED BY <1>4, <1>5, <1>6, <1>7, <1>8, <1>9 DEF TickOrder, OnTime

\* The tick interrupt takes one tick from everybody on the list.
LEMMA TickAdvance ==
    ASSUME IInv, TickOrder, OnTime, krhino_tick_proc
    PROVE  TickOrder'
<1>0. /\ g_tick_head \in Seq(AllTask) /\ Sorted(g_tick_head, Left) /\ TypeOK
      /\ UNCHANGED <<tick_match, g_tick_head, task_state>>
      /\ g_tick_count' = (g_tick_count + 1) % TickMod
  <2>1. TypeOK
    BY DEF IInv
  <2>2. g_tick_head \in Seq(AllTask) /\ Sorted(g_tick_head, Left)
    BY <2>1 DEF TypeOK, TickOrder
  <2>3. /\ UNCHANGED <<tick_match, g_tick_head, task_state>>
        /\ g_tick_count' = (g_tick_count + 1) % TickMod
    BY DEF krhino_tick_proc
  <2>. QED BY <2>1, <2>2, <2>3
<1>1. ToSet(g_tick_head) \subseteq AllTask
  BY <1>0, ToSetProps
<1>. PICK L : L = Left'
  OBVIOUS
<1>2. \A u \in ToSet(g_tick_head) : L[u] = Left[u] - 1 /\ Left[u] \in Int
  <2>. TAKE u \in ToSet(g_tick_head)
  <2>1. u \in AllTask /\ tick_match[u] \in Tick /\ g_tick_count \in Tick
        /\ Left[u] > 0 /\ Left[u] = (tick_match[u] - g_tick_count) % TickMod
        /\ L[u] = (tick_match[u] - ((g_tick_count + 1) % TickMod)) % TickMod
    BY <1>0, <1>1 DEF OnTime, Left, TickLeft, TypeOK
  <2>2. L[u] = Left[u] - 1
    BY <2>1, LeftTick
  <2>. QED BY <1>0, <2>1, <2>2, LeftType
<1>3. \A i \in 1 .. Len(g_tick_head) : g_tick_head[i] \in ToSet(g_tick_head)
  BY <1>0, ToSetProps
<1>4. Sorted(g_tick_head, L)
  <2>. SUFFICES ASSUME NEW i \in 1 .. Len(g_tick_head), NEW j \in 1 .. Len(g_tick_head), i < j
                PROVE  L[g_tick_head[i]] <= L[g_tick_head[j]]
    BY DEF Sorted
  <2>1. Left[g_tick_head[i]] <= Left[g_tick_head[j]]
    BY <1>0 DEF Sorted
  <2>. QED BY <1>2, <1>3, <2>1
<1>5. \A u \in ToSet(g_tick_head) : L[u] < TickMod \div 2
  <2>. TAKE u \in ToSet(g_tick_head)
  <2>1. Left[u] < TickMod \div 2 /\ TickMod \div 2 \in Int
    BY TickArith DEF TickOrder
  <2>. QED BY <1>2, <2>1
<1>. QED BY <1>0, <1>4, <1>5 DEF TickOrder

\* Where tick_list_update stops, nobody on the list has expired.
LEMMA TickCaughtUp ==
    ASSUME IInv, TickOrder, ~TickHeadExpired
    PROVE  OnTime
<1>. SUFFICES ASSUME NEW t \in ToSet(g_tick_head) PROVE Left[t] > 0
  BY DEF OnTime
<1>0. /\ g_tick_head \in Seq(AllTask) /\ Sorted(g_tick_head, Left)
      /\ Left \in [AllTask -> Int] /\ ToSet(g_tick_head) \subseteq AllTask
      /\ g_tick_head # <<>>
  BY LeftType, ToSetProps DEF IInv, TypeOK, TickOrder
<1>. PICK h : h = Head(g_tick_head)
  OBVIOUS
<1>1. h \in AllTask /\ Left[h] <= Left[t] /\ Left[h] \in Int /\ Left[t] \in Int
  BY <1>0, HeadSorted
<1>2. Left[h] # 0 /\ Left[h] >= 0
  <2>1. TickLeft(h) # 0
    BY <1>0 DEF TickHeadExpired, Expired
  <2>. QED BY <1>1, <2>1, LeftType DEF IInv
<1>. QED BY <1>1, <1>2

\* A step that keeps the tick list and the time, and is no step of
\* krhino_mutex_lock.
LEMMA TickKept ==
    ASSUME TickInv, TickOrder' /\ (OnTime => OnTime'),
           Ticking => Ticking', ~(pc' = "pri" /\ op'.fn = "lock")
    PROVE  TickInv'
BY DEF TickInv

\* A task starts to wait for an object.
LEMMA TickPend ==
    ASSUME ShortTimeouts, IInv, TickOrder, NEW t \in AllTask, task_state[t] = "K_RDY",
           NEW o, NEW n \in Timeouts, pend_to_blk_obj(o, t, n)
    PROVE  TickOrder' /\ (OnTime => OnTime')
<1>1. /\ task_state'[t] = "K_PEND" /\ UNCHANGED g_tick_count
      /\ \A u \in AllTask : u # t => task_state'[u] = task_state[u]
  BY DEF pend_to_blk_obj, IInv, TypeOK
<1>2. "K_PEND" \in Pending /\ "K_PEND" \notin Sleeping /\ "K_RDY" \notin Sleeping \cup Pending
  BY StateNames
<1>3. CASE n = RHINO_WAIT_FOREVER
  <2>1. UNCHANGED <<tick_match, g_tick_head, g_tick_count>>
    BY <1>3 DEF pend_to_blk_obj
  <2>2. \A u \in AllTask :
          /\ task_state[u] \in Sleeping \cup Pending => task_state'[u] \in Sleeping \cup Pending
          /\ task_state'[u] \in Sleeping => task_state[u] \in Sleeping
    BY <1>1, <1>2
  <2>. QED BY <2>1, <2>2, TickStay
<1>4. CASE n # RHINO_WAIT_FOREVER
  <2>1. tick_list_insert(t, n) /\ n < TickMod \div 2
    BY <1>4 DEF pend_to_blk_obj, ShortTimeouts
  <2>. QED BY <1>1, <1>2, <2>1, TickEnter
<1>. QED BY <1>3, <1>4

\* A waiter is woken.
LEMMA TickWake ==
    ASSUME IInv, TickOrder, NEW t \in AllTask, NEW o, NEW why, pend_task_wakeup(t, o, why)
    PROVE  TickOrder' /\ (OnTime => OnTime')
<1>1. /\ task_state'[t] \in {"K_RDY", "K_SUSPENDED"} /\ UNCHANGED g_tick_count
      /\ \A u \in AllTask : u # t => task_state'[u] = task_state[u]
      /\ tick_list_rm(t)
  BY DEF pend_task_wakeup, IInv, TypeOK
<1>2. task_state'[t] \notin Sleeping
  BY <1>1 DEF Sleeping
<1>. QED BY <1>1, <1>2, TickLeave

\* The steps with interrupts disabled.
LEMMA KernelStepTick ==
    ASSUME ShortTimeouts, IInv, TickInv, KernelStep
    PROVE  TickInv'
<1>0. /\ TickOrder /\ task_state \in [AllTask -> TaskStat]
      /\ g_tick_head \in Seq(AllTask) /\ Task \subseteq AllTask
      /\ blk_list \in [Obj -> Seq(AllTask)]
  BY Consts DEF TickInv, IInv, TypeOK
<1>1. ASSUME UNCHANGED <<tick_match, g_tick_head, g_tick_count, task_state>>
      PROVE  TickOrder' /\ (OnTime => OnTime')
  BY <1>0, <1>1, TickStay
<1>2. CASE task_pri_change
  <2>1. UNCHANGED <<tick_match, g_tick_head, g_tick_count, task_state, pc, op>>
    BY <1>2 DEF task_pri_change
  <2>. QED BY <1>1, <2>1 DEF TickInv, Ticking
<1>3. CASE mutex_lock_pend
  <2>1. /\ op.task \in AllTask /\ task_state[op.task] = "K_RDY" /\ op.ticks \in Timeouts
        /\ pend_to_blk_obj(op.obj, op.task, op.ticks)
        /\ pc' = "sched" /\ pc = "pri" /\ op.fn = "lock"
    BY <1>0, <1>3 DEF mutex_lock_pend, PriChanged, IInv, CallOK, TickInv
  <2>2. TickOrder' /\ (OnTime => OnTime')
    BY <1>0, <2>1, TickPend
  <2>. QED BY <2>1, <2>2, TickKept DEF Ticking
<1>4. CASE drain_step
  <2>. PICK o \in Obj : o = op.obj
    BY <1>4 DEF drain_step, IInv, CallOK
  <2>1. blk_list[o] # <<>> /\ pc = "drain" /\ UNCHANGED <<pc, op>>
    BY <1>4 DEF drain_step
  <2>. PICK t : t = Head(blk_list[o])
    OBVIOUS
  <2>2. t \in AllTask
    BY <1>0, <2>1
  <2>3. \E why : pend_task_wakeup(t, o, why)
    BY <1>4 DEF drain_step
  <2>4. TickOrder' /\ (OnTime => OnTime')
    BY <1>0, <2>2, <2>3, TickWake
  <2>. QED BY <2>1, <2>4, TickKept DEF Ticking
<1>5. CASE mutex_unlock_handover
  <2>. PICK o \in Obj : o = op.obj
    BY <1>5, Consts DEF mutex_unlock_handover, PriChanged, IInv, CallOK
  <2>1. blk_list[o] # <<>> /\ pc = "pri" /\ op.fn = "unlock" /\ pc' = "sched"
    BY <1>5 DEF mutex_unlock_handover, PriChanged
  <2>. PICK t : t = Head(blk_list[o])
    OBVIOUS
  <2>2. t \in AllTask
    BY <1>0, <2>1
  <2>3. pend_task_wakeup(t, o, "BLK_FINISH")
    BY <1>5 DEF mutex_unlock_handover
  <2>4. TickOrder' /\ (OnTime => OnTime')
    BY <1>0, <2>2, <2>3, TickWake
  <2>. QED BY <2>1, <2>4, TickKept DEF Ticking
<1>6. CASE task_mutex_free
  <2>. PICK t \in Task : t = op.task
    BY <1>6 DEF task_mutex_free, IInv, CallOK
  <2>1. pc = "mfree" /\ UNCHANGED <<pc, op>> /\ mutex_list[t] # <<>>
    BY <1>6 DEF task_mutex_free
  <2>. PICK m : m = Head(mutex_list[t])
    OBVIOUS
  <2>2. m \in Obj
    BY <1>0, <2>1, Consts DEF IInv, TypeOK
  <2>3. CASE blk_list[m] # <<>>
    <3>. PICK w : w = Head(blk_list[m])
      OBVIOUS
    <3>1. w \in AllTask
      BY <1>0, <2>2, <2>3
    <3>2. pend_task_wakeup(w, m, "BLK_FINISH")
      BY <1>6, <2>3 DEF task_mutex_free
    <3>3. TickOrder' /\ (OnTime => OnTime')
      BY <1>0, <3>1, <3>2, TickWake
    <3>. QED BY <2>1, <3>3, TickKept DEF Ticking
  <2>4. CASE blk_list[m] = <<>>
    <3>1. UNCHANGED <<tick_match, g_tick_head, g_tick_count, task_state>>
      BY <1>6, <2>4 DEF task_mutex_free
    <3>. QED BY <1>1, <2>1, <3>1, TickKept DEF Ticking
  <2>. QED BY <2>3, <2>4
<1>7. CASE task_del_unlink
  <2>. PICK t \in Task : t = op.task
    BY <1>7 DEF task_del_unlink, IInv, CallOK
  <2>1. /\ pc = "mfree" /\ op.fn = "del" /\ UNCHANGED <<op, g_tick_count>>
        /\ t \in AllTask /\ tick_list_rm(t)
        /\ task_state' = [task_state EXCEPT ![t] = "K_DELETED"]
    BY <1>0, <1>7 DEF task_del_unlink, IInv, CallOK
  <2>2. "K_DELETED" \notin Sleeping
    BY DEF Sleeping
  <2>3. TickOrder' /\ (OnTime => OnTime')
    BY <1>0, <2>1, <2>2, TickLeave
  <2>. QED BY <2>1, <2>3, TickKept DEF Ticking
<1>8. CASE tick_expire_sleep \/ tick_expire_pend
  <2>. PICK t : t = Head(g_tick_head)
    OBVIOUS
  <2>1. /\ pc = "tick" /\ UNCHANGED g_tick_count /\ tick_list_rm(t)
        /\ TickHeadExpired /\ task_state[t] \in Sleeping \cup Pending
        /\ task_state' = [task_state EXCEPT ![t] = "K_RDY"]
           \/ task_state' = [task_state EXCEPT ![t] = "K_SUSPENDED"]
    BY <1>8 DEF tick_expire_sleep, tick_expire_pend
  <2>2. t \in AllTask
    BY <2>1, TickHeadTask
  <2>3. "K_RDY" \notin Sleeping /\ "K_SUSPENDED" \notin Sleeping
    BY DEF Sleeping
  <2>4. TickOrder' /\ (OnTime => OnTime')
    BY <1>0, <2>1, <2>2, <2>3, TickLeave
  <2>5. \/ pc' = "tick"
        \/ pc' = "pri" /\ op'.fn = "tick"
    BY <1>8, <2>1 DEF tick_expire_sleep, tick_expire_pend, StartPriChange
  <2>. QED BY <2>1, <2>4, <2>5, TickKept DEF Ticking
<1>9. CASE tick_done
  <2>1. /\ UNCHANGED <<tick_match, g_tick_head, g_tick_count, task_state>>
        /\ pc' = "sched" /\ ~TickHeadExpired
    BY <1>9 DEF tick_done
  <2>2. OnTime
    BY <1>0, <2>1, TickCaughtUp
  <2>. QED BY <1>1, <2>1, <2>2 DEF TickInv
<1>10. CASE pend_left
  <2>1. /\ UNCHANGED <<tick_match, g_tick_head, g_tick_count, task_state>>
        /\ pc = "pri" /\ op.fn \in {"abort", "tick"}
        /\ pc' = IF op.fn = "tick" THEN "tick" ELSE "sched"
    BY <1>10 DEF pend_left, PriChanged
  <2>. QED BY <1>1, <2>1, TickKept DEF Ticking
<1>11. CASE mutex_unlock_free \/ mutex_del_wake \/ drain_done \/ pri_change_done
  <2>1. /\ UNCHANGED <<tick_match, g_tick_head, g_tick_count, task_state>>
        /\ pc' \in {"run", "sched", "drain"}
        /\ ~Ticking
    BY <1>11 DEF mutex_unlock_free, mutex_del_wake, drain_done, pri_change_done, PriChanged, Ticking
  <2>. QED BY <1>1, <2>1, TickKept
<1>. QED BY <1>2, <1>3, <1>4, <1>5, <1>6, <1>7, <1>8, <1>9, <1>10, <1>11 DEF KernelStep

\* Every step keeps the tick list in order.
LEMMA NextTick ==
    ASSUME ShortTimeouts
    PROVE  IInv /\ TickInv /\ [Next]_vars => TickInv'
<1>. SUFFICES ASSUME IInv, TickInv, [Next]_vars PROVE TickInv'
  OBVIOUS
<1>0. /\ TickOrder /\ task_state \in [AllTask -> TaskStat]
      /\ g_active_task \in AllTask /\ Task \subseteq AllTask
      /\ blk_list \in [Obj -> Seq(AllTask)] /\ Sem \subseteq Obj
  BY Consts DEF TickInv, IInv, TypeOK
<1>1. ASSUME UNCHANGED <<tick_match, g_tick_head, g_tick_count, task_state>>
      PROVE  TickOrder' /\ (OnTime => OnTime')
  BY <1>0, <1>1, TickStay
<1>2. ASSUME UNCHANGED <<tick_match, g_tick_head, g_tick_count, task_state, pc, op>>
      PROVE  TickInv'
  BY <1>1, <1>2 DEF TickInv, Ticking
<1>3. ASSUME pc \in {"run", "sched"} PROVE ~Ticking
  BY <1>3 DEF Ticking
<1>4. CASE MutexCall
  <2>. PICK m \in Mutex : \/ krhino_mutex_create(m)
                          \/ \E ticks \in Timeouts : krhino_mutex_lock(m, ticks)
                          \/ krhino_mutex_unlock(m)
                          \/ krhino_mutex_del(m)
    BY <1>4 DEF MutexCall
  <2>1. CASE krhino_mutex_create(m) \/ mutex_lock_nested(m) \/ mutex_lock_free(m)
             \/ mutex_unlock_nested(m)
    BY <1>2, <2>1
       DEF krhino_mutex_create, mutex_lock_nested, mutex_lock_free, mutex_unlock_nested
  <2>2. ASSUME NEW ticks \in Timeouts, mutex_lock_inherit(m, ticks) PROVE TickInv'
    <3>1. /\ UNCHANGED <<tick_match, g_tick_head, g_tick_count, task_state>>
          /\ op'.ticks = ticks /\ pc = "run"
      BY <2>2 DEF mutex_lock_inherit, StartPriChange, TaskCalls, InTask
    <3>. QED BY <1>1, <1>3, <3>1 DEF TickInv
  <2>3. CASE mutex_unlock_release(m) \/ krhino_mutex_del(m)
    <3>1. /\ UNCHANGED <<tick_match, g_tick_head, g_tick_count, task_state>>
          /\ op'.fn \in {"unlock", "mutex_del"} /\ pc = "run"
      BY <2>3 DEF mutex_unlock_release, krhino_mutex_del, StartPriChange, TaskCalls, InTask
    <3>. QED BY <1>1, <1>3, <3>1, TickKept
  <2>. QED BY <2>1, <2>2, <2>3 DEF krhino_mutex_lock, krhino_mutex_unlock
<1>5. CASE SemCall
  <2>. PICK s \in Sem :
         \/ \E n \in 0 .. SemMax : krhino_sem_create(s, n) \/ krhino_sem_count_set(s, n)
         \/ krhino_sem_del(s)
         \/ sem_give_count(s) \/ sem_give_one(s) \/ sem_give_all(s)
         \/ \E ticks \in Timeouts : krhino_sem_take(s, ticks)
    BY <1>5 DEF SemCall
  <2>1. CASE (\E n \in 0 .. SemMax : krhino_sem_create(s, n) \/ krhino_sem_count_set(s, n))
             \/ sem_give_count(s) \/ sem_take_count(s)
    BY <1>2, <2>1
       DEF krhino_sem_create, krhino_sem_count_set, sem_give_count, sem_take_count
  <2>2. CASE krhino_sem_del(s) \/ sem_give_all(s)
    <3>1. /\ UNCHANGED <<tick_match, g_tick_head, g_tick_count, task_state>>
          /\ pc' = "drain" /\ pc \in {"run", "sched"}
      BY <2>2 DEF krhino_sem_del, sem_give_all, Calls, TaskCalls, InTask, InIsr
    <3>. QED BY <1>1, <1>3, <3>1, TickKept
  <2>3. CASE sem_give_one(s)
    <3>. PICK t : t = Head(blk_list[s])
      OBVIOUS
    <3>1. t \in AllTask
      BY <1>0, <2>3 DEF sem_give_one
    <3>2. /\ pend_task_wakeup(t, s, "BLK_FINISH")
          /\ pc' = "sched" /\ pc \in {"run", "sched"}
      BY <2>3 DEF sem_give_one, Calls, TaskCalls, InTask, InIsr
    <3>3. TickOrder' /\ (OnTime => OnTime')
      BY <1>0, <3>1, <3>2, TickWake
    <3>. QED BY <1>3, <3>2, <3>3, TickKept
  <2>4. ASSUME NEW ticks \in Timeouts, sem_take_pend(s, ticks) PROVE TickInv'
    <3>1. /\ pend_to_blk_obj(s, g_active_task, ticks) /\ pc = "run" /\ pc' = "sched"
          /\ task_state[g_active_task] = "K_RDY"
      BY <2>4 DEF sem_take_pend, TaskCalls, InTask, IInv, ActiveReady
    <3>2. TickOrder' /\ (OnTime => OnTime')
      BY <1>0, <3>1, TickPend
    <3>. QED BY <1>3, <3>1, <3>2, TickKept
  <2>. QED BY <2>1, <2>2, <2>3, <2>4 DEF krhino_sem_take
<1>6. CASE TaskCall
  <2>. PICK t \in Task :
         \/ \E autorun \in BOOLEAN : krhino_task_create(t, autorun)
         \/ krhino_task_suspend(t)
         \/ krhino_task_resume(t)
         \/ \E pri \in PriChoices : krhino_task_pri_change(t, pri)
         \/ krhino_task_wait_abort(t)
         \/ krhino_task_del(t)
    BY <1>6 DEF TaskCall
  <2>0. t \in AllTask
    BY <1>0
  <2>1. ASSUME UNCHANGED <<tick_match, g_tick_head, g_tick_count>>,
               NEW new, task_state' = [task_state EXCEPT ![t] = new],
               task_state[t] \in Sleeping \cup Pending => new \in Sleeping \cup Pending,
               new \in Sleeping => task_state[t] \in Sleeping
        PROVE  TickOrder' /\ (OnTime => OnTime')
    <3>1. \A u \in AllTask :
            /\ task_state[u] \in Sleeping \cup Pending => task_state'[u] \in Sleeping \cup Pending
            /\ task_state'[u] \in Sleeping => task_state[u] \in Sleeping
      BY <1>0, <2>1
    <3>. QED BY <1>0, <2>1, <3>1, TickStay
  <2>2. ASSUME NEW autorun \in BOOLEAN, krhino_task_create(t, autorun) PROVE TickInv'
    <3>1. /\ UNCHANGED <<tick_match, g_tick_head, g_tick_count, op>>
          /\ task_state[t] \in Dead /\ pc = "run" /\ pc' \in {"run", "sched"}
          /\ task_state' = [task_state EXCEPT ![t] = "K_RDY"]
             \/ task_state' = [task_state EXCEPT ![t] = "K_SUSPENDED"]
      BY <2>2 DEF krhino_task_create, TaskCalls, InTask
    <3>2. /\ task_state[t] \notin Sleeping \cup Pending
          /\ "K_RDY" \notin Sleeping /\ "K_SUSPENDED" \notin Sleeping
      BY <3>1 DEF Dead, Sleeping, Pending
    <3>3. TickOrder' /\ (OnTime => OnTime')
      BY <2>1, <3>1, <3>2
    <3>. QED BY <1>3, <3>1, <3>3, TickKept
  <2>3. CASE krhino_task_suspend(t)
    <3>1. /\ UNCHANGED <<tick_match, g_tick_head, g_tick_count, op>>
          /\ pc \in {"run", "sched"} /\ pc' = "sched"
          /\ \/ UNCHANGED task_state
             \/ /\ task_state' = [task_state EXCEPT ![t] = SuspendedFrom[task_state[t]]]
                /\ task_state[t] \in {"K_RDY", "K_SLEEP", "K_PEND"}
      BY <2>3 DEF krhino_task_suspend, Calls, TaskCalls, InTask, InIsr
    <3>2. \A s \in {"K_RDY", "K_SLEEP", "K_PEND"} :
            /\ s \in Sleeping \cup Pending => SuspendedFrom[s] \in Sleeping \cup Pending
            /\ SuspendedFrom[s] \in Sleeping => s \in Sleeping
      BY DEF SuspendedFrom, Sleeping, Pending
    <3>3. TickOrder' /\ (OnTime => OnTime')
      BY <1>1, <2>1, <3>1, <3>2
    <3>. QED BY <1>3, <3>1, <3>3, TickKept
  <2>4. CASE krhino_task_resume(t)
    <3>1. /\ UNCHANGED <<tick_match, g_tick_head, g_tick_count, op>>
          /\ pc \in {"run", "sched"} /\ pc' = "sched"
          /\ \/ UNCHANGED task_state
             \/ /\ task_state' = [task_state EXCEPT ![t] = ResumedFrom[task_state[t]]]
                /\ task_state[t] \in Suspended
      BY <2>4 DEF krhino_task_resume, Calls, TaskCalls, InTask, InIsr
    <3>2. \A s \in Suspended :
            /\ s \in Sleeping \cup Pending => ResumedFrom[s] \in Sleeping \cup Pending
            /\ ResumedFrom[s] \in Sleeping => s \in Sleeping
      BY DEF ResumedFrom, Sleeping, Pending, Suspended
    <3>3. TickOrder' /\ (OnTime => OnTime')
      BY <1>1, <2>1, <3>1, <3>2
    <3>. QED BY <1>3, <3>1, <3>3, TickKept
  <2>5. ASSUME NEW pri \in PriChoices, krhino_task_pri_change(t, pri) PROVE TickInv'
    <3>1. /\ UNCHANGED <<tick_match, g_tick_head, g_tick_count, task_state>>
          /\ pc = "run" /\ op'.fn = "pri_change"
      BY <2>5 DEF krhino_task_pri_change, StartPriChange, TaskCalls, InTask
    <3>. QED BY <1>1, <1>3, <3>1, TickKept
  <2>6. CASE wait_abort_nonpend(t) \/ wait_abort_pend(t)
    <3>1. /\ UNCHANGED g_tick_count /\ tick_list_rm(t)
          /\ task_state' = [task_state EXCEPT ![t] = "K_RDY"]
          /\ pc = "run" /\ (pc' = "sched" \/ op'.fn = "abort")
      BY <2>6 DEF wait_abort_nonpend, wait_abort_pend, StartPriChange, TaskCalls, InTask
    <3>2. "K_RDY" \notin Sleeping
      BY DEF Sleeping
    <3>3. TickOrder' /\ (OnTime => OnTime')
      BY <1>0, <2>0, <3>1, <3>2, TickLeave
    <3>. QED BY <1>3, <3>1, <3>3, TickKept
  <2>7. CASE krhino_task_del(t)
    <3>1. /\ UNCHANGED <<tick_match, g_tick_head, g_tick_count, task_state>>
          /\ pc = "run" /\ pc' = "mfree"
      BY <2>7 DEF krhino_task_del, TaskCalls, InTask
    <3>. QED BY <1>1, <1>3, <3>1, TickKept
  <2>. QED BY <2>2, <2>3, <2>4, <2>5, <2>6, <2>7 DEF krhino_task_wait_abort
<1>7. ASSUME NEW ticks \in Timeouts \ {RHINO_WAIT_FOREVER}, krhino_task_sleep(ticks)
      PROVE  TickInv'
  <2>. PICK t \in AllTask : t = g_active_task
    BY <1>0
  <2>1. /\ task_state[t] = "K_RDY" /\ task_state' = [task_state EXCEPT ![t] = "K_SLEEP"]
        /\ tick_list_insert(t, ticks) /\ UNCHANGED g_tick_count
        /\ pc = "run" /\ pc' = "sched"
    BY <1>7 DEF krhino_task_sleep, TaskCalls, InTask, IInv, ActiveReady
  <2>2. ticks < TickMod \div 2 /\ "K_SLEEP" \in Sleeping
    BY DEF ShortTimeouts, Sleeping
  <2>3. TickOrder' /\ (OnTime => OnTime')
    BY <1>0, <2>1, <2>2, TickEnter
  <2>. QED BY <1>3, <2>1, <2>3, TickKept
<1>8. CASE krhino_task_yield \/ krhino_sched_disable \/ krhino_sched_enable \/ core_sched
  <2>1. /\ UNCHANGED <<tick_match, g_tick_head, g_tick_count, task_state>>
        /\ pc \in {"run", "sched"} /\ pc' \in {"run", "sched"}
    BY <1>8 DEF krhino_task_yield, krhino_sched_disable, krhino_sched_enable, core_sched,
                TaskCalls, InTask
  <2>. QED BY <1>1, <1>3, <2>1, TickKept
<1>9. CASE pend_state_end_proc \/ UNCHANGED vars
  BY <1>2, <1>9 DEF pend_state_end_proc, vars
<1>10. CASE krhino_tick_proc
  <2>1. pc \in {"run", "sched"} /\ pc' = "tick"
    BY <1>10 DEF krhino_tick_proc, InIsr
  <2>2. OnTime
    BY <1>3, <2>1 DEF TickInv
  <2>3. TickOrder'
    BY <1>0, <1>10, <2>2, TickAdvance
  <2>. QED BY <2>1, <2>3 DEF TickInv, Ticking
<1>. QED BY <1>4, <1>5, <1>6, <1>7, <1>8, <1>9, <1>10, KernelStepTick DEF Next, CpuCall

\* The tick list is in the order in which its tasks expire, through every wrap
\* of the counter, and the tick handler leaves nobody overdue on it, if the
\* finite timeouts stay below half the tick range.
THEOREM TickLists == ASSUME ShortTimeouts PROVE Spec => []TickListOK
<1>1. Init => TickInv
  <2>. SUFFICES ASSUME Init PROVE TickInv
    OBVIOUS
  <2>1. g_tick_head = <<>> /\ ToSet(<<>>) = {} /\ IsInjective(<<>>) /\ pc = "run"
    BY DEF Init, ToSet, IsInjective
  <2>2. \A t \in AllTask : task_state[t] \notin Sleeping
    BY DEF Init, Sleeping
  <2>3. Sorted(<<>>, Left)
    BY DEF Sorted
  <2>. QED BY <2>1, <2>2, <2>3 DEF TickInv, TickOrder, OnTime
<1>2. IInv /\ TickInv /\ [Next]_vars => TickInv'
  BY NextTick
<1>3. IInv /\ TickInv => TickListOK
  <2>. SUFFICES ASSUME IInv, TickInv PROVE TickListOK
    OBVIOUS
  <2>0. g_tick_head \in Seq(AllTask) /\ ToSet(g_tick_head) \subseteq AllTask
    BY ToSetProps DEF IInv, TypeOK
  <2>1. \A t \in AllTask : Left[t] = TickLeft(t) /\ Left[t] \in Int /\ Left[t] >= 0
    BY LeftType DEF IInv
  <2>2. \A i \in 1 .. Len(g_tick_head) : g_tick_head[i] \in AllTask
    BY <2>0
  <2>3. \A i, j \in 1 .. Len(g_tick_head) :
          i < j => TickLeft(g_tick_head[i]) <= TickLeft(g_tick_head[j])
    BY <2>1, <2>2 DEF TickInv, TickOrder, Sorted
  <2>4. ASSUME Stable, NEW t \in ToSet(g_tick_head) PROVE ~Expired(t)
    <3>1. Left[t] > 0 /\ Left[t] < TickMod \div 2 /\ Left[t] = TickLeft(t) /\ Left[t] \in Int
      BY <2>0, <2>1, <2>4 DEF Stable, TickInv, TickOrder, OnTime, Ticking
    <3>. QED BY <3>1, TickArith DEF Expired
  <2>. QED BY <2>0, <2>3, <2>4 DEF TickInv, TickOrder, TickListOK
<1>. QED BY <1>1, <1>2, <1>3, KernelInvariant, PTL DEF Spec
=============================================================================
