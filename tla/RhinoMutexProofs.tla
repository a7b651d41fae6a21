--------------------------- MODULE RhinoMutexProofs --------------------------
(***************************************************************************)
(* Mutexes, for any number of tasks, mutexes and priorities: a mutex and   *)
(* its owner agree, krhino_mutex_lock returns the truth, every task runs   *)
(* at exactly the priority it has or inherits, and the CPU belongs to the  *)
(* first task of the highest ready priority.  Each invariant stands on the *)
(* ones before it, all of them on IInv.                                    *)
(***************************************************************************)
EXTENDS RhinoWaitProofs

USE DEF taskVars, priVars, objVars, mutexVars, tickVars, schedVars, ctlVars

-----------------------------------------------------------------------------
(***************************************************************************)
(* Ownership.                                                              *)
(***************************************************************************)
\* The last unlock of m has taken it off the list of its owner and has not
\* decided yet who gets it.
Released(m) == pc = "pri" /\ op.fn = "unlock" /\ m = op.obj
\* m is deleted and its waiters are not all woken yet.
Deleting(m) == pc \in {"pri", "drain"} /\ op.fn = "mutex_del" /\ m = op.obj

\* What is on the list of a task is a valid mutex that the task owns, once.
ListsOwned ==
    \A t \in AllTask :
        /\ IsInjective(mutex_list[t])
        /\ \A m \in ToSet(mutex_list[t]) :
             mutex_task[m] = t /\ Valid(m) /\ task_state[t] \notin Dead

\* A mutex with an owner is on the list of its owner, unless it is just being
\* released.
OwnersListed ==
    \A m \in Mutex :
        IF Released(m)
        THEN /\ mutex_task[m] = g_active_task /\ Valid(m)
             /\ m \notin ToSet(mutex_list[g_active_task])
        ELSE mutex_task[m] # NULL =>
               m \in ToSet(mutex_list[mutex_task[m]]) /\ owner_nested[m] >= 1

\* A mutex with waiters has an owner, unless it is just being deleted.
WaitedOwned ==
    \A m \in Mutex : blk_list[m] # <<>> => mutex_task[m] # NULL \/ Deleting(m)

OwnInv == ListsOwned /\ OwnersListed /\ WaitedOwned


\* A step that changes no owner and lets nobody wait for a free mutex.
LEMMA OwnFrame ==
    ASSUME IInv, OwnInv, UNCHANGED <<mutexVars, obj_type>>,
           \A t \in AllTask : task_state'[t] \in Dead =>
             task_state[t] \in Dead \/ mutex_list[t] = <<>>,
           \A m \in Mutex : blk_list'[m] # <<>> => blk_list[m] # <<>> \/ mutex_task[m] # NULL,
           \A m \in Mutex : Released(m)' <=> Released(m),
           \A m \in Mutex : Released(m) => UNCHANGED g_active_task,
           \A m \in Mutex : Deleting(m) => Deleting(m)' \/ blk_list'[m] = <<>>
    PROVE  OwnInv'
<1>1. ListsOwned'
  <2>. SUFFICES ASSUME NEW t \in AllTask, NEW m \in ToSet(mutex_list[t])
                PROVE  task_state'[t] \notin Dead
    BY DEF OwnInv, ListsOwned, Valid
  <2>1. mutex_list[t] # <<>>
    BY ToSetProps DEF IInv, TypeOK
  <2>. QED BY <2>1 DEF OwnInv, ListsOwned
<1>2. OwnersListed'
  <2>. SUFFICES ASSUME NEW m \in Mutex
                PROVE  IF Released(m)'
                       THEN /\ mutex_task[m] = g_active_task' /\ Valid(m)
                            /\ m \notin ToSet(mutex_list[g_active_task'])
                       ELSE mutex_task[m] # NULL =>
                              m \in ToSet(mutex_list[mutex_task[m]]) /\ owner_nested[m] >= 1
    BY DEF OwnersListed, Valid
  <2>. QED BY DEF OwnInv, OwnersListed
<1>3. WaitedOwned'
  BY DEF OwnInv, WaitedOwned
<1>. QED BY <1>1, <1>2, <1>3 DEF OwnInv

\* A step that changes neither owners, nor who waits, nor who lives.
LEMMA OwnUntouched ==
    ASSUME IInv, OwnInv, UNCHANGED <<mutexVars, obj_type, blk_list>>,
           \A t \in AllTask : task_state'[t] \in Dead => task_state[t] \in Dead,
           \A m \in Mutex : Released(m)' <=> Released(m),
           \A m \in Mutex : Released(m) => UNCHANGED g_active_task,
           \A m \in Mutex : Deleting(m) => Deleting(m)' \/ blk_list[m] = <<>>
    PROVE  OwnInv'
<1>1. /\ \A t \in AllTask : task_state'[t] \in Dead =>
           task_state[t] \in Dead \/ mutex_list[t] = <<>>
      /\ \A m \in Mutex : blk_list'[m] # <<>> => blk_list[m] # <<>> \/ mutex_task[m] # NULL
      /\ \A m \in Mutex : Deleting(m) => Deleting(m)' \/ blk_list'[m] = <<>>
  OBVIOUS
<1>. QED BY <1>1, OwnFrame

\* The loops of the kernel that change no owner.
LEMMA OwnLoops ==
    ASSUME IInv, OwnInv,
           \/ task_pri_change \/ mutex_lock_pend \/ mutex_del_wake \/ drain_step
           \/ drain_done \/ pri_change_done \/ pend_left \/ task_del_unlink
           \/ tick_expire_sleep \/ tick_expire_pend \/ tick_done
    PROVE  OwnInv'
<1>0. /\ Mutex \subseteq Obj /\ Task \subseteq AllTask
      /\ blk_list \in [Obj -> Seq(AllTask)] /\ task_state \in [AllTask -> TaskStat]
  BY Consts DEF IInv, TypeOK
<1>1. CASE task_pri_change
  <2>1. /\ UNCHANGED <<mutexVars, obj_type, task_state, g_active_task, pc, op>>
    BY <1>1 DEF task_pri_change
  <2>2. /\ \A m \in Mutex : Released(m)' <=> Released(m)
        /\ \A m \in Mutex : Released(m) => UNCHANGED g_active_task
        /\ \A m \in Mutex : Deleting(m) => Deleting(m)'
    BY <2>1 DEF Released, Deleting
  <2>3. \A m \in Mutex : blk_list'[m] # <<>> => blk_list[m] # <<>>
    <3>1. CASE pri_change_pend
      <4>. DEFINE o == blk_obj[chg.task]
      <4>1. chg.task \in AllTask /\ task_state[chg.task] \in Pending
        BY <1>1, <3>1 DEF task_pri_change, pri_change_pend, IInv, TypeOK
      <4>2. o \in Obj /\ blk_list[o] # <<>>
        BY <4>1 DEF IInv, WaitersListed, ToSet
      <4>3. \A m \in Obj : m # o => blk_list'[m] = blk_list[m]
        BY <1>0, <3>1 DEF pri_change_pend
      <4>. QED BY <1>0, <4>2, <4>3
    <3>. QED BY <1>1, <3>1 DEF task_pri_change, pri_change_same, pri_change_ready, pri_change_idle
  <2>. QED BY <2>1, <2>2, <2>3, OwnFrame
<1>2. CASE mutex_lock_pend
  <2>1. /\ UNCHANGED <<mutexVars, obj_type>> /\ op.obj \in Mutex /\ mutex_task[op.obj] \in Task
        /\ task_state' = [task_state EXCEPT ![op.task] = "K_PEND"]
        /\ blk_list' = [blk_list EXCEPT ![op.obj] = pend_list_add(blk_list[op.obj], op.task, prio)]
        /\ pc = "pri" /\ op.fn = "lock" /\ pc' = "sched"
    BY <1>2 DEF mutex_lock_pend, PriChanged, pend_to_blk_obj, IInv, CallOK
  <2>2. \A t \in AllTask : task_state'[t] \in Dead => task_state[t] \in Dead
    BY <1>0, <2>1 DEF Dead
  <2>3. \A m \in Mutex : blk_list'[m] # <<>> => blk_list[m] # <<>> \/ mutex_task[m] # NULL
    BY <1>0, <2>1, Consts
  <2>. QED BY <2>1, <2>2, <2>3, OwnFrame DEF Released, Deleting
<1>3. CASE mutex_del_wake
  BY <1>3, OwnUntouched DEF mutex_del_wake, PriChanged, Released, Deleting
<1>4. CASE drain_step
  <2>1. /\ UNCHANGED <<mutexVars, obj_type, pc, op, g_active_task>>
        /\ pc = "drain" /\ op.obj \in Obj /\ blk_list[op.obj] # <<>>
        /\ blk_list' = [blk_list EXCEPT ![op.obj] = klist_rm(@, Head(blk_list[op.obj]))]
    BY <1>4 DEF drain_step, pend_task_wakeup, IInv, CallOK
  <2>2. Head(blk_list[op.obj]) \in AllTask
    BY <1>0, <2>1, FirstWaiter
  <2>3. \A t \in AllTask : task_state'[t] \in Dead => task_state[t] \in Dead
    BY <1>0, <1>4, <2>2 DEF drain_step, pend_task_wakeup, Dead
  <2>4. \A o \in Obj : blk_list[o] = <<>> => blk_list'[o] = <<>>
    BY <1>0, <2>1, RmKeepsEmpty
  <2>. QED BY <1>0, <2>1, <2>3, <2>4, OwnFrame DEF Released, Deleting
<1>5. CASE drain_done \/ pri_change_done \/ tick_done
  <2>1. /\ UNCHANGED <<mutexVars, obj_type, blk_list, task_state, g_active_task>>
        /\ \A m : ~Released(m) /\ ~Released(m)'
    BY <1>5 DEF drain_done, pri_change_done, tick_done, PriChanged, Released
  <2>2. \A m \in Mutex : Deleting(m) => blk_list[m] = <<>>
    BY <1>5 DEF drain_done, pri_change_done, tick_done, PriChanged, Deleting
  <2>. QED BY <2>1, <2>2, OwnUntouched
<1>6. CASE pend_left \/ tick_expire_sleep
  <2>1. /\ UNCHANGED <<mutexVars, obj_type, blk_list, g_active_task>>
        /\ \A m : ~Released(m) /\ ~Released(m)' /\ ~Deleting(m)
    BY <1>6 DEF pend_left, tick_expire_sleep, PriChanged, Released, Deleting
  <2>2. \A t \in AllTask : task_state'[t] \in Dead => task_state[t] \in Dead
    BY <1>0, <1>6 DEF pend_left, tick_expire_sleep, Dead
  <2>. QED BY <2>1, <2>2, OwnUntouched
<1>7. CASE task_del_unlink
  <2>1. /\ UNCHANGED <<mutexVars, obj_type, g_active_task>>
        /\ mutex_list[op.task] = <<>>
        /\ task_state' = [task_state EXCEPT ![op.task] = "K_DELETED"]
        /\ pc = "mfree" /\ op.fn = "del" /\ op' = op
    BY <1>7 DEF task_del_unlink, IInv, CallOK
  <2>2. \A o \in Obj : blk_list[o] = <<>> => blk_list'[o] = <<>>
    <3>1. CASE task_state[op.task] \in Pending
      BY <1>0, <1>7, <3>1, RmKeepsEmpty DEF task_del_unlink
    <3>. QED BY <1>7, <3>1 DEF task_del_unlink
  <2>3. \A t \in AllTask : task_state'[t] \in Dead =>
           task_state[t] \in Dead \/ mutex_list[t] = <<>>
    BY <1>0, <2>1
  <2>. QED BY <1>0, <2>1, <2>2, <2>3, OwnFrame DEF Released, Deleting
<1>8. CASE tick_expire_pend
  <2>1. /\ UNCHANGED <<mutexVars, obj_type, g_active_task>>
        /\ pc = "tick" /\ op'.fn = "tick"
    BY <1>8 DEF tick_expire_pend, StartPriChange
  <2>2. \A o \in Obj : blk_list[o] = <<>> => blk_list'[o] = <<>>
    BY <1>0, <1>8, RmKeepsEmpty DEF tick_expire_pend
  <2>3. \A t \in AllTask : task_state'[t] \in Dead => task_state[t] \in Dead
    BY <1>0, <1>8 DEF tick_expire_pend, Dead
  <2>. QED BY <1>0, <2>1, <2>2, <2>3, OwnFrame DEF Released, Deleting
<1>. QED BY <1>1, <1>2, <1>3, <1>4, <1>5, <1>6, <1>7, <1>8
\* A step that gives the mutex m to w, or to nobody when w is NULL.
GivesTo(m, w) ==
    /\ mutex_task' = [mutex_task EXCEPT ![m] = w]
    /\ \A t \in AllTask :
         /\ IsInjective(mutex_list'[t])
         /\ ToSet(mutex_list'[t]) = IF t = w THEN ToSet(mutex_list[t]) \cup {m}
                                    ELSE ToSet(mutex_list[t]) \ {m}
    /\ \A k \in Mutex : k # m => owner_nested'[k] = owner_nested[k] /\ obj_type'[k] = obj_type[k]
    /\ w # NULL => owner_nested'[m] >= 1 /\ Valid(m)' /\ task_state'[w] \notin Dead
    /\ w = NULL => blk_list'[m] = <<>> \/ Deleting(m)'
    /\ \A t \in AllTask : task_state[t] \notin Dead => task_state'[t] \notin Dead
    /\ \A k \in Mutex : blk_list[k] = <<>> => blk_list'[k] = <<>>
    /\ \A k \in Mutex : ~Released(k)' /\ (k # m => ~Released(k) /\ ~Deleting(k))

\* A step that gives mutex m to w, or frees it, keeps owners and mutexes in agreement.
LEMMA OwnStep ==
    ASSUME IInv, OwnInv, NEW m \in Mutex, NEW w \in Task \cup {NULL}, GivesTo(m, w)
    PROVE  OwnInv'
<1>0. /\ mutex_task \in [Mutex -> Task \cup {NULL}] /\ mutex_list \in [AllTask -> Seq(Mutex)]
      /\ Task \subseteq AllTask /\ NULL \notin AllTask
  BY Consts DEF IInv, TypeOK, WaitersOwned
<1>. USE DEF GivesTo
<1>1. \A t \in AllTask : ToSet(mutex_list[t]) \subseteq Mutex
  BY <1>0, ToSetProps
<1>2. ListsOwned'
  <2>. SUFFICES ASSUME NEW t \in AllTask, NEW k \in ToSet(mutex_list'[t])
                PROVE  /\ mutex_task'[k] = t /\ Valid(k)' /\ task_state'[t] \notin Dead
    BY DEF ListsOwned, Valid
  <2>1. CASE k = m
    BY <1>0, <2>1
  <2>2. CASE k # m
    <3>1. k \in ToSet(mutex_list[t]) /\ k \in Mutex
      BY <1>1, <2>2
    <3>2. mutex_task[k] = t /\ Valid(k) /\ task_state[t] \notin Dead
      BY <3>1 DEF OwnInv, ListsOwned
    <3>. QED BY <1>0, <2>2, <3>1, <3>2 DEF Valid
  <2>. QED BY <2>1, <2>2
<1>3. OwnersListed'
  <2>. SUFFICES ASSUME NEW k \in Mutex, mutex_task'[k] # NULL
                PROVE  k \in ToSet(mutex_list'[mutex_task'[k]]) /\ owner_nested'[k] >= 1
    BY DEF OwnersListed
  <2>1. CASE k = m
    BY <1>0, <2>1
  <2>2. CASE k # m
    <3>1. mutex_task'[k] = mutex_task[k] /\ mutex_task[k] \in AllTask
      BY <1>0, <2>2
    <3>2. k \in ToSet(mutex_list[mutex_task[k]]) /\ owner_nested[k] >= 1
      BY <2>2, <3>1 DEF OwnInv, OwnersListed
    <3>. QED BY <2>2, <3>1, <3>2
  <2>. QED BY <2>1, <2>2
<1>4. WaitedOwned'
  <2>. SUFFICES ASSUME NEW k \in Mutex, blk_list'[k] # <<>>
                PROVE  mutex_task'[k] # NULL \/ Deleting(k)'
    BY DEF WaitedOwned
  <2>1. CASE k = m
    BY <1>0, <2>1
  <2>2. CASE k # m
    BY <1>0, <2>2 DEF OwnInv, WaitedOwned
  <2>. QED BY <2>1, <2>2
<1>. QED BY <1>2, <1>3, <1>4 DEF OwnInv

\* A mutex that is free, or is being released, is on no list.
LEMMA FreeUnlisted ==
    ASSUME IInv, OwnInv, NEW m \in Mutex, mutex_task[m] = NULL \/ Released(m)
    PROVE  \A t \in AllTask : m \notin ToSet(mutex_list[t])
BY Consts DEF OwnInv, ListsOwned, OwnersListed

\* The first waiter that is woken lives, and nobody dies.
LEMMA WakeAlive ==
    ASSUME IInv, NEW o \in Obj, blk_list[o] # <<>>, NEW why,
           pend_task_wakeup(Head(blk_list[o]), o, why)
    PROVE  /\ \A t \in AllTask : task_state[t] \notin Dead => task_state'[t] \notin Dead
           /\ task_state'[Head(blk_list[o])] \notin Dead
           /\ \A k \in Obj : blk_list[k] = <<>> => blk_list'[k] = <<>>
<1>. DEFINE w == Head(blk_list[o])
<1>1. w \in AllTask /\ task_state \in [AllTask -> TaskStat] /\ blk_list \in [Obj -> Seq(AllTask)]
  BY FirstWaiter, Consts DEF IInv, TypeOK
<1>2. blk_list' = [blk_list EXCEPT ![o] = klist_rm(@, w)]
  BY DEF pend_task_wakeup
<1>3. \/ task_state' = [task_state EXCEPT ![w] = "K_RDY"]
      \/ task_state' = [task_state EXCEPT ![w] = "K_SUSPENDED"]
  BY DEF pend_task_wakeup
<1>. HIDE DEF w
<1>4. \A k \in Obj : blk_list[k] = <<>> => blk_list'[k] = <<>>
  BY <1>1, <1>2, RmKeepsEmpty
<1>5. /\ \A t \in AllTask : task_state[t] \notin Dead => task_state'[t] \notin Dead
      /\ task_state'[w] \notin Dead
  BY <1>1, <1>3 DEF Dead
<1>. QED BY <1>4, <1>5 DEF w

\* The end of krhino_mutex_unlock.
LEMMA OwnUnlock ==
    ASSUME IInv, OwnInv, mutex_unlock_free \/ mutex_unlock_handover
    PROVE  OwnInv'
<1>0. op.obj \in Mutex
  BY DEF mutex_unlock_free, mutex_unlock_handover, PriChanged, IInv, CallOK
<1>. PICK m \in Mutex : m = op.obj
  BY <1>0
<1>. DEFINE t == Head(blk_list[m])
<1>1. /\ m \in Mutex /\ m \in Obj /\ Released(m)
      /\ \A k : k # m => ~Released(k) /\ ~Deleting(k)
      /\ pc' \in {"run", "sched"}
  BY Consts DEF mutex_unlock_free, mutex_unlock_handover, PriChanged, IInv, CallOK,
     Released, Deleting
<1>2. /\ \A u \in AllTask : m \notin ToSet(mutex_list[u])
      /\ mutex_list \in [AllTask -> Seq(Mutex)]
      /\ \A u \in AllTask : IsInjective(mutex_list[u])
  BY <1>1, FreeUnlisted DEF IInv, TypeOK, OwnInv, ListsOwned
<1>3. \A k : ~Released(k)'
  BY <1>1 DEF Released
<1>4. CASE mutex_unlock_free
  <2>1. /\ mutex_task' = [mutex_task EXCEPT ![m] = NULL] /\ blk_list[m] = <<>>
        /\ UNCHANGED <<mutex_list, owner_nested, obj_type, blk_list, task_state>>
    BY <1>4 DEF mutex_unlock_free
  <2>2. \A u \in AllTask :
          /\ IsInjective(mutex_list'[u])
          /\ ToSet(mutex_list'[u]) = IF u = NULL THEN ToSet(mutex_list[u]) \cup {m}
                                     ELSE ToSet(mutex_list[u]) \ {m}
    BY <1>2, <2>1, Consts
  <2>3. GivesTo(m, NULL)
    BY <1>1, <1>3, <2>1, <2>2 DEF GivesTo
  <2>. QED BY <1>1, <2>3, OwnStep
<1>5. CASE mutex_unlock_handover
  <2>1. /\ mutex_task' = [mutex_task EXCEPT ![m] = t] /\ blk_list[m] # <<>>
        /\ mutex_list' = [mutex_list EXCEPT ![t] = <<m>> \o @]
        /\ owner_nested' = [owner_nested EXCEPT ![m] = 1]
        /\ UNCHANGED obj_type
        /\ pend_task_wakeup(t, m, "BLK_FINISH")
    BY <1>5 DEF mutex_unlock_handover
  <2>2. t \in Task /\ t \in AllTask /\ task_state[t] \in Pending /\ blk_obj[t] = m
    BY <1>1, <2>1, FirstWaiter, Consts
  <2>3. /\ \A u \in AllTask : task_state[u] \notin Dead => task_state'[u] \notin Dead
        /\ task_state'[t] \notin Dead
        /\ \A k \in Obj : blk_list[k] = <<>> => blk_list'[k] = <<>>
    BY <1>1, <2>1, WakeAlive
  <2>. HIDE DEF t
  <2>4. \A u \in AllTask :
          /\ IsInjective(mutex_list'[u])
          /\ ToSet(mutex_list'[u]) = IF u = t THEN ToSet(mutex_list[u]) \cup {m}
                                     ELSE ToSet(mutex_list[u]) \ {m}
    <3>1. ToSet(<<m>> \o mutex_list[t]) = ToSet(mutex_list[t]) \cup {m}
      BY <1>1, <1>2, <2>2, EndsProps
    <3>2. IsInjective(<<m>> \o mutex_list[t])
      BY <1>1, <1>2, <2>2, EndsProps
    <3>. QED BY <1>2, <2>1, <2>2, <3>1, <3>2
  <2>5. owner_nested \in [Mutex -> 0 .. NestMax]
    BY DEF IInv, TypeOK
  <2>6. Valid(m)
    BY <1>1 DEF OwnInv, OwnersListed
  <2>7. \A k \in Mutex : k # m => owner_nested'[k] = owner_nested[k] /\ obj_type'[k] = obj_type[k]
    BY <2>1, <2>5
  <2>8. owner_nested'[m] >= 1 /\ Valid(m)' /\ t # NULL
    <3>1. owner_nested'[m] = 1
      BY <1>1, <2>1, <2>5
    <3>2. t # NULL
      BY <2>2, Consts
    <3>. QED BY <2>1, <2>6, <3>1, <3>2 DEF Valid
  <2>9. \A k \in Mutex : blk_list[k] = <<>> => blk_list'[k] = <<>>
    BY <2>3, Consts
  <2>10. GivesTo(m, t)
    BY <1>1, <1>3, <2>1, <2>3, <2>4, <2>7, <2>8, <2>9 DEF GivesTo
  <2>. QED BY <1>1, <2>2, <2>10, OwnStep
<1>. QED BY <1>4, <1>5

\* task_mutex_free: a mutex of a deleted task goes to its first waiter.
LEMMA OwnMutexFree ==
    ASSUME IInv, OwnInv, task_mutex_free
    PROVE  OwnInv'
<1>0. op.task \in Task /\ mutex_list[op.task] # <<>> /\ mutex_list \in [AllTask -> Seq(Mutex)]
  BY DEF task_mutex_free, IInv, CallOK, TypeOK
<1>. PICK t \in Task : t = op.task
  BY <1>0
<1>. DEFINE s == mutex_list[t]
<1>. PICK m \in Mutex : m = Head(s)
  BY <1>0, Consts
<1>. DEFINE w == IF blk_list[m] # <<>> THEN Head(blk_list[m]) ELSE NULL
            Kept(u) == IF u = t THEN Tail(mutex_list[u]) ELSE mutex_list[u]
<1>1. /\ pc = "mfree" /\ pc' = "mfree" /\ t \in Task /\ t \in AllTask
      /\ mutex_list \in [AllTask -> Seq(Mutex)] /\ s # <<>>
      /\ \A u \in AllTask : IsInjective(mutex_list[u])
      /\ UNCHANGED <<obj_type, owner_nested>>
  BY Consts DEF task_mutex_free, IInv, CallOK, TypeOK, OwnInv, ListsOwned
<1>2. s \in Seq(Mutex) /\ IsInjective(s)
  BY <1>1
<1>3. /\ m \in ToSet(s) /\ m \in Mutex /\ m \in Obj
      /\ Tail(s) \in Seq(Mutex) /\ ToSet(Tail(s)) = ToSet(s) \ {m} /\ IsInjective(Tail(s))
  <2>. HIDE DEF s
  <2>1. Head(s) \in ToSet(s) /\ ToSet(s) \subseteq Mutex
    BY <1>1, <1>2, ToSetProps
  <2>2. Tail(s) \in Seq(Mutex) /\ ToSet(Tail(s)) = ToSet(s) \ {Head(s)} /\ IsInjective(Tail(s))
    BY <1>1, <1>2, TailProps
  <2>. QED BY <2>1, <2>2, Consts DEF s
<1>4. /\ mutex_task[m] = t /\ Valid(m) /\ owner_nested[m] >= 1
      /\ \A u \in AllTask : u # t => m \notin ToSet(mutex_list[u])
  <2>1. /\ mutex_task[m] = t /\ Valid(m)
        /\ \A u \in AllTask : m \in ToSet(mutex_list[u]) => mutex_task[m] = u
    BY <1>1, <1>3 DEF OwnInv, ListsOwned
  <2>2. ~Released(m) /\ t # NULL
    BY <1>1, Consts DEF Released
  <2>. QED BY <1>1, <1>3, <2>1, <2>2 DEF OwnInv, OwnersListed
<1>5. \A k : ~Released(k) /\ ~Deleting(k) /\ ~Released(k)'
  BY <1>1 DEF Released, Deleting
<1>6. CASE blk_list[m] # <<>>
  <2>1. /\ pend_task_wakeup(Head(blk_list[m]), m, "BLK_FINISH")
        /\ mutex_task' = [mutex_task EXCEPT ![m] = w]
        /\ mutex_list' = [u \in AllTask |-> IF u = w THEN <<m>> \o Kept(u) ELSE Kept(u)]
    BY <1>6 DEF task_mutex_free
  <2>2. w \in Task /\ w \in AllTask /\ w = Head(blk_list[m])
    BY <1>3, <1>6, FirstWaiter, Consts
  <2>3. /\ \A u \in AllTask : task_state[u] \notin Dead => task_state'[u] \notin Dead
        /\ task_state'[w] \notin Dead
        /\ \A k \in Obj : blk_list[k] = <<>> => blk_list'[k] = <<>>
    BY <1>3, <1>6, <2>1, <2>2, WakeAlive
  <2>. HIDE DEF w
  <2>4. \A u \in AllTask :
          /\ IsInjective(mutex_list'[u])
          /\ ToSet(mutex_list'[u]) = IF u = w THEN ToSet(mutex_list[u]) \cup {m}
                                     ELSE ToSet(mutex_list[u]) \ {m}
    <3>. DEFINE r == Tail(mutex_list[t])
                v == IF w = t THEN r ELSE mutex_list[w]
                q == <<m>> \o v
    <3>1. /\ r \in Seq(Mutex) /\ ToSet(r) = ToSet(mutex_list[t]) \ {m} /\ IsInjective(r)
          /\ v \in Seq(Mutex) /\ m \notin ToSet(v) /\ IsInjective(v)
      BY <1>1, <1>3, <1>4, <2>2
    <3>2. /\ mutex_list'[w] = q
          /\ w # t => mutex_list'[t] = r
          /\ \A u \in AllTask : u # t /\ u # w => mutex_list'[u] = mutex_list[u]
      BY <1>1, <2>1, <2>2
    <3>. HIDE DEF r, v
    <3>3. ToSet(q) = ToSet(v) \cup {m} /\ IsInjective(q)
      BY <3>1, EndsProps
    <3>4. ToSet(q) = ToSet(mutex_list[w]) \cup {m}
      BY <1>3, <3>1, <3>3 DEF v
    <3>. HIDE DEF q
    <3>. TAKE u \in AllTask
    <3>5. CASE u = w
      BY <3>2, <3>3, <3>4, <3>5
    <3>6. CASE u # w /\ u = t
      BY <3>1, <3>2, <3>6
    <3>7. CASE u # w /\ u # t
      <4>1. mutex_list'[u] = mutex_list[u] /\ IsInjective(mutex_list[u])
            /\ m \notin ToSet(mutex_list[u])
        BY <1>1, <1>4, <3>2, <3>7
      <4>. QED BY <3>7, <4>1
    <3>. QED BY <3>5, <3>6, <3>7
  <2>5. w # NULL /\ \A k \in Mutex : blk_list[k] = <<>> => blk_list'[k] = <<>>
    BY <2>2, <2>3, Consts
  <2>6. owner_nested'[m] >= 1 /\ Valid(m)'
    <3>1. owner_nested' = owner_nested /\ obj_type' = obj_type
      BY <1>1
    <3>. QED BY <1>4, <3>1 DEF Valid
  <2>7. GivesTo(m, w)
    BY <1>1, <1>3, <1>5, <2>1, <2>2, <2>3, <2>4, <2>5, <2>6 DEF GivesTo
  <2>. QED BY <1>3, <2>2, <2>7, OwnStep
<1>7. CASE blk_list[m] = <<>>
  <2>1. /\ mutex_task' = [mutex_task EXCEPT ![m] = NULL]
        /\ mutex_list' = [mutex_list EXCEPT ![t] = Tail(@)]
        /\ UNCHANGED <<task_state, blk_list>>
    BY <1>7 DEF task_mutex_free
  <2>2. \A u \in AllTask :
          /\ IsInjective(mutex_list'[u])
          /\ ToSet(mutex_list'[u]) = IF u = NULL THEN ToSet(mutex_list[u]) \cup {m}
                                     ELSE ToSet(mutex_list[u]) \ {m}
    <3>. DEFINE r == Tail(mutex_list[t])
    <3>1. ToSet(r) = ToSet(mutex_list[t]) \ {m} /\ IsInjective(r)
      BY <1>3
    <3>2. mutex_list'[t] = r /\ \A u \in AllTask : u # t => mutex_list'[u] = mutex_list[u]
      BY <1>1, <2>1
    <3>. HIDE DEF r
    <3>. TAKE u \in AllTask
    <3>3. u # NULL
      BY Consts
    <3>4. CASE u = t
      BY <3>1, <3>2, <3>3, <3>4
    <3>5. CASE u # t
      <4>1. mutex_list'[u] = mutex_list[u] /\ IsInjective(mutex_list[u])
            /\ m \notin ToSet(mutex_list[u])
        BY <1>1, <1>4, <3>2, <3>5
      <4>. QED BY <3>3, <4>1
    <3>. QED BY <3>4, <3>5
  <2>3. GivesTo(m, NULL)
    BY <1>1, <1>3, <1>5, <1>7, <2>1, <2>2 DEF GivesTo
  <2>. QED BY <1>3, <2>3, OwnStep
<1>. QED BY <1>6, <1>7

\* The calls of k_mutex.c.
LEMMA OwnMutexCall ==
    ASSUME IInv, OwnInv, MutexCall
    PROVE  OwnInv'
<1>. PICK m \in Mutex : \/ krhino_mutex_create(m)
                        \/ \E ticks \in Timeouts : krhino_mutex_lock(m, ticks)
                        \/ krhino_mutex_unlock(m)
                        \/ krhino_mutex_del(m)
  BY DEF MutexCall
<1>0. /\ pc = "run" /\ g_active_task \in Task /\ g_active_task \in AllTask
      /\ task_state[g_active_task] \notin Dead
      /\ m \in Obj /\ \A k : ~Released(k) /\ ~Deleting(k)
      /\ mutex_list \in [AllTask -> Seq(Mutex)] /\ owner_nested \in [Mutex -> 0 .. NestMax]
      /\ obj_type \in [Obj -> ObjType] /\ mutex_task \in [Mutex -> Task \cup {NULL}]
      /\ \A u \in AllTask : IsInjective(mutex_list[u])
      /\ blk_list \in [Obj -> Seq(AllTask)]
  <2>1. pc = "run" /\ g_active_task # IdleTask
    BY DEF krhino_mutex_create, krhino_mutex_lock, krhino_mutex_unlock, krhino_mutex_del,
           mutex_lock_nested, mutex_lock_free, mutex_lock_inherit, mutex_unlock_nested,
           mutex_unlock_release, TaskCalls, InTask
  <2>2. task_state[g_active_task] = "K_RDY"
    BY <2>1 DEF IInv, ActiveReady
  <2>. QED BY <2>1, <2>2, Consts, StateNames
           DEF IInv, TypeOK, Released, Deleting, OwnInv, ListsOwned, WaitersOwned
<1>1. CASE krhino_mutex_create(m)
  <2>1. /\ mutex_task' = [mutex_task EXCEPT ![m] = NULL] /\ obj_type[m] = "RHINO_OBJ_TYPE_NONE"
        /\ blk_list' = [blk_list EXCEPT ![m] = <<>>]
        /\ obj_type' = [obj_type EXCEPT ![m] = "RHINO_MUTEX_OBJ_TYPE"]
        /\ UNCHANGED <<mutex_list, owner_nested, task_state, pc, op>>
    BY <1>1 DEF krhino_mutex_create
  <2>2. \A u \in AllTask : m \notin ToSet(mutex_list[u])
    BY <2>1 DEF OwnInv, ListsOwned, Valid
  <2>3. \A u \in AllTask :
          /\ IsInjective(mutex_list'[u])
          /\ ToSet(mutex_list'[u]) = IF u = NULL THEN ToSet(mutex_list[u]) \cup {m}
                                     ELSE ToSet(mutex_list[u]) \ {m}
    BY <1>0, <2>1, <2>2, Consts
  <2>4. /\ \A k \in Mutex : k # m => owner_nested'[k] = owner_nested[k] /\ obj_type'[k] = obj_type[k]
        /\ \A k \in Mutex : blk_list[k] = <<>> => blk_list'[k] = <<>>
        /\ blk_list'[m] = <<>> /\ \A k : ~Released(k)'
    BY <1>0, <2>1, Consts DEF Released
  <2>5. GivesTo(m, NULL)
    BY <1>0, <2>1, <2>3, <2>4 DEF GivesTo
  <2>. QED BY <2>5, OwnStep
<1>2. CASE mutex_lock_free(m)
  <2>. DEFINE t == g_active_task
  <2>1. /\ mutex_task' = [mutex_task EXCEPT ![m] = t] /\ mutex_task[m] = NULL /\ Valid(m)
        /\ mutex_list' = [mutex_list EXCEPT ![t] = <<m>> \o @]
        /\ owner_nested' = [owner_nested EXCEPT ![m] = 1]
        /\ UNCHANGED <<obj_type, blk_list, task_state, pc, op>>
    BY <1>2 DEF mutex_lock_free
  <2>2. t \in Task /\ t \in AllTask /\ task_state[t] \notin Dead
    BY <1>0
  <2>. HIDE DEF t
  <2>3. \A u \in AllTask : m \notin ToSet(mutex_list[u])
    BY <2>1, FreeUnlisted
  <2>4. \A u \in AllTask :
          /\ IsInjective(mutex_list'[u])
          /\ ToSet(mutex_list'[u]) = IF u = t THEN ToSet(mutex_list[u]) \cup {m}
                                     ELSE ToSet(mutex_list[u]) \ {m}
    <3>1. /\ ToSet(<<m>> \o mutex_list[t]) = ToSet(mutex_list[t]) \cup {m}
          /\ IsInjective(<<m>> \o mutex_list[t])
      BY <1>0, <2>2, <2>3, EndsProps
    <3>. QED BY <1>0, <2>1, <2>2, <2>3, <3>1
  <2>5. /\ \A k \in Mutex : k # m => owner_nested'[k] = owner_nested[k] /\ obj_type'[k] = obj_type[k]
        /\ owner_nested'[m] >= 1 /\ Valid(m)' /\ t # NULL /\ \A k : ~Released(k)'
    BY <1>0, <2>1, <2>2, Consts DEF Valid, Released
  <2>6. GivesTo(m, t)
    BY <1>0, <2>1, <2>2, <2>4, <2>5 DEF GivesTo
  <2>. QED BY <2>2, <2>6, OwnStep
<1>3. CASE mutex_lock_nested(m) \/ mutex_unlock_nested(m)
  <2>1. /\ UNCHANGED <<mutex_list, mutex_task, obj_type, blk_list, task_state, pc, op, g_active_task>>
        /\ \A k \in Mutex : owner_nested[k] >= 1 => owner_nested'[k] >= 1
    <3>1. CASE mutex_lock_nested(m)
      BY <1>0, <3>1 DEF mutex_lock_nested
    <3>2. CASE mutex_unlock_nested(m)
      BY <1>0, <3>2 DEF mutex_unlock_nested
    <3>. QED BY <1>3, <3>1, <3>2
  <2>2. ListsOwned' /\ WaitedOwned'
    BY <2>1 DEF OwnInv, ListsOwned, WaitedOwned, Valid, Deleting
  <2>3. OwnersListed'
    BY <1>0, <2>1 DEF OwnInv, OwnersListed, Released, Valid
  <2>. QED BY <2>2, <2>3 DEF OwnInv
<1>4. ASSUME NEW ticks \in Timeouts, mutex_lock_inherit(m, ticks) PROVE OwnInv'
  <2>1. /\ UNCHANGED <<mutexVars, obj_type, blk_list, task_state, g_active_task>>
        /\ op'.fn = "lock"
    BY <1>4 DEF mutex_lock_inherit, StartPriChange
  <2>2. \A k : ~Released(k)'
    BY <2>1 DEF Released
  <2>. QED BY <1>0, <2>1, <2>2, OwnUntouched
<1>5. CASE mutex_unlock_release(m)
  <2>. DEFINE t == g_active_task
  <2>1. /\ mutex_task[m] = t /\ Valid(m)
        /\ mutex_list' = [mutex_list EXCEPT ![t] = klist_rm(@, m)]
        /\ owner_nested' = [owner_nested EXCEPT ![m] = 0]
        /\ UNCHANGED <<mutex_task, obj_type, blk_list, task_state, g_active_task>>
        /\ pc' = "pri" /\ op'.fn = "unlock" /\ op'.obj = m
    BY <1>5 DEF mutex_unlock_release, StartPriChange
  <2>2. /\ ToSet(klist_rm(mutex_list[t], m)) = ToSet(mutex_list[t]) \ {m}
        /\ IsInjective(klist_rm(mutex_list[t], m))
    BY <1>0, KlistRm
  <2>3. \A u \in AllTask : /\ IsInjective(mutex_list'[u])
                           /\ ToSet(mutex_list'[u]) = IF u = t THEN ToSet(mutex_list[u]) \ {m}
                                                      ELSE ToSet(mutex_list[u])
    BY <1>0, <2>1, <2>2
  <2>4. ListsOwned'
    <3>. SUFFICES ASSUME NEW u \in AllTask, NEW k \in ToSet(mutex_list'[u])
                  PROVE  mutex_task[k] = u /\ Valid(k) /\ task_state[u] \notin Dead
      BY <2>1, <2>3 DEF ListsOwned, Valid
    <3>1. k \in ToSet(mutex_list[u])
      BY <2>3
    <3>. QED BY <3>1 DEF OwnInv, ListsOwned
  <2>5. OwnersListed'
    <3>1. \A k \in Mutex : Released(k)' <=> k = m
      BY <2>1 DEF Released
    <3>2. mutex_task'[m] = g_active_task' /\ Valid(m)' /\ m \notin ToSet(mutex_list'[g_active_task'])
      BY <1>0, <2>1, <2>3 DEF Valid
    <3>3. ASSUME NEW k \in Mutex, k # m, mutex_task'[k] # NULL
          PROVE  k \in ToSet(mutex_list'[mutex_task'[k]]) /\ owner_nested'[k] >= 1
      <4>1. k \in ToSet(mutex_list[mutex_task[k]]) /\ owner_nested[k] >= 1 /\ mutex_task[k] \in AllTask
        BY <1>0, <2>1, <3>3, Consts DEF OwnInv, OwnersListed
      <4>. QED BY <1>0, <2>1, <2>3, <3>3, <4>1
    <3>. QED BY <3>1, <3>2, <3>3 DEF OwnersListed
  <2>6. WaitedOwned'
    BY <1>0, <2>1 DEF OwnInv, WaitedOwned
  <2>. QED BY <2>4, <2>5, <2>6 DEF OwnInv
<1>6. CASE krhino_mutex_del(m)
  <2>. DEFINE owner == mutex_task[m]
  <2>1. /\ mutex_task' = [mutex_task EXCEPT ![m] = NULL]
        /\ obj_type' = [obj_type EXCEPT ![m] = "RHINO_OBJ_TYPE_NONE"]
        /\ owner_nested' = [owner_nested EXCEPT ![m] = 0]
        /\ IF owner = NULL THEN UNCHANGED mutex_list
           ELSE mutex_list' = [mutex_list EXCEPT ![owner] = klist_rm(@, m)]
        /\ UNCHANGED <<blk_list, task_state>>
        /\ pc' = "pri" /\ op'.fn = "mutex_del" /\ op'.obj = m
    BY <1>6 DEF krhino_mutex_del, StartPriChange
  <2>2. \A u \in AllTask : u # owner => m \notin ToSet(mutex_list[u])
    BY DEF OwnInv, ListsOwned
  <2>3. owner \in Task \cup {NULL}
    BY <1>0
  <2>. HIDE DEF owner
  <2>4. \A u \in AllTask :
          /\ IsInjective(mutex_list'[u])
          /\ ToSet(mutex_list'[u]) = IF u = NULL THEN ToSet(mutex_list[u]) \cup {m}
                                     ELSE ToSet(mutex_list[u]) \ {m}
    <3>1. CASE owner = NULL
      BY <1>0, <2>1, <2>2, <3>1, Consts
    <3>2. CASE owner \in Task
      <4>1. owner \in AllTask /\ owner # NULL
        BY <3>2, Consts
      <4>2. /\ ToSet(klist_rm(mutex_list[owner], m)) = ToSet(mutex_list[owner]) \ {m}
            /\ IsInjective(klist_rm(mutex_list[owner], m))
        BY <1>0, <4>1, KlistRm
      <4>3. /\ mutex_list'[owner] = klist_rm(mutex_list[owner], m)
            /\ \A u \in AllTask : u # owner => mutex_list'[u] = mutex_list[u]
        BY <1>0, <2>1, <4>1
      <4>4. \A u \in AllTask : u # owner => ToSet(mutex_list'[u]) = ToSet(mutex_list[u]) \ {m}
        BY <2>2, <4>3
      <4>5. \A u \in AllTask : IsInjective(mutex_list'[u])
        BY <1>0, <4>2, <4>3
      <4>. QED BY <4>1, <4>2, <4>3, <4>4, <4>5, Consts
    <3>. QED BY <2>3, <3>1, <3>2
  <2>5. /\ \A k \in Mutex : k # m => owner_nested'[k] = owner_nested[k] /\ obj_type'[k] = obj_type[k]
        /\ Deleting(m)' /\ \A k : ~Released(k)'
    BY <1>0, <2>1, Consts DEF Deleting, Released
  <2>6. GivesTo(m, NULL)
    BY <1>0, <2>1, <2>4, <2>5 DEF GivesTo
  <2>. QED BY <2>6, OwnStep
<1>. QED BY <1>1, <1>2, <1>3, <1>4, <1>5, <1>6 DEF krhino_mutex_lock, krhino_mutex_unlock

\* The calls of the other components change no owner.
LEMMA OwnOtherCall ==
    ASSUME IInv, OwnInv, SemCall \/ TaskCall \/ CpuCall
    PROVE  OwnInv'
<1>0. /\ Mutex \subseteq Obj /\ Task \subseteq AllTask /\ Mutex \cap Sem = {} /\ Sem \subseteq Obj
      /\ blk_list \in [Obj -> Seq(AllTask)] /\ task_state \in [AllTask -> TaskStat]
      /\ obj_type \in [Obj -> ObjType] /\ g_active_task \in AllTask
  BY Consts DEF IInv, TypeOK
<1>1. ASSUME UNCHANGED mutexVars,
             \A m \in Mutex : obj_type'[m] = obj_type[m] /\ (blk_list[m] = <<>> => blk_list'[m] = <<>>),
             pc \in {"run", "sched"},
             pc' \in {"run", "sched", "mfree"} \/ op'.fn \in {"sem_del", "give_all", "pri_change", "abort"},
             \A t \in AllTask : task_state'[t] \in Dead => task_state[t] \in Dead
      PROVE  OwnInv'
  <2>1. \A k : ~Released(k) /\ ~Released(k)' /\ ~Deleting(k) /\ ~Deleting(k)'
    BY <1>1 DEF Released, Deleting
  <2>2. ListsOwned'
    <3>. SUFFICES ASSUME NEW t \in AllTask, NEW m \in ToSet(mutex_list[t])
                  PROVE  mutex_task[m] = t /\ Valid(m)' /\ task_state'[t] \notin Dead
      BY <1>1 DEF OwnInv, ListsOwned, Valid
    <3>1. m \in Mutex
      BY ToSetProps DEF IInv, TypeOK
    <3>. QED BY <1>1, <3>1 DEF OwnInv, ListsOwned, Valid
  <2>3. OwnersListed'
    BY <1>1, <2>1 DEF OwnInv, OwnersListed
  <2>4. WaitedOwned'
    BY <1>1, <2>1 DEF OwnInv, WaitedOwned
  <2>. QED BY <2>2, <2>3, <2>4 DEF OwnInv
<1>2. CASE SemCall
  <2>. PICK s \in Sem : \/ \E n \in 0 .. SemMax : krhino_sem_create(s, n) \/ krhino_sem_count_set(s, n)
                        \/ krhino_sem_del(s)
                        \/ sem_give_count(s) \/ sem_give_one(s) \/ sem_give_all(s)
                        \/ \E ticks \in Timeouts : krhino_sem_take(s, ticks)
    BY <1>2 DEF SemCall
  <2>1. UNCHANGED mutexVars /\ pc \in {"run", "sched"}
    BY DEF krhino_sem_create, krhino_sem_count_set, krhino_sem_del, sem_give_count, sem_give_one,
           sem_give_all, krhino_sem_take, sem_take_count, sem_take_pend, TaskCalls, Calls, InTask, InIsr
  <2>2. pc' \in {"run", "sched"} \/ op'.fn \in {"sem_del", "give_all"}
    BY <2>1
       DEF krhino_sem_create, krhino_sem_count_set, krhino_sem_del, sem_give_count, sem_give_one,
           sem_give_all, krhino_sem_take, sem_take_count, sem_take_pend
  <2>3. \A m \in Mutex : obj_type'[m] = obj_type[m] /\ blk_list'[m] = blk_list[m]
    BY <1>0
       DEF krhino_sem_create, krhino_sem_count_set, krhino_sem_del, sem_give_count, sem_give_one,
           sem_give_all, krhino_sem_take, sem_take_count, sem_take_pend, pend_task_wakeup, pend_to_blk_obj
  <2>4. \A t \in AllTask : task_state'[t] \in Dead => task_state[t] \in Dead
    <3>1. CASE sem_give_one(s)
      BY <1>0, <3>1, WakeAlive DEF sem_give_one
    <3>2. CASE \E ticks \in Timeouts : sem_take_pend(s, ticks)
      BY <1>0, <3>2 DEF sem_take_pend, pend_to_blk_obj, Dead
    <3>. QED BY <3>1, <3>2
             DEF krhino_sem_create, krhino_sem_count_set, krhino_sem_del, sem_give_count,
                 sem_give_all, krhino_sem_take, sem_take_count
  <2>. QED BY <1>1, <2>1, <2>2, <2>3, <2>4
<1>3. CASE TaskCall
  <2>. PICK t \in Task : \/ \E autorun \in BOOLEAN : krhino_task_create(t, autorun)
                         \/ krhino_task_suspend(t)
                         \/ krhino_task_resume(t)
                         \/ \E pri \in PriChoices : krhino_task_pri_change(t, pri)
                         \/ krhino_task_wait_abort(t)
                         \/ krhino_task_del(t)
    BY <1>3 DEF TaskCall
  <2>1. /\ UNCHANGED <<mutexVars, obj_type>> /\ pc \in {"run", "sched"}
        /\ pc' \in {"run", "sched", "mfree"} \/ op'.fn \in {"pri_change", "abort"}
    BY DEF krhino_task_create, krhino_task_suspend, krhino_task_resume, krhino_task_pri_change,
           krhino_task_wait_abort, wait_abort_nonpend, wait_abort_pend, krhino_task_del,
           StartPriChange, TaskCalls, Calls, InTask, InIsr
  <2>2. \A m \in Mutex : blk_list[m] = <<>> => blk_list'[m] = <<>>
    <3>1. CASE wait_abort_pend(t)
      BY <1>0, <3>1, RmKeepsEmpty DEF wait_abort_pend
    <3>. QED BY <3>1
         DEF krhino_task_create, krhino_task_suspend, krhino_task_resume, krhino_task_pri_change,
             krhino_task_wait_abort, wait_abort_nonpend, krhino_task_del
  <2>3. \A u \in AllTask : task_state'[u] \in Dead => task_state[u] \in Dead
    <3>1. CASE krhino_task_suspend(t)
      <4>1. task_state' = task_state
            \/ \E x \in {"K_SUSPENDED", "K_SLEEP_SUSPENDED", "K_PEND_SUSPENDED"} :
                 task_state' = [task_state EXCEPT ![t] = x]
        BY <3>1 DEF krhino_task_suspend, SuspendedFrom
      <4>. QED BY <1>0, <4>1 DEF Dead
    <3>2. CASE krhino_task_resume(t)
      <4>1. task_state' = task_state
            \/ \E x \in {"K_RDY", "K_SLEEP", "K_PEND"} : task_state' = [task_state EXCEPT ![t] = x]
        BY <3>2 DEF krhino_task_resume, ResumedFrom, Suspended
      <4>. QED BY <1>0, <4>1 DEF Dead
    <3>3. CASE krhino_task_wait_abort(t)
      BY <1>0, <3>3 DEF krhino_task_wait_abort, wait_abort_nonpend, wait_abort_pend, Dead
    <3>4. CASE \E autorun \in BOOLEAN : krhino_task_create(t, autorun)
      BY <1>0, <3>4 DEF krhino_task_create, Dead
    <3>. QED BY <3>1, <3>2, <3>3, <3>4 DEF krhino_task_pri_change, krhino_task_del
  <2>. QED BY <1>1, <2>1, <2>2, <2>3
<1>4. CASE CpuCall
  <2>1. /\ UNCHANGED <<mutexVars, obj_type, blk_list>> /\ pc \in {"run", "sched"}
        /\ pc' \in {"run", "sched"}
    BY <1>4
       DEF CpuCall, krhino_task_sleep, krhino_task_yield, krhino_sched_disable,
           krhino_sched_enable, TaskCalls, InTask
  <2>2. \A u \in AllTask : task_state'[u] \in Dead => task_state[u] \in Dead
    BY <1>0, <1>4
       DEF CpuCall, krhino_task_sleep, krhino_task_yield, krhino_sched_disable,
           krhino_sched_enable, Dead
  <2>. QED BY <1>1, <2>1, <2>2
<1>. QED BY <1>2, <1>3, <1>4

\* Every step keeps mutexes and owners in agreement.
LEMMA NextOwn == IInv /\ OwnInv /\ [Next]_vars => OwnInv'
<1>. SUFFICES ASSUME IInv, OwnInv, [Next]_vars PROVE OwnInv'
  OBVIOUS
<1>1. CASE core_sched \/ pend_state_end_proc \/ krhino_tick_proc
  <2>1. /\ UNCHANGED <<mutexVars, obj_type, blk_list, task_state>>
        /\ \A m : ~Released(m) /\ ~Released(m)' /\ ~Deleting(m)
    BY <1>1 DEF core_sched, pend_state_end_proc, krhino_tick_proc, Released, Deleting, InIsr
  <2>. QED BY <2>1, OwnUntouched
<1>2. CASE UNCHANGED vars
  <2>1. UNCHANGED <<taskVars, objVars, mutexVars, schedVars, ctlVars>>
    BY <1>2 DEF vars
  <2>. QED BY <2>1, OwnUntouched DEF Released, Deleting
<1>3. CASE KernelStep
  BY <1>3, OwnLoops, OwnUnlock, OwnMutexFree DEF KernelStep
<1>. QED BY <1>1, <1>2, <1>3, OwnMutexCall, OwnOtherCall DEF Next

\* The strengthened ownership invariant holds in every reachable state.
THEOREM OwnersInvariant == Spec => []OwnInv
<1>1. Init => OwnInv
  <2>. SUFFICES ASSUME Init PROVE OwnInv
    OBVIOUS
  <2>1. /\ \A t \in AllTask : mutex_list[t] = <<>>
        /\ \A m \in Mutex : mutex_task[m] = NULL /\ blk_list[m] = <<>>
        /\ pc = "run"
    BY Consts DEF Init
  <2>2. IsInjective(<<>>) /\ ToSet(<<>>) = {}
    BY DEF IsInjective, ToSet
  <2>. QED BY <2>1, <2>2 DEF OwnInv, ListsOwned, OwnersListed, WaitedOwned, Released
<1>2. IInv /\ OwnInv /\ [Next]_vars => OwnInv'
  BY NextOwn
<1>. QED BY <1>1, <1>2, KernelInvariant, PTL DEF Spec

\* A valid mutex and the list of its owner agree, the owner lives, and nobody
\* waits for a mutex that is free, for any number of tasks and mutexes.
THEOREM Ownership == Spec => []OwnershipOK
<1>1. IInv /\ OwnInv => OwnershipOK
  <2>. SUFFICES ASSUME IInv, OwnInv PROVE OwnershipOK
    OBVIOUS
  <2>1. Stable => \A m \in Mutex : ~Released(m) /\ ~Deleting(m)
    BY DEF Stable, Released, Deleting
  <2>. QED BY <2>1 DEF OwnershipOK, OwnInv, ListsOwned, OwnersListed, WaitedOwned, Valid
<1>. QED BY <1>1, OwnersInvariant, KernelInvariant, PTL

-----------------------------------------------------------------------------
(***************************************************************************)
(* What krhino_mutex_lock returns.                                         *)
(***************************************************************************)
\* Nobody waits for a mutex of its own.
NotOwnWaiter ==
    \A t \in AllTask :
        task_state[t] \in Pending /\ blk_obj[t] \in Mutex => mutex_task[blk_obj[t]] # t

\* The call a task has not returned from is the one its state says.
CallsMatch ==
    \A t \in AllTask :
        /\ task_state[t] \in Dead => call[t] = NULL
        /\ task_state[t] \in Sleeping => call[t] = "sleep"

\* What a task that was woken from krhino_mutex_lock(m) will be told is true.
Told(t, m) ==
    IF blk_state[t] = "BLK_FINISH" THEN Valid(m) => mutex_task[m] = t ELSE mutex_task[m] # t

\* LockOutcome in every state, but for a task that is being deleted.
BeingDeleted(t) == pc = "mfree" /\ t = op.task
Outcome ==
    \A t \in Task, m \in Mutex :
        (call[t] = m /\ task_state[t] \notin Pending /\ ~BeingDeleted(t)) => Told(t, m)

\* The caller that waits for the loop of task_pri_change or the wake-all loop.
CallerOK ==
    /\ pc = "pri" /\ op.fn = "lock" => mutex_task[op.obj] # op.task
    /\ pc = "pri" /\ op.fn = "unlock" => call[g_active_task] = NULL
    /\ pc = "drain" /\ op.fn = "give_all" => op.obj \in Sem

OutInv == NotOwnWaiter /\ CallsMatch /\ Outcome /\ CallerOK

\* A step that changes at most the task t, and no owner.
LEMMA OutTask ==
    ASSUME IInv, OutInv, NEW t \in Task,
           UNCHANGED mutex_task, \A m \in Mutex : obj_type'[m] = obj_type[m],
           \A u \in AllTask : u # t =>
             /\ task_state'[u] = task_state[u] /\ call'[u] = call[u]
             /\ blk_state'[u] = blk_state[u] /\ blk_obj'[u] = blk_obj[u]
             /\ BeingDeleted(u) => BeingDeleted(u)',
           task_state'[t] \in Pending /\ blk_obj'[t] \in Mutex => mutex_task[blk_obj'[t]] # t,
           task_state'[t] \in Dead => call'[t] = NULL,
           task_state'[t] \in Sleeping => call'[t] = "sleep",
           \A m \in Mutex :
             (call'[t] = m /\ task_state'[t] \notin Pending /\ ~BeingDeleted(t)') => Told(t, m)',
           CallerOK'
    PROVE  OutInv'
<1>0. Task \subseteq AllTask
  BY Consts
<1>1. NotOwnWaiter'
  BY DEF OutInv, NotOwnWaiter
<1>2. CallsMatch'
  BY DEF OutInv, CallsMatch
<1>3. Outcome'
  <2>. SUFFICES ASSUME NEW u \in Task, NEW m \in Mutex,
                       call'[u] = m, task_state'[u] \notin Pending, ~BeingDeleted(u)'
                PROVE  Told(u, m)'
    BY DEF Outcome
  <2>1. CASE u = t
    BY <2>1
  <2>2. CASE u # t
    <3>1. Told(u, m)
      BY <1>0, <2>2 DEF OutInv, Outcome
    <3>. QED BY <1>0, <2>2, <3>1 DEF Told, Valid
  <2>. QED BY <2>1, <2>2
<1>. QED BY <1>1, <1>2, <1>3 DEF OutInv

\* A step that changes no task and no owner.
LEMMA OutFrame ==
    ASSUME IInv, OutInv, UNCHANGED <<task_state, call, blk_state, mutex_task>>,
           \A m \in Mutex : obj_type'[m] = obj_type[m],
           \A u \in AllTask : task_state[u] \in Pending => blk_obj'[u] = blk_obj[u],
           \A u \in Task : BeingDeleted(u) => BeingDeleted(u)',
           CallerOK'
    PROVE  OutInv'
<1>1. NotOwnWaiter' /\ CallsMatch'
  BY DEF OutInv, NotOwnWaiter, CallsMatch
<1>2. Outcome'
  BY DEF OutInv, Outcome, Told, Valid
<1>. QED BY <1>1, <1>2 DEF OutInv

\* The steps that change no task.
LEMMA OutSteady ==
    ASSUME IInv, OutInv,
           \/ task_pri_change \/ mutex_del_wake \/ drain_done \/ pri_change_done \/ pend_left
           \/ tick_done \/ core_sched \/ krhino_tick_proc \/ UNCHANGED vars
           \/ \E m \in Mutex : \/ mutex_lock_nested(m) \/ mutex_unlock_nested(m)
                               \/ mutex_unlock_release(m)
                               \/ \E ticks \in Timeouts : mutex_lock_inherit(m, ticks)
           \/ \E s \in Sem : \/ \E n \in 0 .. SemMax : krhino_sem_create(s, n) \/ krhino_sem_count_set(s, n)
                             \/ krhino_sem_del(s) \/ sem_give_count(s) \/ sem_give_all(s)
                             \/ sem_take_count(s)
           \/ \E t \in Task : \/ \E pri \in PriChoices : krhino_task_pri_change(t, pri)
                              \/ krhino_task_del(t)
           \/ krhino_task_yield \/ krhino_sched_disable \/ krhino_sched_enable
    PROVE  OutInv'
<1>0. Mutex \cap Sem = {} /\ Mutex \subseteq Obj /\ obj_type \in [Obj -> ObjType]
      /\ blk_obj \in [AllTask -> Obj \cup {NULL}]
  BY Consts DEF IInv, TypeOK
<1>1. CASE \/ task_pri_change \/ mutex_del_wake \/ drain_done \/ pri_change_done
           \/ tick_done \/ core_sched \/ krhino_tick_proc \/ UNCHANGED vars
  <2>1. UNCHANGED <<taskVars, mutex_task, obj_type>>
    BY <1>1 DEF task_pri_change, mutex_del_wake, drain_done, pri_change_done, tick_done,
                core_sched, krhino_tick_proc, vars
  <2>2. CallerOK'
    BY <1>1 DEF task_pri_change, mutex_del_wake, drain_done, pri_change_done, tick_done,
                core_sched, krhino_tick_proc, vars, PriChanged, OutInv, CallerOK
  <2>3. \A u \in Task : BeingDeleted(u) => BeingDeleted(u)'
    BY <1>1 DEF task_pri_change, mutex_del_wake, drain_done, pri_change_done, tick_done,
                core_sched, krhino_tick_proc, vars, PriChanged, BeingDeleted, InIsr
  <2>. QED BY <2>1, <2>2, <2>3, OutFrame
<1>2. CASE pend_left
  <2>1. /\ UNCHANGED <<task_state, call, blk_state, mutex_task, obj_type>>
        /\ blk_obj' = [blk_obj EXCEPT ![op.task] = NULL]
        /\ task_state[op.task] \notin Pending
        /\ pc = "pri" /\ pc' \in {"tick", "sched"}
    BY <1>2 DEF pend_left, PriChanged, IInv, CallOK
  <2>2. \A u \in AllTask : task_state[u] \in Pending => blk_obj'[u] = blk_obj[u]
    BY <1>0, <2>1
  <2>. QED BY <2>1, <2>2, OutFrame DEF CallerOK, BeingDeleted
<1>3. ASSUME UNCHANGED <<taskVars, mutex_task>>, pc \in {"run", "sched"}, CallerOK',
             \A m \in Mutex : obj_type'[m] = obj_type[m]
      PROVE  OutInv'
  BY <1>3, OutFrame DEF BeingDeleted
<1>4. ASSUME NEW m \in Mutex,
             \/ mutex_lock_nested(m) \/ mutex_unlock_nested(m) \/ mutex_unlock_release(m)
             \/ \E ticks \in Timeouts : mutex_lock_inherit(m, ticks)
      PROVE  OutInv'
  <2>1. /\ UNCHANGED <<taskVars, mutex_task, obj_type, g_active_task>> /\ pc = "run"
        /\ call[g_active_task] = NULL
    BY <1>4 DEF mutex_lock_nested, mutex_unlock_nested, mutex_unlock_release,
                mutex_lock_inherit, TaskCalls, InTask
  <2>2. \/ pc' = "run"
        \/ pc' = "pri" /\ op'.fn = "unlock"
        \/ /\ pc' = "pri" /\ op'.fn = "lock" /\ op'.obj = m /\ op'.task = g_active_task
           /\ mutex_task[m] # g_active_task
    BY <1>4, <2>1 DEF mutex_lock_nested, mutex_unlock_nested, mutex_unlock_release,
                mutex_lock_inherit, StartPriChange
  <2>3. CallerOK'
    BY <2>1, <2>2 DEF CallerOK
  <2>. QED BY <1>3, <2>1, <2>3
<1>5. ASSUME NEW s \in Sem,
             \/ \E n \in 0 .. SemMax : krhino_sem_create(s, n) \/ krhino_sem_count_set(s, n)
             \/ krhino_sem_del(s) \/ sem_give_count(s) \/ sem_give_all(s) \/ sem_take_count(s)
      PROVE  OutInv'
  <2>1. /\ UNCHANGED <<taskVars, mutex_task>> /\ pc \in {"run", "sched"}
        /\ \A m \in Mutex : obj_type'[m] = obj_type[m]
    BY <1>0, <1>5 DEF krhino_sem_create, krhino_sem_count_set, krhino_sem_del, sem_give_count,
                sem_give_all, sem_take_count, TaskCalls, Calls, InTask, InIsr
  <2>2. pc' \in {"run", "sched"} \/ (pc' = "drain" /\ op'.obj = s)
    BY <1>5, <2>1 DEF krhino_sem_create, krhino_sem_count_set, krhino_sem_del, sem_give_count,
                sem_give_all, sem_take_count
  <2>. QED BY <1>3, <2>1, <2>2 DEF CallerOK
<1>6. ASSUME NEW t \in Task, \/ \E pri \in PriChoices : krhino_task_pri_change(t, pri)
                             \/ krhino_task_del(t)
      PROVE  OutInv'
  <2>1. /\ UNCHANGED <<taskVars, mutex_task, obj_type>> /\ pc = "run"
        /\ pc' = "mfree" \/ op'.fn = "pri_change"
    BY <1>6 DEF krhino_task_pri_change, krhino_task_del, TaskCalls, InTask, StartPriChange
  <2>2. CallerOK'
    <3>1. CASE pc' = "mfree"
      BY <3>1 DEF CallerOK
    <3>2. CASE pc' = "pri" /\ op'.fn = "pri_change"
      BY <3>2 DEF CallerOK
    <3>. QED BY <1>6, <2>1, <3>1, <3>2 DEF krhino_task_pri_change, StartPriChange, krhino_task_del
  <2>. QED BY <1>3, <2>1, <2>2
<1>7. CASE krhino_task_yield \/ krhino_sched_disable \/ krhino_sched_enable
  <2>1. /\ UNCHANGED <<taskVars, mutex_task, obj_type>> /\ pc = "run" /\ pc' \in {"run", "sched"}
    BY <1>7 DEF krhino_task_yield, krhino_sched_disable, krhino_sched_enable, TaskCalls, InTask
  <2>. QED BY <1>3, <2>1 DEF CallerOK
<1>. QED BY <1>1, <1>2, <1>4, <1>5, <1>6, <1>7

\* A call that makes its task wait: nobody waits for a mutex of its own.
LEMMA OutPend ==
    ASSUME IInv, OutInv,
           mutex_lock_pend \/ \E s \in Sem, ticks \in Timeouts : sem_take_pend(s, ticks)
    PROVE  OutInv'
<1>0. /\ Task \subseteq AllTask /\ Mutex \subseteq Obj /\ Mutex \cap Sem = {}
      /\ task_state \in [AllTask -> TaskStat] /\ call \in [AllTask -> Obj \cup {NULL, "sleep"}]
      /\ blk_obj \in [AllTask -> Obj \cup {NULL}] /\ g_active_task \in AllTask
  BY Consts DEF IInv, TypeOK
<1>1. \E t \in Task, o \in Obj :
        /\ task_state' = [task_state EXCEPT ![t] = "K_PEND"]
        /\ blk_obj' = [blk_obj EXCEPT ![t] = o]
        /\ call' = [call EXCEPT ![t] = o]
        /\ UNCHANGED <<blk_state, mutex_task, obj_type>>
        /\ pc' = "sched" /\ pc # "mfree"
        /\ o \in Mutex => mutex_task[o] # t
  <2>1. CASE mutex_lock_pend
    <3>1. op.task \in Task /\ op.obj \in Mutex /\ mutex_task[op.obj] # op.task
      BY <2>1 DEF mutex_lock_pend, PriChanged, OutInv, CallerOK, IInv, CallOK
    <3>. QED BY <1>0, <2>1, <3>1 DEF mutex_lock_pend, pend_to_blk_obj, PriChanged
  <2>2. CASE \E s \in Sem, ticks \in Timeouts : sem_take_pend(s, ticks)
    <3>. PICK s \in Sem, ticks \in Timeouts : sem_take_pend(s, ticks)
      BY <2>2
    <3>1. g_active_task \in Task /\ s \in Obj
      BY <1>0, Consts DEF sem_take_pend, TaskCalls, InTask
    <3>. QED BY <1>0, <3>1 DEF sem_take_pend, pend_to_blk_obj, TaskCalls, InTask
  <2>. QED BY <2>1, <2>2
<1>. PICK t \in Task, o \in Obj :
        /\ task_state' = [task_state EXCEPT ![t] = "K_PEND"]
        /\ blk_obj' = [blk_obj EXCEPT ![t] = o]
        /\ call' = [call EXCEPT ![t] = o]
        /\ UNCHANGED <<blk_state, mutex_task, obj_type>>
        /\ pc' = "sched" /\ pc # "mfree"
        /\ o \in Mutex => mutex_task[o] # t
  BY <1>1
<1>2. task_state'[t] = "K_PEND" /\ blk_obj'[t] = o
  BY <1>0
<1>3. \A u \in AllTask : u # t =>
        /\ task_state'[u] = task_state[u] /\ call'[u] = call[u]
        /\ blk_state'[u] = blk_state[u] /\ blk_obj'[u] = blk_obj[u]
        /\ BeingDeleted(u) => BeingDeleted(u)'
  BY <1>0 DEF BeingDeleted
<1>4. CallerOK'
  BY DEF CallerOK
<1>. QED BY <1>2, <1>3, <1>4, StateNames, OutTask

\* A waiter that is woken from a semaphore, or from a mutex it does not get.
LEMMA OutWake ==
    ASSUME IInv, OutInv, NEW o \in Obj, NEW why \in BlkStat, blk_list[o] # <<>>,
           pend_task_wakeup(Head(blk_list[o]), o, why),
           o \in Sem \/ why # "BLK_FINISH",
           UNCHANGED <<mutex_task, obj_type>>, pc # "mfree", CallerOK'
    PROVE  OutInv'
<1>0. /\ Task \subseteq AllTask /\ Mutex \subseteq Obj /\ Mutex \cap Sem = {}
      /\ task_state \in [AllTask -> TaskStat] /\ blk_state \in [AllTask -> BlkStat]
      /\ blk_obj \in [AllTask -> Obj \cup {NULL}]
  BY Consts DEF IInv, TypeOK
<1>. PICK t \in Task : t = Head(blk_list[o])
  BY FirstWaiter
<1>1. task_state[t] \in Pending /\ blk_obj[t] = o /\ call[t] = o
  BY <1>0, FirstWaiter DEF IInv, WaitersListed
<1>2. \A u \in AllTask : u # t =>
        /\ task_state'[u] = task_state[u] /\ call'[u] = call[u]
        /\ blk_state'[u] = blk_state[u] /\ blk_obj'[u] = blk_obj[u]
        /\ BeingDeleted(u) => BeingDeleted(u)'
  BY <1>0 DEF pend_task_wakeup, BeingDeleted
<1>3. /\ task_state'[t] \in {"K_RDY", "K_SUSPENDED"} /\ call'[t] = o /\ blk_state'[t] = why
  BY <1>0, <1>1 DEF pend_task_wakeup
<1>4. task_state'[t] \notin Pending \cup Dead \cup Sleeping
  BY <1>3 DEF Pending, Dead, Sleeping
<1>5. \A m \in Mutex : call'[t] = m => Told(t, m)'
  BY <1>0, <1>1, <1>3 DEF Told, OutInv, NotOwnWaiter
<1>. QED BY <1>2, <1>4, <1>5, OutTask

\* Wake-all loops and krhino_sem_give.
LEMMA OutWakes ==
    ASSUME IInv, OutInv, drain_step \/ \E s \in Sem : sem_give_one(s)
    PROVE  OutInv'
<1>1. CASE drain_step
  <2>1. op.obj \in Obj /\ pc = "drain" /\ pc' = pc /\ op' = op
    BY <1>1 DEF drain_step, IInv, CallOK
  <2>2. op.fn = "give_all" => op.obj \in Sem
    BY <2>1 DEF OutInv, CallerOK
  <2>. PICK o \in Obj, why \in BlkStat :
            o = op.obj /\ why = IF op.fn = "give_all" THEN "BLK_FINISH" ELSE "BLK_DEL"
    BY <2>1 DEF BlkStat
  <2>3. CallerOK'
    BY <2>1, <2>2 DEF CallerOK
  <2>. QED BY <1>1, <2>1, <2>2, <2>3, OutWake DEF drain_step
<1>2. ASSUME NEW s \in Sem, sem_give_one(s) PROVE OutInv'
  <2>1. pc \in {"run", "sched"} /\ pc' = "sched"
    BY <1>2 DEF sem_give_one, Calls, TaskCalls, InTask, InIsr
  <2>2. s \in Obj /\ "BLK_FINISH" \in BlkStat /\ CallerOK'
    BY <2>1, Consts DEF CallerOK, BlkStat
  <2>. QED BY <1>2, <2>1, <2>2, OutWake DEF sem_give_one
<1>. QED BY <1>1, <1>2

\* A waiter that gives up does not own the mutex it waited for.
LEMMA OutGiveUp ==
    ASSUME IInv, OutInv, tick_expire_pend \/ \E t \in Task : wait_abort_pend(t)
    PROVE  OutInv'
<1>0. /\ Task \subseteq AllTask /\ Mutex \subseteq Obj
      /\ task_state \in [AllTask -> TaskStat] /\ blk_state \in [AllTask -> BlkStat]
  BY Consts DEF IInv, TypeOK
<1>1. \E t \in Task, why \in {"BLK_ABORT", "BLK_TIMEOUT"}, st \in {"K_RDY", "K_SUSPENDED"} :
        /\ task_state[t] \in Pending
        /\ task_state' = [task_state EXCEPT ![t] = st]
        /\ blk_state' = [blk_state EXCEPT ![t] = why]
        /\ UNCHANGED <<call, blk_obj, mutex_task, obj_type>>
        /\ pc' = "pri" /\ op'.fn \in {"abort", "tick"} /\ pc # "mfree"
  <2>1. CASE tick_expire_pend
    <3>. PICK t \in Task : t = Head(g_tick_head)
      BY <2>1, TickHeadTask DEF tick_expire_pend, TickHeadExpired
    <3>1. \E st \in {"K_RDY", "K_SUSPENDED"} : task_state' = [task_state EXCEPT ![t] = st]
      BY <2>1 DEF tick_expire_pend
    <3>2. /\ task_state[t] \in Pending
          /\ blk_state' = [blk_state EXCEPT ![t] = "BLK_TIMEOUT"]
          /\ UNCHANGED <<call, blk_obj, mutex_task, obj_type>>
          /\ pc' = "pri" /\ op'.fn = "tick" /\ pc # "mfree"
      BY <2>1 DEF tick_expire_pend, StartPriChange
    <3>. PICK st \in {"K_RDY", "K_SUSPENDED"} : task_state' = [task_state EXCEPT ![t] = st]
      BY <3>1
    <3>. WITNESS t \in Task, "BLK_TIMEOUT" \in {"BLK_ABORT", "BLK_TIMEOUT"},
                 st \in {"K_RDY", "K_SUSPENDED"}
    <3>. QED BY <3>2
  <2>2. CASE \E t \in Task : wait_abort_pend(t)
    <3>. PICK t \in Task : wait_abort_pend(t)
      BY <2>2
    <3>1. /\ task_state[t] \in Pending
          /\ task_state' = [task_state EXCEPT ![t] = "K_RDY"]
          /\ blk_state' = [blk_state EXCEPT ![t] = "BLK_ABORT"]
          /\ UNCHANGED <<call, blk_obj, mutex_task, obj_type>>
          /\ pc' = "pri" /\ op'.fn = "abort" /\ pc # "mfree"
      BY DEF wait_abort_pend, StartPriChange, TaskCalls, InTask
    <3>. QED BY <3>1
  <2>. QED BY <2>1, <2>2
<1>. PICK t \in Task, why \in {"BLK_ABORT", "BLK_TIMEOUT"}, st \in {"K_RDY", "K_SUSPENDED"} :
        /\ task_state[t] \in Pending
        /\ task_state' = [task_state EXCEPT ![t] = st]
        /\ blk_state' = [blk_state EXCEPT ![t] = why]
        /\ UNCHANGED <<call, blk_obj, mutex_task, obj_type>>
        /\ pc' = "pri" /\ op'.fn \in {"abort", "tick"} /\ pc # "mfree"
  BY <1>1
<1>2. blk_obj[t] \in Obj /\ call[t] = blk_obj[t]
  BY <1>0 DEF IInv, WaitersListed
<1>3. task_state'[t] = st /\ st \notin Pending \cup Dead \cup Sleeping /\ blk_state'[t] = why
  BY <1>0 DEF Pending, Dead, Sleeping
<1>4. \A m \in Mutex : call'[t] = m => Told(t, m)'
  BY <1>0, <1>2, <1>3 DEF Told, OutInv, NotOwnWaiter
<1>5. \A u \in AllTask : u # t =>
        /\ task_state'[u] = task_state[u] /\ call'[u] = call[u]
        /\ blk_state'[u] = blk_state[u] /\ blk_obj'[u] = blk_obj[u]
        /\ BeingDeleted(u) => BeingDeleted(u)'
  BY <1>0 DEF BeingDeleted
<1>6. CallerOK'
  BY DEF CallerOK
<1>. QED BY <1>3, <1>4, <1>5, <1>6, OutTask

\* The steps that change the state of one task that does not wait for an object.
LEMMA OutOne ==
    ASSUME IInv, OutInv,
           \/ tick_expire_sleep \/ task_del_unlink \/ pend_state_end_proc
           \/ \E ticks \in Timeouts : krhino_task_sleep(ticks)
           \/ \E t \in Task : \/ \E autorun \in BOOLEAN : krhino_task_create(t, autorun)
                              \/ krhino_task_suspend(t) \/ krhino_task_resume(t)
                              \/ wait_abort_nonpend(t)
    PROVE  OutInv'
<1>0. /\ Task \subseteq AllTask /\ Mutex \subseteq Obj /\ g_active_task \in AllTask
      /\ task_state \in [AllTask -> TaskStat] /\ blk_state \in [AllTask -> BlkStat]
      /\ blk_obj \in [AllTask -> Obj \cup {NULL}] /\ call \in [AllTask -> Obj \cup {NULL, "sleep"}]
      /\ NULL \notin Mutex /\ "sleep" \notin Mutex
  BY Consts, TasksAssumption DEF IInv, TypeOK, Obj
<1>1. CASE tick_expire_sleep
  <2>1. Head(g_tick_head) \in Task
    BY <1>1, TickHeadTask DEF tick_expire_sleep, TickHeadExpired
  <2>. PICK t \in Task : t = Head(g_tick_head)
    BY <2>1
  <2>2. task_state'[t] \in {"K_RDY", "K_SUSPENDED"} /\ call'[t] = "sleep"
    BY <1>0, <1>1 DEF tick_expire_sleep, OutInv, CallsMatch
  <2>3. task_state'[t] \notin Pending \cup Dead \cup Sleeping
    BY <2>2 DEF Pending, Dead, Sleeping
  <2>4. \A u \in AllTask : u # t =>
          /\ task_state'[u] = task_state[u] /\ call'[u] = call[u]
          /\ blk_state'[u] = blk_state[u] /\ blk_obj'[u] = blk_obj[u]
          /\ BeingDeleted(u) => BeingDeleted(u)'
    BY <1>0, <1>1 DEF tick_expire_sleep, BeingDeleted
  <2>5. CallerOK' /\ UNCHANGED <<mutex_task, obj_type>>
    BY <1>1 DEF tick_expire_sleep, CallerOK
  <2>. QED BY <1>0, <2>2, <2>3, <2>4, <2>5, OutTask
<1>2. CASE task_del_unlink
  <2>. PICK t \in Task : t = op.task
    BY <1>2 DEF task_del_unlink, IInv, CallOK
  <2>2. task_state'[t] = "K_DELETED" /\ call'[t] = NULL
    BY <1>0, <1>2 DEF task_del_unlink
  <2>4. \A u \in AllTask : u # t =>
          /\ task_state'[u] = task_state[u] /\ call'[u] = call[u]
          /\ blk_state'[u] = blk_state[u] /\ blk_obj'[u] = blk_obj[u]
          /\ BeingDeleted(u) => BeingDeleted(u)'
    BY <1>0, <1>2 DEF task_del_unlink, BeingDeleted
  <2>5. CallerOK' /\ UNCHANGED <<mutex_task, obj_type>>
    BY <1>2 DEF task_del_unlink, CallerOK, IInv, CallOK
  <2>6. "K_DELETED" \notin Pending \cup Sleeping
    BY DEF Pending, Sleeping
  <2>. QED BY <1>0, <2>2, <2>4, <2>5, <2>6, OutTask
<1>3. CASE pend_state_end_proc
  <2>1. /\ UNCHANGED <<task_state, blk_obj, mutex_task, obj_type>> /\ pc = "run" /\ pc' = "run"
        /\ call' = [call EXCEPT ![g_active_task] = NULL]
        /\ task_state[g_active_task] = "K_RDY"
        /\ \A u \in AllTask : u # g_active_task =>
             blk_state'[u] = blk_state[u] /\ call'[u] = call[u]
    BY <1>0, <1>3 DEF pend_state_end_proc, IInv, ActiveReady
  <2>2. NotOwnWaiter'
    BY <2>1 DEF OutInv, NotOwnWaiter
  <2>3. CallsMatch'
    BY <1>0, <2>1 DEF OutInv, CallsMatch, Dead, Sleeping
  <2>4. Outcome'
    <3>. SUFFICES ASSUME NEW u \in Task, NEW m \in Mutex,
                         call'[u] = m, task_state'[u] \notin Pending
                  PROVE  Told(u, m)'
      BY DEF Outcome
    <3>1. u # g_active_task
      BY <1>0, <2>1
    <3>2. Told(u, m)
      BY <1>0, <2>1, <3>1 DEF OutInv, Outcome, BeingDeleted
    <3>. QED BY <1>0, <2>1, <3>1, <3>2 DEF Told, Valid
  <2>5. CallerOK'
    BY <2>1 DEF CallerOK
  <2>. QED BY <2>2, <2>3, <2>4, <2>5 DEF OutInv
<1>4. ASSUME NEW ticks \in Timeouts, krhino_task_sleep(ticks) PROVE OutInv'
  <2>. PICK t \in Task : t = g_active_task
    BY <1>0, <1>4, Consts DEF krhino_task_sleep, TaskCalls, InTask
  <2>2. task_state'[t] = "K_SLEEP" /\ call'[t] = "sleep"
    BY <1>0, <1>4 DEF krhino_task_sleep
  <2>3. "K_SLEEP" \notin Pending \cup Dead
    BY DEF Pending, Dead
  <2>4. \A u \in AllTask : u # t =>
          /\ task_state'[u] = task_state[u] /\ call'[u] = call[u]
          /\ blk_state'[u] = blk_state[u] /\ blk_obj'[u] = blk_obj[u]
          /\ BeingDeleted(u) => BeingDeleted(u)'
    BY <1>0, <1>4 DEF krhino_task_sleep, BeingDeleted, TaskCalls, InTask
  <2>5. CallerOK' /\ UNCHANGED <<mutex_task, obj_type>>
    BY <1>4 DEF krhino_task_sleep, CallerOK
  <2>. QED BY <1>0, <2>2, <2>3, <2>4, <2>5, OutTask
<1>5. ASSUME NEW t \in Task, NEW autorun \in BOOLEAN, krhino_task_create(t, autorun)
      PROVE  OutInv'
  <2>2. task_state'[t] \in {"K_RDY", "K_SUSPENDED"} /\ call'[t] = NULL
    BY <1>0, <1>5 DEF krhino_task_create, OutInv, CallsMatch
  <2>3. task_state'[t] \notin Pending \cup Dead \cup Sleeping
    BY <2>2 DEF Pending, Dead, Sleeping
  <2>4. \A u \in AllTask : u # t =>
          /\ task_state'[u] = task_state[u] /\ call'[u] = call[u]
          /\ blk_state'[u] = blk_state[u] /\ blk_obj'[u] = blk_obj[u]
          /\ BeingDeleted(u) => BeingDeleted(u)'
    BY <1>0, <1>5 DEF krhino_task_create, BeingDeleted, TaskCalls, InTask
  <2>5. CallerOK' /\ UNCHANGED <<mutex_task, obj_type>>
    BY <1>5 DEF krhino_task_create, CallerOK, TaskCalls, InTask
  <2>. QED BY <1>0, <2>2, <2>3, <2>4, <2>5, OutTask
<1>6. ASSUME NEW t \in Task, krhino_task_suspend(t) \/ krhino_task_resume(t) PROVE OutInv'
  <2>1. /\ UNCHANGED <<blk_state, blk_obj, call, mutex_task, obj_type>>
        /\ pc \in {"run", "sched"} /\ pc' = "sched"
        /\ \E st \in TaskStat : task_state' = [task_state EXCEPT ![t] = st]
        /\ task_state'[t] \in Pending <=> task_state[t] \in Pending
        /\ task_state'[t] \in Sleeping <=> task_state[t] \in Sleeping
        /\ task_state'[t] \in Dead <=> task_state[t] \in Dead
    <3>0. task_state = [task_state EXCEPT ![t] = task_state[t]] /\ task_state[t] \in TaskStat
      BY <1>0
    <3>1. CASE krhino_task_suspend(t)
      BY <1>0, <3>0, <3>1
         DEF krhino_task_suspend, SuspendedFrom, Calls, TaskCalls, InTask, InIsr,
             TaskStat, Pending, Sleeping, Dead, Suspended
    <3>2. CASE krhino_task_resume(t)
      BY <1>0, <3>0, <3>2
         DEF krhino_task_resume, ResumedFrom, Calls, TaskCalls, InTask, InIsr,
             TaskStat, Pending, Sleeping, Dead, Suspended
    <3>. QED BY <1>6, <3>1, <3>2
  <2>2. \A u \in AllTask : u # t =>
          /\ task_state'[u] = task_state[u] /\ call'[u] = call[u]
          /\ blk_state'[u] = blk_state[u] /\ blk_obj'[u] = blk_obj[u]
          /\ BeingDeleted(u) => BeingDeleted(u)'
    BY <1>0, <2>1 DEF BeingDeleted
  <2>3. \A m \in Mutex : call'[t] = m /\ task_state'[t] \notin Pending => Told(t, m)'
    BY <1>0, <2>1 DEF OutInv, Outcome, Told, Valid, BeingDeleted
  <2>4. CallerOK'
    BY <2>1 DEF CallerOK
  <2>. QED BY <1>0, <2>1, <2>2, <2>3, <2>4, OutTask DEF OutInv, NotOwnWaiter, CallsMatch
<1>7. ASSUME NEW t \in Task, wait_abort_nonpend(t) PROVE OutInv'
  <2>1. /\ UNCHANGED <<blk_obj, call, mutex_task, obj_type>>
        /\ pc = "run" /\ pc' = "sched"
        /\ task_state' = [task_state EXCEPT ![t] = "K_RDY"]
        /\ task_state[t] \in {"K_SUSPENDED"} \cup Sleeping
    BY <1>7 DEF wait_abort_nonpend, TaskCalls, InTask
  <2>2. \A u \in AllTask : u # t =>
          /\ task_state'[u] = task_state[u] /\ call'[u] = call[u]
          /\ blk_state'[u] = blk_state[u] /\ blk_obj'[u] = blk_obj[u]
          /\ BeingDeleted(u) => BeingDeleted(u)'
    BY <1>0, <1>7, <2>1 DEF wait_abort_nonpend, BeingDeleted
  <2>3. \A m \in Mutex : call'[t] = m => Told(t, m)'
    <3>1. CASE task_state[t] \in Sleeping
      BY <1>0, <2>1, <3>1 DEF OutInv, CallsMatch
    <3>2. CASE task_state[t] \notin Sleeping
      <4>1. task_state[t] \notin Pending /\ blk_state'[t] = blk_state[t]
        BY <1>0, <1>7, <2>1, <3>2 DEF wait_abort_nonpend, Pending
      <4>. QED BY <1>0, <2>1, <4>1 DEF OutInv, Outcome, Told, Valid, BeingDeleted
    <3>. QED BY <3>1, <3>2
  <2>4. task_state'[t] \notin Pending \cup Dead \cup Sleeping
    BY <1>0, <2>1 DEF Pending, Dead, Sleeping
  <2>5. CallerOK'
    BY <2>1 DEF CallerOK
  <2>. QED BY <2>1, <2>2, <2>3, <2>4, <2>5, OutTask
<1>. QED BY <1>1, <1>2, <1>3, <1>4, <1>5, <1>6, <1>7

\* The mutex m goes to w, or to nobody, and nobody else was told it got m.
GivesTruly(m, w) ==
    /\ mutex_task' = [mutex_task EXCEPT ![m] = w]
    /\ \A k \in Mutex : k # m => obj_type'[k] = obj_type[k]
    /\ \A u \in AllTask : u # w =>
         /\ task_state'[u] = task_state[u] /\ call'[u] = call[u]
         /\ blk_state'[u] = blk_state[u] /\ blk_obj'[u] = blk_obj[u]
    /\ w # NULL =>
         /\ task_state'[w] \notin Pending \cup Dead \cup Sleeping
         /\ call'[w] = NULL \/ (call'[w] = m /\ blk_state'[w] = "BLK_FINISH")
    /\ \A u \in Task :
         (u # w /\ call[u] = m /\ task_state[u] \notin Pending /\ ~BeingDeleted(u)') =>
            blk_state[u] # "BLK_FINISH" \/ ~Valid(m)'
    /\ \A u \in Task : BeingDeleted(u) => BeingDeleted(u)'

\* The same step tells the truth to the task that gets the mutex.
LEMMA OutOwner ==
    ASSUME IInv, OutInv, NEW m \in Mutex, NEW w \in Task \cup {NULL}, GivesTruly(m, w), CallerOK'
    PROVE  OutInv'
<1>0. /\ Task \subseteq AllTask /\ NULL \notin AllTask /\ NULL \notin Mutex /\ Mutex \subseteq Obj
      /\ mutex_task \in [Mutex -> AllTask \cup {NULL}]
  BY Consts DEF IInv, TypeOK
<1>1. \A k \in Mutex : mutex_task'[k] = IF k = m THEN w ELSE mutex_task[k]
  BY <1>0 DEF GivesTruly
<1>2. NotOwnWaiter'
  <2>. SUFFICES ASSUME NEW u \in AllTask, task_state'[u] \in Pending, blk_obj'[u] \in Mutex
                PROVE  mutex_task'[blk_obj'[u]] # u
    BY DEF NotOwnWaiter
  <2>1. u # w
    BY <1>0 DEF GivesTruly
  <2>2. task_state[u] \in Pending /\ blk_obj'[u] = blk_obj[u]
    BY <2>1 DEF GivesTruly
  <2>. QED BY <1>1, <2>1, <2>2 DEF OutInv, NotOwnWaiter
<1>3. CallsMatch'
  BY <1>0 DEF OutInv, CallsMatch, GivesTruly
<1>4. Outcome'
  <2>. SUFFICES ASSUME NEW u \in Task, NEW k \in Mutex,
                       call'[u] = k, task_state'[u] \notin Pending, ~BeingDeleted(u)'
                PROVE  Told(u, k)'
    BY DEF Outcome
  <2>1. CASE u = w
    BY <1>0, <1>1, <2>1 DEF GivesTruly, Told
  <2>2. CASE u # w
    <3>1. /\ call[u] = k /\ task_state[u] \notin Pending /\ blk_state'[u] = blk_state[u]
          /\ ~BeingDeleted(u)
      BY <1>0, <2>2 DEF GivesTruly
    <3>2. CASE k = m
      BY <1>1, <2>2, <3>1, <3>2 DEF GivesTruly, Told
    <3>3. CASE k # m
      <4>1. Told(u, k)
        BY <3>1 DEF OutInv, Outcome
      <4>2. obj_type'[k] = obj_type[k]
        BY <3>3 DEF GivesTruly
      <4>. QED BY <1>1, <3>1, <3>3, <4>1, <4>2 DEF Told, Valid
    <3>. QED BY <3>2, <3>3
  <2>. QED BY <2>1, <2>2
<1>. QED BY <1>2, <1>3, <1>4 DEF OutInv

\* A mutex that is initialised, taken, released, handed over or deleted.
LEMMA OutOwners ==
    ASSUME IInv, OwnInv, OutInv,
           \/ mutex_unlock_free \/ mutex_unlock_handover \/ task_mutex_free
           \/ \E m \in Mutex : krhino_mutex_create(m) \/ mutex_lock_free(m) \/ krhino_mutex_del(m)
    PROVE  OutInv'
<1>0. /\ Task \subseteq AllTask /\ NULL \notin AllTask /\ NULL \notin Mutex /\ Mutex \subseteq Obj
      /\ mutex_task \in [Mutex -> AllTask \cup {NULL}] /\ g_active_task \in AllTask
      /\ obj_type \in [Obj -> ObjType] /\ task_state \in [AllTask -> TaskStat]
      /\ blk_state \in [AllTask -> BlkStat] /\ blk_obj \in [AllTask -> Obj \cup {NULL}]
      /\ NULL \in Task \cup {NULL}
  BY Consts DEF IInv, TypeOK
<1>1. \A u \in Task, m \in Mutex :
        (call[u] = m /\ task_state[u] \notin Pending /\ ~BeingDeleted(u) /\ Valid(m) /\ mutex_task[m] # u)
          => blk_state[u] # "BLK_FINISH"
  BY DEF OutInv, Outcome, Told
<1>2. ASSUME NEW m \in Mutex, krhino_mutex_create(m) PROVE OutInv'
  <2>1. UNCHANGED <<taskVars, ctlVars>> /\ pc = "run" /\ \A u \in Task : call[u] # m
    BY <1>2 DEF krhino_mutex_create, TaskCalls, InTask
  <2>2. GivesTruly(m, NULL)
    BY <1>0, <1>2, <2>1 DEF GivesTruly, krhino_mutex_create, BeingDeleted
  <2>. QED BY <1>0, <2>1, <2>2, OutOwner DEF CallerOK
<1>3. ASSUME NEW m \in Mutex, mutex_lock_free(m) PROVE OutInv'
  <2>. PICK t \in Task : t = g_active_task
    BY <1>0, <1>3, Consts DEF mutex_lock_free, TaskCalls, InTask
  <2>1. /\ UNCHANGED <<taskVars, ctlVars, obj_type>> /\ pc = "run" /\ Valid(m)
        /\ mutex_task[m] = NULL /\ mutex_task' = [mutex_task EXCEPT ![m] = t]
        /\ task_state[t] = "K_RDY" /\ call[t] = NULL
    BY <1>3 DEF mutex_lock_free, TaskCalls, InTask, IInv, ActiveReady
  <2>2. "K_RDY" \notin Pending \cup Dead \cup Sleeping
    BY StateNames
  <2>3. GivesTruly(m, t)
    BY <1>0, <1>1, <2>1, <2>2 DEF GivesTruly, BeingDeleted
  <2>. QED BY <1>0, <2>1, <2>3, OutOwner DEF CallerOK
<1>4. ASSUME NEW m \in Mutex, krhino_mutex_del(m) PROVE OutInv'
  <2>1. UNCHANGED taskVars /\ pc = "run" /\ pc' = "pri" /\ op'.fn = "mutex_del"
    BY <1>4 DEF krhino_mutex_del, TaskCalls, InTask, StartPriChange
  <2>2. ~Valid(m)'
    BY <1>0, <1>4 DEF krhino_mutex_del, Valid
  <2>3. /\ mutex_task' = [mutex_task EXCEPT ![m] = NULL]
        /\ obj_type' = [obj_type EXCEPT ![m] = "RHINO_OBJ_TYPE_NONE"]
    BY <1>4 DEF krhino_mutex_del
  <2>4. GivesTruly(m, NULL)
    BY <1>0, <2>1, <2>2, <2>3 DEF GivesTruly, BeingDeleted
  <2>. QED BY <1>0, <2>1, <2>4, OutOwner DEF CallerOK
<1>5. CASE mutex_unlock_free \/ mutex_unlock_handover
  <2>. PICK m \in Mutex : m = op.obj
    BY <1>5 DEF mutex_unlock_free, mutex_unlock_handover, PriChanged, IInv, CallOK
  <2>1. /\ Released(m) /\ pc = "pri" /\ call[g_active_task] = NULL
        /\ pc' \in {"run", "sched"} /\ UNCHANGED obj_type
    BY <1>5 DEF mutex_unlock_free, mutex_unlock_handover, PriChanged, Released, OutInv, CallerOK
  <2>2. mutex_task[m] = g_active_task /\ Valid(m)
    BY <2>1 DEF OwnInv, OwnersListed
  <2>3. \A u \in Task : call[u] = m /\ task_state[u] \notin Pending => blk_state[u] # "BLK_FINISH"
    BY <1>0, <1>1, <2>1, <2>2 DEF BeingDeleted
  <2>4. CASE mutex_unlock_free
    <3>1. UNCHANGED taskVars /\ mutex_task' = [mutex_task EXCEPT ![m] = NULL]
      BY <2>4 DEF mutex_unlock_free
    <3>2. GivesTruly(m, NULL)
      BY <1>0, <2>1, <2>3, <3>1 DEF GivesTruly, BeingDeleted
    <3>. QED BY <1>0, <2>1, <3>2, OutOwner DEF CallerOK
  <2>5. CASE mutex_unlock_handover
    <3>1. blk_list[m] # <<>>
      BY <2>5 DEF mutex_unlock_handover
    <3>. PICK w \in Task : w = Head(blk_list[m])
      BY <1>0, <3>1, FirstWaiter
    <3>2. call[w] = m
      BY <1>0, <3>1, FirstWaiter DEF IInv, WaitersListed
    <3>3. /\ mutex_task' = [mutex_task EXCEPT ![m] = w] /\ pend_task_wakeup(w, m, "BLK_FINISH")
      BY <2>5 DEF mutex_unlock_handover
    <3>4. /\ task_state'[w] \in {"K_RDY", "K_SUSPENDED"} /\ call'[w] = m
          /\ blk_state'[w] = "BLK_FINISH"
      BY <1>0, <3>2, <3>3 DEF pend_task_wakeup
    <3>5. task_state'[w] \notin Pending \cup Dead \cup Sleeping
      BY <3>4 DEF Pending, Dead, Sleeping
    <3>6. \A u \in AllTask : u # w =>
            /\ task_state'[u] = task_state[u] /\ call'[u] = call[u]
            /\ blk_state'[u] = blk_state[u] /\ blk_obj'[u] = blk_obj[u]
      BY <1>0, <3>3 DEF pend_task_wakeup
    <3>7. GivesTruly(m, w)
      BY <1>0, <2>1, <2>3, <3>3, <3>4, <3>5, <3>6 DEF GivesTruly, BeingDeleted
    <3>. QED BY <2>1, <3>7, OutOwner DEF CallerOK
  <2>. QED BY <1>5, <2>4, <2>5
<1>6. CASE task_mutex_free
  <2>. PICK d \in Task : d = op.task
    BY <1>6 DEF task_mutex_free, IInv, CallOK
  <2>1. mutex_list[d] # <<>> /\ mutex_list[d] \in Seq(Mutex) /\ pc = "mfree" /\ UNCHANGED <<pc, op, obj_type>>
    BY <1>0, <1>6 DEF task_mutex_free, IInv, TypeOK
  <2>. PICK m \in Mutex : m = Head(mutex_list[d])
    BY <2>1
  <2>2. m \in ToSet(mutex_list[d])
    BY <2>1, ToSetProps
  <2>3. mutex_task[m] = d /\ Valid(m)
    BY <1>0, <2>2 DEF OwnInv, ListsOwned
  <2>4. \A u \in Task : BeingDeleted(u) <=> u = d
    BY <2>1 DEF BeingDeleted
  <2>5. \A u \in Task : BeingDeleted(u)' <=> u = d
    BY <2>1 DEF BeingDeleted
  <2>6. \A u \in Task : call[u] = m /\ task_state[u] \notin Pending /\ u # d
                          => blk_state[u] # "BLK_FINISH"
    BY <1>1, <2>3, <2>4
  <2>7. CallerOK'
    BY <2>1 DEF CallerOK
  <2>8. CASE blk_list[m] = <<>>
    <3>1. UNCHANGED taskVars /\ mutex_task' = [mutex_task EXCEPT ![m] = NULL]
      BY <1>6, <2>8 DEF task_mutex_free
    <3>2. GivesTruly(m, NULL)
      BY <1>0, <2>1, <2>4, <2>5, <2>6, <3>1 DEF GivesTruly
    <3>. QED BY <1>0, <2>7, <3>2, OutOwner
  <2>9. CASE blk_list[m] # <<>>
    <3>. PICK w \in Task : w = Head(blk_list[m])
      BY <1>0, <2>9, FirstWaiter
    <3>2. call[w] = m
      BY <1>0, <2>9, FirstWaiter DEF IInv, WaitersListed
    <3>3. /\ mutex_task' = [mutex_task EXCEPT ![m] = w] /\ pend_task_wakeup(w, m, "BLK_FINISH")
      BY <1>6, <2>9 DEF task_mutex_free
    <3>4. /\ task_state'[w] \in {"K_RDY", "K_SUSPENDED"} /\ call'[w] = m
          /\ blk_state'[w] = "BLK_FINISH"
      BY <1>0, <3>2, <3>3 DEF pend_task_wakeup
    <3>5. task_state'[w] \notin Pending \cup Dead \cup Sleeping
      BY <3>4 DEF Pending, Dead, Sleeping
    <3>6. \A u \in AllTask : u # w =>
            /\ task_state'[u] = task_state[u] /\ call'[u] = call[u]
            /\ blk_state'[u] = blk_state[u] /\ blk_obj'[u] = blk_obj[u]
      BY <1>0, <3>3 DEF pend_task_wakeup
    <3>7. GivesTruly(m, w)
      BY <1>0, <2>1, <2>4, <2>5, <2>6, <3>3, <3>4, <3>5, <3>6 DEF GivesTruly
    <3>. QED BY <2>7, <3>7, OutOwner
  <2>. QED BY <2>8, <2>9
<1>. QED BY <1>2, <1>3, <1>4, <1>5, <1>6

\* Every step keeps what the callers of krhino_mutex_lock will be told true.
LEMMA NextOut == IInv /\ OwnInv /\ OutInv /\ [Next]_vars => OutInv'
<1>. SUFFICES ASSUME IInv, OwnInv, OutInv, [Next]_vars PROVE OutInv'
  OBVIOUS
<1>1. CASE KernelStep
  BY <1>1, OutSteady, OutPend, OutWakes, OutGiveUp, OutOne, OutOwners DEF KernelStep
<1>2. CASE core_sched \/ krhino_tick_proc \/ UNCHANGED vars
  BY <1>2, OutSteady
<1>3. CASE pend_state_end_proc
  BY <1>3, OutOne
<1>4. CASE MutexCall
  BY <1>4, OutSteady, OutOwners DEF MutexCall, krhino_mutex_lock, krhino_mutex_unlock
<1>5. CASE SemCall
  BY <1>5, OutSteady, OutPend, OutWakes DEF SemCall, krhino_sem_take
<1>6. CASE TaskCall
  BY <1>6, OutSteady, OutGiveUp, OutOne DEF TaskCall, krhino_task_wait_abort
<1>7. CASE CpuCall
  BY <1>7, OutSteady, OutOne DEF CpuCall
<1>. QED BY <1>1, <1>2, <1>3, <1>4, <1>5, <1>6, <1>7 DEF Next

\* The strengthened outcome invariant holds in every reachable state.
THEOREM OutcomeInvariant == Spec => []OutInv
<1>1. Init => OutInv
  <2>. SUFFICES ASSUME Init PROVE OutInv
    OBVIOUS
  <2>1. /\ \A t \in AllTask : task_state[t] \in {"K_RDY", "K_SEED"} /\ call[t] = NULL
        /\ pc = "run"
    BY Consts DEF Init
  <2>2. NULL \notin Mutex /\ Task \subseteq AllTask
    BY Consts
  <2>3. {"K_RDY", "K_SEED"} \cap (Pending \cup Sleeping) = {}
    BY DEF Pending, Sleeping
  <2>4. NotOwnWaiter /\ CallsMatch
    BY <2>1, <2>3 DEF NotOwnWaiter, CallsMatch
  <2>5. Outcome /\ CallerOK
    BY <2>1, <2>2 DEF Outcome, CallerOK
  <2>. QED BY <2>4, <2>5 DEF OutInv
<1>2. IInv /\ OwnInv /\ OutInv /\ [Next]_vars => OutInv'
  BY NextOut
<1>. QED BY <1>1, <1>2, KernelInvariant, OwnersInvariant, PTL DEF Spec

\* krhino_mutex_lock tells its caller the truth: success only to the owner of
\* the mutex, failure only to a task that does not own it.
THEOREM LockReturns == Spec => []LockOutcome
<1>1. OutInv => LockOutcome
  BY DEF OutInv, Outcome, LockOutcome, Told, Valid, BeingDeleted, Stable
<1>. QED BY <1>1, OutcomeInvariant, PTL
=============================================================================
