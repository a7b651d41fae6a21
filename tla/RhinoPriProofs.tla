---------------------------- MODULE RhinoPriProofs ---------------------------
(***************************************************************************)
(* Priorities, for any number of tasks, mutexes and priorities: between    *)
(* kernel calls every task has exactly the priority that is its own or     *)
(* inherited, and the CPU belongs to the first task of the highest ready   *)
(* priority.                                                               *)
(***************************************************************************)
EXTENDS RhinoMutexProofs

USE DEF taskVars, priVars, objVars, mutexVars, tickVars, schedVars, ctlVars

-----------------------------------------------------------------------------
(***************************************************************************)
(* The priority a task should have.                                        *)
(***************************************************************************)
\* w waits for m and its owner has not started to release it, or w is about
\* to wait for m in krhino_mutex_lock.
Wants(w, m) ==
    \/ task_state[w] \in Pending /\ blk_obj[w] = m /\ ~Released(m)
    \/ pc = "pri" /\ op.fn = "lock" /\ w = op.task /\ m = op.obj

\* The tasks whose priority t inherits.
Heir(w, m, t) == mutex_task[m] = t /\ Wants(w, m)
Heirs(t) == {w \in Task : \E m \in Mutex : Heir(w, m, t)}

\* p is the highest of base and of the priorities pr of the tasks H.
Highest(p, base, H, pr) ==
    /\ p <= base
    /\ \A w \in H : p <= pr[w]
    /\ p = base \/ \E w \in H : p = pr[w]

Right(t, p) == Highest(p, b_prio[t], Heirs(t), prio)

\* The priority of t, or the one task_pri_change is about to give it.
Due(t) == IF chg.task = t THEN chg.pri ELSE prio[t]
\* A task that is not in use or is being deleted keeps the priority it had.
Exempt(t) == task_state[t] \in Dead \/ BeingDeleted(t)

\* Every task has the priority it should have, or is about to get it.
PriorityDue == \A t \in Task : Exempt(t) \/ Right(t, Due(t))

\* The change that task_pri_change is about to make, and its caller.
LoopOK ==
    /\ pc # "pri" => chg.task = NULL
    /\ chg.task # NULL => task_state[chg.task] \notin Dead
    /\ pc = "pri" /\ op.fn = "lock" /\ chg.task # NULL =>
         chg.pri = prio[op.task] /\ chg.pri < prio[chg.task]
    /\ pc = "pri" /\ op.fn = "unlock" =>
         /\ chg.task \in {NULL, g_active_task}
         /\ chg.task # NULL => blk_list[op.obj] # <<>>
    /\ pc = "pri" /\ op.fn = "mutex_del" => mutex_task[op.obj] = NULL
    /\ pc = "drain" => op.obj \in Sem \/ (op.obj \in Mutex /\ mutex_task[op.obj] = NULL)

ExactInv == PriorityDue /\ LoopOK

-----------------------------------------------------------------------------
(***************************************************************************)
(* What mutex_pri_look and mutex_pri_limit find.                           *)
(***************************************************************************)
\* There is one highest priority.
LEMMA HighestUnique ==
    ASSUME NEW p \in Int, NEW q \in Int, NEW base \in Int, NEW H, NEW pr,
           \A w \in H : pr[w] \in Int, Highest(p, base, H, pr), Highest(q, base, H, pr)
    PROVE  p = q
BY DEF Highest

\* The first waiters of the mutexes M.
Firsts(M, bl) == {Head(bl[m]) : m \in {k \in M : bl[k] # <<>>}}

\* mutex_pri_look: the most urgent of the base priority and of the first waiters
\* of the mutexes the task keeps.
LEMMA HighestPriProps ==
    ASSUME TypeOK, NEW t \in AllTask, NEW base \in Prio, NEW rel,
           NEW bl \in [Obj -> Seq(AllTask)], NEW pr \in [AllTask -> Prio],
           NEW p, p = HighestPri(t, base, rel, bl, pr)
    PROVE  p \in Prio /\ Highest(p, base, Firsts(ToSet(mutex_list[t]) \ {rel}, bl), pr)
<1>. DEFINE held == {m \in ToSet(mutex_list[t]) \ {rel} : bl[m] # <<>>}
            S == {base} \cup {pr[Head(bl[m])] : m \in held}
<1>1. mutex_list[t] \in Seq(Mutex)
  BY DEF TypeOK
<1>2. ToSet(mutex_list[t]) \subseteq Mutex
  BY <1>1, ToSetProps
<1>3. \A m \in held : pr[Head(bl[m])] \in Prio
  <2>. TAKE m \in held
  <2>1. bl[m] \in Seq(AllTask) /\ bl[m] # <<>>
    BY <1>2, Consts
  <2>. QED BY <2>1
<1>4. S \in SUBSET Prio /\ S # {}
  BY <1>3
<1>5. p \in S /\ \A y \in S : p <= y
  <2>1. Prio \subseteq Nat
    BY PriAssumption DEF Prio
  <2>2. p = Min(S)
    BY DEF HighestPri
  <2>. HIDE DEF S
  <2>. QED BY <1>4, <2>1, <2>2, NatMin
<1>6. base \in S /\ \A m \in held : pr[Head(bl[m])] \in S
  OBVIOUS
<1>7. p = base \/ \E m \in held : p = pr[Head(bl[m])]
  BY <1>5
<1>8. p \in Prio
  BY <1>4, <1>5
<1>9. Highest(p, base, Firsts(ToSet(mutex_list[t]) \ {rel}, bl), pr)
  <2>. HIDE DEF S
  <2>. QED BY <1>5, <1>6, <1>7 DEF Highest, Firsts
<1>. QED BY <1>8, <1>9

\* The waiters of the mutexes on the list of t are its heirs, so that what
\* these functions find in the state after the step is right there.
LEMMA FoundRight ==
    ASSUME TypeOK, IInv', WaitersSorted', OwnInv', NEW t \in Task, NEW rel,
           NEW p, p = HighestPri(t, b_prio'[t], rel, blk_list', prio'),
           ToSet(mutex_list'[t]) = ToSet(mutex_list[t]) \ {rel},
           ~(pc' = "pri" /\ op'.fn = "lock")
    PROVE  Right(t, p)'
<1>0. /\ t \in AllTask /\ Mutex \subseteq Obj /\ Task \subseteq AllTask
      /\ b_prio'[t] \in Prio /\ blk_list' \in [Obj -> Seq(AllTask)] /\ prio' \in [AllTask -> Prio]
      /\ mutex_list'[t] \in Seq(Mutex)
  BY Consts DEF IInv, TypeOK
<1>1. /\ p \in Prio /\ p <= b_prio'[t]
      /\ \A m \in ToSet(mutex_list'[t]) : blk_list'[m] # <<>> => p <= prio'[Head(blk_list'[m])]
      /\ \/ p = b_prio'[t]
         \/ \E m \in ToSet(mutex_list'[t]) : blk_list'[m] # <<>> /\ p = prio'[Head(blk_list'[m])]
  <2>. PICK base \in Prio, bl \in [Obj -> Seq(AllTask)], pr \in [AllTask -> Prio] :
            base = b_prio'[t] /\ bl = blk_list' /\ pr = prio'
    BY <1>0
  <2>1. p = HighestPri(t, base, rel, bl, pr)
    OBVIOUS
  <2>2. p \in Prio /\ Highest(p, base, Firsts(ToSet(mutex_list[t]) \ {rel}, bl), pr)
    BY <1>0, <2>1, HighestPriProps
  <2>. QED BY <2>2 DEF Highest, Firsts
<1>2. ASSUME NEW o \in Obj, blk_list'[o] # <<>>
      PROVE  /\ Head(blk_list'[o]) \in ToSet(blk_list'[o])
             /\ \A w \in ToSet(blk_list'[o]) : prio'[Head(blk_list'[o])] <= prio'[w]
  BY <1>0, <1>2, HeadSorted, PrioInt DEF WaitersSorted
<1>3. ASSUME NEW w \in Heirs(t)' PROVE p <= prio'[w]
  <2>1. PICK m \in Mutex : Heir(w, m, t)'
    BY DEF Heirs
  <2>2. /\ mutex_task'[m] = t /\ task_state'[w] \in Pending /\ blk_obj'[w] = m /\ ~Released(m)'
        /\ w \in AllTask
    BY <1>0, <2>1 DEF Heir, Heirs, Wants
  <2>3. w \in ToSet(blk_list'[m])
    BY <2>2 DEF IInv, WaitersListed
  <2>4. blk_list'[m] # <<>>
    BY <2>3 DEF ToSet
  <2>5. m \in ToSet(mutex_list'[t])
    BY <1>0, <2>2, Consts DEF OwnInv, OwnersListed
  <2>6. p <= prio'[Head(blk_list'[m])] /\ prio'[Head(blk_list'[m])] <= prio'[w]
    BY <1>0, <1>1, <1>2, <2>3, <2>4, <2>5
  <2>7. Head(blk_list'[m]) \in AllTask
    BY <1>0, <2>4
  <2>8. /\ p \in Int /\ prio'[w] \in Int /\ prio'[Head(blk_list'[m])] \in Int
    BY <1>0, <1>1, <2>2, <2>7, PriAssumption DEF Prio
  <2>. QED BY <2>6, <2>8
<1>4. ASSUME NEW m \in ToSet(mutex_list'[t]), blk_list'[m] # <<>>,
             p = prio'[Head(blk_list'[m])]
      PROVE  \E w \in Heirs(t)' : p = prio'[w]
  <2>1. m \in Mutex /\ mutex_task'[m] = t /\ ~Released(m)'
    BY <1>0, ToSetProps DEF OwnInv, ListsOwned, OwnersListed
  <2>2. Head(blk_list'[m]) \in ToSet(blk_list'[m])
    BY <1>0, <1>2, <1>4, <2>1
  <2>. PICK w : w = Head(blk_list'[m])
    OBVIOUS
  <2>3. w \in AllTask /\ task_state'[w] \in Pending /\ blk_obj'[w] = m
    BY <1>0, <1>4, <2>1, <2>2 DEF IInv, WaitersListed
  <2>4. w \in Task
    BY <2>3, StateNames, Consts DEF IInv, IdleReady
  <2>5. w \in Heirs(t)'
    BY <2>1, <2>3, <2>4 DEF Heirs, Heir, Wants
  <2>. QED BY <1>4, <2>5
<1>. QED BY <1>1, <1>3, <1>4 DEF Right, Highest

-----------------------------------------------------------------------------
(***************************************************************************)
(* Steps that change nobody's heirs.                                       *)
(***************************************************************************)
\* A task with the heirs, the base and the priority due that it had.
LEMMA RightKept ==
    ASSUME PriorityDue, NEW t \in Task, ~Exempt(t), Due(t)' = Due(t), b_prio'[t] = b_prio[t],
           \A w \in Task, m \in Mutex : Heir(w, m, t)' <=> Heir(w, m, t),
           \A w \in Heirs(t) : prio'[w] = prio[w]
    PROVE  Right(t, Due(t))'
<1>1. Heirs(t)' = Heirs(t)
  BY DEF Heirs
<1>2. Right(t, Due(t))
  BY DEF PriorityDue
<1>. QED BY <1>1, <1>2 DEF Right, Highest

\* Nobody has asked for a mutex it does not have yet, and no mutex is on its
\* way from one owner to the next.
Quiet == ~(pc = "pri" /\ op.fn \in {"lock", "unlock"})
WaitsFor(t, o) == task_state[t] \in Pending /\ blk_obj[t] = o

\* A step that changes no priority and no owner, nor who waits for an owned mutex.
LEMMA ExactQuiet ==
    ASSUME IInv, ExactInv, UNCHANGED <<priVars, chg, mutex_task>>, Quiet, Quiet',
           \A t \in Task, m \in Mutex :
             mutex_task[m] # NULL => (WaitsFor(t, m)' <=> WaitsFor(t, m)),
           \A t \in Task : Exempt(t) => Exempt(t)',
           LoopOK'
    PROVE  ExactInv'
<1>0. NULL \notin Task /\ Task \subseteq AllTask
  BY Consts
<1>1. \A w, t \in Task, m \in Mutex : Heir(w, m, t)' <=> Heir(w, m, t)
  <2>. TAKE w, t \in Task, m \in Mutex
  <2>1. Wants(w, m) <=> WaitsFor(w, m)
    BY DEF Quiet, Wants, WaitsFor, Released
  <2>2. Wants(w, m)' <=> WaitsFor(w, m)'
    BY DEF Quiet, Wants, WaitsFor, Released
  <2>. QED BY <1>0, <2>1, <2>2 DEF Heir
<1>2. ASSUME NEW t \in Task PROVE Exempt(t)' \/ Right(t, Due(t))'
  <2>1. Due(t)' = Due(t)
    BY DEF Due
  <2>. QED BY <1>1, <2>1, RightKept DEF ExactInv
<1>. QED BY <1>2 DEF ExactInv, PriorityDue

\* Steps outside the loop of task_pri_change.
LEMMA ExactOutside ==
    ASSUME IInv, ExactInv, UNCHANGED <<priVars, chg, mutex_task>>, Quiet,
           chg.task = NULL, pc' \in {"run", "sched", "tick", "mfree", "drain"},
           pc' = "drain" => op'.obj \in Sem \/ (op'.obj \in Mutex /\ mutex_task[op'.obj] = NULL),
           \A t \in Task, m \in Mutex :
             mutex_task[m] # NULL => (WaitsFor(t, m)' <=> WaitsFor(t, m)),
           \A t \in Task : Exempt(t) => Exempt(t)'
    PROVE  ExactInv'
<1>1. Quiet' /\ LoopOK'
  BY DEF Quiet, LoopOK
<1>. QED BY <1>1, ExactQuiet

\* The steps that change no task and no priority.
LEMMA ExactSteady ==
    ASSUME IInv, ExactInv, OutInv,
           \/ mutex_del_wake \/ drain_done \/ pri_change_done \/ pend_left
           \/ tick_done \/ core_sched \/ pend_state_end_proc \/ krhino_tick_proc \/ UNCHANGED vars
           \/ \E m \in Mutex : mutex_lock_nested(m) \/ mutex_unlock_nested(m)
           \/ \E s \in Sem : \/ \E n \in 0 .. SemMax : krhino_sem_create(s, n) \/ krhino_sem_count_set(s, n)
                             \/ krhino_sem_del(s) \/ sem_give_count(s) \/ sem_give_all(s)
                             \/ sem_take_count(s)
           \/ \E t \in Task : krhino_task_del(t)
           \/ krhino_task_yield \/ krhino_sched_disable \/ krhino_sched_enable
    PROVE  ExactInv'
<1>1. CASE mutex_del_wake \/ drain_done \/ pri_change_done
  <2>1. /\ UNCHANGED <<taskVars, priVars, chg, mutex_task>> /\ Quiet
    BY <1>1 DEF mutex_del_wake, drain_done, pri_change_done, PriChanged, Quiet
  <2>2. chg.task = NULL /\ pc # "mfree"
    BY <1>1 DEF mutex_del_wake, drain_done, pri_change_done, PriChanged, ExactInv, LoopOK
  <2>3. /\ pc' \in {"sched", "drain"}
        /\ pc' = "drain" => op'.obj \in Mutex /\ mutex_task[op'.obj] = NULL
    BY <1>1 DEF mutex_del_wake, drain_done, pri_change_done, PriChanged, ExactInv, LoopOK, IInv, CallOK
  <2>. QED BY <2>1, <2>2, <2>3, ExactOutside DEF WaitsFor, Exempt, BeingDeleted
<1>2. CASE pend_left
  <2>1. /\ UNCHANGED <<task_state, priVars, chg, mutex_task>>
        /\ blk_obj' = [blk_obj EXCEPT ![op.task] = NULL]
        /\ task_state[op.task] \notin Pending
        /\ pc = "pri" /\ op.fn \in {"abort", "tick"} /\ chg.task = NULL /\ pc' \in {"tick", "sched"}
    BY <1>2 DEF pend_left, PriChanged, IInv, CallOK
  <2>2. \A t \in Task : task_state[t] \in Pending => blk_obj'[t] = blk_obj[t]
    BY <2>1, Consts DEF IInv, TypeOK
  <2>. QED BY <2>1, <2>2, ExactOutside DEF WaitsFor, Exempt, BeingDeleted, Quiet
<1>3. CASE \/ tick_done \/ core_sched \/ pend_state_end_proc \/ krhino_tick_proc
           \/ krhino_task_yield \/ krhino_sched_disable \/ krhino_sched_enable
  <2>1. /\ UNCHANGED <<task_state, blk_obj, priVars, chg, mutex_task>>
        /\ pc \in {"run", "sched", "tick"} /\ pc' \in {"run", "sched", "tick"}
    BY <1>3 DEF tick_done, core_sched, pend_state_end_proc, krhino_tick_proc, krhino_task_yield,
                krhino_sched_disable, krhino_sched_enable, TaskCalls, InTask, InIsr
  <2>2. chg.task = NULL
    BY <2>1 DEF ExactInv, LoopOK
  <2>. QED BY <2>1, <2>2, ExactOutside DEF WaitsFor, Exempt, BeingDeleted, Quiet
<1>4. CASE UNCHANGED vars
  <2>1. UNCHANGED <<taskVars, priVars, objVars, mutexVars, schedVars, ctlVars>>
    BY <1>4 DEF vars
  <2>. QED BY <2>1 DEF ExactInv, PriorityDue, Right, Highest, Heirs, Heir, Wants, Released, Due,
                       Exempt, BeingDeleted, LoopOK
<1>5. CASE \/ \E m \in Mutex : mutex_lock_nested(m) \/ mutex_unlock_nested(m)
           \/ \E s \in Sem : \/ \E n \in 0 .. SemMax : krhino_sem_create(s, n) \/ krhino_sem_count_set(s, n)
                             \/ sem_give_count(s) \/ sem_take_count(s)
  <2>1. /\ UNCHANGED <<taskVars, priVars, ctlVars, mutex_task>>
        /\ pc \in {"run", "sched"}
    BY <1>5 DEF mutex_lock_nested, mutex_unlock_nested, krhino_sem_create, krhino_sem_count_set,
                sem_give_count, sem_take_count, Calls, TaskCalls, InTask, InIsr
  <2>2. chg.task = NULL
    BY <2>1 DEF ExactInv, LoopOK
  <2>. QED BY <2>1, <2>2, ExactOutside DEF WaitsFor, Exempt, BeingDeleted, Quiet
<1>6. ASSUME NEW s \in Sem, krhino_sem_del(s) \/ sem_give_all(s) PROVE ExactInv'
  <2>1. /\ UNCHANGED <<taskVars, priVars, chg, mutex_task>>
        /\ pc \in {"run", "sched"} /\ pc' = "drain" /\ op'.obj = s
    BY <1>6 DEF krhino_sem_del, sem_give_all, Calls, TaskCalls, InTask, InIsr
  <2>2. chg.task = NULL
    BY <2>1 DEF ExactInv, LoopOK
  <2>. QED BY <2>1, <2>2, ExactOutside DEF WaitsFor, Exempt, BeingDeleted, Quiet
<1>7. ASSUME NEW t \in Task, krhino_task_del(t) PROVE ExactInv'
  <2>1. /\ UNCHANGED <<taskVars, priVars, chg, mutex_task>>
        /\ pc = "run" /\ pc' = "mfree"
    BY <1>7 DEF krhino_task_del, TaskCalls, InTask
  <2>2. chg.task = NULL
    BY <2>1 DEF ExactInv, LoopOK
  <2>. QED BY <2>1, <2>2, ExactOutside DEF WaitsFor, Exempt, BeingDeleted, Quiet
<1>. QED BY <1>1, <1>2, <1>3, <1>4, <1>5, <1>6, <1>7

\* A wake-up from an object without an owner.
LEMMA ExactWake ==
    ASSUME IInv, ExactInv, NEW o \in Obj, NEW why, blk_list[o] # <<>>,
           pend_task_wakeup(Head(blk_list[o]), o, why),
           o \in Mutex => mutex_task[o] = NULL,
           UNCHANGED <<priVars, chg, mutex_task>>, pc \in {"run", "sched", "drain"},
           pc' \in {"run", "sched", "drain"},
           pc' = "drain" => op'.obj \in Sem \/ (op'.obj \in Mutex /\ mutex_task[op'.obj] = NULL)
    PROVE  ExactInv'
<1>0. /\ Task \subseteq AllTask /\ Mutex \subseteq Obj
      /\ task_state \in [AllTask -> TaskStat] /\ blk_obj \in [AllTask -> Obj \cup {NULL}]
  BY Consts DEF IInv, TypeOK
<1>. PICK t \in Task : t = Head(blk_list[o])
  BY FirstWaiter
<1>1. task_state[t] \in Pending /\ blk_obj[t] = o
  BY FirstWaiter
<1>2. \A u \in AllTask : u # t => task_state'[u] = task_state[u] /\ blk_obj'[u] = blk_obj[u]
  BY <1>0 DEF pend_task_wakeup
<1>3. task_state'[t] \in {"K_RDY", "K_SUSPENDED"}
  BY <1>0, <1>1 DEF pend_task_wakeup
<1>4. task_state'[t] \notin Pending /\ task_state[t] \notin Dead
  BY <1>1, <1>3, StateNames DEF Pending, Dead
<1>5. \A u \in Task, m \in Mutex :
        mutex_task[m] # NULL => (WaitsFor(u, m)' <=> WaitsFor(u, m))
  BY <1>0, <1>1, <1>2, <1>4 DEF WaitsFor
<1>6. \A u \in Task : Exempt(u) => Exempt(u)'
  BY <1>0, <1>2, <1>4 DEF Exempt, BeingDeleted
<1>7. chg.task = NULL /\ Quiet
  BY DEF ExactInv, LoopOK, Quiet
<1>. QED BY <1>5, <1>6, <1>7, ExactOutside

\* The steps that change the state of one task and nobody's heirs.
LEMMA ExactOne ==
    ASSUME IInv, ExactInv, OutInv,
           \/ tick_expire_sleep \/ drain_step
           \/ \E s \in Sem : sem_give_one(s) \/ \E ticks \in Timeouts : sem_take_pend(s, ticks)
           \/ \E ticks \in Timeouts : krhino_task_sleep(ticks)
           \/ \E t \in Task : \/ krhino_task_suspend(t) \/ krhino_task_resume(t)
                              \/ wait_abort_nonpend(t)
    PROVE  ExactInv'
<1>0. /\ Task \subseteq AllTask /\ Mutex \subseteq Obj /\ Mutex \cap Sem = {} /\ Sem \subseteq Obj
      /\ task_state \in [AllTask -> TaskStat] /\ blk_obj \in [AllTask -> Obj \cup {NULL}]
      /\ g_active_task \in AllTask
  BY Consts DEF IInv, TypeOK
<1>1. CASE drain_step
  <2>1. /\ op.obj \in Obj /\ pc = "drain" /\ UNCHANGED <<pc, op, priVars, chg, mutex_task>>
        /\ blk_list[op.obj] # <<>>
    BY <1>1 DEF drain_step, IInv, CallOK
  <2>2. op.obj \in Sem \/ (op.obj \in Mutex /\ mutex_task[op.obj] = NULL)
    BY <2>1 DEF ExactInv, LoopOK
  <2>. PICK o \in Obj : o = op.obj
    BY <2>1
  <2>. PICK why : why = IF op.fn = "give_all" THEN "BLK_FINISH" ELSE "BLK_DEL"
    OBVIOUS
  <2>3. pend_task_wakeup(Head(blk_list[o]), o, why)
    BY <1>1 DEF drain_step
  <2>. QED BY <1>0, <2>1, <2>2, <2>3, ExactWake
<1>2. ASSUME NEW s \in Sem, sem_give_one(s) PROVE ExactInv'
  <2>1. /\ pc \in {"run", "sched"} /\ pc' = "sched" /\ UNCHANGED <<priVars, chg, mutex_task>>
        /\ blk_list[s] # <<>> /\ pend_task_wakeup(Head(blk_list[s]), s, "BLK_FINISH")
    BY <1>2 DEF sem_give_one, Calls, TaskCalls, InTask, InIsr
  <2>. QED BY <1>0, <2>1, ExactWake
<1>3. ASSUME NEW t \in Task, pc \in {"run", "sched", "tick"}, pc' \in {"run", "sched", "tick"},
             UNCHANGED <<priVars, chg, mutex_task>>,
             \A u \in AllTask : u # t => task_state'[u] = task_state[u] /\ blk_obj'[u] = blk_obj[u],
             task_state[t] \notin Dead,
             \A m \in Mutex : WaitsFor(t, m)' <=> WaitsFor(t, m)
      PROVE  ExactInv'
  <2>1. chg.task = NULL /\ Quiet
    BY <1>3 DEF ExactInv, LoopOK, Quiet
  <2>2. \A u \in Task : Exempt(u) => Exempt(u)'
    BY <1>0, <1>3 DEF Exempt, BeingDeleted
  <2>3. \A u \in Task, m \in Mutex : WaitsFor(u, m)' <=> WaitsFor(u, m)
    BY <1>0, <1>3 DEF WaitsFor
  <2>. QED BY <1>3, <2>1, <2>2, <2>3, ExactOutside
<1>4. ASSUME NEW s \in Sem, NEW ticks \in Timeouts, sem_take_pend(s, ticks) PROVE ExactInv'
  <2>. PICK t \in Task : t = g_active_task
    BY <1>0, <1>4, Consts DEF sem_take_pend, TaskCalls, InTask
  <2>1. /\ pc = "run" /\ pc' = "sched" /\ UNCHANGED <<priVars, chg, mutex_task>>
        /\ task_state' = [task_state EXCEPT ![t] = "K_PEND"]
        /\ blk_obj' = [blk_obj EXCEPT ![t] = s]
        /\ task_state[t] = "K_RDY"
    BY <1>4 DEF sem_take_pend, TaskCalls, InTask, pend_to_blk_obj, IInv, ActiveReady
  <2>2. \A m \in Mutex : ~WaitsFor(t, m)' /\ ~WaitsFor(t, m)
    BY <1>0, <2>1, StateNames DEF WaitsFor
  <2>3. \A u \in AllTask : u # t => task_state'[u] = task_state[u] /\ blk_obj'[u] = blk_obj[u]
    BY <1>0, <2>1
  <2>. QED BY <1>3, <2>1, <2>2, <2>3, StateNames
<1>5. CASE tick_expire_sleep
  <2>. PICK t \in Task : t = Head(g_tick_head)
    BY <1>5, TickHeadTask DEF tick_expire_sleep
  <2>1. /\ pc = "tick" /\ pc' = "tick" /\ UNCHANGED <<priVars, chg, mutex_task, blk_obj>>
        /\ task_state[t] \in Sleeping
        /\ \E st \in {"K_RDY", "K_SUSPENDED"} : task_state' = [task_state EXCEPT ![t] = st]
    BY <1>5 DEF tick_expire_sleep
  <2>2. task_state[t] \notin Pending \cup Dead /\ task_state'[t] \notin Pending
    BY <1>0, <2>1 DEF Sleeping, Pending, Dead
  <2>3. \A u \in AllTask : u # t => task_state'[u] = task_state[u] /\ blk_obj'[u] = blk_obj[u]
    BY <1>0, <2>1
  <2>. QED BY <1>3, <2>1, <2>2, <2>3 DEF WaitsFor
<1>6. ASSUME NEW ticks \in Timeouts, krhino_task_sleep(ticks) PROVE ExactInv'
  <2>. PICK t \in Task : t = g_active_task
    BY <1>0, <1>6, Consts DEF krhino_task_sleep, TaskCalls, InTask
  <2>1. /\ pc = "run" /\ pc' = "sched" /\ UNCHANGED <<priVars, chg, mutex_task, blk_obj>>
        /\ task_state' = [task_state EXCEPT ![t] = "K_SLEEP"]
        /\ task_state[t] = "K_RDY"
    BY <1>6 DEF krhino_task_sleep, TaskCalls, InTask, IInv, ActiveReady
  <2>2. task_state[t] \notin Pending \cup Dead /\ task_state'[t] \notin Pending
    BY <1>0, <2>1 DEF Pending, Dead
  <2>3. \A u \in AllTask : u # t => task_state'[u] = task_state[u] /\ blk_obj'[u] = blk_obj[u]
    BY <1>0, <2>1
  <2>. QED BY <1>3, <2>1, <2>2, <2>3 DEF WaitsFor
<1>7. ASSUME NEW t \in Task, krhino_task_suspend(t) \/ krhino_task_resume(t) \/ wait_abort_nonpend(t)
      PROVE  ExactInv'
  <2>1. /\ pc \in {"run", "sched"} /\ pc' = "sched" /\ UNCHANGED <<priVars, chg, mutex_task, blk_obj>>
        /\ \E st \in TaskStat : task_state' = [task_state EXCEPT ![t] = st]
        /\ task_state'[t] \in Pending <=> task_state[t] \in Pending
        /\ task_state[t] \notin Dead
    <3>0. task_state = [task_state EXCEPT ![t] = task_state[t]] /\ task_state[t] \in TaskStat
      BY <1>0
    <3>1. CASE krhino_task_suspend(t)
      BY <1>0, <3>0, <3>1
         DEF krhino_task_suspend, SuspendedFrom, Calls, TaskCalls, InTask, InIsr,
             TaskStat, Pending, Sleeping, Dead, Suspended
    <3>2. CASE krhino_task_resume(t)
      BY <1>0, <3>0, <3>2
         DEF krhino_task_resume, ResumedFrom, Calls, TaskCalls, InTask, InIsr,
             TaskStat, Pending, Sleeping, Dead, Suspended
    <3>3. CASE wait_abort_nonpend(t)
      BY <1>0, <3>0, <3>3
         DEF wait_abort_nonpend, TaskCalls, InTask, TaskStat, Pending, Sleeping, Dead
    <3>. QED BY <1>7, <3>1, <3>2, <3>3
  <2>2. \A u \in AllTask : u # t => task_state'[u] = task_state[u] /\ blk_obj'[u] = blk_obj[u]
    BY <1>0, <2>1
  <2>. QED BY <1>3, <2>1, <2>2 DEF WaitsFor
<1>. QED BY <1>1, <1>2, <1>4, <1>5, <1>6, <1>7

\* A mutex nobody waits for changes hands.
LEMMA ExactUnwanted ==
    ASSUME IInv, ExactInv, OwnInv,
           mutex_unlock_free \/ \E m \in Mutex : krhino_mutex_create(m) \/ mutex_lock_free(m)
    PROVE  ExactInv'
<1>0. /\ Task \subseteq AllTask /\ Mutex \subseteq Obj
      /\ mutex_task \in [Mutex -> AllTask \cup {NULL}]
  BY Consts DEF IInv, TypeOK
<1>1. ASSUME NEW m \in Mutex, NEW x, mutex_task' = [mutex_task EXCEPT ![m] = x],
             UNCHANGED <<taskVars, priVars, chg>>, chg.task = NULL, pc' = "run",
             pc = "run" \/ Released(m),
             \A t \in AllTask : task_state[t] \in Pending => blk_obj[t] # m
      PROVE  ExactInv'
  <2>1. \A w, t \in Task, k \in Mutex : Heir(w, k, t)' <=> Heir(w, k, t)
    <3>. TAKE w, t \in Task, k \in Mutex
    <3>1. CASE k = m
      BY <1>0, <1>1, <3>1 DEF Heir, Wants, Released
    <3>2. CASE k # m
      BY <1>0, <1>1, <3>2 DEF Heir, Wants, Released
    <3>. QED BY <3>1, <3>2
  <2>2. \A t \in Task : Due(t)' = Due(t) /\ (Exempt(t) => Exempt(t)')
    BY <1>1 DEF Due, Exempt, BeingDeleted, Released
  <2>3. PriorityDue'
    BY <1>1, <2>1, <2>2, RightKept DEF ExactInv, PriorityDue
  <2>. QED BY <1>1, <2>3 DEF ExactInv, LoopOK
<1>2. CASE mutex_unlock_free
  <2>. PICK m \in Mutex : m = op.obj
    BY <1>2 DEF mutex_unlock_free, PriChanged, IInv, CallOK
  <2>. QED BY <1>0, <1>1, <1>2, NoWaiter DEF mutex_unlock_free, PriChanged, Released
<1>3. ASSUME NEW m \in Mutex, krhino_mutex_create(m) PROVE ExactInv'
  BY <1>0, <1>1, <1>3, NoCaller DEF krhino_mutex_create, TaskCalls, InTask, ExactInv, LoopOK
<1>4. ASSUME NEW m \in Mutex, mutex_lock_free(m) PROVE ExactInv'
  <2>1. blk_list[m] = <<>>
    BY <1>4 DEF mutex_lock_free, TaskCalls, InTask, OwnInv, WaitedOwned, Deleting
  <2>. QED BY <1>0, <1>1, <1>4, <2>1, NoWaiter DEF mutex_lock_free, TaskCalls, InTask, ExactInv, LoopOK
<1>. QED BY <1>2, <1>3, <1>4

\* The task that asked for the mutex waits for it now.
LEMMA ExactLockPend ==
    ASSUME IInv, ExactInv, mutex_lock_pend
    PROVE  ExactInv'
<1>0. /\ Task \subseteq AllTask /\ Mutex \subseteq Obj
      /\ task_state \in [AllTask -> TaskStat] /\ blk_obj \in [AllTask -> Obj \cup {NULL}]
  BY Consts DEF IInv, TypeOK
<1>. PICK c \in Task, o \in Mutex : c = op.task /\ o = op.obj
  BY DEF mutex_lock_pend, PriChanged, IInv, CallOK
<1>1. /\ task_state' = [task_state EXCEPT ![c] = "K_PEND"] /\ blk_obj' = [blk_obj EXCEPT ![c] = o]
      /\ task_state[c] = "K_RDY" /\ UNCHANGED <<priVars, chg, mutex_task>>
      /\ pc = "pri" /\ op.fn = "lock" /\ chg.task = NULL /\ pc' = "sched"
  BY DEF mutex_lock_pend, pend_to_blk_obj, PriChanged, IInv, CallOK
<1>2. \A m : ~Released(m) /\ ~Released(m)'
  BY <1>1 DEF Released
<1>3. \A w \in Task, m \in Mutex : Wants(w, m)' <=> Wants(w, m)
  <2>. TAKE w \in Task, m \in Mutex
  <2>1. CASE w = c
    <3>1. Wants(w, m) <=> m = o
      BY <1>1, <1>2, <2>1, StateNames DEF Wants
    <3>2. Wants(w, m)' <=> m = o
      BY <1>0, <1>1, <1>2, <2>1, StateNames DEF Wants
    <3>. QED BY <3>1, <3>2
  <2>2. CASE w # c
    BY <1>0, <1>1, <1>2, <2>2 DEF Wants
  <2>. QED BY <2>1, <2>2
<1>4. \A t \in Task : Due(t)' = Due(t) /\ (Exempt(t) => Exempt(t)')
  BY <1>0, <1>1, StateNames DEF Due, Exempt, BeingDeleted
<1>5. PriorityDue'
  BY <1>1, <1>3, <1>4, RightKept DEF ExactInv, PriorityDue, Heir
<1>. QED BY <1>1, <1>5 DEF ExactInv, LoopOK

\* A new task has its own priority and nobody waits for it.
LEMMA ExactCreate ==
    ASSUME IInv, ExactInv, OwnInv, NEW t \in Task, NEW autorun \in BOOLEAN,
           krhino_task_create(t, autorun)
    PROVE  ExactInv'
<1>0. /\ Task \subseteq AllTask /\ Mutex \subseteq Obj /\ NULL \notin Mutex /\ NULL \notin AllTask
      /\ task_state \in [AllTask -> TaskStat] /\ blk_obj \in [AllTask -> Obj \cup {NULL}]
      /\ prio \in [AllTask -> Prio] /\ b_prio \in [AllTask -> Prio]
  BY Consts DEF IInv, TypeOK
<1>01. BasePri[t] \in Int
  BY PriAssumption
<1>1. /\ pc = "run" /\ pc' \in {"run", "sched"} /\ UNCHANGED <<chg, mutex_task>>
      /\ task_state[t] \in Dead /\ task_state'[t] \in {"K_RDY", "K_SUSPENDED"}
      /\ b_prio'[t] = BasePri[t] /\ prio'[t] = BasePri[t]
      /\ \A u \in AllTask : u # t => /\ task_state'[u] = task_state[u] /\ blk_obj'[u] = blk_obj[u]
                                     /\ prio'[u] = prio[u] /\ b_prio'[u] = b_prio[u]
  BY <1>0 DEF krhino_task_create, TaskCalls, InTask
<1>2. chg.task = NULL /\ LoopOK'
  BY <1>1 DEF ExactInv, LoopOK
<1>3. task_state[t] \notin Pending /\ task_state'[t] \notin Pending
  BY <1>1 DEF Pending, Dead
<1>4. \A m \in Mutex : mutex_task[m] # t
  BY <1>0, <1>1 DEF OwnInv, ListsOwned, OwnersListed, Released
<1>5. \A u \in Task, m \in Mutex : Wants(u, m)' <=> Wants(u, m)
  BY <1>0, <1>1, <1>3 DEF Wants, Released
<1>6. \A m \in Mutex : ~Wants(t, m)
  BY <1>1, <1>3 DEF Wants
<1>7. ASSUME NEW u \in Task, ~Exempt(u)' PROVE Right(u, Due(u))'
  <2>1. CASE u = t
    <3>1. Heirs(t)' = {}
      BY <1>1, <1>4 DEF Heirs, Heir
    <3>2. Due(t)' = BasePri[t] /\ b_prio'[t] = BasePri[t]
      BY <1>0, <1>1, <1>2 DEF Due
    <3>. QED BY <1>01, <2>1, <3>1, <3>2 DEF Right, Highest
  <2>2. CASE u # t
    <3>1. ~Exempt(u) /\ Due(u)' = Due(u) /\ b_prio'[u] = b_prio[u]
      BY <1>0, <1>1, <1>2, <1>7, <2>2 DEF Exempt, BeingDeleted, Due
    <3>2. \A w \in Heirs(u) : prio'[w] = prio[w]
      BY <1>0, <1>1, <1>6 DEF Heirs, Heir
    <3>. QED BY <1>1, <1>5, <3>1, <3>2, RightKept DEF Heir, ExactInv
  <2>. QED BY <2>1, <2>2
<1>. QED BY <1>2, <1>7 DEF ExactInv, PriorityDue

-----------------------------------------------------------------------------
(***************************************************************************)
(* Steps that start task_pri_change.                                       *)
(***************************************************************************)
\* A new base priority: mutex_pri_limit finds what the waiters leave of it.
LEMMA ExactPriChange ==
    ASSUME IInv, ExactInv, OwnInv, WaitersSorted, IInv', OwnInv', WaitersSorted',
           NEW t \in Task, NEW pri \in PriChoices, krhino_task_pri_change(t, pri)
    PROVE  ExactInv'
<1>0. Task \subseteq AllTask /\ NULL \notin AllTask /\ NULL \notin Mutex /\ b_prio \in [AllTask -> Prio]
      /\ mutex_list[t] \in Seq(Mutex) /\ TypeOK
  BY Consts DEF IInv, TypeOK
<1>. PICK p : p = mutex_pri_limit(t, pri)
  OBVIOUS
<1>1. /\ pc = "run" /\ pc' = "pri" /\ op'.fn = "pri_change" /\ chg' = [task |-> t, pri |-> p]
      /\ task_state[t] \notin Dead /\ b_prio' = [b_prio EXCEPT ![t] = pri]
      /\ UNCHANGED <<taskVars, prio, blk_list, mutex_list, mutex_task>>
  BY DEF krhino_task_pri_change, TaskCalls, InTask, StartPriChange
<1>2. chg.task = NULL
  BY <1>1 DEF ExactInv, LoopOK
<1>3. LoopOK'
  BY <1>1 DEF LoopOK
<1>4. Right(t, p)'
  <2>1. NULL \notin ToSet(mutex_list[t])
    BY <1>0, ToSetProps
  <2>2. p = HighestPri(t, b_prio'[t], NULL, blk_list', prio')
    BY <1>0, <1>1 DEF mutex_pri_limit
  <2>3. ToSet(mutex_list'[t]) = ToSet(mutex_list[t]) \ {NULL}
    BY <1>1, <2>1
  <2>. QED BY <1>0, <1>1, <2>2, <2>3, FoundRight
<1>5. ASSUME NEW u \in Task, ~Exempt(u)' PROVE Right(u, Due(u))'
  <2>1. CASE u = t
    <3>1. Due(t)' = p
      BY <1>1 DEF Due
    <3>. QED BY <1>4, <2>1, <3>1 DEF Right
  <2>2. CASE u # t
    <3>1. ~Exempt(u) /\ Due(u)' = Due(u) /\ b_prio'[u] = b_prio[u]
      BY <1>0, <1>1, <1>2, <1>5, <2>2 DEF Exempt, BeingDeleted, Due
    <3>2. \A w \in Task, m \in Mutex : Heir(w, m, u)' <=> Heir(w, m, u)
      BY <1>1 DEF Heir, Wants, Released
    <3>. QED BY <1>1, <3>1, <3>2, RightKept DEF ExactInv
  <2>. QED BY <2>1, <2>2
<1>. QED BY <1>3, <1>5 DEF ExactInv, PriorityDue

\* A task that asks for a mutex becomes an heir of its owner, which is raised
\* when it is below.
LEMMA ExactInherit ==
    ASSUME IInv, ExactInv, OwnInv, NEW m \in Mutex, NEW ticks \in Timeouts,
           mutex_lock_inherit(m, ticks)
    PROVE  ExactInv'
<1>0. /\ Task \subseteq AllTask /\ NULL \notin AllTask /\ prio \in [AllTask -> Prio]
      /\ b_prio \in [AllTask -> Prio] /\ Prio \subseteq Int
      /\ g_active_task \in AllTask
      /\ mutex_task \in [Mutex -> Task \cup {NULL}]
  BY Consts, PrioInt DEF IInv, TypeOK, WaitersOwned
<1>. PICK c \in Task, x \in Task : c = g_active_task /\ x = mutex_task[m]
  BY <1>0, Consts DEF mutex_lock_inherit, TaskCalls, InTask
<1>1. /\ pc = "run" /\ pc' = "pri" /\ op'.fn = "lock" /\ op'.task = c /\ op'.obj = m
      /\ x # c /\ task_state[c] = "K_RDY"
      /\ UNCHANGED <<taskVars, priVars, mutex_task>>
      /\ chg' = IF prio[c] < prio[x] THEN [task |-> x, pri |-> prio[c]] ELSE NoChg
  BY DEF mutex_lock_inherit, TaskCalls, InTask, StartPriChange, IInv, ActiveReady
<1>2. chg.task = NULL /\ NoChg.task = NULL
  BY <1>1 DEF ExactInv, LoopOK, NoChg
<1>3. task_state[x] \notin Dead
  BY <1>0, <1>1 DEF OwnInv, OwnersListed, ListsOwned, Released
<1>4. LoopOK'
  <2>1. CASE prio[c] < prio[x]
    BY <1>1, <1>3, <2>1 DEF LoopOK
  <2>2. CASE ~(prio[c] < prio[x])
    BY <1>1, <1>2, <2>2 DEF LoopOK
  <2>. QED BY <2>1, <2>2
<1>5. \A w \in Task, k \in Mutex : Wants(w, k)' <=> Wants(w, k) \/ (w = c /\ k = m)
  BY <1>1 DEF Wants, Released
<1>6. ASSUME NEW u \in Task, ~Exempt(u)' PROVE Right(u, Due(u))'
  <2>0. ~Exempt(u)
    BY <1>1, <1>6 DEF Exempt, BeingDeleted
  <2>1. CASE u = x
    <3>1. Heirs(x)' = Heirs(x) \cup {c}
      BY <1>0, <1>1, <1>5 DEF Heirs, Heir
    <3>2. Highest(prio[x], b_prio[x], Heirs(x), prio)
      BY <1>0, <1>2, <2>0, <2>1 DEF ExactInv, PriorityDue, Due, Right
    <3>3. Heirs(x) \subseteq Task /\ \A w \in Task : prio[w] \in Int
      BY <1>0 DEF Heirs
    <3>4. prio[x] \in Int /\ prio[c] \in Int /\ b_prio[x] \in Int
      BY <1>0
    <3>5. Highest(Due(x)', b_prio[x], Heirs(x) \cup {c}, prio)
      <4>1. CASE prio[c] < prio[x]
        <5>1. Due(x)' = prio[c]
          BY <1>1, <4>1 DEF Due
        <5>. QED BY <3>2, <3>3, <3>4, <4>1, <5>1 DEF Highest
      <4>2. CASE ~(prio[c] < prio[x])
        <5>1. Due(x)' = prio[x]
          BY <1>0, <1>1, <1>2, <4>2 DEF Due
        <5>. QED BY <3>2, <3>3, <3>4, <4>2, <5>1 DEF Highest
      <4>. QED BY <4>1, <4>2
    <3>. QED BY <1>1, <2>1, <3>1, <3>5 DEF Right
  <2>2. CASE u # x
    <3>1. \A w \in Task, k \in Mutex : Heir(w, k, u)' <=> Heir(w, k, u)
      BY <1>1, <1>5, <2>2 DEF Heir
    <3>2. Due(u)' = Due(u)
      BY <1>0, <1>1, <1>2, <2>2 DEF Due
    <3>. QED BY <1>1, <2>0, <3>1, <3>2, RightKept DEF ExactInv
  <2>. QED BY <2>1, <2>2
<1>. QED BY <1>4, <1>6 DEF ExactInv, PriorityDue

\* What mutex_release asks for.
LEMMA ReleaseDue ==
    ASSUME TypeOK, NEW t \in Task, NEW rel, NEW bl, NEW p,
           p = HighestPri(t, b_prio[t], rel, bl, prio),
           chg' = mutex_release(t, rel, bl), UNCHANGED prio
    PROVE  /\ Due(t)' = p
           /\ \A u \in Task : u # t => Due(u)' = prio[u]
           /\ chg'.task = IF p = prio[t] THEN NULL ELSE t
<1>1. Task \subseteq AllTask /\ NULL \notin AllTask
  BY Consts
<1>2. chg' = IF p # prio[t] THEN [task |-> t, pri |-> p] ELSE NoChg
  BY DEF mutex_release, mutex_pri_look
<1>3. CASE p = prio[t]
  BY <1>1, <1>2, <1>3 DEF Due, NoChg
<1>4. CASE p # prio[t]
  BY <1>1, <1>2, <1>4 DEF Due
<1>. QED BY <1>3, <1>4

\* The owner t loses m and what it inherited through it.
LEMMA ExactRelease ==
    ASSUME IInv, ExactInv, OwnInv, IInv', OwnInv', WaitersSorted',
           NEW t \in Task, NEW m \in Mutex, mutex_task[m] = t,
           chg' = mutex_release(t, m, blk_list),
           mutex_list' = [mutex_list EXCEPT ![t] = klist_rm(@, m)],
           UNCHANGED <<task_state, blk_obj, blk_list, priVars>>,
           pc = "run", pc' = "pri", op'.fn \in {"unlock", "mutex_del"}, op'.obj = m,
           \A k \in Mutex : k # m => mutex_task'[k] = mutex_task[k],
           op'.fn = "mutex_del" => mutex_task'[m] = NULL
    PROVE  /\ PriorityDue'
           /\ chg'.task \in {NULL, t} /\ task_state[t] \notin Dead
           /\ blk_list[m] = <<>> => chg'.task = NULL
<1>0. /\ Task \subseteq AllTask /\ NULL \notin AllTask /\ prio \in [AllTask -> Prio]
      /\ b_prio \in [AllTask -> Prio] /\ Prio \subseteq Int /\ TypeOK /\ Mutex \subseteq Obj
      /\ mutex_list \in [AllTask -> Seq(Mutex)] /\ blk_list \in [Obj -> Seq(AllTask)]
  BY Consts, PrioInt DEF IInv, TypeOK
<1>1. m \in ToSet(mutex_list[t]) /\ task_state[t] \notin Dead /\ chg.task = NULL
  <2>1. ~Released(m)
    BY DEF Released
  <2>2. m \in ToSet(mutex_list[t])
    BY <1>0, <2>1 DEF OwnInv, OwnersListed
  <2>3. task_state[t] \notin Dead
    BY <1>0, <2>2 DEF OwnInv, ListsOwned
  <2>4. chg.task = NULL
    BY DEF ExactInv, LoopOK
  <2>. QED BY <2>2, <2>3, <2>4
<1>2. ToSet(mutex_list'[t]) = ToSet(mutex_list[t]) \ {m}
  <2>1. mutex_list[t] \in Seq(Mutex) /\ IsInjective(mutex_list[t])
    BY <1>0 DEF OwnInv, ListsOwned
  <2>2. mutex_list'[t] = klist_rm(mutex_list[t], m)
    BY <1>0
  <2>. QED BY <2>1, <2>2, KlistRm
<1>. PICK p : p = HighestPri(t, b_prio[t], m, blk_list, prio)
  OBVIOUS
<1>3. /\ Due(t)' = p
      /\ \A u \in Task : u # t => Due(u)' = prio[u]
      /\ chg'.task = IF p = prio[t] THEN NULL ELSE t
  BY <1>0, ReleaseDue
<1>4. Right(t, p)'
  BY <1>0, <1>2, FoundRight
<1>5. \A w, u \in Task, k \in Mutex : Heir(w, k, u)' <=> Heir(w, k, u) /\ k # m
  <2>. TAKE w, u \in Task, k \in Mutex
  <2>1. Wants(w, k) <=> task_state[w] \in Pending /\ blk_obj[w] = k
    BY DEF Wants, Released
  <2>2. CASE k = m
    BY <1>0, <2>2 DEF Heir, Wants, Released
  <2>3. CASE k # m
    <3>1. Wants(w, k)' <=> Wants(w, k)
      BY <2>1, <2>3 DEF Wants, Released
    <3>. QED BY <2>3, <3>1 DEF Heir
  <2>. QED BY <2>2, <2>3
<1>6. ASSUME NEW u \in Task, ~Exempt(u)' PROVE Right(u, Due(u))'
  <2>1. CASE u = t
    BY <1>3, <1>4, <2>1 DEF Right
  <2>2. CASE u # t
    <3>1. ~Exempt(u) /\ Due(u)' = Due(u)
      BY <1>0, <1>1, <1>3, <1>6, <2>2 DEF Exempt, BeingDeleted, Due
    <3>2. \A w \in Task, k \in Mutex : Heir(w, k, u)' <=> Heir(w, k, u)
      BY <1>5, <2>2 DEF Heir
    <3>. QED BY <3>1, <3>2, RightKept DEF ExactInv
  <2>. QED BY <2>1, <2>2
<1>7. ASSUME blk_list[m] = <<>> PROVE p = prio[t]
  <2>1. \A w \in Task : ~Heir(w, m, t)
    BY <1>0, <1>7, NoWaiter DEF Heir, Wants
  <2>2. Heirs(t)' = Heirs(t)
    BY <1>5, <2>1 DEF Heirs
  <2>3. Highest(p, b_prio[t], Heirs(t), prio)
    BY <1>4, <2>2 DEF Right
  <2>4. ~Exempt(t)
    BY <1>1 DEF Exempt, BeingDeleted
  <2>5. Highest(prio[t], b_prio[t], Heirs(t), prio)
    BY <1>0, <1>1, <2>4 DEF ExactInv, PriorityDue, Right, Due
  <2>6. p \in Prio
    BY <1>0, HighestPriProps
  <2>7. Heirs(t) \subseteq Task
    BY DEF Heirs
  <2>8. p \in Int /\ prio[t] \in Int /\ b_prio[t] \in Int /\ \A w \in Heirs(t) : prio[w] \in Int
    BY <1>0, <2>6, <2>7
  <2>. QED BY <2>3, <2>5, <2>8, HighestUnique
<1>. QED BY <1>1, <1>3, <1>6, <1>7 DEF PriorityDue

\* The last unlock.
LEMMA ExactUnlock ==
    ASSUME IInv, ExactInv, OwnInv, IInv', OwnInv', WaitersSorted',
           NEW m \in Mutex, mutex_unlock_release(m)
    PROVE  ExactInv'
<1>. PICK t \in Task : t = g_active_task
  BY Consts DEF mutex_unlock_release, TaskCalls, InTask, IInv, TypeOK
<1>1. /\ mutex_task[m] = t /\ chg' = mutex_release(t, m, blk_list)
      /\ mutex_list' = [mutex_list EXCEPT ![t] = klist_rm(@, m)]
      /\ UNCHANGED <<task_state, blk_obj, blk_list, priVars, mutex_task, g_active_task>>
      /\ pc = "run" /\ pc' = "pri" /\ op'.fn = "unlock" /\ op'.obj = m
  BY DEF mutex_unlock_release, TaskCalls, InTask, StartPriChange
<1>2. /\ PriorityDue'
      /\ chg'.task \in {NULL, t} /\ task_state[t] \notin Dead
      /\ blk_list[m] = <<>> => chg'.task = NULL
  BY <1>1, ExactRelease
<1>3. LoopOK'
  BY <1>1, <1>2 DEF LoopOK
<1>. QED BY <1>2, <1>3 DEF ExactInv

\* The deletion of a mutex.
LEMMA ExactMutexDel ==
    ASSUME IInv, ExactInv, OwnInv, IInv', OwnInv', WaitersSorted',
           NEW m \in Mutex, krhino_mutex_del(m)
    PROVE  ExactInv'
<1>0. NULL \notin Task /\ mutex_task \in [Mutex -> Task \cup {NULL}]
  BY Consts DEF IInv, WaitersOwned
<1>1. /\ mutex_task' = [mutex_task EXCEPT ![m] = NULL]
      /\ UNCHANGED <<task_state, blk_obj, blk_list, priVars, g_active_task>>
      /\ pc = "run" /\ pc' = "pri" /\ op'.fn = "mutex_del" /\ op'.obj = m
  BY DEF krhino_mutex_del, TaskCalls, InTask, StartPriChange
<1>2. CASE mutex_task[m] = NULL
  <2>1. mutex_task' = mutex_task /\ chg' = NoChg /\ chg.task = NULL
    BY <1>0, <1>1, <1>2 DEF krhino_mutex_del, StartPriChange, ExactInv, LoopOK
  <2>2. \A w, u \in Task, k \in Mutex : Heir(w, k, u)' <=> Heir(w, k, u)
    BY <1>1, <2>1 DEF Heir, Wants, Released
  <2>3. \A u \in Task : Due(u)' = Due(u) /\ (Exempt(u) => Exempt(u)')
    BY <1>0, <1>1, <2>1 DEF Due, NoChg, Exempt, BeingDeleted
  <2>4. PriorityDue'
    BY <1>1, <2>2, <2>3, RightKept DEF ExactInv, PriorityDue
  <2>5. LoopOK'
    BY <1>0, <1>1, <1>2, <2>1 DEF LoopOK, NoChg
  <2>. QED BY <2>4, <2>5 DEF ExactInv
<1>3. CASE mutex_task[m] # NULL
  <2>. PICK t \in Task : t = mutex_task[m]
    BY <1>0, <1>3
  <2>1. /\ chg' = mutex_release(t, m, blk_list)
        /\ mutex_list' = [mutex_list EXCEPT ![t] = klist_rm(@, m)]
    BY <1>3 DEF krhino_mutex_del, StartPriChange
  <2>2. /\ mutex_task'[m] = NULL /\ \A k \in Mutex : k # m => mutex_task'[k] = mutex_task[k]
    BY <1>0, <1>1
  <2>3. /\ PriorityDue'
        /\ chg'.task \in {NULL, t} /\ task_state[t] \notin Dead
    BY <1>1, <2>1, <2>2, ExactRelease, ZenonT(40)
  <2>4. LoopOK'
    BY <1>1, <2>2, <2>3 DEF LoopOK
  <2>. QED BY <2>3, <2>4 DEF ExactInv
<1>. QED BY <1>2, <1>3

-----------------------------------------------------------------------------
(***************************************************************************)
(* A mutex goes to its first waiter, or a waiter goes away.                *)
(***************************************************************************)
\* Nobody who still waits for the mutex outranks the task that gets it.
LEMMA ExactHandover ==
    ASSUME IInv, ExactInv, OwnInv, WaitersSorted,
           NEW m \in Mutex, NEW w \in Task, blk_list[m] # <<>>, w = Head(blk_list[m]),
           pend_task_wakeup(w, m, "BLK_FINISH"), mutex_task' = [mutex_task EXCEPT ![m] = w],
           UNCHANGED <<priVars, chg>>, chg.task = NULL,
           \/ Released(m) /\ pc' = "sched"
           \/ pc = "mfree" /\ UNCHANGED <<pc, op>> /\ mutex_task[m] = op.task
    PROVE  ExactInv'
<1>0. /\ Task \subseteq AllTask /\ NULL \notin AllTask /\ prio \in [AllTask -> Prio]
      /\ b_prio \in [AllTask -> Prio] /\ Prio \subseteq Int /\ Mutex \subseteq Obj
      /\ task_state \in [AllTask -> TaskStat] /\ blk_obj \in [AllTask -> Obj \cup {NULL}]
      /\ mutex_task \in [Mutex -> AllTask \cup {NULL}]
  BY Consts, PrioInt DEF IInv, TypeOK
<1>1. task_state[w] \in Pending /\ blk_obj[w] = m
  BY <1>0, FirstWaiter
<1>2. \A u \in AllTask : u # w => task_state'[u] = task_state[u] /\ blk_obj'[u] = blk_obj[u]
  BY <1>0 DEF pend_task_wakeup
<1>3. task_state'[w] \in {"K_RDY", "K_SUSPENDED"}
  BY <1>0, <1>1 DEF pend_task_wakeup
<1>4. task_state'[w] \notin Pending /\ task_state[w] \notin Dead
  BY <1>1, <1>3, StateNames DEF Pending, Dead
<1>5. \A u \in Task, k \in Mutex : Wants(u, k)' <=> u # w /\ task_state[u] \in Pending /\ blk_obj[u] = k
  BY <1>0, <1>2, <1>4 DEF Wants, Released
<1>6. \A u \in Task, k \in Mutex : k # m => (Wants(u, k) <=> task_state[u] \in Pending /\ blk_obj[u] = k)
  BY DEF Wants, Released
<1>7. \A k \in Mutex : mutex_task'[k] = IF k = m THEN w ELSE mutex_task[k]
  BY <1>0
<1>8. \A u, y \in Task, k \in Mutex : k # m => (Heir(u, k, y)' <=> Heir(u, k, y))
  BY <1>1, <1>5, <1>6, <1>7 DEF Heir
<1>9. \A u \in Task : task_state[u] \in Pending /\ blk_obj[u] = m => prio[w] <= prio[u]
  BY <1>0, FirstIsHighest DEF IInv, WaitersListed
<1>10. \A u, y \in Task : ~Exempt(y)' => ~Heir(u, m, y)
  BY DEF Exempt, BeingDeleted, Heir, Wants, Released
<1>11. ASSUME NEW y \in Task, ~Exempt(y)' PROVE Right(y, Due(y))'
  <2>1. ~Exempt(y) /\ Due(y)' = prio[y] /\ Due(y) = prio[y]
    BY <1>0, <1>2, <1>4, <1>11 DEF Exempt, BeingDeleted, Due, Released
  <2>2. CASE y # w
    <3>1. \A u \in Task : ~Heir(u, m, y)' /\ ~Heir(u, m, y)
      BY <1>7, <1>10, <1>11, <2>2 DEF Heir
    <3>2. \A u \in Task, k \in Mutex : Heir(u, k, y)' <=> Heir(u, k, y)
      BY <1>8, <3>1
    <3>. QED BY <2>1, <3>2, RightKept DEF ExactInv
  <2>3. CASE y = w
    <3>1. \A u \in Task : Heir(u, m, w)' => prio[w] <= prio[u]
      BY <1>5, <1>9 DEF Heir
    <3>2. \A u \in Task : ~Heir(u, m, w)
      BY <1>10, <1>11, <2>3
    <3>3. Highest(prio[w], b_prio[w], Heirs(w), prio)
      BY <2>1, <2>3 DEF ExactInv, PriorityDue, Right
    <3>4. \A u \in Heirs(w)' : prio[w] <= prio[u]
      BY <1>8, <3>1, <3>3 DEF Heirs, Highest
    <3>5. \A u \in Heirs(w) : u \in Heirs(w)'
      BY <1>8, <3>2 DEF Heirs
    <3>. QED BY <2>1, <2>3, <3>3, <3>4, <3>5 DEF Right, Highest
  <2>. QED BY <2>2, <2>3
<1>12. LoopOK'
  BY DEF LoopOK
<1>. QED BY <1>11, <1>12 DEF ExactInv, PriorityDue

\* A waiter that gives up or is deleted takes its priority with it.
LEMMA ExactLeave ==
    ASSUME IInv, ExactInv, OwnInv, OutInv, IInv', OwnInv', WaitersSorted',
           NEW t \in Task, NEW o, o = blk_obj[t], task_state[t] \in Pending,
           \A u \in AllTask : u # t => task_state'[u] = task_state[u] /\ blk_obj'[u] = blk_obj[u],
           task_state'[t] \notin Pending,
           chg' = mutex_task_pri_reset(t, blk_list'),
           UNCHANGED <<priVars, mutexVars>>,
           pc' = "pri", op'.fn \in {"abort", "tick", "del"},
           pc \in {"run", "tick"} \/ (pc = "mfree" /\ op.task = t /\ task_state'[t] \in Dead)
    PROVE  ExactInv'
<1>0. /\ Task \subseteq AllTask /\ NULL \notin AllTask /\ prio \in [AllTask -> Prio]
      /\ b_prio \in [AllTask -> Prio] /\ Prio \subseteq Int /\ Mutex \subseteq Obj /\ TypeOK
      /\ \A k \in Obj : k \notin Sem => k \in Mutex
      /\ mutex_task \in [Mutex -> Task \cup {NULL}]
      /\ NULL \notin Mutex
  BY Consts, PrioInt DEF IInv, TypeOK, WaitersOwned
<1>1. chg.task = NULL /\ \A m : ~Released(m) /\ ~Released(m)'
  BY DEF ExactInv, LoopOK, Released
<1>2. o \in Obj
  BY <1>0 DEF IInv, WaitersListed
<1>3. \A u \in Task, k \in Mutex : Wants(u, k) <=> task_state[u] \in Pending /\ blk_obj[u] = k
  BY <1>1 DEF Wants
<1>4. \A u \in Task, k \in Mutex : Wants(u, k)' <=> Wants(u, k) /\ u # t
  BY <1>0, <1>1, <1>3 DEF Wants
<1>5. \A u, y \in Task, k \in Mutex : Heir(u, k, y)' <=> Heir(u, k, y) /\ u # t
  BY <1>4 DEF Heir
<1>6. \A y \in Task, k \in Mutex : Heir(t, k, y) => k = o /\ y = mutex_task[o]
  BY <1>3 DEF Heir
<1>7. \A y \in Task : ~Exempt(y)' => ~Exempt(y)
  BY <1>0, StateNames DEF Exempt, BeingDeleted
<1>8. ASSUME NEW y \in Task, ~Exempt(y)', Due(y)' = prio[y], o \in Mutex => y # mutex_task[o]
      PROVE  Right(y, Due(y))'
  <2>1. ~Exempt(y) /\ Due(y)' = Due(y)
    BY <1>0, <1>1, <1>7, <1>8 DEF Due
  <2>2. \A u \in Task, k \in Mutex : Heir(u, k, y)' <=> Heir(u, k, y)
    BY <1>5, <1>6, <1>8
  <2>. QED BY <2>1, <2>2, RightKept DEF ExactInv
<1>9. CASE obj_type[o] # "RHINO_MUTEX_OBJ_TYPE"
  <2>1. chg' = NoChg
    BY <1>9 DEF mutex_task_pri_reset
  <2>2. \A y \in Task : Due(y)' = prio[y]
    BY <1>0, <2>1 DEF Due, NoChg
  <2>3. o \in Mutex => mutex_task[o] = NULL
    BY <1>0, <1>1, <1>9 DEF OwnInv, OwnersListed, ListsOwned, Valid
  <2>4. PriorityDue'
    BY <1>0, <1>8, <2>2, <2>3 DEF PriorityDue
  <2>5. LoopOK'
    BY <2>1 DEF LoopOK, NoChg
  <2>. QED BY <2>4, <2>5 DEF ExactInv
<1>10. CASE obj_type[o] = "RHINO_MUTEX_OBJ_TYPE"
  <2>1. o \in Mutex /\ mutex_task[o] \in Task
    BY <1>0, <1>2, <1>10 DEF IInv, WaitersOwned
  <2>. PICK x \in Task : x = mutex_task[o]
    BY <2>1
  <2>2. x # t
    BY <1>0, <2>1 DEF OutInv, NotOwnWaiter
  <2>3. task_state'[x] \notin Dead
    <3>1. task_state[x] \notin Dead
      BY <1>0, <1>1, <2>1 DEF OwnInv, OwnersListed, ListsOwned
    <3>. QED BY <1>0, <2>2, <3>1
  <2>4. CASE prio[x] = prio[t]
    <3>1. chg' = mutex_release(x, NULL, blk_list')
      BY <1>10, <2>4 DEF mutex_task_pri_reset
    <3>. PICK p : p = HighestPri(x, b_prio[x], NULL, blk_list', prio)
      OBVIOUS
    <3>2. /\ Due(x)' = p
          /\ \A u \in Task : u # x => Due(u)' = prio[u]
          /\ chg'.task = IF p = prio[x] THEN NULL ELSE x
      BY <1>0, <3>1, ReleaseDue
    <3>3. ToSet(mutex_list'[x]) = ToSet(mutex_list[x]) \ {NULL}
      <4>1. mutex_list[x] \in Seq(Mutex)
        BY <1>0 DEF TypeOK
      <4>2. ToSet(mutex_list[x]) \subseteq Mutex
        BY <4>1, ToSetProps
      <4>. QED BY <1>0, <4>2
    <3>4. Right(x, p)'
      BY <1>0, <3>3, FoundRight
    <3>5. PriorityDue'
      BY <1>8, <3>2, <3>4 DEF PriorityDue, Right
    <3>6. LoopOK'
      BY <2>3, <3>2 DEF LoopOK
    <3>. QED BY <3>5, <3>6 DEF ExactInv
  <2>5. CASE prio[x] # prio[t]
    <3>1. chg' = NoChg
      BY <2>5 DEF mutex_task_pri_reset
    <3>2. \A y \in Task : Due(y)' = prio[y]
      BY <1>0, <3>1 DEF Due, NoChg
    <3>3. ASSUME ~Exempt(x)' PROVE Right(x, prio[x])'
      <4>1. Highest(prio[x], b_prio[x], Heirs(x), prio)
        BY <1>0, <1>1, <1>7, <3>3 DEF ExactInv, PriorityDue, Right, Due
      <4>2. Heirs(x)' = Heirs(x) \ {t}
        BY <1>5 DEF Heirs
      <4>. QED BY <2>5, <4>1, <4>2 DEF Right, Highest
    <3>4. PriorityDue'
      BY <1>8, <3>2, <3>3 DEF PriorityDue, Right
    <3>5. LoopOK'
      BY <3>1 DEF LoopOK, NoChg
    <3>. QED BY <3>4, <3>5 DEF ExactInv
  <2>. QED BY <2>4, <2>5
<1>. QED BY <1>9, <1>10

\* The unlock and the deletion of an owner give the mutex to a waiter.
LEMMA ExactPass ==
    ASSUME IInv, ExactInv, OwnInv, WaitersSorted, mutex_unlock_handover \/ task_mutex_free
    PROVE  ExactInv'
<1>0. /\ Task \subseteq AllTask /\ Mutex \subseteq Obj /\ NULL \notin AllTask
      /\ mutex_task \in [Mutex -> AllTask \cup {NULL}]
  BY Consts DEF IInv, TypeOK
<1>1. CASE mutex_unlock_handover
  <2>. PICK m \in Mutex : m = op.obj
    BY <1>1 DEF mutex_unlock_handover, PriChanged, IInv, CallOK
  <2>1. /\ Released(m) /\ chg.task = NULL /\ pc' = "sched" /\ blk_list[m] # <<>>
        /\ UNCHANGED <<priVars, chg>>
    BY <1>1 DEF mutex_unlock_handover, PriChanged, Released
  <2>. PICK w \in Task : w = Head(blk_list[m])
    BY <1>0, <2>1, FirstWaiter
  <2>2. mutex_task' = [mutex_task EXCEPT ![m] = w] /\ pend_task_wakeup(w, m, "BLK_FINISH")
    BY <1>1 DEF mutex_unlock_handover
  <2>. QED BY <2>1, <2>2, ExactHandover
<1>2. CASE task_mutex_free
  <2>. PICK d \in Task : d = op.task
    BY <1>2 DEF task_mutex_free, IInv, CallOK
  <2>1. /\ mutex_list[d] # <<>> /\ mutex_list[d] \in Seq(Mutex) /\ pc = "mfree"
        /\ UNCHANGED <<pc, op, chg, priVars>>
    BY <1>0, <1>2 DEF task_mutex_free, IInv, TypeOK
  <2>. PICK m \in Mutex : m = Head(mutex_list[d])
    BY <2>1
  <2>2. m \in ToSet(mutex_list[d])
    BY <2>1, ToSetProps
  <2>3. mutex_task[m] = d /\ chg.task = NULL
    BY <1>0, <2>1, <2>2 DEF OwnInv, ListsOwned, ExactInv, LoopOK
  <2>4. CASE blk_list[m] # <<>>
    <3>. PICK w \in Task : w = Head(blk_list[m])
      BY <1>0, <2>4, FirstWaiter
    <3>1. mutex_task' = [mutex_task EXCEPT ![m] = w] /\ pend_task_wakeup(w, m, "BLK_FINISH")
      BY <1>2, <2>4 DEF task_mutex_free
    <3>. QED BY <2>1, <2>3, <2>4, <3>1, ExactHandover
  <2>5. CASE blk_list[m] = <<>>
    <3>1. UNCHANGED taskVars /\ mutex_task' = [mutex_task EXCEPT ![m] = NULL]
      BY <1>2, <2>5 DEF task_mutex_free
    <3>2. \A u \in Task : ~(task_state[u] \in Pending /\ blk_obj[u] = m)
      BY <1>0, <2>5, NoWaiter
    <3>3. \A u, y \in Task, k \in Mutex : Heir(u, k, y)' <=> Heir(u, k, y)
      <4>. TAKE u, y \in Task, k \in Mutex
      <4>1. CASE k = m
        BY <2>1, <3>1, <3>2, <4>1 DEF Heir, Wants
      <4>2. CASE k # m
        BY <1>0, <2>1, <3>1, <4>2 DEF Heir, Wants, Released
      <4>. QED BY <4>1, <4>2
    <3>4. \A y \in Task : Due(y)' = Due(y) /\ (Exempt(y) => Exempt(y)')
      BY <2>1, <3>1 DEF Due, Exempt, BeingDeleted
    <3>5. PriorityDue'
      BY <2>1, <3>3, <3>4, RightKept DEF ExactInv, PriorityDue
    <3>6. LoopOK'
      BY <2>1, <2>3 DEF LoopOK
    <3>. QED BY <3>5, <3>6 DEF ExactInv
  <2>. QED BY <2>4, <2>5
<1>. QED BY <1>1, <1>2

\* A timeout, an abort or a deletion ends a wait.
LEMMA ExactGiveUp ==
    ASSUME IInv, ExactInv, OwnInv, OutInv, IInv', OwnInv', WaitersSorted',
           tick_expire_pend \/ task_del_unlink \/ \E t \in Task : wait_abort_pend(t)
    PROVE  ExactInv'
<1>0. /\ Task \subseteq AllTask /\ Mutex \subseteq Obj /\ NULL \notin AllTask
      /\ task_state \in [AllTask -> TaskStat] /\ blk_obj \in [AllTask -> Obj \cup {NULL}]
  BY Consts DEF IInv, TypeOK
<1>1. CASE tick_expire_pend
  <2>. PICK t \in Task : t = Head(g_tick_head)
    BY <1>1, TickHeadTask DEF tick_expire_pend
  <2>1. /\ task_state[t] \in Pending
        /\ \E st \in {"K_RDY", "K_SUSPENDED"} : task_state' = [task_state EXCEPT ![t] = st]
        /\ UNCHANGED <<blk_obj, priVars, mutexVars>>
        /\ pc = "tick" /\ pc' = "pri" /\ op'.fn = "tick"
    BY <1>1 DEF tick_expire_pend, StartPriChange
  <2>2. chg' = mutex_task_pri_reset(t, blk_list')
    BY <1>1 DEF tick_expire_pend, StartPriChange
  <2>3. \A u \in AllTask : u # t => task_state'[u] = task_state[u] /\ blk_obj'[u] = blk_obj[u]
    BY <1>0, <2>1
  <2>4. task_state'[t] \notin Pending
    BY <1>0, <2>1 DEF Pending
  <2>. QED BY <2>1, <2>2, <2>3, <2>4, ExactLeave
<1>2. ASSUME NEW t \in Task, wait_abort_pend(t) PROVE ExactInv'
  <2>1. /\ task_state[t] \in Pending
        /\ task_state' = [task_state EXCEPT ![t] = "K_RDY"]
        /\ UNCHANGED <<blk_obj, priVars, mutexVars>>
        /\ pc = "run" /\ pc' = "pri" /\ op'.fn = "abort"
    BY <1>2 DEF wait_abort_pend, StartPriChange, TaskCalls, InTask
  <2>2. chg' = mutex_task_pri_reset(t, blk_list')
    BY <1>2 DEF wait_abort_pend, StartPriChange
  <2>3. \A u \in AllTask : u # t => task_state'[u] = task_state[u] /\ blk_obj'[u] = blk_obj[u]
    BY <1>0, <2>1
  <2>4. task_state'[t] \notin Pending
    BY <1>0, <2>1 DEF Pending
  <2>. QED BY <2>1, <2>2, <2>3, <2>4, ExactLeave
<1>3. CASE task_del_unlink
  <2>. PICK t \in Task : t = op.task
    BY <1>3 DEF task_del_unlink, IInv, CallOK
  <2>1. /\ task_state' = [task_state EXCEPT ![t] = "K_DELETED"]
        /\ blk_obj' = [blk_obj EXCEPT ![t] = NULL]
        /\ UNCHANGED <<priVars, mutexVars, op>>
        /\ pc = "mfree" /\ pc' = "pri" /\ op'.fn = "del"
    BY <1>3 DEF task_del_unlink, IInv, CallOK
  <2>2. \A u \in AllTask : u # t => task_state'[u] = task_state[u] /\ blk_obj'[u] = blk_obj[u]
    BY <1>0, <2>1
  <2>3. task_state'[t] \notin Pending /\ task_state'[t] \in Dead
    BY <1>0, <2>1 DEF Pending, Dead
  <2>4. CASE task_state[t] \in Pending
    <3>1. chg' = mutex_task_pri_reset(t, blk_list')
      BY <1>3, <2>4 DEF task_del_unlink
    <3>. QED BY <2>1, <2>2, <2>3, <2>4, <3>1, ExactLeave
  <2>5. CASE task_state[t] \notin Pending
    <3>1. chg' = NoChg /\ chg.task = NULL
      BY <1>3, <2>1, <2>5 DEF task_del_unlink, ExactInv, LoopOK
    <3>2. \A u, y \in Task, k \in Mutex : Heir(u, k, y)' <=> Heir(u, k, y)
      BY <1>0, <2>1, <2>2, <2>3, <2>5 DEF Heir, Wants, Released
    <3>3. \A y \in Task : Due(y)' = Due(y) /\ (Exempt(y) => Exempt(y)')
      BY <1>0, <2>1, <2>2, <2>3, <3>1 DEF Due, Exempt, BeingDeleted, NoChg
    <3>4. PriorityDue'
      BY <2>1, <3>2, <3>3, RightKept DEF ExactInv, PriorityDue
    <3>5. LoopOK'
      BY <2>1, <3>1 DEF LoopOK, NoChg
    <3>. QED BY <3>4, <3>5 DEF ExactInv
  <2>. QED BY <2>4, <2>5
<1>. QED BY <1>1, <1>2, <1>3

-----------------------------------------------------------------------------
(***************************************************************************)
(* The loop of task_pri_change.                                            *)
(***************************************************************************)
\* An iteration that ends the loop: the task gets the priority due to it and
\* is nobody's heir, or has it already.
LEMMA ExactLast ==
    ASSUME IInv, ExactInv, task_pri_change,
           pri_change_same \/ pri_change_ready \/ pri_change_idle
    PROVE  ExactInv'
<1>0. /\ Task \subseteq AllTask /\ NULL \notin AllTask /\ prio \in [AllTask -> Prio] /\ Prio \subseteq Int
      /\ chg \in [task : AllTask \cup {NULL}, pri : Prio]
  BY Consts, PrioInt DEF IInv, TypeOK
<1>. PICK t \in Task : t = chg.task
  BY DEF task_pri_change, IInv, CallOK
<1>1. /\ UNCHANGED <<taskVars, b_prio, mutexVars, pc, op, schedVars>> /\ pc = "pri" /\ chg' = NoChg
      /\ prio' = [prio EXCEPT ![t] = chg.pri]
      /\ blk_list' = blk_list
  <2>1. prio[t] = chg.pri => prio = [prio EXCEPT ![t] = chg.pri]
    BY <1>0
  <2>. QED BY <2>1 DEF task_pri_change, pri_change_same, pri_change_ready, pri_change_idle
<1>2. prio'[t] = prio[t] \/ \A k \in Mutex : ~Wants(t, k)
  <2>1. CASE pri_change_same
    BY <2>1 DEF pri_change_same
  <2>2. CASE pri_change_ready \/ pri_change_idle
    <3>1. task_state[t] \notin Pending
      BY <2>2 DEF pri_change_ready, pri_change_idle, Pending, Sleeping
    <3>2. op.fn = "lock" => op.task # t
      <4>. SUFFICES ASSUME op.fn = "lock", op.task = t PROVE FALSE
        OBVIOUS
      <4>1. chg.pri = prio[t] /\ chg.pri < prio[t]
        BY <1>0, <1>1 DEF ExactInv, LoopOK
      <4>. QED BY <1>0, <4>1
    <3>. QED BY <3>1, <3>2 DEF Wants
  <2>. QED BY <2>1, <2>2
<1>3. \A u, y \in Task, k \in Mutex : Heir(u, k, y)' <=> Heir(u, k, y)
  BY <1>1 DEF Heir, Wants, Released
<1>4. \A y \in Task : Due(y)' = Due(y) /\ (Exempt(y) => Exempt(y)')
  BY <1>0, <1>1 DEF Due, Exempt, BeingDeleted, NoChg
<1>5. \A y \in Task : \A w \in Heirs(y) : prio'[w] = prio[w]
  BY <1>0, <1>1, <1>2 DEF Heirs, Heir
<1>6. PriorityDue'
  BY <1>1, <1>3, <1>4, <1>5, RightKept DEF ExactInv, PriorityDue
<1>7. LoopOK'
  BY <1>1 DEF LoopOK, NoChg, ExactInv
<1>. QED BY <1>6, <1>7 DEF ExactInv

\* An iteration that goes to the owner of the mutex the task waits for.
LEMMA ExactOnward ==
    ASSUME IInv, ExactInv, OwnInv, OutInv, IInv', OwnInv', WaitersSorted',
           task_pri_change, pri_change_pend
    PROVE  ExactInv'
<1>0. /\ Task \subseteq AllTask /\ NULL \notin AllTask /\ prio \in [AllTask -> Prio] /\ Prio \subseteq Int
      /\ b_prio \in [AllTask -> Prio] /\ TypeOK /\ Mutex \subseteq Obj /\ NULL \notin Mutex
      /\ chg \in [task : AllTask \cup {NULL}, pri : Prio]
      /\ \A k \in Obj : k \notin Sem => k \in Mutex
  BY Consts, PrioInt DEF IInv, TypeOK
<1>. PICK t \in Task : t = chg.task
  BY DEF task_pri_change, IInv, CallOK
<1>. PICK p1 \in Prio, o \in Obj : p1 = chg.pri /\ o = blk_obj[t]
  BY <1>0 DEF pri_change_pend, IInv, WaitersListed
<1>1. /\ UNCHANGED <<taskVars, b_prio, mutexVars, obj_type, pc, op, schedVars>> /\ pc = "pri"
      /\ task_state[t] \in Pending /\ prio[t] # p1
      /\ prio' = [prio EXCEPT ![t] = p1]
  BY DEF task_pri_change, pri_change_pend
<1>2. chg' = next_owner(t, o, blk_list', prio')
  BY DEF pri_change_pend
<1>3. op.fn # "unlock"
  <2>. SUFFICES ASSUME op.fn = "unlock" PROVE FALSE
    OBVIOUS
  <2>1. t = g_active_task /\ task_state[g_active_task] = "K_RDY"
    BY <1>0, <1>1 DEF ExactInv, LoopOK, IInv, CallOK
  <2>. QED BY <1>1, <2>1, StateNames
<1>4. op.fn = "lock" => prio[op.task] = p1 /\ p1 < prio[t] /\ op.task # t /\ op.task \in Task
  <2>. SUFFICES ASSUME op.fn = "lock"
                PROVE  prio[op.task] = p1 /\ p1 < prio[t] /\ op.task # t /\ op.task \in Task
    OBVIOUS
  <2>1. prio[op.task] = p1 /\ p1 < prio[t] /\ op.task \in Task
    BY <1>0, <1>1 DEF ExactInv, LoopOK, IInv, CallOK
  <2>. QED BY <1>1, <2>1
<1>5. \A m : ~Released(m) /\ ~Released(m)'
  BY <1>1, <1>3 DEF Released
<1>6. \A u, y \in Task, k \in Mutex : Heir(u, k, y)' <=> Heir(u, k, y)
  BY <1>1 DEF Heir, Wants, Released
<1>7. \A y \in Task, k \in Mutex : Heir(t, k, y) <=> k = o /\ y = mutex_task[o]
  BY <1>1, <1>4, <1>5 DEF Heir, Wants
<1>8. /\ prio'[t] = p1 /\ \A u \in Task : u # t => prio'[u] = prio[u]
      /\ \A u \in Task : prio'[u] \in Int /\ prio[u] \in Int /\ b_prio[u] \in Int
      /\ p1 \in Int
  BY <1>0, <1>1
<1>9. \A y \in Task : Exempt(y)' <=> task_state[y] \in Dead
  BY <1>1 DEF Exempt, BeingDeleted
<1>10. \A y \in Task : Exempt(y) <=> task_state[y] \in Dead
  BY <1>1 DEF Exempt, BeingDeleted
<1>11. ASSUME NEW y \in Task, ~Exempt(y)', o \in Mutex => y # mutex_task[o], chg'.task # y
       PROVE  Right(y, Due(y))'
  <2>1. ~Exempt(y) /\ Due(y)' = Due(y)
    BY <1>8, <1>9, <1>10, <1>11 DEF Due
  <2>2. \A w \in Heirs(y) : prio'[w] = prio[w]
    BY <1>7, <1>8, <1>11 DEF Heirs
  <2>. QED BY <1>1, <1>6, <2>1, <2>2, RightKept DEF ExactInv
<1>12. ASSUME chg'.task = NULL \/ /\ chg'.task # NULL /\ task_state[chg'.task] \notin Dead
                                  /\ op.fn = "lock" =>
                                       chg'.pri = p1 /\ p1 < prio'[chg'.task]
       PROVE  LoopOK'
  <2>1. op.fn = "lock" => prio'[op.task] = p1
    BY <1>4, <1>8
  <2>. QED BY <1>1, <1>3, <1>12, <2>1 DEF LoopOK, ExactInv
<1>13. CASE obj_type[o] # "RHINO_MUTEX_OBJ_TYPE"
  <2>1. chg' = NoChg
    BY <1>2, <1>13 DEF next_owner
  <2>2. o \in Mutex => mutex_task[o] = NULL
    <3>1. mutex_task \in [Mutex -> Task \cup {NULL}]
      BY DEF IInv, WaitersOwned
    <3>. QED BY <1>0, <1>5, <1>13, <3>1 DEF OwnInv, OwnersListed, ListsOwned, Valid
  <2>3. PriorityDue'
    BY <1>0, <1>11, <2>1, <2>2 DEF PriorityDue, NoChg
  <2>4. LoopOK'
    BY <1>12, <2>1 DEF NoChg
  <2>. QED BY <2>3, <2>4 DEF ExactInv
<1>14. CASE obj_type[o] = "RHINO_MUTEX_OBJ_TYPE"
  <2>1. o \in Mutex /\ mutex_task[o] \in Task
    BY <1>0, <1>1, <1>14 DEF IInv, WaitersOwned
  <2>. PICK x \in Task : x = mutex_task[o]
    BY <2>1
  <2>2. x # t
    BY <1>0, <1>1, <2>1 DEF OutInv, NotOwnWaiter
  <2>3. task_state[x] \notin Dead
    BY <1>0, <1>5, <2>1 DEF OwnInv, OwnersListed, ListsOwned
  <2>4. Highest(prio[x], b_prio[x], Heirs(x), prio)
    BY <1>0, <1>10, <2>2, <2>3 DEF ExactInv, PriorityDue, Right, Due
  <2>5. Heirs(x)' = Heirs(x) /\ t \in Heirs(x) /\ Heirs(x) \subseteq Task
    BY <1>6, <1>7, <2>1 DEF Heirs
  <2>6. prio[x] <= prio[t] /\ prio'[x] = prio[x]
    BY <1>8, <2>2, <2>4, <2>5 DEF Highest
  <2>7. CASE prio[x] > p1
    <3>1. chg' = [task |-> x, pri |-> p1]
      BY <1>2, <1>8, <1>14, <2>6, <2>7 DEF next_owner
    <3>2. Highest(p1, b_prio[x], Heirs(x), prio')
      BY <1>8, <2>4, <2>5, <2>7 DEF Highest
    <3>3. Due(x)' = p1
      BY <3>1 DEF Due
    <3>4. Right(x, Due(x))'
      BY <1>1, <2>5, <3>2, <3>3 DEF Right
    <3>5. PriorityDue'
      BY <1>11, <3>1, <3>4 DEF PriorityDue
    <3>6. LoopOK'
      <4>1. chg'.task = x /\ chg'.pri = p1 /\ x # NULL /\ p1 < prio'[x]
        BY <1>0, <1>8, <2>6, <2>7, <3>1
      <4>. QED BY <1>12, <2>3, <4>1
    <3>. QED BY <3>5, <3>6 DEF ExactInv
  <2>8. CASE ~(prio[x] > p1) /\ prio[x] = prio[t]
    <3>. PICK p : p = HighestPri(x, b_prio[x], NULL, blk_list', prio')
      OBVIOUS
    <3>1. op.fn # "lock"
      BY <1>4, <1>8, <2>8
    <3>2. ToSet(mutex_list'[x]) = ToSet(mutex_list[x]) \ {NULL}
      <4>1. mutex_list[x] \in Seq(Mutex)
        BY <1>0 DEF TypeOK
      <4>2. ToSet(mutex_list[x]) \subseteq Mutex
        BY <4>1, ToSetProps
      <4>. QED BY <1>0, <1>1, <4>2
    <3>3. Right(x, p)'
      BY <1>0, <1>1, <3>1, <3>2, FoundRight
    <3>4. chg' = IF p # prio[x] THEN [task |-> x, pri |-> p] ELSE NoChg
      <4>1. /\ prio'[t] = p1 /\ ~(prio'[x] > prio'[t]) /\ prio'[x] = prio[t]
        BY <1>8, <2>6, <2>8
      <4>2. mutex_pri_look(x, NULL, blk_list', prio') = p
        BY DEF mutex_pri_look
      <4>. QED BY <1>2, <1>14, <2>6, <4>1, <4>2 DEF next_owner
    <3>5. Due(x)' = p /\ chg'.task = IF p # prio[x] THEN x ELSE NULL
      BY <1>0, <2>6, <3>4 DEF Due, NoChg
    <3>6. Right(x, Due(x))'
      BY <3>3, <3>5 DEF Right
    <3>7. PriorityDue'
      BY <1>0, <1>11, <3>5, <3>6 DEF PriorityDue
    <3>8. LoopOK'
      BY <1>0, <1>12, <2>3, <3>1, <3>5
    <3>. QED BY <3>7, <3>8 DEF ExactInv
  <2>9. CASE ~(prio[x] > p1) /\ prio[x] # prio[t]
    <3>1. chg' = NoChg
      BY <1>2, <1>8, <1>14, <2>6, <2>9 DEF next_owner
    <3>2. Highest(prio[x], b_prio[x], Heirs(x), prio')
      BY <1>8, <2>4, <2>5, <2>9 DEF Highest
    <3>3. Due(x)' = prio[x]
      BY <1>0, <2>6, <3>1 DEF Due, NoChg
    <3>4. Right(x, Due(x))'
      BY <1>1, <2>5, <3>2, <3>3 DEF Right
    <3>5. PriorityDue'
      BY <1>0, <1>11, <3>1, <3>4 DEF PriorityDue, NoChg
    <3>6. LoopOK'
      BY <1>12, <3>1 DEF NoChg
    <3>. QED BY <3>5, <3>6 DEF ExactInv
  <2>. QED BY <2>7, <2>8, <2>9
<1>. QED BY <1>13, <1>14

\* Every step keeps the priorities due.
LEMMA NextExact ==
    ASSUME IInv, ExactInv, OwnInv, OutInv, WaitersSorted, [Next]_vars
    PROVE  ExactInv'
<1>1. IInv' /\ OwnInv' /\ WaitersSorted'
  BY NextIInv, NextOwn, NextSorted
<1>2. CASE KernelStep
  <2>1. CASE task_pri_change
    BY <1>1, <2>1, ExactLast, ExactOnward DEF task_pri_change
  <2>. QED BY <1>1, <1>2, <2>1, ExactSteady, ExactOne, ExactLockPend, ExactUnwanted, ExactPass,
              ExactGiveUp DEF KernelStep
<1>3. CASE core_sched \/ pend_state_end_proc \/ krhino_tick_proc \/ UNCHANGED vars
  BY <1>3, ExactSteady
<1>4. CASE MutexCall
  BY <1>1, <1>4, ExactSteady, ExactUnwanted, ExactInherit, ExactUnlock, ExactMutexDel
     DEF MutexCall, krhino_mutex_lock, krhino_mutex_unlock
<1>5. CASE SemCall
  BY <1>5, ExactSteady, ExactOne DEF SemCall, krhino_sem_take
<1>6. CASE TaskCall
  BY <1>1, <1>6, ExactSteady, ExactOne, ExactCreate, ExactPriChange, ExactGiveUp
     DEF TaskCall, krhino_task_wait_abort
<1>7. CASE CpuCall
  BY <1>7, ExactSteady, ExactOne DEF CpuCall
<1>. QED BY <1>2, <1>3, <1>4, <1>5, <1>6, <1>7 DEF Next

\* At the start nobody waits and every task has its base priority.
LEMMA InitExact == Init => ExactInv
<1>. SUFFICES ASSUME Init PROVE ExactInv
  OBVIOUS
<1>1. /\ pc = "run" /\ chg.task = NULL /\ b_prio = prio /\ \A m \in Mutex : mutex_task[m] = NULL
  BY DEF Init, NoChg
<1>2. LoopOK
  BY <1>1 DEF LoopOK
<1>3. ASSUME NEW t \in Task PROVE Right(t, Due(t))
  <2>1. Heirs(t) = {} /\ NULL \notin Task /\ Task \subseteq AllTask
    BY <1>1, Consts DEF Heirs, Heir
  <2>2. prio[t] \in Int
    BY <2>1, InitIInv, PrioInt DEF IInv, TypeOK
  <2>. QED BY <1>1, <2>1, <2>2 DEF Right, Highest, Due
<1>. QED BY <1>2, <1>3 DEF ExactInv, PriorityDue

\* The priorities due, in every reachable state.
THEOREM ExactInvariant == Spec => []ExactInv
<1>1. Init => ExactInv
  BY InitExact
<1>2. IInv /\ OwnInv /\ OutInv /\ WaitersSorted /\ ExactInv /\ [Next]_vars => ExactInv'
  BY NextExact
<1>. QED BY <1>1, <1>2, KernelInvariant, OwnersInvariant, OutcomeInvariant, WaitersInOrder, PTL
         DEF Spec

\* Priority inheritance is exact for any number of tasks and mutexes and any
\* chain of owners: between kernel calls the priority of every task is the
\* highest of its base priority and the priorities of the waiters of its
\* mutexes.
THEOREM Inheritance == Spec => []PriorityExact
<1>1. IInv /\ ExactInv => PriorityExact
  <2>. SUFFICES ASSUME IInv, ExactInv, Stable, NEW t \in Task, task_state[t] \notin Dead
                PROVE  prio[t] = Min({b_prio[t]} \cup {prio[w] : w \in WaitersOf(t)})
    BY DEF PriorityExact
  <2>. DEFINE S == {b_prio[t]} \cup {prio[w] : w \in WaitersOf(t)}
  <2>1. chg.task = NULL /\ ~Exempt(t) /\ NULL \notin Task
    BY Consts DEF Stable, ExactInv, LoopOK, Exempt, BeingDeleted
  <2>2. Highest(prio[t], b_prio[t], Heirs(t), prio)
    BY <2>1 DEF ExactInv, PriorityDue, Right, Due
  <2>3. Heirs(t) = WaitersOf(t)
    BY DEF Heirs, Heir, Wants, Released, WaitersOf, Stable
  <2>4. WaitersOf(t) \subseteq Task /\ Task \subseteq AllTask
    BY Consts DEF WaitersOf
  <2>5. S \in SUBSET Nat /\ S # {} /\ prio[t] \in Nat
    <3>1. Prio \subseteq Nat
      BY PriAssumption DEF Prio
    <3>2. \A u \in Task : prio[u] \in Nat /\ b_prio[u] \in Nat
      BY <2>4, <3>1 DEF IInv, TypeOK
    <3>. QED BY <2>4, <3>2
  <2>6. prio[t] \in S /\ \A y \in S : prio[t] <= y
    BY <2>2, <2>3 DEF Highest
  <2>7. Min(S) \in S /\ \A y \in S : Min(S) <= y
    <3>. HIDE DEF S
    <3>. QED BY <2>5, NatMin
  <2>8. Min(S) \in Nat /\ prio[t] <= Min(S) /\ Min(S) <= prio[t]
    <3>. HIDE DEF S
    <3>. QED BY <2>5, <2>6, <2>7
  <2>9. prio[t] = Min(S)
    <3>. HIDE DEF S
    <3>. QED BY <2>5, <2>8
  <2>. QED BY <2>9
<1>. QED BY <1>1, ExactInvariant, KernelInvariant, PTL

-----------------------------------------------------------------------------
(***************************************************************************)
(* Who runs.                                                               *)
(***************************************************************************)
\* The CPU belongs to the first task of the highest ready priority, unless the
\* scheduler is locked.
HasCpu == g_sched_lock = 0 => g_active_task = preferred_cpu_ready_task_get(g_ready_queue)

\* krhino_mutex_unlock returns without core_sched when nobody waits for the
\* mutex; no priority has changed then.
Returns == pc = "run" \/ (pc = "pri" /\ op.fn = "unlock" /\ blk_list[op.obj] = <<>>)

RunInv == Returns => HasCpu

\* Every step keeps RunInv.
LEMMA NextRun ==
    ASSUME IInv, ExactInv, RunInv, [Next]_vars
    PROVE  RunInv'
<1>0. g_sched_lock \in Nat
  BY BoundsAssumption DEF IInv, TypeOK
<1>1. ASSUME Returns, UNCHANGED <<g_ready_queue, schedVars>> PROVE RunInv'
  BY <1>1 DEF RunInv, HasCpu
<1>2. ASSUME pc' \in {"sched", "tick", "drain", "mfree"} \/ (pc' = "pri" /\ op'.fn # "unlock")
      PROVE  RunInv'
  BY <1>2 DEF RunInv, Returns
<1>3. CASE task_pri_change
  <2>1. CASE op.fn # "unlock"
    BY <1>2, <1>3, <2>1 DEF task_pri_change
  <2>2. CASE op.fn = "unlock"
    <3>1. chg.task = g_active_task /\ blk_list[op.obj] # <<>> /\ task_state[g_active_task] = "K_RDY"
      BY <1>3, <2>2 DEF task_pri_change, ExactInv, LoopOK, IInv, CallOK
    <3>2. ~pri_change_pend
      BY <3>1, StateNames DEF pri_change_pend
    <3>3. blk_list' = blk_list /\ pc' = "pri" /\ op' = op
      BY <1>3, <3>2 DEF task_pri_change, pri_change_same, pri_change_ready, pri_change_idle
    <3>. QED BY <3>1, <3>3 DEF RunInv, Returns
  <2>. QED BY <2>1, <2>2
<1>4. CASE mutex_unlock_free
  <2>1. Returns /\ UNCHANGED <<g_ready_queue, schedVars>>
    BY <1>4 DEF mutex_unlock_free, PriChanged, Returns
  <2>. QED BY <1>1, <2>1
<1>5. CASE \/ mutex_lock_pend \/ mutex_unlock_handover \/ mutex_del_wake \/ drain_step \/ drain_done
           \/ pri_change_done \/ pend_left \/ task_mutex_free \/ tick_expire_sleep \/ tick_done
  <2>1. pc' \in {"sched", "tick", "drain", "mfree"}
    BY <1>5 DEF mutex_lock_pend, mutex_unlock_handover, mutex_del_wake, drain_step, drain_done,
                pri_change_done, pend_left, task_mutex_free, tick_expire_sleep, tick_done
  <2>. QED BY <1>2, <2>1
<1>6. CASE task_del_unlink \/ tick_expire_pend
  <2>1. pc' = "pri" /\ op'.fn # "unlock"
    BY <1>6 DEF task_del_unlink, tick_expire_pend, StartPriChange, IInv, CallOK
  <2>. QED BY <1>2, <2>1
<1>7. CASE core_sched
  BY <1>0, <1>7 DEF core_sched, RunInv, HasCpu
<1>8. CASE pend_state_end_proc
  BY <1>1, <1>8 DEF pend_state_end_proc, Returns
<1>9. CASE krhino_tick_proc
  BY <1>2, <1>9 DEF krhino_tick_proc
<1>10. CASE UNCHANGED vars
  <2>1. UNCHANGED <<g_ready_queue, schedVars, ctlVars, blk_list>>
    BY <1>10 DEF vars
  <2>. QED BY <2>1 DEF RunInv, Returns, HasCpu
<1>11. CASE MutexCall
  <2>1. pc = "run" /\ UNCHANGED <<g_ready_queue, schedVars>>
    BY <1>11 DEF MutexCall, krhino_mutex_create, krhino_mutex_lock, krhino_mutex_unlock,
                 mutex_lock_nested, mutex_lock_free, mutex_lock_inherit, mutex_unlock_nested,
                 mutex_unlock_release, krhino_mutex_del, TaskCalls, InTask
  <2>. QED BY <1>1, <2>1 DEF Returns
<1>12. CASE SemCall
  <2>1. \/ UNCHANGED <<g_ready_queue, schedVars>> /\ pc \in {"run", "sched"} /\ pc' = pc
        \/ pc' \in {"sched", "drain"}
    BY <1>12 DEF SemCall, krhino_sem_create, krhino_sem_count_set, krhino_sem_del, sem_give_count,
                 sem_give_one, sem_give_all, krhino_sem_take, sem_take_count, sem_take_pend,
                 Calls, TaskCalls, InTask, InIsr
  <2>. QED BY <1>1, <1>2, <2>1 DEF Returns
<1>13. CASE TaskCall
  <2>1. \/ UNCHANGED <<g_ready_queue, schedVars>> /\ pc = "run"
        \/ pc' \in {"sched", "mfree"}
        \/ \E t \in Task : wait_abort_pend(t)
    BY <1>13, ZenonT(40) DEF TaskCall, krhino_task_create, krhino_task_suspend, krhino_task_resume,
                 krhino_task_pri_change, krhino_task_wait_abort, wait_abort_nonpend,
                 krhino_task_del, TaskCalls, InTask
  <2>2. CASE \E t \in Task : wait_abort_pend(t)
    <3>1. pc' = "pri" /\ op'.fn = "abort"
      BY <2>2 DEF wait_abort_pend, StartPriChange
    <3>. QED BY <1>2, <3>1
  <2>. QED BY <1>1, <1>2, <2>1, <2>2 DEF Returns
<1>14. CASE CpuCall
  <2>1. CASE krhino_sched_disable
    BY <1>0, <2>1 DEF krhino_sched_disable, RunInv, HasCpu
  <2>2. CASE krhino_sched_enable
    BY <1>0, <2>2 DEF krhino_sched_enable, RunInv, HasCpu, Returns
  <2>3. CASE krhino_task_yield \/ \E ticks \in Timeouts : krhino_task_sleep(ticks)
    BY <1>2, <2>3 DEF krhino_task_yield, krhino_task_sleep
  <2>. QED BY <1>14, <2>1, <2>2, <2>3 DEF CpuCall
<1>. QED BY <1>3, <1>4, <1>5, <1>6, <1>7, <1>8, <1>9, <1>10, <1>11, <1>12, <1>13, <1>14
         DEF Next, KernelStep

\* Whenever a task executes its own code it is ready, and it is the first one
\* of the highest ready priority unless the scheduler is locked.
THEOREM HighestRuns == Spec => []RunsHighest
<1>1. Init => RunInv
  <2>. SUFFICES ASSUME Init PROVE HasCpu
    BY DEF RunInv
  <2>1. BasePri[MainTask] \in Prio /\ BasePri[MainTask] # RHINO_IDLE_PRI
    BY PriAssumption, TasksAssumption DEF Prio, RHINO_IDLE_PRI
  <2>2. preferred_cpu_ready_task_get(g_ready_queue) = MainTask /\ g_active_task = MainTask
    BY <2>1 DEF Init, preferred_cpu_ready_task_get
  <2>. QED BY <2>2 DEF HasCpu
<1>2. IInv /\ ExactInv /\ RunInv /\ [Next]_vars => RunInv'
  BY NextRun
<1>3. IInv /\ RunInv => RunsHighest
  BY DEF IInv, ActiveReady, RunInv, Returns, HasCpu, RunsHighest
<1>. QED BY <1>1, <1>2, <1>3, KernelInvariant, ExactInvariant, PTL DEF Spec
=============================================================================
