----------------------------- MODULE RhinoSched -----------------------------
(***************************************************************************)
(* k_sched.c, single-CPU build: the ready queue with its bitmap and its    *)
(* cached highest priority, core_sched and the scheduler lock.             *)
(*                                                                         *)
(* cur_list_item[p] points into a circular list; the model keeps the list  *)
(* as the sequence that starts at cur_list_item[p], empty for NULL.        *)
(***************************************************************************)
EXTENDS RhinoData

ReadyQueue == [cur_list_item : [Prio -> Seq(AllTask)],
               task_bit_map : SUBSET Prio,
               highest_pri : Prio]

(***************************************************************************)
(* What the queue must be when the tasks are in the states st at the       *)
(* priorities pr: each list holds exactly the ready tasks of its priority, *)
(* once, and the bitmap and highest_pri agree with the lists.              *)
(***************************************************************************)
ReadyQueueMatches(rq, st, pr) ==
    /\ \A p \in Prio :
         /\ ToSet(rq.cur_list_item[p]) =
              {t \in AllTask : st[t] = "K_RDY" /\ pr[t] = p}
         /\ IsInjective(rq.cur_list_item[p])
         /\ p \in rq.task_bit_map <=> rq.cur_list_item[p] # <<>>
    /\ rq.highest_pri \in rq.task_bit_map
    /\ \A p \in rq.task_bit_map : rq.highest_pri <= p

ready_list_init(rq, t, p) ==
    [cur_list_item |-> [rq.cur_list_item EXCEPT ![p] = <<t>>],
     task_bit_map |-> rq.task_bit_map \cup {p},
     highest_pri |-> IF p < rq.highest_pri THEN p ELSE rq.highest_pri]

ready_list_add_tail(rq, t, p) ==
    IF rq.cur_list_item[p] = <<>>
    THEN ready_list_init(rq, t, p)
    ELSE [rq EXCEPT !.cur_list_item[p] = Append(@, t)]

ready_list_add_head(rq, t, p) ==
    IF rq.cur_list_item[p] = <<>>
    THEN ready_list_init(rq, t, p)
    ELSE [rq EXCEPT !.cur_list_item[p] = <<t>> \o @]

\* Behind its equals when t has the priority of the running task, else in front.
ready_list_add(rq, t) ==
    IF prio[t] = prio[g_active_task]
    THEN ready_list_add_tail(rq, t, prio[t])
    ELSE ready_list_add_head(rq, t, prio[t])

\* krhino_find_first_bit
find_first_bit(bm) == Min(bm)

\* Mutant: the cached highest_pri is not searched again.
ready_list_rm_stale(rq, t) ==
    LET p == prio[t]
    IN IF Len(rq.cur_list_item[p]) > 1
       THEN [rq EXCEPT !.cur_list_item[p] = klist_rm(@, t)]
       ELSE [rq EXCEPT !.cur_list_item[p] = <<>>, !.task_bit_map = @ \ {p}]

ready_list_rm(rq, t) ==
    LET p == prio[t]
        bm == rq.task_bit_map \ {p}
    IN IF Len(rq.cur_list_item[p]) > 1
       THEN [rq EXCEPT !.cur_list_item[p] = klist_rm(@, t)]
       ELSE [cur_list_item |-> [rq.cur_list_item EXCEPT ![p] = <<>>],
             task_bit_map |-> bm,
             highest_pri |-> IF p # rq.highest_pri THEN rq.highest_pri
                             ELSE find_first_bit(bm)]

ready_list_head_to_tail(rq, p) ==
    [rq EXCEPT !.cur_list_item[p] = Append(Tail(@), Head(@))]

preferred_cpu_ready_task_get(rq) == Head(rq.cur_list_item[rq.highest_pri])

(***************************************************************************)
(* core_sched and krhino_intrpt_exit: both give the CPU to the preferred   *)
(* task unless the scheduler is locked.                                    *)
(***************************************************************************)
core_sched ==
    /\ pc = "sched"
    /\ pc' = "run"
    /\ g_active_task' = IF g_sched_lock > 0 THEN g_active_task
                        ELSE preferred_cpu_ready_task_get(g_ready_queue)
    /\ UNCHANGED <<taskVars, priVars, objVars, mutexVars, count, tickVars,
                   g_ready_queue, g_sched_lock, op, chg>>

krhino_sched_disable ==
    /\ TaskCalls("sched_disable")
    /\ g_sched_lock < LockMax
    /\ g_sched_lock' = g_sched_lock + 1
    /\ UNCHANGED <<taskVars, priVars, objVars, mutexVars, count, tickVars,
                   g_ready_queue, g_active_task, ctlVars>>

krhino_sched_enable ==
    /\ TaskCalls("sched_disable")
    /\ g_sched_lock > 0
    /\ g_sched_lock' = g_sched_lock - 1
    /\ pc' = IF g_sched_lock' > 0 THEN "run" ELSE "sched"
    /\ UNCHANGED <<taskVars, priVars, objVars, mutexVars, count, tickVars,
                   g_ready_queue, g_active_task, op, chg>>

(***************************************************************************)
(* krhino_task_yield rotates the ready list of the running task's          *)
(* priority.                                                               *)
(***************************************************************************)
krhino_task_yield ==
    /\ TaskCalls("yield")
    /\ g_ready_queue' = ready_list_head_to_tail(g_ready_queue, prio[g_active_task])
    /\ pc' = "sched"
    /\ UNCHANGED <<taskVars, priVars, objVars, mutexVars, count, tickVars,
                   schedVars, op, chg>>

(***************************************************************************)
(* time_slice_update for priority p.  The slice left and the policy of the *)
(* first task are not kept: with another task behind it, either outcome    *)
(* can happen.                                                             *)
(***************************************************************************)
time_slice_update(p) ==
    \/ g_ready_queue' = g_ready_queue
    \/ /\ Len(g_ready_queue.cur_list_item[p]) > 1
       /\ g_ready_queue' = ready_list_head_to_tail(g_ready_queue, p)
=============================================================================
