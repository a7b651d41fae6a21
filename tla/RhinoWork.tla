------------------------------ MODULE RhinoWork ------------------------------
(***************************************************************************)
(* k_workqueue.c on top of k_timer.c: a work queue with its list of works, *)
(* its semaphore and its worker task; clients that submit and cancel works *)
(* and delete the queue; and the callback of the timers of delayed works,  *)
(* which runs in the timer task.                                           *)
(*                                                                         *)
(* A call that leaves its critical section before it goes on is split      *)
(* there: work_run links the work in one step and gives the semaphore in   *)
(* the next, work_cancel reads work->wq before it enters the critical      *)
(* section, workqueue_del checks that the queue is idle and deletes the    *)
(* worker, the semaphore and the queue in further steps.                   *)
(*                                                                         *)
(* The semaphore is its count: a token given is counted or handed to the   *)
(* waiting worker, which is the same for a single taker (RhinoSem).        *)
(***************************************************************************)
EXTENDS RhinoTimer

CONSTANTS
    Work,           \* kwork_t objects, initialised by krhino_work_init
    WorkTimer,      \* work->timer of the delayed works (work->dly > 0)
    Client,         \* tasks and handlers that call the work queue
    Queue,          \* the kworkqueue_t
    MayDelete       \* whether the application deletes the queue

ASSUME WorkAssumption ==
    /\ DOMAIN WorkTimer \subseteq Work
    /\ \A w \in DOMAIN WorkTimer : WorkTimer[w] \in Timer \ AppTimer
    /\ \A v, w \in DOMAIN WorkTimer : WorkTimer[v] = WorkTimer[w] => v = w
    /\ NULL \notin Work
    /\ IsFiniteSet(Client)
    /\ MayDelete \in BOOLEAN

VARIABLES
    work_list,      \* works linked on the queue, the oldest first
    work_current,
    count,          \* sem.count
    work_exit,      \* work->work_exit, 1 while the work is linked
    wq,             \* work->wq is the queue, or NULL
    live,           \* the queue is on g_workqueue_list_head
    wpc,            \* where the worker task is
    cpc,            \* where each client is in its call
    cancelled       \* works whose cancellation has succeeded, for the properties

queueVars == <<work_list, work_current, work_exit, wq>>
workVars == <<queueVars, count, live, wpc, cpc, cancelled>>
vars == <<tVars, workVars>>

Delayed(w) == w \in DOMAIN WorkTimer

\* A client is not in a call, or at the step of the call it does next.
At(step, w) == [step |-> step, work |-> w]
NoCall == At("none", NULL)

Init ==
    /\ TimerInit
    /\ work_list = <<>>
    /\ work_current = NULL
    /\ count = 0
    /\ work_exit = [w \in Work |-> 0]
    /\ wq = [w \in Work |-> NULL]
    /\ live = TRUE
    /\ wpc = "take"
    /\ cpc = [c \in Client |-> NoCall]
    /\ cancelled = {}
------------------------------------------------------------------------------
\* worker_task takes a token,
worker_take ==
    /\ wpc = "take"
    /\ count > 0
    /\ count' = count - 1
    /\ wpc' = "pop"
    /\ UNCHANGED <<tVars, queueVars, live, cpc, cancelled>>

\* Mutant: the worker marks the work as free before it unlinks it.
worker_pop_keeps ==
    /\ wpc = "pop"
    /\ work_list # <<>>
    /\ work_current' = Head(work_list)
    /\ work_list' = work_list
    /\ work_exit' = [work_exit EXCEPT ![Head(work_list)] = 0]
    /\ wpc' = "handle"
    /\ UNCHANGED <<tVars, wq, count, live, cpc, cancelled>>

\* unlinks the oldest work, which the token promises is there,
worker_pop ==
    /\ wpc = "pop"
    /\ work_list # <<>>
    /\ work_current' = Head(work_list)
    /\ work_list' = Tail(work_list)
    /\ work_exit' = [work_exit EXCEPT ![Head(work_list)] = 0]
    /\ wpc' = "handle"
    /\ UNCHANGED <<tVars, wq, count, live, cpc, cancelled>>

\* and clears work_current when the handler has returned.
worker_done ==
    /\ wpc = "handle"
    /\ work_current' = NULL
    /\ wpc' = "take"
    /\ UNCHANGED <<tVars, work_list, work_exit, wq, count, live, cpc, cancelled>>
------------------------------------------------------------------------------
\* Mutant: a work that is already linked is linked again.
Link_Twice(w) ==
    /\ work_current # w
    /\ work_list' = Append(klist_rm(work_list, w), w)
    /\ wq' = [wq EXCEPT ![w] = Queue]
    /\ work_exit' = [work_exit EXCEPT ![w] = 1]
    /\ UNCHANGED work_current

\* The critical section of work_run and of work_timer_cb, after its checks.
Link(w) ==
    /\ work_current # w
    /\ work_exit[w] = 0
    /\ work_list' = Append(klist_rm(work_list, w), w)
    /\ wq' = [wq EXCEPT ![w] = Queue]
    /\ work_exit' = [work_exit EXCEPT ![w] = 1]
    /\ UNCHANGED work_current

\* The queue takes works while it is live and nobody deletes it.
Open == live /\ \A c \in Client : cpc[c].step \notin {"del_task", "del_sem", "del_node"}

krhino_work_run(c, w) ==
    /\ cpc[c] = NoCall /\ ~Delayed(w) /\ Open
    /\ Call
    /\ Link(w)
    /\ cpc' = [cpc EXCEPT ![c] = At("give", w)]
    /\ cancelled' = cancelled \ {w}
    /\ UNCHANGED <<timerVars, g_timer_queue, count, live, wpc>>

krhino_sem_give(c) ==
    /\ cpc[c].step = "give"
    /\ count' = count + 1
    /\ cpc' = [cpc EXCEPT ![c] = NoCall]
    /\ UNCHANGED <<tVars, queueVars, live, wpc, cancelled>>

\* Mutant: work_timer_cb returns without giving the semaphore.
work_timer_cb_silent ==
    /\ tpc = "give"
    /\ timer_cb_end
    /\ UNCHANGED workVars

\* A delayed work restarts its timer; an error tells that the command queue
\* is full.
krhino_work_run_delayed(c, w) ==
    /\ cpc[c] = NoCall /\ Delayed(w) /\ Open
    /\ Call
    /\ CanSend
    /\ Send(Command("arg_chg_auto", WorkTimer[w], 0, 0, Queue))
    /\ cancelled' = cancelled \ {w}
    /\ UNCHANGED <<queueVars, count, live, wpc, cpc>>
------------------------------------------------------------------------------
\* The work a timer belongs to, timer->priv.
WorkOf(x) == CHOOSE w \in DOMAIN WorkTimer : WorkTimer[w] = x

\* work_timer_cb: the work is linked unless it is running or linked.
work_timer_cb ==
    /\ tpc = "cb" /\ tcur \notin AppTimer
    /\ \/ /\ Link(WorkOf(tcur))
          /\ tpc' = "give"
          /\ UNCHANGED <<ktimer, g_timer_head, g_timer_queue, lag, tcmd, tcur,
                         twait, late, calls>>
       \/ /\ work_current = WorkOf(tcur) \/ work_exit[WorkOf(tcur)] = 1
          /\ timer_cb_end
          /\ UNCHANGED queueVars
    /\ UNCHANGED <<count, live, wpc, cpc, cancelled>>

work_timer_cb_give ==
    /\ tpc = "give"
    /\ count' = count + 1
    /\ timer_cb_end
    /\ UNCHANGED <<queueVars, live, wpc, cpc, cancelled>>

\* A callback of the application, which leaves the queue alone.
app_timer_cb ==
    /\ tpc = "cb" /\ tcur \in AppTimer
    /\ timer_cb_end
    /\ UNCHANGED workVars
------------------------------------------------------------------------------
\* krhino_work_cancel reads work->wq,
krhino_work_cancel(c, w) ==
    /\ cpc[c] = NoCall
    /\ Call
    /\ cpc' = [cpc EXCEPT ![c] = At(IF wq[w] = NULL THEN "stop" ELSE "cancel", w)]
    /\ UNCHANGED <<timerVars, g_timer_queue, queueVars, count, live, wpc, cancelled>>

\* stops the timer of a delayed work without a queue, whatever comes of it,
work_cancel_stop(c) ==
    LET w == cpc[c].work
    IN  /\ cpc[c].step = "stop"
        /\ IF Delayed(w) THEN Send(Command("stop", WorkTimer[w], 0, 0, NULL))
           ELSE UNCHANGED <<timerVars, g_timer_queue>>
        /\ cpc' = [cpc EXCEPT ![c] = NoCall]
        /\ cancelled' = cancelled \cup {w}
        /\ UNCHANGED <<calls, queueVars, count, live, wpc>>

\* and forgets the queue of a work that is neither running nor linked.
work_cancel_unlink(c) ==
    LET w == cpc[c].work
    IN  /\ cpc[c].step = "cancel"
        /\ IF work_current = w \/ work_exit[w] = 1
           THEN UNCHANGED <<queueVars, cancelled>>
           ELSE /\ work_list' = klist_rm(work_list, w)
                /\ wq' = [wq EXCEPT ![w] = NULL]
                /\ cancelled' = cancelled \cup {w}
                /\ UNCHANGED <<work_current, work_exit>>
        /\ cpc' = [cpc EXCEPT ![c] = NoCall]
        /\ UNCHANGED <<tVars, count, live, wpc>>
------------------------------------------------------------------------------
\* The application deletes a queue that it has stopped to use: no call on it
\* is in progress and no timer is going to submit to it.
Unused ==
    /\ \A c \in Client : cpc[c] = NoCall
    /\ \A w \in DOMAIN WorkTimer : ktimer[WorkTimer[w]].timer_state = "deactive"
    /\ g_timer_queue = <<>> /\ tcmd = NoCommand

\* krhino_workqueue_del: refused while a work is linked or running.
krhino_workqueue_del(c) ==
    /\ MayDelete
    /\ Unused /\ live
    /\ Call
    /\ work_list = <<>> /\ work_current = NULL
    /\ cpc' = [cpc EXCEPT ![c] = At("del_task", NULL)]
    /\ UNCHANGED <<timerVars, g_timer_queue, queueVars, count, live, wpc, cancelled>>

workqueue_del_task(c) ==
    /\ cpc[c].step = "del_task"
    /\ wpc' = "deleted"
    /\ cpc' = [cpc EXCEPT ![c] = At("del_sem", NULL)]
    /\ UNCHANGED <<tVars, queueVars, count, live, cancelled>>

workqueue_del_sem(c) ==
    /\ cpc[c].step = "del_sem"
    /\ count' = 0
    /\ cpc' = [cpc EXCEPT ![c] = At("del_node", NULL)]
    /\ UNCHANGED <<tVars, queueVars, live, wpc, cancelled>>

workqueue_del_node(c) ==
    /\ cpc[c].step = "del_node"
    /\ live' = FALSE
    /\ cpc' = [cpc EXCEPT ![c] = NoCall]
    /\ UNCHANGED <<tVars, queueVars, count, wpc, cancelled>>

\* krhino_workqueue_create; nobody knows the queue before it returns.
krhino_workqueue_create(c) ==
    /\ cpc[c] = NoCall /\ ~live
    /\ Call
    /\ work_list' = <<>> /\ work_current' = NULL
    /\ count' = 0
    /\ live' = TRUE
    /\ wpc' = "take"
    /\ UNCHANGED <<timerVars, g_timer_queue, work_exit, wq, cpc, cancelled>>
------------------------------------------------------------------------------
Worker == worker_take \/ worker_pop \/ worker_done

TimerCallback == work_timer_cb \/ work_timer_cb_give \/ app_timer_cb

\* A call goes on.
Continue(c) ==
    \/ krhino_sem_give(c)
    \/ work_cancel_stop(c)
    \/ work_cancel_unlink(c)
    \/ workqueue_del_task(c)
    \/ workqueue_del_sem(c)
    \/ workqueue_del_node(c)

Begin(c) ==
    \/ \E w \in Work :
          \/ krhino_work_run(c, w)
          \/ krhino_work_run_delayed(c, w)
          \/ krhino_work_cancel(c, w)
    \/ krhino_workqueue_del(c)
    \/ krhino_workqueue_create(c)

Next ==
    \/ Worker
    \/ TimerTask /\ UNCHANGED workVars
    \/ TimerCallback
    \/ Tick /\ UNCHANGED workVars
    \/ \E x \in AppTimer : TimerCalls(x) /\ UNCHANGED workVars
    \/ \E c \in Client : Begin(c) \/ Continue(c)

Spec == Init /\ [][Next]_vars

(***************************************************************************)
(* Fairness: the worker, the timer task and a client in a call are tasks   *)
(* that get the CPU in the end, and ticks keep coming.  Nothing is assumed *)
(* about the calls the application makes.                                  *)
(***************************************************************************)
FairSpec ==
    /\ Spec
    /\ WF_vars(Worker)
    /\ WF_vars(TimerTask /\ UNCHANGED workVars)
    /\ WF_vars(TimerCallback)
    /\ WF_vars(Tick /\ UNCHANGED workVars)
    /\ \A c \in Client : WF_vars(Continue(c))
------------------------------------------------------------------------------
\* The state is well formed; the command queue of the timers, which work_run,
\* work_cancel and the application fill, does not overflow.
TypeOK ==
    /\ TimerTypeOK
    /\ work_list \in Seq(Work)
    /\ work_current \in Work \cup {NULL}
    /\ count \in Nat
    /\ work_exit \in [Work -> {0, 1}]
    /\ wq \in [Work -> {Queue, NULL}]
    /\ live \in BOOLEAN
    /\ wpc \in {"take", "pop", "handle", "deleted"}
    /\ cancelled \subseteq Work

(***************************************************************************)
(* Each linked work has its token: in the semaphore, about to be given, or *)
(* in the hand of the worker.  k_workqueue.c links and gives in two steps  *)
(* and the worker takes the head of the list without a look: a token too   *)
(* many would make it run the list head itself, one too few would leave a  *)
(* work behind.                                                            *)
(***************************************************************************)
TokensExact ==
    Len(work_list) = count
                     + Cardinality({c \in Client : cpc[c].step = "give"})
                     + (IF tpc = "give" THEN 1 ELSE 0)
                     + (IF wpc = "pop" THEN 1 ELSE 0)

(***************************************************************************)
(* work_exit tells the truth: it is 1 exactly while the work is linked,    *)
(* once, and the running work is not linked.                               *)
(***************************************************************************)
WorkExitExact ==
    /\ \A w \in Work :
          Cardinality({i \in DOMAIN work_list : work_list[i] = w}) = work_exit[w]
    /\ work_current # NULL => work_exit[work_current] = 0
    /\ (work_current # NULL) <=> (wpc = "handle")

(***************************************************************************)
(* A linked work is run: its token reaches the worker although cancels,    *)
(* timers and other works come in between.                                 *)
(***************************************************************************)
LinkedWorkRuns == \A w \in Work : work_exit[w] = 1 ~> work_current = w

(***************************************************************************)
(* A timer that runs fires or is stopped, and does not run for ever: the   *)
(* list may be out of order for a while, but the timer task comes to every *)
(* timer on it once the commands cease.                                    *)
(***************************************************************************)
TimersExpire ==
    \A x \in Timer \ AppTimer :
        ktimer[x].timer_state = "active" ~> ktimer[x].timer_state = "deactive"

(***************************************************************************)
(* A work whose krhino_work_cancel returned RHINO_SUCCESS has no running   *)
(* timer that would submit it again, unless the stop command is on its way.*)
(***************************************************************************)
CancelStopsTimer ==
    \A w \in cancelled \cap DOMAIN WorkTimer :
        ktimer[WorkTimer[w]].timer_state = "active" =>
            \/ tcmd.timer = WorkTimer[w] /\ tcmd.cb_num = "stop"
            \/ \E i \in DOMAIN g_timer_queue :
                  /\ g_timer_queue[i].timer = WorkTimer[w]
                  /\ g_timer_queue[i].cb_num = "stop"
==============================================================================
