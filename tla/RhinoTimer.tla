----------------------------- MODULE RhinoTimer ------------------------------
(***************************************************************************)
(* k_timer.c: the timer task and the commands sent to it.  A call of the   *)
(* API only puts a command on g_timer_queue; the timer task takes the      *)
(* commands in order, keeps the list of the running timers and calls their *)
(* callbacks.  The list and the timers belong to the timer task, so the    *)
(* body of a command and one iteration of timer_cb_proc are single steps,  *)
(* except for the callback, which is a step of its own at tpc = "cb".      *)
(*                                                                         *)
(* Time is kept relative to the system tick: left is timer->match and lag  *)
(* is the tick the timer task has read and works with, both minus          *)
(* krhino_sys_tick_get().  The read is a step of its own, so ticks may     *)
(* come between it and what the task does with it.  The 64-bit sys_time_t  *)
(* does not wrap, but the unsigned difference of timer_list_pri_insert     *)
(* does when a timer is overdue.                                           *)
(*                                                                         *)
(* g_timer_queue is a queue as MsgQueue has it (RhinoQueue implements it): *)
(* a command goes straight to the timer task when it waits.                *)
(***************************************************************************)
EXTENDS RhinoList, FiniteSets

CONSTANTS
    Timer,          \* ktimer_t objects
    First, Round,   \* what each timer is created with, in ticks
    AppTimer,       \* timers the application commands itself
    FirstChoices,   \* values of first in krhino_timer_change
    NULL,
    TimerMsgNum,    \* RHINO_CONFIG_TIMER_MSG_NUM
    MaxLag,         \* bound: ticks from the timer task being ready to its next wait
    MaxCalls        \* bound: calls the application makes

ASSUME TimerAssumption ==
    /\ AppTimer \subseteq Timer
    /\ NULL \notin Timer
    /\ First \in [Timer -> Nat \ {0}]
    /\ Round \in [Timer -> Nat]
    /\ FirstChoices \subseteq Nat
    /\ TimerMsgNum \in Nat \ {0}
    /\ MaxLag \in Nat
    /\ MaxCalls \in Nat

VARIABLES
    ktimer,         \* the fields of each timer
    g_timer_head,   \* running timers
    g_timer_queue,  \* commands
    lag,            \* g_timer_count, or tick_start until its wait is over
    tpc,            \* where the timer task is
    tcmd,           \* the command it has received
    tcur,           \* the cursor of timer_cb_proc
    twait,          \* ticks left of its timed wait
    late,           \* ticks since it became ready
    calls           \* calls the application has made

timerVars == <<ktimer, g_timer_head, lag, tpc, tcmd, tcur, twait, late>>
tVars == <<timerVars, g_timer_queue, calls>>

\* "outer": before the receive call of the outer loop; "inner": before the
\* inner loop reads the tick; "recv": before its receive call; "idle" and
\* "wait": in the two calls; "outer_cmd" and "inner_cmd": a command received;
\* "outer_proc" and "inner_proc": and the tick read; "expired": the timed wait
\* is over; "scan": in the loop of timer_cb_proc; "cb" and "give": in a callback.
TimerPc == {"outer", "idle", "outer_cmd", "outer_proc",
            "inner", "recv", "wait", "inner_cmd", "inner_proc", "expired",
            "scan", "cb", "give"}
Waits == {"idle", "wait"}

\* The task has read the tick and is going to use it.  In "wait" lag stays the
\* age tick_start had when the wait began; elsewhere it is not used.
Timed == {"outer_proc", "inner_proc", "recv", "scan", "cb", "give"}

Command(cb_num, x, first, round, arg) ==
    [cb_num |-> cb_num, timer |-> x, first |-> first, round |-> round, arg |-> arg]
NoCommand == Command("none", NULL, 0, 0, NULL)

TimerInit ==
    /\ ktimer = [x \in Timer |->
                    [obj_type |-> "timer", timer_state |-> "deactive",
                     init_count |-> First[x], round_ticks |-> Round[x],
                     timer_cb_arg |-> NULL, left |-> 0]]
    /\ g_timer_head = <<>>
    /\ g_timer_queue = <<>>
    /\ lag = 0
    /\ tpc = "outer" /\ tcmd = NoCommand /\ tcur = NULL
    /\ twait = 0 /\ late = 0 /\ calls = 0
------------------------------------------------------------------------------
\* The order of the list: y is passed over unless its unsigned distance to
\* g_timer_count is more than val.  count is g_timer_count.
GoesBefore(val, left, count) == left - count < 0 \/ left - count > val

\* s is the list and the timers; the place of x is found by its remain, val.
timer_list_pri_insert(s, x, val, count) ==
    LET i == CHOOSE i \in 1 .. Len(s.list) + 1 :
                /\ i <= Len(s.list) =>
                      GoesBefore(val, s.timers[s.list[i]].left, count)
                /\ \A j \in 1 .. i - 1 :
                      ~GoesBefore(val, s.timers[s.list[j]].left, count)
    IN  InsertAt(s.list, i, x)

\* to_head is not NULL exactly while the timer is linked.
timer_list_rm(list, x) == klist_rm(list, x)

cmd_start(s, c) ==
    LET t == s.timers[c.timer]
    IN  IF t.obj_type # "timer" \/ t.timer_state = "active" THEN s
        ELSE [list   |-> timer_list_pri_insert(s, c.timer, t.init_count, lag),
              timers |-> [s.timers EXCEPT ![c.timer].left = lag + t.init_count,
                                          ![c.timer].timer_state = "active"]]

\* Mutant: the timer is stopped but stays on the list.
cmd_stop_linked(s, c) ==
    IF s.timers[c.timer].obj_type # "timer" THEN s
    ELSE [s EXCEPT !.timers[c.timer].timer_state = "deactive"]

cmd_stop(s, c) ==
    LET t == s.timers[c.timer]
    IN  IF t.obj_type # "timer" \/ t.timer_state = "deactive" THEN s
        ELSE [list   |-> timer_list_rm(s.list, c.timer),
              timers |-> [s.timers EXCEPT ![c.timer].left = 0,
                                          ![c.timer].timer_state = "deactive"]]

\* The commands that change a timer that is not running.
Idle(s, c) == /\ s.timers[c.timer].obj_type = "timer"
              /\ s.timers[c.timer].timer_state = "deactive"

cmd_chg(s, c) ==
    IF c.first = 0 \/ ~Idle(s, c) THEN s
    ELSE [s EXCEPT !.timers[c.timer].init_count = c.first,
                   !.timers[c.timer].round_ticks = c.round]

cmd_arg_chg(s, c) ==
    IF ~Idle(s, c) THEN s ELSE [s EXCEPT !.timers[c.timer].timer_cb_arg = c.arg]

cmd_del(s, c) ==
    IF ~Idle(s, c) THEN s ELSE [s EXCEPT !.timers[c.timer].obj_type = "none"]

\* timer_cmd_proc and cmd_proc.
timer_cmd_proc(s, c) ==
    CASE c.cb_num = "start" -> cmd_start(s, c)
      [] c.cb_num = "stop" -> cmd_stop(s, c)
      [] c.cb_num = "chg" -> cmd_chg(s, c)
      [] c.cb_num = "arg_chg" -> cmd_arg_chg(s, c)
      [] c.cb_num = "arg_chg_auto" -> cmd_start(cmd_arg_chg(cmd_stop(s, c), c), c)
      [] c.cb_num = "del" -> cmd_del(s, c)
------------------------------------------------------------------------------
\* Mutant: the command queue takes one command more than it has room for.
CanSend_OneMore == tpc \in Waits \/ Len(g_timer_queue) <= TimerMsgNum

\* krhino_buf_queue_send of a command; refused when the queue is full.
CanSend == tpc \in Waits \/ Len(g_timer_queue) < TimerMsgNum

Send(c) ==
    IF tpc \in Waits
    THEN /\ tpc' = IF tpc = "idle" THEN "outer_cmd" ELSE "inner_cmd"
         /\ tcmd' = c /\ twait' = 0 /\ lag' = 0
         /\ UNCHANGED <<ktimer, g_timer_head, g_timer_queue, tcur, late>>
    ELSE /\ g_timer_queue' = IF CanSend THEN Append(g_timer_queue, c)
                             ELSE g_timer_queue
         /\ UNCHANGED timerVars

\* Mutant: the task waits although a command is stored.
Receive_Deaf(waiting, received, ticks) ==
    /\ tpc' = waiting /\ twait' = ticks /\ late' = 0
    /\ UNCHANGED <<tcmd, g_timer_queue, lag>>

\* krhino_buf_queue_recv in the timer task: a stored command, or a wait.
Receive(waiting, received, ticks) ==
    IF g_timer_queue # <<>>
    THEN /\ tpc' = received /\ tcmd' = Head(g_timer_queue)
         /\ g_timer_queue' = Tail(g_timer_queue)
         /\ twait' = 0 /\ lag' = 0
         /\ UNCHANGED late
    ELSE /\ tpc' = waiting /\ twait' = ticks /\ late' = 0
         /\ UNCHANGED <<tcmd, g_timer_queue, lag>>

\* The receive call of the outer loop.  Its timeout changes nothing but
\* g_timer_count, which is set again before it is used.
timer_task_outer ==
    /\ tpc = "outer"
    /\ Receive("idle", "outer_cmd", 0)
    /\ UNCHANGED <<ktimer, g_timer_head, tcur, calls>>

\* The condition of the inner loop.
LoopPc(list) == IF list = <<>> THEN "outer" ELSE "inner"

\* timer_cb_proc begins at the head of the list.
Cursor(list) == IF list = <<>> THEN NULL ELSE Head(list)

\* A command has been received: g_timer_count becomes the present tick.
timer_task_tick ==
    /\ tpc \in {"outer_cmd", "inner_cmd"}
    /\ tpc' = IF tpc = "outer_cmd" THEN "outer_proc" ELSE "inner_proc"
    /\ lag' = 0
    /\ UNCHANGED <<ktimer, g_timer_head, g_timer_queue, tcmd, tcur, twait, late, calls>>

\* The command is processed.  In the inner loop timer_cb_proc follows with the
\* same g_timer_count, after the outer call the inner loop begins.
timer_task_cmd ==
    /\ tpc \in {"outer_proc", "inner_proc"}
    /\ LET s == timer_cmd_proc([list |-> g_timer_head, timers |-> ktimer], tcmd)
       IN  /\ g_timer_head' = s.list
           /\ ktimer' = s.timers
           /\ tpc' = IF tpc = "inner_proc" THEN "scan" ELSE LoopPc(s.list)
           /\ tcur' = IF tpc = "inner_proc" THEN Cursor(s.list) ELSE NULL
    /\ lag' = IF tpc = "inner_proc" THEN lag ELSE 0
    /\ tcmd' = NoCommand
    /\ UNCHANGED <<g_timer_queue, twait, late, calls>>

\* The inner loop reads the tick and sees how long it may wait for the first
\* timer: delta ticks, or not at all, then timer_cb_proc begins.
timer_task_inner ==
    LET delta == ktimer[Head(g_timer_head)].left
    IN  /\ tpc = "inner"
        /\ \/ /\ delta > 0
              /\ tpc' = "recv" /\ twait' = delta
              /\ UNCHANGED tcur
           \/ /\ delta <= 0
              /\ tpc' = "scan" /\ tcur' = Head(g_timer_head)
              /\ UNCHANGED twait
        /\ lag' = 0
        /\ UNCHANGED <<ktimer, g_timer_head, g_timer_queue, tcmd, late, calls>>

\* The receive call with the delta of before, which ticks since then have made
\* too long.
timer_task_recv ==
    /\ tpc = "recv"
    /\ Receive("wait", "inner_cmd", twait)
    /\ UNCHANGED <<ktimer, g_timer_head, tcur, calls>>

timer_task_expired ==
    /\ tpc = "expired"
    /\ tpc' = "scan" /\ tcur' = Head(g_timer_head) /\ lag' = 0
    /\ UNCHANGED <<ktimer, g_timer_head, g_timer_queue, tcmd, twait, late, calls>>

\* The timer at the cursor of timer_cb_proc has reached its time.
Due == tcur # NULL /\ ktimer[tcur].left - lag <= 0

\* timer_cb_proc at the cursor: the callback of a timer that is due, or the
\* end of the loop.  g_timer_count is dead outside of it.
timer_cb_proc ==
    /\ tpc = "scan"
    /\ \/ /\ Due
          /\ tpc' = "cb"
          /\ UNCHANGED <<lag, tcur>>
       \/ /\ ~Due
          /\ tpc' = LoopPc(g_timer_head) /\ tcur' = NULL /\ lag' = 0
    /\ UNCHANGED <<ktimer, g_timer_head, g_timer_queue, tcmd, twait, late, calls>>

\* The timer after x on the list.
Successor(list, x) ==
    LET i == CHOOSE i \in 1 .. Len(list) : list[i] = x
    IN  IF i = Len(list) THEN NULL ELSE list[i + 1]

\* Mutant: a timer without a period is linked again after it fired.
timer_cb_end_rearm ==
    LET rest  == timer_list_rm(g_timer_head, tcur)
        again == timer_list_pri_insert([list |-> rest, timers |-> ktimer],
                                       tcur, ktimer[tcur].init_count, lag)
    IN  /\ tpc' = "scan"
        /\ g_timer_head' = again
        /\ tcur' = Successor(again, tcur)
        /\ ktimer' = [ktimer EXCEPT ![tcur].left = lag + ktimer[tcur].init_count]
        /\ UNCHANGED <<g_timer_queue, lag, tcmd, twait, late, calls>>

(***************************************************************************)
(* The callback has returned: the timer is unlinked, and linked again if   *)
(* it is periodic.  The cursor moves on over q->next: klist_rm leaves it   *)
(* in an unlinked element, a linked one has it at its new place.           *)
(***************************************************************************)
timer_cb_end ==
    LET rest  == timer_list_rm(g_timer_head, tcur)
        round == ktimer[tcur].round_ticks
        again == timer_list_pri_insert([list |-> rest, timers |-> ktimer],
                                       tcur, round, lag)
    IN  /\ tpc' = "scan"
        /\ g_timer_head' = IF round > 0 THEN again ELSE rest
        /\ tcur' = Successor(IF round > 0 THEN again ELSE g_timer_head, tcur)
        /\ ktimer' = IF round > 0 THEN [ktimer EXCEPT ![tcur].left = lag + round]
                     ELSE [ktimer EXCEPT ![tcur].left = 0,
                                         ![tcur].timer_state = "deactive"]
        /\ UNCHANGED <<g_timer_queue, lag, tcmd, twait, late, calls>>

\* krhino_tick_proc.  A tick in "idle" changes nothing here.
Tick ==
    /\ tpc # "idle"
    /\ tpc = "wait" \/ late < MaxLag
    /\ late' = IF tpc = "wait" THEN 0 ELSE late + 1
    /\ twait' = IF tpc = "wait" THEN twait - 1 ELSE twait
    /\ tpc' = IF tpc = "wait" /\ twait = 1 THEN "expired" ELSE tpc
    /\ lag' = IF tpc \in Timed THEN lag - 1 ELSE IF tpc' = "expired" THEN 0 ELSE lag
    /\ ktimer' = [x \in Timer |-> IF x \in ToSet(g_timer_head)
                                  THEN [ktimer[x] EXCEPT !.left = @ - 1]
                                  ELSE ktimer[x]]
    /\ UNCHANGED <<g_timer_head, g_timer_queue, tcmd, tcur, calls>>

TimerTask ==
    \/ timer_task_outer
    \/ timer_task_tick
    \/ timer_task_cmd
    \/ timer_task_inner
    \/ timer_task_recv
    \/ timer_task_expired
    \/ timer_cb_proc
------------------------------------------------------------------------------
\* A call of the application.
Call == calls < MaxCalls /\ calls' = calls + 1

krhino_timer_start(x) == Call /\ Send(Command("start", x, 0, 0, NULL))
krhino_timer_stop(x) == Call /\ Send(Command("stop", x, 0, 0, NULL))
krhino_timer_del(x) == Call /\ Send(Command("del", x, 0, 0, NULL))
krhino_timer_arg_change(x, arg) == Call /\ Send(Command("arg_chg", x, 0, 0, arg))
krhino_timer_change(x, first, round) ==
    Call /\ Send(Command("chg", x, first, round, NULL))

\* timer_create of a timer that is not in use.
timer_create(x) ==
    /\ Call
    /\ ktimer[x].obj_type = "none"
    /\ ktimer' = [ktimer EXCEPT
                     ![x].obj_type = "timer", ![x].timer_state = "deactive",
                     ![x].init_count = First[x], ![x].round_ticks = Round[x],
                     ![x].timer_cb_arg = NULL, ![x].left = 0]
    /\ UNCHANGED <<g_timer_head, g_timer_queue, lag, tpc, tcmd, tcur, twait, late>>

TimerCalls(x) ==
    \/ krhino_timer_start(x)
    \/ krhino_timer_stop(x)
    \/ krhino_timer_del(x)
    \/ krhino_timer_arg_change(x, NULL)
    \/ \E first \in FirstChoices : krhino_timer_change(x, first, Round[x])
    \/ timer_create(x)
------------------------------------------------------------------------------
\* The timer task's part of TypeOK: g_timer_queue holds no more commands than
\* it has blocks.
TimerTypeOK ==
    /\ g_timer_head \in Seq(Timer)
    /\ tpc \in TimerPc
    /\ lag \in -MaxLag .. 0
    /\ tcur \in Timer \cup {NULL}
    /\ late \in 0 .. MaxLag
    /\ Len(g_timer_queue) <= TimerMsgNum

(***************************************************************************)
(* The list of k_timer.c holds each active timer once and no other timer:  *)
(* a timer that is stopped, restarted with krhino_timer_arg_change_auto or *)
(* fired in any order is linked exactly while it is active, and the cursor *)
(* of timer_cb_proc stands on a linked timer.                              *)
(***************************************************************************)
TimerListOK ==
    /\ \A x \in Timer :
          Cardinality({i \in DOMAIN g_timer_head : g_timer_head[i] = x})
          = IF ktimer[x].timer_state = "active" THEN 1 ELSE 0
    /\ \A x \in ToSet(g_timer_head) : ktimer[x].obj_type = "timer"
    /\ tcur # NULL => tcur \in ToSet(g_timer_head)

(***************************************************************************)
(* The timer task is never asleep while a command is stored, sleeps        *)
(* without limit only when no timer runs, and otherwise sleeps until the   *)
(* first timer is due and longer by exactly the ticks that came between    *)
(* its read of the tick (k_timer.c:416) and the receive call (419): the    *)
(* delta is stale by then, but by nothing else, the first timer is still   *)
(* the one it was computed for, and the wait is over when it is used up.   *)
(***************************************************************************)
TimerSleepOK ==
    /\ tpc \in Waits => g_timer_queue = <<>>
    /\ tpc = "idle" => g_timer_head = <<>>
    /\ tpc \in {"recv", "wait"} =>
          /\ g_timer_head # <<>>
          /\ twait > 0
          /\ twait = ktimer[Head(g_timer_head)].left - lag
==============================================================================
