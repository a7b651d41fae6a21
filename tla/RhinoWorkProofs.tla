-------------------------- MODULE RhinoWorkProofs ----------------------------
(***************************************************************************)
(* The lists of k_timer.c and k_workqueue.c, for any number of timers,     *)
(* works and clients and any bound on lateness and calls: a linked work    *)
(* has its token, the flags and states of works and timers tell what is    *)
(* linked, the timer task sleeps no longer than it may, and the command    *)
(* queue does not overflow.                                                *)
(***************************************************************************)
EXTENDS RhinoWork, RhinoListProofs

------------------------------------------------------------------------------
\* The inductive invariant.

\* Timers somebody commands.
Managed == AppTimer \cup {WorkTimer[w] : w \in DOMAIN WorkTimer}

TimerRec == [obj_type : {"timer", "none"}, timer_state : {"active", "deactive"},
             init_count : Nat, round_ticks : Nat, timer_cb_arg : {Queue, NULL},
             left : Int]
CommandType == [cb_num : {"start", "stop", "chg", "arg_chg", "arg_chg_auto", "del"},
                timer : Managed, first : Nat, round : Nat, arg : {Queue, NULL}]

\* In the loop of timer_cb_proc.
Firing == {"scan", "cb", "give"}
Receiving == {"outer_cmd", "outer_proc", "inner_cmd", "inner_proc"}

TimerTypes ==
    /\ ktimer \in [Timer -> TimerRec]
    /\ g_timer_head \in Seq(Timer)
    /\ g_timer_queue \in Seq(CommandType) /\ Len(g_timer_queue) <= TimerMsgNum
    /\ tpc \in TimerPc
    /\ lag \in Int
    /\ tcur \in Timer \cup {NULL}
    /\ twait \in Int
    /\ late \in 0 .. MaxLag
    /\ IF tpc \in Receiving THEN tcmd \in CommandType ELSE tcmd = NoCommand

\* The tick the timer task works with is no older than the task is late, and
\* was not when its wait began.
LagOK ==
    /\ -MaxLag <= lag /\ lag <= 0
    /\ tpc # "wait" => 0 <= lag + late
    /\ tpc \notin Timed \cup {"wait"} => lag = 0

\* g_timer_head holds the active timers, each once.
LinkOK ==
    /\ IsInjective(g_timer_head)
    /\ \A x \in Timer : x \in ToSet(g_timer_head) <=> ktimer[x].timer_state = "active"
    /\ \A x \in ToSet(g_timer_head) : ktimer[x].obj_type = "timer" /\ x \in Managed

\* The cursor stands on a linked timer, and on one while a callback runs.
CursorOK ==
    /\ tcur # NULL => tcur \in ToSet(g_timer_head) /\ tpc \in Firing
    /\ tpc \in {"cb", "give"} => tcur # NULL

\* What the loops of timer_task know of the list.
LoopOK ==
    /\ tpc \in {"outer", "idle", "outer_cmd", "outer_proc"} => g_timer_head = <<>>
    /\ tpc \in {"inner", "recv", "wait", "inner_cmd", "inner_proc", "expired"} =>
          g_timer_head # <<>>
    /\ tpc \in {"recv", "wait"} =>
          twait > 0 /\ twait = ktimer[Head(g_timer_head)].left - lag
    /\ tpc \in Waits => g_timer_queue = <<>>

TimerInv == TimerTypes /\ LagOK /\ LinkOK /\ CursorOK /\ LoopOK

DelSteps == {"del_task", "del_sem", "del_node"}
WorkTypes ==
    /\ work_list \in Seq(Work)
    /\ work_current \in Work \cup {NULL}
    /\ count \in Nat
    /\ work_exit \in [Work -> {0, 1}]
    /\ wq \in [Work -> {Queue, NULL}]
    /\ live \in BOOLEAN
    /\ wpc \in {"take", "pop", "handle", "deleted"}
    /\ cancelled \subseteq Work
    /\ cpc \in [Client -> [step : {"none", "give", "stop", "cancel"} \cup DelSteps,
                           work : Work \cup {NULL}]]
    /\ \A c \in Client : cpc[c].step \in {"give", "stop", "cancel"} => cpc[c].work \in Work

\* work_list holds the works with work_exit = 1, each once, and not the
\* running one.
ListedOK ==
    /\ IsInjective(work_list)
    /\ \A w \in Work : w \in ToSet(work_list) <=> work_exit[w] = 1
    /\ work_current # NULL => work_exit[work_current] = 0
    /\ (work_current # NULL) <=> (wpc = "handle")

\* c starts the timer of a delayed work.
Starts(c) == c.cb_num \in {"start", "arg_chg_auto"} /\ c.timer \notin AppTimer

\* No timer of a delayed work runs and no command starts one.
Silent ==
    /\ \A w \in DOMAIN WorkTimer : ktimer[WorkTimer[w]].timer_state = "deactive"
    /\ ~Starts(tcmd)
    /\ \A i \in 1 .. Len(g_timer_queue) : ~Starts(g_timer_queue[i])

\* A queue that is deleted, or being deleted, is empty and stays so.
ClosedOK == ~Open => work_list = <<>> /\ work_current = NULL /\ Silent

WInv == WorkTypes /\ ListedOK /\ ClosedOK /\ TokensExact
Inv == TimerInv /\ WInv
------------------------------------------------------------------------------
\* The commands.

\* What the constants are.
LEMMA WorkConsts ==
    /\ AppTimer \subseteq Timer /\ NULL \notin Timer /\ NULL \notin Work
    /\ First \in [Timer -> Nat \ {0}] /\ Round \in [Timer -> Nat] /\ FirstChoices \subseteq Nat
    /\ TimerMsgNum \in Nat \ {0} /\ MaxLag \in Nat /\ IsFiniteSet(Client)
    /\ \A w \in DOMAIN WorkTimer : w \in Work /\ WorkTimer[w] \in Timer \ AppTimer
    /\ Managed \subseteq Timer
<1>1. \A w \in DOMAIN WorkTimer : w \in Work /\ WorkTimer[w] \in Timer \ AppTimer
  BY WorkAssumption
<1>. QED BY <1>1, TimerAssumption, WorkAssumption DEF Managed

\* timer_list_pri_insert adds the timer to the list, once.
LEMMA PriInsert ==
    ASSUME NEW s, s.list \in Seq(Timer), NEW x \in Timer, NEW val, NEW cnt
    PROVE  /\ timer_list_pri_insert(s, x, val, cnt) \in Seq(Timer)
           /\ ToSet(timer_list_pri_insert(s, x, val, cnt)) = ToSet(s.list) \cup {x}
           /\ IsInjective(s.list) /\ x \notin ToSet(s.list) =>
                IsInjective(timer_list_pri_insert(s, x, val, cnt))
<1>. DEFINE G == {j \in 1 .. Len(s.list) : GoesBefore(val, s.timers[s.list[j]].left, cnt)}
            i == CHOOSE j \in 1 .. Len(s.list) + 1 :
                /\ j <= Len(s.list) => GoesBefore(val, s.timers[s.list[j]].left, cnt)
                /\ \A k \in 1 .. j - 1 : ~GoesBefore(val, s.timers[s.list[k]].left, cnt)
<1>0. Len(s.list) \in Nat
  OBVIOUS
<1>1. PICK j \in 1 .. Len(s.list) + 1 : (j <= Len(s.list) => j \in G) /\ \A k \in 1 .. j - 1 : k \notin G
  <2>. HIDE DEF G
  <2>. QED BY <1>0, FirstPosition
<1>2. \A k \in 1 .. j - 1 : k \in 1 .. Len(s.list)
  OBVIOUS
<1>3. i \in 1 .. Len(s.list) + 1
  BY <1>1, <1>2
<1>4. timer_list_pri_insert(s, x, val, cnt) = InsertAt(s.list, i, x)
  BY DEF timer_list_pri_insert
<1>. HIDE DEF i
<1>. QED BY <1>3, <1>4, InsertAtSet

\* The list and the timers as the commands see them.
Lists == [list : Seq(Timer), timers : [Timer -> TimerRec]]
Linked(s) ==
    /\ IsInjective(s.list)
    /\ \A x \in Timer : x \in ToSet(s.list) <=> s.timers[x].timer_state = "active"
    /\ \A x \in ToSet(s.list) : s.timers[x].obj_type = "timer" /\ x \in Managed

\* A command of c keeps the list in order; it starts no other timer.
Keeps(s, r, c) ==
    /\ r \in Lists /\ Linked(r)
    /\ \A x \in Timer : x # c.timer => r.timers[x] = s.timers[x]

\* A start command links the timer where its delay puts it.
LEMMA StartKeeps ==
    ASSUME lag \in Int, NEW s \in Lists, Linked(s), NEW c \in CommandType
    PROVE  Keeps(s, cmd_start(s, c), c)
<1>. DEFINE x == c.timer
            t == s.timers[x]
            r == cmd_start(s, c)
            L == timer_list_pri_insert(s, x, t.init_count, lag)
            u == [t EXCEPT !.left = lag + t.init_count, !.timer_state = "active"]
<1>1. x \in Managed /\ x \in Timer /\ t \in TimerRec /\ s.list \in Seq(Timer)
      /\ s.timers \in [Timer -> TimerRec] /\ lag + t.init_count \in Int
  BY WorkConsts DEF CommandType, Lists, TimerRec
<1>2. CASE t.obj_type # "timer" \/ t.timer_state = "active"
  BY <1>2 DEF cmd_start, Keeps
<1>3. CASE ~(t.obj_type # "timer" \/ t.timer_state = "active")
  <2>1. r = [list |-> L, timers |-> [s.timers EXCEPT ![x] = u]]
    BY <1>1, <1>3 DEF cmd_start
  <2>2. u \in TimerRec /\ u.timer_state = "active" /\ u.obj_type = "timer"
    <3>. HIDE DEF t
    <3>. QED BY <1>1, <1>3 DEF TimerRec
  <2>3. x \notin ToSet(s.list) /\ IsInjective(s.list)
    BY <1>1, <1>3 DEF Linked
  <2>4. L \in Seq(Timer) /\ ToSet(L) = ToSet(s.list) \cup {x} /\ IsInjective(L)
    BY <1>1, <2>3, PriInsert
  <2>. HIDE DEF L, u, r
  <2>5. r.list = L /\ r.timers = [s.timers EXCEPT ![x] = u] /\ r \in Lists
    BY <1>1, <2>1, <2>2, <2>4 DEF Lists
  <2>6. r.timers[x] = u /\ \A y \in Timer : y # x => r.timers[y] = s.timers[y]
    BY <1>1, <2>5
  <2>7. Linked(r)
    BY <1>1, <2>2, <2>3, <2>4, <2>5, <2>6 DEF Linked
  <2>. QED BY <2>5, <2>6, <2>7 DEF Keeps, r
<1>. QED BY <1>2, <1>3

\* A stop command unlinks the timer.
LEMMA StopKeeps ==
    ASSUME NEW s \in Lists, Linked(s), NEW c \in CommandType
    PROVE  Keeps(s, cmd_stop(s, c), c) /\ cmd_stop(s, c).timers[c.timer].timer_state \in
             {"deactive", s.timers[c.timer].timer_state}
<1>. DEFINE x == c.timer
            t == s.timers[x]
            r == cmd_stop(s, c)
            L == klist_rm(s.list, x)
            u == [t EXCEPT !.left = 0, !.timer_state = "deactive"]
<1>1. x \in Managed /\ x \in Timer /\ t \in TimerRec /\ s.list \in Seq(Timer)
      /\ s.timers \in [Timer -> TimerRec]
  BY WorkConsts DEF CommandType, Lists, TimerRec
<1>2. CASE t.obj_type # "timer" \/ t.timer_state = "deactive"
  BY <1>2 DEF cmd_stop, Keeps
<1>3. CASE ~(t.obj_type # "timer" \/ t.timer_state = "deactive")
  <2>1. r = [list |-> L, timers |-> [s.timers EXCEPT ![x] = u]]
    BY <1>1, <1>3 DEF cmd_stop, timer_list_rm
  <2>2. u \in TimerRec /\ u.timer_state = "deactive"
    <3>1. 0 \in Int /\ "deactive" \in {"active", "deactive"}
      OBVIOUS
    <3>. HIDE DEF t
    <3>2. u.timer_state = "deactive"
      BY <1>1 DEF TimerRec
    <3>3. u \in TimerRec
      BY <1>1, <3>1 DEF TimerRec
    <3>. QED BY <3>2, <3>3
  <2>3. IsInjective(s.list)
    BY DEF Linked
  <2>4. L \in Seq(Timer) /\ ToSet(L) = ToSet(s.list) \ {x} /\ IsInjective(L)
    BY <1>1, <2>3, KlistRm
  <2>. HIDE DEF L, u, r
  <2>5. r.list = L /\ r.timers = [s.timers EXCEPT ![x] = u] /\ r \in Lists
    BY <1>1, <2>1, <2>2, <2>4 DEF Lists
  <2>6. r.timers[x] = u /\ \A y \in Timer : y # x => r.timers[y] = s.timers[y]
    BY <1>1, <2>5
  <2>7. ToSet(s.list) \subseteq Timer
    BY <1>1, ToSetProps
  <2>8. Linked(r)
    BY <1>1, <2>2, <2>3, <2>4, <2>5, <2>6, <2>7 DEF Linked
  <2>. QED BY <2>2, <2>5, <2>6, <2>8 DEF Keeps, r
<1>. QED BY <1>2, <1>3

\* The commands on a timer that does not run leave the list alone.
LEMMA IdleKeeps ==
    ASSUME NEW s \in Lists, Linked(s), NEW c \in CommandType, Idle(s, c),
           NEW u \in TimerRec, u.timer_state = "deactive",
           NEW r, r = [s EXCEPT !.timers[c.timer] = u]
    PROVE  Keeps(s, r, c) /\ r.timers[c.timer].timer_state = "deactive"
<1>. DEFINE x == c.timer
<1>1. x \in Managed /\ x \in Timer /\ s.list \in Seq(Timer)
      /\ s.timers \in [Timer -> TimerRec] /\ s.timers[x].timer_state = "deactive"
  BY WorkConsts DEF CommandType, Lists, Idle
<1>2. r.list = s.list /\ r.timers = [s.timers EXCEPT ![x] = u] /\ r \in Lists
  BY <1>1 DEF Lists
<1>3. r.timers[x] = u /\ \A y \in Timer : y # x => r.timers[y] = s.timers[y]
  BY <1>1, <1>2
<1>4. ToSet(s.list) \subseteq Timer /\ x \notin ToSet(s.list)
  BY <1>1, ToSetProps DEF Linked
<1>5. Linked(r)
  BY <1>1, <1>2, <1>3, <1>4 DEF Linked
<1>. QED BY <1>2, <1>3, <1>5 DEF Keeps

\* The commands that change or delete a timer leave the list alone.
LEMMA ChangeKeeps ==
    ASSUME NEW s \in Lists, Linked(s), NEW c \in CommandType,
           NEW r \in {cmd_chg(s, c), cmd_arg_chg(s, c), cmd_del(s, c)}
    PROVE  Keeps(s, r, c) /\ r.timers[c.timer].timer_state = s.timers[c.timer].timer_state
<1>. DEFINE x == c.timer
            t == s.timers[x]
<1>1. /\ x \in Timer /\ t \in TimerRec /\ c.first \in Nat /\ c.round \in Nat
      /\ c.arg \in {Queue, NULL} /\ s.timers \in [Timer -> TimerRec]
  BY WorkConsts DEF CommandType, Lists
<1>2. CASE r = s
  BY <1>2 DEF Keeps
<1>3. CASE r # s
  <2>1. Idle(s, c) /\ t.timer_state = "deactive"
    BY <1>3 DEF cmd_chg, cmd_arg_chg, cmd_del, Idle
  <2>. DEFINE u1 == [t EXCEPT !.init_count = c.first, !.round_ticks = c.round]
              u2 == [t EXCEPT !.timer_cb_arg = c.arg]
              u3 == [t EXCEPT !.obj_type = "none"]
  <2>2. /\ u1 \in TimerRec /\ u1.timer_state = "deactive"
        /\ u2 \in TimerRec /\ u2.timer_state = "deactive"
        /\ u3 \in TimerRec /\ u3.timer_state = "deactive"
    <3>. HIDE DEF t
    <3>. QED BY <1>1, <2>1 DEF TimerRec
  <2>3. \E u \in {u1, u2, u3} : r = [s EXCEPT !.timers[c.timer] = u]
    <3>1. r \in {[s EXCEPT !.timers[c.timer].init_count = c.first,
                           !.timers[c.timer].round_ticks = c.round],
                 [s EXCEPT !.timers[c.timer].timer_cb_arg = c.arg],
                 [s EXCEPT !.timers[c.timer].obj_type = "none"]}
      BY <1>3, <2>1 DEF cmd_chg, cmd_arg_chg, cmd_del
    <3>2. [s EXCEPT !.timers[c.timer].init_count = c.first,
                 !.timers[c.timer].round_ticks = c.round] = [s EXCEPT !.timers[c.timer] = u1]
      BY <1>1 DEF Lists
    <3>3. [s EXCEPT !.timers[c.timer].timer_cb_arg = c.arg] = [s EXCEPT !.timers[c.timer] = u2]
      BY <1>1 DEF Lists
    <3>4. [s EXCEPT !.timers[c.timer].obj_type = "none"] = [s EXCEPT !.timers[c.timer] = u3]
      BY <1>1 DEF Lists
    <3>. QED BY <3>1, <3>2, <3>3, <3>4
  <2>4. PICK u \in TimerRec : u.timer_state = "deactive" /\ r = [s EXCEPT !.timers[c.timer] = u]
    <3>. HIDE DEF u1, u2, u3
    <3>. QED BY <2>2, <2>3
  <2>. QED BY <2>1, <2>4, IdleKeeps
<1>. QED BY <1>2, <1>3

\* timer_cmd_proc keeps the list; only start and arg_chg_auto start a timer.
LEMMA CmdProc ==
    ASSUME lag \in Int, NEW s \in Lists, Linked(s), NEW c \in CommandType
    PROVE  /\ Keeps(s, timer_cmd_proc(s, c), c)
           /\ c.cb_num \notin {"start", "arg_chg_auto"} =>
                timer_cmd_proc(s, c).timers[c.timer].timer_state \in
                  {"deactive", s.timers[c.timer].timer_state}
<1>. DEFINE r == timer_cmd_proc(s, c)
            s1 == cmd_stop(s, c)
            s2 == cmd_arg_chg(s1, c)
            s3 == cmd_start(s2, c)
<1>0. c.cb_num \in {"start", "stop", "chg", "arg_chg", "arg_chg_auto", "del"}
  BY DEF CommandType
<1>1. CASE c.cb_num = "start"
  <2>1. r = cmd_start(s, c)
    BY <1>1 DEF timer_cmd_proc
  <2>. QED BY <1>1, <2>1, StartKeeps
<1>2. CASE c.cb_num = "stop"
  <2>1. r = cmd_stop(s, c)
    BY <1>2 DEF timer_cmd_proc
  <2>. QED BY <2>1, StopKeeps
<1>3. CASE c.cb_num \in {"chg", "arg_chg", "del"}
  <2>1. r \in {cmd_chg(s, c), cmd_arg_chg(s, c), cmd_del(s, c)}
    BY <1>3 DEF timer_cmd_proc
  <2>. HIDE DEF r
  <2>2. Keeps(s, r, c) /\ r.timers[c.timer].timer_state = s.timers[c.timer].timer_state
    BY <2>1, ChangeKeeps
  <2>. QED BY <2>2 DEF r
<1>4. CASE c.cb_num = "arg_chg_auto"
  <2>1. r = s3
    BY <1>4 DEF timer_cmd_proc
  <2>2. Keeps(s, s1, c)
    BY StopKeeps
  <2>. HIDE DEF s1
  <2>3. Keeps(s1, s2, c)
    <3>1. s1 \in Lists /\ Linked(s1)
      BY <2>2 DEF Keeps
    <3>. QED BY <3>1, ChangeKeeps
  <2>. HIDE DEF s2
  <2>4. Keeps(s2, s3, c)
    <3>1. s2 \in Lists /\ Linked(s2)
      BY <2>3 DEF Keeps
    <3>. QED BY <3>1, StartKeeps
  <2>. HIDE DEF s3, r
  <2>5. Keeps(s, s3, c)
    BY <2>2, <2>3, <2>4 DEF Keeps
  <2>. QED BY <1>4, <2>1, <2>5 DEF r
<1>. QED BY <1>0, <1>1, <1>2, <1>3, <1>4
------------------------------------------------------------------------------
\* The timer task.

\* A step of the timer task keeps its invariant, is no part of a callback and
\* starts no timer of a work by itself.
TimerKeeps == TimerInv' /\ (tpc' = "give" <=> tpc = "give") /\ (Silent => Silent')

\* The first timer of the list.
LEMMA HeadTimer ==
    ASSUME TimerInv, g_timer_head # <<>>
    PROVE  /\ Head(g_timer_head) \in Timer /\ Head(g_timer_head) \in ToSet(g_timer_head)
           /\ ktimer[Head(g_timer_head)] \in TimerRec
           /\ ktimer[Head(g_timer_head)].left \in Int /\ Head(g_timer_head) # NULL
<1>1. g_timer_head \in Seq(Timer) /\ ktimer \in [Timer -> TimerRec]
  BY DEF TimerInv, TimerTypes
<1>2. Head(g_timer_head) \in ToSet(g_timer_head) /\ ToSet(g_timer_head) \subseteq Timer
  BY <1>1, ToSetProps
<1>3. ktimer[Head(g_timer_head)] \in TimerRec
  BY <1>1, <1>2
<1>. QED BY <1>2, <1>3, WorkConsts DEF TimerRec

\* A received command, and what is left of the queue.
LEMMA QueueTail ==
    ASSUME g_timer_queue \in Seq(CommandType), Len(g_timer_queue) <= TimerMsgNum,
           g_timer_queue # <<>>
    PROVE  /\ Head(g_timer_queue) \in CommandType
           /\ Tail(g_timer_queue) \in Seq(CommandType)
           /\ Len(Tail(g_timer_queue)) <= TimerMsgNum
           /\ (\A i \in 1 .. Len(g_timer_queue) : ~Starts(g_timer_queue[i])) =>
                /\ ~Starts(Head(g_timer_queue))
                /\ \A i \in 1 .. Len(Tail(g_timer_queue)) : ~Starts(Tail(g_timer_queue)[i])
<1>. DEFINE q == g_timer_queue
<1>1. /\ Head(q) = q[1] /\ 1 \in 1 .. Len(q) /\ Len(q) \in Nat /\ Tail(q) \in Seq(CommandType)
      /\ Len(Tail(q)) = Len(q) - 1
      /\ \A i \in 1 .. Len(q) - 1 : Tail(q)[i] = q[i + 1] /\ i + 1 \in 1 .. Len(q)
  OBVIOUS
<1>2. q[1] \in CommandType /\ Len(q) - 1 <= TimerMsgNum
  BY <1>1, WorkConsts
<1>. QED BY <1>1, <1>2

\* The receive call of either loop.
LEMMA ReceiveKeeps ==
    ASSUME TimerInv, NEW wait, NEW got, NEW ticks \in Int, Receive(wait, got, ticks),
           UNCHANGED <<ktimer, g_timer_head, tcur>>,
           \/ tpc = "outer" /\ wait = "idle" /\ got = "outer_cmd"
           \/ tpc = "recv" /\ wait = "wait" /\ got = "inner_cmd" /\ ticks = twait
    PROVE  TimerKeeps
<1>0. TimerTypes /\ LagOK /\ LinkOK /\ CursorOK /\ LoopOK
  BY DEF TimerInv
<1>1. /\ g_timer_queue \in Seq(CommandType) /\ Len(g_timer_queue) <= TimerMsgNum
      /\ tcmd = NoCommand /\ tcur = NULL /\ late \in 0 .. MaxLag /\ MaxLag \in Nat
      /\ lag \in Int /\ twait \in Int /\ (tpc = "outer" => lag = 0)
      /\ -MaxLag <= lag /\ lag <= 0
  BY <1>0, WorkConsts DEF TimerTypes, LagOK, CursorOK, Receiving, Firing, Timed
<1>2. LinkOK'
  BY <1>0 DEF LinkOK
<1>3. CASE g_timer_queue # <<>>
  <2>1. tpc' = got /\ tcmd' = Head(g_timer_queue) /\ g_timer_queue' = Tail(g_timer_queue)
        /\ twait' = 0 /\ lag' = 0 /\ late' = late
    BY <1>3 DEF Receive
  <2>2. /\ tcmd' \in CommandType /\ g_timer_queue' \in Seq(CommandType)
        /\ Len(g_timer_queue') <= TimerMsgNum
        /\ (\A i \in 1 .. Len(g_timer_queue) : ~Starts(g_timer_queue[i])) =>
                /\ ~Starts(tcmd')
                /\ \A i \in 1 .. Len(g_timer_queue') : ~Starts(g_timer_queue'[i])
    BY <1>1, <1>3, <2>1, QueueTail
  <2>3. TimerTypes'
    BY <1>0, <2>1, <2>2 DEF TimerTypes, TimerPc, Receiving
  <2>4. LagOK' /\ CursorOK' /\ LoopOK'
    BY <1>0, <1>1, <2>1 DEF LagOK, CursorOK, LoopOK, Waits, Firing, Timed
  <2>5. Silent => Silent'
    BY <2>2 DEF Silent
  <2>. QED BY <1>2, <2>1, <2>3, <2>4, <2>5 DEF TimerKeeps, TimerInv
<1>4. CASE g_timer_queue = <<>>
  <2>1. tpc' = wait /\ twait' = ticks /\ late' = 0 /\ UNCHANGED <<tcmd, g_timer_queue, lag>>
    BY <1>4 DEF Receive
  <2>2. TimerTypes'
    BY <1>0, <1>1, <2>1 DEF TimerTypes, TimerPc, Receiving
  <2>3. LagOK' /\ CursorOK'
    BY <1>0, <1>1, <2>1 DEF LagOK, CursorOK, Firing, Timed
  <2>4. LoopOK'
    BY <1>0, <1>4, <2>1 DEF LoopOK, Waits
  <2>5. Silent => Silent'
    BY <2>1 DEF Silent
  <2>. QED BY <1>2, <2>1, <2>2, <2>3, <2>4, <2>5 DEF TimerKeeps, TimerInv
<1>. QED BY <1>3, <1>4

\* The outer loop of timer_task waits for a command.
LEMMA OuterStep ==
    ASSUME TimerInv, timer_task_outer
    PROVE  TimerKeeps
BY ReceiveKeeps DEF timer_task_outer

\* The receive call of the inner loop, with the delta computed before.
LEMMA RecvStep ==
    ASSUME TimerInv, timer_task_recv
    PROVE  TimerKeeps
<1>1. twait \in Int
  BY DEF TimerInv, TimerTypes
<1>. QED BY <1>1, ReceiveKeeps DEF timer_task_recv

\* The tick is read after a command was received.
LEMMA ReadStep ==
    ASSUME TimerInv, timer_task_tick
    PROVE  TimerKeeps
<1>0. TimerTypes /\ LagOK /\ LinkOK /\ CursorOK /\ LoopOK
  BY DEF TimerInv
<1>1. /\ tpc \in {"outer_cmd", "inner_cmd"} /\ lag' = 0
      /\ tpc' = (IF tpc = "outer_cmd" THEN "outer_proc" ELSE "inner_proc")
      /\ UNCHANGED <<ktimer, g_timer_head, g_timer_queue, tcmd, tcur, twait, late>>
      /\ late \in 0 .. MaxLag /\ MaxLag \in Nat
  BY <1>0, WorkConsts DEF timer_task_tick, TimerTypes
<1>2. TimerTypes' /\ LinkOK'
  BY <1>0, <1>1 DEF TimerTypes, TimerPc, Receiving, LinkOK
<1>3. LagOK' /\ CursorOK' /\ LoopOK'
  BY <1>0, <1>1 DEF LagOK, CursorOK, LoopOK, Waits, Firing, Timed
<1>4. Silent => Silent'
  BY <1>1 DEF Silent
<1>. QED BY <1>1, <1>2, <1>3, <1>4 DEF TimerKeeps, TimerInv

\* timer_cb_proc begins: the cursor is on the first timer.
LEMMA ScanBegins ==
    ASSUME TimerInv, tpc \in {"inner", "expired"},
           tpc' = "scan", tcur' = Head(g_timer_head), lag' = 0,
           UNCHANGED <<ktimer, g_timer_head, g_timer_queue, tcmd, twait, late>>
    PROVE  TimerKeeps
<1>0. TimerTypes /\ LagOK /\ LinkOK /\ CursorOK /\ LoopOK
  BY DEF TimerInv
<1>1. g_timer_head # <<>> /\ late \in 0 .. MaxLag /\ MaxLag \in Nat /\ tcmd = NoCommand
  BY <1>0, WorkConsts DEF LoopOK, TimerTypes, Receiving
<1>2. Head(g_timer_head) \in Timer /\ Head(g_timer_head) \in ToSet(g_timer_head)
  BY <1>1, HeadTimer
<1>3. TimerTypes'
  BY <1>0, <1>1, <1>2 DEF TimerTypes, TimerPc, Receiving
<1>4. LagOK' /\ CursorOK' /\ LoopOK' /\ LinkOK'
  BY <1>0, <1>1, <1>2 DEF LagOK, CursorOK, LoopOK, LinkOK, Waits, Firing, Timed
<1>5. Silent => Silent'
  BY DEF Silent
<1>. QED BY <1>3, <1>4, <1>5 DEF TimerKeeps, TimerInv

\* The inner loop computes how long it may wait for the first timer, or begins
\* to expire timers.
LEMMA InnerStep ==
    ASSUME TimerInv, timer_task_inner
    PROVE  TimerKeeps
<1>0. TimerTypes /\ LagOK /\ LinkOK /\ CursorOK /\ LoopOK
  BY DEF TimerInv
<1>. DEFINE delta == ktimer[Head(g_timer_head)].left
<1>1. /\ tpc = "inner" /\ lag' = 0
      /\ UNCHANGED <<ktimer, g_timer_head, g_timer_queue, tcmd, late>>
      /\ late \in 0 .. MaxLag /\ MaxLag \in Nat
  BY <1>0, WorkConsts DEF timer_task_inner, TimerTypes
<1>2. delta \in Int /\ g_timer_head # <<>>
  BY <1>0, <1>1, HeadTimer DEF LoopOK
<1>3. CASE delta > 0
  <2>1. tpc' = "recv" /\ twait' = delta /\ tcur' = tcur
    BY <1>2, <1>3 DEF timer_task_inner
  <2>2. TimerTypes' /\ LinkOK'
    BY <1>0, <1>1, <1>2, <2>1 DEF TimerTypes, TimerPc, Receiving, LinkOK
  <2>3. LagOK' /\ CursorOK'
    BY <1>0, <1>1, <2>1 DEF LagOK, CursorOK, Firing, Timed
  <2>4. LoopOK'
    BY <1>1, <1>2, <1>3, <2>1 DEF LoopOK, Waits
  <2>5. Silent => Silent'
    BY <1>1 DEF Silent
  <2>. QED BY <1>1, <2>1, <2>2, <2>3, <2>4, <2>5 DEF TimerKeeps, TimerInv
<1>4. CASE delta <= 0
  BY <1>1, <1>2, <1>4, ScanBegins DEF timer_task_inner
<1>. QED BY <1>2, <1>3, <1>4

\* The timed wait has ended without a command.
LEMMA ExpiredStep ==
    ASSUME TimerInv, timer_task_expired
    PROVE  TimerKeeps
BY ScanBegins DEF timer_task_expired

\* Where the loop goes on when timer_cb_proc has ended.
LEMMA CbProcStep ==
    ASSUME TimerInv, timer_cb_proc
    PROVE  TimerKeeps
<1>0. TimerTypes /\ LagOK /\ LinkOK /\ CursorOK /\ LoopOK
  BY DEF TimerInv
<1>1. tpc = "scan" /\ UNCHANGED <<ktimer, g_timer_head, g_timer_queue, tcmd, twait, late>>
      /\ tcmd = NoCommand /\ late \in 0 .. MaxLag /\ MaxLag \in Nat
  BY <1>0, WorkConsts DEF timer_cb_proc, TimerTypes, Receiving
<1>2. LinkOK' /\ (Silent => Silent')
  BY <1>0, <1>1 DEF LinkOK, Silent
<1>3. CASE Due
  <2>1. tpc' = "cb" /\ UNCHANGED <<lag, tcur>> /\ tcur # NULL
    BY <1>3 DEF timer_cb_proc, Due
  <2>2. TimerTypes'
    BY <1>0, <1>1, <2>1 DEF TimerTypes, TimerPc, Receiving
  <2>3. LagOK' /\ CursorOK' /\ LoopOK'
    BY <1>0, <1>1, <2>1 DEF LagOK, CursorOK, LoopOK, Waits, Firing, Timed
  <2>. QED BY <1>1, <1>2, <2>1, <2>2, <2>3 DEF TimerKeeps, TimerInv
<1>4. CASE ~Due
  <2>1. tpc' = LoopPc(g_timer_head) /\ tcur' = NULL /\ lag' = 0
    BY <1>4 DEF timer_cb_proc
  <2>2. (tpc' = "outer" /\ g_timer_head = <<>>) \/ (tpc' = "inner" /\ g_timer_head # <<>>)
    BY <2>1 DEF LoopPc
  <2>3. TimerTypes'
    BY <1>0, <1>1, <2>1, <2>2 DEF TimerTypes, TimerPc, Receiving
  <2>4. LagOK' /\ CursorOK' /\ LoopOK'
    BY <1>0, <1>1, <2>1, <2>2 DEF LagOK, CursorOK, LoopOK, Waits, Firing, Timed
  <2>. QED BY <1>1, <1>2, <2>2, <2>3, <2>4 DEF TimerKeeps, TimerInv
<1>. QED BY <1>3, <1>4

\* A command is processed.
LEMMA CmdStep ==
    ASSUME TimerInv, timer_task_cmd
    PROVE  TimerKeeps
<1>0. TimerTypes /\ LagOK /\ LinkOK /\ CursorOK /\ LoopOK
  BY DEF TimerInv
<1>. DEFINE s == [list |-> g_timer_head, timers |-> ktimer]
            r == timer_cmd_proc(s, tcmd)
<1>1. /\ tpc \in {"outer_proc", "inner_proc"}
      /\ g_timer_head' = r.list /\ ktimer' = r.timers
      /\ tpc' = (IF tpc = "inner_proc" THEN "scan" ELSE LoopPc(r.list))
      /\ tcur' = (IF tpc = "inner_proc" THEN Cursor(r.list) ELSE NULL)
      /\ lag' = (IF tpc = "inner_proc" THEN lag ELSE 0)
      /\ tcmd' = NoCommand /\ UNCHANGED <<g_timer_queue, twait, late>>
  BY DEF timer_task_cmd
<1>2. /\ tcmd \in CommandType /\ late \in 0 .. MaxLag /\ MaxLag \in Nat /\ lag \in Int
      /\ s \in Lists /\ s.list = g_timer_head /\ s.timers = ktimer
  BY <1>0, <1>1, WorkConsts DEF TimerTypes, Receiving, Lists
<1>3. Linked(s)
  BY <1>0 DEF Linked, LinkOK
<1>4. /\ Keeps(s, r, tcmd)
      /\ tcmd.cb_num \notin {"start", "arg_chg_auto"} =>
           r.timers[tcmd.timer].timer_state \in {"deactive", s.timers[tcmd.timer].timer_state}
  <2>. HIDE DEF s
  <2>. QED BY <1>2, <1>3, CmdProc
<1>. HIDE DEF r, s
<1>5. /\ g_timer_head' \in Seq(Timer) /\ ktimer' \in [Timer -> TimerRec] /\ LinkOK'
      /\ \A x \in Timer : x # tcmd.timer => ktimer'[x] = ktimer[x]
  BY <1>1, <1>2, <1>4 DEF Keeps, Lists, Linked, LinkOK
<1>6. /\ tcur' = NULL \/ (tcur' \in Timer /\ tcur' \in ToSet(g_timer_head') /\ tpc' = "scan")
      /\ tpc' = "scan" \/ (tpc' = "outer" /\ g_timer_head' = <<>>)
                       \/ (tpc' = "inner" /\ g_timer_head' # <<>>)
  <2>1. g_timer_head' # <<>> => Head(g_timer_head') \in ToSet(g_timer_head') /\ Head(g_timer_head') \in Timer
    BY <1>5, ToSetProps
  <2>. QED BY <1>1, <2>1 DEF LoopPc, Cursor
<1>7. TimerTypes'
  BY <1>0, <1>1, <1>5, <1>6 DEF TimerTypes, TimerPc, Receiving
<1>8. LagOK' /\ CursorOK' /\ LoopOK'
  <2>1. LagOK'
    BY <1>0, <1>1, <1>2, <1>6 DEF LagOK, LoopPc, Timed
  <2>2. CursorOK' /\ LoopOK'
    BY <1>1, <1>2, <1>6 DEF CursorOK, LoopOK, Waits, Firing
  <2>. QED BY <2>1, <2>2
<1>9. ASSUME Silent PROVE Silent'
  <2>1. ~Starts(tcmd')
    BY <1>1 DEF Starts, NoCommand, Command
  <2>2. ASSUME NEW w \in DOMAIN WorkTimer
        PROVE  ktimer'[WorkTimer[w]].timer_state = "deactive"
    <3>1. WorkTimer[w] \in Timer \ AppTimer /\ ktimer[WorkTimer[w]].timer_state = "deactive"
      BY <1>9, WorkConsts DEF Silent
    <3>2. CASE WorkTimer[w] # tcmd.timer
      BY <1>5, <3>1, <3>2
    <3>3. CASE WorkTimer[w] = tcmd.timer
      <4>1. tcmd.cb_num \notin {"start", "arg_chg_auto"}
        BY <1>9, <3>1, <3>3 DEF Silent, Starts
      <4>. QED BY <1>1, <1>2, <1>4, <3>1, <3>3, <4>1
    <3>. QED BY <3>2, <3>3
  <2>. QED BY <1>1, <1>9, <2>1, <2>2 DEF Silent
<1>. QED BY <1>1, <1>5, <1>6, <1>7, <1>8, <1>9 DEF TimerKeeps, TimerInv
\* The next element of a list that holds each timer once.
LEMMA SuccessorProps ==
    ASSUME NEW L \in Seq(Timer), IsInjective(L), NEW x \in ToSet(L)
    PROVE  Successor(L, x) = NULL \/ (Successor(L, x) \in ToSet(L) /\ Successor(L, x) # x)
<1>. DEFINE i == CHOOSE j \in 1 .. Len(L) : L[j] = x
<1>1. i \in 1 .. Len(L) /\ L[i] = x
  BY ToSetProps
<1>2. Successor(L, x) = IF i = Len(L) THEN NULL ELSE L[i + 1]
  BY DEF Successor
<1>. HIDE DEF i
<1>3. CASE i # Len(L)
  <2>1. i + 1 \in 1 .. Len(L) /\ i + 1 # i
    BY <1>1, <1>3
  <2>2. L[i + 1] \in ToSet(L)
    BY <2>1, ToSetProps
  <2>3. L[i + 1] # L[i]
    BY <1>1, <2>1 DEF IsInjective
  <2>. QED BY <1>1, <1>2, <1>3, <2>2, <2>3
<1>. QED BY <1>2, <1>3

\* A callback has returned.
LEMMA CbEndStep ==
    ASSUME TimerInv, tpc \in {"cb", "give"}, timer_cb_end
    PROVE  TimerInv' /\ tpc' = "scan" /\ (Silent => Silent')
<1>0. TimerTypes /\ LagOK /\ LinkOK /\ CursorOK /\ LoopOK
  BY DEF TimerInv
<1>. DEFINE x == tcur
            L == g_timer_head
            t == ktimer[x]
            rest == klist_rm(L, x)
            round == t.round_ticks
            again == timer_list_pri_insert([list |-> rest, timers |-> ktimer], x, round, lag)
            u == IF round > 0 THEN [t EXCEPT !.left = lag + round]
                 ELSE [t EXCEPT !.left = 0, !.timer_state = "deactive"]
<1>1. /\ x # NULL /\ x \in ToSet(L) /\ x \in Timer /\ L \in Seq(Timer) /\ IsInjective(L)
      /\ ktimer \in [Timer -> TimerRec] /\ t \in TimerRec /\ lag \in Int
      /\ t.timer_state = "active" /\ t.obj_type = "timer" /\ x \in Managed
  BY <1>0 DEF TimerTypes, CursorOK, LinkOK
<1>2. /\ tpc' = "scan" /\ UNCHANGED <<g_timer_queue, lag, tcmd, twait, late>>
      /\ g_timer_head' = (IF round > 0 THEN again ELSE rest)
      /\ tcur' = Successor(IF round > 0 THEN again ELSE L, x)
      /\ ktimer' = [ktimer EXCEPT ![x] = u]
  BY <1>1 DEF timer_cb_end, timer_list_rm
<1>3. rest \in Seq(Timer) /\ ToSet(rest) = ToSet(L) \ {x} /\ IsInjective(rest)
  BY <1>1, KlistRm
<1>4. again \in Seq(Timer) /\ ToSet(again) = ToSet(L) /\ IsInjective(again)
  <2>. DEFINE s == [list |-> rest, timers |-> ktimer]
  <2>1. s.list = rest
    OBVIOUS
  <2>. HIDE DEF rest, s
  <2>2. /\ again \in Seq(Timer) /\ ToSet(again) = ToSet(rest) \cup {x}
        /\ IsInjective(rest) /\ x \notin ToSet(rest) => IsInjective(again)
    <3>. HIDE DEF round
    <3>1. s.list \in Seq(Timer)
      BY <1>3, <2>1
    <3>2. timer_list_pri_insert(s, x, round, lag) = again
      BY DEF s
    <3>. HIDE DEF again
    <3>. QED BY <1>1, <2>1, <3>1, <3>2, PriInsert
  <2>. HIDE DEF again
  <2>. QED BY <1>1, <1>3, <2>2
<1>5. /\ u \in TimerRec /\ u.obj_type = "timer"
      /\ round > 0 => u.timer_state = "active"
      /\ ~(round > 0) => u.timer_state = "deactive"
  <2>1. round \in Nat /\ lag + round \in Int /\ 0 \in Int
    BY <1>1 DEF TimerRec
  <2>. HIDE DEF round, t
  <2>. QED BY <1>1, <2>1 DEF TimerRec
<1>. HIDE DEF rest, again, u, round, t
<1>7. ktimer' \in [Timer -> TimerRec] /\ ktimer'[x] = u
      /\ \A y \in Timer : y # x => ktimer'[y] = ktimer[y]
  BY <1>1, <1>2, <1>5
<1>8. /\ g_timer_head' \in Seq(Timer) /\ IsInjective(g_timer_head')
      /\ tcur' = NULL \/ tcur' \in ToSet(g_timer_head')
      /\ round > 0 => ToSet(g_timer_head') = ToSet(L)
      /\ ~(round > 0) => ToSet(g_timer_head') = ToSet(L) \ {x}
  <2>1. CASE round > 0
    BY <1>1, <1>2, <1>4, <2>1, SuccessorProps
  <2>2. CASE ~(round > 0)
    BY <1>1, <1>2, <1>3, <2>2, SuccessorProps
  <2>. QED BY <2>1, <2>2
<1>9. ToSet(L) \subseteq Timer /\ ToSet(g_timer_head') \subseteq Timer
  BY <1>1, <1>8, ToSetProps
<1>10. LinkOK'
  <2>1. /\ \A y \in Timer : y \in ToSet(L) <=> ktimer[y].timer_state = "active"
        /\ \A y \in ToSet(L) : ktimer[y].obj_type = "timer" /\ y \in Managed
    BY <1>0 DEF LinkOK
  <2>2. \A y \in Timer : y \in ToSet(g_timer_head') <=> ktimer'[y].timer_state = "active"
    <3>1. CASE round > 0
      BY <1>1, <1>5, <1>7, <1>8, <2>1, <3>1
    <3>2. CASE ~(round > 0)
      BY <1>1, <1>5, <1>7, <1>8, <2>1, <3>2
    <3>. QED BY <3>1, <3>2
  <2>3. \A y \in ToSet(g_timer_head') : ktimer'[y].obj_type = "timer" /\ y \in Managed
    BY <1>1, <1>5, <1>7, <1>8, <1>9, <2>1
  <2>. QED BY <1>8, <2>2, <2>3 DEF LinkOK
<1>11. TimerTypes'
  BY <1>0, <1>2, <1>7, <1>8, <1>9 DEF TimerTypes, TimerPc, Receiving
<1>12. LagOK' /\ CursorOK' /\ LoopOK'
  BY <1>0, <1>2, <1>8 DEF LagOK, CursorOK, LoopOK, Waits, Firing, Timed
<1>13. ASSUME Silent PROVE Silent'
  <2>1. \A w \in DOMAIN WorkTimer : WorkTimer[w] \in Timer /\ WorkTimer[w] # x
                                   /\ ktimer[WorkTimer[w]].timer_state = "deactive"
    BY <1>1, <1>13, WorkConsts DEF Silent, t
  <2>. QED BY <1>2, <1>7, <1>13, <2>1 DEF Silent
<1>. QED BY <1>2, <1>10, <1>11, <1>12, <1>13 DEF TimerInv

\* A tick.
LEMMA TickStep ==
    ASSUME TimerInv, Tick
    PROVE  TimerKeeps
<1>0. TimerTypes /\ LagOK /\ LinkOK /\ CursorOK /\ LoopOK
  BY DEF TimerInv
<1>1. /\ tpc # "idle" /\ (tpc = "wait" \/ late < MaxLag)
      /\ late' = (IF tpc = "wait" THEN 0 ELSE late + 1)
      /\ twait' = (IF tpc = "wait" THEN twait - 1 ELSE twait)
      /\ tpc' = (IF tpc = "wait" /\ twait = 1 THEN "expired" ELSE tpc)
      /\ lag' = (IF tpc \in Timed THEN lag - 1 ELSE IF tpc' = "expired" THEN 0 ELSE lag)
      /\ UNCHANGED <<g_timer_head, g_timer_queue, tcmd, tcur>>
  BY DEF Tick
<1>2. /\ ktimer' \in [Timer -> TimerRec]
      /\ \A x \in Timer : /\ ktimer'[x].timer_state = ktimer[x].timer_state
                          /\ ktimer'[x].obj_type = ktimer[x].obj_type
                          /\ x \in ToSet(g_timer_head) => ktimer'[x].left = ktimer[x].left - 1
  <2>1. ktimer' = [x \in Timer |-> IF x \in ToSet(g_timer_head)
                                   THEN [ktimer[x] EXCEPT !.left = ktimer[x].left - 1]
                                   ELSE ktimer[x]]
    BY DEF Tick
  <2>2. \A t \in TimerRec :
          /\ [t EXCEPT !.left = t.left - 1] \in TimerRec
          /\ [t EXCEPT !.left = t.left - 1].timer_state = t.timer_state
          /\ [t EXCEPT !.left = t.left - 1].obj_type = t.obj_type
          /\ [t EXCEPT !.left = t.left - 1].left = t.left - 1
    BY DEF TimerRec
  <2>3. \A x \in Timer : ktimer[x] \in TimerRec
    BY <1>0 DEF TimerTypes
  <2>. QED BY <2>1, <2>2, <2>3
<1>3. /\ late \in 0 .. MaxLag /\ MaxLag \in Nat /\ lag \in Int /\ twait \in Int
      /\ tpc \in TimerPc
  BY <1>0, WorkConsts DEF TimerTypes
<1>4. late' \in 0 .. MaxLag /\ lag' \in Int /\ twait' \in Int /\ tpc' \in TimerPc
      /\ (tpc' \in Receiving <=> tpc \in Receiving)
      /\ (tpc' \in Firing <=> tpc \in Firing)
      /\ (tpc' = "give" <=> tpc = "give")
  BY <1>1, <1>3 DEF TimerPc, Receiving, Firing
<1>5. TimerTypes'
  BY <1>0, <1>1, <1>2, <1>4 DEF TimerTypes
<1>6. LagOK'
  <2>1. CASE tpc \in Timed
    <3>1. tpc # "wait" /\ tpc' = tpc
      BY <1>1, <2>1 DEF Timed
    <3>2. /\ lag' = lag - 1 /\ late' = late + 1 /\ 0 <= lag + late /\ lag <= 0
          /\ late < MaxLag
      BY <1>0, <1>1, <2>1, <3>1 DEF LagOK
    <3>3. 0 <= lag' + late' /\ lag' <= 0 /\ -MaxLag <= lag'
      BY <1>3, <3>2
    <3>. QED BY <2>1, <3>1, <3>3 DEF LagOK
  <2>2. CASE tpc = "wait"
    <3>1. /\ lag' \in {lag, 0} /\ (tpc' = "expired" => lag' = 0)
          /\ tpc' \in {"wait", "expired"} /\ late' = 0
      BY <1>1, <2>2 DEF Timed
    <3>2. -MaxLag <= lag /\ lag <= 0
      BY <1>0 DEF LagOK
    <3>3. -MaxLag <= 0 /\ MaxLag' = MaxLag
      BY <1>3
    <3>4. -MaxLag <= lag' /\ lag' <= 0
      BY <3>1, <3>2, <3>3
    <3>. QED BY <3>1, <3>4 DEF LagOK
  <2>3. CASE tpc \notin Timed \cup {"wait"}
    <3>1. lag' = 0 /\ tpc' = tpc
      BY <1>0, <1>1, <2>3 DEF LagOK
    <3>2. late' >= 0 /\ late' \in Int
      BY <1>3, <1>4
    <3>3. -MaxLag <= 0
      BY <1>3
    <3>4. 0 <= lag' + late' /\ -MaxLag <= lag' /\ lag' <= 0
      <4>1. \A a, b, m \in Int : a = 0 /\ b >= 0 /\ -m <= 0 => 0 <= a + b /\ -m <= a /\ a <= 0
        OBVIOUS
      <4>2. MaxLag \in Int /\ lag' \in Int
        BY <1>3, <1>4
      <4>. QED BY ONLY <3>1, <3>2, <3>3, <4>1, <4>2
    <3>. QED BY <2>3, <3>1, <3>4 DEF LagOK
  <2>. QED BY <2>1, <2>2, <2>3
<1>7. ToSet(g_timer_head) \subseteq Timer
  BY <1>0, ToSetProps DEF TimerTypes
<1>8. LinkOK'
  BY <1>0, <1>1, <1>2, <1>7 DEF LinkOK
<1>9. CursorOK'
  BY <1>0, <1>1, <1>4 DEF CursorOK
<1>10. LoopOK'
  <2>1. ASSUME tpc' \in {"recv", "wait"}
        PROVE  twait' > 0 /\ twait' = ktimer'[Head(g_timer_head')].left - lag'
    <3>1. /\ tpc' = tpc
          /\ \/ tpc = "recv" /\ twait' = twait /\ lag' = lag - 1
             \/ tpc = "wait" /\ twait' = twait - 1 /\ twait # 1 /\ lag' = lag
      BY <1>1, <2>1 DEF Timed
    <3>2. /\ g_timer_head # <<>> /\ twait > 0
          /\ twait = ktimer[Head(g_timer_head)].left - lag
      BY <1>0, <3>1 DEF LoopOK
    <3>3. PICK h \in Timer : h = Head(g_timer_head) /\ h \in ToSet(g_timer_head)
                             /\ ktimer[h].left \in Int
      BY <3>2, HeadTimer
    <3>4. ktimer'[h].left = ktimer[h].left - 1 /\ Head(g_timer_head') = h
      BY <1>1, <1>2, <3>3
    <3>5. CASE tpc = "recv"
      <4>1. twait' = twait /\ lag' = lag - 1
        BY <3>1, <3>5
      <4>2. \A l, g \in Int : l - g = (l - 1) - (g - 1)
        OBVIOUS
      <4>3. twait = (ktimer[h].left - 1) - (lag - 1)
        BY ONLY <1>3, <3>2, <3>3, <4>2
      <4>. QED BY ONLY <3>2, <3>4, <4>1, <4>3
    <3>6. CASE tpc = "wait"
      <4>1. twait' = twait - 1 /\ twait # 1 /\ lag' = lag
        BY <3>1, <3>6
      <4>2. twait' > 0
        BY ONLY <1>3, <3>2, <4>1
      <4>3. \A l, g, w \in Int : w = l - g => w - 1 = (l - 1) - g
        OBVIOUS
      <4>4. twait - 1 = (ktimer[h].left - 1) - lag
        BY ONLY <1>3, <3>2, <3>3, <4>3
      <4>. QED BY ONLY <3>4, <4>1, <4>2, <4>4
    <3>. QED BY <3>1, <3>5, <3>6
  <2>. QED BY <1>0, <1>1, <2>1 DEF LoopOK, Waits
<1>11. Silent => Silent'
  BY <1>1, <1>2, WorkConsts DEF Silent
<1>. QED BY <1>4, <1>5, <1>6, <1>8, <1>9, <1>10, <1>11 DEF TimerKeeps, TimerInv

\* A command is sent: stored, or given to the waiting timer task.
LEMMA SendStep ==
    ASSUME TimerInv, NEW c \in CommandType, Send(c)
    PROVE  TimerInv' /\ (tpc' = "give" <=> tpc = "give") /\ (Silent /\ ~Starts(c) => Silent')
<1>0. TimerTypes /\ LagOK /\ LinkOK /\ CursorOK /\ LoopOK
  BY DEF TimerInv
<1>1. CASE tpc \in Waits
  <2>1. /\ tpc' = (IF tpc = "idle" THEN "outer_cmd" ELSE "inner_cmd")
        /\ tcmd' = c /\ twait' = 0 /\ lag' = 0
        /\ UNCHANGED <<ktimer, g_timer_head, g_timer_queue, tcur, late>>
        /\ late \in 0 .. MaxLag /\ MaxLag \in Nat
    BY <1>0, <1>1, WorkConsts DEF Send, TimerTypes
  <2>2. TimerTypes'
    BY <1>0, <1>1, <2>1 DEF TimerTypes, TimerPc, Receiving
  <2>3. LagOK' /\ LinkOK' /\ CursorOK' /\ LoopOK'
    BY <1>0, <1>1, <2>1 DEF LagOK, LinkOK, CursorOK, LoopOK, Waits, Firing, Timed
  <2>4. Silent /\ ~Starts(c) => Silent'
    BY <2>1 DEF Silent
  <2>. QED BY <1>1, <2>1, <2>2, <2>3, <2>4 DEF TimerInv, Waits
<1>2. CASE tpc \notin Waits
  <2>1. /\ g_timer_queue' = (IF CanSend THEN Append(g_timer_queue, c) ELSE g_timer_queue)
        /\ UNCHANGED <<ktimer, g_timer_head, lag, tpc, tcmd, tcur, twait, late>>
    BY <1>2 DEF Send, timerVars
  <2>2. /\ g_timer_queue' \in Seq(CommandType) /\ Len(g_timer_queue') <= TimerMsgNum
        /\ (\A i \in 1 .. Len(g_timer_queue) : ~Starts(g_timer_queue[i])) /\ ~Starts(c) =>
             \A i \in 1 .. Len(g_timer_queue') : ~Starts(g_timer_queue'[i])
    <3>1. g_timer_queue \in Seq(CommandType) /\ Len(g_timer_queue) <= TimerMsgNum
      BY <1>0 DEF TimerTypes
    <3>2. CASE CanSend
      <4>. DEFINE q == g_timer_queue
      <4>1. /\ Append(q, c) \in Seq(CommandType) /\ Len(Append(q, c)) = Len(q) + 1
            /\ Len(q) \in Nat /\ Append(q, c)[Len(q) + 1] = c
            /\ \A i \in 1 .. Len(q) : Append(q, c)[i] = q[i]
        BY <3>1
      <4>2. Len(q) < TimerMsgNum
        BY <1>2, <3>2 DEF CanSend
      <4>3. \A i \in 1 .. Len(q) + 1 : i \in 1 .. Len(q) \/ i = Len(q) + 1
        BY <4>1
      <4>. QED BY <2>1, <3>2, <4>1, <4>2, <4>3, WorkConsts
    <3>. QED BY <2>1, <3>1, <3>2
  <2>3. TimerTypes'
    BY <1>0, <2>1, <2>2 DEF TimerTypes
  <2>4. LagOK' /\ LinkOK' /\ CursorOK' /\ LoopOK'
    BY <1>0, <1>2, <2>1 DEF LagOK, LinkOK, CursorOK, LoopOK
  <2>5. Silent /\ ~Starts(c) => Silent'
    BY <2>1, <2>2 DEF Silent
  <2>. QED BY <2>1, <2>3, <2>4, <2>5 DEF TimerInv
<1>. QED BY <1>1, <1>2

\* A timer that is not in use is created again.
LEMMA CreateStep ==
    ASSUME TimerInv, NEW x \in AppTimer, timer_create(x)
    PROVE  TimerKeeps
<1>0. TimerTypes /\ LagOK /\ LinkOK /\ CursorOK /\ LoopOK
  BY DEF TimerInv
<1>1. /\ ktimer[x].obj_type = "none"
      /\ UNCHANGED <<g_timer_head, g_timer_queue, lag, tpc, tcmd, tcur, twait, late>>
      /\ ktimer \in [Timer -> TimerRec] /\ x \in Timer
      /\ First[x] \in Nat /\ Round[x] \in Nat
  BY <1>0, WorkConsts DEF timer_create, TimerTypes
<1>. DEFINE u == [ktimer[x] EXCEPT !.obj_type = "timer", !.timer_state = "deactive",
                     !.init_count = First[x], !.round_ticks = Round[x],
                     !.timer_cb_arg = NULL, !.left = 0]
<1>2. ktimer' = [ktimer EXCEPT ![x] = u]
  BY <1>1 DEF timer_create
<1>3. u \in TimerRec /\ u.timer_state = "deactive"
  <2>1. ktimer[x] \in TimerRec /\ 0 \in Int
    BY <1>1
  <2>. QED BY <1>1, <2>1 DEF TimerRec
<1>. HIDE DEF u
<1>4. /\ ktimer' \in [Timer -> TimerRec] /\ ktimer'[x] = u
      /\ \A y \in Timer : y # x => ktimer'[y] = ktimer[y]
  BY <1>1, <1>2, <1>3
<1>5. x \notin ToSet(g_timer_head) /\ ToSet(g_timer_head) \subseteq Timer
  BY <1>0, <1>1, ToSetProps DEF LinkOK, TimerTypes
<1>6. TimerTypes' /\ LagOK' /\ CursorOK'
  BY <1>0, <1>1, <1>4 DEF TimerTypes, LagOK, CursorOK
<1>7. LinkOK'
  BY <1>0, <1>1, <1>3, <1>4, <1>5 DEF LinkOK
<1>8. LoopOK'
  <2>1. g_timer_head # <<>> => Head(g_timer_head) \in Timer /\ Head(g_timer_head) # x
    BY <1>5, HeadTimer
  <2>. QED BY <1>0, <1>1, <1>4, <2>1 DEF LoopOK
<1>9. Silent => Silent'
  BY <1>1, <1>4, WorkConsts DEF Silent
<1>. QED BY <1>1, <1>6, <1>7, <1>8, <1>9 DEF TimerKeeps, TimerInv
------------------------------------------------------------------------------
\* The work queue.

\* A step of the timer task leaves the work queue as it is.
LEMMA TimerFrame ==
    ASSUME Inv, TimerKeeps, UNCHANGED workVars
    PROVE  Inv'
<1>0. WorkTypes /\ ListedOK /\ ClosedOK /\ TokensExact
  BY DEF Inv, WInv
<1>1. UNCHANGED <<work_list, work_current, work_exit, wq, count, live, wpc, cpc, cancelled>>
  BY DEF workVars, queueVars
<1>2. TimerInv' /\ (tpc' = "give" <=> tpc = "give") /\ (Silent => Silent')
  BY DEF TimerKeeps
<1>3. WorkTypes' /\ ListedOK'
  BY <1>0, <1>1 DEF WorkTypes, ListedOK
<1>4. ClosedOK'
  BY <1>0, <1>1, <1>2 DEF ClosedOK, Open
<1>5. TokensExact'
  BY <1>0, <1>1, <1>2 DEF TokensExact
<1>. QED BY <1>2, <1>3, <1>4, <1>5 DEF Inv, WInv

\* A step of the work queue leaves the timers as they are.
LEMMA QueueFrame ==
    ASSUME TimerInv, UNCHANGED <<timerVars, g_timer_queue>>
    PROVE  TimerInv' /\ (Silent => Silent') /\ tpc' = tpc
<1>1. UNCHANGED <<ktimer, g_timer_head, g_timer_queue, lag, tpc, tcmd, tcur, twait, late>>
  BY DEF timerVars
<1>. QED BY <1>1 DEF TimerInv, TimerTypes, LagOK, LinkOK, CursorOK, LoopOK, Silent

\* Clients that are about to give the semaphore.
Givers == {c \in Client : cpc[c].step = "give"}

\* The tokens, with the count of the givers.
LEMMA Tokens ==
    /\ Cardinality(Givers) \in Nat
    /\ TokensExact <=> Len(work_list) = count + Cardinality(Givers)
                                        + (IF tpc = "give" THEN 1 ELSE 0)
                                        + (IF wpc = "pop" THEN 1 ELSE 0)
<1>1. IsFiniteSet(Givers)
  BY WorkConsts, FS_Subset DEF Givers
<1>2. Cardinality(Givers) \in Nat
  BY <1>1, FS_CardinalityType
<1>. QED BY <1>2 DEF TokensExact, Givers

\* TokensExact after a step, with the clients that are to give counted.
LEMMA TokensNext ==
    /\ Cardinality(Givers') \in Nat
    /\ TokensExact' <=> Len(work_list') = count' + Cardinality(Givers')
                                        + (IF tpc' = "give" THEN 1 ELSE 0)
                                        + (IF wpc' = "pop" THEN 1 ELSE 0)
<1>1. IsFiniteSet(Givers')
  BY WorkConsts, FS_Subset DEF Givers
<1>2. Cardinality(Givers') \in Nat
  BY <1>1, FS_CardinalityType
<1>. QED BY <1>2 DEF TokensExact, Givers

\* A client goes to another step of its call.
LEMMA GiversStep ==
    ASSUME WorkTypes, NEW c \in Client, NEW a, cpc' = [cpc EXCEPT ![c] = a]
    PROVE  /\ cpc'[c] = a /\ \A d \in Client : d # c => cpc'[d] = cpc[d]
           /\ cpc[c].step # "give" /\ a.step # "give" => Givers' = Givers
           /\ cpc[c].step # "give" /\ a.step = "give" =>
                Cardinality(Givers') = Cardinality(Givers) + 1
           /\ cpc[c].step = "give" /\ a.step # "give" =>
                Cardinality(Givers') = Cardinality(Givers) - 1
<1>1. cpc'[c] = a /\ \A d \in Client : d # c => cpc'[d] = cpc[d]
  BY DEF WorkTypes
<1>2. IsFiniteSet(Givers)
  BY WorkConsts, FS_Subset DEF Givers
<1>3. cpc[c].step # "give" /\ a.step # "give" => Givers' = Givers
  BY <1>1 DEF Givers
<1>4. ASSUME cpc[c].step # "give", a.step = "give"
      PROVE  Cardinality(Givers') = Cardinality(Givers) + 1
  <2>1. Givers' = Givers \cup {c} /\ c \notin Givers
    BY <1>1, <1>4 DEF Givers
  <2>. QED BY <1>2, <2>1, FS_AddElement
<1>5. ASSUME cpc[c].step = "give", a.step # "give"
      PROVE  Cardinality(Givers') = Cardinality(Givers) - 1
  <2>1. Givers' = Givers \ {c} /\ c \in Givers
    BY <1>1, <1>5 DEF Givers
  <2>. QED BY <1>2, <2>1, FS_RemoveElement
<1>. QED BY <1>1, <1>3, <1>4, <1>5

\* klist_rm of an element that is not linked.
LEMMA KlistRmSame ==
    ASSUME NEW S, NEW s \in Seq(S), NEW t, t \notin ToSet(s)
    PROVE  klist_rm(s, t) = s
BY ToSetProps DEF klist_rm

\* A work is linked.
LEMMA LinkStep ==
    ASSUME WInv, NEW w \in Work, Link(w)
    PROVE  /\ work_list' \in Seq(Work) /\ Len(work_list') = Len(work_list) + 1
           /\ IsInjective(work_list')
           /\ work_exit' \in [Work -> {0, 1}] /\ wq' \in [Work -> {Queue, NULL}]
           /\ \A v \in Work : v \in ToSet(work_list') <=> work_exit'[v] = 1
           /\ work_current' = work_current
           /\ work_current # NULL => work_exit'[work_current] = 0
<1>0. WorkTypes /\ ListedOK
  BY DEF WInv
<1>1. /\ work_current # w /\ work_exit[w] = 0 /\ work_current' = work_current
      /\ work_list' = Append(klist_rm(work_list, w), w)
      /\ wq' = [wq EXCEPT ![w] = Queue] /\ work_exit' = [work_exit EXCEPT ![w] = 1]
  BY DEF Link
<1>2. /\ work_list \in Seq(Work) /\ work_exit \in [Work -> {0, 1}] /\ IsInjective(work_list)
      /\ wq \in [Work -> {Queue, NULL}] /\ work_current \in Work \cup {NULL}
  BY <1>0 DEF WorkTypes, ListedOK
<1>3. w \notin ToSet(work_list)
  BY <1>0, <1>1 DEF ListedOK
<1>4. work_list' = Append(work_list, w)
  BY <1>1, <1>2, <1>3, KlistRmSame
<1>5. /\ Append(work_list, w) \in Seq(Work)
      /\ ToSet(Append(work_list, w)) = ToSet(work_list) \cup {w}
      /\ IsInjective(Append(work_list, w))
  <2>1. PICK L \in Seq(Work) : L = work_list
    BY <1>2
  <2>2. /\ Append(L, w) \in Seq(Work)
        /\ ToSet(Append(L, w)) = ToSet(L) \cup {w}
        /\ IsInjective(L) /\ w \notin ToSet(L) => IsInjective(Append(L, w))
        /\ <<w>> \o L \in Seq(Work)
        /\ ToSet(<<w>> \o L) = ToSet(L) \cup {w}
        /\ IsInjective(L) /\ w \notin ToSet(L) => IsInjective(<<w>> \o L)
        /\ Append(L, w) # <<>> /\ <<w>> \o L # <<>>
    BY EndsProps
  <2>. QED BY <1>2, <1>3, <2>1, <2>2
<1>6. Len(Append(work_list, w)) = Len(work_list) + 1
  BY <1>2
<1>7. /\ work_exit' \in [Work -> {0, 1}] /\ wq' \in [Work -> {Queue, NULL}]
      /\ work_exit'[w] = 1 /\ \A v \in Work : v # w => work_exit'[v] = work_exit[v]
  BY <1>1, <1>2
<1>8. \A v \in Work : v \in ToSet(work_list') <=> work_exit'[v] = 1
  BY <1>0, <1>4, <1>5, <1>7 DEF ListedOK
<1>9. work_current # NULL => work_exit'[work_current] = 0
  BY <1>0, <1>1, <1>2, <1>7 DEF ListedOK
<1>. QED BY <1>1, <1>4, <1>5, <1>6, <1>7, <1>8, <1>9

\* worker_task.
LEMMA WorkerTake ==
    ASSUME Inv, worker_take
    PROVE  Inv'
<1>0. TimerInv /\ WorkTypes /\ ListedOK /\ ClosedOK /\ TokensExact
  BY DEF Inv, WInv
<1>1. /\ wpc = "take" /\ count > 0 /\ count' = count - 1 /\ wpc' = "pop"
      /\ UNCHANGED <<work_list, work_current, work_exit, wq, live, cpc, cancelled>>
      /\ UNCHANGED <<timerVars, g_timer_queue>> /\ count \in Nat
  BY <1>0 DEF worker_take, queueVars, tVars, WorkTypes
<1>2. TimerInv' /\ (Silent => Silent') /\ tpc' = tpc
  BY <1>0, <1>1, QueueFrame
<1>3. WorkTypes' /\ ListedOK'
  BY <1>0, <1>1 DEF WorkTypes, ListedOK
<1>4. ClosedOK'
  BY <1>0, <1>1, <1>2 DEF ClosedOK, Open
<1>5. TokensExact'
  <2>1. Givers' = Givers
    BY <1>1 DEF Givers
  <2>. QED BY <1>0, <1>1, <1>2, <2>1, Tokens, TokensNext
<1>. QED BY <1>2, <1>3, <1>4, <1>5 DEF Inv, WInv

\* The worker has a token and unlinks the first work.
LEMMA WorkerPop ==
    ASSUME Inv, worker_pop
    PROVE  Inv'
<1>0. TimerInv /\ WorkTypes /\ ListedOK /\ ClosedOK /\ TokensExact
  BY DEF Inv, WInv
<1>1. /\ wpc = "pop" /\ work_list # <<>> /\ work_current' = Head(work_list)
      /\ work_list' = Tail(work_list)
      /\ work_exit' = [work_exit EXCEPT ![Head(work_list)] = 0] /\ wpc' = "handle"
      /\ UNCHANGED <<wq, count, live, cpc, cancelled>>
      /\ UNCHANGED <<timerVars, g_timer_queue>>
  BY DEF worker_pop, tVars
<1>2. TimerInv' /\ (Silent => Silent') /\ tpc' = tpc
  BY <1>0, <1>1, QueueFrame
<1>3. /\ work_list \in Seq(Work) /\ IsInjective(work_list) /\ work_exit \in [Work -> {0, 1}]
  BY <1>0 DEF WorkTypes, ListedOK
<1>. DEFINE h == Head(work_list)
<1>4. /\ h \in ToSet(work_list) /\ h \in Work
      /\ work_list' \in Seq(Work) /\ ToSet(work_list') = ToSet(work_list) \ {h}
      /\ IsInjective(work_list')
  BY <1>1, <1>3, ToSetProps, TailProps
<1>5. Len(work_list') = Len(work_list) - 1 /\ Len(work_list) \in Nat
  BY <1>1, <1>3
<1>. HIDE DEF h
<1>6. /\ work_current' = h /\ work_exit' \in [Work -> {0, 1}] /\ work_exit'[h] = 0
      /\ \A v \in Work : v # h => work_exit'[v] = work_exit[v]
  BY <1>1, <1>3, <1>4 DEF h
<1>7. WorkTypes'
  BY <1>0, <1>1, <1>4, <1>6 DEF WorkTypes
<1>8. ListedOK'
  <2>1. \A v \in Work : v \in ToSet(work_list') <=> work_exit'[v] = 1
    BY <1>0, <1>4, <1>6 DEF ListedOK
  <2>2. work_current' # NULL
    BY <1>4, <1>6, WorkConsts
  <2>. QED BY <1>1, <1>4, <1>6, <2>1, <2>2 DEF ListedOK
<1>9. ClosedOK'
  BY <1>0, <1>1, <1>2 DEF ClosedOK, Open
<1>10. TokensExact'
  <2>1. Givers' = Givers
    BY <1>1 DEF Givers
  <2>2. count \in Nat
    BY <1>0 DEF WorkTypes
  <2>. QED BY <1>0, <1>1, <1>2, <1>5, <2>1, <2>2, Tokens, TokensNext
<1>. QED BY <1>2, <1>7, <1>8, <1>9, <1>10 DEF Inv, WInv

\* The handler of the work has returned.
LEMMA WorkerDone ==
    ASSUME Inv, worker_done
    PROVE  Inv'
<1>0. TimerInv /\ WorkTypes /\ ListedOK /\ ClosedOK /\ TokensExact
  BY DEF Inv, WInv
<1>1. /\ wpc = "handle" /\ work_current' = NULL /\ wpc' = "take"
      /\ UNCHANGED <<work_list, work_exit, wq, count, live, cpc, cancelled>>
      /\ UNCHANGED <<timerVars, g_timer_queue>>
  BY DEF worker_done, tVars
<1>2. TimerInv' /\ (Silent => Silent') /\ tpc' = tpc
  BY <1>0, <1>1, QueueFrame
<1>3. WorkTypes' /\ ListedOK'
  BY <1>0, <1>1 DEF WorkTypes, ListedOK
<1>4. ClosedOK'
  BY <1>0, <1>1, <1>2 DEF ClosedOK, Open
<1>5. TokensExact'
  BY <1>0, <1>1, <1>2 DEF TokensExact
<1>. QED BY <1>2, <1>3, <1>4, <1>5 DEF Inv, WInv
------------------------------------------------------------------------------
\* The clients.

\* A client in a call, and what its steps are.
LEMMA ClientStep ==
    ASSUME WorkTypes, NEW c \in Client, NEW st \in {"none", "give", "stop", "cancel"} \cup DelSteps,
           NEW w \in Work \cup {NULL}, st \in {"give", "stop", "cancel"} => w \in Work,
           cpc' = [cpc EXCEPT ![c] = At(st, w)]
    PROVE  /\ cpc' \in [Client -> [step : {"none", "give", "stop", "cancel"} \cup DelSteps,
                                   work : Work \cup {NULL}]]
           /\ \A d \in Client : cpc'[d].step \in {"give", "stop", "cancel"} => cpc'[d].work \in Work
           /\ At(st, w).step = st /\ At(st, w).work = w
           /\ cpc'[c].step = st
           /\ st \notin DelSteps /\ (\A d \in Client : cpc[d].step \notin DelSteps) =>
                \A d \in Client : cpc'[d].step \notin DelSteps
<1>. DEFINE R == [step : {"none", "give", "stop", "cancel"} \cup DelSteps, work : Work \cup {NULL}]
            a == At(st, w)
<1>1. a \in R /\ a.step = st /\ a.work = w
  BY DEF At
<1>2. cpc \in [Client -> R]
      /\ \A d \in Client : cpc[d].step \in {"give", "stop", "cancel"} => cpc[d].work \in Work
  BY DEF WorkTypes
<1>. HIDE DEF a
<1>3. cpc' = [cpc EXCEPT ![c] = a]
  BY DEF a
<1>. HIDE DEF R
<1>4. cpc' \in [Client -> R] /\ cpc'[c] = a /\ \A d \in Client : d # c => cpc'[d] = cpc[d]
  BY <1>1, <1>2, <1>3
<1>5. \A d \in Client : cpc'[d].step \in {"give", "stop", "cancel"} => cpc'[d].work \in Work
  BY <1>1, <1>2, <1>4
<1>6. /\ st \notin DelSteps /\ (\A d \in Client : cpc[d].step \notin DelSteps) =>
           \A d \in Client : cpc'[d].step \notin DelSteps
  BY <1>1, <1>4
<1>7. cpc'[c].step = st
  BY <1>1, <1>4
<1>. QED BY <1>1, <1>4, <1>5, <1>6, <1>7 DEF a, R

\* Open, in terms of the steps.
LEMMA OpenSteps ==
    /\ Open <=> live /\ \A d \in Client : cpc[d].step \notin DelSteps
    /\ Open' <=> live' /\ \A d \in Client : cpc'[d].step \notin DelSteps
BY DEF Open, DelSteps

\* A client outside of a call is at none of the steps of a call.
LEMMA NoCallStep ==
    /\ NoCall.step = "none" /\ NoCall = At("none", NULL)
    /\ "none" \notin DelSteps /\ "give" \notin DelSteps /\ "stop" \notin DelSteps
    /\ "cancel" \notin DelSteps
    /\ \A st \in DelSteps : st \notin {"none", "give", "stop", "cancel"}
BY DEF NoCall, At, DelSteps

\* krhino_work_run links the work.
LEMMA RunStep ==
    ASSUME Inv, NEW c \in Client, NEW w \in Work, krhino_work_run(c, w)
    PROVE  Inv'
<1>0. TimerInv /\ WInv /\ WorkTypes /\ ListedOK /\ ClosedOK /\ TokensExact
  BY DEF Inv, WInv
<1>1. /\ cpc[c] = NoCall /\ Open /\ Link(w) /\ cpc' = [cpc EXCEPT ![c] = At("give", w)]
      /\ cancelled' = cancelled \ {w} /\ UNCHANGED <<count, live, wpc>>
      /\ UNCHANGED <<timerVars, g_timer_queue>>
  BY DEF krhino_work_run
<1>2. TimerInv' /\ (Silent => Silent') /\ tpc' = tpc
  BY <1>0, <1>1, QueueFrame
<1>3. /\ work_list' \in Seq(Work) /\ Len(work_list') = Len(work_list) + 1
      /\ IsInjective(work_list')
      /\ work_exit' \in [Work -> {0, 1}] /\ wq' \in [Work -> {Queue, NULL}]
      /\ \A v \in Work : v \in ToSet(work_list') <=> work_exit'[v] = 1
      /\ work_current' = work_current
      /\ work_current # NULL => work_exit'[work_current] = 0
  BY <1>0, <1>1, LinkStep
<1>4. /\ cpc' \in [Client -> [step : {"none", "give", "stop", "cancel"} \cup DelSteps,
                              work : Work \cup {NULL}]]
      /\ \A d \in Client : cpc'[d].step \in {"give", "stop", "cancel"} => cpc'[d].work \in Work
      /\ At("give", w).step = "give"
      /\ (\A d \in Client : cpc[d].step \notin DelSteps) =>
           \A d \in Client : cpc'[d].step \notin DelSteps
  BY <1>0, <1>1, ClientStep, NoCallStep
<1>5. WorkTypes'
  BY <1>0, <1>1, <1>3, <1>4 DEF WorkTypes
<1>6. ListedOK'
  BY <1>0, <1>1, <1>3 DEF ListedOK
<1>7. ClosedOK'
  <2>1. Open'
    BY <1>1, <1>4, OpenSteps
  <2>. QED BY <2>1 DEF ClosedOK
<1>8. TokensExact'
  <2>1. Cardinality(Givers') = Cardinality(Givers) + 1
    BY <1>0, <1>1, <1>4, GiversStep, NoCallStep
  <2>2. count \in Nat
    BY <1>0 DEF WorkTypes
  <2>. QED BY <1>0, <1>1, <1>2, <1>3, <2>1, <2>2, Tokens, TokensNext
<1>. QED BY <1>2, <1>5, <1>6, <1>7, <1>8 DEF Inv, WInv

\* A client goes on in its call, or leaves it, and the lists stay as they are.
LEMMA StepFrame ==
    ASSUME Inv, NEW c \in Client, NEW st \in {"none", "give", "stop", "cancel"} \cup DelSteps,
           NEW w \in Work \cup {NULL}, st \in {"give", "stop", "cancel"} => w \in Work,
           cpc' = [cpc EXCEPT ![c] = At(st, w)],
           st # "give", cpc[c].step # "give",
           TimerInv', tpc' = "give" <=> tpc = "give", Silent => Silent',
           work_list' = work_list, work_current' = work_current,
           work_exit' = work_exit, wq' \in [Work -> {Queue, NULL}], cancelled' \subseteq Work,
           live' \in BOOLEAN, wpc' \in {"take", "pop", "handle", "deleted"}, count' \in Nat,
           wpc' = wpc \/ (work_list = <<>> /\ work_current = NULL /\ wpc' = "deleted"),
           count' = count \/ (work_list = <<>> /\ count' = 0),
           Open' \/ ~Open \/ (work_list = <<>> /\ work_current = NULL /\ Silent)
    PROVE  Inv'
<1>0. TimerInv /\ WInv /\ WorkTypes /\ ListedOK /\ ClosedOK /\ TokensExact
  BY DEF Inv, WInv
<1>1. /\ cpc' \in [Client -> [step : {"none", "give", "stop", "cancel"} \cup DelSteps,
                              work : Work \cup {NULL}]]
      /\ \A d \in Client : cpc'[d].step \in {"give", "stop", "cancel"} => cpc'[d].work \in Work
      /\ At(st, w).step = st
  BY <1>0, ClientStep
<1>2. WorkTypes'
  BY <1>0, <1>1 DEF WorkTypes
<1>4. ListedOK'
  <2>1. (work_current' # NULL) <=> (wpc' = "handle")
    BY <1>0 DEF ListedOK
  <2>. QED BY <1>0, <2>1 DEF ListedOK
<1>5. ClosedOK'
  BY <1>0 DEF ClosedOK
<1>6. TokensExact'
  <2>1. Givers' = Givers
    BY <1>0, <1>1, GiversStep
  <2>2. count \in Nat /\ Cardinality(Givers) \in Nat
    BY <1>0, Tokens DEF WorkTypes
  <2>3. work_list = <<>> => count = 0 /\ wpc # "pop"
    BY <1>0, <2>2, Tokens
  <2>4. count' = count /\ (wpc' = "pop" <=> wpc = "pop")
    BY <2>3
  <2>. QED BY <1>0, <2>1, <2>2, <2>4, Tokens, TokensNext
<1>. QED BY <1>2, <1>4, <1>5, <1>6 DEF Inv, WInv
\* The semaphore is given for a linked work.
LEMMA GiveStep ==
    ASSUME Inv, NEW c \in Client, krhino_sem_give(c)
    PROVE  Inv'
<1>0. TimerInv /\ WorkTypes /\ ListedOK /\ ClosedOK /\ TokensExact
  BY DEF Inv, WInv
<1>1. /\ cpc[c].step = "give" /\ count' = count + 1 /\ cpc' = [cpc EXCEPT ![c] = At("none", NULL)]
      /\ UNCHANGED <<work_list, work_current, work_exit, wq, live, wpc, cancelled>>
      /\ UNCHANGED <<timerVars, g_timer_queue>>
  BY DEF krhino_sem_give, queueVars, tVars, NoCall
<1>2. TimerInv' /\ (Silent => Silent') /\ tpc' = tpc
  BY <1>0, <1>1, QueueFrame
<1>3. /\ cpc' \in [Client -> [step : {"none", "give", "stop", "cancel"} \cup DelSteps,
                              work : Work \cup {NULL}]]
      /\ \A d \in Client : cpc'[d].step \in {"give", "stop", "cancel"} => cpc'[d].work \in Work
      /\ At("none", NULL).step = "none"
      /\ (\A d \in Client : cpc[d].step \notin DelSteps) =>
           \A d \in Client : cpc'[d].step \notin DelSteps
  BY <1>0, <1>1, ClientStep, NoCallStep
<1>4. count \in Nat /\ count' \in Nat
  BY <1>0, <1>1 DEF WorkTypes
<1>5. WorkTypes' /\ ListedOK'
  BY <1>0, <1>1, <1>3, <1>4 DEF WorkTypes, ListedOK
<1>6. ClosedOK'
  <2>1. Open => Open'
    BY <1>1, <1>3, OpenSteps
  <2>. QED BY <1>0, <1>1, <1>2, <2>1 DEF ClosedOK
<1>7. TokensExact'
  <2>1. Cardinality(Givers') = Cardinality(Givers) - 1
    BY <1>0, <1>1, <1>3, GiversStep
  <2>. QED BY <1>0, <1>1, <1>2, <1>4, <2>1, Tokens, TokensNext
<1>. QED BY <1>2, <1>5, <1>6, <1>7 DEF Inv, WInv

\* What the commands of the clients are.
LEMMA WorkCommands ==
    ASSUME NEW w \in Work, Delayed(w)
    PROVE  /\ Command("arg_chg_auto", WorkTimer[w], 0, 0, Queue) \in CommandType
           /\ Command("stop", WorkTimer[w], 0, 0, NULL) \in CommandType
           /\ ~Starts(Command("stop", WorkTimer[w], 0, 0, NULL))
<1>1. WorkTimer[w] \in Managed
  BY DEF Managed, Delayed
<1>. QED BY <1>1 DEF Command, CommandType, Starts

\* The timer of a delayed work is started.
LEMMA RunDelayedStep ==
    ASSUME Inv, NEW c \in Client, NEW w \in Work, krhino_work_run_delayed(c, w)
    PROVE  Inv'
<1>0. TimerInv /\ WorkTypes /\ ListedOK /\ ClosedOK /\ TokensExact
  BY DEF Inv, WInv
<1>1. /\ Delayed(w) /\ Open /\ Send(Command("arg_chg_auto", WorkTimer[w], 0, 0, Queue))
      /\ cancelled' = cancelled \ {w}
      /\ UNCHANGED <<work_list, work_current, work_exit, wq, count, live, wpc, cpc>>
  BY DEF krhino_work_run_delayed, queueVars
<1>2. TimerInv' /\ (tpc' = "give" <=> tpc = "give")
  BY <1>0, <1>1, SendStep, WorkCommands
<1>3. WorkTypes' /\ ListedOK'
  BY <1>0, <1>1 DEF WorkTypes, ListedOK
<1>4. ClosedOK'
  BY <1>1 DEF ClosedOK, Open
<1>5. TokensExact'
  BY <1>0, <1>1, <1>2 DEF TokensExact
<1>. QED BY <1>2, <1>3, <1>4, <1>5 DEF Inv, WInv

\* The calls of the application on its timers.
LEMMA AppCallStep ==
    ASSUME Inv, NEW x \in AppTimer, TimerCalls(x), UNCHANGED workVars
    PROVE  Inv'
<1>0. TimerInv
  BY DEF Inv
<1>1. /\ x \in Managed /\ Round[x] \in Nat /\ \A f \in FirstChoices : f \in Nat
  BY WorkConsts DEF Managed
<1>2. /\ Command("start", x, 0, 0, NULL) \in CommandType
      /\ Command("stop", x, 0, 0, NULL) \in CommandType
      /\ Command("del", x, 0, 0, NULL) \in CommandType
      /\ Command("arg_chg", x, 0, 0, NULL) \in CommandType
      /\ \A f \in FirstChoices : Command("chg", x, f, Round[x], NULL) \in CommandType
  BY <1>1 DEF Command, CommandType
<1>3. CASE timer_create(x)
  BY <1>0, <1>3, CreateStep, TimerFrame
<1>4. CASE ~timer_create(x)
  <2>1. PICK m \in CommandType : m.timer = x /\ Send(m)
    <3>1. /\ Command("start", x, 0, 0, NULL).timer = x
          /\ Command("stop", x, 0, 0, NULL).timer = x
          /\ Command("del", x, 0, 0, NULL).timer = x
          /\ Command("arg_chg", x, 0, 0, NULL).timer = x
          /\ \A f \in FirstChoices : Command("chg", x, f, Round[x], NULL).timer = x
      BY DEF Command
    <3>2. \/ Send(Command("start", x, 0, 0, NULL))
          \/ Send(Command("stop", x, 0, 0, NULL))
          \/ Send(Command("del", x, 0, 0, NULL))
          \/ Send(Command("arg_chg", x, 0, 0, NULL))
          \/ \E f \in FirstChoices : Send(Command("chg", x, f, Round[x], NULL))
      BY <1>4 DEF TimerCalls, krhino_timer_start, krhino_timer_stop, krhino_timer_del,
                  krhino_timer_arg_change, krhino_timer_change
    <3>. QED BY <1>2, <3>1, <3>2
  <2>2. ~Starts(m)
    BY <2>1 DEF Starts
  <2>3. TimerKeeps
    BY <1>0, <2>1, <2>2, SendStep DEF TimerKeeps
  <2>. QED BY <2>3, TimerFrame
<1>. QED BY <1>3, <1>4

\* krhino_work_cancel.
LEMMA CancelStep ==
    ASSUME Inv, NEW c \in Client, NEW w \in Work, krhino_work_cancel(c, w)
    PROVE  Inv'
<1>0. TimerInv /\ WorkTypes
  BY DEF Inv, WInv
<1>1. PICK st \in {"stop", "cancel"} : st = IF wq[w] = NULL THEN "stop" ELSE "cancel"
  OBVIOUS
<1>2. /\ cpc[c] = NoCall /\ cpc' = [cpc EXCEPT ![c] = At(st, w)]
      /\ UNCHANGED <<work_list, work_current, work_exit, wq, count, live, wpc, cancelled>>
      /\ UNCHANGED <<timerVars, g_timer_queue>>
  BY <1>1 DEF krhino_work_cancel, queueVars
<1>3. TimerInv' /\ (Silent => Silent') /\ tpc' = tpc
  BY <1>0, <1>2, QueueFrame
<1>4. Open => Open'
  <2>1. (\A d \in Client : cpc[d].step \notin DelSteps) =>
           \A d \in Client : cpc'[d].step \notin DelSteps
    BY <1>0, <1>2, ClientStep, NoCallStep
  <2>. QED BY <1>2, <2>1, OpenSteps
<1>5. wq' \in [Work -> {Queue, NULL}] /\ cancelled' \subseteq Work /\ live' \in BOOLEAN
      /\ wpc' \in {"take", "pop", "handle", "deleted"} /\ count' \in Nat
  BY <1>0, <1>2 DEF WorkTypes
<1>. QED BY <1>2, <1>3, <1>4, <1>5, NoCallStep, StepFrame

\* krhino_work_cancel stops the timer of a work that names no queue.
LEMMA CancelStopStep ==
    ASSUME Inv, NEW c \in Client, work_cancel_stop(c)
    PROVE  Inv'
<1>0. TimerInv /\ WorkTypes
  BY DEF Inv, WInv
<1>. DEFINE w == cpc[c].work
<1>1. /\ cpc[c].step = "stop" /\ cpc' = [cpc EXCEPT ![c] = At("none", NULL)]
      /\ cancelled' = cancelled \cup {w}
      /\ UNCHANGED <<work_list, work_current, work_exit, wq, count, live, wpc>>
      /\ IF Delayed(w) THEN Send(Command("stop", WorkTimer[w], 0, 0, NULL))
         ELSE UNCHANGED <<timerVars, g_timer_queue>>
  BY DEF work_cancel_stop, queueVars, NoCall
<1>2. w \in Work
  BY <1>0, <1>1 DEF WorkTypes
<1>3. TimerInv' /\ (Silent => Silent') /\ (tpc' = "give" <=> tpc = "give")
  <2>1. CASE Delayed(w)
    BY <1>0, <1>1, <1>2, <2>1, SendStep, WorkCommands
  <2>2. CASE ~Delayed(w)
    BY <1>0, <1>1, <2>2, QueueFrame
  <2>. QED BY <2>1, <2>2
<1>4. Open => Open'
  <2>1. (\A d \in Client : cpc[d].step \notin DelSteps) =>
           \A d \in Client : cpc'[d].step \notin DelSteps
    BY <1>0, <1>1, ClientStep, NoCallStep
  <2>. QED BY <1>1, <2>1, OpenSteps
<1>5. wq' \in [Work -> {Queue, NULL}] /\ cancelled' \subseteq Work /\ live' \in BOOLEAN
      /\ wpc' \in {"take", "pop", "handle", "deleted"} /\ count' \in Nat
  BY <1>0, <1>1, <1>2 DEF WorkTypes
<1>. QED BY <1>1, <1>3, <1>4, <1>5, StepFrame

\* krhino_work_cancel forgets the queue of a work that is neither running nor linked.
LEMMA CancelUnlinkStep ==
    ASSUME Inv, NEW c \in Client, work_cancel_unlink(c)
    PROVE  Inv'
<1>0. TimerInv /\ WorkTypes /\ ListedOK
  BY DEF Inv, WInv
<1>. DEFINE w == cpc[c].work
<1>1. /\ cpc[c].step = "cancel" /\ cpc' = [cpc EXCEPT ![c] = At("none", NULL)]
      /\ UNCHANGED <<count, live, wpc>> /\ UNCHANGED <<timerVars, g_timer_queue>>
      /\ IF work_current = w \/ work_exit[w] = 1
         THEN UNCHANGED <<work_list, work_current, work_exit, wq, cancelled>>
         ELSE /\ work_list' = klist_rm(work_list, w)
              /\ wq' = [wq EXCEPT ![w] = NULL]
              /\ cancelled' = cancelled \cup {w}
              /\ UNCHANGED <<work_current, work_exit>>
  BY DEF work_cancel_unlink, queueVars, tVars, NoCall
<1>2. w \in Work
  BY <1>0, <1>1 DEF WorkTypes
<1>3. TimerInv' /\ (Silent => Silent') /\ tpc' = tpc
  BY <1>0, <1>1, QueueFrame
<1>4. /\ work_list' = work_list /\ work_current' = work_current /\ work_exit' = work_exit
      /\ wq' \in [Work -> {Queue, NULL}] /\ cancelled' \subseteq Work
  <2>1. CASE work_current = w \/ work_exit[w] = 1
    BY <1>0, <1>1, <2>1 DEF WorkTypes
  <2>2. CASE ~(work_current = w \/ work_exit[w] = 1)
    <3>1. w \notin ToSet(work_list) /\ work_list \in Seq(Work)
      BY <1>0, <1>2, <2>2 DEF ListedOK, WorkTypes
    <3>2. klist_rm(work_list, w) = work_list
      BY <3>1, KlistRmSame
    <3>. QED BY <1>0, <1>1, <1>2, <2>2, <3>2 DEF WorkTypes
  <2>. QED BY <2>1, <2>2
<1>5. Open => Open'
  <2>1. (\A d \in Client : cpc[d].step \notin DelSteps) =>
           \A d \in Client : cpc'[d].step \notin DelSteps
    BY <1>0, <1>1, ClientStep, NoCallStep
  <2>. QED BY <1>1, <2>1, OpenSteps
<1>6. live' \in BOOLEAN /\ wpc' \in {"take", "pop", "handle", "deleted"} /\ count' \in Nat
  BY <1>0, <1>1 DEF WorkTypes
<1>. QED BY <1>1, <1>3, <1>4, <1>5, <1>6, StepFrame

\* krhino_workqueue_del, from its check on.
LEMMA DelStep ==
    ASSUME Inv, NEW c \in Client, krhino_workqueue_del(c)
    PROVE  Inv'
<1>0. TimerInv /\ WorkTypes
  BY DEF Inv, WInv
<1>1. /\ Unused /\ work_list = <<>> /\ work_current = NULL
      /\ cpc' = [cpc EXCEPT ![c] = At("del_task", NULL)]
      /\ UNCHANGED <<work_list, work_current, work_exit, wq, count, live, wpc, cancelled>>
      /\ UNCHANGED <<timerVars, g_timer_queue>>
  BY DEF krhino_workqueue_del, queueVars
<1>2. TimerInv' /\ (Silent => Silent') /\ tpc' = tpc
  BY <1>0, <1>1, QueueFrame
<1>3. Silent /\ cpc[c] = NoCall
  <2>1. ~Starts(NoCommand)
    BY DEF Starts, NoCommand, Command
  <2>2. \A i \in 1 .. Len(<<>>) : FALSE
    OBVIOUS
  <2>. QED BY <1>1, <2>1, <2>2 DEF Unused, Silent
<1>4. wq' \in [Work -> {Queue, NULL}] /\ cancelled' \subseteq Work /\ live' \in BOOLEAN
      /\ wpc' \in {"take", "pop", "handle", "deleted"} /\ count' \in Nat
  BY <1>0, <1>1 DEF WorkTypes
<1>5. "del_task" \in DelSteps
  BY DEF DelSteps
<1>. QED BY <1>1, <1>2, <1>3, <1>4, <1>5, NoCallStep, StepFrame

\* krhino_workqueue_del after its check: the worker, the semaphore and the queue go.
LEMMA DelGoesOn ==
    ASSUME Inv, NEW c \in Client,
           workqueue_del_task(c) \/ workqueue_del_sem(c) \/ workqueue_del_node(c)
    PROVE  Inv'
<1>0. TimerInv /\ WorkTypes /\ ClosedOK
  BY DEF Inv, WInv
<1>1. PICK st \in {"none"} \cup DelSteps : cpc' = [cpc EXCEPT ![c] = At(st, NULL)]
  BY DEF workqueue_del_task, workqueue_del_sem, workqueue_del_node, DelSteps, NoCall
<1>2. /\ cpc[c].step \in DelSteps
      /\ UNCHANGED <<work_list, work_current, work_exit, wq, cancelled>>
      /\ UNCHANGED <<timerVars, g_timer_queue>>
      /\ wpc' \in {wpc, "deleted"} /\ count' \in {count, 0} /\ live' \in {live, FALSE}
  BY DEF workqueue_del_task, workqueue_del_sem, workqueue_del_node, DelSteps, queueVars, tVars
<1>3. TimerInv' /\ (Silent => Silent') /\ tpc' = tpc
  BY <1>0, <1>2, QueueFrame
<1>4. ~Open /\ work_list = <<>> /\ work_current = NULL
  BY <1>0, <1>2, OpenSteps DEF ClosedOK
<1>5. wq' \in [Work -> {Queue, NULL}] /\ cancelled' \subseteq Work /\ live' \in BOOLEAN
      /\ wpc' \in {"take", "pop", "handle", "deleted"} /\ count' \in Nat
  <2>1. live' \in BOOLEAN
    BY <1>0, <1>2, Zenon DEF WorkTypes
  <2>2. wpc' \in {"take", "pop", "handle", "deleted"} /\ count' \in Nat
    BY <1>0, <1>2 DEF WorkTypes
  <2>. QED BY <1>0, <1>2, <2>1, <2>2 DEF WorkTypes
<1>6. st # "give" /\ cpc[c].step # "give" /\ st \notin {"give", "stop", "cancel"}
  BY <1>2, NoCallStep
<1>7. /\ wpc' = wpc \/ (work_list = <<>> /\ work_current = NULL /\ wpc' = "deleted")
      /\ count' = count \/ (work_list = <<>> /\ count' = 0)
  BY <1>2, <1>4
<1>. QED BY <1>1, <1>2, <1>3, <1>4, <1>5, <1>6, <1>7, StepFrame

\* krhino_workqueue_create.
LEMMA CreateQueueStep ==
    ASSUME Inv, NEW c \in Client, krhino_workqueue_create(c)
    PROVE  Inv'
<1>0. TimerInv /\ WorkTypes /\ ListedOK /\ ClosedOK /\ TokensExact
  BY DEF Inv, WInv
<1>1. /\ ~live /\ work_list' = <<>> /\ work_current' = NULL /\ count' = 0 /\ live' = TRUE
      /\ wpc' = "take" /\ UNCHANGED <<work_exit, wq, cpc, cancelled>>
      /\ UNCHANGED <<timerVars, g_timer_queue>>
  BY DEF krhino_workqueue_create
<1>2. TimerInv' /\ (Silent => Silent') /\ tpc' = tpc
  BY <1>0, <1>1, QueueFrame
<1>3. work_list = <<>> /\ Silent
  BY <1>0, <1>1 DEF ClosedOK, Open
<1>4. WorkTypes'
  BY <1>0, <1>1, <1>3 DEF WorkTypes
<1>5. ListedOK'
  BY <1>0, <1>1, <1>3 DEF ListedOK
<1>6. ClosedOK'
  BY <1>1, <1>2, <1>3 DEF ClosedOK
<1>7. TokensExact'
  <2>1. Givers' = Givers /\ count \in Nat /\ Len(work_list) = 0 /\ Len(work_list') = 0
    BY <1>0, <1>1, <1>3 DEF Givers, WorkTypes
  <2>2. Cardinality(Givers) = 0 /\ tpc # "give"
    BY <1>0, <2>1, Tokens
  <2>. QED BY <1>1, <1>2, <2>1, <2>2, TokensNext
<1>. QED BY <1>2, <1>4, <1>5, <1>6, <1>7 DEF Inv, WInv
------------------------------------------------------------------------------
\* The callbacks.

\* The callback of a delayed work runs for one of the works, and only while
\* the queue is open.
LEMMA CallbackWork ==
    ASSUME Inv, tpc = "cb", tcur \notin AppTimer
    PROVE  WorkOf(tcur) \in Work /\ Open
<1>0. TimerTypes /\ LinkOK /\ CursorOK /\ ClosedOK
  BY DEF Inv, TimerInv, WInv
<1>1. tcur \in ToSet(g_timer_head) /\ tcur \in Timer
  BY <1>0 DEF CursorOK, TimerTypes
<1>2. tcur \in Managed /\ ktimer[tcur].timer_state = "active"
  BY <1>0, <1>1 DEF LinkOK
<1>3. PICK w \in DOMAIN WorkTimer : WorkTimer[w] = tcur
  BY <1>2 DEF Managed
<1>4. WorkOf(tcur) \in DOMAIN WorkTimer
  BY <1>3 DEF WorkOf
<1>5. ~Silent
  BY <1>2, <1>3 DEF Silent
<1>. QED BY <1>0, <1>4, <1>5, WorkConsts DEF ClosedOK

\* work_timer_cb: it links the work, or has nothing to do.
LEMMA WorkTimerCbStep ==
    ASSUME Inv, work_timer_cb
    PROVE  Inv'
<1>0. TimerInv /\ WInv /\ WorkTypes /\ ListedOK /\ ClosedOK /\ TokensExact
  BY DEF Inv, WInv
<1>. DEFINE w == WorkOf(tcur)
<1>1. /\ tpc = "cb" /\ tcur \notin AppTimer /\ UNCHANGED <<count, live, wpc, cpc, cancelled>>
  BY DEF work_timer_cb
<1>2. w \in Work /\ Open
  BY <1>1, CallbackWork
<1>3. CASE Link(w) /\ tpc' = "give" /\ UNCHANGED <<ktimer, g_timer_head, g_timer_queue, lag,
                                                  tcmd, tcur, twait, late>>
  <2>. HIDE DEF w
  <2>1. TimerInv'
    <3>1. TimerTypes /\ LagOK /\ LinkOK /\ CursorOK /\ LoopOK
      BY <1>0 DEF TimerInv
    <3>2. TimerTypes'
      BY <1>1, <1>3, <3>1 DEF TimerTypes, TimerPc, Receiving
    <3>3. LagOK' /\ LinkOK' /\ CursorOK' /\ LoopOK'
      BY <1>1, <1>3, <3>1 DEF LagOK, LinkOK, CursorOK, LoopOK, Waits, Firing, Timed
    <3>. QED BY <3>2, <3>3 DEF TimerInv
  <2>2. /\ work_list' \in Seq(Work) /\ Len(work_list') = Len(work_list) + 1
        /\ IsInjective(work_list')
        /\ work_exit' \in [Work -> {0, 1}] /\ wq' \in [Work -> {Queue, NULL}]
        /\ \A v \in Work : v \in ToSet(work_list') <=> work_exit'[v] = 1
        /\ work_current' = work_current
        /\ work_current # NULL => work_exit'[work_current] = 0
    BY <1>0, <1>2, <1>3, LinkStep
  <2>3. WorkTypes'
    BY <1>0, <1>1, <2>2 DEF WorkTypes
  <2>4. ListedOK'
    BY <1>0, <1>1, <2>2 DEF ListedOK
  <2>5. ClosedOK'
    BY <1>1, <1>2 DEF ClosedOK, Open
  <2>6. TokensExact'
    <3>1. Givers' = Givers /\ count \in Nat
      BY <1>0, <1>1 DEF Givers, WorkTypes
    <3>. QED BY <1>0, <1>1, <1>3, <2>2, <3>1, Tokens, TokensNext
  <2>. QED BY <2>1, <2>3, <2>4, <2>5, <2>6 DEF Inv, WInv
<1>4. CASE timer_cb_end /\ UNCHANGED queueVars
  <2>1. TimerKeeps
    BY <1>0, <1>1, <1>4, CbEndStep DEF TimerKeeps
  <2>. QED BY <1>1, <1>4, <2>1, TimerFrame DEF workVars
<1>. QED BY <1>3, <1>4 DEF work_timer_cb

\* work_timer_cb gives the semaphore for the work it has linked.
LEMMA CbGiveStep ==
    ASSUME Inv, work_timer_cb_give
    PROVE  Inv'
<1>0. TimerInv /\ WorkTypes /\ ListedOK /\ ClosedOK /\ TokensExact
  BY DEF Inv, WInv
<1>1. /\ tpc = "give" /\ count' = count + 1 /\ timer_cb_end
      /\ UNCHANGED <<work_list, work_current, work_exit, wq, live, wpc, cpc, cancelled>>
  BY DEF work_timer_cb_give, queueVars
<1>2. TimerInv' /\ tpc' = "scan" /\ (Silent => Silent')
  BY <1>0, <1>1, CbEndStep
<1>3. WorkTypes' /\ ListedOK'
  BY <1>0, <1>1 DEF WorkTypes, ListedOK
<1>4. ClosedOK'
  BY <1>0, <1>1, <1>2 DEF ClosedOK, Open
<1>5. TokensExact'
  <2>1. Givers' = Givers /\ count \in Nat
    BY <1>0, <1>1 DEF Givers, WorkTypes
  <2>. QED BY <1>0, <1>1, <1>2, <2>1, Tokens, TokensNext
<1>. QED BY <1>2, <1>3, <1>4, <1>5 DEF Inv, WInv

\* The callback of a timer of the application.
LEMMA AppCbStep ==
    ASSUME Inv, app_timer_cb
    PROVE  Inv'
<1>1. TimerKeeps
  BY CbEndStep DEF app_timer_cb, TimerKeeps, Inv
<1>. QED BY <1>1, TimerFrame DEF app_timer_cb
------------------------------------------------------------------------------
\* The theorems.

\* Inv holds at the start.
LEMMA WorkInit == Init => Inv
<1>. SUFFICES ASSUME Init PROVE Inv
  OBVIOUS
<1>1. /\ g_timer_head = <<>> /\ g_timer_queue = <<>> /\ lag = 0 /\ tpc = "outer"
      /\ tcmd = NoCommand /\ tcur = NULL /\ twait = 0 /\ late = 0
      /\ work_list = <<>> /\ work_current = NULL /\ count = 0 /\ live = TRUE /\ wpc = "take"
      /\ work_exit = [w \in Work |-> 0] /\ wq = [w \in Work |-> NULL]
      /\ cpc = [c \in Client |-> NoCall] /\ cancelled = {}
  BY DEF Init, TimerInit
<1>2. /\ ktimer \in [Timer -> TimerRec]
      /\ \A x \in Timer : ktimer[x].timer_state = "deactive"
  BY WorkConsts DEF Init, TimerInit, TimerRec
<1>3. ToSet(<<>>) = {} /\ IsInjective(<<>>) /\ Len(<<>>) = 0
  BY DEF ToSet, IsInjective
<1>4. TimerInv
  <2>1. TimerTypes
    BY <1>1, <1>2, WorkConsts DEF TimerTypes, TimerPc, Receiving
  <2>2. LagOK /\ LinkOK /\ CursorOK /\ LoopOK
    BY <1>1, <1>2, <1>3, WorkConsts DEF LagOK, LinkOK, CursorOK, LoopOK, Waits, Firing, Timed
  <2>. QED BY <2>1, <2>2 DEF TimerInv
<1>5. WorkTypes
  BY <1>1 DEF WorkTypes, NoCall, At, DelSteps
<1>6. ListedOK
  BY <1>1, <1>3 DEF ListedOK
<1>7. \A c \in Client : cpc[c].step = "none"
  BY <1>1 DEF NoCall, At
<1>8. ClosedOK
  BY <1>1, <1>7 DEF ClosedOK, Open
<1>9. TokensExact
  <2>1. Givers = {}
    BY <1>7 DEF Givers
  <2>. QED BY <1>1, <1>3, <2>1, FS_EmptySet, Tokens
<1>. QED BY <1>4, <1>5, <1>6, <1>8, <1>9 DEF Inv, WInv

\* Every step keeps Inv.
LEMMA WorkNext == Inv /\ [Next]_vars => Inv'
<1>. SUFFICES ASSUME Inv, [Next]_vars PROVE Inv'
  OBVIOUS
<1>0. TimerInv
  BY DEF Inv
<1>1. CASE Worker
  BY <1>1, WorkerTake, WorkerPop, WorkerDone DEF Worker
<1>2. CASE TimerTask /\ UNCHANGED workVars
  <2>1. TimerKeeps
    BY <1>0, <1>2, OuterStep, ReadStep, CmdStep, InnerStep, RecvStep, ExpiredStep, CbProcStep
       DEF TimerTask
  <2>. QED BY <1>2, <2>1, TimerFrame
<1>3. CASE TimerCallback
  BY <1>3, WorkTimerCbStep, CbGiveStep, AppCbStep DEF TimerCallback
<1>4. CASE Tick /\ UNCHANGED workVars
  BY <1>0, <1>4, TickStep, TimerFrame
<1>5. CASE \E x \in AppTimer : TimerCalls(x) /\ UNCHANGED workVars
  BY <1>5, AppCallStep
<1>6. ASSUME NEW c \in Client, Begin(c) PROVE Inv'
  BY <1>6, RunStep, RunDelayedStep, CancelStep, DelStep, CreateQueueStep DEF Begin
<1>7. ASSUME NEW c \in Client, Continue(c) PROVE Inv'
  BY <1>7, GiveStep, CancelStopStep, CancelUnlinkStep, DelGoesOn DEF Continue
<1>8. CASE UNCHANGED vars
  <2>1. UNCHANGED <<timerVars, g_timer_queue>> /\ UNCHANGED workVars
    BY <1>8 DEF vars, tVars
  <2>2. TimerKeeps
    BY <1>0, <2>1, QueueFrame DEF TimerKeeps
  <2>. QED BY <2>1, <2>2, TimerFrame
<1>. QED BY <1>1, <1>2, <1>3, <1>4, <1>5, <1>6, <1>7, <1>8 DEF Next

\* How often a list that holds each element once holds x.
LEMMA OnceCard ==
    ASSUME NEW S, NEW L \in Seq(S), IsInjective(L), NEW x
    PROVE  Cardinality({i \in DOMAIN L : L[i] = x}) = IF x \in ToSet(L) THEN 1 ELSE 0
<1>. DEFINE I == {i \in DOMAIN L : L[i] = x}
<1>1. CASE x \in ToSet(L)
  <2>1. PICK i \in DOMAIN L : L[i] = x
    BY <1>1 DEF ToSet
  <2>2. I = {i}
    BY <2>1 DEF IsInjective
  <2>. QED BY <1>1, <2>2, FS_Singleton
<1>2. CASE x \notin ToSet(L)
  <2>1. I = {}
    BY <1>2 DEF ToSet
  <2>. QED BY <1>2, <2>1, FS_EmptySet
<1>. QED BY <1>1, <1>2

(***************************************************************************)
(* The inductive invariant of the timer task and the work queue, for every *)
(* number of timers, works and clients.                                    *)
(***************************************************************************)
THEOREM WorkInvariant == Spec => []Inv
<1>1. Init => Inv
  BY WorkInit
<1>2. Inv /\ [Next]_vars => Inv'
  BY WorkNext
<1>. QED BY <1>1, <1>2, PTL DEF Spec

(***************************************************************************)
(* The state stays well formed; g_timer_queue never holds more commands    *)
(* than it has room for, and the tick the timer task works with is never   *)
(* older than the task may be late.                                        *)
(***************************************************************************)
THEOREM WorkTypeCorrect == Spec => []TypeOK
<1>1. Inv => TypeOK
  <2>. SUFFICES ASSUME Inv PROVE TypeOK
    OBVIOUS
  <2>1. TimerTypes /\ LagOK /\ WorkTypes
    BY DEF Inv, TimerInv, WInv
  <2>2. lag \in -MaxLag .. 0
    <3>1. lag \in Int /\ MaxLag \in Nat /\ -MaxLag <= lag /\ lag <= 0
      BY <2>1, WorkConsts DEF TimerTypes, LagOK
    <3>. QED BY <3>1
  <2>3. TimerTypeOK
    BY <2>1, <2>2 DEF TimerTypeOK, TimerTypes
  <2>. QED BY <2>1, <2>3 DEF TypeOK, WorkTypes
<1>. QED BY <1>1, WorkInvariant, PTL

(***************************************************************************)
(* Each linked work has its token: the two steps of work_run and of        *)
(* work_timer_cb and the two of worker_task never lose or double one, and  *)
(* krhino_workqueue_del leaves none behind for the next queue.             *)
(***************************************************************************)
THEOREM WorkTokens == Spec => []TokensExact
<1>1. Inv => TokensExact
  BY DEF Inv, WInv
<1>. QED BY <1>1, WorkInvariant, PTL

(***************************************************************************)
(* work_exit is 1 exactly while the work is linked, once, and the running  *)
(* work is not linked.                                                     *)
(***************************************************************************)
THEOREM WorkExit == Spec => []WorkExitExact
<1>1. Inv => WorkExitExact
  <2>. SUFFICES ASSUME Inv PROVE WorkExitExact
    OBVIOUS
  <2>1. WorkTypes /\ ListedOK
    BY DEF Inv, WInv
  <2>2. work_list \in Seq(Work) /\ IsInjective(work_list) /\ work_exit \in [Work -> {0, 1}]
    BY <2>1 DEF WorkTypes, ListedOK
  <2>3. ASSUME NEW w \in Work
        PROVE  Cardinality({i \in DOMAIN work_list : work_list[i] = w}) = work_exit[w]
    <3>1. Cardinality({i \in DOMAIN work_list : work_list[i] = w})
          = IF w \in ToSet(work_list) THEN 1 ELSE 0
      BY <2>2, OnceCard
    <3>2. (w \in ToSet(work_list) <=> work_exit[w] = 1) /\ work_exit[w] \in {0, 1}
      BY <2>1, <2>2 DEF ListedOK
    <3>. QED BY <3>1, <3>2
  <2>. QED BY <2>1, <2>3 DEF ListedOK, WorkExitExact
<1>. QED BY <1>1, WorkInvariant, PTL

(***************************************************************************)
(* g_timer_head holds each active timer once and no other, and the cursor  *)
(* of timer_cb_proc stands on a linked timer.                              *)
(***************************************************************************)
THEOREM TimerLists == Spec => []TimerListOK
<1>1. Inv => TimerListOK
  <2>. SUFFICES ASSUME Inv PROVE TimerListOK
    OBVIOUS
  <2>1. TimerTypes /\ LinkOK /\ CursorOK
    BY DEF Inv, TimerInv
  <2>2. g_timer_head \in Seq(Timer) /\ IsInjective(g_timer_head)
    BY <2>1 DEF TimerTypes, LinkOK
  <2>3. ASSUME NEW x \in Timer
        PROVE  Cardinality({i \in DOMAIN g_timer_head : g_timer_head[i] = x})
               = IF ktimer[x].timer_state = "active" THEN 1 ELSE 0
    <3>1. Cardinality({i \in DOMAIN g_timer_head : g_timer_head[i] = x})
          = IF x \in ToSet(g_timer_head) THEN 1 ELSE 0
      BY <2>2, OnceCard
    <3>2. x \in ToSet(g_timer_head) <=> ktimer[x].timer_state = "active"
      BY <2>1 DEF LinkOK
    <3>. QED BY <3>1, <3>2
  <2>. QED BY <2>1, <2>3 DEF LinkOK, CursorOK, TimerListOK
<1>. QED BY <1>1, WorkInvariant, PTL

(***************************************************************************)
(* The timer task is never asleep while a command is stored, waits without *)
(* limit only when no timer runs, and otherwise sleeps past the time its   *)
(* first timer is due by exactly the ticks that came between its read of   *)
(* the tick and the receive call, which are at most MaxLag by              *)
(* WorkTypeCorrect.                                                        *)
(***************************************************************************)
THEOREM TimerSleeps == Spec => []TimerSleepOK
<1>1. Inv => TimerSleepOK
  BY DEF Inv, TimerInv, LoopOK, TimerSleepOK
<1>. QED BY <1>1, WorkInvariant, PTL
=============================================================================
