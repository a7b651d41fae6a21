----------------------------- MODULE RhinoQueue ------------------------------
(***************************************************************************)
(* k_queue.c and k_buf_queue.c: a kernel object created as a kqueue_t      *)
(* (a ring of pointers) or as a kbuf_queue_t (a ring of messages, of fixed *)
(* or of varying length), the tasks that receive from it, and everyone who *)
(* sends to it, tasks and interrupt handlers alike.                        *)
(*                                                                         *)
(* Every call is one critical section, except that a receive call that     *)
(* waits comes back in a step of its own, pend_state_end_proc.  Which      *)
(* waiting task runs, and when, is up to the scheduler (RhinoKernel); here *)
(* a wait may end by a timeout or an abort at any time.                    *)
(***************************************************************************)
EXTENDS RingBuf, RhinoList, FiniteSets

CONSTANTS
    Task, Pri,      \* tasks that receive, and their priorities
    Msg,            \* messages sent
    FrontMsg,       \* those also sent to the front of a "dyn" ring
    MaxMsg          \* max_msg of krhino_buf_queue_create

ASSUME QueueAssumption ==
    /\ Pri \in [Task -> Nat]
    /\ Msg \subseteq Seq(Byte)
    /\ FrontMsg \subseteq Msg
    /\ MaxMsg \in Nat \ {0}

VARIABLES
    obj_type,       \* blk_obj.obj_type: "none", "queue" or "buf_queue"
    ringbuf,
    cur_num,
    blk_list,       \* tasks blocked in a receive call, by priority
    blk_state,      \* of a task whose wait has ended, "none" of another
    task_msg,       \* task->msg, with bq_msg_size
    in_recv,        \* tasks that have not returned from a receive call
    ev              \* what the last call did for its caller

waitVars == <<blk_list, blk_state, task_msg, in_recv>>
vars == <<obj_type, ringbuf, cur_num, waitVars, ev>>

ObjTypes == {"none", "queue", "buf_queue"}
BlkStates == {"none", "finish", "timeout", "abort", "obj_del"}

\* What a caller sees, as MsgQueue has it.
Outcome(ret, m) == [ret |-> ret, msg |-> m]
Quiet == [call |-> "none"]
Sent(m, to, wake) == [call |-> "send", msg |-> m, to |-> to, wake |-> wake]
Received(t, outcome) == [call |-> "recv", task |-> t, outcome |-> outcome]

\* msg_q.size, the number of pointers the ring of a kqueue_t holds.
QueueSize == RingSize \div BlkSize

Init ==
    /\ obj_type = "none"
    /\ ringbuf = ringbuf_init("fix", [p \in 0 .. RingSize - 1 |-> 0])
    /\ cur_num = 0
    /\ blk_list = <<>>
    /\ blk_state = [t \in Task |-> "none"]
    /\ task_msg = [t \in Task |-> <<>>]
    /\ in_recv = {}
    /\ ev = Quiet
------------------------------------------------------------------------------
\* The object is created only while it is not in use.
Create(obj, type) ==
    /\ obj_type = "none"
    /\ obj_type' = obj
    /\ ringbuf' = ringbuf_init(type, ringbuf.mem)
    /\ cur_num' = 0
    /\ blk_list' = <<>>
    /\ ev' = Quiet
    /\ UNCHANGED <<blk_state, task_msg, in_recv>>

krhino_queue_create == Create("queue", "fix")
krhino_buf_queue_create == Create("buf_queue", "dyn")
krhino_fix_buf_queue_create == Create("buf_queue", "fix")

\* krhino_queue_del and krhino_buf_queue_del: every waiter is told.
queue_del ==
    /\ obj_type # "none"
    /\ obj_type' = "none"
    /\ blk_list' = <<>>
    /\ blk_state' = [t \in Task |-> IF t \in ToSet(blk_list) THEN "obj_del"
                                    ELSE blk_state[t]]
    /\ ringbuf' = ringbuf_reset(ringbuf)
    /\ ev' = Quiet
    /\ UNCHANGED <<cur_num, task_msg, in_recv>>

\* krhino_queue_flush and krhino_buf_queue_flush.
queue_flush ==
    /\ obj_type # "none"
    /\ ringbuf' = ringbuf_reset(ringbuf)
    /\ cur_num' = 0
    /\ ev' = Quiet
    /\ UNCHANGED <<obj_type, waitVars>>
------------------------------------------------------------------------------
\* task_msg_recv for the first n waiters: the message is put into the control
\* block or the buffer of each, and pend_task_wakeup ends its wait.
task_msg_recv(n, m) ==
    LET tasks == {blk_list[i] : i \in 1 .. n}
    IN  /\ blk_list' = SubSeq(blk_list, n + 1, Len(blk_list))
        /\ blk_state' = [t \in Task |-> IF t \in tasks THEN "finish" ELSE blk_state[t]]
        /\ task_msg' = [t \in Task |-> IF t \in tasks THEN m ELSE task_msg[t]]
        /\ UNCHANGED <<obj_type, ringbuf, cur_num, in_recv>>

Store(m, to) ==
    /\ ringbuf' = IF to = "front" THEN ringbuf_head_push(ringbuf, m)
                  ELSE ringbuf_push(ringbuf, m)
    /\ cur_num' = cur_num + 1
    /\ UNCHANGED <<obj_type, waitVars>>

\* Mutant: the message is stored although a task waits.
msg_send_stores(m, to, wake) ==
    /\ obj_type = "queue"
    /\ Len(m) = BlkSize
    /\ cur_num < QueueSize
    /\ ev' = Sent(m, to, wake)
    /\ Store(m, to)

\* A kqueue_t takes pointers, which have the size of a block.
msg_send(m, to, wake) ==
    /\ obj_type = "queue"
    /\ Len(m) = BlkSize
    /\ cur_num < QueueSize
    /\ ev' = Sent(m, to, wake)
    /\ IF blk_list = <<>> THEN Store(m, to)
       ELSE task_msg_recv(IF wake = "all" THEN Len(blk_list) ELSE 1, m)

\* The application sends messages of the size of a block to a "fix" queue: a
\* shorter one would be copied from beyond its end.
buf_queue_send(m, to) ==
    /\ obj_type = "buf_queue"
    /\ Len(m) <= IF ringbuf.type = "fix" THEN BlkSize ELSE MaxMsg
    /\ Len(m) > 0
    /\ ringbuf.type = "fix" => Len(m) = BlkSize
    /\ to = "front" /\ ringbuf.type = "dyn" => m \in FrontMsg
    /\ ev' = Sent(m, to, "one")
    /\ \/ blk_list = <<>> /\ CanPush(ringbuf, Len(m)) /\ Store(m, to)
       \/ blk_list # <<>> /\ task_msg_recv(1, m)
------------------------------------------------------------------------------
\* krhino_queue_recv looks at cur_num, krhino_buf_queue_recv at the ring.
HasMessage == IF obj_type = "queue" THEN cur_num > 0 ELSE ~ringbuf_is_empty(ringbuf)

recv_pop(t) ==
    /\ obj_type # "none" /\ t \notin in_recv
    /\ HasMessage
    /\ LET p == ringbuf_pop(ringbuf)
       IN  /\ ringbuf' = p.ring
           /\ ev' = Received(t, Outcome("success", p.bytes))
    /\ cur_num' = cur_num - 1
    /\ UNCHANGED <<obj_type, waitVars>>

recv_no_wait(t) ==
    /\ obj_type # "none" /\ t \notin in_recv
    /\ ~HasMessage
    /\ ev' = Received(t, Outcome("no_pend_wait", <<>>))
    /\ UNCHANGED <<obj_type, ringbuf, cur_num, waitVars>>

\* Mutant: waiters queue in the order of arrival.
pend_to_blk_obj_fifo(t) == Append(blk_list, t)

\* Behind the waiters of the same priority.
pend_to_blk_obj(t) == pend_list_add(blk_list, t, Pri)

recv_pend(t) ==
    /\ obj_type # "none" /\ t \notin in_recv
    /\ ~HasMessage
    /\ blk_list' = pend_to_blk_obj(t)
    /\ in_recv' = in_recv \cup {t}
    /\ ev' = Quiet
    /\ UNCHANGED <<obj_type, ringbuf, cur_num, blk_state, task_msg>>

\* tick_list_update and krhino_task_wait_abort end a wait.
wait_end(t, why) ==
    /\ t \in ToSet(blk_list)
    /\ blk_list' = klist_rm(blk_list, t)
    /\ blk_state' = [blk_state EXCEPT ![t] = why]
    /\ ev' = Quiet
    /\ UNCHANGED <<obj_type, ringbuf, cur_num, task_msg, in_recv>>

\* The outcome the receiver finds once its wait has ended.
Ended(t) == IF blk_state[t] = "finish" THEN Outcome("success", task_msg[t])
            ELSE Outcome(blk_state[t], <<>>)

\* The receive call returns; blk_state and task_msg are dead from here on.
pend_state_end_proc(t) ==
    /\ t \in in_recv /\ t \notin ToSet(blk_list)
    /\ ev' = Received(t, Ended(t))
    /\ in_recv' = in_recv \ {t}
    /\ blk_state' = [blk_state EXCEPT ![t] = "none"]
    /\ task_msg' = [task_msg EXCEPT ![t] = <<>>]
    /\ UNCHANGED <<obj_type, ringbuf, cur_num, blk_list>>
------------------------------------------------------------------------------
Next ==
    \/ krhino_queue_create
    \/ krhino_buf_queue_create
    \/ krhino_fix_buf_queue_create
    \/ queue_del
    \/ queue_flush
    \/ \E m \in Msg, to \in {"back", "front"} :
          \/ \E wake \in {"one", "all"} : msg_send(m, to, wake)
          \/ buf_queue_send(m, to)
    \/ \E t \in Task :
          \/ recv_pop(t)
          \/ recv_no_wait(t)
          \/ recv_pend(t)
          \/ wait_end(t, "timeout")
          \/ wait_end(t, "abort")
          \/ pend_state_end_proc(t)

Spec == Init /\ [][Next]_vars
------------------------------------------------------------------------------
\* The ring stays within its memory and its counters, and a task is told one of
\* the outcomes of pend_state_end_proc.
TypeOK ==
    /\ obj_type \in ObjTypes
    /\ ringbuf \in Ring
    /\ cur_num \in 0 .. RingSize
    /\ blk_list \in Seq(Task)
    /\ blk_state \in [Task -> BlkStates]
    /\ task_msg \in [Task -> Msg \cup {<<>>}]
    /\ in_recv \subseteq Task

(***************************************************************************)
(* No receiver waits while a message is stored: k_buf_queue.c and          *)
(* k_queue.c hand a message over only when they store it, and store it     *)
(* only when nobody waits, so a message that is missed here stays.         *)
(***************************************************************************)
NoWaiterMissesMessage == blk_list # <<>> => cur_num = 0 /\ ringbuf_is_empty(ringbuf)

(***************************************************************************)
(* The counter, the free size and the bytes of the ring agree: cur_num     *)
(* messages can be read from head on, they are messages that were sent,    *)
(* they take all the bytes in use, and they end at tail.  cur_num, head,   *)
(* tail and freesize are changed by different statements of k_ringbuf.c    *)
(* and k_queue.c; a pop trusts the length it reads at head.                *)
(***************************************************************************)
RingHoldsSentMessages ==
    obj_type # "none" =>
        LET ms == Messages(ringbuf)
        IN  /\ ToSet(ms) \subseteq Msg
            /\ Len(ms) = cur_num
            /\ RoomOf(ringbuf.type, ms) = Used(ringbuf)
            /\ (ringbuf.head + Used(ringbuf)) % RingSize = ringbuf.tail % RingSize

(***************************************************************************)
(* The queue implements MsgQueue: what MsgQueue calls the messages is what *)
(* the bytes of the ring mean, and the outcome of a wait counts from the   *)
(* moment it ends, although the receiver has not run since.                *)
(***************************************************************************)
Q == INSTANCE MsgQueue WITH
        msgs <- IF obj_type = "none" THEN <<>> ELSE Messages(ringbuf),
        waiting <- ToSet(blk_list),
        got <- [t \in Task |-> IF t \in in_recv \ ToSet(blk_list) THEN Ended(t)
                               ELSE Outcome("none", <<>>)]

(***************************************************************************)
(* Every call on the queue is a step of MsgQueue or changes nothing there: *)
(* messages come out in order, unchanged, once, and to the most urgent     *)
(* waiter.                                                                 *)
(***************************************************************************)
ImplementsMsgQueue == Q!Spec
==============================================================================
