------------------------------- MODULE MsgQueue ------------------------------
(***************************************************************************)
(* What a message queue of the rhino kernel promises, without bytes and    *)
(* without lists: msgs is the sequence of the messages accepted and not    *)
(* yet received, waiting the set of the tasks blocked in a receive call,   *)
(* got the outcome of the wait of each task that has not run since it was  *)
(* woken, and ev what the last call did for its caller.                    *)
(*                                                                         *)
(* A message goes to the most urgent waiting task if there is one, and to  *)
(* the end of msgs that the caller asked for otherwise; what is received   *)
(* is the message at the front, exactly as it was sent.  Each message      *)
(* accepted is received once, or dropped by a flush or the deletion of the *)
(* queue.  A queue may refuse a message at any time.                       *)
(***************************************************************************)
EXTENDS Integers, Sequences

CONSTANTS Task, Pri, Msg

VARIABLES msgs, waiting, got, ev

vars == <<msgs, waiting, got, ev>>

Outcome(ret, m) == [ret |-> ret, msg |-> m]
Nothing == Outcome("none", <<>>)

Quiet == [call |-> "none"]
Sent(m, to, wake) == [call |-> "send", msg |-> m, to |-> to, wake |-> wake]
Received(t, outcome) == [call |-> "recv", task |-> t, outcome |-> outcome]

Init ==
    /\ msgs = <<>>
    /\ waiting = {}
    /\ got = [t \in Task |-> Nothing]
    /\ ev = Quiet

MostUrgent(t) == \A u \in waiting : Pri[t] <= Pri[u]

Put(m, to) ==
    /\ waiting = {}
    /\ msgs' = IF to = "back" THEN Append(msgs, m) ELSE <<m>> \o msgs
    /\ UNCHANGED <<waiting, got>>

Hand(m) ==
    \E t \in waiting :
        /\ MostUrgent(t)
        /\ waiting' = waiting \ {t}
        /\ got' = [got EXCEPT ![t] = Outcome("success", m)]
        /\ UNCHANGED msgs

HandAll(m) ==
    /\ waiting # {}
    /\ waiting' = {}
    /\ got' = [t \in Task |-> IF t \in waiting THEN Outcome("success", m)
                              ELSE got[t]]
    /\ UNCHANGED msgs

Send(m, to) == ev' = Sent(m, to, "one") /\ (Put(m, to) \/ Hand(m))

SendAll(m, to) == ev' = Sent(m, to, "all") /\ (Put(m, to) \/ HandAll(m))

Get(t) ==
    /\ t \notin waiting /\ got[t] = Nothing
    /\ msgs # <<>>
    /\ ev' = Received(t, Outcome("success", Head(msgs)))
    /\ msgs' = Tail(msgs)
    /\ UNCHANGED <<waiting, got>>

GetNothing(t) ==
    /\ t \notin waiting /\ got[t] = Nothing
    /\ ev' = Received(t, Outcome("no_pend_wait", <<>>))
    /\ msgs = <<>>
    /\ UNCHANGED <<msgs, waiting, got>>

Wait(t) ==
    /\ t \notin waiting /\ got[t] = Nothing
    /\ ev' = Quiet
    /\ waiting' = waiting \cup {t}
    /\ msgs = <<>>
    /\ UNCHANGED <<msgs, got>>

GiveUp(t, why) ==
    /\ t \in waiting
    /\ ev' = Quiet
    /\ waiting' = waiting \ {t}
    /\ got' = [got EXCEPT ![t] = Outcome(why, <<>>)]
    /\ UNCHANGED msgs

Return(t) ==
    /\ got[t] # Nothing
    /\ ev' = Received(t, got[t])
    /\ got' = [got EXCEPT ![t] = Nothing]
    /\ UNCHANGED <<msgs, waiting>>

Flush == ev' = Quiet /\ msgs' = <<>> /\ UNCHANGED <<waiting, got>>

Delete ==
    /\ ev' = Quiet
    /\ waiting' = {}
    /\ got' = [t \in Task |-> IF t \in waiting THEN Outcome("obj_del", <<>>)
                              ELSE got[t]]
    /\ msgs' = <<>>

Next ==
    \/ \E m \in Msg, to \in {"back", "front"} : Send(m, to) \/ SendAll(m, to)
    \/ \E t \in Task : \/ Get(t) \/ GetNothing(t) \/ Wait(t) \/ Return(t)
                       \/ GiveUp(t, "timeout") \/ GiveUp(t, "abort")
    \/ Flush
    \/ Delete

Spec == Init /\ [][Next]_vars
==============================================================================
