-------------------------- MODULE RhinoKernelProofs --------------------------
(***************************************************************************)
(* The kernel keeps its types and its ready queue for any number of tasks, *)
(* mutexes, semaphores and priorities: IInv of RhinoKernel is inductive.   *)
(***************************************************************************)
EXTENDS RhinoKernel, RhinoListProofs

-----------------------------------------------------------------------------
(***************************************************************************)
(* The ready queue operators of k_sched.c keep the queue in step with the  *)
(* states and priorities of the tasks.                                     *)
(***************************************************************************)
TaskStates == [AllTask -> TaskStat]
TaskPris == [AllTask -> Prio]

\* Assigning one list leaves the other fields of the queue alone.
LEMMA QueueExcept ==
    ASSUME NEW rq \in ReadyQueue, NEW p \in Prio, NEW L
    PROVE  [rq EXCEPT !.cur_list_item[p] = L] =
             [cur_list_item |-> [rq.cur_list_item EXCEPT ![p] = L],
              task_bit_map |-> rq.task_bit_map,
              highest_pri |-> rq.highest_pri]
<1>. DEFINE c == rq.cur_list_item
            bm == rq.task_bit_map
            h == rq.highest_pri
<1>1. rq = [cur_list_item |-> c, task_bit_map |-> bm, highest_pri |-> h]
      /\ c \in [Prio -> Seq(AllTask)]
  BY DEF ReadyQueue
<1>. HIDE DEF c, bm, h
<1>2. [rq EXCEPT !.cur_list_item[p] = L] =
        [cur_list_item |-> [c EXCEPT ![p] = L], task_bit_map |-> bm, highest_pri |-> h]
  <2>. DEFINE d == [rq.cur_list_item EXCEPT ![p] = L]
  <2>1. [rq EXCEPT !.cur_list_item[p] = L] = [rq EXCEPT !.cur_list_item = d]
    BY Zenon
  <2>2. d = [c EXCEPT ![p] = L]
    BY <1>1
  <2>. HIDE DEF d
  <2>3. [rq EXCEPT !.cur_list_item = d] = [cur_list_item |-> d, task_bit_map |-> bm, highest_pri |-> h]
    BY <1>1
  <2>. QED BY <2>1, <2>2, <2>3
<1>. QED BY <1>2 DEF c, bm, h

\* ready_list_add_tail and ready_list_add_head: t becomes ready at p.
LEMMA ReadyAdd ==
    ASSUME NEW rq \in ReadyQueue, NEW st \in TaskStates, NEW pr \in TaskPris,
           ReadyQueueMatches(rq, st, pr),
           NEW t \in AllTask, st[t] # "K_RDY",
           NEW p \in Prio, pr[t] = p,
           NEW q, q \in {ready_list_add_tail(rq, t, p), ready_list_add_head(rq, t, p)}
    PROVE  /\ q \in ReadyQueue
           /\ ReadyQueueMatches(q, [st EXCEPT ![t] = "K_RDY"], pr)
<1>. DEFINE c == rq.cur_list_item
            bm == rq.task_bit_map
            h == rq.highest_pri
            st2 == [st EXCEPT ![t] = "K_RDY"]
<1>1. c \in [Prio -> Seq(AllTask)] /\ bm \in SUBSET Prio /\ h \in Prio
      /\ rq = [cur_list_item |-> c, task_bit_map |-> bm, highest_pri |-> h]
  BY DEF ReadyQueue
<1>2. \A o \in Prio : /\ \A u \in AllTask : u \in ToSet(c[o]) <=> st[u] = "K_RDY" /\ pr[u] = o
                      /\ ToSet(c[o]) \subseteq AllTask
                      /\ IsInjective(c[o])
                      /\ o \in bm <=> c[o] # <<>>
  BY DEF ReadyQueueMatches
<1>3. h \in bm /\ \A o \in bm : h <= o
  BY DEF ReadyQueueMatches
<1>4. c[p] \in Seq(AllTask) /\ t \notin ToSet(c[p]) /\ IsInjective(c[p])
  BY <1>1, <1>2
<1>. HIDE DEF c, bm, h
<1>5. \E L : /\ L \in Seq(AllTask) /\ IsInjective(L) /\ L # <<>>
             /\ ToSet(L) = ToSet(c[p]) \cup {t}
             /\ q = [cur_list_item |-> [c EXCEPT ![p] = L],
                     task_bit_map |-> bm \cup {p},
                     highest_pri |-> IF p < h THEN p ELSE h]
  <2>1. CASE c[p] = <<>>
    <3>1. q = [cur_list_item |-> [c EXCEPT ![p] = <<t>>],
               task_bit_map |-> bm \cup {p},
               highest_pri |-> IF p < h THEN p ELSE h]
      BY <2>1 DEF ready_list_add_tail, ready_list_add_head, ready_list_init, c, bm, h
    <3>2. <<t>> \in Seq(AllTask) /\ IsInjective(<<t>>) /\ <<t>> # <<>>
      BY DEF IsInjective
    <3>3. ToSet(c[p]) = {} /\ ToSet(<<t>>) = {t}
      BY <2>1 DEF ToSet
    <3>. QED BY <3>1, <3>2, <3>3
  <2>2. CASE c[p] # <<>>
    <3>0. p \in bm /\ h <= p
      BY <1>2, <1>3, <2>2
    <3>1. bm \cup {p} = bm /\ (IF p < h THEN p ELSE h) = h
      <4>1. p \in Int /\ h \in Int
        BY <1>1, PriAssumption DEF Prio
      <4>. QED BY <3>0, <4>1
    <3>2. /\ ready_list_add_tail(rq, t, p) =
               [cur_list_item |-> [c EXCEPT ![p] = Append(c[p], t)],
                task_bit_map |-> bm, highest_pri |-> h]
          /\ ready_list_add_head(rq, t, p) =
               [cur_list_item |-> [c EXCEPT ![p] = <<t>> \o c[p]],
                task_bit_map |-> bm, highest_pri |-> h]
      <4>1. rq.cur_list_item[p] # <<>>
        BY <2>2 DEF c
      <4>2. /\ ready_list_add_tail(rq, t, p) = [rq EXCEPT !.cur_list_item[p] = Append(@, t)]
            /\ ready_list_add_head(rq, t, p) = [rq EXCEPT !.cur_list_item[p] = <<t>> \o @]
        BY <4>1 DEF ready_list_add_tail, ready_list_add_head
      <4>. QED BY <1>1, <4>2
    <3>. DEFINE s == c[p]
                a == Append(s, t)
                b == <<t>> \o s
    <3>3. s \in Seq(AllTask)
      BY <1>4
    <3>4. /\ a \in Seq(AllTask) /\ IsInjective(a) /\ a # <<>> /\ ToSet(a) = ToSet(s) \cup {t}
          /\ b \in Seq(AllTask) /\ IsInjective(b) /\ b # <<>> /\ ToSet(b) = ToSet(s) \cup {t}
      <4>. HIDE DEF s
      <4>1. /\ Append(s, t) \in Seq(AllTask)
            /\ ToSet(Append(s, t)) = ToSet(s) \cup {t}
            /\ IsInjective(s) /\ t \notin ToSet(s) => IsInjective(Append(s, t))
            /\ <<t>> \o s \in Seq(AllTask)
            /\ ToSet(<<t>> \o s) = ToSet(s) \cup {t}
            /\ IsInjective(s) /\ t \notin ToSet(s) => IsInjective(<<t>> \o s)
            /\ Append(s, t) # <<>> /\ <<t>> \o s # <<>>
        BY <3>3, EndsProps
      <4>2. IsInjective(s) /\ t \notin ToSet(s)
        BY <1>4 DEF s
      <4>. QED BY <4>1, <4>2
    <3>5. CASE q = ready_list_add_tail(rq, t, p)
      BY <3>1, <3>2, <3>4, <3>5
    <3>6. CASE q = ready_list_add_head(rq, t, p)
      BY <3>1, <3>2, <3>4, <3>6
    <3>. QED BY <3>5, <3>6
  <2>. QED BY <2>1, <2>2
<1>6. PICK L : /\ L \in Seq(AllTask) /\ IsInjective(L) /\ L # <<>>
               /\ ToSet(L) = ToSet(c[p]) \cup {t}
               /\ q = [cur_list_item |-> [c EXCEPT ![p] = L],
                       task_bit_map |-> bm \cup {p},
                       highest_pri |-> IF p < h THEN p ELSE h]
  BY <1>5
<1>. DEFINE c2 == [c EXCEPT ![p] = L]
<1>7. q \in ReadyQueue
  BY <1>1, <1>6 DEF ReadyQueue
<1>8. ASSUME NEW o \in Prio
      PROVE  /\ ToSet(c2[o]) = {u \in AllTask : st2[u] = "K_RDY" /\ pr[u] = o}
             /\ IsInjective(c2[o])
             /\ o \in bm \cup {p} <=> c2[o] # <<>>
  <2>1. CASE o = p
    <3>1. c2[o] = L
      BY <1>1, <2>1
    <3>2. \A u \in AllTask : u \in ToSet(L) <=> st2[u] = "K_RDY" /\ pr[u] = p
      BY <1>2, <1>6 DEF TaskStates
    <3>3. ToSet(L) \subseteq AllTask
      BY <1>2, <1>6
    <3>. QED BY <1>6, <2>1, <3>1, <3>2, <3>3
  <2>2. CASE o # p
    <3>1. c2[o] = c[o]
      BY <1>1, <2>2
    <3>2. \A u \in AllTask : u \in ToSet(c[o]) <=> st2[u] = "K_RDY" /\ pr[u] = o
      BY <1>2, <2>2 DEF TaskStates
    <3>. QED BY <1>2, <2>2, <3>1, <3>2
  <2>. QED BY <2>1, <2>2
<1>9. LET g == IF p < h THEN p ELSE h
      IN g \in bm \cup {p} /\ \A o \in bm \cup {p} : g <= o
  <2>1. p \in Int /\ h \in Int /\ \A o \in bm : o \in Int
    BY <1>1, PriAssumption DEF Prio
  <2>. QED BY <1>3, <2>1
<1>. QED BY <1>6, <1>7, <1>8, <1>9 DEF ReadyQueueMatches


\* Only the ready tasks and their priorities matter to the queue.
LEMMA ReadyFrame ==
    ASSUME NEW rq, NEW st, NEW pr, NEW st2, NEW pr2,
           ReadyQueueMatches(rq, st, pr),
           \A u \in AllTask : /\ st2[u] = "K_RDY" <=> st[u] = "K_RDY"
                              /\ st[u] = "K_RDY" => pr2[u] = pr[u]
    PROVE  ReadyQueueMatches(rq, st2, pr2)
<1>1. \A p \in Prio : {t \in AllTask : st[t] = "K_RDY" /\ pr[t] = p} =
                      {t \in AllTask : st2[t] = "K_RDY" /\ pr2[t] = p}
  OBVIOUS
<1>. QED BY <1>1 DEF ReadyQueueMatches

\* A ready list that is rotated stays the same set: krhino_task_yield and
\* time_slice_update.
LEMMA ReadyRotate ==
    ASSUME NEW rq \in ReadyQueue, NEW st, NEW pr,
           ReadyQueueMatches(rq, st, pr),
           NEW p \in Prio, rq.cur_list_item[p] # <<>>
    PROVE  /\ ready_list_head_to_tail(rq, p) \in ReadyQueue
           /\ ReadyQueueMatches(ready_list_head_to_tail(rq, p), st, pr)
<1>. DEFINE c == rq.cur_list_item
            L == Append(Tail(c[p]), Head(c[p]))
            q == [cur_list_item |-> [c EXCEPT ![p] = L],
                  task_bit_map |-> rq.task_bit_map,
                  highest_pri |-> rq.highest_pri]
<1>1. c \in [Prio -> Seq(AllTask)] /\ c[p] \in Seq(AllTask) /\ c[p] # <<>>
  BY DEF ReadyQueue
<1>2. ready_list_head_to_tail(rq, p) = q
  <2>1. [rq EXCEPT !.cur_list_item[p] = L] = q
    <3>. HIDE DEF L
    <3>. QED BY QueueExcept
  <2>. QED BY <2>1 DEF ready_list_head_to_tail
<1>3. L \in Seq(AllTask) /\ ToSet(L) = ToSet(c[p]) /\ (IsInjective(c[p]) => IsInjective(L)) /\ L # <<>>
  <2>. DEFINE s == c[p]
  <2>1. s \in Seq(AllTask) /\ s # <<>>
    BY <1>1
  <2>. HIDE DEF s
  <2>2. /\ Append(Tail(s), Head(s)) \in Seq(AllTask)
        /\ ToSet(Append(Tail(s), Head(s))) = ToSet(s)
        /\ IsInjective(s) => IsInjective(Append(Tail(s), Head(s)))
        /\ Append(Tail(s), Head(s)) # <<>>
    BY <2>1, RotateProps
  <2>. QED BY <2>2 DEF s
<1>. HIDE DEF L
<1>4. q \in ReadyQueue
  BY <1>1, <1>3 DEF ReadyQueue
<1>5. \A o \in Prio : /\ ToSet(q.cur_list_item[o]) = ToSet(c[o])
                      /\ IsInjective(c[o]) => IsInjective(q.cur_list_item[o])
                      /\ q.cur_list_item[o] # <<>> <=> c[o] # <<>>
  BY <1>1, <1>3
<1>6. q.task_bit_map = rq.task_bit_map /\ q.highest_pri = rq.highest_pri
  OBVIOUS
<1>. HIDE DEF q
<1>7. ReadyQueueMatches(q, st, pr)
  BY <1>5, <1>6 DEF ReadyQueueMatches
<1>. QED BY <1>2, <1>4, <1>7

\* ready_list_rm: a ready task t other than the idle task stops being ready.
LEMMA ReadyRm ==
    ASSUME NEW rq \in ReadyQueue, NEW st \in TaskStates, prio \in TaskPris,
           ReadyQueueMatches(rq, st, prio),
           NEW t \in Task, st[t] = "K_RDY", st[IdleTask] = "K_RDY",
           NEW x \in TaskStat, x # "K_RDY"
    PROVE  /\ ready_list_rm(rq, t) \in ReadyQueue
           /\ ReadyQueueMatches(ready_list_rm(rq, t), [st EXCEPT ![t] = x], prio)
<1>. DEFINE c == rq.cur_list_item
            bm == rq.task_bit_map
            h == rq.highest_pri
            p == prio[t]
            st2 == [st EXCEPT ![t] = x]
            L == klist_rm(c[p], t)
<1>1. c \in [Prio -> Seq(AllTask)] /\ bm \in SUBSET Prio /\ h \in Prio
      /\ rq = [cur_list_item |-> c, task_bit_map |-> bm, highest_pri |-> h]
  BY DEF ReadyQueue
<1>2. \A o \in Prio : /\ \A u \in AllTask : u \in ToSet(c[o]) <=> st[u] = "K_RDY" /\ prio[u] = o
                      /\ ToSet(c[o]) \subseteq AllTask
                      /\ IsInjective(c[o])
                      /\ o \in bm <=> c[o] # <<>>
  BY DEF ReadyQueueMatches
<1>3. h \in bm /\ \A o \in bm : h <= o
  BY DEF ReadyQueueMatches
<1>4. t \in AllTask /\ IdleTask \in AllTask /\ t # IdleTask /\ p \in Prio
  BY TasksAssumption DEF AllTask, TaskPris
<1>5. c[p] \in Seq(AllTask) /\ t \in ToSet(c[p]) /\ IsInjective(c[p]) /\ p \in bm
  <2>1. c[p] \in Seq(AllTask) /\ t \in ToSet(c[p]) /\ IsInjective(c[p])
    BY <1>1, <1>2, <1>4
  <2>. QED BY <1>2, <1>4, <2>1, ToSetProps
<1>6. ready_list_rm(rq, t) =
        IF Len(c[p]) > 1
        THEN [cur_list_item |-> [c EXCEPT ![p] = L],
              task_bit_map |-> bm, highest_pri |-> h]
        ELSE [cur_list_item |-> [c EXCEPT ![p] = <<>>],
              task_bit_map |-> bm \ {p},
              highest_pri |-> IF p # h THEN h ELSE Min(bm \ {p})]
  <2>1. [rq EXCEPT !.cur_list_item[p] = klist_rm(@, t)] =
          [cur_list_item |-> [c EXCEPT ![p] = L], task_bit_map |-> bm, highest_pri |-> h]
    <3>. HIDE DEF p
    <3>. QED BY <1>4, QueueExcept DEF c, bm, h, L
  <2>. QED BY <2>1 DEF ready_list_rm, find_first_bit
<1>7. L \in Seq(AllTask) /\ ToSet(L) = ToSet(c[p]) \ {t} /\ IsInjective(L)
  <2>. DEFINE s == c[p]
  <2>1. s \in Seq(AllTask) /\ IsInjective(s)
    BY <1>5
  <2>. HIDE DEF s
  <2>2. klist_rm(s, t) \in Seq(AllTask) /\ ToSet(klist_rm(s, t)) = ToSet(s) \ {t}
        /\ IsInjective(klist_rm(s, t))
    BY <2>1, KlistRm
  <2>. QED BY <2>2 DEF s
<1>8. Len(c[p]) > 1 <=> ToSet(c[p]) \ {t} # {}
  <2>. DEFINE s == c[p]
  <2>1. s \in Seq(AllTask) /\ IsInjective(s) /\ t \in ToSet(s)
    BY <1>5
  <2>. HIDE DEF s
  <2>2. \A y : y \in ToSet(s) <=> \E i \in 1 .. Len(s) : s[i] = y
    BY <2>1, ToSetProps
  <2>3. DOMAIN s = 1 .. Len(s) /\ Len(s) \in Nat
    BY <2>1
  <2>4. \A i, j \in 1 .. Len(s) : s[i] = s[j] => i = j
    BY <2>1, <2>3 DEF IsInjective
  <2>5. ASSUME Len(s) > 1 PROVE ToSet(s) \ {t} # {}
    <3>1. 1 \in 1 .. Len(s) /\ 2 \in 1 .. Len(s)
      BY <2>3, <2>5
    <3>2. s[1] \in ToSet(s) /\ s[2] \in ToSet(s) /\ s[1] # s[2]
      BY <2>2, <2>4, <3>1
    <3>. QED BY <3>2
  <2>6. ASSUME ToSet(s) \ {t} # {} PROVE Len(s) > 1
    <3>1. PICK i \in 1 .. Len(s) : s[i] = t
      BY <2>1, <2>2
    <3>2. PICK j \in 1 .. Len(s) : s[j] # t
      BY <2>2, <2>6
    <3>. QED BY <2>3, <3>1, <3>2
  <2>. QED BY <2>5, <2>6 DEF s
<1>. HIDE DEF c, bm, h, L
<1>9. \A o \in Prio : o # p => ToSet(c[o]) = {u \in AllTask : st2[u] = "K_RDY" /\ prio[u] = o}
  BY <1>2, <1>4 DEF TaskStates
<1>10. ToSet(c[p]) \ {t} = {u \in AllTask : st2[u] = "K_RDY" /\ prio[u] = p}
  BY <1>2, <1>4 DEF TaskStates
<1>11. CASE Len(c[p]) > 1
  <2>. DEFINE q == [cur_list_item |-> [c EXCEPT ![p] = L], task_bit_map |-> bm, highest_pri |-> h]
  <2>1. ready_list_rm(rq, t) = q
    BY <1>6, <1>11
  <2>2. q \in ReadyQueue
    BY <1>1, <1>7 DEF ReadyQueue
  <2>3. L # <<>>
    <3>1. ToSet(L) # {}
      BY <1>7, <1>8, <1>11
    <3>. QED BY <1>7, <3>1, ToSetProps
  <2>4. ASSUME NEW o \in Prio
        PROVE  /\ ToSet(q.cur_list_item[o]) = {u \in AllTask : st2[u] = "K_RDY" /\ prio[u] = o}
               /\ IsInjective(q.cur_list_item[o])
               /\ o \in q.task_bit_map <=> q.cur_list_item[o] # <<>>
    <3>. HIDE DEF p, st2
    <3>1. CASE o = p
      <4>1. q.cur_list_item[o] = L
        BY <1>1, <1>4, <3>1
      <4>. QED BY <1>5, <1>7, <1>10, <2>3, <3>1, <4>1
    <3>2. CASE o # p
      <4>1. q.cur_list_item[o] = c[o]
        BY <1>1, <1>4, <3>2
      <4>. QED BY <1>2, <1>9, <3>2, <4>1
    <3>. QED BY <3>1, <3>2
  <2>5. q.highest_pri = h /\ q.task_bit_map = bm
    OBVIOUS
  <2>. HIDE DEF q
  <2>. QED BY <1>3, <2>1, <2>2, <2>4, <2>5 DEF ReadyQueueMatches
<1>12. CASE ~(Len(c[p]) > 1)
  <2>. DEFINE g == IF p # h THEN h ELSE Min(bm \ {p})
              q == [cur_list_item |-> [c EXCEPT ![p] = <<>>], task_bit_map |-> bm \ {p}, highest_pri |-> g]
  <2>1. ready_list_rm(rq, t) = q
    BY <1>6, <1>12
  <2>2. prio[IdleTask] # p /\ prio[IdleTask] \in bm
    <3>1. prio[IdleTask] \in Prio /\ IdleTask \in ToSet(c[prio[IdleTask]])
      BY <1>2, <1>4 DEF TaskPris
    <3>2. prio[IdleTask] # p
      BY <1>4, <1>8, <1>12, <3>1
    <3>3. c[prio[IdleTask]] # <<>>
      BY <1>1, <3>1, ToSetProps
    <3>. QED BY <1>2, <3>1, <3>2, <3>3
  <2>3. g \in bm \ {p} /\ \A o \in bm \ {p} : g <= o
    <3>1. CASE p # h
      BY <1>3, <3>1
    <3>2. CASE p = h
      <4>. DEFINE S == bm \ {p}
      <4>1. S \in SUBSET Nat /\ S # {}
        BY <1>1, <2>2, PriAssumption DEF Prio
      <4>2. g = Min(S)
        BY <3>2
      <4>. HIDE DEF S, g
      <4>3. g \in S /\ \A o \in S : g <= o
        BY <4>1, <4>2, NatMin
      <4>. QED BY <4>3 DEF S
    <3>. QED BY <3>1, <3>2
  <2>. HIDE DEF g
  <2>4. q \in ReadyQueue
    <3>1. <<>> \in Seq(AllTask)
      OBVIOUS
    <3>. QED BY <1>1, <2>3, <3>1 DEF ReadyQueue
  <2>5. ASSUME NEW o \in Prio
        PROVE  /\ ToSet(q.cur_list_item[o]) = {u \in AllTask : st2[u] = "K_RDY" /\ prio[u] = o}
               /\ IsInjective(q.cur_list_item[o])
               /\ o \in q.task_bit_map <=> q.cur_list_item[o] # <<>>
    <3>. HIDE DEF p, st2
    <3>1. CASE o = p
      <4>1. q.cur_list_item[o] = <<>>
        BY <1>1, <1>4, <3>1
      <4>2. ToSet(<<>>) = {} /\ IsInjective(<<>>)
        BY DEF ToSet, IsInjective
      <4>. QED BY <1>8, <1>10, <1>12, <3>1, <4>1, <4>2
    <3>2. CASE o # p
      <4>1. q.cur_list_item[o] = c[o]
        BY <1>1, <1>4, <3>2
      <4>. QED BY <1>2, <1>9, <3>2, <4>1
    <3>. QED BY <3>1, <3>2
  <2>6. q.highest_pri = g /\ q.task_bit_map = bm \ {p}
    OBVIOUS
  <2>. HIDE DEF q
  <2>. QED BY <2>1, <2>3, <2>4, <2>5, <2>6 DEF ReadyQueueMatches
<1>. QED BY <1>11, <1>12

-----------------------------------------------------------------------------
USE DEF taskVars, priVars, objVars, mutexVars, tickVars, schedVars, ctlVars

\* klist_rm keeps a list a list.
LEMMA KlistRmType ==
    ASSUME NEW S, NEW s \in Seq(S), NEW t
    PROVE  klist_rm(s, t) \in Seq(S)
<1>1. CASE \E i \in 1 .. Len(s) : s[i] = t
  <2>. DEFINE i == CHOOSE j \in 1 .. Len(s) : s[j] = t
  <2>1. i \in 1 .. Len(s)
    BY <1>1
  <2>. HIDE DEF i
  <2>2. RemoveAt(s, i) \in Seq(S)
    BY <2>1, RemoveAtProps
  <2>. QED BY <1>1, <2>2 DEF klist_rm, i
<1>2. CASE ~ \E i \in 1 .. Len(s) : s[i] = t
  BY <1>2 DEF klist_rm
<1>. QED BY <1>1, <1>2

\* The argument of task_pri_change.
Change == [task : Task \cup {NULL}, pri : Prio]

\* What the assumptions on the constants give the provers.
LEMMA Consts ==
    /\ Task \subseteq AllTask /\ IdleTask \in AllTask /\ IdleTask \notin Task
    /\ MainTask \in Task /\ NULL \notin AllTask /\ NULL \notin Obj /\ NULL # "sleep"
    /\ \A t \in AllTask : t # IdleTask => t \in Task
    /\ Mutex \subseteq Obj /\ Sem \subseteq Obj /\ Mutex \cap Sem = {}
    /\ \A o \in Obj : o \notin Sem => o \in Mutex
    /\ NoChg \in Change
    /\ NoOp \in [fn : Fn, task : AllTask \cup {NULL}, obj : Obj \cup {NULL}, ticks : Tick]
    /\ 0 \in Prio /\ 0 \in Tick
    /\ Timeouts \subseteq Tick
    /\ BasePri \in [Task -> Prio] /\ PriChoices \subseteq Prio
<1>1. 0 \in Prio /\ 0 \in Tick /\ Timeouts \subseteq Tick /\ PriChoices \subseteq Prio
  BY PriAssumption, BoundsAssumption DEF Prio, Tick
<1>2. BasePri \in [Task -> Prio]
  BY PriAssumption DEF Prio
<1>. QED BY <1>1, <1>2, TasksAssumption DEF AllTask, Obj, NoChg, NoOp, Change, Fn

\* The priority a mutex owner should have exists.
LEMMA HighestPriType ==
    ASSUME TypeOK, NEW t \in AllTask, NEW base \in Prio, NEW rel,
           NEW bl \in [Obj -> Seq(AllTask)], NEW pr \in [AllTask -> Prio]
    PROVE  HighestPri(t, base, rel, bl, pr) \in Prio
<1>. DEFINE held == {m \in ToSet(mutex_list[t]) \ {rel} : bl[m] # <<>>}
            S == {base} \cup {pr[Head(bl[m])] : m \in held}
<1>1. mutex_list[t] \in Seq(Mutex)
  BY DEF TypeOK
<1>2. ToSet(mutex_list[t]) \subseteq Mutex
  BY <1>1, ToSetProps
<1>3. \A m \in held : pr[Head(bl[m])] \in Prio
  <2>. TAKE m \in held
  <2>1. bl[m] \in Seq(AllTask) /\ bl[m] # <<>>
    BY <1>2, Consts
  <2>. QED BY <2>1
<1>4. S \in SUBSET Prio /\ S # {}
  BY <1>3
<1>5. Min(S) \in S
  <2>1. Prio \subseteq Nat
    BY PriAssumption DEF Prio
  <2>. HIDE DEF S
  <2>. QED BY <1>4, <2>1, NatMin
<1>6. HighestPri(t, base, rel, bl, pr) = Min(S)
  BY DEF HighestPri
<1>. HIDE DEF S
<1>. QED BY <1>4, <1>5, <1>6

\* mutex_release asks for a change of its task.
LEMMA ReleaseType ==
    ASSUME TypeOK, NEW t \in Task, NEW rel, NEW bl \in [Obj -> Seq(AllTask)]
    PROVE  mutex_release(t, rel, bl) \in Change
<1>1. mutex_pri_look(t, rel, bl, prio) \in Prio
  <2>1. t \in AllTask /\ b_prio[t] \in Prio /\ prio \in [AllTask -> Prio]
    BY Consts DEF TypeOK
  <2>. QED BY <2>1, HighestPriType DEF mutex_pri_look
<1>. QED BY <1>1, Consts DEF mutex_release, Change

\* When a waiter leaves, mutex_task_pri_reset asks for a change of an owner.
LEMMA ResetType ==
    ASSUME IInv, NEW t \in AllTask, task_state[t] \in Pending,
           NEW bl \in [Obj -> Seq(AllTask)]
    PROVE  mutex_task_pri_reset(t, bl) \in Change
<1>1. obj_type[blk_obj[t]] = "RHINO_MUTEX_OBJ_TYPE" => mutex_task[blk_obj[t]] \in Task
  BY DEF IInv, WaitersOwned
<1>2. CASE obj_type[blk_obj[t]] = "RHINO_MUTEX_OBJ_TYPE"
  <2>1. mutex_release(mutex_task[blk_obj[t]], NULL, bl) \in Change
    BY <1>1, <1>2, ReleaseType DEF IInv
  <2>. QED BY <2>1, Consts DEF mutex_task_pri_reset
<1>3. CASE obj_type[blk_obj[t]] # "RHINO_MUTEX_OBJ_TYPE"
  BY <1>3, Consts DEF mutex_task_pri_reset
<1>. QED BY <1>2, <1>3

\* The loop of task_pri_change goes on with an owner or ends.
LEMMA NextOwnerType ==
    ASSUME IInv, NEW t \in AllTask, task_state[t] \in Pending,
           NEW bl \in [Obj -> Seq(AllTask)], NEW pr \in [AllTask -> Prio]
    PROVE  next_owner(t, blk_obj[t], bl, pr) \in Change
<1>. DEFINE owner == mutex_task[blk_obj[t]]
<1>1. CASE obj_type[blk_obj[t]] = "RHINO_MUTEX_OBJ_TYPE"
  <2>1. owner \in Task
    BY <1>1 DEF IInv, WaitersOwned
  <2>2. mutex_pri_look(owner, NULL, bl, pr) \in Prio
    <3>1. owner \in AllTask /\ b_prio[owner] \in Prio
      BY <2>1, Consts DEF IInv, TypeOK
    <3>. HIDE DEF owner
    <3>. QED BY <3>1, HighestPriType DEF mutex_pri_look, IInv
  <2>. QED BY <2>1, <2>2, Consts DEF next_owner, Change
<1>2. CASE obj_type[blk_obj[t]] # "RHINO_MUTEX_OBJ_TYPE"
  BY <1>2, Consts DEF next_owner
<1>. QED BY <1>1, <1>2

\* The parts of IInv that only depend on the tasks, the lists and the owners.
LEMMA Unchanged ==
    ASSUME IInv, UNCHANGED <<task_state, prio, g_ready_queue, blk_list, blk_obj,
                             call, mutex_task, obj_type>>
    PROVE  ReadyQueueOK' /\ IdleReady' /\ WaitersListed' /\ WaitersOwned'
BY DEF IInv, ReadyQueueOK, IdleReady, WaitersListed, WaitersOwned

\* The first waiter of an object.
LEMMA FirstWaiter ==
    ASSUME IInv, NEW o \in Obj, blk_list[o] # <<>>
    PROVE  /\ Head(blk_list[o]) \in Task
           /\ task_state[Head(blk_list[o])] \in Pending
           /\ blk_obj[Head(blk_list[o])] = o
<1>1. blk_list[o] \in Seq(AllTask)
  BY DEF IInv, TypeOK
<1>2. Head(blk_list[o]) \in ToSet(blk_list[o]) /\ Head(blk_list[o]) \in AllTask
  BY <1>1, ToSetProps
<1>3. task_state[Head(blk_list[o])] \in Pending /\ blk_obj[Head(blk_list[o])] = o
  BY <1>2 DEF IInv, WaitersListed
<1>4. Head(blk_list[o]) # IdleTask
  BY <1>3 DEF IInv, IdleReady, Pending
<1>. QED BY <1>2, <1>3, <1>4, Consts

\* The task the scheduler prefers is ready.
LEMMA PreferredReady ==
    ASSUME IInv
    PROVE  /\ preferred_cpu_ready_task_get(g_ready_queue) \in AllTask
           /\ task_state[preferred_cpu_ready_task_get(g_ready_queue)] = "K_RDY"
<1>. DEFINE p == g_ready_queue.highest_pri
            s == g_ready_queue.cur_list_item[p]
<1>1. p \in Prio /\ s \in Seq(AllTask)
  BY DEF IInv, TypeOK, ReadyQueue
<1>2. /\ ToSet(s) = {t \in AllTask : task_state[t] = "K_RDY" /\ prio[t] = p}
      /\ s # <<>>
  BY <1>1 DEF IInv, ReadyQueueOK, ReadyQueueMatches
<1>3. Head(s) \in ToSet(s)
  BY <1>1, <1>2, ToSetProps
<1>. QED BY <1>2, <1>3 DEF preferred_cpu_ready_task_get

-----------------------------------------------------------------------------
(***************************************************************************)
(* The steps that leave tasks and lists as they are.                       *)
(***************************************************************************)
LEMMA CoreSched == IInv /\ core_sched => IInv'
<1>. SUFFICES ASSUME IInv, core_sched PROVE IInv'
  OBVIOUS
<1>1. TypeOK'
  BY PreferredReady DEF core_sched, IInv, TypeOK, PC
<1>2. ActiveReady'
  BY PreferredReady DEF core_sched, IInv, ActiveReady, TypeOK
<1>3. CallOK'
  BY DEF core_sched, IInv, CallOK
<1>4. ReadyQueueOK' /\ IdleReady' /\ WaitersListed' /\ WaitersOwned'
  BY Unchanged DEF core_sched
<1>. QED BY <1>1, <1>2, <1>3, <1>4 DEF IInv

\* krhino_sched_disable and krhino_sched_enable keep the invariant.
LEMMA SchedLock == IInv /\ (krhino_sched_disable \/ krhino_sched_enable) => IInv'
<1>. SUFFICES ASSUME IInv, krhino_sched_disable \/ krhino_sched_enable PROVE IInv'
  OBVIOUS
<1>1. TypeOK'
  <2>1. g_sched_lock \in 0 .. LockMax /\ LockMax \in Nat
    BY BoundsAssumption DEF IInv, TypeOK
  <2>2. g_sched_lock' \in 0 .. LockMax
    BY <2>1 DEF krhino_sched_disable, krhino_sched_enable
  <2>3. pc' \in PC
    BY DEF krhino_sched_disable, krhino_sched_enable, IInv, TypeOK, PC
  <2>. QED BY <2>2, <2>3 DEF krhino_sched_disable, krhino_sched_enable, IInv, TypeOK
<1>2. ActiveReady'
  BY DEF krhino_sched_disable, krhino_sched_enable, TaskCalls, InTask, IInv, ActiveReady
<1>3. CallOK'
  BY DEF krhino_sched_disable, krhino_sched_enable, TaskCalls, InTask, IInv, CallOK
<1>4. ReadyQueueOK' /\ IdleReady' /\ WaitersListed' /\ WaitersOwned'
  BY Unchanged DEF krhino_sched_disable, krhino_sched_enable
<1>. QED BY <1>1, <1>2, <1>3, <1>4 DEF IInv

\* The tick interrupt advances the tick count within the width of tick_t.
LEMMA TickProc == IInv /\ krhino_tick_proc => IInv'
<1>. SUFFICES ASSUME IInv, krhino_tick_proc PROVE IInv'
  OBVIOUS
<1>1. TypeOK'
  <2>1. (g_tick_count + 1) % TickMod \in Tick
    BY BoundsAssumption DEF IInv, TypeOK, Tick
  <2>. QED BY <2>1 DEF krhino_tick_proc, IInv, TypeOK, PC
<1>2. ActiveReady'
  BY DEF krhino_tick_proc, IInv, ActiveReady
<1>3. CallOK'
  BY DEF krhino_tick_proc, IInv, CallOK
<1>4. ReadyQueueOK' /\ IdleReady' /\ WaitersListed' /\ WaitersOwned'
  BY Unchanged DEF krhino_tick_proc
<1>. QED BY <1>1, <1>2, <1>3, <1>4 DEF IInv

\* Locking a mutex again and unlocking one level only count.
LEMMA MutexNested ==
    ASSUME IInv, NEW m \in Mutex, mutex_lock_nested(m) \/ mutex_unlock_nested(m)
    PROVE  IInv'
<1>1. TypeOK'
  <2>1. owner_nested[m] \in 0 .. NestMax /\ NestMax \in Nat
    BY BoundsAssumption DEF IInv, TypeOK
  <2>2. owner_nested' \in [Mutex -> 0 .. NestMax]
    <3>1. owner_nested \in [Mutex -> 0 .. NestMax]
      BY DEF IInv, TypeOK
    <3>2. \E k \in 0 .. NestMax : owner_nested' = [owner_nested EXCEPT ![m] = k]
      <4>1. CASE mutex_lock_nested(m)
        <5>1. owner_nested[m] + 1 \in 0 .. NestMax
          BY <2>1, <4>1 DEF mutex_lock_nested
        <5>. QED BY <4>1, <5>1 DEF mutex_lock_nested
      <4>2. CASE mutex_unlock_nested(m)
        <5>1. owner_nested[m] - 1 \in 0 .. NestMax
          BY <2>1, <4>2 DEF mutex_unlock_nested
        <5>. QED BY <4>2, <5>1 DEF mutex_unlock_nested
      <4>. QED BY <4>1, <4>2
    <3>. QED BY <3>1, <3>2
  <2>. QED BY <2>2 DEF mutex_lock_nested, mutex_unlock_nested, IInv, TypeOK
<1>2. ActiveReady'
  BY DEF mutex_lock_nested, mutex_unlock_nested, TaskCalls, InTask, IInv, ActiveReady
<1>3. CallOK'
  BY DEF mutex_lock_nested, mutex_unlock_nested, TaskCalls, InTask, IInv, CallOK
<1>4. ReadyQueueOK' /\ IdleReady' /\ WaitersListed' /\ WaitersOwned'
  BY Unchanged DEF mutex_lock_nested, mutex_unlock_nested
<1>. QED BY <1>1, <1>2, <1>3, <1>4 DEF IInv

\* A lock that must wait starts to raise the owner.
LEMMA MutexLockInherit ==
    ASSUME IInv, NEW m \in Mutex, NEW ticks \in Timeouts, mutex_lock_inherit(m, ticks)
    PROVE  IInv'
<1>0. /\ mutex_task[m] \in Task
      /\ g_active_task \in Task
      /\ prio[g_active_task] \in Prio
      /\ NoChg \in Change
  BY Consts DEF mutex_lock_inherit, TaskCalls, InTask, IInv, TypeOK, WaitersOwned
<1>1. TypeOK'
  <2>1. chg' \in Change
    BY <1>0 DEF mutex_lock_inherit, StartPriChange, IInv, TypeOK, Change
  <2>2. op' \in [fn : Fn, task : AllTask \cup {NULL}, obj : Obj \cup {NULL}, ticks : Tick]
    BY Consts DEF mutex_lock_inherit, StartPriChange, IInv, TypeOK, Fn
  <2>. QED BY <2>1, <2>2, Consts DEF mutex_lock_inherit, StartPriChange, IInv, TypeOK, PC, Change
<1>2. ActiveReady'
  BY DEF mutex_lock_inherit, StartPriChange, TaskCalls, InTask, IInv, ActiveReady
<1>3. CallOK'
  <2>1. chg'.task \in Task \cup {NULL}
    BY <1>0 DEF mutex_lock_inherit, StartPriChange, Change
  <2>. QED BY <1>0, <2>1 DEF mutex_lock_inherit, StartPriChange, TaskCalls, InTask, IInv, ActiveReady, CallOK
<1>4. ReadyQueueOK' /\ IdleReady' /\ WaitersListed' /\ WaitersOwned'
  BY Unchanged DEF mutex_lock_inherit
<1>. QED BY <1>1, <1>2, <1>3, <1>4 DEF IInv

\* The last unlock takes the mutex off the owner's list and resets its priority.
LEMMA MutexUnlockRelease ==
    ASSUME IInv, NEW m \in Mutex, mutex_unlock_release(m)
    PROVE  IInv'
<1>0. g_active_task \in Task /\ mutex_release(g_active_task, m, blk_list) \in Change
  <2>1. g_active_task \in Task /\ blk_list \in [Obj -> Seq(AllTask)]
    BY Consts DEF mutex_unlock_release, TaskCalls, InTask, IInv, TypeOK
  <2>. QED BY <2>1, ReleaseType DEF IInv
<1>1. TypeOK'
  <2>1. mutex_list' \in [AllTask -> Seq(Mutex)]
    <3>1. mutex_list \in [AllTask -> Seq(Mutex)] /\ g_active_task \in AllTask
      BY DEF IInv, TypeOK
    <3>2. klist_rm(mutex_list[g_active_task], m) \in Seq(Mutex)
      BY <3>1, KlistRmType
    <3>. QED BY <3>1, <3>2 DEF mutex_unlock_release
  <2>2. owner_nested' \in [Mutex -> 0 .. NestMax]
    BY BoundsAssumption DEF mutex_unlock_release, IInv, TypeOK
  <2>3. op' \in [fn : Fn, task : AllTask \cup {NULL}, obj : Obj \cup {NULL}, ticks : Tick]
    BY Consts DEF mutex_unlock_release, StartPriChange, IInv, TypeOK, Fn
  <2>4. chg' \in Change
    BY <1>0 DEF mutex_unlock_release, StartPriChange
  <2>. QED BY <2>1, <2>2, <2>3, <2>4, Consts DEF mutex_unlock_release, StartPriChange, IInv, TypeOK, PC, Change
<1>2. ActiveReady'
  BY DEF mutex_unlock_release, StartPriChange, TaskCalls, InTask, IInv, ActiveReady
<1>3. CallOK'
  <2>1. chg'.task \in Task \cup {NULL}
    BY <1>0 DEF mutex_unlock_release, StartPriChange, Change
  <2>. QED BY <1>0, <2>1 DEF mutex_unlock_release, StartPriChange, TaskCalls, InTask, IInv, ActiveReady, CallOK
<1>4. ReadyQueueOK' /\ IdleReady' /\ WaitersListed' /\ WaitersOwned'
  BY Unchanged DEF mutex_unlock_release
<1>. QED BY <1>1, <1>2, <1>3, <1>4 DEF IInv

\* The ends of the kernel's loops, where only the control state changes.
LEMMA LoopDone ==
    ASSUME IInv, mutex_del_wake \/ drain_done \/ pri_change_done
    PROVE  IInv'
<1>1. TypeOK'
  BY Consts, SMTT(30) DEF mutex_del_wake, drain_done, pri_change_done, IInv, TypeOK, PC
<1>2. ActiveReady'
  BY DEF mutex_del_wake, drain_done, pri_change_done, PriChanged, IInv, ActiveReady
<1>3. CallOK'
  BY Consts DEF mutex_del_wake, drain_done, pri_change_done, PriChanged, IInv, CallOK
<1>4. ReadyQueueOK' /\ IdleReady' /\ WaitersListed' /\ WaitersOwned'
  BY Unchanged DEF mutex_del_wake, drain_done, pri_change_done
<1>. QED BY <1>1, <1>2, <1>3, <1>4 DEF IInv

\* A semaphore call that does not block or wake stays within sem_count_t.
LEMMA SemCount ==
    ASSUME IInv, NEW s \in Sem, NEW n \in 0 .. SemMax, sem_give_count(s) \/ sem_take_count(s) \/ krhino_sem_count_set(s, n)
    PROVE  IInv'
<1>1. TypeOK'
  <2>1. count \in [Sem -> 0 .. SemMax] /\ SemMax \in Nat
    BY BoundsAssumption DEF IInv, TypeOK
  <2>2. count' \in [Sem -> 0 .. SemMax]
    BY <2>1 DEF sem_give_count, sem_take_count, krhino_sem_count_set
  <2>. QED BY <2>2 DEF sem_give_count, sem_take_count, krhino_sem_count_set, IInv, TypeOK
<1>2. ActiveReady'
  BY DEF sem_give_count, sem_take_count, krhino_sem_count_set, TaskCalls, InTask, IInv, ActiveReady
<1>3. CallOK'
  BY DEF sem_give_count, sem_take_count, krhino_sem_count_set, TaskCalls, InTask, IInv, CallOK
<1>4. ReadyQueueOK' /\ IdleReady' /\ WaitersListed' /\ WaitersOwned'
  BY Unchanged DEF sem_give_count, sem_take_count, krhino_sem_count_set
<1>. QED BY <1>1, <1>2, <1>3, <1>4 DEF IInv

\* krhino_sem_give_all enters the wake-all loop on a semaphore.
LEMMA SemGiveAll ==
    ASSUME IInv, NEW s \in Sem, sem_give_all(s)
    PROVE  IInv'
<1>1. TypeOK'
  BY Consts DEF sem_give_all, IInv, TypeOK, PC, Fn
<1>2. ActiveReady'
  BY DEF sem_give_all, IInv, ActiveReady
<1>3. CallOK'
  BY Consts DEF sem_give_all, IInv, CallOK
<1>4. ReadyQueueOK' /\ IdleReady' /\ WaitersListed' /\ WaitersOwned'
  BY Unchanged DEF sem_give_all
<1>. QED BY <1>1, <1>2, <1>3, <1>4 DEF IInv

\* krhino_task_pri_change enters the loop with a priority of the queue.
LEMMA TaskPriChange ==
    ASSUME IInv, NEW t \in Task, NEW pri \in PriChoices, krhino_task_pri_change(t, pri)
    PROVE  IInv'
<1>0. mutex_pri_limit(t, pri) \in Prio
  <2>1. t \in AllTask /\ pri \in Prio /\ prio \in [AllTask -> Prio] /\ blk_list \in [Obj -> Seq(AllTask)]
    BY Consts DEF IInv, TypeOK
  <2>. QED BY <2>1, HighestPriType DEF mutex_pri_limit, IInv
<1>1. TypeOK'
  <2>1. b_prio' \in [AllTask -> Prio]
    BY Consts DEF krhino_task_pri_change, IInv, TypeOK
  <2>2. op' \in [fn : Fn, task : AllTask \cup {NULL}, obj : Obj \cup {NULL}, ticks : Tick]
    BY Consts DEF krhino_task_pri_change, StartPriChange, IInv, TypeOK, Fn
  <2>3. chg' \in Change
    BY <1>0 DEF krhino_task_pri_change, StartPriChange, Change
  <2>. QED BY <2>1, <2>2, <2>3, Consts DEF krhino_task_pri_change, StartPriChange, IInv, TypeOK, PC, Change
<1>2. ActiveReady'
  BY DEF krhino_task_pri_change, StartPriChange, TaskCalls, InTask, IInv, ActiveReady
<1>3. CallOK'
  BY DEF krhino_task_pri_change, StartPriChange, IInv, CallOK
<1>4. ReadyQueueOK' /\ IdleReady' /\ WaitersListed' /\ WaitersOwned'
  BY Unchanged DEF krhino_task_pri_change
<1>. QED BY <1>1, <1>2, <1>3, <1>4 DEF IInv

\* krhino_task_del starts on a live user task that may stop running.
LEMMA TaskDel ==
    ASSUME IInv, NEW t \in Task, krhino_task_del(t)
    PROVE  IInv'
<1>1. TypeOK'
  BY Consts DEF krhino_task_del, IInv, TypeOK, PC, Fn
<1>2. ActiveReady'
  BY DEF krhino_task_del, IInv, ActiveReady
<1>3. CallOK'
  <2>1. g_sched_lock \in Nat
    BY BoundsAssumption DEF IInv, TypeOK
  <2>. QED BY <2>1 DEF krhino_task_del, IInv, CallOK
<1>4. ReadyQueueOK' /\ IdleReady' /\ WaitersListed' /\ WaitersOwned'
  BY Unchanged DEF krhino_task_del
<1>. QED BY <1>1, <1>2, <1>3, <1>4 DEF IInv

-----------------------------------------------------------------------------
(***************************************************************************)
(* A task starts to wait, and a waiter is woken.                           *)
(***************************************************************************)
\* tick_list_insert keeps the tick list a list and tick_match in range.
LEMMA TickInsertType ==
    ASSUME TypeOK, NEW t \in AllTask, NEW time \in Tick, tick_list_insert(t, time)
    PROVE  tick_match' \in [AllTask -> Tick] /\ g_tick_head' \in Seq(AllTask)
<1>1. (g_tick_count + time) % TickMod \in Tick
  <2>. DEFINE n == g_tick_count + time
  <2>1. n \in Int /\ TickMod \in Nat /\ TickMod > 0
    BY BoundsAssumption DEF TypeOK, Tick
  <2>. HIDE DEF n
  <2>2. n % TickMod \in 0 .. TickMod - 1
    BY <2>1
  <2>. QED BY <2>2 DEF n, Tick
<1>2. tick_list_pri_insert(t, time) \in Seq(AllTask)
  <2>. DEFINE later == {u \in ToSet(g_tick_head) : TickLeft(u) > time}
              i == InsertPos(g_tick_head, later)
  <2>0. g_tick_head \in Seq(AllTask)
    BY DEF TypeOK
  <2>1. i \in 1 .. Len(g_tick_head) + 1
    <3>. HIDE DEF later
    <3>. QED BY <2>0, InsertPosProps
  <2>. HIDE DEF i
  <2>2. InsertAt(g_tick_head, i, t) \in Seq(AllTask)
    BY <2>0, <2>1, InsertAtProps
  <2>. QED BY <2>2 DEF tick_list_pri_insert, i
<1>. QED BY <1>1, <1>2 DEF tick_list_insert, TypeOK

\* tick_list_rm keeps the tick list a list and tick_match in range.
LEMMA TickRmType ==
    ASSUME TypeOK, NEW t \in AllTask, tick_list_rm(t)
    PROVE  tick_match' \in [AllTask -> Tick] /\ g_tick_head' \in Seq(AllTask)
<1>1. klist_rm(g_tick_head, t) \in Seq(AllTask)
  BY KlistRmType DEF TypeOK
<1>. QED BY <1>1, Consts DEF tick_list_rm, TypeOK

\* ready_list_add: a task that is not ready becomes ready at its priority.
LEMMA BecomesReady ==
    ASSUME IInv, NEW t \in AllTask, task_state[t] # "K_RDY"
    PROVE  /\ ready_list_add(g_ready_queue, t) \in ReadyQueue
           /\ ReadyQueueMatches(ready_list_add(g_ready_queue, t),
                                [task_state EXCEPT ![t] = "K_RDY"], prio)
<1>. DEFINE q == ready_list_add(g_ready_queue, t)
<1>1. /\ g_ready_queue \in ReadyQueue /\ task_state \in TaskStates
      /\ prio \in TaskPris /\ prio[t] \in Prio
      /\ ReadyQueueMatches(g_ready_queue, task_state, prio)
  BY DEF IInv, TypeOK, ReadyQueueOK, TaskStates, TaskPris
<1>2. q \in {ready_list_add_tail(g_ready_queue, t, prio[t]),
             ready_list_add_head(g_ready_queue, t, prio[t])}
  BY DEF ready_list_add
<1>. HIDE DEF q
<1>3. q \in ReadyQueue /\ ReadyQueueMatches(q, [task_state EXCEPT ![t] = "K_RDY"], prio)
  BY <1>1, <1>2, ReadyAdd
<1>. QED BY <1>3 DEF q

\* ready_list_rm: a ready user task goes to a state that is not ready.
LEMMA LeavesReady ==
    ASSUME IInv, NEW t \in Task, task_state[t] = "K_RDY",
           NEW x \in TaskStat, x # "K_RDY"
    PROVE  /\ ready_list_rm(g_ready_queue, t) \in ReadyQueue
           /\ ReadyQueueMatches(ready_list_rm(g_ready_queue, t),
                                [task_state EXCEPT ![t] = x], prio)
<1>1. /\ g_ready_queue \in ReadyQueue /\ task_state \in TaskStates
      /\ prio \in TaskPris /\ task_state[IdleTask] = "K_RDY"
      /\ ReadyQueueMatches(g_ready_queue, task_state, prio)
  BY DEF IInv, TypeOK, ReadyQueueOK, IdleReady, TaskStates, TaskPris
<1>. QED BY <1>1, ReadyRm

\* A change between two states that are not ready does not concern the queue.
LEMMA StaysUnready ==
    ASSUME IInv, NEW t \in AllTask, task_state[t] # "K_RDY", NEW x, x # "K_RDY"
    PROVE  ReadyQueueMatches(g_ready_queue, [task_state EXCEPT ![t] = x], prio)
<1>. DEFINE st2 == [task_state EXCEPT ![t] = x]
<1>1. \A u \in AllTask : /\ st2[u] = "K_RDY" <=> task_state[u] = "K_RDY"
                         /\ task_state[u] = "K_RDY" => prio[u] = prio[u]
  BY DEF IInv, TypeOK
<1>2. ReadyQueueMatches(g_ready_queue, task_state, prio)
  BY DEF IInv, ReadyQueueOK
<1>. HIDE DEF st2
<1>3. ReadyQueueMatches(g_ready_queue, st2, prio)
  BY <1>1, <1>2, ReadyFrame
<1>. QED BY <1>3 DEF st2

\* pend_to_blk_obj: the ready task t starts to wait for o.
LEMMA PendStep ==
    ASSUME IInv, NEW o \in Obj, NEW t \in Task, task_state[t] = "K_RDY",
           NEW timeout \in Tick, pend_to_blk_obj(o, t, timeout),
           UNCHANGED <<prio, mutex_task, obj_type>>,
           o \in Mutex => mutex_task[o] \in Task
    PROVE  /\ task_state' = [task_state EXCEPT ![t] = "K_PEND"]
           /\ blk_obj' \in [AllTask -> Obj \cup {NULL}]
           /\ tick_match' \in [AllTask -> Tick] /\ g_tick_head' \in Seq(AllTask)
           /\ blk_list' \in [Obj -> Seq(AllTask)]
           /\ call' \in [AllTask -> Obj \cup {NULL, "sleep"}]
           /\ g_ready_queue' \in ReadyQueue
           /\ ReadyQueueOK' /\ IdleReady' /\ WaitersListed' /\ WaitersOwned'
<1>0. t \in AllTask /\ t # IdleTask /\ IdleTask \in AllTask
  BY Consts
<1>. DEFINE L == pend_list_add(blk_list[o], t, prio)
<1>1. /\ task_state' = [task_state EXCEPT ![t] = "K_PEND"]
      /\ blk_obj' = [blk_obj EXCEPT ![t] = o]
      /\ call' = [call EXCEPT ![t] = o]
      /\ blk_list' = [blk_list EXCEPT ![o] = L]
      /\ g_ready_queue' = ready_list_rm(g_ready_queue, t)
  BY DEF pend_to_blk_obj
<1>2. /\ task_state \in [AllTask -> TaskStat] /\ blk_obj \in [AllTask -> Obj \cup {NULL}]
      /\ call \in [AllTask -> Obj \cup {NULL, "sleep"}] /\ blk_list \in [Obj -> Seq(AllTask)]
  BY DEF IInv, TypeOK
<1>3. /\ L \in Seq(AllTask) /\ ToSet(L) = ToSet(blk_list[o]) \cup {t}
      /\ IsInjective(L)
  <2>1. t \notin ToSet(blk_list[o]) /\ IsInjective(blk_list[o])
    BY DEF IInv, WaitersListed, Pending
  <2>2. blk_list[o] \in Seq(AllTask)
    BY <1>2
  <2>. QED BY <1>0, <2>1, <2>2, PendListAdd
<1>. HIDE DEF L
<1>4. tick_match' \in [AllTask -> Tick] /\ g_tick_head' \in Seq(AllTask)
  <2>1. CASE timeout # RHINO_WAIT_FOREVER
    BY <1>0, <2>1, TickInsertType DEF pend_to_blk_obj, IInv
  <2>2. CASE timeout = RHINO_WAIT_FOREVER
    BY <2>2 DEF pend_to_blk_obj, IInv, TypeOK
  <2>. QED BY <2>1, <2>2
<1>5. g_ready_queue' \in ReadyQueue /\ ReadyQueueOK'
  <2>1. "K_PEND" \in TaskStat /\ "K_PEND" # "K_RDY"
    BY DEF TaskStat, Pending
  <2>2. /\ ready_list_rm(g_ready_queue, t) \in ReadyQueue
        /\ ReadyQueueMatches(ready_list_rm(g_ready_queue, t),
                             [task_state EXCEPT ![t] = "K_PEND"], prio)
    BY <2>1, LeavesReady
  <2>. QED BY <1>1, <2>2 DEF ReadyQueueOK
<1>6. IdleReady'
  BY <1>0, <1>1, <1>2 DEF IInv, IdleReady
<1>7. WaitersListed'
  <2>1. ASSUME NEW u \in AllTask, task_state'[u] \in Pending
        PROVE  /\ blk_obj'[u] \in Obj /\ call'[u] = blk_obj'[u]
               /\ u \in ToSet(blk_list'[blk_obj'[u]])
    <3>1. CASE u = t
      BY <1>1, <1>2, <1>3, <3>1
    <3>2. CASE u # t
      <4>1. /\ task_state[u] \in Pending /\ blk_obj'[u] = blk_obj[u] /\ call'[u] = call[u]
        BY <1>1, <1>2, <2>1, <3>2
      <4>2. blk_obj[u] \in Obj /\ call[u] = blk_obj[u] /\ u \in ToSet(blk_list[blk_obj[u]])
        BY <4>1 DEF IInv, WaitersListed
      <4>3. u \in ToSet(blk_list'[blk_obj[u]])
        BY <1>1, <1>2, <1>3, <4>2
      <4>. QED BY <4>1, <4>2, <4>3
    <3>. QED BY <3>1, <3>2
  <2>2. ASSUME NEW w \in Obj
        PROVE  /\ \A u \in ToSet(blk_list'[w]) : task_state'[u] \in Pending /\ blk_obj'[u] = w
               /\ IsInjective(blk_list'[w])
    <3>0. ToSet(blk_list[w]) \subseteq AllTask
      BY <1>2, ToSetProps
    <3>1. /\ \A u \in ToSet(blk_list[w]) : task_state[u] \in Pending /\ blk_obj[u] = w
          /\ IsInjective(blk_list[w])
      BY DEF IInv, WaitersListed
    <3>2. \A u \in ToSet(blk_list[w]) : task_state'[u] \in Pending /\ blk_obj'[u] = w
      BY <1>0, <1>1, <1>2, <3>0, <3>1 DEF Pending
    <3>3. CASE w = o
      BY <1>0, <1>1, <1>2, <1>3, <3>2, <3>3 DEF Pending
    <3>4. CASE w # o
      BY <1>1, <1>2, <3>1, <3>2, <3>4
    <3>. QED BY <3>3, <3>4
  <2>. QED BY <2>1, <2>2 DEF WaitersListed
<1>8. WaitersOwned'
  <2>1. ASSUME NEW u \in AllTask, task_state'[u] \in Pending,
               obj_type'[blk_obj'[u]] = "RHINO_MUTEX_OBJ_TYPE"
        PROVE  mutex_task'[blk_obj'[u]] \in Task
    <3>1. CASE u = t
      <4>1. blk_obj'[u] = o /\ obj_type[o] = "RHINO_MUTEX_OBJ_TYPE"
        BY <1>1, <1>2, <2>1, <3>1
      <4>2. o \in Mutex
        BY <4>1, Consts DEF IInv, WaitersOwned
      <4>. QED BY <4>1, <4>2
    <3>2. CASE u # t
      BY <1>1, <1>2, <2>1, <3>2 DEF IInv, WaitersOwned
    <3>. QED BY <3>1, <3>2
  <2>. QED BY <2>1 DEF IInv, WaitersOwned
<1>. QED BY <1>0, <1>1, <1>2, <1>3, <1>4, <1>5, <1>6, <1>7, <1>8

\* A waiter t leaves the block list of the object it waits for.
LEMMA LeaveStep ==
    ASSUME IInv, NEW t \in Task, task_state[t] \in Pending,
           NEW x \in TaskStat, x \notin Pending,
           task_state' = [task_state EXCEPT ![t] = x],
           blk_list' = [blk_list EXCEPT ![blk_obj[t]] = klist_rm(@, t)],
           \A u \in AllTask : u # t => blk_obj'[u] = blk_obj[u] /\ call'[u] = call[u]
    PROVE  /\ task_state' \in [AllTask -> TaskStat]
           /\ blk_list' \in [Obj -> Seq(AllTask)]
           /\ IdleReady' /\ WaitersListed'
           /\ \A u \in AllTask : task_state'[u] \in Pending =>
                task_state[u] \in Pending /\ blk_obj'[u] = blk_obj[u]
<1>. DEFINE o == blk_obj[t]
            L == klist_rm(blk_list[o], t)
<1>1. /\ t \in AllTask /\ t # IdleTask /\ IdleTask \in AllTask /\ o \in Obj
      /\ blk_list \in [Obj -> Seq(AllTask)] /\ task_state \in [AllTask -> TaskStat]
      /\ IsInjective(blk_list[o])
  BY Consts DEF IInv, TypeOK, WaitersListed
<1>2. L \in Seq(AllTask) /\ ToSet(L) = ToSet(blk_list[o]) \ {t} /\ IsInjective(L)
  <2>1. blk_list[o] \in Seq(AllTask)
    BY <1>1
  <2>. HIDE DEF o
  <2>. QED BY <1>1, <2>1, KlistRm
<1>3. blk_list' = [blk_list EXCEPT ![o] = L]
  OBVIOUS
<1>. HIDE DEF L, o
<1>4. blk_list' \in [Obj -> Seq(AllTask)] /\ task_state' \in [AllTask -> TaskStat]
  BY <1>1, <1>2, <1>3
<1>5. IdleReady'
  BY <1>1 DEF IInv, IdleReady
<1>6. ASSUME NEW u \in AllTask, task_state'[u] \in Pending
      PROVE  u # t /\ task_state[u] \in Pending /\ blk_obj'[u] = blk_obj[u] /\ call'[u] = call[u]
  BY <1>1, <1>6
<1>7. ASSUME NEW u \in AllTask, task_state'[u] \in Pending
      PROVE  /\ blk_obj'[u] \in Obj /\ call'[u] = blk_obj'[u]
             /\ u \in ToSet(blk_list'[blk_obj'[u]])
  <2>1. u # t /\ task_state[u] \in Pending /\ blk_obj'[u] = blk_obj[u] /\ call'[u] = call[u]
    BY <1>6, <1>7
  <2>2. blk_obj[u] \in Obj /\ call[u] = blk_obj[u] /\ u \in ToSet(blk_list[blk_obj[u]])
    BY <2>1 DEF IInv, WaitersListed
  <2>. QED BY <1>1, <1>2, <1>3, <2>1, <2>2
<1>8. ASSUME NEW w \in Obj
      PROVE  /\ \A u \in ToSet(blk_list'[w]) : task_state'[u] \in Pending /\ blk_obj'[u] = w
             /\ IsInjective(blk_list'[w])
  <2>1. ToSet(blk_list[w]) \subseteq AllTask
    BY <1>1, ToSetProps
  <2>2. /\ \A u \in ToSet(blk_list[w]) : task_state[u] \in Pending /\ blk_obj[u] = w
        /\ IsInjective(blk_list[w])
    BY DEF IInv, WaitersListed
  <2>3. ToSet(blk_list'[w]) = ToSet(blk_list[w]) \ {t} /\ IsInjective(blk_list'[w])
    <3>1. CASE w = o
      BY <1>1, <1>2, <1>3, <3>1
    <3>2. CASE w # o
      <4>1. blk_list'[w] = blk_list[w]
        BY <1>1, <1>3, <3>2
      <4>2. t \notin ToSet(blk_list[w])
        BY <2>2, <3>2 DEF o
      <4>. QED BY <2>2, <4>1, <4>2
    <3>. QED BY <3>1, <3>2
  <2>. QED BY <1>1, <2>1, <2>2, <2>3
<1>9. WaitersListed'
  BY <1>7, <1>8 DEF WaitersListed
<1>. QED BY <1>4, <1>5, <1>6, <1>9

\* A task changes its state and neither starts nor stops to wait for an object.
LEMMA StateStep ==
    ASSUME IInv, NEW t \in Task, NEW x \in TaskStat,
           task_state[t] \in Pending <=> x \in Pending,
           task_state' = [task_state EXCEPT ![t] = x],
           UNCHANGED blk_list,
           \A u \in AllTask : (u # t \/ x \in Pending) =>
               blk_obj'[u] = blk_obj[u] /\ call'[u] = call[u]
    PROVE  /\ task_state' \in [AllTask -> TaskStat]
           /\ IdleReady' /\ WaitersListed'
           /\ \A u \in AllTask : task_state'[u] \in Pending =>
                task_state[u] \in Pending /\ blk_obj'[u] = blk_obj[u]
<1>1. /\ t \in AllTask /\ t # IdleTask /\ IdleTask \in AllTask
      /\ task_state \in [AllTask -> TaskStat] /\ blk_list \in [Obj -> Seq(AllTask)]
  BY Consts DEF IInv, TypeOK
<1>2. task_state' \in [AllTask -> TaskStat] /\ IdleReady'
  BY <1>1 DEF IInv, IdleReady
<1>3. ASSUME NEW u \in AllTask
      PROVE  /\ task_state'[u] \in Pending <=> task_state[u] \in Pending
             /\ task_state[u] \in Pending => blk_obj'[u] = blk_obj[u] /\ call'[u] = call[u]
  BY <1>1
<1>4. \A o \in Obj : ToSet(blk_list[o]) \subseteq AllTask
  BY <1>1, ToSetProps
<1>5. \A u \in AllTask : task_state'[u] \in Pending =>
        /\ blk_obj'[u] \in Obj /\ call'[u] = blk_obj'[u]
        /\ u \in ToSet(blk_list'[blk_obj'[u]])
  BY <1>3 DEF IInv, WaitersListed
<1>6. \A o \in Obj :
        /\ \A u \in ToSet(blk_list'[o]) : task_state'[u] \in Pending /\ blk_obj'[u] = o
        /\ IsInjective(blk_list'[o])
  BY <1>3, <1>4 DEF IInv, WaitersListed
<1>7. WaitersListed'
  BY <1>5, <1>6 DEF WaitersListed
<1>. QED BY <1>2, <1>3, <1>7

\* Fewer waiters, and no owner lost, keep every waiter's mutex owned.
LEMMA OwnedStep ==
    ASSUME IInv, UNCHANGED obj_type,
           mutex_task' \in [Mutex -> Task \cup {NULL}],
           \A u \in AllTask : task_state'[u] \in Pending =>
             /\ task_state[u] \in Pending /\ blk_obj'[u] = blk_obj[u]
             /\ mutex_task'[blk_obj[u]] # mutex_task[blk_obj[u]] => mutex_task'[blk_obj[u]] \in Task
    PROVE  WaitersOwned'
BY DEF IInv, WaitersOwned

\* pend_task_wakeup and pend_task_rm on the first waiter of o.
LEMMA WakeStep ==
    ASSUME IInv, NEW o \in Obj, blk_list[o] # <<>>, NEW why \in BlkStat,
           pend_task_wakeup(Head(blk_list[o]), o, why),
           UNCHANGED prio
    PROVE  /\ task_state' \in [AllTask -> TaskStat]
           /\ blk_state' \in [AllTask -> BlkStat]
           /\ blk_obj' \in [AllTask -> Obj \cup {NULL}]
           /\ tick_match' \in [AllTask -> Tick] /\ g_tick_head' \in Seq(AllTask)
           /\ blk_list' \in [Obj -> Seq(AllTask)]
           /\ g_ready_queue' \in ReadyQueue
           /\ ReadyQueueOK' /\ IdleReady' /\ WaitersListed'
           /\ \A u \in AllTask : task_state'[u] \in Pending =>
                task_state[u] \in Pending /\ blk_obj'[u] = blk_obj[u]
           /\ \A u \in AllTask : task_state[u] = "K_RDY" => task_state'[u] = "K_RDY"
           /\ \A u \in AllTask : task_state[u] \notin Pending => task_state'[u] \notin Pending
<1>. DEFINE t == Head(blk_list[o])
<1>1. t \in Task /\ t \in AllTask /\ task_state[t] \in Pending /\ blk_obj[t] = o
  BY FirstWaiter, Consts
<1>. HIDE DEF t
<1>2. pend_task_wakeup(t, o, why)
  BY DEF t
<1>3. /\ task_state \in [AllTask -> TaskStat] /\ blk_obj \in [AllTask -> Obj \cup {NULL}]
      /\ blk_state \in [AllTask -> BlkStat] /\ g_ready_queue \in ReadyQueue
  BY DEF IInv, TypeOK
<1>4. /\ blk_state' \in [AllTask -> BlkStat]
      /\ blk_obj' \in [AllTask -> Obj \cup {NULL}]
      /\ \A u \in AllTask : u # t => blk_obj'[u] = blk_obj[u] /\ call'[u] = call[u]
  BY <1>1, <1>2, <1>3 DEF pend_task_wakeup
<1>5. tick_match' \in [AllTask -> Tick] /\ g_tick_head' \in Seq(AllTask)
  BY <1>1, <1>2, TickRmType DEF pend_task_wakeup, IInv
<1>6. blk_list' = [blk_list EXCEPT ![blk_obj[t]] = klist_rm(@, t)]
  BY <1>1, <1>2 DEF pend_task_wakeup
<1>7. CASE task_state[t] = "K_PEND"
  <2>1. /\ task_state' = [task_state EXCEPT ![t] = "K_RDY"]
        /\ g_ready_queue' = ready_list_add(g_ready_queue, t)
    BY <1>2, <1>7 DEF pend_task_wakeup
  <2>2. "K_RDY" \in TaskStat /\ "K_RDY" \notin Pending
    BY DEF TaskStat, Pending
  <2>3. g_ready_queue' \in ReadyQueue /\ ReadyQueueOK'
    BY <1>1, <1>7, <2>1, BecomesReady DEF ReadyQueueOK
  <2>4. /\ task_state' \in [AllTask -> TaskStat]
        /\ blk_list' \in [Obj -> Seq(AllTask)]
        /\ IdleReady' /\ WaitersListed'
        /\ \A u \in AllTask : task_state'[u] \in Pending =>
             task_state[u] \in Pending /\ blk_obj'[u] = blk_obj[u]
    BY <1>1, <1>4, <1>6, <2>1, <2>2, LeaveStep
  <2>5. \A u \in AllTask : /\ task_state[u] = "K_RDY" => task_state'[u] = "K_RDY"
                           /\ task_state[u] \notin Pending => task_state'[u] \notin Pending
    BY <1>3, <2>1, <2>2
  <2>. QED BY <1>4, <1>5, <2>3, <2>4, <2>5
<1>8. CASE task_state[t] = "K_PEND_SUSPENDED"
  <2>1. /\ task_state' = [task_state EXCEPT ![t] = "K_SUSPENDED"]
        /\ g_ready_queue' = g_ready_queue
    BY <1>2, <1>8 DEF pend_task_wakeup
  <2>2. "K_SUSPENDED" \in TaskStat /\ "K_SUSPENDED" \notin Pending /\ "K_SUSPENDED" # "K_RDY"
    BY DEF TaskStat, Pending, Suspended
  <2>3. g_ready_queue' \in ReadyQueue /\ ReadyQueueOK'
    BY <1>1, <1>3, <1>8, <2>1, <2>2, StaysUnready DEF ReadyQueueOK
  <2>4. /\ task_state' \in [AllTask -> TaskStat]
        /\ blk_list' \in [Obj -> Seq(AllTask)]
        /\ IdleReady' /\ WaitersListed'
        /\ \A u \in AllTask : task_state'[u] \in Pending =>
             task_state[u] \in Pending /\ blk_obj'[u] = blk_obj[u]
    BY <1>1, <1>4, <1>6, <2>1, <2>2, LeaveStep
  <2>5. \A u \in AllTask : /\ task_state[u] = "K_RDY" => task_state'[u] = "K_RDY"
                           /\ task_state[u] \notin Pending => task_state'[u] \notin Pending
    BY <1>3, <1>8, <2>1, <2>2
  <2>. QED BY <1>4, <1>5, <2>3, <2>4, <2>5
<1>. QED BY <1>1, <1>7, <1>8 DEF Pending

-----------------------------------------------------------------------------
(***************************************************************************)
(* Mutexes and semaphores.                                                 *)
(***************************************************************************)
\* Nobody waits for an object with an empty block list.
LEMMA NoWaiter ==
    ASSUME IInv, NEW o \in Obj, blk_list[o] = <<>>
    PROVE  \A t \in AllTask : task_state[t] \in Pending => blk_obj[t] # o
<1>1. ToSet(blk_list[o]) = {}
  BY DEF ToSet
<1>. QED BY <1>1 DEF IInv, WaitersListed

\* Nobody waits for an object nobody is in a call on.
LEMMA NoCaller ==
    ASSUME IInv, NEW o \in Obj, \A t \in Task : call[t] # o
    PROVE  \A t \in AllTask : task_state[t] \in Pending => blk_obj[t] # o
<1>1. \A t \in AllTask : task_state[t] \in Pending => t # IdleTask
  BY DEF IInv, IdleReady, Pending
<1>. QED BY <1>1, Consts DEF IInv, WaitersListed

\* An object nobody waits for or calls on gets a type and an empty block list.
LEMMA ObjCreate ==
    ASSUME IInv, NEW o \in Obj, \A t \in Task : call[t] # o,
           blk_list' = [blk_list EXCEPT ![o] = <<>>],
           UNCHANGED <<task_state, blk_obj, call>>
    PROVE  blk_list' \in [Obj -> Seq(AllTask)] /\ WaitersListed'
<1>1. blk_list \in [Obj -> Seq(AllTask)]
  BY DEF IInv, TypeOK
<1>2. \A t \in AllTask : task_state[t] \in Pending => blk_obj[t] # o
  BY NoCaller
<1>3. ToSet(<<>>) = {} /\ IsInjective(<<>>) /\ <<>> \in Seq(AllTask)
  BY DEF ToSet, IsInjective
<1>4. blk_list' \in [Obj -> Seq(AllTask)]
  BY <1>1, <1>3
<1>5. \A t \in AllTask : task_state'[t] \in Pending =>
        /\ blk_obj'[t] \in Obj /\ call'[t] = blk_obj'[t]
        /\ t \in ToSet(blk_list'[blk_obj'[t]])
  BY <1>1, <1>2 DEF IInv, WaitersListed
<1>6. ASSUME NEW w \in Obj
      PROVE  /\ \A t \in ToSet(blk_list'[w]) : task_state'[t] \in Pending /\ blk_obj'[t] = w
             /\ IsInjective(blk_list'[w])
  <2>1. CASE w = o
    BY <1>1, <1>3, <2>1
  <2>2. CASE w # o
    BY <1>1, <2>2 DEF IInv, WaitersListed
  <2>. QED BY <2>1, <2>2
<1>. QED BY <1>4, <1>5, <1>6 DEF WaitersListed

\* krhino_mutex_create keeps the invariant: a mutex is created without waiters.
LEMMA MutexCreate ==
    ASSUME IInv, NEW m \in Mutex, krhino_mutex_create(m)
    PROVE  IInv'
<1>0. m \in Obj
  BY Consts
<1>1. blk_list' \in [Obj -> Seq(AllTask)] /\ WaitersListed'
  BY <1>0, ObjCreate DEF krhino_mutex_create
<1>2. TypeOK'
  BY <1>0, <1>1 DEF krhino_mutex_create, IInv, TypeOK, ObjType
<1>3. WaitersOwned'
  <2>1. \A t \in AllTask : task_state[t] \in Pending => blk_obj[t] # m
    BY <1>0, NoCaller DEF krhino_mutex_create
  <2>2. \A t \in AllTask : task_state[t] \in Pending => blk_obj[t] \in Obj
    BY DEF IInv, WaitersListed
  <2>3. \A o \in Obj : o # m => obj_type'[o] = obj_type[o]
    BY DEF krhino_mutex_create, IInv, TypeOK
  <2>4. \A t \in AllTask : task_state[t] \in Pending => mutex_task'[blk_obj[t]] = mutex_task[blk_obj[t]]
                            \/ obj_type[blk_obj[t]] # "RHINO_MUTEX_OBJ_TYPE"
    BY <2>1, <2>2, Consts DEF krhino_mutex_create, IInv, TypeOK, WaitersOwned
  <2>5. mutex_task' \in [Mutex -> Task \cup {NULL}]
    BY DEF krhino_mutex_create, IInv, WaitersOwned
  <2>6. \A s \in Sem : obj_type'[s] # "RHINO_MUTEX_OBJ_TYPE"
    BY <2>3, Consts DEF IInv, WaitersOwned
  <2>. QED BY <2>1, <2>2, <2>3, <2>4, <2>5, <2>6 DEF krhino_mutex_create, IInv, WaitersOwned
<1>4. ActiveReady' /\ IdleReady' /\ ReadyQueueOK'
  BY DEF krhino_mutex_create, IInv, ActiveReady, IdleReady, ReadyQueueOK
<1>5. CallOK'
  BY DEF krhino_mutex_create, TaskCalls, InTask, IInv, CallOK
<1>. QED BY <1>1, <1>2, <1>3, <1>4, <1>5 DEF IInv

\* krhino_sem_create keeps the invariant: a semaphore is created without waiters.
LEMMA SemCreate ==
    ASSUME IInv, NEW s \in Sem, NEW n \in 0 .. SemMax, krhino_sem_create(s, n)
    PROVE  IInv'
<1>0. s \in Obj
  BY Consts
<1>1. blk_list' \in [Obj -> Seq(AllTask)] /\ WaitersListed'
  BY <1>0, ObjCreate DEF krhino_sem_create
<1>2. TypeOK'
  BY <1>0, <1>1 DEF krhino_sem_create, IInv, TypeOK, ObjType
<1>3. WaitersOwned'
  <2>1. \A t \in AllTask : task_state[t] \in Pending => blk_obj[t] \in Obj
    BY DEF IInv, WaitersListed
  <2>2. \A o \in Obj : obj_type'[o] = IF o = s THEN "RHINO_SEM_OBJ_TYPE" ELSE obj_type[o]
    BY <1>0 DEF krhino_sem_create, IInv, TypeOK
  <2>. QED BY <2>1, <2>2, Consts DEF krhino_sem_create, IInv, WaitersOwned
<1>4. ActiveReady' /\ IdleReady' /\ ReadyQueueOK'
  BY DEF krhino_sem_create, IInv, ActiveReady, IdleReady, ReadyQueueOK
<1>5. CallOK'
  BY DEF krhino_sem_create, TaskCalls, InTask, IInv, CallOK
<1>. QED BY <1>1, <1>2, <1>3, <1>4, <1>5 DEF IInv

\* krhino_sem_del and krhino_mutex_del invalidate the object first.
LEMMA SemDel ==
    ASSUME IInv, NEW s \in Sem, krhino_sem_del(s)
    PROVE  IInv'
<1>0. s \in Obj
  BY Consts
<1>1. TypeOK'
  BY <1>0, Consts DEF krhino_sem_del, IInv, TypeOK, ObjType, PC, Fn
<1>2. WaitersOwned'
  <2>1. \A t \in AllTask : task_state[t] \in Pending => blk_obj[t] \in Obj
    BY DEF IInv, WaitersListed
  <2>2. \A o \in Obj : obj_type'[o] = IF o = s THEN "RHINO_OBJ_TYPE_NONE" ELSE obj_type[o]
    BY <1>0 DEF krhino_sem_del, IInv, TypeOK
  <2>. QED BY <2>1, <2>2, Consts DEF krhino_sem_del, IInv, WaitersOwned
<1>3. ActiveReady' /\ IdleReady' /\ ReadyQueueOK' /\ WaitersListed'
  BY DEF krhino_sem_del, IInv, ActiveReady, IdleReady, ReadyQueueOK, WaitersListed
<1>4. CallOK'
  BY <1>0 DEF krhino_sem_del, IInv, CallOK
<1>. QED BY <1>1, <1>2, <1>3, <1>4 DEF IInv

\* krhino_mutex_del takes the mutex from its owner before it wakes the waiters.
LEMMA MutexDel ==
    ASSUME IInv, NEW m \in Mutex, krhino_mutex_del(m)
    PROVE  IInv'
<1>. DEFINE owner == mutex_task[m]
<1>0. m \in Obj /\ g_active_task \in AllTask /\ owner \in Task \cup {NULL}
  BY Consts DEF IInv, TypeOK, WaitersOwned
<1>1. chg' \in Change
  <2>1. CASE owner = NULL
    BY <2>1, Consts DEF krhino_mutex_del, StartPriChange
  <2>2. CASE owner # NULL
    <3>1. owner \in Task /\ blk_list \in [Obj -> Seq(AllTask)] /\ TypeOK
      BY <1>0, <2>2 DEF IInv, TypeOK
    <3>2. mutex_release(owner, m, blk_list) \in Change
      BY <3>1, ReleaseType
    <3>. QED BY <2>2, <3>2 DEF krhino_mutex_del, StartPriChange
  <2>. QED BY <2>1, <2>2
<1>2. mutex_list' \in [AllTask -> Seq(Mutex)]
  <2>1. mutex_list \in [AllTask -> Seq(Mutex)]
    BY DEF IInv, TypeOK
  <2>2. CASE owner = NULL
    BY <2>1, <2>2 DEF krhino_mutex_del
  <2>3. CASE owner # NULL
    <3>1. owner \in AllTask /\ klist_rm(mutex_list[owner], m) \in Seq(Mutex)
      BY <1>0, <2>1, <2>3, Consts, KlistRmType
    <3>. QED BY <2>1, <2>3, <3>1 DEF krhino_mutex_del
  <2>. QED BY <2>2, <2>3
<1>3. op' = [fn |-> "mutex_del", task |-> g_active_task, obj |-> m, ticks |-> 0] /\ pc' = "pri"
  BY DEF krhino_mutex_del, StartPriChange
<1>4. op' \in [fn : Fn, task : AllTask \cup {NULL}, obj : Obj \cup {NULL}, ticks : Tick]
  BY <1>0, <1>3, Consts DEF Fn
<1>5. /\ obj_type' = [obj_type EXCEPT ![m] = "RHINO_OBJ_TYPE_NONE"]
      /\ mutex_task' = [mutex_task EXCEPT ![m] = NULL]
      /\ owner_nested' = [owner_nested EXCEPT ![m] = 0]
      /\ UNCHANGED <<taskVars, priVars, blk_list, count, tickVars, g_ready_queue, schedVars>>
  BY DEF krhino_mutex_del
<1>6. TypeOK'
  <2>1. owner_nested' \in [Mutex -> 0 .. NestMax]
    BY <1>5, BoundsAssumption DEF IInv, TypeOK
  <2>2. obj_type' \in [Obj -> ObjType] /\ mutex_task' \in [Mutex -> AllTask \cup {NULL}]
    BY <1>0, <1>5 DEF IInv, TypeOK, ObjType
  <2>3. chg' \in [task : AllTask \cup {NULL}, pri : Prio]
    BY <1>1, Consts DEF Change
  <2>4. pc' \in PC
    BY <1>3 DEF PC
  <2>. QED BY <1>2, <1>4, <1>5, <2>1, <2>2, <2>3, <2>4 DEF IInv, TypeOK
<1>7. WaitersOwned'
  <2>1. \A t \in AllTask : task_state[t] \in Pending => blk_obj[t] \in Obj
    BY DEF IInv, WaitersListed
  <2>2. \A o \in Obj : obj_type'[o] = IF o = m THEN "RHINO_OBJ_TYPE_NONE" ELSE obj_type[o]
    BY <1>0, <1>5 DEF IInv, TypeOK
  <2>3. mutex_task' \in [Mutex -> Task \cup {NULL}]
    BY <1>5 DEF IInv, WaitersOwned
  <2>4. \A s \in Sem : obj_type'[s] # "RHINO_MUTEX_OBJ_TYPE"
    BY <2>2, Consts DEF IInv, WaitersOwned
  <2>5. ASSUME NEW t \in AllTask, task_state[t] \in Pending,
               obj_type'[blk_obj[t]] = "RHINO_MUTEX_OBJ_TYPE"
        PROVE  mutex_task'[blk_obj[t]] \in Task
    <3>1. blk_obj[t] \in Obj /\ blk_obj[t] # m /\ obj_type[blk_obj[t]] = "RHINO_MUTEX_OBJ_TYPE"
      BY <2>1, <2>2, <2>5
    <3>2. blk_obj[t] \in Mutex /\ mutex_task[blk_obj[t]] \in Task
      BY <2>5, <3>1, Consts DEF IInv, WaitersOwned
    <3>. QED BY <1>5, <3>1, <3>2 DEF IInv, WaitersOwned
  <2>. QED BY <1>5, <2>3, <2>4, <2>5 DEF WaitersOwned
<1>8. ActiveReady' /\ IdleReady' /\ ReadyQueueOK' /\ WaitersListed'
  BY <1>3, <1>5 DEF IInv, ActiveReady, IdleReady, ReadyQueueOK, WaitersListed
<1>9. CallOK'
  BY <1>1, <1>3 DEF IInv, CallOK, Change
<1>. QED BY <1>6, <1>7, <1>8, <1>9 DEF IInv

\* Taking a free mutex makes the running task its owner.
LEMMA MutexLockFree ==
    ASSUME IInv, NEW m \in Mutex, mutex_lock_free(m)
    PROVE  IInv'
<1>0. g_active_task \in Task /\ g_active_task \in AllTask
  BY Consts DEF mutex_lock_free, TaskCalls, InTask, IInv, TypeOK
<1>1. TypeOK'
  <2>1. mutex_list' \in [AllTask -> Seq(Mutex)]
    <3>1. mutex_list \in [AllTask -> Seq(Mutex)]
      BY DEF IInv, TypeOK
    <3>2. <<m>> \o mutex_list[g_active_task] \in Seq(Mutex)
      BY <1>0, <3>1
    <3>. QED BY <1>0, <3>1, <3>2 DEF mutex_lock_free
  <2>2. owner_nested' \in [Mutex -> 0 .. NestMax]
    BY BoundsAssumption DEF mutex_lock_free, IInv, TypeOK
  <2>. QED BY <2>1, <2>2 DEF mutex_lock_free, IInv, TypeOK
<1>2. WaitersOwned'
  <2>1. mutex_task' \in [Mutex -> Task \cup {NULL}]
    BY <1>0 DEF mutex_lock_free, IInv, WaitersOwned
  <2>2. \A o : mutex_task'[o] # mutex_task[o] => mutex_task'[o] \in Task
    BY <1>0 DEF mutex_lock_free, IInv, WaitersOwned
  <2>. QED BY <2>1, <2>2, OwnedStep DEF mutex_lock_free
<1>3. ActiveReady' /\ IdleReady' /\ ReadyQueueOK' /\ WaitersListed'
  BY DEF mutex_lock_free, IInv, ActiveReady, IdleReady, ReadyQueueOK, WaitersListed
<1>4. CallOK'
  BY DEF mutex_lock_free, TaskCalls, InTask, IInv, CallOK
<1>. QED BY <1>1, <1>2, <1>3, <1>4 DEF IInv

\* After the owner was raised, the caller of krhino_mutex_lock starts to wait.
LEMMA MutexLockPend ==
    ASSUME IInv, mutex_lock_pend
    PROVE  IInv'
<1>. DEFINE o == op.obj
            t == op.task
<1>1. /\ o \in Mutex /\ o \in Obj /\ mutex_task[o] \in Task /\ t \in Task
      /\ t = g_active_task /\ task_state[t] = "K_RDY" /\ g_sched_lock = 0
      /\ op.ticks \in Tick
  BY Consts DEF mutex_lock_pend, PriChanged, IInv, CallOK, TypeOK
<1>2. pend_to_blk_obj(o, t, op.ticks) /\ UNCHANGED <<prio, mutex_task, obj_type>>
  BY DEF mutex_lock_pend
<1>. HIDE DEF o, t
<1>3. /\ task_state' = [task_state EXCEPT ![t] = "K_PEND"]
      /\ blk_obj' \in [AllTask -> Obj \cup {NULL}]
      /\ tick_match' \in [AllTask -> Tick] /\ g_tick_head' \in Seq(AllTask)
      /\ blk_list' \in [Obj -> Seq(AllTask)]
      /\ call' \in [AllTask -> Obj \cup {NULL, "sleep"}]
      /\ g_ready_queue' \in ReadyQueue
      /\ ReadyQueueOK' /\ IdleReady' /\ WaitersListed' /\ WaitersOwned'
  BY <1>1, <1>2, PendStep
<1>4. TypeOK'
  <2>1. task_state' \in [AllTask -> TaskStat]
    BY <1>3 DEF IInv, TypeOK, TaskStat, Pending
  <2>2. /\ UNCHANGED <<priVars, obj_type, mutexVars, count, schedVars, chg,
                       suspend_count, blk_state, g_tick_count>>
        /\ pc' = "sched" /\ op' = NoOp
    BY DEF mutex_lock_pend, pend_to_blk_obj
  <2>. QED BY <1>3, <2>1, <2>2, Consts DEF IInv, TypeOK, PC
<1>5. ActiveReady' /\ CallOK'
  BY <1>1 DEF mutex_lock_pend, IInv, ActiveReady, CallOK
<1>. QED BY <1>3, <1>4, <1>5 DEF IInv

\* A task that finds no token starts to wait for the semaphore.
LEMMA SemTakePend ==
    ASSUME IInv, NEW s \in Sem, NEW ticks \in Timeouts, sem_take_pend(s, ticks)
    PROVE  IInv'
<1>. DEFINE t == g_active_task
<1>1. /\ s \in Obj /\ s \notin Mutex /\ t \in Task
      /\ task_state[t] = "K_RDY" /\ g_sched_lock = 0 /\ ticks \in Tick
  BY Consts DEF sem_take_pend, TaskCalls, InTask, IInv, ActiveReady, TypeOK
<1>2. pend_to_blk_obj(s, t, ticks) /\ UNCHANGED <<prio, mutex_task, obj_type>>
  BY DEF sem_take_pend
<1>. HIDE DEF t
<1>3. /\ task_state' = [task_state EXCEPT ![t] = "K_PEND"]
      /\ blk_obj' \in [AllTask -> Obj \cup {NULL}]
      /\ tick_match' \in [AllTask -> Tick] /\ g_tick_head' \in Seq(AllTask)
      /\ blk_list' \in [Obj -> Seq(AllTask)]
      /\ call' \in [AllTask -> Obj \cup {NULL, "sleep"}]
      /\ g_ready_queue' \in ReadyQueue
      /\ ReadyQueueOK' /\ IdleReady' /\ WaitersListed' /\ WaitersOwned'
  BY <1>1, <1>2, PendStep
<1>4. TypeOK'
  <2>1. task_state' \in [AllTask -> TaskStat]
    BY <1>3 DEF IInv, TypeOK, TaskStat, Pending
  <2>. QED BY <1>2, <1>3, <2>1 DEF sem_take_pend, pend_to_blk_obj, IInv, TypeOK, PC
<1>5. ActiveReady' /\ CallOK'
  BY <1>1 DEF sem_take_pend, IInv, ActiveReady, CallOK
<1>. QED BY <1>3, <1>4, <1>5 DEF IInv

\* The first waiter of op.obj is woken by a loop, or that of s by sem_give.
LEMMA DrainStep ==
    ASSUME IInv, drain_step
    PROVE  IInv'
<1>. DEFINE o == op.obj
            why == IF op.fn = "give_all" THEN "BLK_FINISH" ELSE "BLK_DEL"
<1>1. o \in Obj /\ blk_list[o] # <<>> /\ why \in BlkStat
  BY DEF drain_step, IInv, CallOK, BlkStat
<1>2. pend_task_wakeup(Head(blk_list[o]), o, why) /\ UNCHANGED prio
  BY DEF drain_step
<1>. HIDE DEF o, why
<1>3. /\ task_state' \in [AllTask -> TaskStat]
      /\ blk_state' \in [AllTask -> BlkStat]
      /\ blk_obj' \in [AllTask -> Obj \cup {NULL}]
      /\ tick_match' \in [AllTask -> Tick] /\ g_tick_head' \in Seq(AllTask)
      /\ blk_list' \in [Obj -> Seq(AllTask)]
      /\ g_ready_queue' \in ReadyQueue
      /\ ReadyQueueOK' /\ IdleReady' /\ WaitersListed'
      /\ \A u \in AllTask : task_state'[u] \in Pending =>
           task_state[u] \in Pending /\ blk_obj'[u] = blk_obj[u]
      /\ \A u \in AllTask : task_state[u] = "K_RDY" => task_state'[u] = "K_RDY"
      /\ \A u \in AllTask : task_state[u] \notin Pending => task_state'[u] \notin Pending
  BY <1>1, <1>2, WakeStep
<1>4. TypeOK'
  BY <1>2, <1>3, ZenonT(40) DEF drain_step, pend_task_wakeup, IInv, TypeOK
<1>5. WaitersOwned'
  <2>1. mutex_task' \in [Mutex -> Task \cup {NULL}] /\ UNCHANGED <<mutex_task, obj_type>>
    BY DEF drain_step, IInv, WaitersOwned
  <2>. QED BY <1>3, <2>1, OwnedStep
<1>6. ActiveReady' /\ CallOK'
  BY <1>3 DEF drain_step, IInv, TypeOK, ActiveReady, CallOK
<1>. QED BY <1>3, <1>4, <1>5, <1>6 DEF IInv

\* krhino_sem_give wakes the first waiter.
LEMMA SemGiveOne ==
    ASSUME IInv, NEW s \in Sem, sem_give_one(s)
    PROVE  IInv'
<1>1. s \in Obj /\ blk_list[s] # <<>> /\ "BLK_FINISH" \in BlkStat
  BY Consts DEF sem_give_one, BlkStat
<1>2. pend_task_wakeup(Head(blk_list[s]), s, "BLK_FINISH") /\ UNCHANGED prio
  BY DEF sem_give_one
<1>3. /\ task_state' \in [AllTask -> TaskStat]
      /\ blk_state' \in [AllTask -> BlkStat]
      /\ blk_obj' \in [AllTask -> Obj \cup {NULL}]
      /\ tick_match' \in [AllTask -> Tick] /\ g_tick_head' \in Seq(AllTask)
      /\ blk_list' \in [Obj -> Seq(AllTask)]
      /\ g_ready_queue' \in ReadyQueue
      /\ ReadyQueueOK' /\ IdleReady' /\ WaitersListed'
      /\ \A u \in AllTask : task_state'[u] \in Pending =>
           task_state[u] \in Pending /\ blk_obj'[u] = blk_obj[u]
      /\ \A u \in AllTask : task_state[u] = "K_RDY" => task_state'[u] = "K_RDY"
      /\ \A u \in AllTask : task_state[u] \notin Pending => task_state'[u] \notin Pending
  BY <1>1, <1>2, WakeStep
<1>4. TypeOK'
  BY <1>2, <1>3, ZenonT(40) DEF sem_give_one, pend_task_wakeup, IInv, TypeOK, PC
<1>5. WaitersOwned'
  <2>1. mutex_task' \in [Mutex -> Task \cup {NULL}] /\ UNCHANGED <<mutex_task, obj_type>>
    BY DEF sem_give_one, IInv, WaitersOwned
  <2>. QED BY <1>3, <2>1, OwnedStep
<1>6. ActiveReady' /\ CallOK'
  BY <1>3 DEF sem_give_one, IInv, TypeOK, ActiveReady, CallOK
<1>. QED BY <1>3, <1>4, <1>5, <1>6 DEF IInv

\* A mutex is left without owner only when nobody waits for it.
LEMMA MutexUnlockFree ==
    ASSUME IInv, mutex_unlock_free
    PROVE  IInv'
<1>1. /\ op.obj \in Mutex /\ op.obj \in Obj /\ task_state[g_active_task] = "K_RDY"
      /\ blk_list[op.obj] = <<>>
  BY Consts DEF mutex_unlock_free, PriChanged, IInv, CallOK
<1>2. TypeOK'
  BY <1>1, Consts DEF mutex_unlock_free, IInv, TypeOK, PC
<1>3. WaitersOwned'
  <2>1. mutex_task' \in [Mutex -> Task \cup {NULL}]
    BY <1>1 DEF mutex_unlock_free, IInv, WaitersOwned
  <2>2. \A u \in AllTask : task_state[u] \in Pending => blk_obj[u] # op.obj
    BY <1>1, NoWaiter
  <2>3. \A u \in AllTask : task_state[u] \in Pending => mutex_task'[blk_obj[u]] = mutex_task[blk_obj[u]]
    BY <2>2 DEF mutex_unlock_free, IInv, TypeOK
  <2>. QED BY <2>1, <2>3, OwnedStep DEF mutex_unlock_free
<1>4. ActiveReady' /\ IdleReady' /\ ReadyQueueOK' /\ WaitersListed'
  BY <1>1 DEF mutex_unlock_free, IInv, ActiveReady, IdleReady, ReadyQueueOK, WaitersListed
<1>5. CallOK'
  BY DEF mutex_unlock_free, IInv, CallOK
<1>. QED BY <1>2, <1>3, <1>4, <1>5 DEF IInv

\* krhino_mutex_unlock makes the first waiter the owner.
LEMMA MutexUnlockHandover ==
    ASSUME IInv, mutex_unlock_handover
    PROVE  IInv'
<1>. DEFINE m == op.obj
            t == Head(blk_list[m])
<1>1. m \in Mutex /\ m \in Obj /\ blk_list[m] # <<>> /\ "BLK_FINISH" \in BlkStat
  BY Consts DEF mutex_unlock_handover, PriChanged, IInv, CallOK, BlkStat
<1>2. /\ pend_task_wakeup(Head(blk_list[m]), m, "BLK_FINISH") /\ UNCHANGED prio
      /\ mutex_task' = [mutex_task EXCEPT ![m] = t]
      /\ mutex_list' = [mutex_list EXCEPT ![t] = <<m>> \o @]
      /\ owner_nested' = [owner_nested EXCEPT ![m] = 1]
  BY DEF mutex_unlock_handover
<1>. HIDE DEF m
<1>3. t \in Task /\ t \in AllTask
  BY <1>1, FirstWaiter, Consts
<1>4. /\ task_state' \in [AllTask -> TaskStat]
      /\ blk_state' \in [AllTask -> BlkStat]
      /\ blk_obj' \in [AllTask -> Obj \cup {NULL}]
      /\ tick_match' \in [AllTask -> Tick] /\ g_tick_head' \in Seq(AllTask)
      /\ blk_list' \in [Obj -> Seq(AllTask)]
      /\ g_ready_queue' \in ReadyQueue
      /\ ReadyQueueOK' /\ IdleReady' /\ WaitersListed'
      /\ \A u \in AllTask : task_state'[u] \in Pending =>
           task_state[u] \in Pending /\ blk_obj'[u] = blk_obj[u]
      /\ \A u \in AllTask : task_state[u] = "K_RDY" => task_state'[u] = "K_RDY"
      /\ \A u \in AllTask : task_state[u] \notin Pending => task_state'[u] \notin Pending
  BY <1>1, <1>2, WakeStep
<1>. HIDE DEF t
<1>5. TypeOK'
  <2>1. mutex_list' \in [AllTask -> Seq(Mutex)]
    <3>1. mutex_list \in [AllTask -> Seq(Mutex)]
      BY DEF IInv, TypeOK
    <3>2. <<m>> \o mutex_list[t] \in Seq(Mutex)
      BY <1>1, <1>3, <3>1
    <3>. QED BY <1>2, <1>3, <3>1, <3>2
  <2>2. owner_nested' \in [Mutex -> 0 .. NestMax]
    <3>1. 1 \in 0 .. NestMax
      BY BoundsAssumption
    <3>. QED BY <1>2, <3>1 DEF IInv, TypeOK
  <2>3. mutex_task' \in [Mutex -> AllTask \cup {NULL}]
    BY <1>2, <1>3 DEF IInv, TypeOK
  <2>4. /\ UNCHANGED <<priVars, obj_type, count, schedVars, chg, suspend_count, g_tick_count, call>>
        /\ pc' = "sched" /\ op' = NoOp
    BY <1>2 DEF mutex_unlock_handover, pend_task_wakeup
  <2>. QED BY <1>4, <2>1, <2>2, <2>3, <2>4, Consts DEF IInv, TypeOK, PC
<1>6. WaitersOwned'
  <2>1. mutex_task' \in [Mutex -> Task \cup {NULL}]
    BY <1>2, <1>3 DEF IInv, WaitersOwned
  <2>2. \A o : mutex_task'[o] # mutex_task[o] => mutex_task'[o] \in Task
    BY <1>2, <1>3 DEF IInv, WaitersOwned
  <2>. QED BY <1>4, <2>1, <2>2, OwnedStep DEF mutex_unlock_handover
<1>7. ActiveReady' /\ CallOK'
  BY <1>4 DEF mutex_unlock_handover, IInv, TypeOK, ActiveReady, CallOK
<1>. QED BY <1>4, <1>5, <1>6, <1>7 DEF IInv

\* task_mutex_free hands over the next mutex of the deleted task.
LEMMA TaskMutexFree ==
    ASSUME IInv, task_mutex_free
    PROVE  IInv'
<1>. DEFINE t == op.task
            m == Head(mutex_list[t])
            w == Head(blk_list[m])
            Kept(u) == IF u = t THEN Tail(mutex_list[u]) ELSE mutex_list[u]
<1>1. /\ pc = "mfree" /\ op.fn = "del" /\ t \in Task /\ t \in AllTask
      /\ mutex_list \in [AllTask -> Seq(Mutex)] /\ mutex_list[t] # <<>>
      /\ UNCHANGED <<priVars, obj_type, owner_nested, count, schedVars, ctlVars>>
  BY Consts DEF task_mutex_free, IInv, CallOK, TypeOK
<1>2. m \in Mutex /\ m \in Obj /\ Tail(mutex_list[t]) \in Seq(Mutex)
  <2>1. mutex_list[t] \in Seq(Mutex) /\ mutex_list[t] # <<>>
    BY <1>1
  <2>2. m \in Mutex /\ Tail(mutex_list[t]) \in Seq(Mutex)
    BY <2>1
  <2>. QED BY <2>2, Consts
<1>3. CASE blk_list[m] # <<>>
  <2>1. /\ pend_task_wakeup(Head(blk_list[m]), m, "BLK_FINISH") /\ UNCHANGED prio
        /\ mutex_task' = [mutex_task EXCEPT ![m] = w]
        /\ mutex_list' = [u \in AllTask |-> IF u = w THEN <<m>> \o Kept(u) ELSE Kept(u)]
    BY <1>3 DEF task_mutex_free
  <2>2. w \in Task /\ w \in AllTask /\ "BLK_FINISH" \in BlkStat
    BY <1>2, <1>3, FirstWaiter, Consts DEF BlkStat
  <2>. HIDE DEF m
  <2>3. /\ task_state' \in [AllTask -> TaskStat]
        /\ blk_state' \in [AllTask -> BlkStat]
        /\ blk_obj' \in [AllTask -> Obj \cup {NULL}]
        /\ tick_match' \in [AllTask -> Tick] /\ g_tick_head' \in Seq(AllTask)
        /\ blk_list' \in [Obj -> Seq(AllTask)]
        /\ g_ready_queue' \in ReadyQueue
        /\ ReadyQueueOK' /\ IdleReady' /\ WaitersListed'
        /\ \A u \in AllTask : task_state'[u] \in Pending =>
             task_state[u] \in Pending /\ blk_obj'[u] = blk_obj[u]
        /\ \A u \in AllTask : task_state[u] = "K_RDY" => task_state'[u] = "K_RDY"
        /\ \A u \in AllTask : task_state[u] \notin Pending => task_state'[u] \notin Pending
    BY <1>2, <1>3, <2>1, <2>2, WakeStep
  <2>. HIDE DEF w, t
  <2>4. TypeOK'
    <3>1. mutex_list' \in [AllTask -> Seq(Mutex)]
      <4>1. \A u \in AllTask : Kept(u) \in Seq(Mutex)
        BY <1>1, <1>2
      <4>. HIDE DEF Kept
      <4>2. \A u \in AllTask : <<m>> \o Kept(u) \in Seq(Mutex)
        BY <1>2, <4>1
      <4>. QED BY <2>1, <4>1, <4>2
    <3>2. mutex_task' \in [Mutex -> AllTask \cup {NULL}]
      BY <2>1, <2>2 DEF IInv, TypeOK
    <3>3. UNCHANGED <<suspend_count, g_tick_count, call>>
      BY <2>1 DEF pend_task_wakeup
    <3>. QED BY <1>1, <2>3, <3>1, <3>2, <3>3 DEF IInv, TypeOK
  <2>5. WaitersOwned'
    <3>1. mutex_task' \in [Mutex -> Task \cup {NULL}]
      BY <2>1, <2>2 DEF IInv, WaitersOwned
    <3>2. \A o : mutex_task'[o] # mutex_task[o] => mutex_task'[o] \in Task
      BY <2>1, <2>2 DEF IInv, WaitersOwned
    <3>. QED BY <1>1, <2>3, <3>1, <3>2, OwnedStep
  <2>6. ActiveReady' /\ CallOK'
    BY <1>1, <2>3 DEF IInv, TypeOK, ActiveReady, CallOK, t
  <2>. QED BY <2>3, <2>4, <2>5, <2>6 DEF IInv
<1>4. CASE blk_list[m] = <<>>
  <2>1. /\ mutex_task' = [mutex_task EXCEPT ![m] = NULL]
        /\ mutex_list' = [mutex_list EXCEPT ![t] = Tail(@)]
        /\ UNCHANGED <<taskVars, objVars, tickVars, g_ready_queue>>
    BY <1>4 DEF task_mutex_free
  <2>. HIDE DEF m
  <2>2. TypeOK'
    <3>1. mutex_list' \in [AllTask -> Seq(Mutex)]
      BY <1>1, <1>2, <2>1
    <3>2. mutex_task' \in [Mutex -> AllTask \cup {NULL}]
      BY <2>1 DEF IInv, TypeOK
    <3>. QED BY <1>1, <2>1, <3>1, <3>2 DEF IInv, TypeOK
  <2>3. WaitersOwned'
    <3>1. mutex_task' \in [Mutex -> Task \cup {NULL}]
      BY <2>1 DEF IInv, WaitersOwned
    <3>2. \A u \in AllTask : task_state[u] \in Pending => blk_obj[u] # m
      BY <1>2, <1>4, NoWaiter
    <3>3. \A u \in AllTask : task_state[u] \in Pending => mutex_task'[blk_obj[u]] = mutex_task[blk_obj[u]]
      BY <2>1, <3>2 DEF IInv, TypeOK
    <3>. QED BY <1>1, <2>1, <3>1, <3>3, OwnedStep
  <2>4. ActiveReady' /\ IdleReady' /\ ReadyQueueOK' /\ WaitersListed' /\ CallOK'
    BY <1>1, <2>1 DEF IInv, ActiveReady, IdleReady, ReadyQueueOK, WaitersListed, CallOK
  <2>. QED BY <2>2, <2>3, <2>4 DEF IInv
<1>. QED BY <1>3, <1>4

-----------------------------------------------------------------------------
(***************************************************************************)
(* Tasks and the tick.                                                     *)
(***************************************************************************)
\* A step that changes neither owners nor the validity of objects.
LEMMA OwnersKept ==
    ASSUME IInv, UNCHANGED <<obj_type, mutex_task>>,
           \A u \in AllTask : task_state'[u] \in Pending =>
             task_state[u] \in Pending /\ blk_obj'[u] = blk_obj[u]
    PROVE  WaitersOwned'
<1>1. mutex_task' \in [Mutex -> Task \cup {NULL}]
  BY DEF IInv, WaitersOwned
<1>. QED BY <1>1, OwnedStep

\* Which of the sets of task states a state belongs to.
LEMMA StateNames ==
    /\ {"K_RDY", "K_SLEEP", "K_PEND", "K_SUSPENDED", "K_SLEEP_SUSPENDED",
        "K_PEND_SUSPENDED", "K_DELETED"} \subseteq TaskStat
    /\ {"K_RDY", "K_SLEEP", "K_SUSPENDED", "K_SLEEP_SUSPENDED", "K_DELETED"} \cap Pending = {}
    /\ "K_PEND" \in Pending /\ "K_PEND_SUSPENDED" \in Pending
    /\ "K_RDY" \notin Pending \cup Sleeping \cup Suspended \cup Dead
    /\ Sleeping \cap Pending = {} /\ Dead \cap Pending = {}
BY DEF TaskStat, Pending, Sleeping, Suspended, Dead

\* A blocking call returns in a task that does not wait any more.
LEMMA PendStateEnd ==
    ASSUME IInv, pend_state_end_proc
    PROVE  IInv'
<1>. DEFINE t == g_active_task
<1>1. t \in AllTask /\ task_state[t] = "K_RDY"
  BY DEF pend_state_end_proc, IInv, TypeOK, ActiveReady
<1>2. TypeOK'
  BY <1>1 DEF pend_state_end_proc, IInv, TypeOK, BlkStat
<1>3. WaitersListed'
  <2>1. \A u \in AllTask : task_state[u] \in Pending => call'[u] = call[u]
    BY <1>1, StateNames DEF pend_state_end_proc, IInv, TypeOK
  <2>. QED BY <2>1 DEF pend_state_end_proc, IInv, WaitersListed
<1>4. WaitersOwned'
  BY OwnersKept DEF pend_state_end_proc
<1>5. ActiveReady' /\ IdleReady' /\ ReadyQueueOK' /\ CallOK'
  BY DEF pend_state_end_proc, IInv, ActiveReady, IdleReady, ReadyQueueOK, CallOK
<1>. QED BY <1>2, <1>3, <1>4, <1>5 DEF IInv

\* task_create puts a new task on the ready list or leaves it suspended.
LEMMA TaskCreate ==
    ASSUME IInv, NEW t \in Task, NEW autorun \in BOOLEAN, krhino_task_create(t, autorun)
    PROVE  IInv'
<1>. DEFINE x == IF autorun THEN "K_RDY" ELSE "K_SUSPENDED"
<1>0. /\ t \in AllTask /\ BasePri[t] \in Prio
      /\ task_state[t] \notin Pending /\ task_state[t] # "K_RDY"
      /\ x \in TaskStat /\ x \notin Pending
      /\ pc = "run" /\ task_state[g_active_task] = "K_RDY"
  BY Consts, StateNames DEF krhino_task_create, TaskCalls, InTask, IInv, ActiveReady
<1>1. /\ task_state' = [task_state EXCEPT ![t] = x]
      /\ prio' = [prio EXCEPT ![t] = BasePri[t]]
      /\ \A u \in AllTask : u # t => blk_obj'[u] = blk_obj[u] /\ call'[u] = call[u]
  BY DEF krhino_task_create, IInv, TypeOK
<1>2. /\ task_state' \in [AllTask -> TaskStat]
      /\ IdleReady' /\ WaitersListed'
      /\ \A u \in AllTask : task_state'[u] \in Pending =>
           task_state[u] \in Pending /\ blk_obj'[u] = blk_obj[u]
  <2>1. UNCHANGED blk_list
    BY DEF krhino_task_create
  <2>. HIDE DEF x
  <2>. QED BY <1>0, <1>1, <2>1, StateStep
<1>3. g_ready_queue' \in ReadyQueue /\ ReadyQueueOK'
  <2>1. ReadyQueueMatches(g_ready_queue, task_state, prio') /\ prio' \in TaskPris
    <3>1. \A u \in AllTask : /\ task_state[u] = "K_RDY" <=> task_state[u] = "K_RDY"
                             /\ task_state[u] = "K_RDY" => prio'[u] = prio[u]
      BY <1>0, <1>1 DEF IInv, TypeOK
    <3>2. ReadyQueueMatches(g_ready_queue, task_state, prio)
      BY DEF IInv, ReadyQueueOK
    <3>3. prio' \in TaskPris
      BY <1>0, <1>1 DEF IInv, TypeOK, TaskPris
    <3>. QED BY <3>1, <3>2, <3>3, ReadyFrame
  <2>2. /\ g_ready_queue \in ReadyQueue /\ task_state \in TaskStates
        /\ prio'[t] = BasePri[t]
    BY <1>0, <1>1 DEF IInv, TypeOK, TaskStates
  <2>3. CASE autorun
    <3>1. g_ready_queue' = ready_list_add_tail(g_ready_queue, t, BasePri[t])
      BY <2>3 DEF krhino_task_create
    <3>2. g_ready_queue' \in ReadyQueue
          /\ ReadyQueueMatches(g_ready_queue', [task_state EXCEPT ![t] = "K_RDY"], prio')
      <4>. DEFINE q == g_ready_queue'
                  pr == prio'
      <4>1. q \in {ready_list_add_tail(g_ready_queue, t, BasePri[t]),
                   ready_list_add_head(g_ready_queue, t, BasePri[t])}
        BY <3>1
      <4>2. /\ pr \in TaskPris /\ ReadyQueueMatches(g_ready_queue, task_state, pr)
            /\ pr[t] = BasePri[t]
        BY <2>1, <2>2
      <4>. HIDE DEF q, pr
      <4>3. q \in ReadyQueue /\ ReadyQueueMatches(q, [task_state EXCEPT ![t] = "K_RDY"], pr)
        BY <1>0, <2>2, <4>1, <4>2, ReadyAdd
      <4>. QED BY <4>3 DEF q, pr
    <3>. QED BY <1>1, <2>3, <3>2 DEF ReadyQueueOK
  <2>4. CASE ~autorun
    <3>1. g_ready_queue' = g_ready_queue
      BY <2>4 DEF krhino_task_create
    <3>2. ReadyQueueMatches(g_ready_queue, task_state', prio')
      <4>. DEFINE st2 == task_state'
                  pr == prio'
      <4>1. \A u \in AllTask : /\ st2[u] = "K_RDY" <=> task_state[u] = "K_RDY"
                               /\ task_state[u] = "K_RDY" => pr[u] = pr[u]
        BY <1>0, <1>1, <2>4 DEF IInv, TypeOK
      <4>2. ReadyQueueMatches(g_ready_queue, task_state, pr)
        BY <2>1
      <4>. HIDE DEF st2, pr
      <4>3. ReadyQueueMatches(g_ready_queue, st2, pr)
        BY <4>1, <4>2, ReadyFrame
      <4>. QED BY <4>3 DEF st2, pr
    <3>. QED BY <2>2, <3>1, <3>2 DEF ReadyQueueOK
  <2>. QED BY <2>3, <2>4
<1>4. TypeOK'
  <2>1. prio' \in [AllTask -> Prio] /\ b_prio' \in [AllTask -> Prio]
    BY <1>0 DEF krhino_task_create, IInv, TypeOK
  <2>2. suspend_count' \in [AllTask -> Nat]
    BY DEF krhino_task_create, IInv, TypeOK
  <2>3. blk_state' \in [AllTask -> BlkStat] /\ blk_obj' \in [AllTask -> Obj \cup {NULL}]
    BY DEF krhino_task_create, IInv, TypeOK, BlkStat
  <2>4. pc' \in PC
    BY <1>0 DEF krhino_task_create, PC
  <2>5. UNCHANGED <<call, objVars, mutexVars, count, tickVars, schedVars, op, chg>>
    BY DEF krhino_task_create
  <2>. QED BY <1>2, <1>3, <2>1, <2>2, <2>3, <2>4, <2>5 DEF IInv, TypeOK
<1>5. WaitersOwned'
  <2>1. UNCHANGED <<obj_type, mutex_task>>
    BY DEF krhino_task_create
  <2>. QED BY <1>2, <2>1, OwnersKept
<1>6. ActiveReady'
  <2>1. UNCHANGED <<g_active_task, g_sched_lock>>
    BY DEF krhino_task_create
  <2>2. g_active_task # t /\ g_active_task \in AllTask
    BY <1>0 DEF IInv, TypeOK
  <2>. QED BY <1>0, <1>1, <2>1, <2>2 DEF IInv, TypeOK, ActiveReady
<1>7. CallOK'
  <2>1. pc' \in {"run", "sched"}
    BY <1>0 DEF krhino_task_create
  <2>. QED BY <2>1 DEF krhino_task_create, IInv, CallOK
<1>. QED BY <1>2, <1>3, <1>4, <1>5, <1>6, <1>7 DEF IInv

\* krhino_task_sleep takes the running task off the ready list.
LEMMA TaskSleep ==
    ASSUME IInv, NEW ticks \in Timeouts, krhino_task_sleep(ticks)
    PROVE  IInv'
<1>. DEFINE t == g_active_task
<1>1. /\ t \in Task /\ t \in AllTask /\ task_state[t] = "K_RDY" /\ g_sched_lock = 0
      /\ ticks \in Tick
  BY Consts DEF krhino_task_sleep, TaskCalls, InTask, IInv, TypeOK, ActiveReady
<1>2. /\ task_state' = [task_state EXCEPT ![t] = "K_SLEEP"]
      /\ UNCHANGED <<blk_list, blk_obj, obj_type, mutex_task, prio>>
      /\ tick_list_insert(t, ticks)
      /\ g_ready_queue' = ready_list_rm(g_ready_queue, t)
      /\ call' = [call EXCEPT ![t] = "sleep"]
  BY DEF krhino_task_sleep
<1>. HIDE DEF t
<1>3. \A u \in AllTask : u # t => blk_obj'[u] = blk_obj[u] /\ call'[u] = call[u]
  BY <1>2 DEF IInv, TypeOK
<1>4. /\ task_state' \in [AllTask -> TaskStat]
      /\ IdleReady' /\ WaitersListed'
      /\ \A u \in AllTask : task_state'[u] \in Pending =>
           task_state[u] \in Pending /\ blk_obj'[u] = blk_obj[u]
  BY <1>1, <1>2, <1>3, StateStep, StateNames, ZenonT(40)
<1>5. g_ready_queue' \in ReadyQueue /\ ReadyQueueOK'
  <2>1. "K_SLEEP" \in TaskStat /\ "K_SLEEP" # "K_RDY"
    BY StateNames
  <2>2. /\ ready_list_rm(g_ready_queue, t) \in ReadyQueue
        /\ ReadyQueueMatches(ready_list_rm(g_ready_queue, t),
                             [task_state EXCEPT ![t] = "K_SLEEP"], prio)
    BY <1>1, <2>1, LeavesReady
  <2>. QED BY <1>2, <2>2 DEF ReadyQueueOK
<1>6. TypeOK'
  <2>1. tick_match' \in [AllTask -> Tick] /\ g_tick_head' \in Seq(AllTask)
    BY <1>1, <1>2, TickInsertType DEF IInv
  <2>2. call' \in [AllTask -> Obj \cup {NULL, "sleep"}]
    BY <1>2 DEF IInv, TypeOK
  <2>3. /\ UNCHANGED <<suspend_count, blk_state, blk_obj, priVars, objVars,
                       mutexVars, count, g_tick_count, schedVars, op, chg>>
        /\ pc' = "sched"
    BY DEF krhino_task_sleep
  <2>. QED BY <1>4, <1>5, <2>1, <2>2, <2>3 DEF IInv, TypeOK, PC
<1>7. WaitersOwned'
  BY <1>2, <1>4, OwnersKept
<1>8. ActiveReady' /\ CallOK'
  BY <1>1 DEF krhino_task_sleep, IInv, ActiveReady, CallOK
<1>. QED BY <1>4, <1>5, <1>6, <1>7, <1>8 DEF IInv

\* krhino_task_suspend takes a ready task off the ready list.
LEMMA TaskSuspend ==
    ASSUME IInv, NEW t \in Task, krhino_task_suspend(t)
    PROVE  IInv'
<1>0. t \in AllTask /\ task_state[t] \in TaskStat /\ (t = g_active_task => g_sched_lock = 0)
      /\ g_active_task \in AllTask
  <2>1. g_sched_lock \in Nat
    BY BoundsAssumption DEF IInv, TypeOK
  <2>. QED BY <2>1, Consts DEF krhino_task_suspend, IInv, TypeOK
<1>1. /\ UNCHANGED <<blk_list, blk_obj, obj_type, mutex_task, prio, call>>
      /\ UNCHANGED <<blk_state, blk_obj, call, priVars, objVars, mutexVars, count,
                     tickVars, schedVars, op, chg>>
      /\ pc' = "sched"
  BY DEF krhino_task_suspend
<1>2. suspend_count' \in [AllTask -> Nat]
  <2>1. suspend_count \in [AllTask -> Nat] /\ suspend_count[t] + 1 \in Nat
    BY <1>0 DEF IInv, TypeOK
  <2>2. \E k \in Nat : suspend_count' = [suspend_count EXCEPT ![t] = k]
    BY <2>1 DEF krhino_task_suspend
  <2>. QED BY <2>1, <2>2
<1>3. CallOK'
  BY <1>1 DEF IInv, CallOK
<1>4. CASE task_state[t] \in {"K_RDY", "K_SLEEP", "K_PEND"}
  <2>. DEFINE x == SuspendedFrom[task_state[t]]
  <2>1. /\ x \in TaskStat /\ x # "K_RDY" /\ (task_state[t] \in Pending <=> x \in Pending)
    BY <1>4, StateNames DEF SuspendedFrom
  <2>2. /\ task_state' = [task_state EXCEPT ![t] = x]
        /\ g_ready_queue' = IF task_state[t] = "K_RDY"
                            THEN ready_list_rm(g_ready_queue, t) ELSE g_ready_queue
    BY <1>4 DEF krhino_task_suspend, Suspended
  <2>. HIDE DEF x
  <2>3. /\ task_state' \in [AllTask -> TaskStat]
        /\ IdleReady' /\ WaitersListed'
        /\ \A u \in AllTask : task_state'[u] \in Pending =>
             task_state[u] \in Pending /\ blk_obj'[u] = blk_obj[u]
    BY <1>1, <2>1, <2>2, StateStep
  <2>4. g_ready_queue' \in ReadyQueue /\ ReadyQueueOK'
    <3>1. CASE task_state[t] = "K_RDY"
      BY <1>1, <2>1, <2>2, <3>1, LeavesReady DEF ReadyQueueOK
    <3>2. CASE task_state[t] # "K_RDY"
      <4>1. ReadyQueueMatches(g_ready_queue, [task_state EXCEPT ![t] = x], prio)
        BY <1>0, <2>1, <3>2, StaysUnready
      <4>2. g_ready_queue' \in ReadyQueue
        BY <2>2, <3>2 DEF IInv, TypeOK
      <4>. QED BY <1>1, <2>2, <3>2, <4>1, <4>2 DEF ReadyQueueOK
    <3>. QED BY <3>1, <3>2
  <2>5. TypeOK'
    BY <1>1, <1>2, <2>3, <2>4 DEF IInv, TypeOK, PC
  <2>6. WaitersOwned'
    BY <1>1, <2>3, OwnersKept
  <2>7. ActiveReady'
    BY <1>0, <1>1, <2>2 DEF IInv, TypeOK, ActiveReady
  <2>. QED BY <1>3, <2>3, <2>4, <2>5, <2>6, <2>7 DEF IInv
<1>5. CASE task_state[t] \notin {"K_RDY", "K_SLEEP", "K_PEND"}
  <2>1. UNCHANGED <<task_state, g_ready_queue>>
    BY <1>5 DEF krhino_task_suspend
  <2>2. ReadyQueueOK' /\ IdleReady' /\ WaitersListed' /\ WaitersOwned'
    BY <1>1, <2>1, Unchanged
  <2>3. TypeOK'
    BY <1>1, <1>2, <2>1 DEF IInv, TypeOK, PC
  <2>4. ActiveReady'
    BY <1>1, <2>1 DEF IInv, ActiveReady
  <2>. QED BY <1>3, <2>2, <2>3, <2>4 DEF IInv
<1>. QED BY <1>4, <1>5

\* The last krhino_task_resume puts a task that waits for nothing on the ready list.
LEMMA TaskResume ==
    ASSUME IInv, NEW t \in Task, krhino_task_resume(t)
    PROVE  IInv'
<1>0. /\ t \in AllTask /\ task_state[t] \in Suspended /\ task_state[t] # "K_RDY"
      /\ suspend_count \in [AllTask -> Nat] /\ g_active_task \in AllTask
  BY Consts, StateNames DEF krhino_task_resume, IInv, TypeOK
<1>1. /\ UNCHANGED <<blk_list, blk_obj, obj_type, mutex_task, prio, call>>
      /\ UNCHANGED <<blk_state, blk_obj, call, priVars, objVars, mutexVars, count,
                     tickVars, schedVars, op, chg>>
      /\ pc' = "sched"
  BY DEF krhino_task_resume
<1>2. suspend_count' \in [AllTask -> Nat]
  <2>1. suspend_count[t] \in Nat /\ suspend_count[t] >= 1
    BY <1>0 DEF krhino_task_resume
  <2>2. suspend_count[t] - 1 \in Nat
    BY <2>1
  <2>. QED BY <1>0, <2>2 DEF krhino_task_resume
<1>3. CallOK'
  BY <1>1 DEF IInv, CallOK
<1>4. CASE suspend_count[t] = 1
  <2>. DEFINE x == ResumedFrom[task_state[t]]
  <2>1. /\ x \in TaskStat /\ (task_state[t] \in Pending <=> x \in Pending)
        /\ x = "K_RDY" <=> task_state[t] = "K_SUSPENDED"
    BY <1>0, StateNames DEF ResumedFrom, Suspended
  <2>2. /\ task_state' = [task_state EXCEPT ![t] = x]
        /\ g_ready_queue' = IF task_state[t] = "K_SUSPENDED"
                            THEN ready_list_add(g_ready_queue, t) ELSE g_ready_queue
    BY <1>4 DEF krhino_task_resume
  <2>. HIDE DEF x
  <2>3. /\ task_state' \in [AllTask -> TaskStat]
        /\ IdleReady' /\ WaitersListed'
        /\ \A u \in AllTask : task_state'[u] \in Pending =>
             task_state[u] \in Pending /\ blk_obj'[u] = blk_obj[u]
    BY <1>1, <2>1, <2>2, StateStep
  <2>4. g_ready_queue' \in ReadyQueue /\ ReadyQueueOK'
    <3>1. CASE task_state[t] = "K_SUSPENDED"
      BY <1>0, <1>1, <2>1, <2>2, <3>1, BecomesReady DEF ReadyQueueOK
    <3>2. CASE task_state[t] # "K_SUSPENDED"
      <4>1. ReadyQueueMatches(g_ready_queue, [task_state EXCEPT ![t] = x], prio)
        BY <1>0, <2>1, <3>2, StaysUnready
      <4>2. g_ready_queue' \in ReadyQueue
        BY <2>2, <3>2 DEF IInv, TypeOK
      <4>. QED BY <1>1, <2>2, <3>2, <4>1, <4>2 DEF ReadyQueueOK
    <3>. QED BY <3>1, <3>2
  <2>5. TypeOK'
    BY <1>1, <1>2, <2>3, <2>4 DEF IInv, TypeOK, PC
  <2>6. WaitersOwned'
    BY <1>1, <2>3, OwnersKept
  <2>7. ActiveReady'
    BY <1>0, <1>1, <2>2 DEF IInv, TypeOK, ActiveReady
  <2>. QED BY <1>3, <2>3, <2>4, <2>5, <2>6, <2>7 DEF IInv
<1>5. CASE suspend_count[t] # 1
  <2>1. UNCHANGED <<task_state, g_ready_queue>>
    BY <1>5 DEF krhino_task_resume
  <2>2. ReadyQueueOK' /\ IdleReady' /\ WaitersListed' /\ WaitersOwned'
    BY <1>1, <2>1, Unchanged
  <2>3. TypeOK'
    BY <1>1, <1>2, <2>1 DEF IInv, TypeOK, PC
  <2>4. ActiveReady'
    BY <1>1, <2>1 DEF IInv, ActiveReady
  <2>. QED BY <1>3, <2>2, <2>3, <2>4 DEF IInv
<1>. QED BY <1>4, <1>5

\* krhino_task_wait_abort on a sleeping or suspended task makes it ready.
LEMMA WaitAbortNonpend ==
    ASSUME IInv, NEW t \in Task, wait_abort_nonpend(t)
    PROVE  IInv'
<1>0. /\ t \in AllTask /\ task_state[t] \notin Pending /\ task_state[t] # "K_RDY"
      /\ g_active_task \in AllTask
  BY Consts, StateNames DEF wait_abort_nonpend, IInv, TypeOK
<1>1. /\ UNCHANGED <<blk_list, blk_obj, obj_type, mutex_task, prio, call>>
      /\ task_state' = [task_state EXCEPT ![t] = "K_RDY"]
      /\ g_ready_queue' = ready_list_add(g_ready_queue, t)
      /\ tick_list_rm(t)
  BY DEF wait_abort_nonpend
<1>2. /\ task_state' \in [AllTask -> TaskStat]
      /\ IdleReady' /\ WaitersListed'
      /\ \A u \in AllTask : task_state'[u] \in Pending =>
           task_state[u] \in Pending /\ blk_obj'[u] = blk_obj[u]
  BY <1>0, <1>1, StateStep, StateNames
<1>3. g_ready_queue' \in ReadyQueue /\ ReadyQueueOK'
  BY <1>0, <1>1, BecomesReady DEF ReadyQueueOK
<1>4. TypeOK'
  <2>1. tick_match' \in [AllTask -> Tick] /\ g_tick_head' \in Seq(AllTask)
    BY <1>0, <1>1, TickRmType DEF IInv
  <2>2. blk_state' \in [AllTask -> BlkStat]
    BY <1>0 DEF wait_abort_nonpend, IInv, TypeOK, BlkStat
  <2>3. /\ UNCHANGED <<suspend_count, blk_obj, call, priVars, objVars, mutexVars,
                       count, g_tick_count, schedVars, op, chg>>
        /\ pc' = "sched"
    BY DEF wait_abort_nonpend
  <2>. QED BY <1>2, <1>3, <2>1, <2>2, <2>3 DEF IInv, TypeOK, PC
<1>5. WaitersOwned'
  BY <1>1, <1>2, OwnersKept
<1>6. ActiveReady' /\ CallOK'
  BY <1>0, <1>1 DEF wait_abort_nonpend, IInv, TypeOK, ActiveReady, CallOK
<1>. QED BY <1>2, <1>3, <1>4, <1>5, <1>6 DEF IInv

\* krhino_task_wait_abort takes a waiter off its block list.
LEMMA WaitAbortPend ==
    ASSUME IInv, NEW t \in Task, wait_abort_pend(t)
    PROVE  IInv'
<1>0. /\ t \in AllTask /\ task_state[t] \in Pending /\ task_state[t] # "K_RDY"
      /\ g_active_task \in AllTask
  BY Consts, StateNames DEF wait_abort_pend, IInv, TypeOK
<1>1. /\ UNCHANGED <<blk_obj, obj_type, mutex_task, prio, call>>
      /\ blk_list' = [blk_list EXCEPT ![blk_obj[t]] = klist_rm(@, t)]
      /\ task_state' = [task_state EXCEPT ![t] = "K_RDY"]
      /\ g_ready_queue' = ready_list_add(g_ready_queue, t)
      /\ tick_list_rm(t)
      /\ chg' = mutex_task_pri_reset(t, blk_list')
      /\ op' = [fn |-> "abort", task |-> t, obj |-> NULL, ticks |-> 0]
      /\ pc' = "pri"
  BY DEF wait_abort_pend, StartPriChange
<1>2. /\ task_state' \in [AllTask -> TaskStat]
      /\ blk_list' \in [Obj -> Seq(AllTask)]
      /\ IdleReady' /\ WaitersListed'
      /\ \A u \in AllTask : task_state'[u] \in Pending =>
           task_state[u] \in Pending /\ blk_obj'[u] = blk_obj[u]
  BY <1>0, <1>1, LeaveStep, StateNames
<1>3. g_ready_queue' \in ReadyQueue /\ ReadyQueueOK'
  BY <1>0, <1>1, BecomesReady DEF ReadyQueueOK
<1>4. chg' \in Change
  BY <1>0, <1>1, <1>2, ResetType
<1>5. TypeOK'
  <2>1. tick_match' \in [AllTask -> Tick] /\ g_tick_head' \in Seq(AllTask)
    BY <1>0, <1>1, TickRmType DEF IInv
  <2>2. blk_state' \in [AllTask -> BlkStat]
    BY <1>0 DEF wait_abort_pend, IInv, TypeOK, BlkStat
  <2>3. op' \in [fn : Fn, task : AllTask \cup {NULL}, obj : Obj \cup {NULL}, ticks : Tick]
    BY <1>0, <1>1, Consts DEF Fn
  <2>4. chg' \in [task : AllTask \cup {NULL}, pri : Prio]
    BY <1>4, Consts DEF Change
  <2>5. UNCHANGED <<suspend_count, blk_obj, call, priVars, obj_type,
                    mutexVars, count, g_tick_count, schedVars>>
    BY DEF wait_abort_pend
  <2>6. pc' \in PC
    BY <1>1 DEF PC
  <2>. QED BY <1>2, <1>3, <2>1, <2>2, <2>3, <2>4, <2>5, <2>6 DEF IInv, TypeOK
<1>6. WaitersOwned'
  BY <1>1, <1>2, OwnersKept
<1>7. ActiveReady'
  <2>1. UNCHANGED <<g_active_task, g_sched_lock>>
    BY DEF wait_abort_pend
  <2>. QED BY <1>0, <1>1, <2>1 DEF IInv, TypeOK, ActiveReady
<1>8. CallOK'
  <2>1. task_state'[t] \notin Pending /\ chg'.task \in Task \cup {NULL}
    BY <1>0, <1>1, <1>4, StateNames DEF IInv, TypeOK, Change
  <2>. QED BY <1>1, <2>1 DEF CallOK
<1>. QED BY <1>2, <1>3, <1>5, <1>6, <1>7, <1>8 DEF IInv

\* blk_obj is cleared last, of a task that does not wait any more.
LEMMA PendLeft ==
    ASSUME IInv, pend_left
    PROVE  IInv'
<1>. DEFINE t == op.task
<1>0. t \in Task /\ t \in AllTask /\ task_state[t] \notin Pending
  BY Consts DEF pend_left, PriChanged, IInv, CallOK
<1>1. /\ blk_obj' = [blk_obj EXCEPT ![t] = NULL] /\ op' = NoOp /\ pc' \in {"tick", "sched"}
      /\ UNCHANGED <<task_state, suspend_count, blk_state, call, priVars, objVars,
                     mutexVars, count, tickVars, g_ready_queue, schedVars, chg>>
  BY DEF pend_left
<1>. HIDE DEF t
<1>2. TypeOK'
  BY <1>0, <1>1, Consts DEF IInv, TypeOK, PC
<1>3. \A u \in AllTask : task_state[u] \in Pending => blk_obj'[u] = blk_obj[u]
  BY <1>0, <1>1 DEF IInv, TypeOK
<1>4. WaitersListed'
  <2>1. \A o \in Obj : ToSet(blk_list[o]) \subseteq AllTask
    BY ToSetProps DEF IInv, TypeOK
  <2>2. \A u \in AllTask : task_state'[u] \in Pending =>
          /\ blk_obj'[u] \in Obj /\ call'[u] = blk_obj'[u]
          /\ u \in ToSet(blk_list'[blk_obj'[u]])
    BY <1>1, <1>3 DEF IInv, WaitersListed
  <2>3. \A o \in Obj :
          /\ \A u \in ToSet(blk_list'[o]) : task_state'[u] \in Pending /\ blk_obj'[u] = o
          /\ IsInjective(blk_list'[o])
    BY <1>1, <1>3, <2>1 DEF IInv, WaitersListed
  <2>. QED BY <2>2, <2>3 DEF WaitersListed
<1>5. WaitersOwned'
  BY <1>1, <1>3, OwnersKept
<1>6. ActiveReady' /\ IdleReady' /\ ReadyQueueOK' /\ CallOK'
  BY <1>1 DEF IInv, ActiveReady, IdleReady, ReadyQueueOK, CallOK
<1>. QED BY <1>2, <1>4, <1>5, <1>6 DEF IInv

\* A deleted task leaves the ready list or the list it waits on.
LEMMA TaskDelUnlink ==
    ASSUME IInv, task_del_unlink
    PROVE  IInv'
<1>. DEFINE t == op.task
<1>0. /\ t \in Task /\ t \in AllTask /\ op.fn = "del"
      /\ (t = g_active_task => g_sched_lock = 0) /\ g_active_task \in AllTask
  BY Consts DEF task_del_unlink, IInv, CallOK, TypeOK
<1>1. /\ blk_list' = IF task_state[t] \in Pending
                     THEN [blk_list EXCEPT ![blk_obj[t]] = klist_rm(@, t)] ELSE blk_list
      /\ task_state' = [task_state EXCEPT ![t] = "K_DELETED"]
      /\ g_ready_queue' = IF task_state[t] = "K_RDY"
                          THEN ready_list_rm(g_ready_queue, t) ELSE g_ready_queue
      /\ blk_obj' = [blk_obj EXCEPT ![t] = NULL]
      /\ call' = [call EXCEPT ![t] = NULL]
      /\ tick_list_rm(t)
      /\ chg' = IF task_state[t] \in Pending
                THEN mutex_task_pri_reset(t, blk_list') ELSE NoChg
      /\ pc' = "pri"
      /\ UNCHANGED <<suspend_count, blk_state, priVars, obj_type, mutexVars,
                     count, g_tick_count, schedVars, op>>
  BY DEF task_del_unlink
<1>. HIDE DEF t
<1>2. \A u \in AllTask : u # t => blk_obj'[u] = blk_obj[u] /\ call'[u] = call[u]
  BY <1>1 DEF IInv, TypeOK
<1>3. /\ task_state' \in [AllTask -> TaskStat]
      /\ blk_list' \in [Obj -> Seq(AllTask)]
      /\ IdleReady' /\ WaitersListed'
      /\ \A u \in AllTask : task_state'[u] \in Pending =>
           task_state[u] \in Pending /\ blk_obj'[u] = blk_obj[u]
  <2>1. "K_DELETED" \in TaskStat /\ "K_DELETED" \notin Pending
    BY StateNames
  <2>2. CASE task_state[t] \in Pending
    BY <1>0, <1>1, <1>2, <2>1, <2>2, LeaveStep
  <2>3. CASE task_state[t] \notin Pending
    <3>1. blk_list' = blk_list /\ blk_list' \in [Obj -> Seq(AllTask)]
      BY <1>1, <2>3 DEF IInv, TypeOK
    <3>. QED BY <1>0, <1>1, <1>2, <2>1, <2>3, <3>1, StateStep
  <2>. QED BY <2>2, <2>3
<1>4. g_ready_queue' \in ReadyQueue /\ ReadyQueueOK'
  <2>1. "K_DELETED" \in TaskStat /\ "K_DELETED" # "K_RDY"
    BY StateNames
  <2>2. CASE task_state[t] = "K_RDY"
    BY <1>0, <1>1, <2>1, <2>2, LeavesReady DEF ReadyQueueOK
  <2>3. CASE task_state[t] # "K_RDY"
    <3>1. ReadyQueueMatches(g_ready_queue, [task_state EXCEPT ![t] = "K_DELETED"], prio)
      BY <1>0, <2>1, <2>3, StaysUnready
    <3>2. g_ready_queue' \in ReadyQueue
      BY <1>1, <2>3 DEF IInv, TypeOK
    <3>. QED BY <1>1, <2>3, <3>1, <3>2 DEF ReadyQueueOK
  <2>. QED BY <2>2, <2>3
<1>5. chg' \in Change
  <2>1. CASE task_state[t] \in Pending
    BY <1>0, <1>1, <1>3, <2>1, ResetType
  <2>2. CASE task_state[t] \notin Pending
    BY <1>1, <2>2, Consts
  <2>. QED BY <2>1, <2>2
<1>6. TypeOK'
  <2>1. tick_match' \in [AllTask -> Tick] /\ g_tick_head' \in Seq(AllTask)
    BY <1>0, <1>1, TickRmType DEF IInv
  <2>2. blk_obj' \in [AllTask -> Obj \cup {NULL}] /\ call' \in [AllTask -> Obj \cup {NULL, "sleep"}]
    BY <1>1 DEF IInv, TypeOK
  <2>3. chg' \in [task : AllTask \cup {NULL}, pri : Prio]
    BY <1>5, Consts DEF Change
  <2>. QED BY <1>1, <1>3, <1>4, <2>1, <2>2, <2>3 DEF IInv, TypeOK, PC
<1>7. WaitersOwned'
  BY <1>1, <1>3, OwnersKept
<1>8. ActiveReady'
  BY <1>0, <1>1 DEF IInv, TypeOK, ActiveReady
<1>9. CallOK'
  <2>1. chg'.task \in Task \cup {NULL}
    BY <1>5 DEF Change
  <2>. QED BY <1>0, <1>1, <2>1 DEF CallOK
<1>. QED BY <1>3, <1>4, <1>6, <1>7, <1>8, <1>9 DEF IInv

\* The head of the tick list is a user task when it sleeps or waits.
LEMMA TickHeadTask ==
    ASSUME IInv, TickHeadExpired, task_state[Head(g_tick_head)] \in Sleeping \cup Pending
    PROVE  Head(g_tick_head) \in Task /\ Head(g_tick_head) \in AllTask
<1>1. Head(g_tick_head) \in AllTask
  <2>1. g_tick_head \in Seq(AllTask) /\ g_tick_head # <<>>
    BY DEF TickHeadExpired, IInv, TypeOK
  <2>. QED BY <2>1
<1>2. Head(g_tick_head) # IdleTask
  BY StateNames DEF IInv, IdleReady
<1>. QED BY <1>1, <1>2, Consts

\* A sleeper whose time has come becomes ready unless it is suspended.
LEMMA TickExpireSleep ==
    ASSUME IInv, tick_expire_sleep
    PROVE  IInv'
<1>. DEFINE t == Head(g_tick_head)
            x == IF task_state[t] = "K_SLEEP" THEN "K_RDY" ELSE "K_SUSPENDED"
<1>0. t \in Task /\ t \in AllTask /\ task_state[t] \in Sleeping /\ pc = "tick"
  BY TickHeadTask DEF tick_expire_sleep
<1>1. /\ task_state' = [task_state EXCEPT ![t] = x]
      /\ blk_state' = [blk_state EXCEPT ![t] = "BLK_FINISH"]
      /\ g_ready_queue' = IF task_state[t] = "K_SLEEP"
                          THEN ready_list_add(g_ready_queue, t) ELSE g_ready_queue
      /\ tick_list_rm(t)
      /\ UNCHANGED <<suspend_count, blk_obj, call, priVars, objVars, mutexVars,
                     count, g_tick_count, schedVars, ctlVars>>
  BY DEF tick_expire_sleep
<1>2. /\ x \in TaskStat /\ x \notin Pending /\ task_state[t] \notin Pending
      /\ task_state[t] # "K_RDY" /\ (x = "K_RDY" <=> task_state[t] = "K_SLEEP")
  BY <1>0, StateNames
<1>. HIDE DEF t, x
<1>3. /\ task_state' \in [AllTask -> TaskStat]
      /\ IdleReady' /\ WaitersListed'
      /\ \A u \in AllTask : task_state'[u] \in Pending =>
           task_state[u] \in Pending /\ blk_obj'[u] = blk_obj[u]
  BY <1>0, <1>1, <1>2, StateStep
<1>4. g_ready_queue' \in ReadyQueue /\ ReadyQueueOK'
  <2>1. CASE task_state[t] = "K_SLEEP"
    BY <1>0, <1>1, <1>2, <2>1, BecomesReady DEF ReadyQueueOK
  <2>2. CASE task_state[t] # "K_SLEEP"
    <3>1. ReadyQueueMatches(g_ready_queue, [task_state EXCEPT ![t] = x], prio)
      BY <1>0, <1>2, <2>2, StaysUnready
    <3>2. g_ready_queue' \in ReadyQueue
      BY <1>1, <2>2 DEF IInv, TypeOK
    <3>. QED BY <1>1, <2>2, <3>1, <3>2 DEF ReadyQueueOK
  <2>. QED BY <2>1, <2>2
<1>5. TypeOK'
  <2>1. tick_match' \in [AllTask -> Tick] /\ g_tick_head' \in Seq(AllTask)
    BY <1>0, <1>1, TickRmType DEF IInv
  <2>2. blk_state' \in [AllTask -> BlkStat]
    BY <1>1 DEF IInv, TypeOK, BlkStat
  <2>. QED BY <1>1, <1>3, <1>4, <2>1, <2>2 DEF IInv, TypeOK
<1>6. WaitersOwned'
  BY <1>1, <1>3, OwnersKept
<1>7. ActiveReady' /\ CallOK'
  BY <1>0, <1>1, <1>2 DEF IInv, TypeOK, ActiveReady, CallOK
<1>. QED BY <1>3, <1>4, <1>5, <1>6, <1>7 DEF IInv

\* A waiter whose time has come leaves its block list.
LEMMA TickExpirePend ==
    ASSUME IInv, tick_expire_pend
    PROVE  IInv'
<1>. DEFINE t == Head(g_tick_head)
            x == IF task_state[t] = "K_PEND" THEN "K_RDY" ELSE "K_SUSPENDED"
<1>0. t \in Task /\ t \in AllTask /\ task_state[t] \in Pending /\ g_active_task \in AllTask
  BY TickHeadTask DEF tick_expire_pend, IInv, TypeOK
<1>1. /\ blk_list' = [blk_list EXCEPT ![blk_obj[t]] = klist_rm(@, t)]
      /\ task_state' = [task_state EXCEPT ![t] = x]
      /\ blk_state' = [blk_state EXCEPT ![t] = "BLK_TIMEOUT"]
      /\ g_ready_queue' = IF task_state[t] = "K_PEND"
                          THEN ready_list_add(g_ready_queue, t) ELSE g_ready_queue
      /\ tick_list_rm(t)
      /\ chg' = mutex_task_pri_reset(t, blk_list')
      /\ op' = [fn |-> "tick", task |-> t, obj |-> NULL, ticks |-> 0]
      /\ pc' = "pri"
      /\ UNCHANGED <<suspend_count, blk_obj, call, priVars, obj_type,
                     mutexVars, count, g_tick_count, schedVars>>
  BY DEF tick_expire_pend, StartPriChange
<1>2. /\ x \in TaskStat /\ x \notin Pending /\ task_state[t] # "K_RDY"
      /\ (x = "K_RDY" <=> task_state[t] = "K_PEND")
  BY <1>0, StateNames
<1>. HIDE DEF t, x
<1>3. /\ task_state' \in [AllTask -> TaskStat]
      /\ blk_list' \in [Obj -> Seq(AllTask)]
      /\ IdleReady' /\ WaitersListed'
      /\ \A u \in AllTask : task_state'[u] \in Pending =>
           task_state[u] \in Pending /\ blk_obj'[u] = blk_obj[u]
  BY <1>0, <1>1, <1>2, LeaveStep
<1>4. g_ready_queue' \in ReadyQueue /\ ReadyQueueOK'
  <2>1. CASE task_state[t] = "K_PEND"
    BY <1>0, <1>1, <1>2, <2>1, BecomesReady DEF ReadyQueueOK
  <2>2. CASE task_state[t] # "K_PEND"
    <3>1. ReadyQueueMatches(g_ready_queue, [task_state EXCEPT ![t] = x], prio)
      BY <1>0, <1>2, <2>2, StaysUnready
    <3>2. g_ready_queue' \in ReadyQueue
      BY <1>1, <2>2 DEF IInv, TypeOK
    <3>. QED BY <1>1, <2>2, <3>1, <3>2 DEF ReadyQueueOK
  <2>. QED BY <2>1, <2>2
<1>5. chg' \in Change
  BY <1>0, <1>1, <1>3, ResetType
<1>6. TypeOK'
  <2>1. tick_match' \in [AllTask -> Tick] /\ g_tick_head' \in Seq(AllTask)
    BY <1>0, <1>1, TickRmType DEF IInv
  <2>2. blk_state' \in [AllTask -> BlkStat]
    BY <1>1 DEF IInv, TypeOK, BlkStat
  <2>3. op' \in [fn : Fn, task : AllTask \cup {NULL}, obj : Obj \cup {NULL}, ticks : Tick]
    BY <1>0, <1>1, Consts DEF Fn
  <2>4. chg' \in [task : AllTask \cup {NULL}, pri : Prio]
    BY <1>5, Consts DEF Change
  <2>5. pc' \in PC
    BY <1>1 DEF PC
  <2>. QED BY <1>1, <1>3, <1>4, <2>1, <2>2, <2>3, <2>4, <2>5 DEF IInv, TypeOK
<1>7. WaitersOwned'
  BY <1>1, <1>3, OwnersKept
<1>8. ActiveReady'
  BY <1>0, <1>1, <1>2 DEF IInv, TypeOK, ActiveReady
<1>9. CallOK'
  <2>1. task_state'[t] \notin Pending /\ chg'.task \in Task \cup {NULL}
    BY <1>0, <1>1, <1>2, <1>5 DEF IInv, TypeOK, Change
  <2>. QED BY <1>0, <1>1, <2>1 DEF CallOK
<1>. QED BY <1>3, <1>4, <1>6, <1>7, <1>8, <1>9 DEF IInv

\* tick_done and krhino_task_yield may rotate a ready list.
LEMMA Rotates ==
    ASSUME IInv, tick_done \/ krhino_task_yield
    PROVE  IInv'
<1>. DEFINE p == prio[g_active_task]
<1>0. p \in Prio /\ g_ready_queue \in ReadyQueue
      /\ ReadyQueueMatches(g_ready_queue, task_state, prio)
  BY DEF IInv, TypeOK, ReadyQueueOK
<1>1. \/ g_ready_queue' = g_ready_queue
      \/ /\ g_ready_queue.cur_list_item[p] # <<>>
         /\ g_ready_queue' = ready_list_head_to_tail(g_ready_queue, p)
  <2>0. g_ready_queue.cur_list_item[p] \in Seq(AllTask)
    BY <1>0 DEF ReadyQueue
  <2>1. CASE tick_done
    BY <2>0, <2>1 DEF tick_done, time_slice_update
  <2>2. CASE krhino_task_yield
    <3>1. g_active_task \in ToSet(g_ready_queue.cur_list_item[p])
      BY <1>0, <2>2 DEF krhino_task_yield, TaskCalls, InTask, IInv, ActiveReady, TypeOK, ReadyQueueMatches
    <3>2. g_ready_queue.cur_list_item[p] # <<>>
      BY <2>0, <3>1, ToSetProps
    <3>. QED BY <2>2, <3>2 DEF krhino_task_yield
  <2>. QED BY <2>1, <2>2
<1>2. g_ready_queue' \in ReadyQueue /\ ReadyQueueMatches(g_ready_queue', task_state, prio)
  <2>. HIDE DEF p
  <2>. QED BY <1>0, <1>1, ReadyRotate
<1>3. /\ UNCHANGED <<taskVars, priVars, objVars, mutexVars, count, tickVars, schedVars, op, chg>>
      /\ pc' = "sched"
  BY DEF tick_done, krhino_task_yield
<1>4. ReadyQueueOK'
  BY <1>2, <1>3 DEF ReadyQueueOK
<1>5. TypeOK'
  BY <1>2, <1>3 DEF IInv, TypeOK, PC
<1>6. IdleReady' /\ ActiveReady' /\ WaitersListed' /\ WaitersOwned' /\ CallOK'
  BY <1>3 DEF IInv, IdleReady, ActiveReady, WaitersListed, WaitersOwned, CallOK
<1>. QED BY <1>4, <1>5, <1>6 DEF IInv

-----------------------------------------------------------------------------
(***************************************************************************)
(* One step of the priority inheritance loop.                              *)
(***************************************************************************)
LEMMA TaskPriChangeLoop ==
    ASSUME IInv, task_pri_change
    PROVE  IInv'
<1>. DEFINE t == chg.task
            pri == chg.pri
            pr == [prio EXCEPT ![t] = pri]
<1>0. /\ t \in Task /\ t \in AllTask /\ pri \in Prio /\ pc = "pri"
      /\ prio \in [AllTask -> Prio] /\ task_state \in [AllTask -> TaskStat]
      /\ blk_list \in [Obj -> Seq(AllTask)] /\ g_ready_queue \in ReadyQueue
      /\ UNCHANGED <<taskVars, b_prio, obj_type, mutexVars, count, tickVars, schedVars, pc, op>>
  BY Consts DEF task_pri_change, IInv, TypeOK, CallOK
<1>. HIDE DEF t, pri
<1>1. pr \in [AllTask -> Prio]
  BY <1>0
<1>2. CASE pri_change_same
  <2>1. chg' = NoChg /\ UNCHANGED <<prio, g_ready_queue, blk_list>>
    BY <1>2 DEF pri_change_same
  <2>2. ReadyQueueOK' /\ IdleReady' /\ WaitersListed' /\ WaitersOwned'
    BY <1>0, <2>1, Unchanged
  <2>3. TypeOK'
    BY <1>0, <2>1, Consts DEF IInv, TypeOK, Change
  <2>4. ActiveReady' /\ CallOK'
    BY <1>0, <2>1, Consts DEF IInv, ActiveReady, CallOK, Change
  <2>. QED BY <2>2, <2>3, <2>4 DEF IInv
<1>3. CASE pri_change_ready \/ pri_change_idle
  <2>1. chg' = NoChg /\ prio' = pr /\ UNCHANGED blk_list
    BY <1>3 DEF pri_change_ready, pri_change_idle, t, pri
  <2>2. g_ready_queue' \in ReadyQueue /\ ReadyQueueMatches(g_ready_queue', task_state, pr)
    <3>0. ReadyQueueMatches(g_ready_queue, task_state, prio)
      BY DEF IInv, ReadyQueueOK
    <3>1. CASE pri_change_idle
      <4>1. task_state[t] # "K_RDY" /\ g_ready_queue' = g_ready_queue
        BY <3>1, StateNames DEF pri_change_idle, t
      <4>2. \A u \in AllTask : /\ task_state[u] = "K_RDY" <=> task_state[u] = "K_RDY"
                               /\ task_state[u] = "K_RDY" => pr[u] = prio[u]
        BY <1>0, <4>1
      <4>. HIDE DEF pr
      <4>. QED BY <1>0, <3>0, <4>1, <4>2, ReadyFrame
    <3>2. CASE pri_change_ready
      <4>. DEFINE rq == ready_list_rm(g_ready_queue, t)
                  q == g_ready_queue'
                  st == [task_state EXCEPT ![t] = "K_SUSPENDED"]
      <4>1. /\ task_state[t] = "K_RDY"
            /\ q \in {ready_list_add_tail(rq, t, pri), ready_list_add_head(rq, t, pri)}
        BY <3>2 DEF pri_change_ready, t, pri
      <4>2. rq \in ReadyQueue /\ ReadyQueueMatches(rq, st, prio)
        <5>1. "K_SUSPENDED" \in TaskStat /\ "K_SUSPENDED" # "K_RDY"
          BY StateNames
        <5>. QED BY <1>0, <4>1, <5>1, LeavesReady
      <4>3. st \in TaskStates /\ st[t] # "K_RDY"
        BY <1>0, StateNames DEF TaskStates
      <4>4. pr[t] = pri /\ pr \in TaskPris
        BY <1>0, <1>1 DEF TaskPris
      <4>5. \A u \in AllTask : /\ st[u] = "K_RDY" <=> st[u] = "K_RDY"
                               /\ st[u] = "K_RDY" => pr[u] = prio[u]
        BY <1>0, <4>3
      <4>6. [st EXCEPT ![t] = "K_RDY"] = task_state
        BY <1>0, <4>1
      <4>. HIDE DEF rq, q, st, pr
      <4>7. ReadyQueueMatches(rq, st, pr)
        BY <4>2, <4>5, ReadyFrame
      <4>8. q \in ReadyQueue /\ ReadyQueueMatches(q, [st EXCEPT ![t] = "K_RDY"], pr)
        BY <1>0, <4>1, <4>2, <4>3, <4>4, <4>7, ReadyAdd, ZenonT(40)
      <4>. QED BY <4>6, <4>8 DEF q
    <3>. QED BY <1>3, <3>1, <3>2
  <2>3. ReadyQueueOK'
    BY <1>0, <2>1, <2>2 DEF ReadyQueueOK
  <2>4. TypeOK'
    BY <1>0, <1>1, <2>1, <2>2, Consts DEF IInv, TypeOK, Change
  <2>5. IdleReady' /\ WaitersListed' /\ WaitersOwned'
    BY <1>0, <2>1 DEF IInv, IdleReady, WaitersListed, WaitersOwned
  <2>6. ActiveReady' /\ CallOK'
    BY <1>0, <2>1, Consts DEF IInv, ActiveReady, CallOK, Change
  <2>. QED BY <2>3, <2>4, <2>5, <2>6 DEF IInv
<1>4. CASE pri_change_pend
  <2>. DEFINE o == blk_obj[t]
              L == pend_list_reorder(blk_list[o], t, pr)
  <2>1. /\ task_state[t] \in Pending /\ prio' = pr
        /\ blk_list' = [blk_list EXCEPT ![o] = L]
        /\ chg' = next_owner(t, o, blk_list', pr)
        /\ g_ready_queue' = g_ready_queue
    BY <1>4 DEF pri_change_pend, t, pri
  <2>2. o \in Obj /\ t \in ToSet(blk_list[o]) /\ IsInjective(blk_list[o])
    BY <1>0, <2>1 DEF IInv, WaitersListed
  <2>3. L \in Seq(AllTask) /\ ToSet(L) = ToSet(blk_list[o]) /\ IsInjective(L)
    <3>. DEFINE s == blk_list[o]
                r == klist_rm(s, t)
    <3>1. s \in Seq(AllTask) /\ IsInjective(s) /\ t \in ToSet(s)
      BY <1>0, <2>2
    <3>. HIDE DEF s, pr
    <3>2. r \in Seq(AllTask) /\ ToSet(r) = ToSet(s) \ {t} /\ IsInjective(r)
      BY <3>1, KlistRm
    <3>. HIDE DEF r
    <3>3. /\ pend_list_add(r, t, pr) \in Seq(AllTask)
          /\ ToSet(pend_list_add(r, t, pr)) = ToSet(r) \cup {t}
          /\ IsInjective(r) /\ t \notin ToSet(r) => IsInjective(pend_list_add(r, t, pr))
      BY <1>0, <3>2, PendListAdd
    <3>4. L = pend_list_add(r, t, pr)
      BY DEF pend_list_reorder, r, s
    <3>. QED BY <3>1, <3>2, <3>3, <3>4 DEF s
  <2>. HIDE DEF L
  <2>4. blk_list' \in [Obj -> Seq(AllTask)]
    BY <1>0, <2>1, <2>3
  <2>5. chg' \in Change
    BY <1>0, <1>1, <2>1, <2>4, NextOwnerType
  <2>6. ReadyQueueOK'
    <3>1. \A u \in AllTask : /\ task_state[u] = "K_RDY" <=> task_state[u] = "K_RDY"
                             /\ task_state[u] = "K_RDY" => pr[u] = prio[u]
      BY <1>0, <2>1, StateNames
    <3>2. ReadyQueueMatches(g_ready_queue, task_state, prio)
      BY DEF IInv, ReadyQueueOK
    <3>. HIDE DEF pr
    <3>3. ReadyQueueMatches(g_ready_queue, task_state, pr)
      BY <3>1, <3>2, ReadyFrame
    <3>. QED BY <1>0, <2>1, <3>3 DEF ReadyQueueOK
  <2>7. TypeOK'
    <3>1. chg' \in [task : AllTask \cup {NULL}, pri : Prio]
      BY <2>5, Consts DEF Change
    <3>. QED BY <1>0, <1>1, <2>1, <2>4, <3>1 DEF IInv, TypeOK
  <2>8. WaitersListed'
    <3>1. \A w \in Obj : /\ ToSet(blk_list'[w]) = ToSet(blk_list[w])
                         /\ IsInjective(blk_list[w]) => IsInjective(blk_list'[w])
      BY <1>0, <2>1, <2>3
    <3>. QED BY <1>0, <3>1 DEF IInv, WaitersListed
  <2>9. IdleReady' /\ WaitersOwned' /\ ActiveReady'
    BY <1>0 DEF IInv, IdleReady, WaitersOwned, ActiveReady
  <2>10. CallOK'
    BY <1>0, <2>5 DEF IInv, CallOK, Change
  <2>. QED BY <2>6, <2>7, <2>8, <2>9, <2>10 DEF IInv
<1>. QED BY <1>2, <1>3, <1>4 DEF task_pri_change

-----------------------------------------------------------------------------
\* After krhino_start the invariant holds.
LEMMA InitIInv == Init => IInv
<1>. SUFFICES ASSUME Init PROVE IInv
  OBVIOUS
<1>. DEFINE p == BasePri[MainTask]
            i == RHINO_IDLE_PRI
<1>0. /\ p \in Prio /\ i \in Prio /\ p < i /\ p # i
      /\ MainTask \in AllTask /\ IdleTask \in AllTask /\ MainTask # IdleTask
  <2>1. BasePri[MainTask] \in 0 .. PRI_MAX - 2 /\ PRI_MAX \in Nat
    BY PriAssumption, TasksAssumption
  <2>. QED BY <2>1, Consts DEF Prio, RHINO_IDLE_PRI
<1>1. prio \in [AllTask -> Prio] /\ prio[MainTask] = p /\ prio[IdleTask] = i
  BY <1>0, Consts DEF Init
<1>2. \A t \in AllTask : task_state[t] = "K_RDY" <=> t \in {IdleTask, MainTask}
  BY DEF Init
<1>3. g_ready_queue \in ReadyQueue /\ ReadyQueueOK
  <2>. DEFINE c == [q \in Prio |-> IF q = i THEN <<IdleTask>>
                                   ELSE IF q = p THEN <<MainTask>> ELSE <<>>]
  <2>1. g_ready_queue = [cur_list_item |-> c, task_bit_map |-> {i, p}, highest_pri |-> p]
    BY DEF Init
  <2>2. \A u \in AllTask : /\ <<u>> \in Seq(AllTask) /\ <<u>> # <<>>
                           /\ ToSet(<<u>>) = {u} /\ IsInjective(<<u>>)
    BY DEF ToSet, IsInjective
  <2>3. <<>> \in Seq(AllTask) /\ ToSet(<<>>) = {} /\ IsInjective(<<>>)
    BY DEF ToSet, IsInjective
  <2>4. c \in [Prio -> Seq(AllTask)]
    BY <1>0, <2>2, <2>3
  <2>5. \A q \in Prio : c[q] = IF q = i THEN <<IdleTask>>
                               ELSE IF q = p THEN <<MainTask>> ELSE <<>>
    OBVIOUS
  <2>. HIDE DEF c, p, i
  <2>6. g_ready_queue \in ReadyQueue
    BY <1>0, <2>1, <2>4 DEF ReadyQueue
  <2>7. ASSUME NEW q \in Prio
        PROVE  /\ ToSet(c[q]) = {t \in AllTask : task_state[t] = "K_RDY" /\ prio[t] = q}
               /\ IsInjective(c[q])
               /\ q \in {i, p} <=> c[q] # <<>>
    <3>1. CASE q = i
      BY <1>0, <1>1, <1>2, <2>2, <2>5, <3>1
    <3>2. CASE q = p
      BY <1>0, <1>1, <1>2, <2>2, <2>5, <3>2
    <3>3. CASE q \notin {i, p}
      BY <1>0, <1>1, <1>2, <2>3, <2>5, <3>3
    <3>. QED BY <3>1, <3>2, <3>3
  <2>8. p \in {i, p} /\ \A q \in {i, p} : p <= q
    BY <1>0, PriAssumption DEF Prio
  <2>. QED BY <2>1, <2>6, <2>7, <2>8 DEF ReadyQueueOK, ReadyQueueMatches
<1>4. TypeOK
  <2>1. task_state \in [AllTask -> TaskStat]
    BY DEF Init, TaskStat, Dead
  <2>2. b_prio \in [AllTask -> Prio]
    BY <1>1 DEF Init
  <2>3. suspend_count \in [AllTask -> Nat] /\ blk_state \in [AllTask -> BlkStat]
    BY DEF Init, BlkStat
  <2>4. /\ blk_obj \in [AllTask -> Obj \cup {NULL}]
        /\ mutex_list \in [AllTask -> Seq(Mutex)]
        /\ tick_match \in [AllTask -> Tick]
        /\ call \in [AllTask -> Obj \cup {NULL, "sleep"}]
    BY Consts DEF Init
  <2>5. obj_type \in [Obj -> ObjType] /\ blk_list \in [Obj -> Seq(AllTask)]
    BY DEF Init, ObjType
  <2>6. /\ mutex_task \in [Mutex -> AllTask \cup {NULL}]
        /\ owner_nested \in [Mutex -> 0 .. NestMax] /\ count \in [Sem -> 0 .. SemMax]
    BY BoundsAssumption DEF Init
  <2>7. /\ g_tick_head \in Seq(AllTask) /\ g_tick_count \in Tick
        /\ g_active_task \in AllTask /\ g_sched_lock \in 0 .. LockMax /\ pc \in PC
    BY <1>0, Consts, BoundsAssumption DEF Init, PC
  <2>8. /\ op \in [fn : Fn, task : AllTask \cup {NULL}, obj : Obj \cup {NULL}, ticks : Tick]
        /\ chg \in [task : AllTask \cup {NULL}, pri : Prio]
    BY Consts DEF Init, Change
  <2>. QED BY <1>1, <1>3, <2>1, <2>2, <2>3, <2>4, <2>5, <2>6, <2>7, <2>8 DEF TypeOK
<1>5. IdleReady /\ ActiveReady
  BY <1>0, <1>2 DEF Init, IdleReady, ActiveReady
<1>6. \A t \in AllTask : task_state[t] \notin Pending
  BY DEF Init, Pending
<1>7. WaitersListed
  <2>1. ToSet(<<>>) = {} /\ IsInjective(<<>>)
    BY DEF ToSet, IsInjective
  <2>2. \A o \in Obj : blk_list[o] = <<>>
    BY DEF Init
  <2>. QED BY <1>6, <2>1, <2>2 DEF WaitersListed
<1>8. WaitersOwned
  <2>1. mutex_task \in [Mutex -> Task \cup {NULL}]
    BY DEF Init
  <2>2. \A s \in Sem : obj_type[s] = "RHINO_SEM_OBJ_TYPE"
    BY Consts DEF Init
  <2>. QED BY <1>6, <2>1, <2>2 DEF WaitersOwned
<1>9. CallOK
  BY Consts DEF Init, CallOK, Change
<1>. QED BY <1>3, <1>4, <1>5, <1>7, <1>8, <1>9 DEF IInv

\* Every step of the kernel keeps the invariant.
LEMMA NextIInv == IInv /\ [Next]_vars => IInv'
<1>. SUFFICES ASSUME IInv, [Next]_vars PROVE IInv'
  OBVIOUS
<1>1. CASE KernelStep
  BY <1>1, TaskPriChangeLoop, MutexLockPend, MutexUnlockFree, MutexUnlockHandover,
     LoopDone, DrainStep, PendLeft, TaskMutexFree, TaskDelUnlink, TickExpireSleep,
     TickExpirePend, Rotates DEF KernelStep
<1>2. CASE MutexCall
  BY <1>2, MutexCreate, MutexNested, MutexLockFree, MutexLockInherit,
     MutexUnlockRelease, MutexDel
     DEF MutexCall, krhino_mutex_lock, krhino_mutex_unlock
<1>3. CASE SemCall
  <2>1. 0 \in 0 .. SemMax
    BY BoundsAssumption
  <2>. QED BY <1>3, <2>1, SemCreate, SemCount, SemDel, SemGiveOne, SemGiveAll, SemTakePend
           DEF SemCall, krhino_sem_take
<1>4. CASE TaskCall
  BY <1>4, TaskCreate, TaskSuspend, TaskResume, TaskPriChange, WaitAbortNonpend,
     WaitAbortPend, TaskDel
     DEF TaskCall, krhino_task_wait_abort
<1>5. CASE CpuCall
  BY <1>5, TaskSleep, Rotates, SchedLock DEF CpuCall
<1>6. CASE core_sched \/ pend_state_end_proc \/ krhino_tick_proc
  BY <1>6, CoreSched, PendStateEnd, TickProc
<1>7. CASE UNCHANGED vars
  <2>1. UNCHANGED <<taskVars, priVars, objVars, mutexVars, count, tickVars,
                    g_ready_queue, schedVars, ctlVars>>
    BY <1>7 DEF vars
  <2>2. TypeOK'
    BY <2>1 DEF IInv, TypeOK
  <2>3. ReadyQueueOK' /\ IdleReady' /\ WaitersListed' /\ WaitersOwned'
    BY <2>1, Unchanged
  <2>4. ActiveReady' /\ CallOK'
    BY <2>1 DEF IInv, ActiveReady, CallOK
  <2>. QED BY <2>2, <2>3, <2>4 DEF IInv
<1>. QED BY <1>1, <1>2, <1>3, <1>4, <1>5, <1>6, <1>7 DEF Next

\* The inductive invariant holds in every reachable state of the kernel.
THEOREM KernelInvariant == Spec => []IInv
<1>1. Init => IInv
  BY InitIInv
<1>2. IInv /\ [Next]_vars => IInv'
  BY NextIInv
<1>. QED BY <1>1, <1>2, PTL DEF Spec

\* Type correctness: for any number of tasks, objects and priorities every
\* field of the kernel keeps its type; counters stay in their bounds, and
\* find_first_bit and mutex_pri_look always find a priority.
THEOREM KernelTypes == Spec => []TypeOK
<1>1. IInv => TypeOK
  BY DEF IInv
<1>. QED BY <1>1, KernelInvariant, PTL

\* The ready queue is consistent for any number of tasks and priorities:
\* each list holds exactly the ready tasks of its priority, and the bitmap and
\* the cached highest_pri that core_sched trusts agree with the lists.
THEOREM ReadyQueueConsistent == Spec => []ReadyQueueOK
<1>1. IInv => ReadyQueueOK
  BY DEF IInv
<1>. QED BY <1>1, KernelInvariant, PTL
-----------------------------------------------------------------------------
(***************************************************************************)
(* Suspension.  Only six operations suspend a task, take a suspension back *)
(* or overrule it; the others, those that wake a suspended task included,  *)
(* leave every task as suspended as it was.                                *)
(***************************************************************************)
\* The step leaves t suspended as often as it was.
SameSuspension(t) ==
    /\ suspend_count'[t] = suspend_count[t]
    /\ task_state'[t] \in Suspended <=> task_state[t] \in Suspended

\* The states a task moves between.
LEMMA SuspendNames ==
    /\ {"K_RDY", "K_SLEEP", "K_PEND", "K_SEED", "K_DELETED"} \cap Suspended = {}
    /\ "K_SUSPENDED" \in Suspended /\ "K_SLEEP_SUSPENDED" \in Suspended
    /\ "K_PEND_SUSPENDED" \in Suspended
BY DEF Suspended

\* A step that changes neither states nor counts.
LEMMA SuspendUntouched ==
    ASSUME UNCHANGED <<task_state, suspend_count>>
    PROVE  \A t \in AllTask : SameSuspension(t)
BY DEF SameSuspension

\* A step that takes one task to a state just as suspended.
LEMMA SuspendMove ==
    ASSUME IInv, NEW w, NEW x, task_state' = [task_state EXCEPT ![w] = x],
           UNCHANGED suspend_count,
           x \in Suspended <=> task_state[w] \in Suspended
    PROVE  \A t \in AllTask : SameSuspension(t)
BY DEF SameSuspension, IInv, TypeOK

\* Waking a waiter leaves it suspended if it was.
LEMMA SuspendWake ==
    ASSUME IInv, NEW w, NEW o, NEW why, pend_task_wakeup(w, o, why)
    PROVE  \A t \in AllTask : SameSuspension(t)
<1>1. UNCHANGED suspend_count
  BY DEF pend_task_wakeup
<1>2. CASE task_state[w] = "K_PEND" /\ task_state' = [task_state EXCEPT ![w] = "K_RDY"]
  BY <1>1, <1>2, SuspendMove, SuspendNames
<1>3. CASE /\ task_state[w] = "K_PEND_SUSPENDED"
           /\ task_state' = [task_state EXCEPT ![w] = "K_SUSPENDED"]
  BY <1>1, <1>3, SuspendMove, SuspendNames
<1>. QED BY <1>2, <1>3 DEF pend_task_wakeup

\* A ready task that starts to wait is not suspended.
LEMMA SuspendPend ==
    ASSUME IInv, NEW o, NEW t, NEW timeout, pend_to_blk_obj(o, t, timeout),
           task_state[t] = "K_RDY"
    PROVE  \A u \in AllTask : SameSuspension(u)
<1>1. /\ UNCHANGED suspend_count
      /\ task_state' = [task_state EXCEPT ![t] = "K_PEND"]
  BY DEF pend_to_blk_obj
<1>. QED BY <1>1, SuspendMove, SuspendNames

\* The tick handler ends waits and sleeps, not suspensions.
LEMMA SuspendTick ==
    ASSUME IInv, tick_expire_sleep \/ tick_expire_pend
    PROVE  \A t \in AllTask : SameSuspension(t)
<1>. DEFINE h == Head(g_tick_head)
<1>1. UNCHANGED suspend_count
  BY DEF tick_expire_sleep, tick_expire_pend
<1>2. CASE tick_expire_sleep
  <2>. DEFINE x == IF task_state[h] = "K_SLEEP" THEN "K_RDY" ELSE "K_SUSPENDED"
  <2>1. task_state[h] \in Sleeping /\ task_state' = [task_state EXCEPT ![h] = x]
    BY <1>2 DEF tick_expire_sleep
  <2>2. x \in Suspended <=> task_state[h] \in Suspended
    BY <2>1, SuspendNames DEF Sleeping
  <2>. HIDE DEF h, x
  <2>. QED BY <1>1, <2>1, <2>2, SuspendMove
<1>3. CASE tick_expire_pend
  <2>. DEFINE x == IF task_state[h] = "K_PEND" THEN "K_RDY" ELSE "K_SUSPENDED"
  <2>1. task_state[h] \in Pending /\ task_state' = [task_state EXCEPT ![h] = x]
    BY <1>3 DEF tick_expire_pend
  <2>2. x \in Suspended <=> task_state[h] \in Suspended
    BY <2>1, SuspendNames DEF Pending
  <2>. HIDE DEF h, x
  <2>. QED BY <1>1, <2>1, <2>2, SuspendMove
<1>. QED BY <1>2, <1>3

\* The steps with interrupts disabled, but for the end of krhino_task_del.
LEMMA KernelStepSuspension ==
    ASSUME IInv, KernelStep, ~task_del_unlink
    PROVE  \A t \in AllTask : SameSuspension(t)
<1>1. CASE mutex_lock_pend
  <2>1. task_state[op.task] = "K_RDY" /\ pend_to_blk_obj(op.obj, op.task, op.ticks)
    BY <1>1 DEF mutex_lock_pend, PriChanged, IInv, CallOK
  <2>. QED BY <2>1, SuspendPend
<1>2. CASE mutex_unlock_handover
  BY <1>2, SuspendWake DEF mutex_unlock_handover
<1>3. CASE drain_step
  BY <1>3, SuspendWake DEF drain_step
<1>4. CASE task_mutex_free
  BY <1>4, SuspendWake, SuspendUntouched DEF task_mutex_free
<1>5. CASE tick_expire_sleep \/ tick_expire_pend
  BY <1>5, SuspendTick
<1>6. CASE \/ task_pri_change \/ mutex_unlock_free \/ mutex_del_wake \/ drain_done
           \/ pri_change_done \/ pend_left \/ tick_done
  BY <1>6, SuspendUntouched
     DEF task_pri_change, mutex_unlock_free, mutex_del_wake, drain_done,
         pri_change_done, pend_left, tick_done
<1>. QED BY <1>1, <1>2, <1>3, <1>4, <1>5, <1>6 DEF KernelStep

\* The calls on mutexes and semaphores.
LEMMA ObjectCallSuspension ==
    ASSUME IInv, MutexCall \/ SemCall
    PROVE  \A t \in AllTask : SameSuspension(t)
<1>1. CASE MutexCall
  BY <1>1, SuspendUntouched
     DEF MutexCall, krhino_mutex_create, krhino_mutex_lock, krhino_mutex_unlock,
         krhino_mutex_del, mutex_lock_nested, mutex_lock_free, mutex_lock_inherit,
         mutex_unlock_nested, mutex_unlock_release
<1>2. ASSUME NEW s \in Sem, sem_give_one(s)
      PROVE  \A t \in AllTask : SameSuspension(t)
  BY <1>2, SuspendWake DEF sem_give_one
<1>3. ASSUME NEW s \in Sem, NEW ticks \in Timeouts, sem_take_pend(s, ticks)
      PROVE  \A t \in AllTask : SameSuspension(t)
  <2>1. /\ task_state[g_active_task] = "K_RDY"
        /\ pend_to_blk_obj(s, g_active_task, ticks)
    BY <1>3 DEF sem_take_pend, TaskCalls, InTask, IInv, ActiveReady
  <2>. QED BY <2>1, SuspendPend
<1>4. CASE SemCall
  BY <1>2, <1>3, <1>4, SuspendUntouched
     DEF SemCall, krhino_sem_create, krhino_sem_count_set, krhino_sem_del,
         sem_give_count, sem_give_all, krhino_sem_take, sem_take_count
<1>. QED BY <1>1, <1>4

\* The calls of a task that concern itself and the scheduler.
LEMMA CpuCallSuspension ==
    ASSUME IInv,
           CpuCall \/ core_sched \/ pend_state_end_proc \/ krhino_tick_proc \/ UNCHANGED vars
    PROVE  \A t \in AllTask : SameSuspension(t)
<1>1. ASSUME NEW ticks, krhino_task_sleep(ticks)
      PROVE  \A t \in AllTask : SameSuspension(t)
  <2>1. /\ task_state[g_active_task] = "K_RDY" /\ UNCHANGED suspend_count
        /\ task_state' = [task_state EXCEPT ![g_active_task] = "K_SLEEP"]
    BY <1>1 DEF krhino_task_sleep, TaskCalls, InTask, IInv, ActiveReady
  <2>. QED BY <2>1, SuspendMove, SuspendNames
<1>. QED BY <1>1, SuspendUntouched
         DEF CpuCall, krhino_task_yield, krhino_sched_disable, krhino_sched_enable,
             core_sched, pend_state_end_proc, krhino_tick_proc, vars

\* What a step may do to the suspension of t.
SuspensionOf(t) ==
    /\ suspend_count'[t] \in 0 .. SuspendMax
    /\ task_state'[t] \in Suspended => suspend_count'[t] > 0
    /\ (task_state[t] \in Suspended /\ task_state'[t] \notin Suspended) =>
         \/ suspend_count[t] = 1 /\ suspend_count'[t] = 0
         \/ krhino_task_wait_abort(t)
         \/ task_state'[t] = "K_DELETED"

\* A task the step leaves as suspended as it was.
LEMMA SuspensionKept ==
    ASSUME IInv, SuspendCountOK, NEW t \in AllTask, SameSuspension(t)
    PROVE  SuspensionOf(t)
BY BoundsAssumption DEF IInv, TypeOK, SuspendCountOK, SameSuspension, SuspensionOf

\* The calls that create, suspend, resume, abort and delete a task.
LEMMA TaskCallSuspension ==
    ASSUME IInv, SuspendCountOK, TaskCall \/ task_del_unlink
    PROVE  \A t \in AllTask : SuspensionOf(t)
<1>0. /\ task_state \in [AllTask -> TaskStat] /\ suspend_count \in [AllTask -> Nat]
      /\ SuspendMax \in Nat /\ SuspendMax >= 1
      /\ \A t \in AllTask :
           /\ suspend_count[t] <= SuspendMax
           /\ task_state[t] \in Suspended => suspend_count[t] > 0
  BY BoundsAssumption DEF IInv, TypeOK, SuspendCountOK
<1>1. ASSUME NEW w \in Task, NEW autorun, krhino_task_create(w, autorun),
             NEW t \in AllTask
      PROVE  SuspensionOf(t)
  <2>1. task_state[w] \notin Suspended
    BY <1>1 DEF krhino_task_create, Dead, Suspended
  <2>2. CASE task_state' = [task_state EXCEPT ![w] = "K_RDY"]
             /\ suspend_count' = [suspend_count EXCEPT ![w] = 0]
    BY <1>0, <2>1, <2>2, SuspendNames DEF SuspensionOf
  <2>3. CASE task_state' = [task_state EXCEPT ![w] = "K_SUSPENDED"]
             /\ suspend_count' = [suspend_count EXCEPT ![w] = 1]
    BY <1>0, <2>1, <2>3, SuspendNames DEF SuspensionOf
  <2>. QED BY <1>1, <2>2, <2>3 DEF krhino_task_create
<1>2. ASSUME NEW w \in Task, krhino_task_suspend(w), NEW t \in AllTask
      PROVE  SuspensionOf(t)
  <2>1. CASE task_state[w] \in {"K_RDY", "K_SLEEP", "K_PEND"}
             /\ suspend_count' = [suspend_count EXCEPT ![w] = 1]
             /\ \E x : task_state' = [task_state EXCEPT ![w] = x]
    BY <1>0, <2>1, SuspendNames DEF SuspensionOf
  <2>2. CASE task_state[w] \in Suspended /\ suspend_count[w] < SuspendMax
             /\ suspend_count' = [suspend_count EXCEPT ![w] = @ + 1]
             /\ UNCHANGED task_state
    BY <1>0, <2>2 DEF SuspensionOf
  <2>. QED BY <1>2, <2>1, <2>2 DEF krhino_task_suspend
<1>3. ASSUME NEW w \in Task, krhino_task_resume(w), NEW t \in AllTask
      PROVE  SuspensionOf(t)
  <2>1. /\ task_state[w] \in Suspended
        /\ suspend_count' = [suspend_count EXCEPT ![w] = @ - 1]
    BY <1>3 DEF krhino_task_resume
  <2>2. CASE suspend_count[w] = 1 /\ task_state' = [task_state EXCEPT ![w] = ResumedFrom[@]]
    <3>1. ResumedFrom[task_state[w]] \notin Suspended
      BY <2>1 DEF ResumedFrom, Suspended
    <3>. QED BY <1>0, <2>1, <2>2, <3>1 DEF SuspensionOf
  <2>3. CASE suspend_count[w] > 1 /\ UNCHANGED task_state
    BY <1>0, <2>1, <2>3 DEF SuspensionOf
  <2>. QED BY <1>3, <2>2, <2>3 DEF krhino_task_resume
<1>4. ASSUME NEW w \in Task, krhino_task_wait_abort(w), NEW t \in AllTask
      PROVE  SuspensionOf(t)
  <2>1. UNCHANGED suspend_count /\ task_state' = [task_state EXCEPT ![w] = "K_RDY"]
    BY <1>4 DEF krhino_task_wait_abort, wait_abort_nonpend, wait_abort_pend
  <2>2. CASE t = w
    BY <1>0, <1>4, <2>1, <2>2, SuspendNames DEF SuspensionOf
  <2>3. CASE t # w
    BY <1>0, <2>1, <2>3 DEF SuspensionOf
  <2>. QED BY <2>2, <2>3
<1>5. ASSUME task_del_unlink, NEW t \in AllTask
      PROVE  SuspensionOf(t)
  <2>1. /\ UNCHANGED suspend_count
        /\ task_state' = [task_state EXCEPT ![op.task] = "K_DELETED"]
    BY <1>5 DEF task_del_unlink
  <2>. QED BY <1>0, <2>1, SuspendNames DEF SuspensionOf
<1>6. ASSUME NEW w \in Task, krhino_task_del(w) \/ \E pri : krhino_task_pri_change(w, pri)
      PROVE  \A t \in AllTask : SuspensionOf(t)
  BY <1>6, SuspendUntouched, SuspensionKept DEF krhino_task_del, krhino_task_pri_change
<1>. QED BY <1>1, <1>2, <1>3, <1>4, <1>5, <1>6 DEF TaskCall

\* Every step of the kernel treats every suspension as it may.
LEMMA NextSuspension ==
    IInv /\ SuspendCountOK /\ [Next]_vars => \A t \in AllTask : SuspensionOf(t)
<1>. SUFFICES ASSUME IInv, SuspendCountOK, [Next]_vars
              PROVE  \A t \in AllTask : SuspensionOf(t)
  OBVIOUS
<1>1. CASE TaskCall \/ task_del_unlink
  BY <1>1, TaskCallSuspension
<1>2. CASE ~(TaskCall \/ task_del_unlink)
  <2>1. \A t \in AllTask : SameSuspension(t)
    BY <1>2, KernelStepSuspension, ObjectCallSuspension, CpuCallSuspension DEF Next
  <2>. QED BY <2>1, SuspensionKept
<1>. QED BY <1>1, <1>2

\* suspend_count stays within its limit and above zero while a task is
\* suspended, for any number of tasks, interrupt handlers and any limit, although
\* krhino_task_wait_abort leaves it where it was.
THEOREM SuspendCounts == Spec => []SuspendCountOK
<1>1. Init => SuspendCountOK
  BY BoundsAssumption DEF Init, SuspendCountOK, Suspended
<1>2. IInv /\ SuspendCountOK /\ [Next]_vars => SuspendCountOK'
  <2>. SUFFICES ASSUME IInv, SuspendCountOK, [Next]_vars PROVE SuspendCountOK'
    OBVIOUS
  <2>1. \A t \in AllTask : SuspensionOf(t)
    BY NextSuspension
  <2>. QED BY <2>1, BoundsAssumption DEF SuspensionOf, SuspendCountOK
<1>. QED BY <1>1, <1>2, KernelInvariant, PTL DEF Spec

\* A suspended task stays suspended until its last suspension is taken back,
\* unless it is aborted or deleted, in every step of the kernel.
THEOREM SuspensionHolds == Spec => SuspendHolds
<1>. DEFINE Held == \A t \in AllTask :
       (task_state[t] \in Suspended /\ task_state'[t] \notin Suspended) =>
         \/ suspend_count[t] = 1 /\ suspend_count'[t] = 0
         \/ krhino_task_wait_abort(t)
         \/ task_state'[t] = "K_DELETED"
<1>1. IInv /\ SuspendCountOK /\ [Next]_vars => Held
  BY NextSuspension DEF SuspensionOf
<1>2. SuspendHolds <=> [][Held]_vars
  BY DEF SuspendHolds
<1>. HIDE DEF Held
<1>. QED BY <1>1, <1>2, KernelInvariant, SuspendCounts, PTL DEF Spec
=============================================================================
