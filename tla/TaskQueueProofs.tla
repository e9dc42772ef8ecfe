-------------------------- MODULE TaskQueueProofs --------------------------
(***************************************************************************)
(* Proofs about TaskQueue for any set of tasks, any routes and any number  *)
(* of messages, about RequestQueue for any requests and priorities, and    *)
(* about CliServer for any users and whatever they send.                   *)
(***************************************************************************)
EXTENDS TaskQueue, RequestQueue, CliServer, FoldLemmas

USE NoTaskAssumption, MaxSendAssumption, NoMsgAssumption

(* A call of task_notify in progress was within the bound when it began, and *)
(* only user code of the same thread can be making it.                       *)
CallOK ==
  \A t \in Tasks : send[t] # "none" =>
    /\ pc[t] \in UserCode
    /\ next[<<t, dest[t]>>] < MaxSend

TypeInv == TypeOK /\ CallOK

LEMMA TypeInit == Init => TypeInv
  BY DEF Init, TypeInv, TypeOK, CallOK, PCs, SendPCs

LEMMA TypeStep == TypeInv /\ [Next]_vars => TypeInv'
<1> SUFFICES ASSUME TypeInv, [Next]_vars PROVE TypeInv'
  OBVIOUS
<1> USE DEF TypeInv, TypeOK, CallOK, queueVars, countVars, Goto, SendStep, PCs, SendPCs, UserCode, NotiLocked, SendLocked
<1>a. \A u \in Tasks : /\ <<u, dest[u]>> \in Tasks \X Tasks
                         /\ next[<<u, dest[u]>>] \in 0 .. MaxSend
  OBVIOUS
<1>b. \A u \in Tasks : send[u] # "none" => next[<<u, dest[u]>>] \in 0 .. (MaxSend - 1)
  BY <1>a
<1>c. \A t, d \in Tasks : CanNotify(t, d) => next[<<t, d>>] \in 0 .. (MaxSend - 1)
  <2> SUFFICES ASSUME NEW t \in Tasks, NEW d \in Tasks, CanNotify(t, d)
               PROVE  next[<<t, d>>] \in 0 .. (MaxSend - 1)
    OBVIOUS
  <2>1. <<t, d>> \in Tasks \X Tasks
    OBVIOUS
  <2>2. next[<<t, d>>] \in Nat /\ Sends[<<t, d>>] \in 0 .. MaxSend
    BY <2>1, SendsAssumption
  <2> QED
    BY <2>2 DEF CanNotify
<1>1. ASSUME NEW t \in Tasks, TaskRun(t) PROVE TypeInv'
  BY <1>1 DEF TaskRun
<1>2. ASSUME NEW t \in Tasks, StartReturn(t) PROVE TypeInv'
  BY <1>2 DEF StartReturn
<1>3. ASSUME NEW t \in Tasks, Wake(t) PROVE TypeInv'
  BY <1>3 DEF Wake
<1>4. ASSUME NEW t \in Tasks, NotiLock(t) PROVE TypeInv'
  BY <1>4 DEF NotiLock
<1>5. ASSUME NEW t \in Tasks, NotiCut(t) PROVE TypeInv'
  BY <1>5 DEF NotiCut
<1>6. ASSUME NEW t \in Tasks, NotiReset(t) PROVE TypeInv'
  BY <1>6 DEF NotiReset
<1>7. ASSUME NEW t \in Tasks, NotiUnlock(t) PROVE TypeInv'
  BY <1>7 DEF NotiUnlock
<1>8. ASSUME NEW t \in Tasks, RunHandler(t) PROVE TypeInv'
  <2>1. Head(tmp[t]) \in Message /\ Tail(tmp[t]) \in Seq(Message)
    BY <1>8 DEF RunHandler
  <2>2. Head(tmp[t]).src \in Tasks /\ Head(tmp[t]).n \in 0 .. (MaxSend - 1)
    BY <2>1 DEF Message
  <2>3. Head(tmp[t]).n + 1 \in 0 .. MaxSend
    BY <2>2
  <2>4. <<Head(tmp[t]).src, t>> \in Tasks \X Tasks
    BY <2>2
  <2> QED
    BY <1>8, <2>1, <2>3, <2>4 DEF RunHandler
<1>9. ASSUME NEW t \in Tasks, HandlerReturn(t) PROVE TypeInv'
  BY <1>9 DEF HandlerReturn
<1>10. ASSUME NEW t \in Tasks, NotiReturn(t) PROVE TypeInv'
  BY <1>10 DEF NotiReturn
<1>11. ASSUME NEW t \in Tasks, AddLock(t) PROVE TypeInv'
  BY <1>11 DEF AddLock
<1>12. ASSUME NEW t \in Tasks, AddLink(t) PROVE TypeInv'
  <2>1. next[<<t, dest[t]>>] \in 0 .. (MaxSend - 1)
    BY <1>12, <1>b DEF AddLink
  <2>2. [src |-> t, n |-> next[<<t, dest[t]>>]] \in Message
    BY <2>1 DEF Message
  <2>3. Append(msgs[dest[t]], [src |-> t, n |-> next[<<t, dest[t]>>]]) \in Seq(Message)
    BY <2>2
  <2>4. msgs' \in [Tasks -> Seq(Message)]
    BY <1>12, <2>3 DEF AddLink
  <2> QED
    BY <1>12, <2>4 DEF AddLink
<1>13. ASSUME NEW t \in Tasks, AddCount(t) PROVE TypeInv'
  <2>1. num' \in [Tasks -> Nat]
    <3>1. num[dest[t]] + 1 \in Nat
      OBVIOUS
    <3> QED
      BY <1>13, <3>1 DEF AddCount
  <2> QED
    BY <1>13, <2>1 DEF AddCount
<1>14. ASSUME NEW t \in Tasks, AddUnlock(t) PROVE TypeInv'
  BY <1>14 DEF AddUnlock
<1>15. ASSUME NEW t \in Tasks, AsyncSend(t) PROVE TypeInv'
  <2>1. next[<<t, dest[t]>>] + 1 \in 0 .. MaxSend
    <3>1. next[<<t, dest[t]>>] \in 0 .. (MaxSend - 1)
      BY <1>15, <1>b DEF AsyncSend
    <3> QED
      BY <3>1
  <2>2. next' \in [Tasks \X Tasks -> 0 .. MaxSend]
    <3>1. next' = [next EXCEPT ![<<t, dest[t]>>] = next[<<t, dest[t]>>] + 1]
      BY <1>15 DEF AsyncSend
    <3> QED
      BY <2>1, <3>1
  <2>3. TypeOK'
    BY <1>15, <2>2 DEF AsyncSend
  <2>4. ASSUME NEW u \in Tasks, send'[u] # "none"
        PROVE  pc'[u] \in UserCode /\ next'[<<u, dest'[u]>>] < MaxSend
    <3>1. u # t /\ send[u] # "none"
      BY <1>15, <2>4 DEF AsyncSend
    <3>2. <<u, dest[u]>> # <<t, dest[t]>>
      BY <3>1
    <3>3. next'[<<u, dest[u]>>] = next[<<u, dest[u]>>]
      BY <1>15, <3>2, <1>a DEF AsyncSend
    <3> QED
      BY <1>15, <3>1, <3>3 DEF AsyncSend
  <2> QED
    BY <2>3, <2>4
<1>16. ASSUME NEW t \in Tasks, NEW d \in Tasks, NotifyRefused(t, d) PROVE TypeInv'
  <2>1. /\ next[<<t, d>>] \in 0 .. MaxSend
        /\ next[<<t, d>>] + 1 \in 0 .. MaxSend
    BY <1>16, <1>c DEF NotifyRefused
  <2>2. next' \in [Tasks \X Tasks -> 0 .. MaxSend]
    BY <1>16, <2>1 DEF NotifyRefused
  <2>3. TypeOK'
    BY <1>16, <2>2 DEF NotifyRefused
  <2>4. ASSUME NEW u \in Tasks, send'[u] # "none"
        PROVE  pc'[u] \in UserCode /\ next'[<<u, dest'[u]>>] < MaxSend
    <3>1. u # t /\ send[u] # "none"
      BY <1>16, <2>4 DEF NotifyRefused, CanNotify
    <3>2. <<u, dest[u]>> # <<t, d>>
      BY <3>1
    <3>3. next'[<<u, dest[u]>>] = next[<<u, dest[u]>>]
      BY <1>16, <3>2, <1>a DEF NotifyRefused
    <3> QED
      BY <1>16, <3>1, <3>3 DEF NotifyRefused
  <2> QED
    BY <2>3, <2>4
<1>17. ASSUME NEW t \in Tasks, NEW d \in Tasks, NotifyCall(t, d) PROVE TypeInv'
  <2>1. pc[t] \in UserCode /\ next[<<t, d>>] < MaxSend
    BY <1>17, <1>c DEF NotifyCall, CanNotify
  <2> QED
    BY <1>17, <2>1 DEF NotifyCall
<1>18. CASE UNCHANGED vars
  BY <1>18 DEF vars
<1> QED
  BY <1>1, <1>2, <1>3, <1>4, <1>5, <1>6, <1>7, <1>8, <1>9, <1>10, <1>11, <1>12,
     <1>13, <1>14, <1>15, <1>16, <1>17, <1>18 DEF Next, Progress, UserCall

(* Every variable keeps its type; in particular num_msgs never underflows *)
(* and no message number goes beyond what its sender has used.            *)
THEOREM TypeCorrect == SafeSpec => []TypeOK
<1>1. TypeInv => TypeOK
  BY DEF TypeInv
<1> QED
  BY <1>1, TypeInit, TypeStep, PTL DEF SafeSpec

-----------------------------------------------------------------------------
LEMMA LockInit == Init => LockDiscipline
  BY DEF Init, LockDiscipline, InCritical, NotiLocked, SendLocked

(* A step that changes no owner and takes no thread in or out. *)
LEMMA LockUntouched ==
  ASSUME TypeInv, LockDiscipline, lock' = lock,
         \A u, e \in Tasks : InCritical(u, e)' <=> InCritical(u, e)
  PROVE  LockDiscipline'
BY DEF LockDiscipline, TypeInv, TypeOK

(* A step by which thread t enters the critical section of d, which was free. *)
LEMMA LockAcquire ==
  ASSUME TypeInv, LockDiscipline, NEW t \in Tasks, NEW d \in Tasks,
         lock[d] = NoTask, lock' = [lock EXCEPT ![d] = t],
         \A u, e \in Tasks : InCritical(u, e)' <=> InCritical(u, e) \/ (u = t /\ e = d)
  PROVE  LockDiscipline'
BY DEF LockDiscipline, TypeInv, TypeOK

(* A step by which thread t leaves the critical section of d. *)
LEMMA LockRelease ==
  ASSUME TypeInv, LockDiscipline, NEW t \in Tasks, NEW d \in Tasks,
         InCritical(t, d), lock' = [lock EXCEPT ![d] = NoTask],
         \A u, e \in Tasks : InCritical(u, e)' <=> InCritical(u, e) /\ ~(u = t /\ e = d)
  PROVE  LockDiscipline'
BY DEF LockDiscipline, TypeInv, TypeOK

LEMMA LockStep == TypeInv /\ LockDiscipline /\ [Next]_vars => LockDiscipline'
<1> SUFFICES ASSUME TypeInv, LockDiscipline, [Next]_vars PROVE LockDiscipline'
  OBVIOUS
<1>a. /\ pc \in [Tasks -> PCs] /\ send \in [Tasks -> SendPCs]
      /\ dest \in [Tasks -> Tasks] /\ lock \in [Tasks -> Tasks \cup {NoTask}]
      /\ \A u \in Tasks : send[u] # "none" => pc[u] \in UserCode
  BY DEF TypeInv, TypeOK, CallOK
<1> USE <1>a DEF queueVars, countVars, Goto, SendStep, UserCode, NotiLocked, SendLocked
<1>1. ASSUME NEW t \in Tasks, TaskRun(t) PROVE LockDiscipline'
  <2>1. \A u, e \in Tasks : InCritical(u, e)' <=> InCritical(u, e)
    BY <1>1 DEF TaskRun, InCritical
  <2> QED
    BY <1>1, <2>1, LockUntouched DEF TaskRun
<1>2. ASSUME NEW t \in Tasks, StartReturn(t) PROVE LockDiscipline'
  <2>1. \A u, e \in Tasks : InCritical(u, e)' <=> InCritical(u, e)
    BY <1>2 DEF StartReturn, InCritical
  <2> QED
    BY <1>2, <2>1, LockUntouched DEF StartReturn
<1>3. ASSUME NEW t \in Tasks, Wake(t) PROVE LockDiscipline'
  <2>1. \A u, e \in Tasks : InCritical(u, e)' <=> InCritical(u, e)
    BY <1>3 DEF Wake, InCritical
  <2> QED
    BY <1>3, <2>1, LockUntouched DEF Wake
<1>4. ASSUME NEW t \in Tasks, NotiLock(t) PROVE LockDiscipline'
  <2>1. \A u, e \in Tasks : InCritical(u, e)' <=> InCritical(u, e) \/ (u = t /\ e = t)
    BY <1>4 DEF NotiLock, InCritical
  <2>2. lock[t] = NoTask /\ lock' = [lock EXCEPT ![t] = t]
    BY <1>4 DEF NotiLock
  <2> QED
    BY <2>1, <2>2, LockAcquire
<1>5. ASSUME NEW t \in Tasks, NotiCut(t) PROVE LockDiscipline'
  <2>1. \A u, e \in Tasks : InCritical(u, e)' <=> InCritical(u, e)
    BY <1>5 DEF NotiCut, InCritical
  <2> QED
    BY <1>5, <2>1, LockUntouched DEF NotiCut
<1>6. ASSUME NEW t \in Tasks, NotiReset(t) PROVE LockDiscipline'
  <2>1. \A u, e \in Tasks : InCritical(u, e)' <=> InCritical(u, e)
    BY <1>6 DEF NotiReset, InCritical
  <2> QED
    BY <1>6, <2>1, LockUntouched DEF NotiReset
<1>7. ASSUME NEW t \in Tasks, NotiUnlock(t) PROVE LockDiscipline'
  <2>1. \A u, e \in Tasks : InCritical(u, e)' <=> InCritical(u, e) /\ ~(u = t /\ e = t)
    BY <1>7 DEF NotiUnlock, InCritical
  <2>2. InCritical(t, t) /\ lock' = [lock EXCEPT ![t] = NoTask]
    BY <1>7 DEF NotiUnlock, InCritical
  <2> QED
    BY <2>1, <2>2, LockRelease
<1>8. ASSUME NEW t \in Tasks, RunHandler(t) PROVE LockDiscipline'
  <2>1. \A u, e \in Tasks : InCritical(u, e)' <=> InCritical(u, e)
    BY <1>8 DEF RunHandler, InCritical
  <2> QED
    BY <1>8, <2>1, LockUntouched DEF RunHandler
<1>9. ASSUME NEW t \in Tasks, HandlerReturn(t) PROVE LockDiscipline'
  <2>1. \A u, e \in Tasks : InCritical(u, e)' <=> InCritical(u, e)
    BY <1>9 DEF HandlerReturn, InCritical
  <2> QED
    BY <1>9, <2>1, LockUntouched DEF HandlerReturn
<1>10. ASSUME NEW t \in Tasks, NotiReturn(t) PROVE LockDiscipline'
  <2>1. \A u, e \in Tasks : InCritical(u, e)' <=> InCritical(u, e)
    BY <1>10 DEF NotiReturn, InCritical
  <2> QED
    BY <1>10, <2>1, LockUntouched DEF NotiReturn
<1>11. ASSUME NEW t \in Tasks, AddLock(t) PROVE LockDiscipline'
  <2>1. \A u, e \in Tasks : InCritical(u, e)' <=> InCritical(u, e) \/ (u = t /\ e = dest[t])
    BY <1>11 DEF AddLock, InCritical
  <2>2. lock[dest[t]] = NoTask /\ lock' = [lock EXCEPT ![dest[t]] = t]
    BY <1>11 DEF AddLock
  <2> QED
    <3>1. dest[t] \in Tasks
      OBVIOUS
    <3> QED
      BY <2>1, <2>2, <3>1, LockAcquire
<1>12. ASSUME NEW t \in Tasks, AddLink(t) PROVE LockDiscipline'
  <2>1. \A u, e \in Tasks : InCritical(u, e)' <=> InCritical(u, e)
    BY <1>12 DEF AddLink, InCritical
  <2> QED
    BY <1>12, <2>1, LockUntouched DEF AddLink
<1>13. ASSUME NEW t \in Tasks, AddCount(t) PROVE LockDiscipline'
  <2>1. \A u, e \in Tasks : InCritical(u, e)' <=> InCritical(u, e)
    BY <1>13 DEF AddCount, InCritical
  <2> QED
    BY <1>13, <2>1, LockUntouched DEF AddCount
<1>14. ASSUME NEW t \in Tasks, AddUnlock(t) PROVE LockDiscipline'
  <2>1. \A u, e \in Tasks : InCritical(u, e)' <=> InCritical(u, e) /\ ~(u = t /\ e = dest[t])
    BY <1>14 DEF AddUnlock, InCritical
  <2>2. InCritical(t, dest[t]) /\ lock' = [lock EXCEPT ![dest[t]] = NoTask]
    BY <1>14 DEF AddUnlock, InCritical
  <2> QED
    <3>1. dest[t] \in Tasks
      OBVIOUS
    <3> QED
      BY <2>1, <2>2, <3>1, LockRelease
<1>15. ASSUME NEW t \in Tasks, AsyncSend(t) PROVE LockDiscipline'
  <2>1. \A u, e \in Tasks : InCritical(u, e)' <=> InCritical(u, e)
    BY <1>15 DEF AsyncSend, InCritical
  <2> QED
    BY <1>15, <2>1, LockUntouched DEF AsyncSend
<1>16. ASSUME NEW t \in Tasks, NEW d \in Tasks, NotifyRefused(t, d) PROVE LockDiscipline'
  <2>1. \A u, e \in Tasks : InCritical(u, e)' <=> InCritical(u, e)
    BY <1>16 DEF NotifyRefused, CanNotify, InCritical
  <2> QED
    BY <1>16, <2>1, LockUntouched DEF NotifyRefused, CanNotify
<1>17. ASSUME NEW t \in Tasks, NEW d \in Tasks, NotifyCall(t, d) PROVE LockDiscipline'
  <2>1. \A u, e \in Tasks : InCritical(u, e)' <=> InCritical(u, e)
    BY <1>17 DEF NotifyCall, CanNotify, InCritical
  <2> QED
    BY <1>17, <2>1, LockUntouched DEF NotifyCall, CanNotify
<1>18. CASE UNCHANGED vars
  BY <1>18 DEF vars, LockDiscipline, InCritical
<1> QED
  BY <1>1, <1>2, <1>3, <1>4, <1>5, <1>6, <1>7, <1>8, <1>9,
     <1>10, <1>11, <1>12, <1>13, <1>14, <1>15, <1>16, <1>17, <1>18
     DEF Next, Progress, UserCall

(* q_mutex excludes every other thread from the list and its counter, and is *)
(* owned only by a thread that is about to release it.                       *)
THEOREM MutexSafe == SafeSpec => []LockDiscipline
<1> QED
  BY TypeInit, TypeStep, LockInit, LockStep, PTL DEF SafeSpec

-----------------------------------------------------------------------------
(* What the counter of d is in the middle of a critical section: one behind   *)
(* after the sender's list_add_tail, anything after the receiver's cut, and   *)
(* the length of the list otherwise.                                          *)
Linking(t, d) == send[t] = "count" /\ dest[t] = d

CountInv ==
  \A d \in Tasks :
    /\ \A t \in Tasks : Linking(t, d) => num[d] + 1 = Len(msgs[d])
    /\ pc[d] = "reset" => msgs[d] = << >>
    /\ (\A t \in Tasks : ~Linking(t, d)) /\ pc[d] # "reset" => num[d] = Len(msgs[d])

LEMMA CountInit == Init => CountInv
  BY DEF Init, CountInv, Linking

(* A step that leaves list and counter alone and moves nobody in or out of    *)
(* the places between them.                                                   *)
LEMMA CountUntouched ==
  ASSUME CountInv, msgs' = msgs, num' = num,
         \A t, d \in Tasks : Linking(t, d)' <=> Linking(t, d),
         \A d \in Tasks : (pc[d] = "reset")' <=> pc[d] = "reset"
  PROVE  CountInv'
BY DEF CountInv

LEMMA CountStep == TypeInv /\ LockDiscipline /\ CountInv /\ [Next]_vars => CountInv'
<1> SUFFICES ASSUME TypeInv, LockDiscipline, CountInv, [Next]_vars PROVE CountInv'
  OBVIOUS
<1>a. /\ pc \in [Tasks -> PCs] /\ send \in [Tasks -> SendPCs] /\ dest \in [Tasks -> Tasks]
      /\ msgs \in [Tasks -> Seq(Message)] /\ num \in [Tasks -> Nat]
      /\ \A u \in Tasks : send[u] # "none" => pc[u] \in UserCode
  BY DEF TypeInv, TypeOK, CallOK
<1>b. \A t, u, d \in Tasks : InCritical(t, d) /\ InCritical(u, d) => t = u
  BY DEF LockDiscipline
<1>1. ASSUME NEW t \in Tasks, NotiCut(t) PROVE CountInv'
  <2>1. \A u \in Tasks : ~Linking(u, t)
    BY <1>1, <1>a, <1>b DEF NotiCut, Goto, Linking, InCritical, NotiLocked, SendLocked, UserCode
  <2> QED
    BY <1>1, <1>a, <2>1 DEF NotiCut, Goto, CountInv, Linking
<1>2. ASSUME NEW t \in Tasks, NotiReset(t) PROVE CountInv'
  <2>1. \A u \in Tasks : ~Linking(u, t)
    BY <1>2, <1>a, <1>b DEF NotiReset, Goto, Linking, InCritical, NotiLocked, SendLocked, UserCode
  <2>2. msgs[t] = << >> /\ Len(msgs[t]) = 0
    BY <1>2 DEF NotiReset, Goto, CountInv
  <2> QED
    BY <1>2, <1>a, <2>1, <2>2 DEF NotiReset, Goto, CountInv, Linking
<1>3. ASSUME NEW t \in Tasks, AddLink(t) PROVE CountInv'
  <2> DEFINE d == dest[t]
  <2>1. /\ d \in Tasks /\ InCritical(t, d)
        /\ pc[d] # "reset" /\ \A u \in Tasks : ~Linking(u, d)
    <3>1. d \in Tasks /\ InCritical(t, d)
      BY <1>3, <1>a DEF AddLink, SendStep, InCritical, SendLocked
    <3>2. \A u \in Tasks : ~Linking(u, d)
      BY <1>3, <1>a, <1>b, <3>1 DEF AddLink, SendStep, Linking, InCritical, SendLocked
    <3>3. pc[d] # "reset"
      BY <1>3, <1>a, <1>b, <3>1 DEF AddLink, SendStep, InCritical, NotiLocked, UserCode
    <3> QED
      BY <3>1, <3>2, <3>3
  <2>2. num[d] = Len(msgs[d])
    BY <2>1 DEF CountInv
  <2>3. /\ msgs' = [msgs EXCEPT ![d] = msgs'[d]]
        /\ Len(msgs'[d]) = Len(msgs[d]) + 1
    <3>1. msgs' = [msgs EXCEPT ![d] = Append(@, [src |-> t, n |-> next[<<t, d>>]])]
      BY <1>3 DEF AddLink
    <3> QED
      BY <3>1, <2>1, <1>a
  <2>4. \A u, e \in Tasks : Linking(u, e)' <=> Linking(u, e) \/ (u = t /\ e = d)
    BY <1>3, <1>a DEF AddLink, SendStep, Linking
  <2>5. num' = num /\ pc' = pc
    BY <1>3 DEF AddLink
  <2> QED
    BY <1>a, <2>1, <2>2, <2>3, <2>4, <2>5 DEF CountInv
<1>4. ASSUME NEW t \in Tasks, AddCount(t) PROVE CountInv'
  <2> DEFINE d == dest[t]
  <2>1. d \in Tasks /\ InCritical(t, d) /\ Linking(t, d)
    BY <1>4, <1>a DEF AddCount, SendStep, InCritical, SendLocked, Linking
  <2>2. \A u \in Tasks : Linking(u, d) => u = t
    BY <1>a, <1>b, <2>1 DEF Linking, InCritical, SendLocked
  <2>3. num' = [num EXCEPT ![d] = num[d] + 1] /\ msgs' = msgs /\ pc' = pc
    BY <1>4 DEF AddCount
  <2>4. num[d] + 1 = Len(msgs[d])
    BY <2>1 DEF CountInv
  <2>5. \A u, e \in Tasks : Linking(u, e)' <=> Linking(u, e) /\ ~(u = t /\ e = d)
    BY <1>4, <1>a DEF AddCount, SendStep, Linking
  <2>6. \A e \in Tasks : e # d => num'[e] = num[e]
    BY <2>3, <1>a
  <2>7. num'[d] = Len(msgs'[d])
    BY <2>1, <2>3, <2>4, <1>a
  <2> QED
    BY <2>1, <2>2, <2>3, <2>5, <2>6, <2>7 DEF CountInv
<1>5. ASSUME NEW t \in Tasks,
             \/ TaskRun(t) \/ StartReturn(t) \/ Wake(t) \/ NotiLock(t) \/ NotiUnlock(t)
             \/ RunHandler(t) \/ HandlerReturn(t) \/ NotiReturn(t)
      PROVE  CountInv'
  <2>1. msgs' = msgs /\ num' = num /\ send' = send /\ dest' = dest
    BY <1>5 DEF TaskRun, StartReturn, Wake, NotiLock, NotiUnlock, RunHandler, HandlerReturn,
                NotiReturn, queueVars
  <2>2. \A d \in Tasks : (pc[d] = "reset")' <=> pc[d] = "reset"
    BY <1>5, <1>a DEF TaskRun, StartReturn, Wake, NotiLock, NotiUnlock, RunHandler, HandlerReturn,
                      NotiReturn, Goto
  <2> QED
    BY <2>1, <2>2, CountUntouched DEF Linking
<1>6. ASSUME NEW t \in Tasks, AddLock(t) \/ AddUnlock(t) \/ AsyncSend(t) PROVE CountInv'
  <2>1. msgs' = msgs /\ num' = num /\ pc' = pc /\ dest' = dest
    BY <1>6 DEF AddLock, AddUnlock, AsyncSend
  <2>2. \A u, d \in Tasks : Linking(u, d)' <=> Linking(u, d)
    BY <1>6, <1>a DEF AddLock, AddUnlock, AsyncSend, SendStep, Linking
  <2> QED
    BY <2>1, <2>2, CountUntouched
<1>7. ASSUME NEW t \in Tasks, NEW d \in Tasks, NotifyRefused(t, d) \/ NotifyCall(t, d)
      PROVE  CountInv'
  <2>1. msgs' = msgs /\ num' = num /\ pc' = pc
    BY <1>7 DEF NotifyRefused, NotifyCall, queueVars
  <2>2. \A u, e \in Tasks : Linking(u, e)' <=> Linking(u, e)
    BY <1>7, <1>a DEF NotifyRefused, NotifyCall, CanNotify, Linking
  <2> QED
    BY <2>1, <2>2, CountUntouched
<1>8. CASE UNCHANGED vars
  BY <1>8, CountUntouched DEF vars, queueVars, Linking
<1> QED
  BY <1>1, <1>2, <1>3, <1>4, <1>5, <1>6, <1>7, <1>8 DEF Next, Progress, UserCall

(* The counter of a free queue is the length of its list. *)
LEMMA FreeIsCounted == TypeInv /\ LockDiscipline /\ CountInv => CountMatchesQueue
<1> SUFFICES ASSUME TypeInv, LockDiscipline, CountInv, NEW d \in Tasks, lock[d] = NoTask
             PROVE  num[d] = Len(msgs[d])
  BY DEF CountMatchesQueue
<1>1. \A t \in Tasks : ~InCritical(t, d)
  BY DEF LockDiscipline
<1>2. pc[d] # "reset" /\ \A t \in Tasks : ~Linking(t, d)
  BY <1>1 DEF InCritical, Linking, NotiLocked, SendLocked
<1> QED
  BY <1>2 DEF CountInv

(* num_msgs is the length of the list whenever the mutex is free, however     *)
(* the senders' appends and counts and the receiver's cut and reset           *)
(* interleave.                                                                *)
THEOREM CountAlwaysMatches == SafeSpec => []CountMatchesQueue
<1> QED
  BY TypeInit, TypeStep, LockInit, LockStep, CountInit, CountStep, FreeIsCounted, PTL DEF SafeSpec

-----------------------------------------------------------------------------
LEMMA WakeInit == Init => NoLostWakeup
  BY DEF Init, NoLostWakeup

LEMMA WakeStep == TypeInv /\ NoLostWakeup /\ [Next]_vars => NoLostWakeup'
<1> SUFFICES ASSUME TypeInv, NoLostWakeup, [Next]_vars PROVE NoLostWakeup'
  OBVIOUS
<1> USE DEF TypeInv, TypeOK, CallOK, NoLostWakeup, WakePending, queueVars, countVars, Goto, SendStep, UserCode
<1>1. ASSUME NEW t \in Tasks, TaskRun(t) PROVE NoLostWakeup'
  BY <1>1 DEF TaskRun
<1>2. ASSUME NEW t \in Tasks, StartReturn(t) PROVE NoLostWakeup'
  BY <1>2 DEF StartReturn
<1>3. ASSUME NEW t \in Tasks, Wake(t) PROVE NoLostWakeup'
  BY <1>3 DEF Wake
<1>4. ASSUME NEW t \in Tasks, NotiLock(t) PROVE NoLostWakeup'
  BY <1>4 DEF NotiLock
<1>5. ASSUME NEW t \in Tasks, NotiCut(t) PROVE NoLostWakeup'
  BY <1>5 DEF NotiCut
<1>6. ASSUME NEW t \in Tasks, NotiReset(t) PROVE NoLostWakeup'
  BY <1>6 DEF NotiReset
<1>7. ASSUME NEW t \in Tasks, NotiUnlock(t) PROVE NoLostWakeup'
  BY <1>7 DEF NotiUnlock
<1>8. ASSUME NEW t \in Tasks, RunHandler(t) PROVE NoLostWakeup'
  BY <1>8 DEF RunHandler
<1>9. ASSUME NEW t \in Tasks, HandlerReturn(t) PROVE NoLostWakeup'
  BY <1>9 DEF HandlerReturn
<1>10. ASSUME NEW t \in Tasks, NotiReturn(t) PROVE NoLostWakeup'
  BY <1>10 DEF NotiReturn
<1>11. ASSUME NEW t \in Tasks, AddLock(t) PROVE NoLostWakeup'
  BY <1>11 DEF AddLock
<1>12. ASSUME NEW t \in Tasks, AddLink(t) PROVE NoLostWakeup'
  BY <1>12 DEF AddLink
<1>13. ASSUME NEW t \in Tasks, AddCount(t) PROVE NoLostWakeup'
  BY <1>13 DEF AddCount
<1>14. ASSUME NEW t \in Tasks, AddUnlock(t) PROVE NoLostWakeup'
  BY <1>14 DEF AddUnlock
<1>15. ASSUME NEW t \in Tasks, AsyncSend(t) PROVE NoLostWakeup'
  BY <1>15 DEF AsyncSend
<1>16. ASSUME NEW t \in Tasks, NEW d \in Tasks, NotifyRefused(t, d) PROVE NoLostWakeup'
  BY <1>16 DEF NotifyRefused, CanNotify
<1>17. ASSUME NEW t \in Tasks, NEW d \in Tasks, NotifyCall(t, d) PROVE NoLostWakeup'
  BY <1>17 DEF NotifyCall, CanNotify
<1>18. CASE UNCHANGED vars
  BY <1>18 DEF vars
<1> QED
  BY <1>1, <1>2, <1>3, <1>4, <1>5, <1>6, <1>7, <1>8, <1>9,
     <1>10, <1>11, <1>12, <1>13, <1>14, <1>15, <1>16, <1>17, <1>18
     DEF Next, Progress, UserCall

(* A queue that holds a message always has a wake-up outstanding, however *)
(* many add events libev compresses into one.                             *)
THEOREM WakeupNeverLost == SafeSpec => []NoLostWakeup
<1> QED
  BY TypeInit, TypeStep, WakeInit, WakeStep, PTL DEF SafeSpec

-----------------------------------------------------------------------------
(* A batch is held from the cut until its last handler has been started, and *)
(* one handler at a time runs.                                               *)
Batching == {"reset", "unlock", "drain", "handler"}

BatchInv ==
  \A t \in Tasks :
    /\ pc[t] \notin Batching => tmp[t] = << >>
    /\ pc[t] = "handler" <=> handling[t] # NoMsg

LEMMA BatchInit == Init => BatchInv
  BY DEF Init, BatchInv, Batching

LEMMA BatchStep == TypeInv /\ BatchInv /\ [Next]_vars => BatchInv'
<1> SUFFICES ASSUME TypeInv, BatchInv, [Next]_vars PROVE BatchInv'
  OBVIOUS
<1>a. /\ pc \in [Tasks -> PCs] /\ tmp \in [Tasks -> Seq(Message)]
      /\ handling \in [Tasks -> Message \cup {NoMsg}]
  BY DEF TypeInv, TypeOK
<1> USE <1>a DEF BatchInv, Batching, Goto
<1>1. ASSUME NEW t \in Tasks, TaskRun(t) \/ StartReturn(t) \/ Wake(t) \/ NotiLock(t) PROVE BatchInv'
  BY <1>1 DEF TaskRun, StartReturn, Wake, NotiLock
<1>2. ASSUME NEW t \in Tasks, NotiCut(t) \/ NotiReset(t) \/ NotiUnlock(t) PROVE BatchInv'
  BY <1>2 DEF NotiCut, NotiReset, NotiUnlock
<1>3. ASSUME NEW t \in Tasks, RunHandler(t) PROVE BatchInv'
  <2>1. Head(tmp[t]) \in Message
    BY <1>3 DEF RunHandler
  <2> QED
    BY <1>3, <2>1 DEF RunHandler
<1>4. ASSUME NEW t \in Tasks, HandlerReturn(t) \/ NotiReturn(t) PROVE BatchInv'
  BY <1>4 DEF HandlerReturn, NotiReturn
<1>5. ASSUME UNCHANGED <<pc, tmp, handling>> PROVE BatchInv'
  BY <1>5
<1>6. ASSUME NEW t \in Tasks, \/ AddLock(t) \/ AddLink(t) \/ AddCount(t) \/ AddUnlock(t) \/ AsyncSend(t)
                              \/ UserCall(t)
      PROVE  BatchInv'
  BY <1>5, <1>6 DEF AddLock, AddLink, AddCount, AddUnlock, AsyncSend, UserCall, NotifyRefused, NotifyCall
<1> QED
  BY <1>1, <1>2, <1>3, <1>4, <1>5, <1>6 DEF Next, Progress, vars

-----------------------------------------------------------------------------
(* The mailbox of the abstract specification, and its steps. *)

Box == [d \in Tasks |-> Undelivered(d)]

LEMMA SameBox ==
  ASSUME TypeInv, \A d \in Tasks : Undelivered(d)' = Undelivered(d), UNCHANGED handling
  PROVE  UNCHANGED MB!vars
  BY DEF MB!vars

(* The append is the moment at which the message is accepted. *)
LEMMA LinkPosts == ASSUME TypeInv, NEW t \in Tasks, AddLink(t) PROVE MB!Next
<1>1. /\ dest[t] \in Tasks /\ [src |-> t, n |-> next[<<t, dest[t]>>]] \in Message
      /\ msgs \in [Tasks -> Seq(Message)] /\ tmp \in [Tasks -> Seq(Message)]
  <2>1. dest[t] \in Tasks /\ <<t, dest[t]>> \in Tasks \X Tasks
    BY DEF TypeInv, TypeOK
  <2>2. next[<<t, dest[t]>>] \in 0 .. MaxSend /\ next[<<t, dest[t]>>] < MaxSend
    BY <2>1 DEF AddLink, SendStep, TypeInv, TypeOK, CallOK
  <2>3. next[<<t, dest[t]>>] \in 0 .. (MaxSend - 1)
    BY <2>2
  <2> QED
    BY <2>1, <2>3 DEF Message, TypeInv, TypeOK
<1>2. PICK d \in Tasks, m \in Message :
        msgs' = [msgs EXCEPT ![d] = Append(@, m)] /\ UNCHANGED <<tmp, handling>>
  BY <1>1 DEF AddLink
<1>3. Undelivered(d)' = Append(Undelivered(d), m)
  <2>1. ASSUME NEW a \in Seq(Message), NEW b \in Seq(Message)
        PROVE  a \o Append(b, m) = Append(a \o b, m)
    BY <1>1
  <2>2. msgs'[d] = Append(msgs[d], m) /\ tmp'[d] = tmp[d] /\ tmp[d] \in Seq(Message) /\ msgs[d] \in Seq(Message)
    BY <1>1, <1>2
  <2>3. tmp[d] \o Append(msgs[d], m) = Append(tmp[d] \o msgs[d], m)
    BY <2>1, <2>2, Zenon
  <2> QED
    BY <2>2, <2>3, Zenon DEF Undelivered
<1>4. \A e \in Tasks : e # d => Undelivered(e)' = Undelivered(e)
  BY <1>1, <1>2 DEF Undelivered
<1>5. Box' = [Box EXCEPT ![d] = Append(@, m)]
  <2> DEFINE new == Append(Undelivered(d), m)
  <2>1. Undelivered(d)' = new /\ Box[d] = Undelivered(d)
    BY <1>1, <1>3 DEF Box
  <2> HIDE DEF new
  <2>2. Box' = [Box EXCEPT ![d] = new]
    BY <1>4, <2>1 DEF Box
  <2> QED
    BY <2>1, <2>2 DEF new
<1>6. MB!Post(d, m)
  BY <1>2, <1>5 DEF MB!Post, Box
<1> QED
  BY <1>1, <1>6 DEF MB!Next

(* The receiver takes the oldest message, whichever batch it is in. *)
LEMMA HandlerTakes == ASSUME TypeInv, BatchInv, NEW t \in Tasks, RunHandler(t) PROVE MB!Next
<1>1. /\ tmp[t] # << >> /\ handling[t] = NoMsg /\ UNCHANGED msgs
      /\ handling' = [handling EXCEPT ![t] = Head(tmp[t])] /\ tmp' = [tmp EXCEPT ![t] = Tail(tmp[t])]
      /\ msgs \in [Tasks -> Seq(Message)] /\ tmp \in [Tasks -> Seq(Message)]
  BY DEF RunHandler, Goto, BatchInv, queueVars, TypeInv, TypeOK
<1>2. ASSUME NEW a \in Seq(Message), NEW b \in Seq(Message), a # << >>
      PROVE  a \o b # << >> /\ Head(a \o b) = Head(a) /\ Tail(a \o b) = Tail(a) \o b
  BY <1>2
<1>3. Undelivered(t) # << >> /\ Head(Undelivered(t)) = Head(tmp[t]) /\ Undelivered(t)' = Tail(Undelivered(t))
  BY <1>1, <1>2 DEF Undelivered
<1>4. \A e \in Tasks : e # t => Undelivered(e)' = Undelivered(e)
  BY <1>1 DEF Undelivered
<1>5. Box' = [Box EXCEPT ![t] = Tail(@)] /\ Box[t] = Undelivered(t)
  BY <1>3, <1>4 DEF Box
<1>6. MB!Take(t)
  BY <1>1, <1>3, <1>5 DEF MB!Take, Box
<1> QED
  BY <1>6 DEF MB!Next

LEMMA MailboxInit == Init => MB!Init
  BY DEF Init, MB!Init, Undelivered

LEMMA MailboxStep == TypeInv /\ BatchInv /\ [Next]_vars => [MB!Next]_MB!vars
<1> SUFFICES ASSUME TypeInv, BatchInv, [Next]_vars PROVE MB!Next \/ UNCHANGED MB!vars
  OBVIOUS
<1>1. ASSUME NEW t \in Tasks, HandlerReturn(t) PROVE MB!Next
  <2>1. /\ handling[t] # NoMsg /\ handling' = [handling EXCEPT ![t] = NoMsg]
        /\ UNCHANGED <<tmp, msgs>>
    BY <1>1 DEF HandlerReturn, Goto, BatchInv, queueVars
  <2>2. MB!Return(t)
    BY <2>1 DEF MB!Return, Undelivered
  <2> QED
    BY <2>2 DEF MB!Next
<1>2. ASSUME NEW t \in Tasks, NotiCut(t) PROVE UNCHANGED MB!vars
  <2>1. /\ tmp[t] = << >> /\ tmp' = [tmp EXCEPT ![t] = msgs[t]] /\ msgs' = [msgs EXCEPT ![t] = << >>]
        /\ UNCHANGED handling
        /\ msgs \in [Tasks -> Seq(Message)] /\ tmp \in [Tasks -> Seq(Message)]
    BY <1>2 DEF NotiCut, Goto, BatchInv, Batching, TypeInv, TypeOK
  <2>2. Undelivered(t)' = Undelivered(t)
    <3>1. ASSUME NEW a \in Seq(Message) PROVE a \o << >> = a /\ << >> \o a = a
      OBVIOUS
    <3> QED
      BY <2>1, <3>1 DEF Undelivered
  <2>3. \A e \in Tasks : e # t => Undelivered(e)' = Undelivered(e)
    BY <2>1 DEF Undelivered
  <2> QED
    BY <2>1, <2>2, <2>3, SameBox
<1>3. ASSUME UNCHANGED <<tmp, msgs, handling>> PROVE UNCHANGED MB!vars
  BY <1>3, SameBox DEF Undelivered
<1>4. ASSUME NEW t \in Tasks,
             \/ TaskRun(t) \/ StartReturn(t) \/ Wake(t) \/ NotiLock(t) \/ NotiReset(t) \/ NotiUnlock(t)
             \/ NotiReturn(t) \/ AddLock(t) \/ AddCount(t) \/ AddUnlock(t) \/ AsyncSend(t) \/ UserCall(t)
      PROVE  UNCHANGED MB!vars
  BY <1>3, <1>4 DEF TaskRun, StartReturn, Wake, NotiLock, NotiReset, NotiUnlock, NotiReturn, AddLock,
                    AddCount, AddUnlock, AsyncSend, UserCall, NotifyRefused, NotifyCall, queueVars
<1>5. CASE UNCHANGED vars
  BY <1>3, <1>5 DEF vars, queueVars
<1> QED
  BY <1>1, <1>2, <1>4, <1>5, LinkPosts, HandlerTakes DEF Next, Progress

(* What a task accepted is handled once, in the order of acceptance and one  *)
(* message at a time, whatever the batches and however senders and receiver  *)
(* interleave.                                                               *)
THEOREM QueueImplementsMailbox == SafeSpec => MB!SafeSpec
<1> QED
  BY TypeInit, TypeStep, BatchInit, BatchStep, MailboxInit, MailboxStep, PTL DEF SafeSpec, MB!SafeSpec

-----------------------------------------------------------------------------
(* The request queue *)

CallType == [op : {"accept", "cancel"}, item : RequestItems, next : RequestItems \cup {"head"}]

(* The queues, each of requests of its priority and none of them twice.     *)
QueuesOK ==
  /\ queue \in [Priorities -> Seq(RequestItems)] /\ IsFiniteSet(QueuedPlaces)
  /\ \A i \in Priorities : IsInjective(queue[i]) /\ \A r \in Range(queue[i]) : priority[r] = i

(* What a reset has saved is still queued, and no reset begins above one     *)
(* that has saved a neighbour.                                               *)
NeighbourQueued ==
  \A k \in 1 .. Len(calls) :
    /\ calls[k].op = "cancel" => \A j \in 1 .. (k - 1) : calls[j].next = "head"
    /\ calls[k].next # "head" => Queued(calls[k].next)

RequestsInv ==
  /\ priority \in [RequestItems -> Priorities] /\ request_priority_max \in Nat
  /\ num_reqs \in Int /\ calls \in Seq(CallType) /\ cancels \in BOOLEAN
  /\ QueuesOK /\ NeighbourQueued /\ RequestsCounted

LEMMA QueuedIs ==
  ASSUME NEW r \in RequestItems, priority \in [RequestItems -> Priorities], queue \in [Priorities -> Seq(RequestItems)]
  PROVE  Queued(r) <=> r \in Range(queue[priority[r]])
<1>1. PICK q \in Seq(RequestItems) : q = queue[priority[r]]
  OBVIOUS
<1>2. DOMAIN q = 1 .. Len(q)
  BY LenProperties
<1> QED
  BY <1>1, <1>2 DEF Queued, Contains, Range

(* A request is unlinked. *)
LEMMA Unlinked ==
  ASSUME QueuesOK, priority \in [RequestItems -> Priorities],
         NEW r \in RequestItems, Queued(r), queue' = Removed(r)
  PROVE  /\ QueuesOK' /\ Cardinality(QueuedPlaces)' = Cardinality(QueuedPlaces) - 1
         /\ \A s \in RequestItems : s # r /\ Queued(s) => Queued(s)'
<1> DEFINE p == priority[r]
           n == Len(queue[p])
<1>1. p \in Priorities /\ queue \in [Priorities -> Seq(RequestItems)] /\ IsFiniteSet(QueuedPlaces)
  BY DEF QueuesOK
<1>2. PICK q \in Seq(RequestItems) : q = queue[p]
  BY <1>1
<1>3. IsInjective(q) /\ r \in Range(q) /\ Len(q) \in Nat /\ DOMAIN q = 1 .. Len(q) /\ n = Len(q)
  BY <1>1, <1>2, QueuedIs, LenProperties DEF QueuesOK
<1>4. PICK rest : rest = RemoveFirst(q, r)
  OBVIOUS
<1>5. rest \in Seq(RequestItems) /\ IsInjective(rest) /\ Range(rest) = Range(q) \ {r} /\ Len(rest) = Len(q) - 1
  BY <1>3, <1>4, RemoveOnly
<1>6. queue' = [queue EXCEPT ![p] = rest]
  BY <1>2, <1>4 DEF Removed
<1>7. /\ queue' \in [Priorities -> Seq(RequestItems)] /\ queue'[p] = rest
      /\ \A i \in Priorities : i # p => queue'[i] = queue[i]
  BY <1>1, <1>5, <1>6
<1>8. n > 0
  BY <1>3 DEF Range
<1>9. QueuedPlaces' = QueuedPlaces \ {<<p, n>>} /\ <<p, n>> \in QueuedPlaces
  <2>1. DOMAIN queue'[p] = 1 .. n - 1 /\ DOMAIN queue[p] = 1 .. n
    <3>1. DOMAIN rest = 1 .. Len(rest)
      BY <1>5, LenProperties
    <3> QED
      BY <1>2, <1>3, <1>5, <1>7, <3>1
  <2>2. \A i \in Priorities : DOMAIN queue'[i] = IF i = p THEN 1 .. n - 1 ELSE DOMAIN queue[i]
    BY <1>7, <2>1
  <2> HIDE DEF n, p
  <2>3. ASSUME NEW x PROVE x \in QueuedPlaces' <=> x \in QueuedPlaces /\ x # <<p, n>>
    <3>1. x \in QueuedPlaces' <=> \E i \in Priorities : \E k \in DOMAIN queue'[i] : x = <<i, k>>
      BY DEF QueuedPlaces, Priorities
    <3>2. x \in QueuedPlaces <=> \E i \in Priorities : \E k \in DOMAIN queue[i] : x = <<i, k>>
      BY DEF QueuedPlaces
    <3>3. ASSUME NEW i \in Priorities, NEW k
          PROVE  k \in DOMAIN queue'[i] <=> k \in DOMAIN queue[i] /\ <<i, k>> # <<p, n>>
      <4>1. CASE i # p
        BY <2>2, <4>1
      <4>2. CASE i = p
        <5>1. n \in Nat /\ n > 0
          BY <1>3, <1>8
        <5>2. k \in 1 .. n - 1 <=> k \in 1 .. n /\ k # n
          BY <5>1
        <5> QED
          BY <2>1, <4>2, <5>2
      <4> QED
        BY <4>1, <4>2
    <3> QED
      BY <3>1, <3>2, <3>3
  <2>4. <<p, n>> \in QueuedPlaces
    <3>1. n \in 1 .. n
      BY <1>3, <1>8
    <3> QED
      BY <1>1, <2>1, <3>1 DEF QueuedPlaces
  <2> QED
    BY <2>3, <2>4
<1>10. IsFiniteSet(QueuedPlaces') /\ Cardinality(QueuedPlaces') = Cardinality(QueuedPlaces) - 1
  BY <1>1, <1>9, FS_RemoveElement
<1>11. ASSUME NEW i \in Priorities
       PROVE  IsInjective(queue'[i]) /\ \A s \in Range(queue'[i]) : priority[s] = i
  BY <1>2, <1>5, <1>7 DEF QueuesOK
<1>12. ASSUME NEW s \in RequestItems, s # r, Queued(s) PROVE Queued(s)'
  <2>1. priority[s] \in Priorities /\ s \in Range(queue[priority[s]])
    BY <1>1, <1>12, QueuedIs
  <2>2. s \in Range(queue'[priority[s]])
    BY <1>2, <1>5, <1>7, <1>12, <2>1
  <2>3. PICK u \in Seq(RequestItems) : u = queue'[priority[s]]
    BY <1>7, <2>1
  <2>4. DOMAIN u = 1 .. Len(u)
    BY LenProperties
  <2> QED
    BY <2>2, <2>3, <2>4 DEF Queued, Contains, Range
<1>13. QueuesOK'
  BY <1>7, <1>10, <1>11 DEF QueuesOK, Priorities
<1> QED
  BY <1>10, <1>12, <1>13

(* The first request of the highest priority is queued. *)
LEMMA FirstIsQueued ==
  ASSUME NEW i \in Int, QueuesOK, request_priority_max \in Nat, priority \in [RequestItems -> Priorities],
         Waiting(i) # {}
  PROVE  First(i) \in RequestItems /\ Queued(First(i))
<1> DEFINE W == Waiting(i)
           least(j) == \A k \in W : j <= k
<1>1. W \subseteq Priorities /\ Priorities = 1 .. request_priority_max
  BY DEF Waiting, Priorities
<1>2. \E j \in W : least(j)
  <2> DEFINE J == {m \in Nat : \A k \in W : m <= k}
             S == {m \in Nat : \A k \in W : m < k}
  <2> SUFFICES ASSUME ~ \E j \in W : least(j) PROVE FALSE
    OBVIOUS
  <2>1. \A k \in W : k \in Nat /\ k > 0
    BY <1>1
  <2>2. 0 \in S
    BY <2>1
  <2>3. ASSUME NEW m \in Nat, m \in S PROVE m + 1 \in S
    <3>1. \A k \in W : m + 1 <= k
      BY <2>1, <2>3
    <3>2. m + 1 \notin W
      BY <3>1
    <3> QED
      BY <2>1, <3>1, <3>2
  <2>4. Nat \subseteq S
    <3> HIDE DEF S
    <3> QED
      BY <2>2, <2>3, NatSetInduction
  <2>5. PICK k \in W : k \in Nat
    BY <2>1
  <2>6. k \in S
    BY <2>4, <2>5
  <2> QED
    BY <2>5, <2>6
<1>3. PICK j : j = (CHOOSE m \in W : least(m)) /\ j \in W
  BY <1>2
<1>4. First(i) = queue[j][1]
  BY <1>3 DEF First
<1>5. j \in Priorities /\ queue[j] # << >>
  BY <1>3 DEF Waiting
<1>6. PICK q \in Seq(RequestItems) : q = queue[j]
  BY <1>5 DEF QueuesOK
<1>7. 1 \in 1 .. Len(q) /\ q[1] \in RequestItems /\ DOMAIN q = 1 .. Len(q)
  <2>1. Len(q) \in Nat /\ Len(q) # 0
    BY <1>5, <1>6, EmptySeq, LenProperties
  <2>2. 1 \in 1 .. Len(q)
    BY <2>1
  <2> QED
    BY <2>2, ElementOfSeq, LenProperties
<1>8. q[1] \in Range(q)
  BY <1>7 DEF Range
<1>9. priority[q[1]] = j
  BY <1>5, <1>6, <1>8 DEF QueuesOK
<1> QED
  BY <1>4, <1>6, <1>7, <1>9 DEF Queued, Contains

(* The neighbour of a queued request is another one that is queued. *)
LEMMA NeighbourIsQueued ==
  ASSUME QueuesOK, priority \in [RequestItems -> Priorities], NEW r \in RequestItems, Queued(r)
  PROVE  \/ Neighbour(r) = "head"
         \/ Neighbour(r) \in RequestItems /\ Neighbour(r) # r /\ Queued(Neighbour(r))
<1>1. priority[r] \in Priorities
  OBVIOUS
<1>2. PICK q \in Seq(RequestItems) : q = queue[priority[r]]
  BY <1>1 DEF QueuesOK
<1>3. DOMAIN q = 1 .. Len(q) /\ Len(q) \in Nat
  BY LenProperties
<1> DEFINE at == CHOOSE k \in DOMAIN q : q[k] = r
<1>4. at \in 1 .. Len(q) /\ q[at] = r
  BY <1>2, <1>3 DEF Queued, Contains
<1>5. Neighbour(r) = IF at = Len(q) THEN "head" ELSE q[at + 1]
  <2> HIDE DEF at
  <2>1. Neighbour(r) = CASE ~Queued(r) -> r [] at = Len(q) -> "head" [] OTHER -> q[at + 1]
    BY <1>2 DEF Neighbour, at
  <2> QED
    BY <2>1
<1> HIDE DEF at
<1>6. CASE at # Len(q)
  <2>1. at + 1 \in 1 .. Len(q) /\ at + 1 # at
    <3>1. PICK a \in 1 .. Len(q) : a = at
      BY <1>4
    <3>2. PICK n \in Nat : n = Len(q)
      BY <1>3
    <3>3. a \in 1 .. n /\ a # n
      BY <1>6, <3>1, <3>2
    <3>4. a + 1 \in 1 .. n /\ a + 1 # a
      BY <3>3
    <3> QED
      BY <3>1, <3>2, <3>4
  <2>2. q[at + 1] \in RequestItems /\ q[at + 1] # r
    <3>1. IsInjective(q)
      BY <1>1, <1>2 DEF QueuesOK
    <3> QED
      BY <1>3, <1>4, <2>1, <3>1, ElementOfSeq DEF IsInjective
  <2>3. q[at + 1] \in Range(q)
    BY <1>3, <2>1 DEF Range
  <2>4. priority[q[at + 1]] = priority[r]
    BY <1>1, <1>2, <2>3 DEF QueuesOK
  <2>5. Queued(q[at + 1])
    BY <1>2, <2>1, <2>4 DEF Queued, Contains
  <2> QED
    BY <1>5, <1>6, <2>2, <2>5
<1> QED
  BY <1>5, <1>6

(* Calls made and ended *)
LEMMA CallsGrow ==
  ASSUME NEW below \in Seq(CallType), NEW x \in CallType
  PROVE  /\ Append(below, x) \in Seq(CallType) /\ Len(Append(below, x)) = Len(below) + 1
         /\ \A k \in 1 .. Len(below) : Append(below, x)[k] = below[k]
         /\ Append(below, x)[Len(below) + 1] = x /\ Len(below) \in Nat
  BY AppendProperties, LenProperties

LEMMA CallsShrink ==
  ASSUME calls \in Seq(CallType), calls # << >>, NEW below, below = Front(calls)
  PROVE  /\ below \in Seq(CallType) /\ Len(below) = Len(calls) - 1
         /\ \A k \in 1 .. Len(below) : below[k] = calls[k]
         /\ Len(calls) \in Nat \ {0} /\ Innermost \in CallType
<1>1. PICK n \in Nat : n = Len(calls)
  BY LenProperties
<1>2. n # 0
  BY <1>1, EmptySeq
<1>3. \A k \in 1 .. n - 1 : calls[k] \in CallType
  BY <1>1, ElementOfSeq
<1>4. below = SubSeq(calls, 1, n - 1)
  BY <1>1 DEF Front
<1>5. PICK m \in Nat : m = n - 1
  BY <1>2
<1>6. /\ SubSeq(calls, 1, m) \in Seq(CallType) /\ Len(SubSeq(calls, 1, m)) = IF 1 <= m THEN m - 1 + 1 ELSE 0
      /\ \A k \in 1 .. m - 1 + 1 : SubSeq(calls, 1, m)[k] = calls[1 + k - 1]
  BY <1>3, <1>5, SubSeqProperties
<1>7. (IF 1 <= m THEN m - 1 + 1 ELSE 0) = m /\ m - 1 + 1 = m /\ \A k \in 1 .. m : 1 + k - 1 = k
  OBVIOUS
<1>8. below \in Seq(CallType) /\ Len(below) = m /\ \A k \in 1 .. m : below[k] = calls[k]
  BY <1>4, <1>5, <1>6, <1>7
<1>9. n \in 1 .. Len(calls)
  BY <1>1, <1>2
<1>10. Innermost \in CallType
  BY <1>1, <1>9, ElementOfSeq DEF Innermost
<1> QED
  BY <1>1, <1>2, <1>5, <1>8, <1>10

(* A cancellation begins, on top of calls none of which has saved anything. *)
LEMMA CancelKeeps ==
  ASSUME QueuesOK, priority \in [RequestItems -> Priorities],
         NEW below \in Seq(CallType), \A k \in 1 .. Len(below) : below[k].next = "head",
         NEW r \in RequestItems, Queued(r), Cancel(below, r)
  PROVE  /\ QueuesOK' /\ Cardinality(QueuedPlaces)' = Cardinality(QueuedPlaces) - 1
         /\ calls' \in Seq(CallType) /\ Len(calls') = Len(below) + 1 /\ NeighbourQueued'
<1> DEFINE x == [op |-> "cancel", item |-> r, next |-> Neighbour(r)]
<1>1. queue' = Removed(r) /\ calls' = Append(below, x)
  BY DEF Cancel
<1>2. /\ QueuesOK' /\ Cardinality(QueuedPlaces)' = Cardinality(QueuedPlaces) - 1
      /\ \A s \in RequestItems : s # r /\ Queued(s) => Queued(s)'
  BY <1>1, Unlinked
<1>3. \/ Neighbour(r) = "head"
      \/ Neighbour(r) \in RequestItems /\ Neighbour(r) # r /\ Queued(Neighbour(r))
  BY NeighbourIsQueued
<1>4. PICK v : v = Neighbour(r)
  OBVIOUS
<1>5. v # "head" => v \in RequestItems /\ Queued(v)'
  BY <1>2, <1>3, <1>4
<1>6. PICK y \in CallType : y = x /\ y.op = "cancel" /\ y.next = v
  <2>1. [op |-> "cancel", item |-> r, next |-> v] \in CallType
    <3>1. v \in RequestItems \cup {"head"}
      BY <1>5
    <3> QED
      BY <3>1 DEF CallType
  <2>2. x = [op |-> "cancel", item |-> r, next |-> v]
    BY <1>4
  <2> QED
    BY <2>1, <2>2
<1>7. /\ calls' \in Seq(CallType) /\ Len(calls') = Len(below) + 1 /\ Len(below) \in Nat
      /\ \A k \in 1 .. Len(below) : calls'[k] = below[k]
      /\ calls'[Len(below) + 1] = y
  BY <1>1, <1>6, CallsGrow
<1> HIDE DEF x
<1>8. NeighbourQueued'
  <2> SUFFICES ASSUME NEW k \in 1 .. Len(calls')
               PROVE  /\ \A j \in 1 .. (k - 1) : calls'[j].next = "head"
                      /\ calls'[k].next # "head" => Contains(queue'[priority[calls'[k].next]], calls'[k].next)
    BY DEF NeighbourQueued, Queued
  <2>1. k \in 1 .. Len(below) \/ k = Len(below) + 1
    BY <1>7
  <2>2. \A j \in 1 .. Len(below) : calls'[j].next = "head"
    BY <1>7
  <2>3. k - 1 <= Len(below)
    BY <1>7
  <2>4. CASE k \in 1 .. Len(below)
    BY <1>7, <2>2, <2>3, <2>4
  <2>5. CASE k = Len(below) + 1
    <3>1. calls'[k] = y
      BY <1>7, <2>5
    <3>2. \A j \in 1 .. (k - 1) : calls'[j].next = "head"
      BY <1>7, <2>2, <2>5
    <3> QED
      BY <1>5, <1>6, <3>1, <3>2 DEF Queued
  <2> QED
    BY <2>1, <2>4, <2>5
<1> QED
  BY <1>2, <1>7, <1>8

LEMMA RequestsInvInit ==
  ASSUME RequestsInit
  PROVE  RequestsInv
<1> USE RequestsAssumption DEF RequestsInit
<1>1. \A i \in Priorities : queue[i] = << >>
  OBVIOUS
<1>2. << >> \in Seq(RequestItems) /\ << >> \in Seq(CallType) /\ Len(<< >>) = 0 /\ DOMAIN << >> = {}
  BY EmptySeq
<1>3. QueuedPlaces = {}
  BY <1>1, <1>2 DEF QueuedPlaces
<1>4. IsFiniteSet(QueuedPlaces) /\ Cardinality(QueuedPlaces) = 0
  BY <1>3, FS_EmptySet
<1>5. QueuesOK
  <2>1. queue \in [Priorities -> Seq(RequestItems)]
    BY <1>2
  <2>2. \A i \in Priorities : IsInjective(queue[i]) /\ Range(queue[i]) = {}
    BY <1>1, <1>2 DEF IsInjective, Range
  <2> QED
    BY <1>4, <2>1, <2>2 DEF QueuesOK
<1>6. NeighbourQueued
  BY <1>2 DEF NeighbourQueued
<1> QED
  BY <1>2, <1>4, <1>5, <1>6 DEF RequestsInv, RequestsCounted

(* A request is added. *)
LEMMA SubmitKeeps ==
  ASSUME RequestsInv, NEW r \in RequestItems, request_queue_submit(r)
  PROVE  RequestsInv'
<1> DEFINE p == priority[r]
<1>1. /\ ~Queued(r) /\ queue' = [queue EXCEPT ![p] = Append(@, r)]
      /\ num_reqs' = num_reqs + 1 /\ calls' = calls /\ cancels' = cancels
  BY DEF request_queue_submit
<1>2. /\ p \in Priorities /\ queue \in [Priorities -> Seq(RequestItems)] /\ IsFiniteSet(QueuedPlaces)
      /\ priority \in [RequestItems -> Priorities] /\ QueuesOK
  BY DEF RequestsInv, QueuesOK
<1>3. PICK q \in Seq(RequestItems) : q = queue[p]
  BY <1>2
<1>4. PICK n \in Nat : n = Len(q)
  BY LenProperties
<1>5. r \notin Range(q) /\ IsInjective(q) /\ DOMAIN q = 1 .. n
  BY <1>1, <1>2, <1>3, <1>4, QueuedIs, LenProperties DEF QueuesOK
<1>6. PICK longer : longer = Append(q, r)
  OBVIOUS
<1>7. /\ longer \in Seq(RequestItems) /\ Len(longer) = n + 1 /\ longer[n + 1] = r
      /\ \A k \in 1 .. n : longer[k] = q[k]
  BY <1>4, <1>6, AppendProperties
<1>8. DOMAIN longer = 1 .. n + 1 /\ \A k \in 1 .. n + 1 : k \in 1 .. n \/ k = n + 1
  BY <1>7, LenProperties
<1>9. IsInjective(longer) /\ Range(longer) = Range(q) \cup {r}
  <2>1. \A k \in 1 .. n : q[k] \in Range(q)
    BY <1>5 DEF Range
  <2>2. n + 1 \in 1 .. n + 1 /\ \A k \in 1 .. n : k \in 1 .. n + 1
    OBVIOUS
  <2>3. IsInjective(longer)
    <3> SUFFICES ASSUME NEW a \in 1 .. n + 1, NEW b \in 1 .. n + 1, longer[a] = longer[b] PROVE a = b
      BY <1>8 DEF IsInjective
    <3>1. CASE a \in 1 .. n /\ b \in 1 .. n
      BY <1>5, <1>7, <3>1 DEF IsInjective
    <3>2. CASE a = n + 1 /\ b \in 1 .. n
      BY <1>5, <1>7, <2>1, <3>2
    <3>3. CASE a \in 1 .. n /\ b = n + 1
      BY <1>5, <1>7, <2>1, <3>3
    <3> QED
      BY <1>8, <3>1, <3>2, <3>3
  <2>4. ASSUME NEW v PROVE v \in Range(longer) <=> v \in Range(q) \/ v = r
    <3>1. v \in Range(longer) <=> \E k \in 1 .. n + 1 : longer[k] = v
      BY <1>8 DEF Range
    <3>2. v \in Range(q) <=> \E k \in 1 .. n : q[k] = v
      BY <1>5 DEF Range
    <3> QED
      BY <1>7, <1>8, <2>2, <3>1, <3>2
  <2> QED
    BY <2>3, <2>4
<1>10. /\ queue' \in [Priorities -> Seq(RequestItems)] /\ queue'[p] = longer
       /\ \A i \in Priorities : i # p => queue'[i] = queue[i]
  <2>1. queue' = [queue EXCEPT ![p] = longer]
    BY <1>1, <1>3, <1>6
  <2> QED
    BY <1>2, <1>7, <2>1
<1>11. QueuedPlaces' = QueuedPlaces \cup {<<p, n + 1>>} /\ <<p, n + 1>> \notin QueuedPlaces
  <2>1. DOMAIN queue'[p] = 1 .. n + 1 /\ DOMAIN queue[p] = 1 .. n
    BY <1>3, <1>5, <1>8, <1>10
  <2>2. \A i \in Priorities : DOMAIN queue'[i] = IF i = p THEN 1 .. n + 1 ELSE DOMAIN queue[i]
    BY <1>10, <2>1
  <2> HIDE DEF p
  <2>3. ASSUME NEW x PROVE x \in QueuedPlaces' <=> x \in QueuedPlaces \/ x = <<p, n + 1>>
    <3>1. x \in QueuedPlaces' <=> \E i \in Priorities : \E k \in DOMAIN queue'[i] : x = <<i, k>>
      BY DEF QueuedPlaces, Priorities
    <3>2. x \in QueuedPlaces <=> \E i \in Priorities : \E k \in DOMAIN queue[i] : x = <<i, k>>
      BY DEF QueuedPlaces
    <3>3. ASSUME NEW i \in Priorities, NEW k
          PROVE  k \in DOMAIN queue'[i] <=> k \in DOMAIN queue[i] \/ <<i, k>> = <<p, n + 1>>
      <4>1. CASE i # p
        BY <2>2, <4>1
      <4>2. CASE i = p
        <5>1. k \in 1 .. n + 1 <=> k \in 1 .. n \/ k = n + 1
          OBVIOUS
        <5> QED
          BY <2>1, <4>2, <5>1
      <4> QED
        BY <4>1, <4>2
    <3>4. n + 1 \in DOMAIN queue'[p]
      BY <2>1
    <3> QED
      BY <1>2, <3>1, <3>2, <3>3, <3>4
  <2>4. <<p, n + 1>> \notin QueuedPlaces
    <3>1. n + 1 \notin 1 .. n
      OBVIOUS
    <3> QED
      BY <2>1, <3>1 DEF QueuedPlaces
  <2> QED
    BY <2>3, <2>4
<1>12. IsFiniteSet(QueuedPlaces') /\ Cardinality(QueuedPlaces') = Cardinality(QueuedPlaces) + 1
  BY <1>2, <1>11, FS_AddElement
<1>13. QueuesOK'
  <2>1. ASSUME NEW i \in Priorities
        PROVE  IsInjective(queue'[i]) /\ \A s \in Range(queue'[i]) : priority[s] = i
    BY <1>2, <1>3, <1>9, <1>10 DEF QueuesOK
  <2> QED
    BY <1>10, <1>12, <2>1 DEF QueuesOK, Priorities
<1>14. ASSUME NEW s \in RequestItems, Queued(s) PROVE Queued(s)'
  <2>1. priority[s] \in Priorities /\ s \in Range(queue[priority[s]])
    BY <1>2, <1>14, QueuedIs
  <2>2. s \in Range(queue'[priority[s]])
    BY <1>3, <1>9, <1>10, <2>1
  <2>3. PICK u \in Seq(RequestItems) : u = queue'[priority[s]]
    BY <1>10, <2>1
  <2>4. DOMAIN u = 1 .. Len(u)
    BY LenProperties
  <2> QED
    BY <2>2, <2>3, <2>4 DEF Queued, Contains, Range
<1>15. NeighbourQueued'
  <2>1. \A k \in 1 .. Len(calls) : calls[k].next # "head" => calls[k].next \in RequestItems
    <3> SUFFICES ASSUME NEW k \in 1 .. Len(calls) PROVE calls[k] \in CallType
      BY DEF CallType
    <3> QED
      BY ElementOfSeq DEF RequestsInv
  <2> SUFFICES ASSUME NEW k \in 1 .. Len(calls)
               PROVE  /\ calls[k].op = "cancel" => \A j \in 1 .. (k - 1) : calls[j].next = "head"
                      /\ calls[k].next # "head" => Queued(calls[k].next)'
    BY <1>1 DEF NeighbourQueued, Queued
  <2>2. /\ calls[k].op = "cancel" => \A j \in 1 .. (k - 1) : calls[j].next = "head"
        /\ calls[k].next # "head" => Queued(calls[k].next)
    BY DEF RequestsInv, NeighbourQueued
  <2>3. PICK v : v = calls[k].next
    OBVIOUS
  <2>4. v # "head" => Queued(v)'
    BY <1>14, <2>1, <2>2, <2>3
  <2> QED
    BY <1>1, <2>2, <2>3, <2>4 DEF Queued
<1>16. RequestsCounted'
  BY <1>1, <1>2, <1>12, FS_CardinalityType, LenProperties DEF RequestsInv, RequestsCounted
<1> QED
  BY <1>1, <1>13, <1>15, <1>16 DEF RequestsInv, Priorities

(* What the calls go on to is saved. *)
LEMMA NextIsSaved ==
  ASSUME RequestsInv
  PROVE  \A k \in 1 .. Len(calls) : calls[k].next = "head" \/ calls[k].next \in Saved
<1>1. PICK c \in Seq(CallType) : c = calls
  BY DEF RequestsInv
<1>2. DOMAIN c = 1 .. Len(c)
  BY LenProperties
<1> QED
  BY <1>1, <1>2 DEF Saved, Range

LEMMA ScheduleKeeps ==
  ASSUME RequestsInv, request_queue_schedule
  PROVE  RequestsInv'
<1> DEFINE x == [op |-> "accept", item |-> First(1), next |-> "head"]
<1>1. /\ Waiting(1) # {} /\ First(1) \notin Saved
      /\ queue' = Removed(First(1)) /\ calls' = Append(calls, x)
      /\ num_reqs' = num_reqs /\ cancels' = cancels
  BY DEF request_queue_schedule
<1>2. PICK r \in RequestItems : r = First(1) /\ Queued(r)
  BY <1>1, FirstIsQueued DEF RequestsInv
<1>3. /\ QueuesOK' /\ Cardinality(QueuedPlaces)' = Cardinality(QueuedPlaces) - 1
      /\ \A s \in RequestItems : s # r /\ Queued(s) => Queued(s)'
  BY <1>1, <1>2, Unlinked DEF RequestsInv
<1>4. PICK y \in CallType : y = x /\ y.op = "accept" /\ y.next = "head"
  <2>1. [op |-> "accept", item |-> r, next |-> "head"] \in CallType
    BY DEF CallType
  <2>2. x = [op |-> "accept", item |-> r, next |-> "head"]
    BY <1>2
  <2> QED
    BY <2>1, <2>2
<1>5. /\ calls' \in Seq(CallType) /\ Len(calls') = Len(calls) + 1 /\ Len(calls) \in Nat
      /\ \A k \in 1 .. Len(calls) : calls'[k] = calls[k]
      /\ calls'[Len(calls) + 1] = y
  BY <1>1, <1>4, CallsGrow DEF RequestsInv
<1> HIDE DEF x
<1>6. ASSUME NEW k \in 1 .. Len(calls), NEW v, v = calls[k].next, v # "head" PROVE Queued(v)'
  <2>1. calls[k] \in CallType
    BY ElementOfSeq DEF RequestsInv
  <2>2. v \in RequestItems
    BY <1>6, <2>1 DEF CallType
  <2>3. v # r
    BY <1>1, <1>2, <1>6, NextIsSaved
  <2>4. Queued(v)
    BY <1>6 DEF RequestsInv, NeighbourQueued
  <2> QED
    BY <1>3, <2>2, <2>3, <2>4
<1>7. \A k \in 1 .. Len(calls) : calls[k].op = "cancel" => \A j \in 1 .. (k - 1) : calls[j].next = "head"
  BY DEF RequestsInv, NeighbourQueued
<1>8. NeighbourQueued'
  <2> SUFFICES ASSUME NEW k \in 1 .. Len(calls')
               PROVE  /\ calls'[k].op = "cancel" => \A j \in 1 .. (k - 1) : calls'[j].next = "head"
                      /\ calls'[k].next # "head" => Contains(queue'[priority[calls'[k].next]], calls'[k].next)
    BY DEF NeighbourQueued, Queued
  <2>1. k \in 1 .. Len(calls) \/ k = Len(calls) + 1
    BY <1>5
  <2>2. CASE k \in 1 .. Len(calls)
    <3>1. \A j \in 1 .. (k - 1) : j \in 1 .. Len(calls)
      BY <1>5, <2>2
    <3>2. PICK v : v = calls[k].next /\ calls'[k] = calls[k]
      BY <1>5, <2>2
    <3>3. v # "head" => Queued(v)'
      BY <1>6, <2>2, <3>2
    <3> QED
      BY <1>5, <1>7, <2>2, <3>1, <3>2, <3>3 DEF Queued
  <2>3. CASE k = Len(calls) + 1
    BY <1>4, <1>5, <2>3
  <2> QED
    BY <2>1, <2>2, <2>3
<1>9. RequestsCounted'
  BY <1>1, <1>3, <1>5, FS_CardinalityType DEF RequestsInv, RequestsCounted, QueuesOK
<1> QED
  BY <1>1, <1>3, <1>5, <1>8, <1>9 DEF RequestsInv, Priorities

(* The calls below the innermost: below a cancellation nothing is saved. *)
LEMMA CallsBelow ==
  ASSUME RequestsInv, calls # << >>, NEW below, below = Front(calls)
  PROVE  /\ below \in Seq(CallType) /\ Len(below) = Len(calls) - 1 /\ Len(calls) \in Nat \ {0}
         /\ \A k \in 1 .. Len(below) : below[k] = calls[k]
         /\ Innermost \in CallType
         /\ Innermost.op = "cancel" => \A k \in 1 .. Len(below) : below[k].next = "head"
<1>1. /\ below \in Seq(CallType) /\ Len(below) = Len(calls) - 1
      /\ \A k \in 1 .. Len(below) : below[k] = calls[k]
      /\ Len(calls) \in Nat \ {0} /\ Innermost \in CallType
  BY CallsShrink DEF RequestsInv
<1>2. ASSUME Innermost.op = "cancel", NEW k \in 1 .. Len(below) PROVE below[k].next = "head"
  <2>1. Len(calls) \in 1 .. Len(calls) /\ k \in 1 .. (Len(calls) - 1)
    BY <1>1
  <2>2. calls[k].next = "head"
    BY <1>2, <2>1 DEF RequestsInv, NeighbourQueued, Innermost
  <2> QED
    BY <1>1, <2>2
<1> QED
  BY <1>1, <1>2

LEMMA AcceptReturnsKeeps ==
  ASSUME RequestsInv, AcceptReturns
  PROVE  RequestsInv'
<1>1. /\ calls # << >> /\ calls' = Front(calls) /\ num_reqs' = num_reqs - 1
      /\ queue' = queue /\ cancels' = cancels
  BY DEF AcceptReturns, Running
<1>2. PICK below : below = Front(calls)
  OBVIOUS
<1>3. /\ below \in Seq(CallType) /\ Len(below) = Len(calls) - 1 /\ Len(calls) \in Nat \ {0}
      /\ \A k \in 1 .. Len(below) : below[k] = calls[k]
  BY <1>1, <1>2, CallsBelow
<1>4. QueuesOK' /\ QueuedPlaces' = QueuedPlaces
  BY <1>1 DEF RequestsInv, QueuesOK, QueuedPlaces, Priorities
<1>5. NeighbourQueued'
  <2> SUFFICES ASSUME NEW k \in 1 .. Len(below)
               PROVE  /\ below[k].op = "cancel" => \A j \in 1 .. (k - 1) : below[j].next = "head"
                      /\ below[k].next # "head" => Queued(below[k].next)
    BY <1>1, <1>2 DEF NeighbourQueued, Queued
  <2>1. /\ k \in 1 .. Len(calls) /\ \A j \in 1 .. (k - 1) : j \in 1 .. Len(below)
    BY <1>3
  <2> QED
    BY <1>3, <2>1 DEF RequestsInv, NeighbourQueued
<1>6. RequestsCounted'
  BY <1>1, <1>2, <1>3, <1>4, FS_CardinalityType DEF RequestsInv, RequestsCounted, QueuesOK
<1> QED
  BY <1>1, <1>2, <1>3, <1>4, <1>5, <1>6 DEF RequestsInv, Priorities

LEMMA ResetKeeps ==
  ASSUME RequestsInv, reqiest_queue_reset
  PROVE  RequestsInv'
<1>1. /\ Waiting(1) # {} /\ Saved = {} /\ Cancel(calls, First(1))
      /\ num_reqs' = num_reqs /\ cancels' = cancels
  BY DEF reqiest_queue_reset
<1>2. PICK r \in RequestItems : r = First(1) /\ Queued(r)
  BY <1>1, FirstIsQueued DEF RequestsInv
<1>3. /\ QueuesOK' /\ Cardinality(QueuedPlaces)' = Cardinality(QueuedPlaces) - 1
      /\ calls' \in Seq(CallType) /\ Len(calls') = Len(calls) + 1 /\ NeighbourQueued'
  <2>1. \A k \in 1 .. Len(calls) : calls[k].next = "head"
    BY <1>1, NextIsSaved
  <2> QED
    BY <1>1, <1>2, <2>1, CancelKeeps DEF RequestsInv
<1>4. Len(calls) \in Nat /\ Cardinality(QueuedPlaces) \in Nat
  BY FS_CardinalityType, LenProperties DEF RequestsInv, QueuesOK
<1>5. RequestsCounted'
  BY <1>1, <1>3, <1>4 DEF RequestsInv, RequestsCounted
<1> QED
  BY <1>1, <1>3, <1>5 DEF RequestsInv, Priorities

LEMMA CancelReturnsKeeps ==
  ASSUME RequestsInv, CancelReturns
  PROVE  RequestsInv'
<1>1. PICK f : f = Innermost
  OBVIOUS
<1>2. PICK below : below = Front(calls)
  OBVIOUS
<1>3. /\ Running = "cancel" /\ num_reqs' = num_reqs - 1 /\ cancels' = cancels
      /\ IF f.next # "head" THEN Cancel(below, f.next)
         ELSE IF Waiting(priority[f.item] + 1) # {} THEN Cancel(below, First(priority[f.item] + 1))
         ELSE calls' = below /\ queue' = queue
  BY <1>1, <1>2 DEF CancelReturns
<1>4. calls # << >> /\ f.op = "cancel"
  BY <1>1, <1>3 DEF Running
<1>5. /\ below \in Seq(CallType) /\ Len(below) = Len(calls) - 1 /\ Len(calls) \in Nat \ {0}
      /\ \A k \in 1 .. Len(below) : below[k] = calls[k]
      /\ \A k \in 1 .. Len(below) : below[k].next = "head"
      /\ f \in CallType
  BY <1>1, <1>2, <1>4, CallsBelow
<1>6. Cardinality(QueuedPlaces) \in Nat
  BY FS_CardinalityType DEF RequestsInv, QueuesOK
<1>7. ASSUME NEW r \in RequestItems, Queued(r), Cancel(below, r) PROVE RequestsInv'
  <2>1. /\ QueuesOK' /\ Cardinality(QueuedPlaces)' = Cardinality(QueuedPlaces) - 1
        /\ calls' \in Seq(CallType) /\ Len(calls') = Len(below) + 1 /\ NeighbourQueued'
    BY <1>5, <1>7, CancelKeeps DEF RequestsInv
  <2>2. RequestsCounted'
    BY <1>3, <1>5, <1>6, <2>1 DEF RequestsInv, RequestsCounted
  <2> QED
    BY <1>3, <2>1, <2>2 DEF RequestsInv, Priorities
<1>8. CASE f.next # "head"
  <2>1. f.next \in RequestItems
    BY <1>5, <1>8 DEF CallType
  <2>2. Queued(f.next)
    <3>1. Len(calls) \in 1 .. Len(calls)
      BY <1>5
    <3> QED
      BY <1>1, <1>4, <1>8, <3>1 DEF RequestsInv, NeighbourQueued, Innermost
  <2> QED
    BY <1>3, <1>7, <1>8, <2>1, <2>2
<1>9. CASE f.next = "head" /\ Waiting(priority[f.item] + 1) # {}
  <2>1. PICK i \in Int : i = priority[f.item] + 1
    <3>1. f.item \in RequestItems
      BY <1>5 DEF CallType
    <3>2. priority[f.item] \in Int
      BY <3>1 DEF RequestsInv, Priorities
    <3> QED
      BY <3>2
  <2>2. First(i) \in RequestItems /\ Queued(First(i))
    BY <1>9, <2>1, FirstIsQueued DEF RequestsInv
  <2> QED
    BY <1>3, <1>7, <1>9, <2>1, <2>2
<1>10. CASE f.next = "head" /\ Waiting(priority[f.item] + 1) = {}
  <2>1. calls' = below /\ queue' = queue
    BY <1>3, <1>10
  <2>2. QueuesOK' /\ QueuedPlaces' = QueuedPlaces
    BY <2>1 DEF RequestsInv, QueuesOK, QueuedPlaces, Priorities
  <2>3. NeighbourQueued'
    <3> SUFFICES ASSUME NEW k \in 1 .. Len(below)
                 PROVE  \A j \in 1 .. (k - 1) : below[j].next = "head"
      BY <1>5, <2>1 DEF NeighbourQueued
    <3> QED
      BY <1>5
  <2>4. RequestsCounted'
    BY <1>3, <1>5, <1>6, <2>1, <2>2 DEF RequestsInv, RequestsCounted
  <2> QED
    BY <1>3, <1>5, <2>1, <2>2, <2>3, <2>4 DEF RequestsInv, Priorities
<1> QED
  BY <1>8, <1>9, <1>10

(* num_reqs counts the requests that are queued and those a callback is at   *)
(* work for, however submit, schedule and reset nest in their callbacks, as  *)
(* long as these leave on the queue the neighbour a reset has saved          *)
(* (request_queue.c): for every set of requests, of priorities and every     *)
(* depth of calls.                                                           *)
THEOREM RequestsStayCounted == RequestsSpec => []RequestsCounted
<1>1. RequestsInit => RequestsInv
  BY RequestsInvInit
<1>2. RequestsInv /\ [RequestsNext]_requestVars => RequestsInv'
  <2> SUFFICES ASSUME RequestsInv, [RequestsNext]_requestVars PROVE RequestsInv'
    OBVIOUS
  <2>1. CASE \E r \in RequestItems : request_queue_submit(r)
    BY <2>1, SubmitKeeps
  <2>2. CASE request_queue_schedule
    BY <2>2, ScheduleKeeps
  <2>3. CASE AcceptReturns
    BY <2>3, AcceptReturnsKeeps
  <2>4. CASE reqiest_queue_reset
    BY <2>4, ResetKeeps
  <2>5. CASE CancelReturns
    BY <2>5, CancelReturnsKeeps
  <2>6. CASE UNCHANGED requestVars
    BY <2>6 DEF requestVars, RequestsInv, QueuesOK, NeighbourQueued, RequestsCounted, QueuedPlaces, Queued, Priorities
  <2> QED
    BY <2>1, <2>2, <2>3, <2>4, <2>5, <2>6 DEF RequestsNext
<1>3. RequestsInv => RequestsCounted
  BY DEF RequestsInv
<1> QED
  BY <1>1, <1>2, <1>3, PTL DEF RequestsSpec

-----------------------------------------------------------------------------
(* The telnet reader *)

(* The characters there are, also those of the terminal. *)
Chars == {"CR", "damaged prompt"} \cup UNION {UNION {Range(item) : item \in Items[u]} : u \in Users}

ReaderStates == {"start", "rx_iac", "rx_do_dont_will_wont", "rx_sb", "wait_for_se"}
ReaderType == [state : ReaderStates, size : 0 .. SubMax]

(* What the reader has swallowed since it was last in "start". *)
SwallowedIn(state, size, n) ==
  /\ state = "start" => n = 0
  /\ state = "rx_iac" => n = 1
  /\ state = "rx_do_dont_will_wont" => n = 2
  /\ state = "rx_sb" => n = 2 + size
  /\ state = "wait_for_se" => n <= SubMax + 3

Swallows(tr, n) == SwallowedIn(tr.state, tr.size, n)

FedType == {acc \in [reader : ReaderType, data : Seq(Chars), count : Nat] : Swallows(acc.reader, acc.count)}
FedBy == [x \in FedType \X Chars |-> FeedByte(x[1], x[2])]

ReaderCount(tr, n) == IF tr.state = "start" THEN 0 ELSE n + 1

LEMMA ReadTypes ==
  ASSUME NEW tr \in ReaderType, NEW n \in Nat, Swallows(tr, n), NEW d \in Chars
  PROVE  /\ Read(tr, d).reader \in ReaderType /\ Read(tr, d).data \in Seq(Chars)
         /\ Swallows(Read(tr, d).reader, ReaderCount(Read(tr, d).reader, n))
<1> USE SubMaxAssumption
<1>1. /\ tr.state \in ReaderStates /\ tr.size \in 0 .. SubMax
      /\ tr = [state |-> tr.state, size |-> tr.size]
  BY DEF ReaderType
<1>2. << >> \in Seq(Chars) /\ << d >> \in Seq(Chars)
  OBVIOUS
<1>3. SwallowedIn(tr.state, tr.size, n)
  BY DEF Swallows
<1> DEFINE Good(s) == /\ s.reader \in ReaderType /\ s.data \in Seq(Chars)
                      /\ Swallows(s.reader, ReaderCount(s.reader, n))
<1>4. ASSUME NEW state \in ReaderStates, NEW size \in 0 .. SubMax, NEW s,
             s.reader = [state |-> state, size |-> size], s.data \in Seq(Chars),
             SwallowedIn(state, size, IF state = "start" THEN 0 ELSE n + 1)
      PROVE  Good(s)
  <2>1. s.reader \in ReaderType /\ s.reader.state = state /\ s.reader.size = size
    BY <1>4 DEF ReaderType
  <2> QED
    BY <1>4, <2>1 DEF Swallows, ReaderCount
<1> SUFFICES Good(Read(tr, d))
  OBVIOUS
<1> HIDE DEF Good
<1>5. ASSUME NEW state
      PROVE  /\ Move(tr, state).reader = [state |-> state, size |-> tr.size] /\ Move(tr, state).data = << >>
             /\ Data(tr, d).reader = [state |-> "start", size |-> tr.size] /\ Data(tr, d).data = << d >>
  BY <1>1 DEF Move, Data
<1>6. Good(Data(tr, d)) /\ Good(Move(tr, "start"))
  <2>1. "start" \in ReaderStates /\ SwallowedIn("start", tr.size, 0)
    BY DEF ReaderStates, SwallowedIn
  <2> QED
    BY <1>1, <1>2, <1>4, <1>5, <2>1
<1>7. CASE tr.state = "start"
  <2>1. "rx_iac" \in ReaderStates /\ SwallowedIn("rx_iac", tr.size, n + 1)
    BY <1>3, <1>7 DEF ReaderStates, SwallowedIn
  <2>2. Good(Move(tr, "rx_iac"))
    BY <1>1, <1>2, <1>4, <1>5, <2>1
  <2>3. Read(tr, d) = IF d = "IAC" THEN Move(tr, "rx_iac") ELSE Data(tr, d)
    BY <1>7 DEF Read
  <2> QED
    BY <1>6, <2>2, <2>3
<1>8. CASE tr.state = "rx_iac"
  <2>1. /\ "rx_do_dont_will_wont" \in ReaderStates /\ SwallowedIn("rx_do_dont_will_wont", tr.size, n + 1)
        /\ "rx_sb" \in ReaderStates /\ SwallowedIn("rx_sb", 0, n + 1) /\ 0 \in 0 .. SubMax
    BY <1>3, <1>8 DEF ReaderStates, SwallowedIn
  <2>2. Good(Move(tr, "rx_do_dont_will_wont"))
    BY <1>1, <1>2, <1>4, <1>5, <2>1
  <2>3. Good(Move([tr EXCEPT !.size = 0], "rx_sb"))
    <3>1. /\ Move([tr EXCEPT !.size = 0], "rx_sb").reader = [state |-> "rx_sb", size |-> 0]
          /\ Move([tr EXCEPT !.size = 0], "rx_sb").data = << >>
      BY <1>1 DEF Move
    <3> QED
      BY <1>2, <1>4, <2>1, <3>1
  <2>4. Read(tr, d) = RxIac(tr, d)
    BY <1>8 DEF Read
  <2> QED
    BY <1>6, <2>2, <2>3, <2>4 DEF RxIac
<1>9. CASE tr.state = "rx_sb"
  <2>1. "wait_for_se" \in ReaderStates /\ SwallowedIn("wait_for_se", tr.size, n + 1)
    BY <1>1, <1>3, <1>9 DEF ReaderStates, SwallowedIn
  <2>2. Good(Move(tr, "wait_for_se"))
    BY <1>1, <1>2, <1>4, <1>5, <2>1
  <2>3. ASSUME tr.size < SubMax PROVE Good(Move([tr EXCEPT !.size = @ + 1], "rx_sb"))
    <3>1. PICK size \in 0 .. SubMax : size = tr.size + 1
      BY <1>1, <2>3
    <3>2. "rx_sb" \in ReaderStates /\ SwallowedIn("rx_sb", size, n + 1)
      BY <1>1, <1>3, <1>9, <3>1 DEF ReaderStates, SwallowedIn
    <3>3. /\ Move([tr EXCEPT !.size = @ + 1], "rx_sb").reader = [state |-> "rx_sb", size |-> size]
          /\ Move([tr EXCEPT !.size = @ + 1], "rx_sb").data = << >>
      BY <1>1, <3>1 DEF Move
    <3> QED
      BY <1>2, <1>4, <3>2, <3>3
  <2>4. Read(tr, d) = RxSb(tr, d)
    BY <1>9 DEF Read
  <2> QED
    BY <1>6, <2>2, <2>3, <2>4 DEF RxSb
<1>10. CASE tr.state \in {"rx_do_dont_will_wont", "wait_for_se"}
  <2>1. Read(tr, d) = Move(tr, "start")
    BY <1>10 DEF Read
  <2> QED
    BY <1>6, <2>1
<1> QED
  BY <1>1, <1>7, <1>8, <1>9, <1>10 DEF ReaderStates

LEMMA FedTypes ==
  ASSUME NEW acc \in FedType, NEW d \in Chars
  PROVE  FeedByte(acc, d) \in FedType
<1>1. acc.reader \in ReaderType /\ acc.data \in Seq(Chars) /\ acc.count \in Nat /\ Swallows(acc.reader, acc.count)
  BY DEF FedType
<1>2. PICK s : s = Read(acc.reader, d)
  OBVIOUS
<1>3. /\ s.reader \in ReaderType /\ s.data \in Seq(Chars)
      /\ Swallows(s.reader, ReaderCount(s.reader, acc.count))
  BY <1>1, <1>2, ReadTypes
<1>4. PICK data \in Seq(Chars) : data = acc.data \o s.data
  <2>1. PICK a \in Seq(Chars), b \in Seq(Chars) : a = acc.data /\ b = s.data
    BY <1>1, <1>3
  <2>2. a \o b \in Seq(Chars)
    BY CatFacts DEF Cat
  <2> QED
    BY <2>1, <2>2
<1>5. PICK n \in Nat : n = ReaderCount(s.reader, acc.count)
  BY <1>1 DEF ReaderCount
<1>6. FeedByte(acc, d) = [reader |-> s.reader, data |-> data, count |-> n]
  BY <1>2, <1>4, <1>5 DEF FeedByte, ReaderCount
<1> QED
  BY <1>3, <1>5, <1>6 DEF FedType

(* What telnet_reader_feed leaves is proper again. *)
LEMMA FeedKeeps ==
  ASSUME NEW c, reader[c] \in ReaderType, swallowed[c] \in Nat, Swallows(reader[c], swallowed[c]),
         NEW read \in Seq(Chars)
  PROVE  Feed(c, read) \in FedType
<1> DEFINE base == [reader |-> reader[c], data |-> << >>, count |-> swallowed[c]]
           op(acc, d) == FeedByte(acc, d)
           Def(q) == [p \in SUBSET DOMAIN read |->
                        IF p = {} THEN base ELSE LET i == Max(p) IN op(q[p \ {i}], read[i])]
           it == CHOOSE q : q = Def(q)
<1>1. base \in FedType
  <2>1. << >> \in Seq(Chars)
    OBVIOUS
  <2> QED
    BY <2>1 DEF FedType
<1>2. FedBy \in [FedType \X Chars -> FedType] /\ \A a \in FedType, b \in Chars : FedBy[<<a, b>>] = op(a, b)
  <2>1. FedBy = [x \in FedType \X Chars |-> FedBy[x]]
    BY DEF FedBy
  <2>2. \A a \in FedType, b \in Chars : FedBy[<<a, b>>] = op(a, b)
    BY DEF FedBy
  <2>3. ASSUME NEW x \in FedType \X Chars PROVE FedBy[x] \in FedType
    <3>1. PICK a \in FedType, b \in Chars : x = <<a, b>>
      OBVIOUS
    <3> QED
      BY <2>2, <3>1, FedTypes
  <2> QED
    BY <2>1, <2>2, <2>3
<1> HIDE DEF op, base
<1>3. PICK g : IsFold(FedType, Chars, FedBy, base, read, g)
  BY <1>1, <1>2, FoldExists
<1>4. g = Def(g)
  BY <1>2, <1>3 DEF IsFold
<1>5. it = Def(it)
  <2> HIDE DEF Def
  <2> QED
    BY <1>4
<1> HIDE DEF it
<1>6. Follows(FedType, Chars, FedBy, base, read, it)
  BY <1>2, <1>5 DEF Follows
<1> HIDE DEF Def
<1>7. PICK q : Runs(FedType, FedBy, base, read, q, it[DOMAIN read])
  BY <1>1, <1>2, <1>6, FoldRuns
<1>8. Feed(c, read) = it[DOMAIN read]
  BY DEF Feed, FoldLeft, MapThenFoldSet, it, Def, op, base
<1> QED
  <2>1. Len(read) \in 0 .. Len(read)
    BY LenProperties
  <2> QED
    BY <1>7, <1>8, <2>1 DEF Runs

-----------------------------------------------------------------------------
(* The command line and what the terminal shows of it *)

Results == {Execute(line) : line \in Seq(Chars)}
Prints == {<<"prompt">>, <<"erase">>} \cup {<<"echo", k>> : k \in Chars}
CliType == [line : Seq(Chars), ran : Seq(Results), out : Seq(Prints)]
Texts == Seq(Chars)

PassedBy == [x \in Texts \X Chars |-> PassKey(x[1], x[2])]
ShownBy == [x \in Texts \X Prints |-> Show(x[1], x[2])]
HandledBy == [x \in CliType \X Chars |-> HandleKey(x[1], x[2])]

LEMMA FrontIsText ==
  ASSUME NEW text \in Texts, text # << >>
  PROVE  Front(text) \in Texts
<1>1. PICK n \in Nat : n = Len(text)
  BY LenProperties DEF Texts
<1>2. n # 0
  BY <1>1, EmptySeq DEF Texts
<1>3. \A k \in 1 .. n - 1 : text[k] \in Chars
  BY <1>1, ElementOfSeq DEF Texts
<1>4. PICK m \in Nat : m = n - 1
  BY <1>2
<1>5. SubSeq(text, 1, m) \in Seq(Chars)
  BY <1>3, <1>4, SubSeqProperties
<1> QED
  BY <1>1, <1>4, <1>5 DEF Front, Texts

LEMMA PassTypesBase == << >> \in Texts
  BY DEF Texts

LEMMA PassTypes ==
  ASSUME NEW text \in Texts, NEW k \in Chars
  PROVE  PassKey(text, k) \in Texts
  BY AppendProperties DEF PassKey, Texts

LEMMA PrintKinds ==
  ASSUME NEW w \in Prints
  PROVE  \/ w[1] = "prompt"
         \/ w[1] = "erase"
         \/ w[1] = "echo" /\ w[2] \in Chars
  BY DEF Prints

LEMMA ShowTypes ==
  ASSUME NEW text \in Texts, NEW w \in Prints
  PROVE  Show(text, w) \in Texts
<1>1. CASE w[1] = "prompt"
  BY <1>1, PassTypesBase DEF Show
<1>2. CASE w[1] = "erase"
  <2>1. <<"damaged prompt">> \in Texts
    <3>1. PICK k \in Chars : k = "damaged prompt"
      BY DEF Chars
    <3>2. << k >> \in Seq(Chars)
      OBVIOUS
    <3> QED
      BY <3>1, <3>2 DEF Texts
  <2> QED
    BY <1>2, <2>1, FrontIsText DEF Show
<1>3. CASE w[1] = "echo" /\ w[2] \in Chars
  <2>1. Append(text, w[2]) \in Texts
    BY <1>3, AppendProperties DEF Texts
  <2> QED
    BY <1>3, <2>1 DEF Show
<1> QED
  BY <1>1, <1>2, <1>3, PrintKinds

(* A key changes the line as what it writes changes the terminal. *)
LEMMA KeyShown ==
  ASSUME NEW cli \in CliType, NEW k \in Chars
  PROVE  \/ HandleKey(cli, k) = cli
         \/ \E w \in Prints : /\ HandleKey(cli, k) \in CliType
                              /\ HandleKey(cli, k).out = Append(cli.out, w)
                              /\ HandleKey(cli, k).line = Show(cli.line, w)
<1>1. PICK line \in Texts, done \in Seq(Results), out \in Seq(Prints) :
        cli = [line |-> line, ran |-> done, out |-> out]
  BY DEF CliType, Texts
<1> DEFINE new(w) == Append(out, w)
<1>2. ASSUME NEW w \in Prints PROVE new(w) \in Seq(Prints)
  BY <1>2, AppendProperties
<1>3. CASE k = "CR"
  <2>1. <<"prompt">> \in Prints
    BY DEF Prints
  <2>2. Append(done, Execute(line)) \in Seq(Results)
    <3>1. Execute(line) \in Results
      BY DEF Results, Texts
    <3> QED
      BY <3>1, AppendProperties
  <2>3. HandleKey(cli, k) = [line |-> << >>, ran |-> Append(done, Execute(line)), out |-> new(<<"prompt">>)]
    BY <1>1, <1>3 DEF HandleKey, Enter
  <2>4. new(<<"prompt">>) \in Seq(Prints)
    BY <1>2, <2>1
  <2>5. Show(line, <<"prompt">>) = << >>
    BY DEF Show
  <2> HIDE DEF new
  <2>6. HandleKey(cli, k) \in CliType
    BY <2>2, <2>3, <2>4, PassTypesBase DEF CliType, Texts
  <2>7. HandleKey(cli, k).out = new(<<"prompt">>) /\ HandleKey(cli, k).line = << >>
    BY <2>3
  <2> QED
    BY <1>1, <2>1, <2>5, <2>6, <2>7 DEF new
<1>4. CASE k # "CR" /\ IsFull(line)
  BY <1>1, <1>4 DEF HandleKey
<1>5. CASE k = "BS" /\ ~IsFull(line) /\ line = << >>
  <2>1. HandleKey(cli, k) = Erase(cli)
    BY <1>1, <1>5 DEF HandleKey
  <2> QED
    BY <1>1, <1>5, <2>1 DEF Erase
<1>6. CASE k = "BS" /\ ~IsFull(line) /\ line # << >>
  <2>1. HandleKey(cli, k) = Erase(cli)
    BY <1>1, <1>6 DEF HandleKey
  <2>2. HandleKey(cli, k) = [line |-> Front(line), ran |-> done, out |-> new(<<"erase">>)]
    BY <1>1, <1>6, <2>1 DEF Erase
  <2>3. <<"erase">> \in Prints
    BY DEF Prints
  <2>4. new(<<"erase">>) \in Seq(Prints)
    BY <1>2, <2>3
  <2>5. Show(line, <<"erase">>) = Front(line)
    BY <1>6 DEF Show
  <2> HIDE DEF new
  <2>6. HandleKey(cli, k) \in CliType
    BY <1>6, <2>2, <2>4, FrontIsText DEF CliType, Texts
  <2>7. HandleKey(cli, k).out = new(<<"erase">>) /\ HandleKey(cli, k).line = Front(line)
    BY <2>2
  <2> QED
    BY <1>1, <2>3, <2>5, <2>6, <2>7 DEF new
<1>7. CASE k \notin {"CR", "BS"} /\ ~IsFull(line)
  <2>1. HandleKey(cli, k) = Echo(cli, k)
    BY <1>1, <1>7 DEF HandleKey
  <2>2. HandleKey(cli, k) = [line |-> Append(line, k), ran |-> done, out |-> new(<<"echo", k>>)]
    BY <1>1, <2>1 DEF Echo
  <2>3. <<"echo", k>> \in Prints
    BY DEF Prints
  <2>4. new(<<"echo", k>>) \in Seq(Prints)
    BY <1>2, <2>3
  <2>5. Show(line, <<"echo", k>>) = Append(line, k)
    BY DEF Show
  <2>6. Append(line, k) \in Texts
    BY AppendProperties DEF Texts
  <2> HIDE DEF new
  <2>7. HandleKey(cli, k) \in CliType
    BY <2>2, <2>4, <2>6 DEF CliType, Texts
  <2>8. HandleKey(cli, k).out = new(<<"echo", k>>) /\ HandleKey(cli, k).line = Append(line, k)
    BY <2>2
  <2> QED
    BY <1>1, <2>3, <2>5, <2>7, <2>8 DEF new
<1> QED
  BY <1>3, <1>4, <1>5, <1>6, <1>7

LEMMA KeyTypes ==
  ASSUME NEW cli \in CliType, NEW k \in Chars
  PROVE  HandleKey(cli, k) \in CliType
  BY KeyShown

LEMMA KeyTypesBase ==
  ASSUME NEW line \in Texts
  PROVE  /\ CliStart(line) \in CliType /\ CliStart(line).line = line /\ CliStart(line).out = << >>
         /\ << >> \in Seq(Prints)
<1>1. << >> \in Seq(Results) /\ << >> \in Seq(Prints)
  OBVIOUS
<1> QED
  BY <1>1 DEF CliStart, CliType, Texts

(* The keys that are left, and how the terminal and the line come about. *)
LEMMA PassRuns ==
  ASSUME NEW data \in Texts
  PROVE  \E q : Runs(Texts, PassedBy, << >>, data, q, Keys(data))
<1> DEFINE op(a, b) == PassKey(a, b)
           Def(q) == [p \in SUBSET DOMAIN data |->
                        IF p = {} THEN << >> ELSE LET i == Max(p) IN op(q[p \ {i}], data[i])]
           it == CHOOSE q : q = Def(q)
<1>1. PassedBy \in [Texts \X Chars -> Texts] /\ \A a \in Texts, b \in Chars : PassedBy[<<a, b>>] = op(a, b)
  <2>1. PassedBy = [x \in Texts \X Chars |-> PassedBy[x]]
    BY DEF PassedBy
  <2>2. \A a \in Texts, b \in Chars : PassedBy[<<a, b>>] = op(a, b)
    BY DEF PassedBy
  <2>3. ASSUME NEW x \in Texts \X Chars PROVE PassedBy[x] \in Texts
    <3>1. PICK a \in Texts, b \in Chars : x = <<a, b>>
      OBVIOUS
    <3> QED
      BY <2>2, <3>1, PassTypes
  <2> QED
    BY <2>1, <2>2, <2>3
<1>2. << >> \in Texts
  BY PassTypesBase
<1> HIDE DEF op
<1>3. PICK g : IsFold(Texts, Chars, PassedBy, << >>, data, g)
  BY <1>1, <1>2, FoldExists DEF Texts
<1>4. g = Def(g)
  BY <1>1, <1>3 DEF IsFold
<1>5. it = Def(it)
  <2> HIDE DEF Def
  <2> QED
    BY <1>4
<1> HIDE DEF it
<1>6. Follows(Texts, Chars, PassedBy, << >>, data, it)
  BY <1>1, <1>5 DEF Follows
<1> HIDE DEF Def
<1>7. PICK q : Runs(Texts, PassedBy, << >>, data, q, it[DOMAIN data])
  BY <1>1, <1>2, <1>6, FoldRuns DEF Texts
<1>8. Keys(data) = it[DOMAIN data]
  BY DEF Keys, FoldLeft, MapThenFoldSet, it, Def, op
<1> QED
  BY <1>7, <1>8

LEMMA ShowRuns ==
  ASSUME NEW shown \in Texts, NEW out \in Seq(Prints)
  PROVE  \E q : Runs(Texts, ShownBy, shown, out, q, Terminal(shown, out))
<1> DEFINE op(a, b) == Show(a, b)
           Def(q) == [p \in SUBSET DOMAIN out |->
                        IF p = {} THEN shown ELSE LET i == Max(p) IN op(q[p \ {i}], out[i])]
           it == CHOOSE q : q = Def(q)
<1>1. ShownBy \in [Texts \X Prints -> Texts] /\ \A a \in Texts, b \in Prints : ShownBy[<<a, b>>] = op(a, b)
  <2>1. ShownBy = [x \in Texts \X Prints |-> ShownBy[x]]
    BY DEF ShownBy
  <2>2. \A a \in Texts, b \in Prints : ShownBy[<<a, b>>] = op(a, b)
    BY DEF ShownBy
  <2>3. ASSUME NEW x \in Texts \X Prints PROVE ShownBy[x] \in Texts
    <3>1. PICK a \in Texts, b \in Prints : x = <<a, b>>
      OBVIOUS
    <3> QED
      BY <2>2, <3>1, ShowTypes
  <2> QED
    BY <2>1, <2>2, <2>3
<1>2. shown \in Texts
  OBVIOUS
<1> HIDE DEF op
<1>3. PICK g : IsFold(Texts, Prints, ShownBy, shown, out, g)
  BY <1>1, <1>2, FoldExists
<1>4. g = Def(g)
  BY <1>1, <1>3 DEF IsFold
<1>5. it = Def(it)
  <2> HIDE DEF Def
  <2> QED
    BY <1>4
<1> HIDE DEF it
<1>6. Follows(Texts, Prints, ShownBy, shown, out, it)
  BY <1>1, <1>5 DEF Follows
<1> HIDE DEF Def
<1>7. PICK q : Runs(Texts, ShownBy, shown, out, q, it[DOMAIN out])
  BY <1>1, <1>2, <1>6, FoldRuns
<1>8. Terminal(shown, out) = it[DOMAIN out]
  BY DEF Terminal, FoldLeft, MapThenFoldSet, it, Def, op
<1> QED
  BY <1>7, <1>8

LEMMA HandleRuns ==
  ASSUME NEW line \in Texts, NEW keys \in Texts
  PROVE  \E q : Runs(CliType, HandledBy, CliStart(line), keys, q, HandleRx(line, keys))
<1> DEFINE op(a, b) == HandleKey(a, b)
           Def(q) == [p \in SUBSET DOMAIN keys |->
                        IF p = {} THEN CliStart(line) ELSE LET i == Max(p) IN op(q[p \ {i}], keys[i])]
           it == CHOOSE q : q = Def(q)
<1>1. HandledBy \in [CliType \X Chars -> CliType] /\ \A a \in CliType, b \in Chars : HandledBy[<<a, b>>] = op(a, b)
  <2>1. HandledBy = [x \in CliType \X Chars |-> HandledBy[x]]
    BY DEF HandledBy
  <2>2. \A a \in CliType, b \in Chars : HandledBy[<<a, b>>] = op(a, b)
    BY DEF HandledBy
  <2>3. ASSUME NEW x \in CliType \X Chars PROVE HandledBy[x] \in CliType
    <3>1. PICK a \in CliType, b \in Chars : x = <<a, b>>
      OBVIOUS
    <3> QED
      BY <2>2, <3>1, KeyTypes
  <2> QED
    BY <2>1, <2>2, <2>3
<1>2. CliStart(line) \in CliType
  BY KeyTypesBase
<1> HIDE DEF op
<1>3. PICK g : IsFold(CliType, Chars, HandledBy, CliStart(line), keys, g)
  BY <1>1, <1>2, FoldExists DEF Texts
<1>4. g = Def(g)
  BY <1>1, <1>3 DEF IsFold
<1>5. it = Def(it)
  <2> HIDE DEF Def
  <2> QED
    BY <1>4
<1> HIDE DEF it
<1>6. Follows(CliType, Chars, HandledBy, CliStart(line), keys, it)
  BY <1>1, <1>5 DEF Follows
<1> HIDE DEF Def
<1>7. PICK q : Runs(CliType, HandledBy, CliStart(line), keys, q, it[DOMAIN keys])
  BY <1>1, <1>2, <1>6, FoldRuns DEF Texts
<1>8. HandleRx(line, keys) = it[DOMAIN keys]
  BY DEF HandleRx, FoldLeft, MapThenFoldSet, it, Def, op
<1> QED
  BY <1>7, <1>8

LEMMA KeysAreTexts ==
  ASSUME NEW data \in Texts
  PROVE  Keys(data) \in Texts
<1>1. PICK q : Runs(Texts, PassedBy, << >>, data, q, Keys(data))
  BY PassRuns
<1>2. Len(data) \in 0 .. Len(data)
  BY LenProperties DEF Texts
<1> QED
  BY <1>1, <1>2 DEF Runs

LEMMA TerminalGrows ==
  ASSUME NEW shown \in Texts, NEW out \in Seq(Prints)
  PROVE  /\ Terminal(shown, out) \in Texts /\ Terminal(shown, << >>) = shown
         /\ \A w \in Prints : Terminal(shown, Append(out, w)) = Show(Terminal(shown, out), w)
<1>1. PICK q : Runs(Texts, ShownBy, shown, out, q, Terminal(shown, out))
  BY ShowRuns
<1>2. Terminal(shown, out) \in Texts
  <2>1. Len(out) \in 0 .. Len(out)
    BY LenProperties
  <2> QED
    BY <1>1, <2>1 DEF Runs
<1>3. Terminal(shown, << >>) = shown
  <2>1. << >> \in Seq(Prints) /\ Len(<< >>) = 0
    OBVIOUS
  <2>2. PICK r : Runs(Texts, ShownBy, shown, << >>, r, Terminal(shown, << >>))
    BY <2>1, ShowRuns
  <2> QED
    BY <2>1, <2>2 DEF Runs
<1>4. ASSUME NEW w \in Prints
      PROVE  Terminal(shown, Append(out, w)) = Show(Terminal(shown, out), w)
  <2>1. PICK longer \in Seq(Prints) : longer = Append(out, w)
    BY AppendProperties
  <2>2. PICK r : Runs(Texts, ShownBy, shown, longer, r, Terminal(shown, longer))
    BY ShowRuns
  <2>3. ShownBy \in [Texts \X Prints -> Texts]
    <3>1. ASSUME NEW x \in Texts \X Prints PROVE ShownBy[x] \in Texts
      <4>1. PICK text \in Texts, v \in Prints : x = <<text, v>>
        OBVIOUS
      <4> QED
        BY <4>1, ShowTypes DEF ShownBy
    <3>2. ShownBy = [x \in Texts \X Prints |-> ShownBy[x]]
      BY DEF ShownBy
    <3> QED
      BY <3>1, <3>2
  <2>4. Runs(Texts, ShownBy, shown, Append(out, w), r, Terminal(shown, longer))
    BY <2>1, <2>2
  <2>5. Terminal(shown, longer) = ShownBy[<<Terminal(shown, out), w>>]
    BY <1>1, <2>3, <2>4, RunsGrow
  <2> QED
    BY <1>2, <2>1, <2>5 DEF ShownBy
<1> QED
  BY <1>2, <1>3, <1>4

(* However many keys are handled at once, the terminal that showed the line  *)
(* shows it again.                                                           *)
LEMMA HandleShows ==
  ASSUME NEW line \in Texts, NEW keys \in Texts
  PROVE  /\ HandleRx(line, keys) \in CliType
         /\ Terminal(line, HandleRx(line, keys).out) = HandleRx(line, keys).line
<1>1. PICK r : Runs(CliType, HandledBy, CliStart(line), keys, r, HandleRx(line, keys))
  BY HandleRuns
<1> DEFINE Shows(cli) == Terminal(line, cli.out) = cli.line
           J == {n \in 0 .. Len(keys) : Shows(r[n])}
<1>2. /\ r \in [0 .. Len(keys) -> CliType] /\ r[0] = CliStart(line) /\ r[Len(keys)] = HandleRx(line, keys)
      /\ \A n \in 1 .. Len(keys) : r[n] = HandledBy[<<r[n - 1], keys[n]>>]
      /\ Len(keys) \in Nat
  BY <1>1, LenProperties DEF Runs, Texts
<1>3. Shows(r[0])
  <2>1. r[0].out = << >> /\ r[0].line = line /\ << >> \in Seq(Prints)
    BY <1>2, KeyTypesBase
  <2>2. Terminal(line, << >>) = line
    BY <2>1, TerminalGrows
  <2> QED
    BY <2>1, <2>2
<1>4. ASSUME NEW cli \in CliType, NEW k \in Chars, Shows(cli)
      PROVE  Shows(HandleKey(cli, k))
  <2>1. PICK out \in Seq(Prints) : out = cli.out
    BY DEF CliType
  <2>2. PICK after : after = HandleKey(cli, k)
    OBVIOUS
  <2>3. after = cli \/ \E w \in Prints : after.out = Append(out, w) /\ after.line = Show(cli.line, w)
    BY <2>1, <2>2, KeyShown
  <2>4. CASE after = cli
    BY <1>4, <2>2, <2>4
  <2>5. ASSUME NEW w \in Prints, after.out = Append(out, w), after.line = Show(cli.line, w)
        PROVE  Shows(after)
    BY <1>4, <2>1, <2>5, TerminalGrows
  <2> HIDE DEF Shows
  <2> QED
    BY <2>2, <2>3, <2>4, <2>5
<1> HIDE DEF Shows
<1>5. 0 \in J
  BY <1>2, <1>3
<1>6. ASSUME NEW n \in 1 .. Len(keys), n - 1 \in J PROVE n \in J
  <2>1. n \in 0 .. Len(keys) /\ n - 1 \in 0 .. Len(keys)
    BY <1>2
  <2>2. r[n - 1] \in CliType /\ Shows(r[n - 1]) /\ keys[n] \in Chars
    BY <1>2, <1>6, <2>1, ElementOfSeq DEF Texts
  <2>3. r[n] = HandleKey(r[n - 1], keys[n])
    BY <1>2, <2>2 DEF HandledBy
  <2> QED
    BY <1>4, <2>1, <2>2, <2>3
<1> HIDE DEF J
<1>7. \A n \in 0 .. Len(keys) : n \in J
  BY <1>2, <1>5, <1>6, Upto
<1>8. Len(keys) \in 0 .. Len(keys)
  BY <1>2
<1>9. Shows(r[Len(keys)]) /\ r[Len(keys)] \in CliType
  BY <1>2, <1>7, <1>8 DEF J
<1> QED
  BY <1>2, <1>9 DEF Shows

(* The "enter" of an accepted connection leaves an empty line and a prompt.  *)
LEMMA EnterShows ==
  ASSUME NEW line \in Texts, NEW shown \in Texts
  PROVE  /\ HandleRx(line, <<"CR">>).line = << >>
         /\ Terminal(shown, HandleRx(line, <<"CR">>).out) = << >>
<1>1. PICK keys \in Texts : keys = <<"CR">> /\ Len(keys) = 1 /\ keys[1] = "CR"
  <2>1. PICK k \in Chars : k = "CR"
    BY DEF Chars
  <2>2. << k >> \in Seq(Chars) /\ Len(<< k >>) = 1 /\ << k >>[1] = k
    OBVIOUS
  <2> QED
    BY <2>1, <2>2 DEF Texts
<1>2. PICK r : Runs(CliType, HandledBy, CliStart(line), keys, r, HandleRx(line, keys))
  BY HandleRuns
<1>3. r[0] = CliStart(line) /\ HandleRx(line, keys) = r[1] /\ r[1] = HandledBy[<<r[0], "CR">>]
  <2>1. 1 \in 1 .. Len(keys) /\ 1 - 1 = 0
    BY <1>1
  <2> QED
    BY <1>1, <1>2, <2>1 DEF Runs
<1>4. HandleRx(line, keys) = HandleKey(CliStart(line), "CR")
  <2>1. "CR" \in Chars
    BY DEF Chars
  <2> QED
    BY <1>3, <2>1, KeyTypesBase DEF HandledBy
<1>5. HandleRx(line, keys) = Enter(CliStart(line))
  BY <1>4 DEF HandleKey
<1>6. HandleRx(line, keys).line = << >> /\ HandleRx(line, keys).out = Append(<< >>, <<"prompt">>)
  BY <1>5 DEF Enter, CliStart
<1>7. <<"prompt">> \in Prints /\ << >> \in Seq(Prints)
  BY DEF Prints
<1>8. Terminal(shown, Append(<< >>, <<"prompt">>)) = Show(shown, <<"prompt">>)
  <2>1. PICK out \in Seq(Prints), w \in Prints : out = << >> /\ w = <<"prompt">>
    BY <1>7
  <2>2. Terminal(shown, Append(out, w)) = Show(Terminal(shown, out), w) /\ Terminal(shown, << >>) = shown
    BY TerminalGrows
  <2> QED
    BY <2>1, <2>2
<1>9. Show(shown, <<"prompt">>) = << >>
  BY DEF Show
<1> QED
  BY <1>1, <1>6, <1>8, <1>9

-----------------------------------------------------------------------------
(* The connections *)

Place(u) == IF u = Port THEN Port ELSE block[u]

CliTypes ==
  /\ block \in [Conns -> Blocks \cup {NoBlock}]
  /\ mem \in [Blocks \cup {Port} -> Texts]
  /\ reader \in [Conns -> ReaderType]
  /\ stuck \in [Users -> BOOLEAN]
  /\ bytes \in [Users -> Texts]
  /\ swallowed \in [Conns -> Nat]
  /\ screen \in [Users -> Texts]

(* No two connections have one block. *)
BlocksApart == \A c, d \in Conns : block[c] = block[d] /\ block[c] # NoBlock => c = d

(* A connection that is not open has swallowed nothing. *)
ReadersCount ==
  \A c \in Conns : Swallows(reader[c], swallowed[c]) /\ (block[c] = NoBlock => swallowed[c] = 0)

CliInv == CliTypes /\ BlocksApart /\ ReadersCount /\ WhatYouSee

LEMMA CliInvInit == CliInit => CliInv
<1> SUFFICES ASSUME CliInit PROVE CliInv
  OBVIOUS
<1>1. ReaderStart \in ReaderType /\ Swallows(ReaderStart, 0)
  BY SubMaxAssumption DEF ReaderStart, ReaderType, ReaderStates, Swallows, SwallowedIn
<1>2. CliTypes
  BY <1>1, PassTypesBase DEF CliInit, CliTypes
<1>3. BlocksApart /\ ReadersCount
  BY <1>1 DEF CliInit, BlocksApart, ReadersCount
<1>4. WhatYouSee
  <2> SUFFICES ASSUME NEW u \in Users, Open(u) PROVE screen[u] = LineOf(u)
    BY DEF WhatYouSee
  <2>1. u = Port
    BY DEF Open, CliInit, Users
  <2> QED
    BY <2>1 DEF LineOf, CliInit
<1> QED
  BY <1>2, <1>3, <1>4 DEF CliInv

(* The places of the users with a line are apart. *)
LEMMA PlacesApart ==
  ASSUME CliTypes, BlocksApart, NEW u \in Users, Open(u)
  PROVE  /\ Place(u) \in Blocks \cup {Port} /\ LineOf(u) = mem[Place(u)]
         /\ \A v \in Users : Open(v) /\ Place(v) = Place(u) => v = u
<1> USE UsersAssumption
<1>1. ASSUME NEW v \in Users, Open(v)
      PROVE  \/ v = Port
             \/ v \in Conns /\ v # Port /\ block[v] \in Blocks /\ block[v] # Port /\ block[v] # NoBlock
  BY <1>1 DEF CliTypes, Open, Users
<1>2. ASSUME NEW v \in Users, Open(v), Place(v) = Place(u) PROVE v = u
  BY <1>1, <1>2 DEF Place, BlocksApart
<1> QED
  BY <1>1, <1>2 DEF Place, LineOf

(* What cli_handle_rx leaves for a user whose line was shown, or who is      *)
(* greeted with an "enter".                                                  *)
LEMMA HandleKeeps ==
  ASSUME CliTypes, NEW u \in Users, NEW b \in Blocks \cup {Port}, NEW keys \in Texts, Handle(u, b, keys),
         ~stuck[u] => screen[u] = mem[b] \/ keys = <<"CR">>
  PROVE  /\ mem' \in [Blocks \cup {Port} -> Texts] /\ stuck' \in [Users -> BOOLEAN]
         /\ screen' \in [Users -> Texts]
         /\ ~stuck'[u] => screen'[u] = mem'[b]
         /\ \A a \in Blocks \cup {Port} : a # b => mem'[a] = mem[a]
         /\ \A v \in Users : v # u => stuck'[v] = stuck[v] /\ screen'[v] = screen[v]
<1>1. PICK line \in Texts, shown \in Texts : line = mem[b] /\ shown = screen[u]
  BY DEF CliTypes
<1>2. PICK cli : cli = HandleRx(line, keys)
  OBVIOUS
<1>3. cli \in CliType /\ Terminal(line, cli.out) = cli.line
  BY <1>2, HandleShows
<1>4. PICK text \in Texts, out \in Seq(Prints) : text = cli.line /\ out = cli.out
  BY <1>3 DEF CliType, Texts
<1>5. Terminal(shown, out) \in Texts
  BY TerminalGrows
<1>6. ~stuck[u] => Terminal(shown, out) = text
  BY <1>1, <1>2, <1>3, <1>4, EnterShows
<1>7. mem' = [mem EXCEPT ![b] = text] /\ Put(u, out)
  BY <1>1, <1>2, <1>4 DEF Handle
<1>8. /\ mem' \in [Blocks \cup {Port} -> Texts] /\ mem'[b] = text
      /\ \A a \in Blocks \cup {Port} : a # b => mem'[a] = mem[a]
  BY <1>7 DEF CliTypes
<1>9. /\ stuck' \in [Users -> BOOLEAN] /\ screen' \in [Users -> Texts]
      /\ ~stuck'[u] => screen'[u] = text
      /\ \A v \in Users : v # u => stuck'[v] = stuck[v] /\ screen'[v] = screen[v]
  <2>1. stuck \in [Users -> BOOLEAN] /\ screen \in [Users -> Texts]
    BY DEF CliTypes
  <2>2. CASE ~stuck[u] /\ screen' = [screen EXCEPT ![u] = Terminal(shown, out)] /\ stuck' = stuck
    <3> HIDE DEF Texts
    <3> QED
      BY <1>5, <1>6, <2>1, <2>2
  <2>3. CASE stuck' = [stuck EXCEPT ![u] = TRUE] /\ screen' = [screen EXCEPT ![u] = << >>]
    BY <2>1, <2>3, PassTypesBase
  <2>4. CASE stuck[u] /\ stuck' = stuck /\ screen' = screen
    BY <2>1, <2>4
  <2> QED
    BY <1>1, <1>7, <2>2, <2>3, <2>4 DEF Put
<1> QED
  BY <1>8, <1>9

(* When a user that has a place alone is handled, all see their lines.       *)
LEMMA HandleAllSee ==
  ASSUME CliTypes, WhatYouSee, NEW u \in Users, NEW b \in Blocks \cup {Port},
         ~stuck'[u] => screen'[u] = mem'[b],
         \A a \in Blocks \cup {Port} : a # b => mem'[a] = mem[a],
         \A v \in Users : v # u => stuck'[v] = stuck[v] /\ screen'[v] = screen[v],
         Place(u)' = b,
         \A v \in Users : v # u /\ Open(v)' =>
           Open(v) /\ Place(v)' = Place(v) /\ Place(v) # b /\ Place(v) \in Blocks \cup {Port}
  PROVE  WhatYouSee'
<1> SUFFICES ASSUME NEW v \in Users, Open(v)', ~stuck'[v] PROVE screen'[v] = mem'[Place(v)']
  BY DEF WhatYouSee, LineOf, Place, Users
<1>1. CASE v = u
  BY <1>1
<1>2. CASE v # u
  <2>1. Open(v) /\ Place(v)' = Place(v) /\ Place(v) # b /\ Place(v) \in Blocks \cup {Port}
    BY <1>2
  <2>2. screen[v] = LineOf(v) /\ LineOf(v) = mem[Place(v)]
    BY <1>2, <2>1 DEF WhatYouSee, LineOf, Place
  <2> QED
    BY <1>2, <2>1, <2>2
<1> QED
  BY <1>1, <1>2

(* read() takes some of the bytes and leaves the others. *)
LEMMA PartsAreTexts ==
  ASSUME NEW text \in Texts, NEW n \in DOMAIN text
  PROVE  SubSeq(text, 1, n) \in Texts /\ SubSeq(text, n + 1, Len(text)) \in Texts
<1>1. PICK len \in Nat : len = Len(text) /\ DOMAIN text = 1 .. len
  BY LenProperties DEF Texts
<1>2. n \in 1 .. len /\ n + 1 \in Nat /\ n \in Nat
  BY <1>1
<1>3. \A k \in 1 .. n : text[k] \in Chars
  BY <1>1, <1>2, ElementOfSeq DEF Texts
<1>4. \A k \in n + 1 .. len : text[k] \in Chars
  BY <1>1, <1>2, ElementOfSeq DEF Texts
<1>5. SubSeq(text, 1, n) \in Seq(Chars)
  BY <1>2, <1>3, SubSeqProperties
<1>6. SubSeq(text, n + 1, len) \in Seq(Chars)
  BY <1>1, <1>2, <1>4, SubSeqProperties
<1> QED
  BY <1>1, <1>5, <1>6 DEF Texts

LEMMA AcceptKeeps ==
  ASSUME CliInv, NEW c \in Conns, Accept(c)
  PROVE  CliInv'
<1>1. /\ CliTypes /\ BlocksApart /\ ReadersCount /\ WhatYouSee
      /\ c \in Users /\ c # Port /\ ~Open(c)
  BY UsersAssumption DEF CliInv, Accept, Users
<1>2. PICK b \in FreeBlocks : block' = [block EXCEPT ![c] = b] /\ Handle(c, b, <<"CR">>)
  BY DEF Accept
<1>3. b \in Blocks /\ (\A d \in Conns : block[d] # b) /\ b # NoBlock /\ b # Port
  BY <1>1, <1>2, UsersAssumption DEF FreeBlocks, CliTypes, Range
<1>4. PICK keys \in Texts : keys = <<"CR">>
  <2>1. PICK k \in Chars : k = "CR"
    BY DEF Chars
  <2>2. << k >> \in Seq(Chars)
    OBVIOUS
  <2> QED
    BY <2>1, <2>2 DEF Texts
<1>5. /\ mem' \in [Blocks \cup {Port} -> Texts] /\ stuck' \in [Users -> BOOLEAN]
      /\ screen' \in [Users -> Texts]
      /\ ~stuck'[c] => screen'[c] = mem'[b]
      /\ \A a \in Blocks \cup {Port} : a # b => mem'[a] = mem[a]
      /\ \A v \in Users : v # c => stuck'[v] = stuck[v] /\ screen'[v] = screen[v]
  BY <1>1, <1>2, <1>3, <1>4, HandleKeeps
<1>6. /\ block' \in [Conns -> Blocks \cup {NoBlock}] /\ block'[c] = b
      /\ \A d \in Conns : d # c => block'[d] = block[d]
  BY <1>1, <1>2, <1>3 DEF CliTypes
<1>7. reader' = [reader EXCEPT ![c] = ReaderStart] /\ bytes' = bytes /\ swallowed' = swallowed
  BY DEF Accept
<1>8. ReaderStart \in ReaderType /\ ReaderStart.state = "start" /\ Swallows(ReaderStart, 0)
  BY SubMaxAssumption DEF ReaderStart, ReaderType, ReaderStates, Swallows, SwallowedIn
<1>9. CliTypes'
  <2>1. reader' \in [Conns -> ReaderType]
    BY <1>1, <1>7, <1>8 DEF CliTypes
  <2> QED
    BY <1>1, <1>5, <1>6, <1>7, <2>1 DEF CliTypes, Texts, Chars, ReaderType
<1>10. BlocksApart'
  BY <1>3, <1>6 DEF BlocksApart, CliInv
<1>11. ReadersCount'
  <2>1. swallowed[c] = 0
    BY <1>1 DEF Open, ReadersCount
  <2>2. /\ reader'[c] = ReaderStart
        /\ \A d \in Conns : d # c => reader'[d] = reader[d]
    BY <1>1, <1>7 DEF CliTypes
  <2>3. ASSUME NEW d \in Conns
        PROVE  Swallows(reader'[d], swallowed'[d]) /\ (block'[d] = NoBlock => swallowed'[d] = 0)
    <3>1. CASE d = c
      BY <1>7, <1>8, <2>1, <2>2, <3>1
    <3>2. CASE d # c
      BY <1>1, <1>6, <1>7, <2>2, <3>2 DEF ReadersCount
    <3> QED
      BY <3>1, <3>2
  <2> QED
    BY <2>3 DEF ReadersCount, Swallows, SwallowedIn
<1>12. WhatYouSee'
  <2>1. Place(c)' = b
    BY <1>1, <1>6 DEF Place
  <2>2. ASSUME NEW v \in Users, v # c, Open(v)'
        PROVE  Open(v) /\ Place(v)' = Place(v) /\ Place(v) # b /\ Place(v) \in Blocks \cup {Port}
    <3>1. CASE v = Port
      BY <1>3, <3>1 DEF Open, Place
    <3>2. CASE v \in Conns /\ v # Port
      BY <1>1, <1>3, <1>6, <2>2, <3>2 DEF Open, Place, CliTypes
    <3> QED
      BY <3>1, <3>2 DEF Users
  <2> QED
    BY <1>1, <1>3, <1>5, <2>1, <2>2, HandleAllSee
<1> QED
  BY <1>9, <1>10, <1>11, <1>12 DEF CliInv

LEMMA TelnetRxKeeps ==
  ASSUME CliInv, NEW c \in Conns, TelnetRx(c)
  PROVE  CliInv'
<1>1. /\ CliTypes /\ BlocksApart /\ ReadersCount /\ WhatYouSee
      /\ c \in Users /\ c # Port /\ Open(c) /\ block' = block
  BY UsersAssumption DEF CliInv, TelnetRx, Users
<1> DEFINE fedBy(n) == Feed(c, SubSeq(bytes[c], 1, n))
<1>0. PICK n \in DOMAIN bytes[c] :
        /\ bytes' = [bytes EXCEPT ![c] = SubSeq(@, n + 1, Len(@))]
        /\ reader' = [reader EXCEPT ![c] = fedBy(n).reader]
        /\ swallowed' = [swallowed EXCEPT ![c] = fedBy(n).count]
        /\ Handle(c, block[c], Keys(fedBy(n).data))
  BY DEF TelnetRx
<1>2. PICK fed :
        /\ fed = Feed(c, SubSeq(bytes[c], 1, n))
        /\ bytes' = [bytes EXCEPT ![c] = SubSeq(@, n + 1, Len(@))]
        /\ reader' = [reader EXCEPT ![c] = fed.reader]
        /\ swallowed' = [swallowed EXCEPT ![c] = fed.count]
        /\ Handle(c, block[c], Keys(fed.data))
  BY <1>0
<1> HIDE DEF fedBy
<1>3. PICK text \in Texts : text = bytes[c]
  BY <1>1 DEF CliTypes
<1>4. SubSeq(text, 1, n) \in Texts /\ SubSeq(text, n + 1, Len(text)) \in Texts
  BY <1>2, <1>3, PartsAreTexts
<1>5. fed \in FedType
  <2>1. reader[c] \in ReaderType /\ swallowed[c] \in Nat /\ Swallows(reader[c], swallowed[c])
    BY <1>1 DEF CliTypes, ReadersCount
  <2>2. PICK read \in Seq(Chars) : read = SubSeq(text, 1, n)
    BY <1>4 DEF Texts
  <2>3. Feed(c, read) \in FedType
    BY <2>1, FeedKeeps
  <2> QED
    BY <1>2, <1>3, <2>2, <2>3
<1>6. fed.reader \in ReaderType /\ fed.data \in Texts /\ fed.count \in Nat /\ Swallows(fed.reader, fed.count)
  BY <1>5 DEF FedType, Texts
<1>7. PICK keys \in Texts : keys = Keys(fed.data)
  BY <1>6, KeysAreTexts
<1>8. PICK b : b = block[c]
  OBVIOUS
<1>9. /\ Place(c) = b /\ b \in Blocks \cup {Port} /\ LineOf(c) = mem[b] /\ b # NoBlock
      /\ \A v \in Users : Open(v) /\ Place(v) = b => v = c
  BY <1>1, <1>8, PlacesApart DEF Place, Open
<1>10. ~stuck[c] => screen[c] = mem[b]
  BY <1>1, <1>9 DEF WhatYouSee
<1>11. /\ mem' \in [Blocks \cup {Port} -> Texts] /\ stuck' \in [Users -> BOOLEAN]
       /\ screen' \in [Users -> Texts]
       /\ ~stuck'[c] => screen'[c] = mem'[b]
       /\ \A a \in Blocks \cup {Port} : a # b => mem'[a] = mem[a]
       /\ \A v \in Users : v # c => stuck'[v] = stuck[v] /\ screen'[v] = screen[v]
  <2>1. Handle(c, b, keys)
    BY <1>2, <1>7, <1>8
  <2> QED
    BY <1>1, <1>9, <1>10, <2>1, HandleKeeps
<1>12. /\ reader' \in [Conns -> ReaderType] /\ swallowed' \in [Conns -> Nat]
       /\ reader'[c] = fed.reader /\ swallowed'[c] = fed.count
       /\ \A d \in Conns : d # c => reader'[d] = reader[d] /\ swallowed'[d] = swallowed[d]
  BY <1>1, <1>2, <1>6 DEF CliTypes
<1>13. bytes' \in [Users -> Texts]
  <2>1. bytes' = [bytes EXCEPT ![c] = SubSeq(text, n + 1, Len(text))]
    BY <1>2, <1>3
  <2> QED
    BY <1>1, <1>4, <2>1 DEF CliTypes
<1>14. CliTypes'
  BY <1>1, <1>11, <1>12, <1>13 DEF CliTypes, Texts, Chars, ReaderType
<1>15. BlocksApart'
  BY <1>1 DEF BlocksApart
<1>16. ReadersCount'
  <2>1. ASSUME NEW d \in Conns
        PROVE  Swallows(reader'[d], swallowed'[d]) /\ (block'[d] = NoBlock => swallowed'[d] = 0)
    <3>1. CASE d = c
      BY <1>1, <1>6, <1>8, <1>9, <1>12, <3>1
    <3>2. CASE d # c
      BY <1>1, <1>12, <3>2 DEF ReadersCount
    <3> QED
      BY <3>1, <3>2
  <2> QED
    BY <2>1 DEF ReadersCount, Swallows, SwallowedIn
<1>17. WhatYouSee'
  <2>1. Place(c)' = b
    BY <1>1, <1>9 DEF Place
  <2>2. ASSUME NEW v \in Users, v # c, Open(v)'
        PROVE  Open(v) /\ Place(v)' = Place(v) /\ Place(v) # b /\ Place(v) \in Blocks \cup {Port}
    <3>1. Open(v) /\ Place(v)' = Place(v)
      BY <1>1, <2>2 DEF Open, Place
    <3> QED
      BY <1>1, <1>9, <2>2, <3>1, PlacesApart
  <2> QED
    BY <1>1, <1>9, <1>11, <2>1, <2>2, HandleAllSee
<1> QED
  BY <1>14, <1>15, <1>16, <1>17 DEF CliInv

LEMMA SerialRxKeeps ==
  ASSUME CliInv, SerialRx
  PROVE  CliInv'
<1>1. /\ CliTypes /\ BlocksApart /\ ReadersCount /\ WhatYouSee
      /\ Port \in Users /\ Open(Port) /\ block' = block /\ reader' = reader /\ swallowed' = swallowed
  BY DEF CliInv, SerialRx, Users, Open
<1>2. PICK n \in DOMAIN bytes[Port] :
        /\ bytes' = [bytes EXCEPT ![Port] = SubSeq(@, n + 1, Len(@))]
        /\ Handle(Port, Port, SubSeq(bytes[Port], 1, n))
  BY DEF SerialRx
<1>3. PICK text \in Texts : text = bytes[Port]
  BY <1>1 DEF CliTypes
<1>4. SubSeq(text, 1, n) \in Texts /\ SubSeq(text, n + 1, Len(text)) \in Texts
  BY <1>2, <1>3, PartsAreTexts
<1>5. /\ Place(Port) = Port /\ LineOf(Port) = mem[Port]
      /\ \A v \in Users : Open(v) /\ Place(v) = Port => v = Port
  BY <1>1, PlacesApart DEF Place
<1>6. ~stuck[Port] => screen[Port] = mem[Port]
  BY <1>1, <1>5 DEF WhatYouSee
<1>7. /\ mem' \in [Blocks \cup {Port} -> Texts] /\ stuck' \in [Users -> BOOLEAN]
      /\ screen' \in [Users -> Texts]
      /\ ~stuck'[Port] => screen'[Port] = mem'[Port]
      /\ \A a \in Blocks \cup {Port} : a # Port => mem'[a] = mem[a]
      /\ \A v \in Users : v # Port => stuck'[v] = stuck[v] /\ screen'[v] = screen[v]
  <2>1. PICK keys \in Texts : keys = SubSeq(bytes[Port], 1, n)
    BY <1>3, <1>4
  <2> QED
    BY <1>1, <1>2, <1>6, <2>1, HandleKeeps
<1>8. bytes' \in [Users -> Texts]
  <2>1. bytes' = [bytes EXCEPT ![Port] = SubSeq(text, n + 1, Len(text))]
    BY <1>2, <1>3
  <2> QED
    BY <1>1, <1>4, <2>1 DEF CliTypes
<1>9. CliTypes' /\ BlocksApart' /\ ReadersCount'
  BY <1>1, <1>7, <1>8 DEF CliTypes, BlocksApart, ReadersCount, Swallows, SwallowedIn, Texts, Chars, ReaderType
<1>10. WhatYouSee'
  <2>1. Place(Port)' = Port
    BY DEF Place
  <2>2. ASSUME NEW v \in Users, v # Port, Open(v)'
        PROVE  Open(v) /\ Place(v)' = Place(v) /\ Place(v) # Port /\ Place(v) \in Blocks \cup {Port}
    <3>1. Open(v) /\ Place(v)' = Place(v)
      BY <1>1, <2>2 DEF Open, Place
    <3> QED
      BY <1>1, <1>5, <2>2, <3>1, PlacesApart
  <2> QED
    BY <1>1, <1>7, <2>1, <2>2, HandleAllSee
<1> QED
  BY <1>9, <1>10 DEF CliInv

LEMMA EndKeeps ==
  ASSUME CliInv, NEW c \in Conns, End(c)
  PROVE  CliInv'
<1>1. /\ CliTypes /\ BlocksApart /\ ReadersCount /\ WhatYouSee
      /\ c \in Users /\ c # Port
  BY UsersAssumption DEF CliInv, Users
<1>2. /\ block' = [block EXCEPT ![c] = NoBlock] /\ reader' = [reader EXCEPT ![c] = ReaderStart]
      /\ stuck' = [stuck EXCEPT ![c] = FALSE] /\ bytes' = [bytes EXCEPT ![c] = << >>]
      /\ swallowed' = [swallowed EXCEPT ![c] = 0] /\ screen' = [screen EXCEPT ![c] = << >>]
      /\ mem' = mem
  BY DEF End
<1>3. ReaderStart \in ReaderType /\ Swallows(ReaderStart, 0)
  BY SubMaxAssumption DEF ReaderStart, ReaderType, ReaderStates, Swallows, SwallowedIn
<1>4. /\ block' \in [Conns -> Blocks \cup {NoBlock}] /\ block'[c] = NoBlock
      /\ reader' \in [Conns -> ReaderType] /\ reader'[c] = ReaderStart
      /\ swallowed' \in [Conns -> Nat] /\ swallowed'[c] = 0
      /\ \A d \in Conns : d # c => /\ block'[d] = block[d] /\ reader'[d] = reader[d]
                                  /\ swallowed'[d] = swallowed[d]
  BY <1>1, <1>2, <1>3 DEF CliTypes
<1>5. /\ stuck' \in [Users -> BOOLEAN] /\ bytes' \in [Users -> Texts] /\ screen' \in [Users -> Texts]
      /\ \A v \in Users : v # c => stuck'[v] = stuck[v] /\ screen'[v] = screen[v]
  BY <1>1, <1>2, PassTypesBase DEF CliTypes
<1>6. CliTypes'
  BY <1>1, <1>2, <1>4, <1>5 DEF CliTypes, Texts, Chars, ReaderType
<1>7. BlocksApart'
  BY <1>1, <1>4 DEF BlocksApart
<1>8. ReadersCount'
  <2>1. ASSUME NEW d \in Conns
        PROVE  Swallows(reader'[d], swallowed'[d]) /\ (block'[d] = NoBlock => swallowed'[d] = 0)
    <3>1. CASE d = c
      BY <1>3, <1>4, <3>1
    <3>2. CASE d # c
      BY <1>1, <1>4, <3>2 DEF ReadersCount
    <3> QED
      BY <3>1, <3>2
  <2> QED
    BY <2>1 DEF ReadersCount, Swallows, SwallowedIn
<1>9. WhatYouSee'
  <2> SUFFICES ASSUME NEW v \in Users, Open(v)', ~stuck'[v] PROVE screen'[v] = mem'[Place(v)']
    BY DEF WhatYouSee, LineOf, Place, Users
  <2>1. v # c
    BY <1>1, <1>4 DEF Open
  <2>2. Open(v) /\ Place(v)' = Place(v)
    BY <1>4, <2>1 DEF Open, Place, Users
  <2>3. screen[v] = mem[Place(v)]
    BY <1>1, <1>5, <2>1, <2>2 DEF WhatYouSee, LineOf, Place
  <2> QED
    BY <1>2, <1>5, <2>1, <2>2, <2>3
<1> QED
  BY <1>6, <1>7, <1>8, <1>9 DEF CliInv

LEMMA UserSendsKeeps ==
  ASSUME CliInv, NEW u \in Users, UserSends(u)
  PROVE  CliInv'
<1>1. CliTypes /\ BlocksApart /\ ReadersCount /\ WhatYouSee
  BY DEF CliInv
<1>2. PICK item \in Items[u] : bytes' = [bytes EXCEPT ![u] = @ \o item]
  BY DEF UserSends
<1>3. /\ block' = block /\ mem' = mem /\ reader' = reader /\ stuck' = stuck
      /\ swallowed' = swallowed /\ screen' = screen
  BY DEF UserSends, connVars
<1>4. item \in Texts
  <2>1. item \in Seq(Range(item)) /\ DOMAIN item = 1 .. Len(item) /\ Len(item) \in Nat
    BY ItemsAssumption, LenProperties
  <2>2. ASSUME NEW k \in 1 .. Len(item) PROVE item[k] \in Chars
    <3>1. item[k] \in Range(item)
      BY <2>1, ElementOfSeq
    <3>2. item[k] \in UNION {Range(i) : i \in Items[u]}
      BY <1>2, <3>1
    <3>3. item[k] \in UNION {UNION {Range(i) : i \in Items[v]} : v \in Users}
      BY <3>2
    <3> QED
      BY <3>3 DEF Chars
  <2>3. item \in [1 .. Len(item) -> Chars]
    <3>1. item \in [1 .. Len(item) -> Range(item)]
      BY <2>1, LenProperties
    <3> QED
      BY <2>2, <3>1
  <2> QED
    BY <2>1, <2>3, SeqDef DEF Texts
<1>5. bytes' \in [Users -> Texts]
  <2>1. PICK text \in Texts : text = bytes[u]
    BY <1>1 DEF CliTypes
  <2>2. PICK longer \in Texts : longer = text \o item
    BY <1>4, CatFacts DEF Cat, Texts
  <2>3. bytes' = [bytes EXCEPT ![u] = longer]
    BY <1>2, <2>1, <2>2
  <2> QED
    BY <1>1, <2>3 DEF CliTypes
<1> QED
  BY <1>1, <1>3, <1>5 DEF CliInv, CliTypes, BlocksApart, ReadersCount, Swallows, SwallowedIn, WhatYouSee,
                          Open, LineOf, Texts, Chars, ReaderType, Users

LEMMA CliInvariant == CliSpec => []CliInv
<1>1. CliInit => CliInv
  BY CliInvInit
<1>2. CliInv /\ [CliNext]_cliVars => CliInv'
  <2> SUFFICES ASSUME CliInv, [CliNext]_cliVars PROVE CliInv'
    OBVIOUS
  <2>1. ASSUME NEW c \in Conns, Accept(c) PROVE CliInv'
    BY <2>1, AcceptKeeps
  <2>2. ASSUME NEW c \in Conns, TelnetRx(c) PROVE CliInv'
    BY <2>2, TelnetRxKeeps
  <2>3. ASSUME NEW c \in Conns, End(c) PROVE CliInv'
    BY <2>3, EndKeeps
  <2>4. ASSUME NEW u \in Users, UserSends(u) PROVE CliInv'
    BY <2>4, UserSendsKeeps
  <2>5. CASE SerialRx
    BY <2>5, SerialRxKeeps
  <2>6. CASE UNCHANGED cliVars
    BY <2>6 DEF cliVars, connVars, CliInv, CliTypes, BlocksApart, ReadersCount, Swallows, SwallowedIn, WhatYouSee,
                Open, LineOf, Texts, Chars, ReaderType, Users
  <2> QED
    BY <2>1, <2>2, <2>3, <2>4, <2>5, <2>6 DEF CliNext
<1> QED
  BY <1>1, <1>2, PTL DEF CliSpec

(* The terminal shows the line that "enter" would execute (cli.c 187-201):   *)
(* for any users, any bytes they send, any length of a line and every way    *)
(* read() cuts what they type, until a rest stays unsent in the stream.      *)
THEOREM TerminalShowsLine == CliSpec => []WhatYouSee
<1>1. CliInv => WhatYouSee
  BY DEF CliInv
<1> QED
  BY <1>1, CliInvariant, PTL

(* No client makes the reader deaf for longer than a subcommand that fills   *)
(* the buffer (telnet_reader.c 35-57, 97-112), for any size of the buffer    *)
(* and any bytes.                                                            *)
THEOREM NeverDeafForLong == CliSpec => []ReaderComesBack
<1>1. CliInv => ReaderComesBack
  <2> SUFFICES ASSUME CliInv, NEW c \in Conns PROVE swallowed[c] <= SubMax + 3
    BY DEF ReaderComesBack
  <2>1. reader[c] \in ReaderType /\ swallowed[c] \in Nat /\ Swallows(reader[c], swallowed[c])
    BY DEF CliInv, CliTypes, ReadersCount
  <2>2. reader[c].state \in ReaderStates /\ reader[c].size \in 0 .. SubMax
    BY <2>1 DEF ReaderType
  <2> QED
    BY <2>1, <2>2, SubMaxAssumption DEF Swallows, SwallowedIn, ReaderStates
<1> QED
  BY <1>1, CliInvariant, PTL
=============================================================================
