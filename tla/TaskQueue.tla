----------------------------- MODULE TaskQueue -----------------------------
(***************************************************************************)
(* The task framework of core/task.c: every task is a thread that runs a   *)
(* libev loop and owns a message queue (a list, a counter and a mutex).    *)
(* Any task may call task_notify on any other task or on itself; libev's   *)
(* ev_async wakes the receiver, whose callback cuts the whole list under   *)
(* the mutex and then runs the handlers with the mutex released.           *)
(*                                                                         *)
(* The messages are those of src/main.c, the repository's exercise of the  *)
(* framework: a sender numbers its messages to one receiver 0, 1, 2, ...   *)
(* (counting also those task_notify refused, whose result it ignores) and  *)
(* the receiver remembers the number it expects next.                      *)
(***************************************************************************)
EXTENDS Integers, Sequences

CONSTANTS
  Tasks,     (* the tasks; each is one thread                              *)
  NoTask,    (* "the mutex is free"                                        *)
  NoMsg,     (* "no handler is running"                                    *)
  MaxSend,   (* bound: task_notify calls along any route                   *)
  Sends      (* bound: task_notify calls along a route <<sender, receiver>>*)

ASSUME NoTaskAssumption == NoTask \notin Tasks
ASSUME MaxSendAssumption == MaxSend \in Nat
ASSUME SendsAssumption == Sends \in [Tasks \X Tasks -> 0 .. MaxSend]

Message == [src : Tasks, n : 0 .. (MaxSend - 1)]

ASSUME NoMsgAssumption == NoMsg \notin Message

VARIABLES
  pc,        (* where the thread of a task is, outside task_notify          *)
  send,      (* where the task_notify call of a thread is, "none" outside   *)
  dest,      (* the task argument of a thread's task_notify call            *)
  lock,      (* owner of task_q.q_mutex, per task                           *)
  msgs,      (* task_q.msgs, per task                                       *)
  num,       (* task_q.num_msgs, per task                                   *)
  sent,      (* q_noti.sent, libev's flag of the task's ev_async            *)
  tmp,       (* tmp_list of the running task_queue_noti_callback            *)
  handling,  (* the message whose handler runs on a task, or NoMsg          *)
  next,      (* main.c's _next counter of a route                           *)
  expected   (* main.c's _expected counter of a route, on the receiver      *)

queueVars == <<lock, msgs, num, sent>>
countVars == <<next, expected>>
vars == <<pc, send, dest, queueVars, tmp, handling, countVars>>

(* Program counters.  In "start", "idle" and "handler" user code runs: the   *)
(* start callback, a timer or watcher callback of the loop, a handler.       *)
UserCode == {"start", "idle", "handler"}
NotiLocked == {"cut", "reset", "unlock"}
SendLocked == {"link", "count", "unlock"}
PCs == {"new", "noti_lock", "drain"} \cup UserCode \cup NotiLocked
SendPCs == {"none", "lock", "wake"} \cup SendLocked

(* All tasks have been through task_init: empty queue, ev_async started. *)
Init ==
  /\ pc = [t \in Tasks |-> "new"]
  /\ send = [t \in Tasks |-> "none"]
  /\ dest = [t \in Tasks |-> t]
  /\ lock = [t \in Tasks |-> NoTask]
  /\ msgs = [t \in Tasks |-> << >>]
  /\ num = [t \in Tasks |-> 0]
  /\ sent = [t \in Tasks |-> FALSE]
  /\ tmp = [t \in Tasks |-> << >>]
  /\ handling = [t \in Tasks |-> NoMsg]
  /\ next = [r \in Tasks \X Tasks |-> 0]
  /\ expected = [r \in Tasks \X Tasks |-> 0]

-----------------------------------------------------------------------------
(* The thread of a task. *)

Goto(t, from, to) ==
  /\ pc[t] = from
  /\ pc' = [pc EXCEPT ![t] = to]

(* task_run creates the thread; __task_start_routine calls start(). *)
TaskRun(t) ==
  /\ Goto(t, "new", "start")
  /\ UNCHANGED <<send, dest, queueVars, tmp, handling, countVars>>

(* start() returns and the thread enters ev_run for good. *)
StartReturn(t) ==
  /\ send[t] = "none"
  /\ Goto(t, "start", "idle")
  /\ UNCHANGED <<send, dest, queueVars, tmp, handling, countVars>>

(* The loop finds the ev_async sent: libev clears the flag, then calls back. *)
Wake(t) ==
  /\ send[t] = "none"
  /\ sent[t]
  /\ Goto(t, "idle", "noti_lock")
  /\ sent' = [sent EXCEPT ![t] = FALSE]
  /\ UNCHANGED <<send, dest, lock, msgs, num, tmp, handling, countVars>>

-----------------------------------------------------------------------------
(* task_queue_noti_callback. *)

NotiLock(t) ==
  /\ lock[t] = NoTask
  /\ Goto(t, "noti_lock", "cut")
  /\ lock' = [lock EXCEPT ![t] = t]
  /\ UNCHANGED <<send, dest, msgs, num, sent, tmp, handling, countVars>>

(* mutant: only the first message is cut (msgs.next instead of msgs.prev) *)
NotiCutFirst(t) ==
  /\ Goto(t, "cut", "reset")
  /\ tmp' = [tmp EXCEPT ![t] = SubSeq(msgs[t], 1, 1)]
  /\ msgs' = [msgs EXCEPT ![t] = IF @ = << >> THEN @ ELSE Tail(@)]
  /\ UNCHANGED <<send, dest, lock, num, sent, handling, countVars>>

(* list_cut_position moves the whole list; on an empty list it does nothing. *)
NotiCut(t) ==
  /\ Goto(t, "cut", "reset")
  /\ tmp' = [tmp EXCEPT ![t] = msgs[t]]
  /\ msgs' = [msgs EXCEPT ![t] = << >>]
  /\ UNCHANGED <<send, dest, lock, num, sent, handling, countVars>>

NotiReset(t) ==
  /\ Goto(t, "reset", "unlock")
  /\ num' = [num EXCEPT ![t] = 0]
  /\ UNCHANGED <<send, dest, lock, msgs, sent, tmp, handling, countVars>>

NotiUnlock(t) ==
  /\ Goto(t, "unlock", "drain")
  /\ lock' = [lock EXCEPT ![t] = NoTask]
  /\ UNCHANGED <<send, dest, msgs, num, sent, tmp, handling, countVars>>

(* p->handler(p->arg) is called; message_to_t2 advances _t2_expected. *)
RunHandler(t) ==
  /\ tmp[t] # << >>
  /\ Goto(t, "drain", "handler")
  /\ handling' = [handling EXCEPT ![t] = Head(tmp[t])]
  /\ tmp' = [tmp EXCEPT ![t] = Tail(@)]
  /\ expected' = [expected EXCEPT ![<<Head(tmp[t]).src, t>>] = Head(tmp[t]).n + 1]
  /\ UNCHANGED <<send, dest, queueVars, next>>

(* The handler returns and the message is freed. *)
HandlerReturn(t) ==
  /\ send[t] = "none"
  /\ Goto(t, "handler", "drain")
  /\ handling' = [handling EXCEPT ![t] = NoMsg]
  /\ UNCHANGED <<send, dest, queueVars, tmp, countVars>>

(* The list of the batch is empty: the callback returns to the loop. *)
NotiReturn(t) ==
  /\ tmp[t] = << >>
  /\ Goto(t, "drain", "idle")
  /\ UNCHANGED <<send, dest, queueVars, tmp, handling, countVars>>

-----------------------------------------------------------------------------
(* task_notify(d, ...), called by user code on the thread of t. *)

SendStep(t, from, to) ==
  /\ send[t] = from
  /\ send' = [send EXCEPT ![t] = to]

CanNotify(t, d) ==
  /\ pc[t] \in UserCode
  /\ send[t] = "none"
  /\ next[<<t, d>>] < Sends[<<t, d>>]

(* malloc fails: -1.  send_message_to_t2 counts the message all the same. *)
NotifyRefused(t, d) ==
  /\ CanNotify(t, d)
  /\ next' = [next EXCEPT ![<<t, d>>] = @ + 1]
  /\ UNCHANGED <<pc, send, dest, queueVars, tmp, handling, expected>>

(* mutant: task_queue_add does not wait for the mutex *)
AddLockIgnored(t) ==
  /\ SendStep(t, "lock", "link")
  /\ lock' = [lock EXCEPT ![dest[t]] = IF @ = NoTask THEN t ELSE @]
  /\ UNCHANGED <<pc, dest, msgs, num, sent, tmp, handling, countVars>>

(* malloc succeeds: task_queue_add is entered. *)
NotifyCall(t, d) ==
  /\ CanNotify(t, d)
  /\ send' = [send EXCEPT ![t] = "lock"]
  /\ dest' = [dest EXCEPT ![t] = d]
  /\ UNCHANGED <<pc, queueVars, tmp, handling, countVars>>

AddLock(t) ==
  /\ lock[dest[t]] = NoTask
  /\ SendStep(t, "lock", "link")
  /\ lock' = [lock EXCEPT ![dest[t]] = t]
  /\ UNCHANGED <<pc, dest, msgs, num, sent, tmp, handling, countVars>>

AddLink(t) ==
  /\ SendStep(t, "link", "count")
  /\ msgs' = [msgs EXCEPT ![dest[t]] =
                Append(@, [src |-> t, n |-> next[<<t, dest[t]>>]])]
  /\ UNCHANGED <<pc, dest, lock, num, sent, tmp, handling, countVars>>

AddCount(t) ==
  /\ SendStep(t, "count", "unlock")
  /\ num' = [num EXCEPT ![dest[t]] = @ + 1]
  /\ UNCHANGED <<pc, dest, lock, msgs, sent, tmp, handling, countVars>>

AddUnlock(t) ==
  /\ SendStep(t, "unlock", "wake")
  /\ lock' = [lock EXCEPT ![dest[t]] = NoTask]
  /\ UNCHANGED <<pc, dest, msgs, num, sent, tmp, handling, countVars>>

(* mutant: the receiver is woken only when its queue held nothing before *)
AsyncSendOnce(t) ==
  /\ SendStep(t, "wake", "none")
  /\ sent' = [sent EXCEPT ![dest[t]] = @ \/ Len(msgs[dest[t]]) = 1]
  /\ next' = [next EXCEPT ![<<t, dest[t]>>] = @ + 1]
  /\ UNCHANGED <<pc, dest, lock, msgs, num, tmp, handling, expected>>

(* ev_async_send, then return 0; the sender's counter is incremented. *)
AsyncSend(t) ==
  /\ SendStep(t, "wake", "none")
  /\ sent' = [sent EXCEPT ![dest[t]] = TRUE]
  /\ next' = [next EXCEPT ![<<t, dest[t]>>] = @ + 1]
  /\ UNCHANGED <<pc, dest, lock, msgs, num, tmp, handling, expected>>

-----------------------------------------------------------------------------

(* What the thread of t does on its own, whatever user code decides. *)
Progress(t) ==
  \/ TaskRun(t) \/ StartReturn(t) \/ Wake(t)
  \/ NotiLock(t) \/ NotiCut(t) \/ NotiReset(t) \/ NotiUnlock(t)
  \/ RunHandler(t) \/ HandlerReturn(t) \/ NotiReturn(t)
  \/ AddLock(t) \/ AddLink(t) \/ AddCount(t) \/ AddUnlock(t) \/ AsyncSend(t)

UserCall(t) == \E d \in Tasks : NotifyRefused(t, d) \/ NotifyCall(t, d)

Next == \E t \in Tasks : Progress(t) \/ UserCall(t)

(* Every thread that can take a step of the framework eventually takes one:  *)
(* the operating system schedules it, user code returns, and a mutex whose   *)
(* holders are finitely many is obtained in the end.                         *)
Fairness == \A t \in Tasks : WF_vars(Progress(t))

SafeSpec == Init /\ [][Next]_vars
Spec == SafeSpec /\ Fairness

-----------------------------------------------------------------------------
(* Properties *)

(* Every variable keeps its type; num_msgs, unsigned in the code, never     *)
(* underflows and never exceeds what can be queued.                         *)
TypeOK ==
  /\ pc \in [Tasks -> PCs]
  /\ send \in [Tasks -> SendPCs]
  /\ dest \in [Tasks -> Tasks]
  /\ lock \in [Tasks -> Tasks \cup {NoTask}]
  /\ msgs \in [Tasks -> Seq(Message)]
  /\ num \in [Tasks -> Nat]
  /\ sent \in [Tasks -> BOOLEAN]
  /\ tmp \in [Tasks -> Seq(Message)]
  /\ handling \in [Tasks -> Message \cup {NoMsg}]
  /\ next \in [Tasks \X Tasks -> 0 .. MaxSend]
  /\ expected \in [Tasks \X Tasks -> 0 .. MaxSend]

(* Thread t is between task_queue_lock and task_queue_unlock of d's queue. *)
InCritical(t, d) ==
  \/ t = d /\ pc[t] \in NotiLocked
  \/ dest[t] = d /\ send[t] \in SendLocked

(* q_mutex protects the list and its counter (task.c 61-74, 93-99): a      *)
(* thread inside a critical section of a queue is the owner of its mutex,   *)
(* so no two threads are ever inside, and a mutex is owned only while its   *)
(* owner is inside: no path, however interleaved, leaves it locked.         *)
LockDiscipline ==
  \A d \in Tasks :
    /\ \A t \in Tasks : InCritical(t, d) => lock[d] = t
    /\ lock[d] # NoTask => InCritical(lock[d], d)

(* num_msgs is the length of the list whenever the mutex is free, although  *)
(* the list and the counter are updated by separate assignments of several  *)
(* senders and of the receiver (task.c 70-71, 96-97).                       *)
CountMatchesQueue == \A d \in Tasks : lock[d] = NoTask => num[d] = Len(msgs[d])

(* The receiver of d is about to look at its queue. *)
WakePending(d) ==
  \/ sent[d]
  \/ pc[d] \in {"noti_lock", "cut"}
  \/ \E t \in Tasks : dest[t] = d /\ send[t] \in {"count", "unlock", "wake"}

(* No lost wake-up: although add events are compressed (task.c 83-84) and   *)
(* ev_async_send is outside the mutex, a queue that holds a message always  *)
(* has a wake-up outstanding: the flag is set, the receiver is on its way   *)
(* to the cut, or a sender has yet to call ev_async_send.                   *)
NoLostWakeup == \A d \in Tasks : msgs[d] # << >> => WakePending(d)

(* The accepted messages of d whose handler has not started, oldest first. *)
Undelivered(d) == tmp[d] \o msgs[d]

(* task.c implements the abstract mailbox, its liveness included: what is    *)
(* accepted is handled, in order, one message at a time.                     *)
MB == INSTANCE Mailbox WITH box <- [d \in Tasks |-> Undelivered(d)]
ImplementsMailbox == MB!Spec
=============================================================================
