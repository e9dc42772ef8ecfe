------------------------------ MODULE Mailbox ------------------------------
(***************************************************************************)
(* What core/task.c promises to the tasks that call task_notify: a message *)
(* that task_notify accepted is handled exactly once by the task it was    *)
(* sent to, the messages of one task are handled one at a time, in the     *)
(* order in which they were accepted, and none waits for ever.  The        *)
(* mutex, the libev wake-up, the batch taken at each wake-up and the       *)
(* threads are left to module TaskQueue, which implements this one.        *)
(***************************************************************************)
EXTENDS Sequences

CONSTANTS
  Tasks,     (* the tasks (task_t)                       *)
  Message,   (* the messages a task can be sent          *)
  NoMsg      (* "no message is being handled"            *)

VARIABLES
  box,       (* per task, the accepted messages not yet handled, oldest first *)
  handling   (* per task, the message whose handler is running, or NoMsg      *)

vars == <<box, handling>>

Init ==
  /\ box = [t \in Tasks |-> << >>]
  /\ handling = [t \in Tasks |-> NoMsg]

(* task_notify accepts message m for task d. *)
Post(d, m) ==
  /\ box' = [box EXCEPT ![d] = Append(@, m)]
  /\ UNCHANGED handling

(* Task d starts the handler of its oldest message. *)
Take(d) ==
  /\ handling[d] = NoMsg
  /\ box[d] # << >>
  /\ handling' = [handling EXCEPT ![d] = Head(box[d])]
  /\ box' = [box EXCEPT ![d] = Tail(@)]

(* The handler running on task d returns. *)
Return(d) ==
  /\ handling[d] # NoMsg
  /\ handling' = [handling EXCEPT ![d] = NoMsg]
  /\ UNCHANGED box

Next ==
  \E d \in Tasks :
    \/ \E m \in Message : Post(d, m)
    \/ Take(d)
    \/ Return(d)

Fairness == \A d \in Tasks : WF_vars(Take(d)) /\ WF_vars(Return(d))

Spec == Init /\ [][Next]_vars /\ Fairness

(* The safety part alone, for refinement checks of a specification without fairness. *)
SafeSpec == Init /\ [][Next]_vars
=============================================================================
