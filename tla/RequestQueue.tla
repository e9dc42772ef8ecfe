---------------------------- MODULE RequestQueue ----------------------------
(***************************************************************************)
(* utils/request_queue.c: a queue of requests per priority, and a count of *)
(* the requests that are queued or at work.  request_queue_schedule and    *)
(* reqiest_queue_reset call back into their user in the middle of their    *)
(* work, and the callback calls the queue again: the calls in progress are *)
(* a stack.  A callback may do what it likes, except take off the queue    *)
(* the neighbour that a reset loop in progress has saved: nothing in the   *)
(* code checks that, and the loop would go on from an unlinked request,    *)
(* whose neighbour is itself, without end.                                 *)
(***************************************************************************)
EXTENDS Integers, Sequences, SequencesExt

CONSTANTS
  RequestItems,  (* the request_item_t                                     *)
  priority,      (* [RequestItems -> 1 .. request_priority_max]            *)
  request_priority_max,
  MaxCalls       (* bound: calls in progress at a time                     *)

Priorities == 1 .. request_priority_max

ASSUME RequestsAssumption ==
  request_priority_max \in Nat /\ priority \in [RequestItems -> Priorities]

VARIABLES
  queue,      (* [Priorities -> Seq(RequestItems)]                      *)
  num_reqs,
  calls,      (* the callbacks in progress, the innermost last          *)
  cancels     (* request_cancelled is set                               *)

requestVars == <<queue, num_reqs, calls, cancels>>

Innermost == calls[Len(calls)]

(* The user's code runs: in no callback, or in one that is set. *)
Running == IF calls = << >> THEN "none" ELSE Innermost.op
UserRuns == Running # "cancel" \/ cancels

(* What the reset loops in progress go on to. *)
Saved == {f.next : f \in Range(calls)} \ {"head"}

Queued(r) == Contains(queue[priority[r]], r)
Removed(r) == [queue EXCEPT ![priority[r]] = RemoveFirst(@, r)]

(* The highest priority at or after i with a request. *)
Waiting(i) == {j \in Priorities : j >= i /\ queue[j] # << >>}
First(i) == LET j == CHOOSE j \in Waiting(i) : \A k \in Waiting(i) : j <= k IN queue[j][1]

(* The neighbour list_for_each_entry_safe saves: a request, or "head".  An   *)
(* unlinked request is its own neighbour.                                    *)
Neighbour(r) ==
  LET q == queue[priority[r]]
      at == CHOOSE k \in DOMAIN q : q[k] = r
  IN  CASE ~Queued(r) -> r
        [] at = Len(q) -> "head"
        [] OTHER -> q[at + 1]

RequestsInit ==
  /\ queue = [i \in Priorities |-> << >>]
  /\ num_reqs = 0
  /\ calls = << >>
  /\ cancels \in BOOLEAN

request_queue_submit(r) ==
  /\ UserRuns /\ ~Queued(r)
  /\ queue' = [queue EXCEPT ![priority[r]] = Append(@, r)]
  /\ num_reqs' = num_reqs + 1
  /\ UNCHANGED <<calls, cancels>>

(* The request is unlinked, and request_accepted is called with it ... *)
request_queue_schedule ==
  /\ UserRuns /\ Len(calls) < MaxCalls
  /\ Waiting(1) # {} /\ First(1) \notin Saved
  /\ queue' = Removed(First(1))
  /\ calls' = Append(calls, [op |-> "accept", item |-> First(1), next |-> "head"])
  /\ UNCHANGED <<num_reqs, cancels>>

(* ... it is counted off when the callback returns. *)
AcceptReturns ==
  /\ Running = "accept"
  /\ num_reqs' = num_reqs - 1
  /\ calls' = Front(calls)
  /\ UNCHANGED <<queue, cancels>>

(* The reset loop unlinks r, with its neighbour saved, and calls back. *)
Cancel(below, r) ==
  /\ queue' = Removed(r)
  /\ calls' = Append(below, [op |-> "cancel", item |-> r, next |-> Neighbour(r)])

reqiest_queue_reset ==
  /\ UserRuns /\ Len(calls) < MaxCalls
  /\ Waiting(1) # {} /\ Saved = {}
  /\ Cancel(calls, First(1))
  /\ UNCHANGED <<num_reqs, cancels>>

(* mutant: only a cancellation that was called back is counted off *)
CancelReturnsUncounted ==
  LET f == Innermost  below == Front(calls)
  IN  /\ Running = "cancel"
      /\ num_reqs' = IF cancels THEN num_reqs - 1 ELSE num_reqs
      /\ IF f.next # "head" THEN Cancel(below, f.next)
         ELSE IF Waiting(priority[f.item] + 1) # {} THEN Cancel(below, First(priority[f.item] + 1))
         ELSE calls' = below /\ UNCHANGED queue
      /\ UNCHANGED cancels

(* The callback returns: the request is counted off, and the loop goes on    *)
(* to the neighbour, to the next priority, or ends.                          *)
CancelReturns ==
  LET f == Innermost  below == Front(calls)
  IN  /\ Running = "cancel"
      /\ num_reqs' = num_reqs - 1
      /\ IF f.next # "head" THEN Cancel(below, f.next)
         ELSE IF Waiting(priority[f.item] + 1) # {} THEN Cancel(below, First(priority[f.item] + 1))
         ELSE calls' = below /\ UNCHANGED queue
      /\ UNCHANGED cancels

RequestsNext ==
  \/ \E r \in RequestItems : request_queue_submit(r)
  \/ request_queue_schedule \/ AcceptReturns
  \/ reqiest_queue_reset \/ CancelReturns

RequestsSpec == RequestsInit /\ [][RequestsNext]_requestVars

-----------------------------------------------------------------------------
(* The places in the queues that are taken. *)
QueuedPlaces == UNION {{i} \X DOMAIN queue[i] : i \in Priorities}

(* num_reqs is the number of requests queued and of callbacks in progress,   *)
(* however submit, schedule and reset nest in their callbacks, as long as    *)
(* these leave on the queue what a reset has saved: it neither drifts nor    *)
(* goes below zero (request_queue.c 14-58).                                  *)
RequestsCounted == num_reqs = Len(calls) + Cardinality(QueuedPlaces)
=============================================================================
