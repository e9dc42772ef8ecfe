------------------------------ MODULE LibevLoop ------------------------------
(***************************************************************************)
(* ev_run: the loop of one task with its timers, and the wake-up by which  *)
(* other threads reach it.  ev_async_send takes no lock: it sets flags and *)
(* writes to the loop's eventfd only when the loop said that it may sleep  *)
(* (pipe_write_wanted); otherwise it leaves a note (pipe_write_skipped)    *)
(* that the loop reads before and after it sleeps.  Every read and write   *)
(* of a shared variable is a step of its own; the memory fences of the     *)
(* code make them take effect in order.  The loop's only ev_async is the   *)
(* task's q_noti.                                                          *)
(***************************************************************************)
EXTENDS Integers, SequencesExt

CONSTANTS
  D,           (* DHEAP, the heap's branching factor: 4, or 2 in a small build *)
  Senders,     (* threads that call ev_async_send                             *)
  Self,        (* the loop's own thread, one of them: a callback notifies     *)
  Timers,
  Delays,      (* start and repeat arguments of task_timer_start              *)
  Scenarios    (* how a run begins: the heap of the timers started, those     *)
               (* that repeat, and bounds on the calls of ev_async_send and   *)
               (* of task_timer and on the clock: [heap, repeats, sends, ops, *)
               (* ticks], and the timers that callbacks touch: used           *)

Nobody == "nobody"
Async == "q_noti"

ASSUME SelfAssumption == Self \in Senders
ASSUME DAssumption == D \in Nat \ {0}
ASSUME TimersAssumption == {Async, Nobody} \cap Timers = {} /\ Delays \subseteq Nat

MAX_BLOCKTIME == 59743

VARIABLES
  sent,        (* ev_async.sent *)
  async_pending, pipe_write_wanted, pipe_write_skipped,
  eventfd,     (* the eventfd is readable *)
  pc,          (* per sender, where it is in ev_async_send *)
  loop,        (* where the loop is in ev_run *)
  pipe_w,      (* the events pending on the loop's watcher of the eventfd *)
  rfeeds,      (* the timers that have expired, the earliest first *)
  pendings,    (* the other watchers with a pending event, the newest last *)
  running,     (* whose callback runs *)
  heap,        (* timers and timercnt *)
  tm,          (* per timer, its fields: [at, repeat] *)
  due,         (* history: per timer, when its latest expiry was due *)
  clock,       (* the monotonic clock, in ticks of backend_mintime *)
  mn_now,      (* the loop's idea of it *)
  waittime,    (* how long backend_poll waits *)
  entered,     (* the time it was called *)
  budget       (* calls left of the scenario *)

wakeVars == <<sent, async_pending, pipe_write_wanted, pipe_write_skipped, eventfd>>
timerVars == <<heap, tm, due, rfeeds>>
timeVars == <<clock, mn_now, waittime, entered>>
vars == <<wakeVars, timerVars, timeVars, pc, loop, pipe_w, pendings, running, budget>>

-----------------------------------------------------------------------------
(***************************************************************************)
(* The heap of the timers, a sequence whose entry k has at most D          *)
(* children.  An entry is a timer and a copy of the time it is due; the    *)
(* root is due first.  An entry that moves takes the timer's own idea of   *)
(* its place, w.active, with it, so that place is not modelled apart: the  *)
(* place of timer t is At(h, t).                                           *)
(***************************************************************************)
Parent(k) == (k - 2) \div D + 1
Children(h, k) == {c \in 2..Len(h) : Parent(c) = k}

Entries == [w : Timers, at : Nat]
ParentFirst(h) == \A k \in 2..Len(h) : h[Parent(k)].at <= h[k].at
EachOnce(h) == \A j, k \in DOMAIN h : h[j].w = h[k].w => j = k

ASSUME ScenariosAssumption ==
  \A s \in Scenarios :
    s.used \subseteq Timers /\ s.heap \in Seq(Entries) /\ ParentFirst(s.heap) /\ EachOnce(s.heap)

At(h, t) == CHOOSE k \in DOMAIN h : h[k].w = t

(* The first of the children that are due first. *)
MinChild(h, k) ==
  CHOOSE c \in Children(h, k) :
    \A d \in Children(h, k) : h[c].at < h[d].at \/ (h[c].at = h[d].at /\ c <= d)

(* From place k along next, for as long as it leads on: the place where this *)
(* ends, and those before it.                                                *)
End(next, places, k) ==
  LET end[j \in places] == IF j \in DOMAIN next THEN end[next[j]] ELSE j IN end[k]

Path(next, places, k) ==
  LET path[j \in places] == IF j \in DOMAIN next THEN {j} \cup path[next[j]] ELSE {} IN path[k]

(* h with entry k moved along next to the end, and the entries on the way    *)
(* one place back.                                                           *)
Shift(h, next, k) ==
  LET end == End(next, DOMAIN h, k)
      path == Path(next, DOMAIN h, k)
  IN  [j \in DOMAIN h |-> IF j = end THEN h[k] ELSE IF j \in path THEN h[next[j]] ELSE h[j]]

(* Entry k moves towards the root past the entries that are due later. *)
upheap(h, k) ==
  LET Goes == {j \in DOMAIN h : j > 1 /\ h[k].at < h[Parent(j)].at}
  IN  Shift(h, [j \in Goes |-> Parent(j)], k)

(* Entry k moves away from the root past the children that are due earlier. *)
downheap(h, k) ==
  LET Goes == {j \in DOMAIN h : Children(h, j) # {} /\ h[MinChild(h, j)].at < h[k].at}
  IN  Shift(h, [j \in Goes |-> MinChild(h, j)], k)

(* mutant: an entry that replaced another only ever moves away from the root *)
adjustheap_down(h, k) == downheap(h, k)

(* The entry at k may have to move either way. *)
adjustheap(h, k) ==
  IF k > 1 /\ h[k].at <= h[Parent(k)].at THEN upheap(h, k) ELSE downheap(h, k)

(* A new entry goes to the end; the last one takes the place of one that     *)
(* leaves.                                                                   *)
HeapInsert(h, e) == upheap(Append(h, e), Len(h) + 1)

HeapRemove(h, k) ==
  LET rest == SubSeq(h, 1, Len(h) - 1)
  IN  IF k = Len(h) THEN rest ELSE adjustheap([rest EXCEPT ![k] = h[Len(h)]], k)

-----------------------------------------------------------------------------
(* ev_async_send and evpipe_write, by any thread *)

Goto(s, l) == pc' = [pc EXCEPT ![s] = l]
SendLeaves == UNCHANGED <<timerVars, timeVars, loop, pipe_w, pendings, running>>

(* The loop's own thread sends from a callback. *)
MaySend(s) == s = Self => running # Nobody

SetSent(s) ==
  /\ pc[s] = "idle" /\ MaySend(s)
  /\ budget.sends > 0 /\ budget' = [budget EXCEPT !.sends = @ - 1]
  /\ sent' = TRUE
  /\ Goto(s, "test")
  /\ SendLeaves
  /\ UNCHANGED <<async_pending, pipe_write_wanted, pipe_write_skipped, eventfd>>

TestFlag(s) ==
  /\ pc[s] = "test"
  /\ Goto(s, IF async_pending THEN "idle" ELSE "flag")
  /\ SendLeaves
  /\ UNCHANGED <<wakeVars, budget>>

SetFlag(s) ==
  /\ pc[s] = "flag"
  /\ async_pending' = TRUE
  /\ Goto(s, "skip")
  /\ SendLeaves
  /\ UNCHANGED <<sent, pipe_write_wanted, pipe_write_skipped, eventfd, budget>>

SetSkipped(s) ==
  /\ pc[s] = "skip"
  /\ pipe_write_skipped' = TRUE
  /\ Goto(s, "ask")
  /\ SendLeaves
  /\ UNCHANGED <<sent, async_pending, pipe_write_wanted, eventfd, budget>>

TestWanted(s) ==
  /\ pc[s] = "ask"
  /\ Goto(s, IF pipe_write_wanted THEN "unskip" ELSE "idle")
  /\ SendLeaves
  /\ UNCHANGED <<wakeVars, budget>>

ClearSkipped(s) ==
  /\ pc[s] = "unskip"
  /\ pipe_write_skipped' = FALSE
  /\ Goto(s, "write")
  /\ SendLeaves
  /\ UNCHANGED <<sent, async_pending, pipe_write_wanted, eventfd, budget>>

Write(s) ==
  /\ pc[s] = "write"
  /\ eventfd' = TRUE
  /\ Goto(s, "idle")
  /\ SendLeaves
  /\ UNCHANGED <<sent, async_pending, pipe_write_wanted, pipe_write_skipped, budget>>

SendStep(s) ==
  \/ TestFlag(s) \/ SetFlag(s) \/ SetSkipped(s) \/ TestWanted(s) \/ ClearSkipped(s) \/ Write(s)

-----------------------------------------------------------------------------
(* ev_run *)

LoopGoto(from, to) == loop = from /\ loop' = to
LoopLeaves == UNCHANGED <<pc, running, budget>>

(* The monotonic clock is read.  The real time, which is kept beside it, is  *)
(* for ev_now and periodics, and a jump of it moves no timer.                *)
time_update == mn_now' = clock

(* An iteration begins when nothing is pending: time_update, and from now on *)
(* a sender has to write.                                                    *)
Begin ==
  /\ pipe_w = {} /\ pendings = << >> /\ running = Nobody
  /\ LoopGoto("invoke", "decide")
  /\ time_update
  /\ pipe_write_wanted' = TRUE
  /\ LoopLeaves
  /\ UNCHANGED <<sent, async_pending, pipe_write_skipped, eventfd, timerVars, clock, waittime, entered, pipe_w, pendings>>

LaterOf(a, b) == IF a > b THEN a ELSE b
SoonerOf(a, b) == IF a < b THEN a ELSE b

(* How long it is until the first timer is due, but at most MAX_BLOCKTIME    *)
(* and no less than backend_mintime.                                         *)
UntilFirst ==
  IF heap = << >> THEN MAX_BLOCKTIME
  ELSE LaterOf(SoonerOf(MAX_BLOCKTIME, heap[1].at - mn_now), 1)

(* mutant: a note left since the last look is not read before sleeping *)
WaittimeAlways(skipped) == UntilFirst

(* How long to poll: not at all after a skipped write. *)
Waittime(skipped) == IF skipped THEN 0 ELSE UntilFirst

Decide ==
  /\ LoopGoto("decide", "poll")
  /\ waittime' = Waittime(pipe_write_skipped)
  /\ entered' = clock
  /\ LoopLeaves
  /\ UNCHANGED <<wakeVars, timerVars, clock, mn_now, pipe_w, pendings>>

(* epoll_wait returns: with the eventfd if that is readable, else when the   *)
(* time is over.                                                             *)
PollReturns ==
  /\ LoopGoto("poll", "unwant")
  /\ pipe_w' = IF eventfd THEN {"READ"} ELSE {}
  /\ LoopLeaves
  /\ UNCHANGED <<wakeVars, timerVars, timeVars, pendings>>

Poll ==
  /\ ~eventfd => clock >= entered + waittime
  /\ PollReturns

(* It returns early for another descriptor or a signal. *)
PollInterrupted == PollReturns

Unwant ==
  /\ LoopGoto("unwant", "look")
  /\ pipe_write_wanted' = FALSE
  /\ LoopLeaves
  /\ UNCHANGED <<sent, async_pending, pipe_write_skipped, eventfd, timerVars, timeVars, pipe_w, pendings>>

(* mutant: a skipped write only keeps the loop from sleeping *)
LookOnly ==
  /\ LoopGoto("look", "expire")
  /\ time_update
  /\ LoopLeaves
  /\ UNCHANGED <<wakeVars, timerVars, clock, waittime, entered, pipe_w, pendings>>

(* A write skipped before the poll counts as an event of the eventfd; then   *)
(* the time is taken again.                                                  *)
Look ==
  /\ LoopGoto("look", "expire")
  /\ time_update
  /\ pipe_w' = IF pipe_write_skipped THEN pipe_w \cup {"CUSTOM"} ELSE pipe_w
  /\ LoopLeaves
  /\ UNCHANGED <<wakeVars, timerVars, clock, waittime, entered, pendings>>

-----------------------------------------------------------------------------
(* timers *)

HasTimer(h, t) == \E k \in DOMAIN h : h[k].w = t

(* mutant: feed_reverse_done replaced by ev_feed_event in the loop *)
feed_forward(fed) == fed

(* rfeeds are fed backwards, so that the first to expire is invoked first. *)
feed_reverse_done(fed) == [j \in DOMAIN fed |-> fed[Len(fed) + 1 - j]]

(* timers_reify, as long as the root of the heap is past: it is rescheduled, *)
(* not before now, or stopped.                                               *)
Expire ==
  LET t == heap[1].w
      next == LaterOf(tm[t].at + tm[t].repeat, mn_now)
  IN  /\ loop = "expire" /\ heap # << >> /\ heap[1].at < mn_now
      /\ due' = [due EXCEPT ![t] = heap[1].at]
      /\ rfeeds' = Append(rfeeds, t)
      /\ IF tm[t].repeat > 0
         THEN /\ tm' = [tm EXCEPT ![t].at = next]
              /\ heap' = downheap([heap EXCEPT ![1].at = next], 1)
         ELSE /\ heap' = HeapRemove(heap, 1)
              /\ UNCHANGED tm
      /\ LoopLeaves
      /\ UNCHANGED <<wakeVars, timeVars, loop, pipe_w, pendings>>

FeedReverseDone ==
  /\ heap # << >> => heap[1].at >= mn_now
  /\ LoopGoto("expire", "invoke")
  /\ pendings' = feed_reverse_done(rfeeds)
  /\ rfeeds' = << >>
  /\ LoopLeaves
  /\ UNCHANGED <<wakeVars, heap, tm, due, timeVars, pipe_w>>

-----------------------------------------------------------------------------
(* pipecb, the callback of pipe_w: it has the highest priority *)

PipeLeaves == LoopLeaves /\ UNCHANGED <<timerVars, timeVars>>

PipeRead ==
  /\ pipe_w # {} /\ running = Nobody
  /\ LoopGoto("invoke", "pipe_unskip")
  /\ pipe_w' = {}
  /\ eventfd' = (eventfd /\ "READ" \notin pipe_w)
  /\ PipeLeaves
  /\ UNCHANGED <<sent, async_pending, pipe_write_wanted, pipe_write_skipped, pendings>>

PipeUnskip ==
  /\ LoopGoto("pipe_unskip", "pipe_check")
  /\ pipe_write_skipped' = FALSE
  /\ PipeLeaves
  /\ UNCHANGED <<sent, async_pending, pipe_write_wanted, eventfd, pipe_w, pendings>>

PipeCheck ==
  /\ LoopGoto("pipe_check", IF async_pending THEN "pipe_clear" ELSE "invoke")
  /\ PipeLeaves
  /\ UNCHANGED <<wakeVars, pipe_w, pendings>>

PipeClear ==
  /\ LoopGoto("pipe_clear", "pipe_scan")
  /\ async_pending' = FALSE
  /\ PipeLeaves
  /\ UNCHANGED <<sent, pipe_write_wanted, pipe_write_skipped, eventfd, pipe_w, pendings>>

PipeScan ==
  /\ LoopGoto("pipe_scan", IF sent THEN "pipe_take" ELSE "invoke")
  /\ PipeLeaves
  /\ UNCHANGED <<wakeVars, pipe_w, pendings>>

PipeTake ==
  /\ LoopGoto("pipe_take", "invoke")
  /\ sent' = FALSE
  /\ pendings' = Append(pendings, Async)
  /\ PipeLeaves
  /\ UNCHANGED <<async_pending, pipe_write_wanted, pipe_write_skipped, eventfd, pipe_w>>

-----------------------------------------------------------------------------
(* Callbacks, and what they may call. *)

(* ev_invoke_pending takes the newest pending watcher. *)
Invoke ==
  /\ loop = "invoke" /\ running = Nobody
  /\ pipe_w = {} /\ pendings # << >>
  /\ running' = pendings[Len(pendings)]
  /\ pendings' = SubSeq(pendings, 1, Len(pendings) - 1)
  /\ UNCHANGED <<wakeVars, timerVars, timeVars, pc, loop, pipe_w, budget>>

Return ==
  /\ running # Nobody
  /\ pc[Self] = "idle"
  /\ running' = Nobody
  /\ UNCHANGED <<wakeVars, timerVars, timeVars, pc, loop, pipe_w, pendings, budget>>

UserCode ==
  /\ running # Nobody /\ pc[Self] = "idle"
  /\ budget.ops > 0 /\ budget' = [budget EXCEPT !.ops = @ - 1]
  /\ UNCHANGED <<wakeVars, timeVars, due, rfeeds, pc, loop, pipe_w, running>>

(* An active timer stays where it is in the heap. *)
ev_timer_start(t, w) ==
  IF HasTimer(heap, t)
  THEN tm' = [tm EXCEPT ![t] = w] /\ UNCHANGED heap
  ELSE LET at == mn_now + w.at IN
       /\ tm' = [tm EXCEPT ![t] = [w EXCEPT !.at = at]]
       /\ heap' = HeapInsert(heap, [w |-> t, at |-> at])

Without(s, t) == FoldLeft(LAMBDA kept, w : IF w = t THEN kept ELSE Append(kept, w), << >>, s)

(* clear_pending, also of a timer that is not active. *)
ev_timer_stop(t) ==
  /\ pendings' = Without(pendings, t)
  /\ heap' = IF HasTimer(heap, t) THEN HeapRemove(heap, At(heap, t)) ELSE heap

(* task_timer_start: ev_timer_set stores its arguments even in an active     *)
(* timer.                                                                    *)
TimerStart(t, start, repeat) ==
  /\ UserCode
  /\ ev_timer_start(t, [at |-> start, repeat |-> repeat])
  /\ UNCHANGED pendings

(* task_timer_stop *)
TimerStop(t) ==
  /\ UserCode
  /\ ev_timer_stop(t)
  /\ UNCHANGED tm

Tick ==
  /\ budget.ticks > 0 /\ budget' = [budget EXCEPT !.ticks = @ - 1]
  /\ clock' = clock + 1
  /\ UNCHANGED <<wakeVars, timerVars, mn_now, waittime, entered, pc, loop, pipe_w, pendings, running>>

-----------------------------------------------------------------------------
LoopStep ==
  \/ Begin \/ Decide \/ Poll \/ Unwant \/ Look \/ Expire \/ FeedReverseDone
  \/ PipeRead \/ PipeUnskip \/ PipeCheck \/ PipeClear \/ PipeScan \/ PipeTake
  \/ Invoke \/ Return

(* A task that has entered ev_run, with the timers it has started. *)
Init ==
  /\ sent = FALSE /\ async_pending = FALSE
  /\ pipe_write_wanted = FALSE /\ pipe_write_skipped = FALSE
  /\ eventfd = FALSE
  /\ pc = [s \in Senders |-> "idle"]
  /\ loop = "invoke" /\ pipe_w = {} /\ pendings = << >> /\ running = Nobody
  /\ due = [t \in Timers |-> 0]
  /\ clock = 0 /\ mn_now = 0 /\ waittime = 0 /\ entered = 0
  /\ \E s \in Scenarios :
       /\ heap = s.heap
       /\ tm = [t \in Timers |->
                  [at |-> IF HasTimer(s.heap, t) THEN s.heap[At(s.heap, t)].at ELSE 0,
                   repeat |-> IF t \in s.repeats THEN 1 ELSE 0]]
       /\ rfeeds = << >>
       /\ budget = [sends |-> s.sends, ops |-> s.ops, ticks |-> s.ticks, used |-> s.used]

Next ==
  \/ \E s \in Senders : SetSent(s) \/ SendStep(s)
  \/ LoopStep
  \/ PollInterrupted
  \/ \E t \in budget.used : TimerStop(t) \/ \E start, repeat \in Delays : TimerStart(t, start, repeat)
  \/ Tick

(* The scheduler runs every thread, and callbacks return. *)
Spec ==
  /\ Init /\ [][Next]_vars
  /\ \A s \in Senders : WF_vars(SendStep(s))
  /\ WF_vars(LoopStep)

-----------------------------------------------------------------------------
(* Properties *)

Sending(places) == \E s \in Senders : pc[s] \in places

(* A notification that has been made is on its way: while ev_async.sent is   *)
(* set the loop cannot go to sleep for good, because its flag, the note or   *)
(* the eventfd tells it so or a sender is about to (evpipe_write, pipecb and *)
(* the order of ev_run around backend_poll).                                 *)
WakeupOutstanding ==
  sent /\ loop = "poll" /\ ~Sending({"test", "flag", "skip", "ask", "unskip", "write"})
    => eventfd \/ waittime = 0

(* The callback of the task runs after every notification (ev_async_send,    *)
(* the promise that TaskQueue takes for granted of its flag).                *)
SentIsDelivered == sent ~> (running = Async /\ ~sent)

(* The loop sleeps no longer than until any active timer is due (the heap's  *)
(* root is due first, ev_run's computation of waittime).                     *)
NeverOversleeps ==
  loop = "poll" => \A k \in DOMAIN heap : waittime <= LaterOf(heap[k].at - mn_now, 1)

(* Timers that expire together have their callbacks run in the order they    *)
(* were due (timers_reify takes them off the heap in order and               *)
(* feed_reverse_done turns round what the LIFO of pendings turns round).     *)
TimersInOrder ==
  [][\A t \in Timers : running' = t /\ running = Nobody =>
       \A u \in Timers : (\E j \in DOMAIN pendings' : pendings'[j] = u) => due[t] <= due[u]]_vars
=============================================================================
