---------------------------- MODULE LibevProofs ----------------------------
(***************************************************************************)
(* Proofs about libev, for any number of senders, timers, watchers,        *)
(* descriptors and files.                                                  *)
(*                                                                         *)
(* The loop (first part): a wake-up is never lost, the loop never sleeps   *)
(* past the time a timer is due, and timers that expire together are       *)
(* called back in order.  upheap and downheap shift entries along a way    *)
(* through the heap, on which a rank goes down.  Where the way ends and    *)
(* which places are on it is all there is to know of it; that the heap is  *)
(* in order again follows for both directions in the same way.             *)
(*                                                                         *)
(* The descriptors (second part): libev does for the watchers what module  *)
(* Watcher says, with epoll, poll or select: the implementation of         *)
(* WatcherSpec by LibevWatcher, and what it hides.  The invariant says     *)
(* what libev's approximations are good for.  It may lag behind the        *)
(* kernel, as long as a change is in the list or the descriptor counts as  *)
(* new; it may be told of files that were closed, as long as the           *)
(* generation tells them apart.                                            *)
(*                                                                         *)
(* An operation on the loop is a lemma ASSUME NEW m, m = op(l, ...): what  *)
(* it changes is a relation of l and m with a name, what it keeps is       *)
(* LoopInv.  Loops over descriptors are folds, on which FoldLemmas has the *)
(* lemmas.                                                                 *)
(***************************************************************************)
EXTENDS LibevWatcher, LibevLoop, FoldLemmas

-----------------------------------------------------------------------------
(* The wake-up *)

PipeCb == {"pipe_unskip", "pipe_check", "pipe_clear", "pipe_scan", "pipe_take"}
LoopPCs == {"invoke", "decide", "poll", "unwant", "look", "expire"} \cup PipeCb
SendPCs == {"idle", "test", "flag", "skip", "ask", "unskip", "write"}

Types == pc \in [Senders -> SendPCs] /\ loop \in LoopPCs

(* Why a notification is on its way, one cause for each state of it: the     *)
(* flag of the loop is up or about to be, or pipecb is about to look again.  *)
FlagFollows == sent => async_pending \/ Sending({"test", "flag"}) \/ loop \in {"pipe_scan", "pipe_take"}

(* A flag that is up makes pipecb run. *)
PipeFollows ==
  async_pending =>
    \/ eventfd \/ pipe_w # {} \/ pipe_write_skipped
    \/ Sending({"skip", "write"}) \/ loop \in {"pipe_unskip", "pipe_check", "pipe_clear"}

(* A note left while the loop sleeps is made good by a write. *)
WriteFollows ==
  loop = "poll" /\ pipe_write_skipped =>
    eventfd \/ waittime = 0 \/ Sending({"ask", "unskip", "write"})

WantedAsleep == loop \in {"decide", "poll", "unwant"} => pipe_write_wanted
NothingPending == loop \in {"decide", "poll"} => pipe_w = {}

WakeInv == Types /\ FlagFollows /\ PipeFollows /\ WriteFollows /\ WantedAsleep /\ NothingPending

LEMMA WakeInit == Init => WakeInv
  BY DEF Init, WakeInv, Types, FlagFollows, PipeFollows, WriteFollows, WantedAsleep, NothingPending,
         Sending, SendPCs, LoopPCs

LEMMA WakeStep == WakeInv /\ [Next]_vars => WakeInv'
<1> SUFFICES ASSUME WakeInv, [Next]_vars PROVE WakeInv'
  OBVIOUS
<1> USE DEF WakeInv, Types, FlagFollows, PipeFollows, WriteFollows, WantedAsleep, NothingPending,
            Sending, SendPCs, LoopPCs, PipeCb, LoopGoto, LoopLeaves, PipeLeaves, Goto, SendLeaves,
            wakeVars, timerVars, timeVars
<1>1. ASSUME NEW s \in Senders, TestFlag(s) PROVE WakeInv'
  BY <1>1 DEF TestFlag
<1>2. ASSUME NEW s \in Senders, SetFlag(s) PROVE WakeInv'
  BY <1>2 DEF SetFlag
<1>3. ASSUME NEW s \in Senders, SetSkipped(s) PROVE WakeInv'
  BY <1>3 DEF SetSkipped
<1>4. ASSUME NEW s \in Senders, TestWanted(s) PROVE WakeInv'
  BY <1>4 DEF TestWanted
<1>5. ASSUME NEW s \in Senders, ClearSkipped(s) PROVE WakeInv'
  BY <1>5 DEF ClearSkipped
<1>6. ASSUME NEW s \in Senders, Write(s) PROVE WakeInv'
  BY <1>6 DEF Write
<1>7. ASSUME NEW s \in Senders, SetSent(s) PROVE WakeInv'
  BY <1>7 DEF SetSent
<1>8. CASE Begin
  BY <1>8 DEF Begin, time_update
<1>9. CASE Decide
  BY <1>9 DEF Decide, Waittime
<1>10. CASE Poll
  BY <1>10 DEF Poll, PollReturns
<1>11. CASE Unwant
  BY <1>11 DEF Unwant
<1>12. CASE Look
  BY <1>12 DEF Look, time_update
<1>13. CASE Expire
  BY <1>13 DEF Expire
<1>14. CASE FeedReverseDone
  BY <1>14 DEF FeedReverseDone
<1>15. CASE PipeRead
  BY <1>15 DEF PipeRead
<1>16. CASE PipeUnskip
  BY <1>16 DEF PipeUnskip
<1>17. CASE PipeCheck
  BY <1>17 DEF PipeCheck
<1>18. CASE PipeClear
  BY <1>18 DEF PipeClear
<1>19. CASE PipeScan
  BY <1>19 DEF PipeScan
<1>20. CASE PipeTake
  BY <1>20 DEF PipeTake
<1>21. CASE Invoke
  BY <1>21 DEF Invoke
<1>22. CASE Return
  BY <1>22 DEF Return
<1>23. CASE PollInterrupted
  BY <1>23 DEF PollInterrupted, PollReturns
<1>24. ASSUME NEW t \in budget.used, TimerStop(t) PROVE WakeInv'
  BY <1>24 DEF TimerStop, ev_timer_stop, UserCode
<1>25. ASSUME NEW t \in budget.used, NEW start \in Delays, NEW repeat \in Delays, TimerStart(t, start, repeat)
      PROVE  WakeInv'
  BY <1>25 DEF TimerStart, ev_timer_start, UserCode
<1>26. CASE Tick
  BY <1>26 DEF Tick
<1>27. CASE UNCHANGED vars
  BY <1>27 DEF vars
<1> QED
  BY <1>1, <1>2, <1>3, <1>4, <1>5, <1>6, <1>7, <1>8, <1>9, <1>10, <1>11, <1>12, <1>13, <1>14, <1>15, <1>16, <1>17, <1>18, <1>19, <1>20, <1>21, <1>22, <1>23, <1>24, <1>25, <1>26, <1>27 DEF Next, SendStep, LoopStep

(* As long as ev_async.sent is set, the loop does not sleep unless a sender  *)
(* is still about to wake it: no order of the steps of ev_async_send, of any *)
(* number of threads, and of ev_run loses a notification.                    *)
THEOREM WakeupNeverLost == Spec => []WakeupOutstanding
<1>1. WakeInv => WakeupOutstanding
  BY DEF WakeInv, Types, FlagFollows, PipeFollows, WriteFollows, NothingPending, Sending, WakeupOutstanding
<1> QED
  BY WakeInit, WakeStep, <1>1, PTL DEF Spec

-----------------------------------------------------------------------------
(* The heap of the timers *)

(* A set of numbers has a least one. *)
LEMMA LeastNumber ==
  ASSUME NEW S \in SUBSET Nat, S # {}
  PROVE  \E a \in S : \A b \in S : a <= b
<1> DEFINE J == {m \in Nat : \A x \in S : x > m}
<1> SUFFICES ASSUME \A a \in S : \E b \in S : ~(a <= b) PROVE FALSE
  OBVIOUS
<1>1. 0 \in J
  OBVIOUS
<1>2. ASSUME NEW m \in Nat, m \in J PROVE m + 1 \in J
  <2> SUFFICES ASSUME m + 1 \in S PROVE FALSE
    BY <1>2
  <2>1. PICK b \in S : ~(m + 1 <= b)
    OBVIOUS
  <2> QED
    BY <1>2, <2>1
<1> HIDE DEF J
<1>3. Nat \subseteq J
  BY <1>1, <1>2, NatSetInduction
<1>4. PICK x \in S : TRUE
  OBVIOUS
<1> QED
  BY <1>3, <1>4 DEF J

-----------------------------------------------------------------------------
(* The ways through the heap *)

(* What there is to know of the way from j: e is where it ends, p the places *)
(* before.                                                                   *)
WayIs(next, rank, j, e, p) ==
  /\ e \notin DOMAIN next /\ p \subseteq DOMAIN next
  /\ j \in p \cup {e}
  /\ \A x \in p \cup {e} : rank[e] <= rank[x] /\ rank[x] <= rank[j]
  /\ \A i \in p : next[i] \in p \cup {e}
  /\ \A x \in p \cup {e} : x = j \/ \E i \in p : next[i] = x
  /\ \A i, m \in p : next[i] = next[m] => i = m

(* end and path are functions that satisfy their definitions. *)
WalkOn(next, dom, end, path) ==
  /\ \A j \in dom : /\ end[j] = IF j \in DOMAIN next THEN end[next[j]] ELSE j
                    /\ path[j] = IF j \in DOMAIN next THEN {j} \cup path[next[j]] ELSE {}

LEMMA WalkExists ==
  ASSUME NEW n \in Nat, NEW next, DOMAIN next \subseteq 1 .. n, NEW rank \in [1 .. n -> 0 .. n],
         \A j \in DOMAIN next : next[j] \in 1 .. n /\ rank[next[j]] < rank[j]
  PROVE  \E end, path : /\ end = [j \in 1 .. n |-> IF j \in DOMAIN next THEN end[next[j]] ELSE j]
                        /\ path = [j \in 1 .. n |-> IF j \in DOMAIN next THEN {j} \cup path[next[j]] ELSE {}]
<1> DEFINE Low(m) == {j \in 1 .. n : rank[j] < m}
           J == {m \in Nat : \E end, path : WalkOn(next, Low(m), end, path)}
<1>1. 0 \in J
  BY DEF WalkOn
<1>2. ASSUME NEW m \in Nat, m \in J PROVE m + 1 \in J
  <2>1. PICK end, path : WalkOn(next, Low(m), end, path)
    BY <1>2
  <2> DEFINE E == [j \in Low(m + 1) |->
                     IF j \in DOMAIN next THEN (IF next[j] \in Low(m) THEN end[next[j]] ELSE 0) ELSE j]
             P == [j \in Low(m + 1) |->
                     IF j \in DOMAIN next THEN {j} \cup (IF next[j] \in Low(m) THEN path[next[j]] ELSE {}) ELSE {}]
  <2>2. ASSUME NEW j \in Low(m + 1), j \in DOMAIN next PROVE next[j] \in Low(m) /\ next[j] \in Low(m + 1)
    <3>1. next[j] \in 1 .. n /\ rank[next[j]] \in 0 .. n /\ rank[j] \in 0 .. n
      BY <2>2
    <3> QED
      BY <2>2, <3>1
  <2>3. ASSUME NEW j \in Low(m) PROVE j \in Low(m + 1) /\ E[j] = end[j] /\ P[j] = path[j]
    <3>1. j \in Low(m + 1)
      OBVIOUS
    <3>2. j \in DOMAIN next => next[j] \in Low(m)
      BY <2>2, <3>1
    <3>3. /\ end[j] = IF j \in DOMAIN next THEN end[next[j]] ELSE j
          /\ path[j] = IF j \in DOMAIN next THEN {j} \cup path[next[j]] ELSE {}
      BY <2>1 DEF WalkOn
    <3>4. /\ E[j] = IF j \in DOMAIN next THEN (IF next[j] \in Low(m) THEN end[next[j]] ELSE 0) ELSE j
          /\ P[j] = IF j \in DOMAIN next THEN {j} \cup (IF next[j] \in Low(m) THEN path[next[j]] ELSE {}) ELSE {}
      BY <3>1
    <3> QED
      BY <3>1, <3>2, <3>3, <3>4
  <2>4. ASSUME NEW j \in Low(m + 1)
        PROVE  /\ E[j] = IF j \in DOMAIN next THEN E[next[j]] ELSE j
               /\ P[j] = IF j \in DOMAIN next THEN {j} \cup P[next[j]] ELSE {}
    BY <2>2, <2>3
  <2> HIDE DEF E, P, Low
  <2>5. WalkOn(next, Low(m + 1), E, P)
    BY <2>4 DEF WalkOn
  <2> QED
    BY <2>5
<1> HIDE DEF J
<1>3. n + 1 \in J
  BY <1>1, <1>2, NatSetInduction
<1>4. PICK end, path : WalkOn(next, Low(n + 1), end, path)
  BY <1>3 DEF J
<1>5. Low(n + 1) = 1 .. n
  OBVIOUS
<1> DEFINE E == [j \in 1 .. n |-> end[j]]
           P == [j \in 1 .. n |-> path[j]]
<1>6. E = [j \in 1 .. n |-> IF j \in DOMAIN next THEN E[next[j]] ELSE j]
  BY <1>4, <1>5 DEF WalkOn
<1>7. P = [j \in 1 .. n |-> IF j \in DOMAIN next THEN {j} \cup P[next[j]] ELSE {}]
  BY <1>4, <1>5 DEF WalkOn
<1> HIDE DEF E, P
<1> QED
  BY <1>6, <1>7

LEMMA Ways ==
  ASSUME NEW n \in Nat, NEW next, DOMAIN next \subseteq 1 .. n, NEW rank \in [1 .. n -> 0 .. n],
         \A j \in DOMAIN next : next[j] \in 1 .. n /\ rank[next[j]] < rank[j],
         NEW v \in 1 .. n
  PROVE  /\ End(next, 1 .. n, v) \in 1 .. n
         /\ WayIs(next, rank, v, End(next, 1 .. n, v), Path(next, 1 .. n, v))
<1> DEFINE EndIs(f) == f = [j \in 1 .. n |-> IF j \in DOMAIN next THEN f[next[j]] ELSE j]
           PathIs(f) == f = [j \in 1 .. n |-> IF j \in DOMAIN next THEN {j} \cup f[next[j]] ELSE {}]
           end == CHOOSE f : EndIs(f)
           path == CHOOSE f : PathIs(f)
<1>1. End(next, 1 .. n, v) = end[v] /\ Path(next, 1 .. n, v) = path[v]
  BY Zenon DEF End, Path
<1>2. (\E f : EndIs(f)) /\ (\E f : PathIs(f))
  <2>1. \E f, g : /\ f = [j \in 1 .. n |-> IF j \in DOMAIN next THEN f[next[j]] ELSE j]
                  /\ g = [j \in 1 .. n |-> IF j \in DOMAIN next THEN {j} \cup g[next[j]] ELSE {}]
    BY WalkExists
  <2> QED
    BY <2>1, Zenon
<1>3. EndIs(end) /\ PathIs(path)
  BY <1>2, Zenon
<1> HIDE DEF end, path
<1>4. ASSUME NEW j \in 1 .. n
      PROVE  /\ end[j] = IF j \in DOMAIN next THEN end[next[j]] ELSE j
             /\ path[j] = IF j \in DOMAIN next THEN {j} \cup path[next[j]] ELSE {}
  BY <1>3
<1> HIDE DEF EndIs, PathIs
<1> DEFINE Known(m) == \A j \in 1 .. n : rank[j] < m => end[j] \in 1 .. n /\ WayIs(next, rank, j, end[j], path[j])
           J == {m \in Nat : Known(m)}
<1>5. 0 \in J
  OBVIOUS
<1>6. ASSUME NEW m \in Nat, m \in J PROVE m + 1 \in J
  <2> SUFFICES ASSUME NEW j \in 1 .. n, rank[j] < m + 1
               PROVE  end[j] \in 1 .. n /\ WayIs(next, rank, j, end[j], path[j])
    OBVIOUS
  <2>1. CASE j \notin DOMAIN next
    <3>1. end[j] = j /\ path[j] = {}
      BY <1>4, <2>1
    <3>2. rank[j] \in 0 .. n
      OBVIOUS
    <3> QED
      BY <2>1, <3>1, <3>2 DEF WayIs
  <2>2. CASE j \in DOMAIN next
    <3> DEFINE c == next[j]
               e == end[c]
               p == path[c]
    <3>1. c \in 1 .. n /\ rank[c] < rank[j] /\ rank[c] \in 0 .. n /\ rank[j] \in 0 .. n
      BY <2>2
    <3>2. e \in 1 .. n /\ WayIs(next, rank, c, e, p)
      BY <1>6, <3>1
    <3>3. end[j] = e /\ path[j] = {j} \cup p
      BY <1>4, <2>2
    <3>4. \A x \in p \cup {e} : rank[x] \in 0 .. n /\ x \in 1 .. n
      BY <3>2 DEF WayIs
    <3> HIDE DEF e, p
    <3>5. j \notin p \cup {e}
      BY <3>1, <3>2 DEF WayIs
    <3>6. \A x \in p \cup {e} : rank[x] <= rank[j]
      BY <3>1, <3>2, <3>4 DEF WayIs
    <3>7. ASSUME NEW i \in p PROVE next[i] # c
      BY <3>1, <3>2, <3>4 DEF WayIs
    <3>8. c \in p \cup {e}
      BY <3>2 DEF WayIs
    <3>9. rank[e] <= rank[j]
      BY <3>6
    <3> HIDE DEF c
    <3>10. c = next[j]
      BY DEF c
    <3>a. e \notin DOMAIN next /\ {j} \cup p \subseteq DOMAIN next
      BY <2>2, <3>2 DEF WayIs
    <3>b. \A x \in ({j} \cup p) \cup {e} : rank[e] <= rank[x] /\ rank[x] <= rank[j]
      BY <3>1, <3>2, <3>6, <3>9 DEF WayIs
    <3>c. \A i \in {j} \cup p : next[i] \in ({j} \cup p) \cup {e}
      BY <3>2, <3>8, <3>10 DEF WayIs
    <3>d. \A x \in ({j} \cup p) \cup {e} : x = j \/ \E i \in {j} \cup p : next[i] = x
      BY <3>2, <3>10 DEF WayIs
    <3>e. \A i, l \in {j} \cup p : next[i] = next[l] => i = l
      BY <3>2, <3>7, <3>10 DEF WayIs
    <3> QED
      BY <3>2, <3>3, <3>a, <3>b, <3>c, <3>d, <3>e DEF WayIs
  <2> QED
    BY <2>1, <2>2
<1> HIDE DEF J
<1>7. n + 1 \in J
  BY <1>5, <1>6, NatSetInduction
<1>8. rank[v] < n + 1
  OBVIOUS
<1> QED
  BY <1>1, <1>7, <1>8 DEF J

(* What Shift makes of a heap, in terms of the way: e its end, p the places before. *)
Shifted(h, g, next, v, e, p) ==
  /\ g \in Seq(Entries) /\ Len(g) = Len(h)
  /\ g[e] = h[v]
  /\ \A i \in p : g[i] = h[next[i]]
  /\ \A j \in 1 .. Len(h) : j \notin p \cup {e} => g[j] = h[j]

LEMMA ShiftMoves ==
  ASSUME NEW h \in Seq(Entries), NEW next, DOMAIN next \subseteq 1 .. Len(h),
         NEW rank \in [1 .. Len(h) -> 0 .. Len(h)],
         \A j \in DOMAIN next : next[j] \in 1 .. Len(h) /\ rank[next[j]] < rank[j],
         NEW v \in 1 .. Len(h), NEW g, g = Shift(h, next, v)
  PROVE  \E e \in 1 .. Len(h), p \in SUBSET (1 .. Len(h)) :
           WayIs(next, rank, v, e, p) /\ Shifted(h, g, next, v, e, p)
<1> DEFINE n == Len(h)
           e == End(next, 1 .. n, v)
           p == Path(next, 1 .. n, v)
<1>1. n \in Nat /\ DOMAIN h = 1 .. n
  OBVIOUS
<1>2. e \in 1 .. n /\ WayIs(next, rank, v, e, p)
  BY <1>1, Ways
<1>3. g = [j \in 1 .. n |-> IF j = e THEN h[v] ELSE IF j \in p THEN h[next[j]] ELSE h[j]]
  BY <1>1 DEF Shift
<1> HIDE DEF e, p
<1>4. p \subseteq DOMAIN next /\ e \notin p
  BY <1>2 DEF WayIs
<1>5. \A j \in 1 .. n : h[j] \in Entries
  OBVIOUS
<1>6. ASSUME NEW j \in 1 .. n PROVE g[j] \in Entries
  <2>1. j \in p => next[j] \in 1 .. n
    BY <1>4
  <2>2. /\ j = e => g[j] = h[v]
        /\ j # e /\ j \in p => g[j] = h[next[j]]
        /\ j # e /\ j \notin p => g[j] = h[j]
    BY <1>3
  <2> QED
    BY <2>1, <2>2, <1>5
<1>7. g \in Seq(Entries) /\ Len(g) = n
  <2>1. g \in [1 .. n -> Entries]
    BY <1>3, <1>6
  <2> QED
    BY <2>1, <1>1
<1>8. g[e] = h[v]
  BY <1>2, <1>3
<1>9. \A i \in p : g[i] = h[next[i]]
  BY <1>3, <1>4
<1>10. \A j \in 1 .. n : j \notin p \cup {e} => g[j] = h[j]
  BY <1>3
<1>11. p \in SUBSET (1 .. n)
  BY <1>4
<1> QED
  BY <1>2, <1>7, <1>8, <1>9, <1>10, <1>11 DEF Shifted

(* A permutation of the entries: no timer is there twice. *)
LEMMA ShiftOnce ==
  ASSUME NEW h \in Seq(Entries), EachOnce(h), NEW next,
         NEW rank \in [1 .. Len(h) -> 0 .. Len(h)],
         \A j \in DOMAIN next : next[j] \in 1 .. Len(h) /\ rank[next[j]] < rank[j],
         NEW v \in 1 .. Len(h), NEW e \in 1 .. Len(h), NEW p \in SUBSET (1 .. Len(h)),
         WayIs(next, rank, v, e, p), NEW g, Shifted(h, g, next, v, e, p)
  PROVE  EachOnce(g)
<1> DEFINE n == Len(h)
           from == [j \in 1 .. n |-> IF j = e THEN v ELSE IF j \in p THEN next[j] ELSE j]
<1>1. \A j \in 1 .. n : rank[j] \in 0 .. n
  OBVIOUS
<1>2. ASSUME NEW i \in p PROVE next[i] # v /\ next[i] \in (p \cup {e}) /\ next[i] \in 1 .. n
  <2>1. rank[next[i]] < rank[i] /\ rank[i] <= rank[v] /\ next[i] \in 1 .. n
    BY DEF WayIs
  <2>2. rank[next[i]] # rank[v]
    BY <1>1, <2>1
  <2> QED
    BY <2>1, <2>2 DEF WayIs
<1>3. ASSUME NEW i \in 1 .. n, NEW j \in 1 .. n, from[i] = from[j] PROVE i = j
  <2>1. v \in p \cup {e} /\ \A l, m \in p : next[l] = next[m] => l = m
    BY DEF WayIs
  <2> QED
    BY <1>2, <1>3, <2>1
<1>4. ASSUME NEW j \in 1 .. n PROVE from[j] \in 1 .. n /\ g[j] = h[from[j]]
  BY <1>2 DEF Shifted
<1> HIDE DEF from
<1>5. DOMAIN g = 1 .. n /\ DOMAIN h = 1 .. n
  BY DEF Shifted
<1>6. ASSUME NEW i \in 1 .. n, NEW j \in 1 .. n, g[i].w = g[j].w PROVE i = j
  <2>1. from[i] = from[j]
    BY <1>4, <1>5, <1>6 DEF EachOnce
  <2> QED
    BY <1>3, <2>1
<1> QED
  BY <1>5, <1>6 DEF EachOnce

(* No entry of g is new. *)
Within(g, h) == \A j \in 1 .. Len(g) : \E i \in 1 .. Len(h) : g[j] = h[i]

LEMMA ShiftWithin ==
  ASSUME NEW h \in Seq(Entries), NEW next, NEW rank,
         \A j \in DOMAIN next : next[j] \in 1 .. Len(h),
         NEW v \in 1 .. Len(h), NEW e, NEW p, WayIs(next, rank, v, e, p), NEW g, Shifted(h, g, next, v, e, p)
  PROVE  Within(g, h)
<1> SUFFICES ASSUME NEW j \in 1 .. Len(h) PROVE \E i \in 1 .. Len(h) : g[j] = h[i]
  BY DEF Within, Shifted
<1>1. p \subseteq DOMAIN next
  BY DEF WayIs
<1>2. CASE j = e
  BY <1>2 DEF Shifted
<1>3. CASE j \in p
  BY <1>1, <1>3 DEF Shifted
<1>4. CASE j \notin p \cup {e}
  BY <1>4 DEF Shifted
<1> QED
  BY <1>2, <1>3, <1>4

(* Entry v may be due before its parent; everything else is in order. *)
MayRise(h, v) ==
  /\ \A j \in 2 .. Len(h) : j # v => h[Parent(j)].at <= h[j].at
  /\ \A c \in 2 .. Len(h) : Parent(c) = v /\ v > 1 => h[Parent(v)].at <= h[c].at

(* Entry v may be due after its children. *)
MaySink(h, v) ==
  /\ \A j \in 2 .. Len(h) : Parent(j) # v => h[Parent(j)].at <= h[j].at
  /\ \A c \in 2 .. Len(h) : Parent(c) = v /\ v > 1 => h[Parent(v)].at <= h[c].at

LEMMA ParentBefore == \A v \in Nat : v > 1 => Parent(v) \in 1 .. v - 1
<1> SUFFICES ASSUME NEW v \in Nat, v > 1 PROVE Parent(v) \in 1 .. v - 1
  OBVIOUS
<1> DEFINE q == (v - 2) \div D
<1>1. D \in Nat /\ D > 0 /\ v - 2 \in Nat
  BY DAssumption
<1>2. q \in Nat /\ q <= v - 2
  BY <1>1
<1> HIDE DEF q
<1>3. q + 1 \in 1 .. v - 1
  BY <1>2
<1> QED
  BY <1>3 DEF Parent, q

LEMMA AtIsNat == ASSUME NEW h \in Seq(Entries) PROVE \A j \in 1 .. Len(h) : h[j].at \in Nat
<1>1. \A j \in 1 .. Len(h) : h[j] \in Entries
  OBVIOUS
<1> QED
  BY <1>1 DEF Entries

LEMMA Upheap ==
  ASSUME NEW h \in Seq(Entries), NEW v \in 1 .. Len(h), MayRise(h, v), NEW g, g = upheap(h, v)
  PROVE  g \in Seq(Entries) /\ Len(g) = Len(h) /\ ParentFirst(g) /\ (EachOnce(h) => EachOnce(g)) /\ Within(g, h)
<1> DEFINE n == Len(h)
           Goes == {j \in DOMAIN h : j > 1 /\ h[v].at < h[Parent(j)].at}
           next == [j \in Goes |-> Parent(j)]
           rank == [j \in 1 .. n |-> j]
<1>1. n \in Nat /\ DOMAIN h = 1 .. n /\ \A j \in 1 .. n : h[j].at \in Nat
  BY AtIsNat
<1>2. g = Shift(h, next, v)
  BY DEF upheap
<1>3. DOMAIN next = Goes /\ Goes \subseteq 1 .. n /\ rank \in [1 .. n -> 0 .. n]
  BY <1>1
<1>4. ASSUME NEW j \in Goes PROVE next[j] = Parent(j) /\ Parent(j) \in 1 .. n /\ rank[next[j]] < rank[j]
  BY <1>1, ParentBefore
<1>5. PICK e \in 1 .. n, p \in SUBSET (1 .. n) : WayIs(next, rank, v, e, p) /\ Shifted(h, g, next, v, e, p)
  <2> HIDE DEF next, rank, Goes
  <2> QED
    BY <1>2, <1>3, <1>4, ShiftMoves
<1>6. EachOnce(h) => EachOnce(g)
  <2> HIDE DEF next, rank, Goes
  <2> QED
    BY <1>3, <1>4, <1>5, ShiftOnce
<1>b. Within(g, h)
  <2> HIDE DEF next, rank, Goes
  <2> QED
    BY <1>3, <1>4, <1>5, ShiftWithin
<1>7. /\ e \notin Goes /\ p \subseteq Goes
      /\ v \in p \cup {e}
      /\ \A x \in p \cup {e} : e <= x /\ x <= v
      /\ \A i \in p : Parent(i) \in p \cup {e}
      /\ \A x \in p \cup {e} : x = v \/ \E i \in p : Parent(i) = x
  <2>1. p \subseteq Goes /\ e \notin Goes /\ v \in p \cup {e}
    BY <1>3, <1>5 DEF WayIs
  <2>2. \A i \in p : next[i] = Parent(i)
    BY <1>4, <2>1
  <2>3. \A x \in p \cup {e} : rank[x] = x
    OBVIOUS
  <2> HIDE DEF next, rank, Goes
  <2>4. rank[v] = v /\ rank[e] = e
    BY <2>1, <2>3
  <2>5. /\ \A x \in p \cup {e} : rank[e] <= rank[x] /\ rank[x] <= rank[v]
        /\ \A i \in p : next[i] \in p \cup {e}
        /\ \A x \in p \cup {e} : x = v \/ \E i \in p : next[i] = x
    BY <1>5 DEF WayIs
  <2> QED
    BY <2>1, <2>2, <2>3, <2>4, <2>5
<1>8. /\ g \in Seq(Entries) /\ Len(g) = n
      /\ g[e] = h[v]
      /\ \A i \in p : g[i] = h[Parent(i)]
      /\ \A j \in 1 .. n : j \notin p \cup {e} => g[j] = h[j]
  BY <1>3, <1>4, <1>5, <1>7 DEF Shifted
<1>9. \A j \in 1 .. n : j \in Goes <=> j > 1 /\ h[v].at < h[Parent(j)].at
  BY <1>1
<1> HIDE DEF next, rank, Goes
<1>10. ASSUME NEW x \in 2 .. n PROVE g[Parent(x)].at <= g[x].at
  <2> DEFINE q == Parent(x)
  <2>1. q \in 1 .. n /\ q < x /\ x \in 1 .. n /\ x > 1
    BY ParentBefore
  <2>2. \A j \in 1 .. n : h[j].at \in Nat
    BY <1>1
  <2>3. x # v => h[q].at <= h[x].at
    BY DEF MayRise
  <2>4. q > 1 => Parent(q) \in 1 .. n /\ Parent(q) < q
    BY <2>1, ParentBefore
  <2>5. q > 1 /\ q # v => h[Parent(q)].at <= h[q].at
    BY <2>1 DEF MayRise
  <2>6. q > 1 /\ q = v => h[Parent(q)].at <= h[x].at
    BY <2>1 DEF MayRise
  <2> HIDE DEF q
  <2>7. q = Parent(x)
    BY DEF q
  <2>8. CASE x = e
    <3>1. q \notin p \cup {e}
      BY <1>7, <2>1, <2>8
    <3>2. g[q] = h[q] /\ g[x] = h[v]
      BY <1>8, <2>1, <2>8, <3>1
    <3>3. h[q].at <= h[v].at
      BY <1>7, <1>9, <2>1, <2>2, <2>7, <2>8
    <3> QED
      BY <3>2, <3>3, <2>7
  <2>9. CASE x \in p
    <3>1. g[x] = h[q] /\ h[v].at < h[q].at /\ q \in p \cup {e} /\ x <= v
      BY <1>7, <1>8, <1>9, <2>1, <2>7, <2>9
    <3>2. CASE q = e
      BY <1>8, <2>2, <2>7, <3>1, <3>2
    <3>3. CASE q \in p
      <4>1. g[q] = h[Parent(q)] /\ q > 1 /\ q # v
        BY <1>7, <1>8, <1>9, <2>1, <3>1, <3>3
      <4> QED
        BY <2>5, <2>7, <3>1, <4>1
    <3> QED
      BY <3>1, <3>2, <3>3
  <2>10. CASE x \notin p \cup {e}
    <3>1. g[x] = h[x] /\ x # v /\ h[q].at <= h[x].at
      BY <1>7, <1>8, <2>1, <2>3, <2>10
    <3>2. CASE q \notin p \cup {e}
      BY <1>8, <2>1, <2>7, <3>1, <3>2
    <3>3. CASE q = e
      <4>1. g[q] = h[v]
        BY <1>8, <3>3
      <4>2. CASE e = v
        BY <2>7, <3>1, <3>3, <4>1, <4>2
      <4>3. CASE e # v
        <5>1. PICK i \in p : Parent(i) = e
          BY <1>7, <4>3
        <5>2. h[v].at < h[e].at
          BY <1>7, <1>9, <5>1
        <5> QED
          BY <2>1, <2>2, <2>7, <3>1, <3>3, <4>1, <5>2
      <4> QED
        BY <4>2, <4>3
    <3>4. CASE q \in p
      <4>1. g[q] = h[Parent(q)] /\ q > 1
        BY <1>7, <1>8, <1>9, <2>1, <3>4
      <4>2. h[Parent(q)].at \in Nat /\ h[q].at \in Nat /\ h[x].at \in Nat
        BY <2>1, <2>2, <2>4, <4>1
      <4> QED
        BY <2>5, <2>6, <2>7, <3>1, <4>1, <4>2
    <3> QED
      BY <3>2, <3>3, <3>4
  <2> QED
    BY <2>8, <2>9, <2>10
<1> QED
  BY <1>6, <1>b, <1>8, <1>10 DEF ParentFirst

(* The child that is due first *)
LEMMA MinChildIs ==
  ASSUME NEW h \in Seq(Entries), NEW v, Children(h, v) # {}
  PROVE  /\ MinChild(h, v) \in Children(h, v)
         /\ \A d \in Children(h, v) : h[MinChild(h, v)].at <= h[d].at
<1> DEFINE C == Children(h, v)
           Least(c) == \A d \in C : h[c].at < h[d].at \/ (h[c].at = h[d].at /\ c <= d)
           Ats == {h[c].at : c \in C}
<1>1. C \subseteq 1 .. Len(h) /\ \A c \in C : h[c] \in Entries
  BY DEF Children
<1>2. Ats \subseteq Nat /\ Ats # {}
  BY <1>1 DEF Entries
<1>3. PICK a \in Ats : \A b \in Ats : a <= b
  BY <1>2, LeastNumber
<1> DEFINE F == {c \in C : h[c].at = a}
<1>4. F \subseteq Nat /\ F # {}
  BY <1>1, <1>3
<1>5. PICK c \in F : \A d \in F : c <= d
  BY <1>4, LeastNumber
<1>6. c \in C /\ Least(c)
  <2>1. ASSUME NEW d \in C PROVE h[c].at < h[d].at \/ (h[c].at = h[d].at /\ c <= d)
    <3>1. h[c].at = a /\ a <= h[d].at /\ h[d].at \in Nat /\ a \in Nat
      BY <1>2, <1>3, <1>5
    <3>2. h[d].at = a => c <= d
      BY <1>5
    <3> QED
      BY <3>1, <3>2
  <2> QED
    BY <2>1, <1>5
<1>7. MinChild(h, v) = CHOOSE x \in C : Least(x)
  BY DEF MinChild
<1> DEFINE m == CHOOSE x \in C : Least(x)
<1>8. m \in C /\ Least(m)
  <2> HIDE DEF Least, C
  <2> QED
    BY <1>6, Zenon
<1>9. \A d \in C : h[m].at <= h[d].at
  <2> HIDE DEF m
  <2>1. \A d \in C : h[m].at \in Nat /\ h[d].at \in Nat
    BY <1>1, <1>8 DEF Entries
  <2> QED
    BY <1>8, <2>1
<1> QED
  BY <1>7, <1>8, <1>9

LEMMA Downheap ==
  ASSUME NEW h \in Seq(Entries), NEW v \in 1 .. Len(h), MaySink(h, v), NEW g, g = downheap(h, v)
  PROVE  g \in Seq(Entries) /\ Len(g) = Len(h) /\ ParentFirst(g) /\ (EachOnce(h) => EachOnce(g)) /\ Within(g, h)
<1> DEFINE n == Len(h)
           Goes == {j \in DOMAIN h : Children(h, j) # {} /\ h[MinChild(h, j)].at < h[v].at}
           next == [j \in Goes |-> MinChild(h, j)]
           rank == [j \in 1 .. n |-> n - j]
<1>1. n \in Nat /\ DOMAIN h = 1 .. n /\ \A j \in 1 .. n : h[j].at \in Nat
  BY AtIsNat
<1>2. g = Shift(h, next, v)
  BY DEF downheap
<1>3. DOMAIN next = Goes /\ Goes \subseteq 1 .. n /\ rank \in [1 .. n -> 0 .. n]
  BY <1>1
<1>a. ASSUME NEW j, Children(h, j) # {}
      PROVE  /\ MinChild(h, j) \in 2 .. n /\ Parent(MinChild(h, j)) = j
             /\ \A x \in 2 .. n : Parent(x) = j => h[MinChild(h, j)].at <= h[x].at
  BY <1>a, MinChildIs DEF Children
<1>4. ASSUME NEW j \in Goes
      PROVE  /\ next[j] = MinChild(h, j) /\ MinChild(h, j) \in 1 .. n /\ Parent(MinChild(h, j)) = j
             /\ next[j] \in 1 .. n /\ rank[next[j]] < rank[j]
  <2>1. MinChild(h, j) \in 2 .. n /\ Parent(MinChild(h, j)) = j /\ next[j] = MinChild(h, j) /\ j \in 1 .. n
    BY <1>1, <1>a
  <2>2. j < MinChild(h, j)
    BY <2>1, ParentBefore
  <2>3. rank[next[j]] = n - MinChild(h, j) /\ rank[j] = n - j
    BY <2>1
  <2> QED
    BY <2>1, <2>2, <2>3
<1>5. PICK e \in 1 .. n, p \in SUBSET (1 .. n) : WayIs(next, rank, v, e, p) /\ Shifted(h, g, next, v, e, p)
  <2> HIDE DEF next, rank, Goes
  <2> QED
    BY <1>2, <1>3, <1>4, ShiftMoves
<1>6. EachOnce(h) => EachOnce(g)
  <2> HIDE DEF next, rank, Goes
  <2> QED
    BY <1>3, <1>4, <1>5, ShiftOnce
<1>b. Within(g, h)
  <2> HIDE DEF next, rank, Goes
  <2> QED
    BY <1>3, <1>4, <1>5, ShiftWithin
<1>7. /\ e \notin Goes /\ p \subseteq Goes
      /\ v \in p \cup {e}
      /\ \A x \in p \cup {e} : x >= v
      /\ \A i \in p : MinChild(h, i) \in p \cup {e}
      /\ \A x \in p \cup {e} : x = v \/ \E i \in p : MinChild(h, i) = x
  <2>1. p \subseteq Goes /\ e \notin Goes /\ v \in p \cup {e}
    BY <1>3, <1>5 DEF WayIs
  <2>2. \A i \in p : next[i] = MinChild(h, i)
    BY <1>4, <2>1
  <2>3. \A x \in p \cup {e} : rank[x] = n - x
    OBVIOUS
  <2> HIDE DEF next, rank, Goes
  <2>4. rank[v] = n - v
    BY <2>1, <2>3
  <2>5. /\ \A x \in p \cup {e} : rank[x] <= rank[v]
        /\ \A i \in p : next[i] \in p \cup {e}
        /\ \A x \in p \cup {e} : x = v \/ \E i \in p : next[i] = x
    BY <1>5 DEF WayIs
  <2>6. ASSUME NEW x \in p \cup {e} PROVE x >= v
    <3>1. x \in Nat /\ v \in Nat /\ n - x <= n - v
      BY <2>3, <2>4, <2>5
    <3> QED
      BY <1>1, <3>1
  <2>7. /\ \A i \in p : MinChild(h, i) \in p \cup {e}
        /\ \A x \in p \cup {e} : x = v \/ \E i \in p : MinChild(h, i) = x
    BY <2>2, <2>5
  <2> QED
    BY <2>1, <2>6, <2>7
<1>8. /\ g \in Seq(Entries) /\ Len(g) = n
      /\ g[e] = h[v]
      /\ \A i \in p : g[i] = h[MinChild(h, i)]
      /\ \A j \in 1 .. n : j \notin p \cup {e} => g[j] = h[j]
  BY <1>3, <1>4, <1>5, <1>7 DEF Shifted
<1>9. \A j \in 1 .. n : j \in Goes <=> Children(h, j) # {} /\ h[MinChild(h, j)].at < h[v].at
  BY <1>1
<1> HIDE DEF next, rank, Goes
<1>10. ASSUME NEW x \in 2 .. n PROVE g[Parent(x)].at <= g[x].at
  <2> DEFINE q == Parent(x)
  <2>1. q \in 1 .. n /\ q < x /\ x \in 1 .. n
    BY ParentBefore
  <2>2. \A j \in 1 .. n : h[j].at \in Nat
    BY <1>1
  <2>3. q # v => h[q].at <= h[x].at
    BY DEF MaySink
  <2>4. x \in Children(h, q) /\ Children(h, q) # {}
    BY DEF Children
  <2>5. h[MinChild(h, q)].at <= h[x].at /\ MinChild(h, q) \in 1 .. n /\ Parent(MinChild(h, q)) = q
    BY <1>a, <2>4
  <2> HIDE DEF q
  <2>6. q = Parent(x)
    BY DEF q
  <2>7. CASE x \notin p \cup {e}
    <3>1. g[x] = h[x]
      BY <1>8, <2>1, <2>7
    <3>2. CASE q \in p
      BY <1>8, <2>5, <2>6, <3>1, <3>2
    <3>3. CASE q = e
      <4>1. ~(h[MinChild(h, q)].at < h[v].at)
        BY <1>7, <1>9, <2>1, <2>4, <3>3
      <4> QED
        BY <1>8, <2>2, <2>1, <2>5, <2>6, <3>1, <3>3, <4>1
    <3>4. CASE q \notin p \cup {e}
      BY <1>7, <1>8, <2>1, <2>3, <2>6, <3>1, <3>4
    <3> QED
      BY <3>2, <3>3, <3>4
  <2>8. CASE x = v
    <3>1. g[q] = h[q] /\ q # v
      BY <1>7, <1>8, <2>1, <2>8
    <3>2. h[q].at <= h[v].at
      BY <2>3, <2>8, <3>1
    <3>3. CASE v = e
      BY <1>8, <2>6, <2>8, <3>1, <3>2, <3>3
    <3>4. CASE v \in p
      <4>1. g[x] = h[MinChild(h, v)] /\ Children(h, v) # {}
        BY <1>7, <1>8, <1>9, <2>8, <3>4
      <4>2. MinChild(h, v) \in 2 .. n /\ Parent(MinChild(h, v)) = v
        BY <1>a, <4>1
      <4>3. h[Parent(v)].at <= h[MinChild(h, v)].at
        BY <4>2, <2>8 DEF MaySink
      <4> QED
        BY <2>6, <2>8, <3>1, <4>1, <4>3
    <3> QED
      BY <1>7, <3>3, <3>4
  <2>9. CASE x \in p \cup {e} /\ x # v
    <3>1. PICK i \in p : MinChild(h, i) = x
      BY <1>7, <2>9
    <3>2. i \in Goes /\ i \in 1 .. n /\ Children(h, i) # {} /\ h[x].at < h[v].at
      BY <1>7, <1>9, <3>1
    <3>3. Parent(x) = i
      BY <1>a, <3>1, <3>2
    <3>4. g[q] = h[x]
      BY <1>8, <2>6, <3>1, <3>3
    <3>5. CASE x = e
      BY <1>8, <2>1, <2>2, <2>6, <3>2, <3>4, <3>5
    <3>6. CASE x \in p
      <4>1. g[x] = h[MinChild(h, x)] /\ Children(h, x) # {}
        BY <1>7, <1>8, <1>9, <2>1, <3>6
      <4>2. MinChild(h, x) \in 2 .. n /\ Parent(MinChild(h, x)) = x
        BY <1>a, <4>1
      <4>3. h[x].at <= h[MinChild(h, x)].at
        BY <2>9, <4>2 DEF MaySink
      <4> QED
        BY <2>6, <3>4, <4>1, <4>3
    <3> QED
      BY <2>9, <3>5, <3>6
  <2> QED
    BY <2>7, <2>8, <2>9
<1> QED
  BY <1>6, <1>b, <1>8, <1>10 DEF ParentFirst

LEMMA RootFirst ==
  ASSUME NEW h \in Seq(Entries), ParentFirst(h)
  PROVE  \A v \in 1 .. Len(h) : h[1].at <= h[v].at
<1> DEFINE J == {m \in Nat : \A v \in 1 .. Len(h) : v <= m => h[1].at <= h[v].at}
<1>1. \A v \in 1 .. Len(h) : h[v].at \in Nat
  BY AtIsNat
<1>2. 0 \in J
  OBVIOUS
<1>3. ASSUME NEW m \in Nat, m \in J PROVE m + 1 \in J
  <2> SUFFICES ASSUME m + 1 \in 1 .. Len(h) PROVE h[1].at <= h[m + 1].at
    BY <1>3
  <2>1. CASE m = 0
    BY <1>1, <2>1
  <2>2. CASE m > 0
    <3> DEFINE q == Parent(m + 1)
    <3>1. m + 1 \in 2 .. Len(h) /\ q \in 1 .. m
      BY <2>2, ParentBefore
    <3>2. h[q].at <= h[m + 1].at
      BY <3>1 DEF ParentFirst
    <3> HIDE DEF q
    <3>3. q \in 1 .. Len(h) /\ q <= m
      BY <3>1
    <3>4. h[1].at <= h[q].at
      BY <1>3, <3>3
    <3>5. h[1].at \in Nat /\ h[q].at \in Nat /\ h[m + 1].at \in Nat
      BY <1>1, <3>1, <3>3
    <3> QED
      BY <3>2, <3>4, <3>5
  <2> QED
    BY <2>1, <2>2
<1> HIDE DEF J
<1>4. Nat \subseteq J
  BY <1>2, <1>3, NatSetInduction
<1> QED
  BY <1>4 DEF J

(* ev_timer_start: the new entry goes up from the end. *)
LEMMA Inserts ==
  ASSUME NEW h \in Seq(Entries), ParentFirst(h), EachOnce(h), NEW e \in Entries, ~HasTimer(h, e.w),
         NEW g, g = HeapInsert(h, e)
  PROVE  g \in Seq(Entries) /\ ParentFirst(g) /\ EachOnce(g)
<1> DEFINE a == Append(h, e)
           n == Len(h) + 1
<1>1. a \in Seq(Entries) /\ Len(a) = n /\ n \in 1 .. Len(a) /\ Len(h) \in Nat
  OBVIOUS
<1>2. a[n] = e /\ \A j \in 1 .. Len(h) : a[j] = h[j]
  OBVIOUS
<1>3. EachOnce(a)
  <2>1. \A j \in 1 .. Len(h) : h[j].w # e.w
    BY DEF HasTimer
  <2>2. DOMAIN a = 1 .. n /\ DOMAIN h = 1 .. Len(h)
    BY <1>1
  <2> HIDE DEF a
  <2>3. ASSUME NEW i \in 1 .. n, NEW j \in 1 .. n, a[i].w = a[j].w PROVE i = j
    <3>1. CASE i \in 1 .. Len(h) /\ j \in 1 .. Len(h)
      BY <1>2, <2>2, <2>3, <3>1 DEF EachOnce
    <3>2. CASE i = n \/ j = n
      BY <1>1, <1>2, <2>1, <2>3, <3>2
    <3> QED
      BY <1>1, <3>1, <3>2
  <2> QED
    BY <2>2, <2>3 DEF EachOnce
<1>4. MayRise(a, n)
  <2>1. ASSUME NEW j \in 2 .. n, j # n PROVE a[Parent(j)].at <= a[j].at
    <3>1. j \in 2 .. Len(h) /\ Parent(j) \in 1 .. Len(h)
      BY <1>1, <2>1, ParentBefore
    <3> QED
      BY <1>2, <3>1 DEF ParentFirst
  <2>2. \A c \in 2 .. n : Parent(c) # n
    BY <1>1, ParentBefore
  <2> HIDE DEF a
  <2> QED
    BY <1>1, <2>1, <2>2 DEF MayRise
<1>5. g = upheap(a, n)
  BY DEF HeapInsert
<1> HIDE DEF a, n
<1> QED
  BY <1>1, <1>3, <1>4, <1>5, Upheap

(* Entry v, that replaced one in order, finds its place. *)
LEMMA Adjusts ==
  ASSUME NEW h \in Seq(Entries), NEW v \in 1 .. Len(h),
         \A j \in 2 .. Len(h) : j # v /\ Parent(j) # v => h[Parent(j)].at <= h[j].at,
         \A c \in 2 .. Len(h) : Parent(c) = v /\ v > 1 => h[Parent(v)].at <= h[c].at,
         NEW g, g = adjustheap(h, v)
  PROVE  g \in Seq(Entries) /\ Len(g) = Len(h) /\ ParentFirst(g) /\ (EachOnce(h) => EachOnce(g)) /\ Within(g, h)
<1>1. \A j \in 1 .. Len(h) : h[j].at \in Nat
  BY AtIsNat
<1>2. CASE v > 1 /\ h[v].at <= h[Parent(v)].at
  <2>1. Parent(v) \in 1 .. Len(h)
    BY <1>2, ParentBefore
  <2>2. ASSUME NEW j \in 2 .. Len(h), j # v PROVE h[Parent(j)].at <= h[j].at
    <3>1. CASE Parent(j) = v
      BY <1>1, <1>2, <2>1, <3>1
    <3> QED
      BY <2>2, <3>1
  <2>3. MayRise(h, v)
    BY <2>2 DEF MayRise
  <2>4. g = upheap(h, v)
    BY <1>2 DEF adjustheap
  <2> QED
    BY <2>3, <2>4, Upheap
<1>3. CASE ~(v > 1 /\ h[v].at <= h[Parent(v)].at)
  <2>1. ASSUME NEW j \in 2 .. Len(h), Parent(j) # v PROVE h[Parent(j)].at <= h[j].at
    <3>1. CASE j = v
      <4>1. Parent(v) \in 1 .. Len(h)
        BY <3>1, ParentBefore
      <4> QED
        BY <1>1, <1>3, <3>1, <4>1
    <3> QED
      BY <2>1, <3>1
  <2>2. MaySink(h, v)
    BY <2>1 DEF MaySink
  <2>3. g = downheap(h, v)
    BY <1>3 DEF adjustheap
  <2> QED
    BY <2>2, <2>3, Downheap
<1> QED
  BY <1>2, <1>3

LEMMA Replaced ==
  ASSUME NEW T, NEW s \in Seq(T), NEW v \in 1 .. Len(s), NEW x \in T, NEW r, r = [s EXCEPT ![v] = x]
  PROVE  r \in Seq(T) /\ Len(r) = Len(s) /\ r[v] = x /\ \A j \in 1 .. Len(s) : j # v => r[j] = s[j]
OBVIOUS

(* What is left of heap h without its entry v *)
Left(g, h, v) ==
  /\ g \in Seq(Entries) /\ ParentFirst(g) /\ EachOnce(g)
  /\ \A j \in 1 .. Len(g) : \E i \in 1 .. Len(h) : i # v /\ g[j] = h[i]

LEMMA Removes ==
  ASSUME NEW h \in Seq(Entries), ParentFirst(h), EachOnce(h), NEW v \in 1 .. Len(h),
         NEW g, g = HeapRemove(h, v)
  PROVE  Left(g, h, v)
<1>n. PICK n \in Nat : n = Len(h)
  BY LenProperties
<1> DEFINE rest == SubSeq(h, 1, n - 1)
           r == [rest EXCEPT ![v] = h[n]]
<1>1. n \in Nat /\ n > 0 /\ DOMAIN h = 1 .. n /\ v \in 1 .. n /\ n = Len(h)
  BY <1>n
<1>v. v \in Nat /\ 1 <= v /\ v <= n
  BY <1>1
<1>2. rest \in Seq(Entries) /\ Len(rest) = n - 1 /\ \A j \in 1 .. n - 1 : rest[j] = h[j]
  BY <1>1
<1>0. h[n] \in Entries
  BY <1>1, ElementOfSeq
<1> HIDE DEF rest
<1>3. ASSUME NEW j \in 2 .. n - 1
      PROVE  Parent(j) \in 1 .. n - 1 /\ rest[j] = h[j] /\ rest[Parent(j)] = h[Parent(j)] /\ h[Parent(j)].at <= h[j].at
  <2>1. Parent(j) \in 1 .. n - 1
    BY <1>1, ParentBefore
  <2> QED
    BY <1>1, <1>2, <2>1 DEF ParentFirst
<1>4. CASE v = n
  <2>1. g = rest
    BY <1>1, <1>4 DEF HeapRemove, rest
  <2>2. ParentFirst(rest)
    BY <1>1, <1>2, <1>3 DEF ParentFirst
  <2>3. \A j \in 1 .. n - 1 : j # v /\ j \in 1 .. n /\ rest[j] = h[j]
    <3>1. \A j \in 1 .. n - 1 : j # v /\ j \in 1 .. n
      BY <1>v, <1>4
    <3> QED
      BY <1>2, <3>1
  <2>4. DOMAIN rest = 1 .. n - 1
    BY <1>1, <1>2
  <2>5. EachOnce(rest)
    BY <1>1, <2>3, <2>4 DEF EachOnce
  <2> QED
    BY <1>2, <2>1, <2>2, <2>3, <2>5 DEF Left
<1>5. CASE v # n
  <2>1. g = adjustheap(r, v)
    BY <1>1, <1>5 DEF HeapRemove, rest
  <2>2. v \in 1 .. n - 1
    BY <1>v, <1>5
  <2>3. v \in 1 .. Len(rest) /\ rest \in Seq(Entries) /\ r = [rest EXCEPT ![v] = h[n]]
    BY <1>2, <2>2
  <2> HIDE DEF r
  <2>10. /\ r \in Seq(Entries) /\ Len(r) = Len(rest) /\ r[v] = h[n]
         /\ \A j \in 1 .. Len(rest) : j # v => r[j] = rest[j]
    BY <1>0, <2>3, Replaced
  <2>4. r \in Seq(Entries) /\ Len(r) = n - 1 /\ r[v] = h[n] /\ \A j \in 1 .. n - 1 : j # v => r[j] = h[j]
    BY <1>2, <2>10
  <2>5. ASSUME NEW j \in 2 .. n - 1, j # v, Parent(j) # v PROVE r[Parent(j)].at <= r[j].at
    <3>1. j \in 1 .. n - 1
      BY <1>1
    <3>2. r[Parent(j)] = h[Parent(j)] /\ r[j] = h[j]
      BY <1>3, <2>4, <2>5, <3>1
    <3> QED
      BY <1>3, <3>2
  <2>6. ASSUME NEW c \in 2 .. n - 1, Parent(c) = v, v > 1 PROVE r[Parent(v)].at <= r[c].at
    <3>1. Parent(v) \in 1 .. v - 1 /\ c # v /\ v < c
      BY <2>2, <2>6, ParentBefore
    <3>2. r[Parent(v)] = h[Parent(v)] /\ r[c] = h[c] /\ Parent(v) \in 1 .. n - 1
      <4>1. Parent(v) \in 1 .. n - 1 /\ Parent(v) # v /\ c \in 1 .. n - 1
        BY <1>v, <2>2, <3>1
      <4> QED
        BY <2>4, <3>1, <4>1
    <3>3. h[Parent(v)].at <= h[v].at /\ h[v].at <= h[c].at
      BY <1>1, <1>3, <2>2, <2>6
    <3>4. h[Parent(v)].at \in Nat /\ h[v].at \in Nat /\ h[c].at \in Nat
      BY <1>1, <2>2, <3>2, AtIsNat
    <3> QED
      BY <3>2, <3>3, <3>4
  <2>7. EachOnce(r)
    <3>1. DOMAIN r = 1 .. n - 1
      BY <1>1, <2>4
    <3>2. ASSUME NEW i \in 1 .. n - 1, NEW j \in 1 .. n - 1, r[i].w = r[j].w PROVE i = j
      <4> DEFINE From(x) == IF x = v THEN n ELSE x
      <4>1. r[i] = h[From(i)] /\ r[j] = h[From(j)] /\ From(i) \in 1 .. n /\ From(j) \in 1 .. n
        BY <1>1, <2>4
      <4>2. From(i) = From(j)
        <5> HIDE DEF From
        <5> QED
          BY <1>1, <3>2, <4>1 DEF EachOnce
      <4> QED
        BY <1>1, <4>2
    <3> QED
      BY <3>1, <3>2 DEF EachOnce
  <2>8. /\ g \in Seq(Entries) /\ Len(g) = n - 1 /\ ParentFirst(g) /\ EachOnce(g) /\ Within(g, r)
    BY <2>1, <2>2, <2>4, <2>5, <2>6, <2>7, Adjusts
  <2>9. ASSUME NEW j \in 1 .. Len(g) PROVE \E i \in 1 .. n : i # v /\ g[j] = h[i]
    <3>1. PICK i \in 1 .. n - 1 : g[j] = r[i]
      BY <2>4, <2>8 DEF Within
    <3>2. CASE i = v
      <4>1. g[j] = h[n] /\ n \in 1 .. n /\ n # v
        BY <1>v, <1>5, <2>4, <3>1, <3>2
      <4> QED
        BY <4>1
    <3>3. CASE i # v
      BY <1>1, <2>4, <3>1, <3>3
    <3> QED
      BY <3>2, <3>3
  <2>11. \A j \in 1 .. Len(g) : \E i \in 1 .. Len(h) : i # v /\ g[j] = h[i]
    BY <1>1, <2>9
  <2> QED
    BY <2>8, <2>11 DEF Left
<1> QED
  BY <1>4, <1>5

RootDue(h, at) == [h EXCEPT ![1].at = at]
SameButRoot(g, h, at) ==
  \A j \in 1 .. Len(g) : \/ g[j] = [w |-> h[1].w, at |-> at]
                         \/ \E i \in 2 .. Len(h) : g[j] = h[i]

(* timers_reify: the root, due again at another time, sinks to its place. *)
LEMMA Reschedules ==
  ASSUME NEW h \in Seq(Entries), ParentFirst(h), EachOnce(h), h # << >>, NEW at \in Nat,
         NEW r, r = RootDue(h, at), NEW g, g = downheap(r, 1)
  PROVE  /\ g \in Seq(Entries) /\ ParentFirst(g) /\ EachOnce(g) /\ SameButRoot(g, h, at)
<1> DEFINE n == Len(h)
<1>1. n \in Nat /\ n > 0 /\ DOMAIN h = 1 .. n /\ h[1] \in Entries /\ 1 \in 1 .. n
  OBVIOUS
<1>2. [h[1] EXCEPT !.at = at] = [w |-> h[1].w, at |-> at] /\ [w |-> h[1].w, at |-> at] \in Entries
  BY <1>1 DEF Entries
<1>3. r = [h EXCEPT ![1] = [w |-> h[1].w, at |-> at]]
  BY <1>2 DEF RootDue
<1>4. r \in Seq(Entries) /\ Len(r) = n /\ DOMAIN r = 1 .. n
  BY <1>1, <1>2, <1>3
<1>5. r[1] = [w |-> h[1].w, at |-> at] /\ \A j \in 2 .. n : r[j] = h[j]
  BY <1>1, <1>3
<1>7. MaySink(r, 1)
  <2>1. ASSUME NEW j \in 2 .. n, Parent(j) # 1 PROVE r[Parent(j)].at <= r[j].at
    <3>1. Parent(j) \in 2 .. n
      BY <1>1, <2>1, ParentBefore
    <3> QED
      BY <1>1, <1>5, <3>1 DEF ParentFirst
  <2> QED
    BY <1>4, <2>1 DEF MaySink
<1>8. EachOnce(r)
  <2>1. \A j \in 1 .. n : r[j].w = h[j].w
    BY <1>1, <1>5
  <2> QED
    BY <1>1, <1>4, <2>1 DEF EachOnce
<1>9. g \in Seq(Entries) /\ Len(g) = n /\ ParentFirst(g) /\ EachOnce(g) /\ Within(g, r)
  BY <1>1, <1>4, <1>7, <1>8, Downheap
<1>10. ASSUME NEW j \in 1 .. Len(g)
       PROVE  g[j] = [w |-> h[1].w, at |-> at] \/ \E i \in 2 .. n : g[j] = h[i]
  <2>1. PICK i \in 1 .. n : g[j] = r[i]
    BY <1>4, <1>9 DEF Within
  <2>2. CASE i = 1
    BY <1>5, <2>1, <2>2
  <2>3. CASE i # 1
    <3>1. i \in 2 .. n
      BY <1>1, <2>3
    <3> QED
      BY <1>5, <2>1, <3>1
  <2> QED
    BY <2>2, <2>3
<1> QED
  BY <1>9, <1>10 DEF SameButRoot

(* Without leaves what it keeps in order. *)
InOrderOf(g, s) ==
  \A i, j \in 1 .. Len(g) : i <= j => \E a, b \in 1 .. Len(s) : a <= b /\ g[i] = s[a] /\ g[j] = s[b]

LEMMA WithoutKeepsOrder ==
  ASSUME NEW T, NEW seq \in Seq(T), NEW t, NEW q, q = Without(seq, t)
  PROVE  q \in Seq(T) /\ InOrderOf(q, seq)
<1> DEFINE op(kept, w) == IF w = t THEN kept ELSE Append(kept, w)
           S == Seq(T)
           G == [x \in S \X T |-> op(x[1], x[2])]
           Def(f) == [s \in SUBSET DOMAIN seq |->
                        IF s = {} THEN << >> ELSE LET i == Max(s) IN op(f[s \ {i}], seq[i])]
           it == CHOOSE f : f = Def(f)
<1>1. << >> \in S
  OBVIOUS
<1>2. G \in [S \X T -> S]
  OBVIOUS
<1> HIDE DEF S
<1>3. PICK g : IsFold(S, T, G, << >>, seq, g)
  <2> HIDE DEF G
  <2> QED
    BY <1>1, <1>2, FoldExists
<1>4. g = Def(g)
  BY <1>3 DEF IsFold
<1>5. it = Def(it)
  <2> HIDE DEF Def
  <2> QED
    BY <1>4
<1> HIDE DEF it
<1>6. Follows(S, T, G, << >>, seq, it)
  BY <1>5 DEF Follows
<1>7. \A s \in S, u \in T : G[<<s, u>>] = IF u = t THEN s ELSE Append(s, u)
  OBVIOUS
<1> HIDE DEF G, Def
<1>8. PICK r : Runs(S, G, << >>, seq, r, it[DOMAIN seq])
  BY <1>1, <1>2, <1>6, FoldRuns
<1>9. q = it[DOMAIN seq]
  BY DEF Without, FoldLeft, MapThenFoldSet, it, Def, op
<1> DEFINE J == {n \in 0 .. Len(seq) :
                   \A i, j \in 1 .. Len(r[n]) :
                     i <= j => \E a, b \in 1 .. n : a <= b /\ r[n][i] = seq[a] /\ r[n][j] = seq[b]}
<1>10. Len(seq) \in Nat
  BY LenProperties
<1>11. 0 \in J
  <2>1. r[0] = << >>
    BY <1>8 DEF Runs
  <2>2. \A i \in 1 .. Len(r[0]) : FALSE
    BY <2>1
  <2> QED
    BY <1>10, <2>2
<1>12. ASSUME NEW n \in 1 .. Len(seq), n - 1 \in J PROVE n \in J
  <2>1. r[n - 1] \in Seq(T) /\ r[n] = G[<<r[n - 1], seq[n]>>] /\ seq[n] \in T /\ n \in 0 .. Len(seq)
    <3>1. n - 1 \in 0 .. Len(seq) /\ n \in 0 .. Len(seq) /\ seq[n] \in T
      BY <1>10, ElementOfSeq
    <3>2. r[n - 1] \in S /\ r[n] = G[<<r[n - 1], seq[n]>>]
      BY <1>8, <3>1 DEF Runs
    <3> QED
      BY <3>1, <3>2 DEF S
  <2>2. r[n] = IF seq[n] = t THEN r[n - 1] ELSE Append(r[n - 1], seq[n])
    BY <1>7, <2>1 DEF S
  <2> DEFINE m == r[n - 1]
  <2>3. \A i, j \in 1 .. Len(m) : i <= j => \E a, b \in 1 .. n - 1 : a <= b /\ m[i] = seq[a] /\ m[j] = seq[b]
    BY <1>12
  <2> HIDE DEF m
  <2>4. ASSUME NEW i \in 1 .. Len(r[n]), NEW j \in 1 .. Len(r[n]), i <= j
        PROVE  \E a, b \in 1 .. n : a <= b /\ r[n][i] = seq[a] /\ r[n][j] = seq[b]
    <3>1. CASE seq[n] = t
      <4>1. r[n] = m
        BY <2>2, <3>1 DEF m
      <4>2. PICK a \in 1 .. n - 1, b \in 1 .. n - 1 : a <= b /\ m[i] = seq[a] /\ m[j] = seq[b]
        BY <2>3, <2>4, <4>1
      <4> QED
        BY <4>1, <4>2
    <3>2. CASE seq[n] # t
      <4>1. r[n] = Append(m, seq[n]) /\ m \in Seq(T)
        BY <2>1, <2>2, <3>2 DEF m
      <4>2. Len(r[n]) = Len(m) + 1 /\ r[n][Len(m) + 1] = seq[n] /\ \A x \in 1 .. Len(m) : r[n][x] = m[x]
        BY <2>1, <4>1
      <4>3. Len(m) \in Nat
        BY <4>1
      <4>4. CASE j \in 1 .. Len(m)
        <5>1. i \in 1 .. Len(m)
          BY <2>4, <4>3, <4>4
        <5>2. PICK a \in 1 .. n - 1, b \in 1 .. n - 1 : a <= b /\ m[i] = seq[a] /\ m[j] = seq[b]
          BY <2>3, <2>4, <4>4, <5>1
        <5> QED
          BY <4>2, <4>4, <5>1, <5>2
      <4>5. CASE j = Len(m) + 1 /\ i \in 1 .. Len(m)
        <5>1. PICK a \in 1 .. n - 1 : m[i] = seq[a]
          BY <2>3, <4>3, <4>5
        <5>2. a \in 1 .. n /\ n \in 1 .. n /\ a <= n
          OBVIOUS
        <5> QED
          BY <4>2, <4>5, <5>1, <5>2
      <4>6. CASE j = Len(m) + 1 /\ i = Len(m) + 1
        <5>1. n \in 1 .. n /\ n <= n
          OBVIOUS
        <5> QED
          BY <4>2, <4>6, <5>1
      <4> QED
        BY <4>2, <4>3, <4>4, <4>5, <4>6
    <3> QED
      BY <3>1, <3>2
  <2> QED
    BY <2>1, <2>4
<1> HIDE DEF J
<1>13. Len(seq) \in J
  <2>1. \A n \in 0 .. Len(seq) : n \in J
    BY <1>10, <1>11, <1>12, Upto
  <2> QED
    BY <1>10, <2>1
<1>14. q = r[Len(seq)] /\ q \in Seq(T)
  BY <1>8, <1>9, <1>10 DEF Runs, S
<1>15. InOrderOf(r[Len(seq)], seq)
  BY <1>13 DEF InOrderOf, J
<1> QED
  <2> HIDE DEF InOrderOf
  <2> QED
    BY <1>14, <1>15

-----------------------------------------------------------------------------
(* Timers: the invariant *)

TimerTypes ==
  /\ tm \in [Timers -> [at : Nat, repeat : Nat]] /\ due \in [Timers -> Nat]
  /\ mn_now \in Nat /\ clock \in Nat
  /\ rfeeds \in Seq(Timers) /\ pendings \in Seq(Timers \cup {Async})
  /\ "used" \in DOMAIN budget /\ budget.used \subseteq Timers

IsHeap(h) == h \in Seq(Entries) /\ ParentFirst(h) /\ EachOnce(h)

(* Callbacks run, and watchers wait for theirs, only while the loop invokes; *)
(* timers wait to be fed only while they expire.                             *)
Phases ==
  /\ running # Nobody => loop = "invoke"
  /\ loop \in {"decide", "poll", "unwant", "look", "expire"} => pendings = << >>
  /\ loop # "expire" => rfeeds = << >>

(* The expired timers were due in order and before all that remain; one that *)
(* repeats is not due again before now.                                      *)
ExpiredInOrder(h, fed, d) ==
  /\ \A i, j \in 1 .. Len(fed) : i <= j => d[fed[i]] <= d[fed[j]]
  /\ \A i \in 1 .. Len(fed), v \in 1 .. Len(h) :
       d[fed[i]] <= h[v].at /\ (h[v].w = fed[i] => mn_now <= h[v].at)

(* The newest pending timer was due first. *)
PendingInOrder(p, d) ==
  \A i, j \in 1 .. Len(p) : i <= j /\ p[i] # Async /\ p[j] # Async => d[p[j]] <= d[p[i]]

TimerInv ==
  /\ TimerTypes /\ Phases /\ IsHeap(heap)
  /\ ExpiredInOrder(heap, rfeeds, due) /\ PendingInOrder(pendings, due)
  /\ NeverOversleeps

LEMMA TimerInit == Init => TimerInv
<1> SUFFICES ASSUME Init PROVE TimerInv
  OBVIOUS
<1>1. PICK s \in Scenarios :
        /\ heap = s.heap
        /\ tm = [t \in Timers |->
                   [at |-> IF HasTimer(s.heap, t) THEN s.heap[At(s.heap, t)].at ELSE 0,
                    repeat |-> IF t \in s.repeats THEN 1 ELSE 0]]
        /\ rfeeds = << >>
        /\ budget = [sends |-> s.sends, ops |-> s.ops, ticks |-> s.ticks, used |-> s.used]
  BY DEF Init
<1>2. IsHeap(s.heap) /\ s.used \subseteq Timers
  BY ScenariosAssumption DEF IsHeap
<1>3. ASSUME NEW t \in Timers, HasTimer(s.heap, t) PROVE s.heap[At(s.heap, t)].at \in Nat
  <2>1. At(s.heap, t) \in DOMAIN s.heap
    BY <1>3 DEF HasTimer, At
  <2>2. At(s.heap, t) \in 1 .. Len(s.heap)
    BY <1>2, <2>1, LenProperties DEF IsHeap
  <2> QED
    BY <1>2, <2>2, AtIsNat DEF IsHeap
<1>4. tm \in [Timers -> [at : Nat, repeat : Nat]]
  BY <1>1, <1>3
<1>5. pendings = << >> /\ running = Nobody /\ loop = "invoke" /\ due = [t \in Timers |-> 0] /\ mn_now = 0 /\ clock = 0
  BY DEF Init
<1>6. "used" \in DOMAIN budget /\ budget.used \subseteq Timers
  BY <1>1, <1>2
<1>7. TimerTypes
  BY <1>1, <1>4, <1>5, <1>6 DEF TimerTypes
<1>8. Phases /\ NeverOversleeps
  BY <1>1, <1>5 DEF Phases, NeverOversleeps
<1>9. ExpiredInOrder(heap, rfeeds, due) /\ PendingInOrder(pendings, due)
  BY <1>1, <1>5 DEF ExpiredInOrder, PendingInOrder
<1> QED
  BY <1>1, <1>2, <1>7, <1>8, <1>9 DEF TimerInv

BudgetLeaves == "used" \in DOMAIN budget' /\ budget'.used = budget.used

LEMMA Spend ==
  ASSUME TimerTypes,
         \/ UNCHANGED budget
         \/ budget' = [budget EXCEPT !.sends = @ - 1]
         \/ budget' = [budget EXCEPT !.ops = @ - 1]
         \/ budget' = [budget EXCEPT !.ticks = @ - 1]
  PROVE  BudgetLeaves
  BY DEF TimerTypes, BudgetLeaves

(* Steps that leave the timers alone *)
LEMMA Quiet ==
  ASSUME TimerInv, UNCHANGED <<heap, tm, due, rfeeds, pendings, mn_now>>, clock' \in Nat, BudgetLeaves,
         Phases', NeverOversleeps'
  PROVE  TimerInv'
<1>1. TimerTypes'
  BY DEF TimerInv, TimerTypes, BudgetLeaves
<1>2. ExpiredInOrder(heap, rfeeds, due)'
  <2>1. ExpiredInOrder(heap, rfeeds, due)
    BY DEF TimerInv
  <2> QED
    BY <2>1 DEF ExpiredInOrder
<1> QED
  BY <1>1, <1>2 DEF TimerInv, IsHeap, PendingInOrder, ParentFirst, EachOnce

(* Steps of the loop that read the clock *)
LEMMA UpdateKeeps ==
  ASSUME TimerInv, UNCHANGED <<heap, tm, due, rfeeds, pendings, clock, budget, running>>, mn_now' = clock, rfeeds = << >>,
         Phases', loop' # "poll"
  PROVE  TimerInv'
<1>1. TimerTypes'
  BY DEF TimerInv, TimerTypes
<1>2. ExpiredInOrder(heap, rfeeds, due)'
  BY DEF ExpiredInOrder
<1>3. NeverOversleeps'
  BY DEF NeverOversleeps
<1> QED
  BY <1>1, <1>2, <1>3 DEF TimerInv, IsHeap, PendingInOrder, ParentFirst, EachOnce

(* A pass with what is pending changed in the order it has *)
LEMMA Passing ==
  ASSUME TimerInv, UNCHANGED <<heap, tm, due, rfeeds, mn_now, clock, budget>>, loop' = "invoke", rfeeds = << >>,
         pendings' \in Seq(Timers \cup {Async}), PendingInOrder(pendings', due)
  PROVE  TimerInv'
<1>1. TimerTypes'
  BY DEF TimerInv, TimerTypes
<1>2. ExpiredInOrder(heap, rfeeds, due)'
  <2>1. ExpiredInOrder(heap, rfeeds, due)
    BY DEF TimerInv
  <2> QED
    BY <2>1 DEF ExpiredInOrder
<1>3. Phases' /\ NeverOversleeps'
  BY DEF Phases, NeverOversleeps
<1>4. PendingInOrder(pendings, due)'
  BY DEF PendingInOrder
<1> QED
  BY <1>1, <1>2, <1>3, <1>4 DEF TimerInv, IsHeap, ParentFirst, EachOnce

(* ev_run decides how long to poll: not beyond the root of the heap. *)
LEMMA DecideKeeps == ASSUME TimerInv, Decide PROVE TimerInv'
<1>1. /\ UNCHANGED <<heap, tm, due, rfeeds, pendings, mn_now, clock, budget, running>>
      /\ loop = "decide" /\ loop' = "poll" /\ waittime' = Waittime(pipe_write_skipped)
  BY DEF Decide, LoopGoto, LoopLeaves, timerVars, wakeVars
<1>2. \A v \in 1 .. Len(heap) : heap[1].at <= heap[v].at /\ heap[1].at \in Nat /\ heap[v].at \in Nat
  <2>1. heap \in Seq(Entries) /\ ParentFirst(heap)
    BY DEF TimerInv, IsHeap
  <2>2. \A v \in 1 .. Len(heap) : heap[v].at \in Nat
    BY <2>1, AtIsNat
  <2>3. \A v \in 1 .. Len(heap) : 1 \in 1 .. Len(heap)
    BY <2>1
  <2> QED
    BY <2>1, <2>2, <2>3, RootFirst
<1>3. mn_now \in Nat /\ DOMAIN heap = 1 .. Len(heap)
  BY DEF TimerInv, TimerTypes, IsHeap
<1>4. \A v \in DOMAIN heap : Waittime(pipe_write_skipped) <= LaterOf(heap[v].at - mn_now, 1)
  <2> SUFFICES ASSUME NEW v \in 1 .. Len(heap)
               PROVE  Waittime(pipe_write_skipped) <= LaterOf(heap[v].at - mn_now, 1)
    BY <1>3
  <2>1. heap # << >>
    BY <1>3
  <2>2. UntilFirst = LaterOf(SoonerOf(MAX_BLOCKTIME, heap[1].at - mn_now), 1)
    BY <2>1 DEF UntilFirst
  <2>3. PICK first : first = heap[1].at - mn_now
    OBVIOUS
  <2>4. PICK other : other = heap[v].at - mn_now
    OBVIOUS
  <2>5. first \in Int /\ other \in Int /\ first <= other
    <3>1. PICK m \in Nat : m = heap[1].at
      BY <1>2
    <3>2. PICK n \in Nat : n = heap[v].at
      BY <1>2
    <3>3. m <= n
      BY <1>2, <3>1, <3>2
    <3>4. first = m - mn_now /\ other = n - mn_now
      BY <2>3, <2>4, <3>1, <3>2
    <3> QED
      BY <1>3, <3>3, <3>4
  <2>6. LaterOf(SoonerOf(MAX_BLOCKTIME, first), 1) <= LaterOf(other, 1) /\ 0 <= LaterOf(other, 1)
    BY <2>5 DEF LaterOf, SoonerOf, MAX_BLOCKTIME
  <2>7. UntilFirst <= LaterOf(heap[v].at - mn_now, 1) /\ 0 <= LaterOf(heap[v].at - mn_now, 1)
    BY <2>2, <2>3, <2>4, <2>6
  <2>8. Waittime(pipe_write_skipped) \in {0, UntilFirst}
    BY DEF Waittime
  <2> QED
    BY <2>7, <2>8
<1>5. NeverOversleeps'
  BY <1>1, <1>4 DEF NeverOversleeps
<1>6. Phases' /\ BudgetLeaves /\ clock' \in Nat
  BY <1>1 DEF TimerInv, TimerTypes, Phases, BudgetLeaves
<1> QED
  BY <1>1, <1>5, <1>6, Quiet

(* timers_reify: the root expires; what remains is due later, and so is the  *)
(* root itself if it repeats.                                                *)
Remains(g, h) ==
  \A j \in 1 .. Len(g) : \/ g[j].w = h[1].w /\ mn_now <= g[j].at
                         \/ \E i \in 2 .. Len(h) : g[j] = h[i]

LEMMA RootLeaves ==
  ASSUME TimerInv, Expire
  PROVE  IsHeap(heap') /\ Remains(heap', heap) /\ tm' \in [Timers -> [at : Nat, repeat : Nat]]
<1> DEFINE t == heap[1].w
           next == LaterOf(tm[t].at + tm[t].repeat, mn_now)
<1>1. /\ heap # << >>
      /\ IF tm[t].repeat > 0
         THEN tm' = [tm EXCEPT ![t].at = next] /\ heap' = downheap([heap EXCEPT ![1].at = next], 1)
         ELSE heap' = HeapRemove(heap, 1) /\ UNCHANGED tm
  BY DEF Expire
<1>2. heap \in Seq(Entries) /\ ParentFirst(heap) /\ EachOnce(heap)
  BY DEF TimerInv, IsHeap
<1>3. 1 \in 1 .. Len(heap) /\ heap[1] \in Entries
  BY <1>1, <1>2
<1>4. t \in Timers
  BY <1>3 DEF Entries
<1>5. tm \in [Timers -> [at : Nat, repeat : Nat]] /\ mn_now \in Nat
  BY DEF TimerInv, TimerTypes
<1>6. next \in Nat /\ mn_now <= next
  <2>1. tm[t].at \in Nat /\ tm[t].repeat \in Nat
    BY <1>4, <1>5
  <2> HIDE DEF t
  <2> QED
    BY <1>5, <2>1 DEF LaterOf
<1> HIDE DEF t, next
<1>7. CASE tm[t].repeat > 0
  <2>1. heap' = downheap([heap EXCEPT ![1].at = next], 1) /\ tm' = [tm EXCEPT ![t].at = next]
    BY <1>1, <1>7
  <2>2. /\ IsHeap(heap')
        /\ \A j \in 1 .. Len(heap') : \/ heap'[j] = [w |-> heap[1].w, at |-> next]
                                      \/ \E i \in 2 .. Len(heap) : heap'[j] = heap[i]
    <3>1. /\ heap' \in Seq(Entries) /\ ParentFirst(heap') /\ EachOnce(heap')
          /\ \A j \in 1 .. Len(heap') : \/ heap'[j] = [w |-> heap[1].w, at |-> next]
                                        \/ \E i \in 2 .. Len(heap) : heap'[j] = heap[i]
      <4>1. heap' = downheap(RootDue(heap, next), 1)
        BY <2>1 DEF RootDue
      <4>2. heap # << >> /\ next \in Nat
        BY <1>1, <1>6
      <4>3. heap' \in Seq(Entries) /\ ParentFirst(heap') /\ EachOnce(heap') /\ SameButRoot(heap', heap, next)
        BY <1>2, <4>1, <4>2, Reschedules
      <4> QED
        BY <4>3 DEF SameButRoot
    <3> QED
      BY <3>1 DEF IsHeap
  <2>3. Remains(heap', heap)
    <3> SUFFICES ASSUME NEW j \in 1 .. Len(heap'), heap'[j] = [w |-> heap[1].w, at |-> next]
                 PROVE  heap'[j].w = heap[1].w /\ mn_now <= heap'[j].at
      BY <2>2 DEF Remains
    <3> QED
      BY <1>6
  <2>4. tm' \in [Timers -> [at : Nat, repeat : Nat]]
    BY <1>4, <1>5, <1>6, <2>1
  <2> QED
    BY <2>2, <2>3, <2>4
<1>8. CASE ~(tm[t].repeat > 0)
  <2>1. heap' = HeapRemove(heap, 1) /\ UNCHANGED tm
    BY <1>1, <1>8
  <2>2. Left(heap', heap, 1)
    BY <1>2, <1>3, <2>1, Removes
  <2>3. \A i \in 1 .. Len(heap) : i # 1 => i \in 2 .. Len(heap)
    BY <1>2
  <2> QED
    BY <1>5, <2>1, <2>2, <2>3 DEF Left, Remains, IsHeap
<1> QED
  BY <1>7, <1>8

LEMMA ExpireKeeps == ASSUME TimerInv, Expire PROVE TimerInv'
<1> DEFINE t == heap[1].w
           n == Len(rfeeds) + 1
<1>1. /\ loop = "expire" /\ loop' = loop /\ heap # << >> /\ heap[1].at < mn_now
      /\ due' = [due EXCEPT ![t] = heap[1].at] /\ rfeeds' = Append(rfeeds, t)
      /\ UNCHANGED <<pendings, running, budget, clock, mn_now>>
  BY DEF Expire, LoopLeaves, timeVars
<1>2. IsHeap(heap') /\ Remains(heap', heap) /\ tm' \in [Timers -> [at : Nat, repeat : Nat]]
  BY RootLeaves
<1>3. heap \in Seq(Entries) /\ ParentFirst(heap) /\ EachOnce(heap) /\ heap' \in Seq(Entries)
  BY <1>2 DEF TimerInv, IsHeap
<1>4. 1 \in 1 .. Len(heap) /\ heap[1] \in Entries
  BY <1>1, <1>3
<1>5. t \in Timers /\ heap[1].at \in Nat
  BY <1>4 DEF Entries
<1>6. rfeeds \in Seq(Timers) /\ due \in [Timers -> Nat] /\ mn_now \in Nat
  BY DEF TimerInv, TimerTypes
<1> HIDE DEF t
<1>7. rfeeds' \in Seq(Timers) /\ Len(rfeeds') = n /\ rfeeds'[n] = t /\ \A i \in 1 .. n - 1 : rfeeds'[i] = rfeeds[i]
  BY <1>1, <1>5, <1>6
<1>8. due' \in [Timers -> Nat] /\ due'[t] = heap[1].at /\ \A u \in Timers : u # t => due'[u] = due[u]
  BY <1>1, <1>5, <1>6
<1>9. n \in Nat /\ n - 1 = Len(rfeeds) /\ n > 0
  BY <1>6
<1> HIDE DEF n
<1>10. \A i \in 1 .. n - 1 : rfeeds[i] \in Timers
  BY <1>6, <1>9, ElementOfSeq
<1>11. ExpiredInOrder(heap, rfeeds, due)
  BY DEF TimerInv
<1>12. \A i \in 1 .. n - 1 : rfeeds[i] # t /\ due[rfeeds[i]] <= heap[1].at
  <2>1. \A i \in 1 .. n - 1 : due[rfeeds[i]] <= heap[1].at /\ (t = rfeeds[i] => mn_now <= heap[1].at)
    BY <1>4, <1>9, <1>11 DEF ExpiredInOrder, t
  <2> QED
    BY <1>1, <1>5, <1>6, <2>1
<1>13. \A i \in 1 .. n - 1 : due'[rfeeds'[i]] = due[rfeeds[i]] /\ due'[rfeeds'[i]] <= heap[1].at
  BY <1>7, <1>8, <1>10, <1>12
<1>14. \A i \in 1 .. n : due'[rfeeds'[i]] <= heap[1].at /\ due'[rfeeds'[i]] \in Nat
  <2>1. due'[rfeeds'[n]] = heap[1].at
    BY <1>7, <1>8
  <2>2. \A i \in 1 .. n - 1 : due'[rfeeds'[i]] \in Nat
    BY <1>6, <1>10, <1>13
  <2>3. ASSUME NEW i \in 1 .. n PROVE i = n \/ i \in 1 .. n - 1
    BY <1>9
  <2> QED
    BY <1>5, <1>13, <2>1, <2>2, <2>3
<1>15. \A i, j \in 1 .. n : i <= j => due'[rfeeds'[i]] <= due'[rfeeds'[j]]
  <2> SUFFICES ASSUME NEW i \in 1 .. n, NEW j \in 1 .. n, i <= j PROVE due'[rfeeds'[i]] <= due'[rfeeds'[j]]
    OBVIOUS
  <2>1. CASE j = n
    BY <1>7, <1>8, <1>14, <2>1
  <2>2. CASE j # n
    <3>1. i \in 1 .. n - 1 /\ j \in 1 .. n - 1
      BY <1>9, <2>2
    <3>2. due[rfeeds[i]] <= due[rfeeds[j]]
      BY <1>9, <1>11, <3>1 DEF ExpiredInOrder
    <3> QED
      BY <1>13, <3>1, <3>2
  <2> QED
    BY <2>1, <2>2
<1>16. ASSUME NEW i \in 1 .. n, NEW v \in 1 .. Len(heap')
       PROVE  due'[rfeeds'[i]] <= heap'[v].at /\ (heap'[v].w = rfeeds'[i] => mn_now <= heap'[v].at)
  <2>1. heap'[v].at \in Nat
    BY <1>3, AtIsNat
  <2>2. CASE heap'[v].w = heap[1].w /\ mn_now <= heap'[v].at
    <3> DEFINE a == due'[rfeeds'[i]]
    <3>1. a <= heap[1].at /\ a \in Nat
      BY <1>14
    <3> HIDE DEF a
    <3>2. a <= heap'[v].at
      BY <1>1, <1>5, <1>6, <2>1, <2>2, <3>1
    <3> QED
      BY <2>2, <3>2 DEF a
  <2>3. ASSUME NEW j \in 2 .. Len(heap), heap'[v] = heap[j] PROVE due'[rfeeds'[i]] <= heap[j].at /\ (heap[j].w = rfeeds'[i] => mn_now <= heap[j].at)
    <3>1. j \in 1 .. Len(heap) /\ j # 1 /\ DOMAIN heap = 1 .. Len(heap)
      BY <1>3
    <3>2. heap[1].at <= heap[j].at /\ heap[j].at \in Nat
      BY <1>3, <3>1, RootFirst, AtIsNat
    <3>3. heap[j].w # t
      BY <1>3, <1>4, <3>1 DEF EachOnce, t
    <3>4. due'[rfeeds'[i]] <= heap[j].at
      <4> DEFINE a == due'[rfeeds'[i]]
      <4>1. a <= heap[1].at /\ a \in Nat
        BY <1>14
      <4> HIDE DEF a
      <4>2. a <= heap[j].at
        BY <1>5, <3>2, <4>1
      <4> QED
        BY <4>2 DEF a
    <3>5. ASSUME heap[j].w = rfeeds'[i] PROVE mn_now <= heap[j].at
      <4>1. i \in 1 .. n - 1
        BY <1>7, <1>9, <3>3, <3>5
      <4>2. heap[j].w = rfeeds[i]
        BY <1>7, <3>5, <4>1
      <4> QED
        BY <1>9, <1>11, <3>1, <4>1, <4>2 DEF ExpiredInOrder
    <3> QED
      BY <3>4, <3>5
  <2> QED
    BY <1>2, <2>2, <2>3 DEF Remains
<1>17. ExpiredInOrder(heap, rfeeds, due)'
  BY <1>1, <1>7, <1>15, <1>16 DEF ExpiredInOrder
<1>18. TimerTypes'
  BY <1>1, <1>2, <1>7, <1>8 DEF TimerInv, TimerTypes
<1>19. pendings' = << >>
  BY <1>1 DEF TimerInv, Phases
<1>20. Phases' /\ NeverOversleeps' /\ PendingInOrder(pendings, due)'
  BY <1>1, <1>19 DEF TimerInv, Phases, NeverOversleeps, PendingInOrder
<1> QED
  BY <1>2, <1>17, <1>18, <1>20 DEF TimerInv, IsHeap, ParentFirst, EachOnce

(* feed_reverse_done: the first to have expired is the newest pending. *)
LEMMA FeedReverseKeeps == ASSUME TimerInv, FeedReverseDone PROVE TimerInv'
<1> DEFINE n == Len(rfeeds)
<1>1. /\ loop' = "invoke" /\ pendings' = feed_reverse_done(rfeeds) /\ rfeeds' = << >>
      /\ UNCHANGED <<heap, tm, due, clock, mn_now, running, budget>>
  BY DEF FeedReverseDone, LoopGoto, LoopLeaves, timeVars
<1>2. rfeeds \in Seq(Timers) /\ n \in Nat /\ DOMAIN rfeeds = 1 .. n
  BY DEF TimerInv, TimerTypes
<1>3. \A i, j \in 1 .. n : i <= j => due[rfeeds[i]] <= due[rfeeds[j]]
  BY DEF TimerInv, ExpiredInOrder
<1>4. pendings' = [j \in 1 .. n |-> rfeeds[n + 1 - j]]
  BY <1>1, <1>2 DEF feed_reverse_done
<1> HIDE DEF n
<1>5. \A j \in 1 .. n : n + 1 - j \in 1 .. n
  BY <1>2
<1>6. \A j \in 1 .. n : rfeeds[j] \in Timers \cup {Async}
  BY <1>2, ElementOfSeq DEF n
<1>7. pendings' \in Seq(Timers \cup {Async}) /\ Len(pendings') = n
  <2>1. \A j \in 1 .. n : rfeeds[n + 1 - j] \in Timers \cup {Async}
    BY <1>5, <1>6
  <2> QED
    BY <1>2, <1>4, <2>1
<1>8. ASSUME NEW i \in 1 .. n, NEW j \in 1 .. n, i <= j PROVE due[pendings'[j]] <= due[pendings'[i]]
  <2>1. n + 1 - j <= n + 1 - i
    BY <1>2, <1>8
  <2> QED
    BY <1>3, <1>4, <1>5, <2>1
<1>9. PendingInOrder(pendings, due)'
  BY <1>1, <1>7, <1>8 DEF PendingInOrder
<1>10. TimerTypes'
  <2>1. rfeeds' \in Seq(Timers)
    BY <1>1
  <2> QED
    BY <1>1, <1>7, <2>1 DEF TimerInv, TimerTypes
<1>11. ExpiredInOrder(heap, rfeeds, due)'
  BY <1>1 DEF ExpiredInOrder
<1>12. Phases' /\ NeverOversleeps'
  BY <1>1 DEF TimerInv, Phases, NeverOversleeps
<1> QED
  BY <1>1, <1>9, <1>10, <1>11, <1>12 DEF TimerInv, IsHeap, ParentFirst, EachOnce

LEMMA FrontOf ==
  ASSUME NEW T, NEW s \in Seq(T), s # << >>, NEW f, f = SubSeq(s, 1, Len(s) - 1)
  PROVE  f \in Seq(T) /\ Len(f) = Len(s) - 1 /\ DOMAIN f = 1 .. Len(s) - 1 /\ \A j \in 1 .. Len(s) - 1 : f[j] = s[j]
<1>1. PICK n \in Nat : n = Len(s) /\ n > 0
  BY LenProperties
<1>2. f = SubSeq(s, 1, n - 1) /\ 1 \in Int /\ n - 1 \in Int /\ \A i \in 1 .. n - 1 : s[i] \in T
  BY <1>1
<1>3. /\ f \in Seq(T) /\ Len(f) = (IF 1 <= n - 1 THEN (n - 1) - 1 + 1 ELSE 0)
      /\ \A i \in 1 .. (n - 1) - 1 + 1 : f[i] = s[1 + i - 1]
  BY <1>2, SubSeqProperties
<1>4. f \in Seq(T) /\ Len(f) = n - 1 /\ \A j \in 1 .. n - 1 : f[j] = s[j]
  BY <1>1, <1>3
<1> QED
  BY <1>1, <1>4, LenProperties

(* ev_invoke_pending: the newest pending timer was due first. *)
LEMMA InvokeOrder ==
  ASSUME TimerInv, Invoke
  PROVE  /\ TimerInv'
         /\ \A t \in Timers : running' = t =>
              \A u \in Timers : (\E j \in DOMAIN pendings' : pendings'[j] = u) => due[t] <= due[u]
<1> DEFINE n == Len(pendings)
<1>1. /\ loop = "invoke" /\ loop' = loop /\ pendings # << >> /\ running' = pendings[n]
      /\ pendings' = SubSeq(pendings, 1, n - 1)
      /\ UNCHANGED <<heap, tm, due, rfeeds, clock, mn_now, budget>>
  BY DEF Invoke, timerVars, timeVars
<1>2. pendings \in Seq(Timers \cup {Async}) /\ n \in Nat /\ n > 0
  BY <1>1 DEF TimerInv, TimerTypes
<1>3. \A i, j \in 1 .. n : i <= j /\ pendings[i] # Async /\ pendings[j] # Async => due[pendings[j]] <= due[pendings[i]]
  BY DEF TimerInv, PendingInOrder
<1>4. /\ pendings' \in Seq(Timers \cup {Async}) /\ Len(pendings') = n - 1 /\ DOMAIN pendings' = 1 .. n - 1
      /\ \A j \in 1 .. n - 1 : pendings'[j] = pendings[j]
  <2> DEFINE T == Timers \cup {Async}
  <2>1. pendings \in Seq(T) /\ pendings # << >> /\ pendings' = SubSeq(pendings, 1, Len(pendings) - 1)
    BY <1>1, <1>2
  <2> HIDE DEF T
  <2>2. /\ pendings' \in Seq(T) /\ Len(pendings') = Len(pendings) - 1 /\ DOMAIN pendings' = 1 .. Len(pendings) - 1
        /\ \A j \in 1 .. Len(pendings) - 1 : pendings'[j] = pendings[j]
    BY <2>1, FrontOf
  <2> QED
    BY <2>2 DEF T
<1> HIDE DEF n
<1>5. \A j \in 1 .. n - 1 : j \in 1 .. n /\ j <= n /\ n \in 1 .. n
  BY <1>2
<1>6. PendingInOrder(pendings', due)
  BY <1>3, <1>4, <1>5 DEF PendingInOrder
<1>7. rfeeds = << >>
  BY <1>1 DEF TimerInv, Phases
<1>8. TimerInv'
  BY <1>1, <1>4, <1>6, <1>7, Passing
<1>9. ASSUME NEW t \in Timers, NEW u \in Timers, NEW j \in DOMAIN pendings', running' = t, pendings'[j] = u
      PROVE  due[t] <= due[u]
  <2>1. j \in 1 .. n - 1 /\ pendings[n] = t /\ pendings[j] = u
    BY <1>1, <1>4, <1>9
  <2>2. t # Async /\ u # Async
    BY TimersAssumption
  <2> QED
    BY <1>3, <1>5, <2>1, <2>2
<1> QED
  BY <1>8, <1>9

(* pipecb: the task's ev_async is pending too. *)
LEMMA TakeKeeps == ASSUME TimerInv, PipeTake PROVE TimerInv'
<1> DEFINE n == Len(pendings)
<1>1. /\ loop = "pipe_take" /\ loop' = "invoke" /\ pendings' = Append(pendings, Async)
      /\ UNCHANGED <<heap, tm, due, rfeeds, clock, mn_now, budget>>
  BY DEF PipeTake, LoopGoto, PipeLeaves, LoopLeaves, timerVars, timeVars
<1>2. pendings \in Seq(Timers \cup {Async}) /\ n \in Nat
  BY DEF TimerInv, TimerTypes
<1>3. \A i, j \in 1 .. n : i <= j /\ pendings[i] # Async /\ pendings[j] # Async => due[pendings[j]] <= due[pendings[i]]
  BY DEF TimerInv, PendingInOrder
<1>4. /\ pendings' \in Seq(Timers \cup {Async}) /\ Len(pendings') = n + 1 /\ pendings'[n + 1] = Async
      /\ \A j \in 1 .. n : pendings'[j] = pendings[j]
  BY <1>1, <1>2
<1> HIDE DEF n
<1>5. \A j \in 1 .. n + 1 : j \in 1 .. n \/ j = n + 1
  BY <1>2
<1>6. PendingInOrder(pendings', due)
  BY <1>3, <1>4, <1>5 DEF PendingInOrder
<1>7. rfeeds = << >>
  BY <1>1 DEF TimerInv, Phases
<1> QED
  BY <1>1, <1>4, <1>6, <1>7, Passing

(* Calls of a callback: the loop invokes, so nothing expires or sleeps. *)
LEMMA Called ==
  ASSUME TimerInv, running # Nobody, loop' = loop, UNCHANGED <<due, rfeeds, clock, mn_now, running>>,
         budget' = [budget EXCEPT !.ops = @ - 1], IsHeap(heap'), tm' \in [Timers -> [at : Nat, repeat : Nat]],
         pendings' \in Seq(Timers \cup {Async}), PendingInOrder(pendings', due)
  PROVE  TimerInv'
<1>1. loop = "invoke" /\ rfeeds = << >>
  BY DEF TimerInv, Phases
<1>2. BudgetLeaves
  BY Spend DEF TimerInv
<1>3. TimerTypes'
  BY <1>2 DEF TimerInv, TimerTypes, BudgetLeaves
<1>4. ExpiredInOrder(heap, rfeeds, due)'
  BY <1>1 DEF ExpiredInOrder
<1>5. Phases' /\ NeverOversleeps' /\ PendingInOrder(pendings, due)'
  BY <1>1 DEF Phases, NeverOversleeps, PendingInOrder
<1> QED
  BY <1>3, <1>4, <1>5 DEF TimerInv, IsHeap, ParentFirst, EachOnce

LEMMA TimerStartKeeps ==
  ASSUME TimerInv, NEW t \in Timers, NEW start \in Delays, NEW repeat \in Delays, TimerStart(t, start, repeat)
  PROVE  TimerInv'
<1> DEFINE w == [at |-> start, repeat |-> repeat]
           at == mn_now + start
<1>1. /\ running # Nobody /\ loop' = loop /\ UNCHANGED <<due, rfeeds, clock, mn_now, running, pendings>>
      /\ budget' = [budget EXCEPT !.ops = @ - 1]
  BY DEF TimerStart, UserCode, timeVars
<1>2. start \in Nat /\ repeat \in Nat /\ mn_now \in Nat /\ at \in Nat
  BY TimersAssumption DEF TimerInv, TimerTypes
<1>3. IsHeap(heap) /\ tm \in [Timers -> [at : Nat, repeat : Nat]] /\ pendings \in Seq(Timers \cup {Async}) /\ PendingInOrder(pendings, due)
  BY DEF TimerInv, TimerTypes
<1>4. CASE HasTimer(heap, t)
  <2>1. heap' = heap /\ tm' = [tm EXCEPT ![t] = w]
    BY <1>4 DEF TimerStart, ev_timer_start
  <2>2. tm' \in [Timers -> [at : Nat, repeat : Nat]]
    BY <1>2, <1>3, <2>1
  <2> QED
    BY <1>1, <1>3, <2>1, <2>2, Called
<1>5. CASE ~HasTimer(heap, t)
  <2>1. heap' = HeapInsert(heap, [w |-> t, at |-> at]) /\ tm' = [tm EXCEPT ![t] = [at |-> at, repeat |-> repeat]]
    BY <1>5 DEF TimerStart, ev_timer_start
  <2>2. tm' \in [Timers -> [at : Nat, repeat : Nat]]
    BY <1>2, <1>3, <2>1
  <2>3. IsHeap(heap')
    <3> DEFINE e == [w |-> t, at |-> at]
    <3>1. e \in Entries /\ e.w = t
      BY <1>2 DEF Entries
    <3>2. heap' = HeapInsert(heap, e)
      BY <2>1
    <3> HIDE DEF e
    <3>3. heap \in Seq(Entries) /\ ParentFirst(heap) /\ EachOnce(heap) /\ ~HasTimer(heap, e.w)
      BY <1>3, <1>5, <3>1 DEF IsHeap
    <3> QED
      BY <3>1, <3>2, <3>3, Inserts DEF IsHeap
  <2> QED
    BY <1>1, <1>3, <2>2, <2>3, Called
<1> QED
  BY <1>4, <1>5

LEMMA TimerStopKeeps == ASSUME TimerInv, NEW t \in Timers, TimerStop(t) PROVE TimerInv'
<1>1. /\ running # Nobody /\ loop' = loop /\ UNCHANGED <<due, rfeeds, clock, mn_now, running, tm>>
      /\ budget' = [budget EXCEPT !.ops = @ - 1]
      /\ pendings' = Without(pendings, t)
      /\ heap' = IF HasTimer(heap, t) THEN HeapRemove(heap, At(heap, t)) ELSE heap
  BY DEF TimerStop, UserCode, ev_timer_stop, timeVars
<1>2. IsHeap(heap) /\ tm \in [Timers -> [at : Nat, repeat : Nat]] /\ pendings \in Seq(Timers \cup {Async}) /\ PendingInOrder(pendings, due)
  BY DEF TimerInv, TimerTypes
<1>3. IsHeap(heap')
  <2>1. CASE HasTimer(heap, t)
    <3>1. At(heap, t) \in DOMAIN heap
      BY <2>1 DEF HasTimer, At
    <3>2. heap \in Seq(Entries) /\ ParentFirst(heap) /\ EachOnce(heap) /\ At(heap, t) \in 1 .. Len(heap)
      BY <1>2, <3>1, LenProperties DEF IsHeap
    <3>3. heap' = HeapRemove(heap, At(heap, t))
      BY <1>1, <2>1
    <3>4. Left(heap', heap, At(heap, t))
      BY <3>2, <3>3, Removes
    <3> QED
      BY <3>4 DEF Left, IsHeap
  <2>2. CASE ~HasTimer(heap, t)
    BY <1>1, <1>2, <2>2
  <2> QED
    BY <2>1, <2>2
<1>4. pendings' \in Seq(Timers \cup {Async}) /\ InOrderOf(pendings', pendings)
  BY <1>1, <1>2, WithoutKeepsOrder
<1>5. PendingInOrder(pendings', due)
  <2> SUFFICES ASSUME NEW i \in 1 .. Len(pendings'), NEW j \in 1 .. Len(pendings'), i <= j,
                      pendings'[i] # Async, pendings'[j] # Async
               PROVE  due[pendings'[j]] <= due[pendings'[i]]
    BY DEF PendingInOrder
  <2>1. PICK a \in 1 .. Len(pendings), b \in 1 .. Len(pendings) :
          a <= b /\ pendings'[i] = pendings[a] /\ pendings'[j] = pendings[b]
    BY <1>4 DEF InOrderOf
  <2> QED
    BY <1>2, <2>1 DEF PendingInOrder
<1> QED
  BY <1>1, <1>2, <1>3, <1>4, <1>5, Called

LEMMA TimerStep == TimerInv /\ [Next]_vars => TimerInv'
<1> SUFFICES ASSUME TimerInv, [Next]_vars PROVE TimerInv'
  OBVIOUS
<1>a. /\ TimerTypes /\ Phases /\ NeverOversleeps /\ clock \in Nat
      /\ BudgetLeaves \/ ~(UNCHANGED budget)
  BY Spend DEF TimerInv, TimerTypes
<1> USE DEF wakeVars, timerVars, timeVars, LoopGoto, LoopLeaves, PipeLeaves, SendLeaves
<1>1. ASSUME NEW s \in Senders, SendStep(s) PROVE TimerInv'
  <2>1. UNCHANGED <<heap, tm, due, rfeeds, clock, mn_now, waittime, loop, pendings, running, budget>>
    BY <1>1 DEF SendStep, TestFlag, SetFlag, SetSkipped, TestWanted, ClearSkipped, Write
  <2>2. Phases' /\ NeverOversleeps'
    BY <1>a, <2>1 DEF Phases, NeverOversleeps
  <2> QED
    BY <1>a, <2>1, <2>2, Quiet
<1>2. ASSUME NEW s \in Senders, SetSent(s) PROVE TimerInv'
  <2>1. /\ UNCHANGED <<heap, tm, due, rfeeds, clock, mn_now, waittime, loop, pendings, running>>
        /\ budget' = [budget EXCEPT !.sends = @ - 1]
    BY <1>2 DEF SetSent
  <2>2. Phases' /\ NeverOversleeps'
    BY <1>a, <2>1 DEF Phases, NeverOversleeps
  <2>3. BudgetLeaves
    BY <1>a, <2>1, Spend
  <2> QED
    BY <1>a, <2>1, <2>2, <2>3, Quiet
<1>3. CASE Begin
  <2>1. /\ UNCHANGED <<heap, tm, due, rfeeds, pendings, clock, budget, running>> /\ mn_now' = clock
        /\ loop = "invoke" /\ loop' = "decide" /\ pendings = << >> /\ running = Nobody
    BY <1>3 DEF Begin, time_update
  <2>2. Phases' /\ rfeeds = << >> /\ loop' # "poll"
    BY <1>a, <2>1 DEF Phases
  <2> QED
    BY <2>1, <2>2, UpdateKeeps
<1>4. CASE Decide
  BY <1>4, DecideKeeps
<1>5. CASE Poll \/ PollInterrupted \/ Unwant
  <2>1. /\ UNCHANGED <<heap, tm, due, rfeeds, pendings, clock, mn_now, budget, running>>
        /\ loop \in {"poll", "unwant"} /\ loop' \in {"unwant", "look"}
    BY <1>5 DEF Poll, PollInterrupted, PollReturns, Unwant
  <2>2. Phases' /\ NeverOversleeps'
    BY <1>a, <2>1 DEF Phases, NeverOversleeps
  <2> QED
    BY <1>a, <2>1, <2>2, Quiet
<1>6. CASE Look
  <2>1. /\ UNCHANGED <<heap, tm, due, rfeeds, pendings, clock, budget, running>> /\ mn_now' = clock
        /\ loop = "look" /\ loop' = "expire"
    BY <1>6 DEF Look, time_update
  <2>2. Phases' /\ rfeeds = << >> /\ loop' # "poll"
    BY <1>a, <2>1 DEF Phases
  <2> QED
    BY <2>1, <2>2, UpdateKeeps
<1>7. CASE Expire
  BY <1>7, ExpireKeeps
<1>8. CASE FeedReverseDone
  BY <1>8, FeedReverseKeeps
<1>9. CASE PipeRead \/ PipeUnskip \/ PipeCheck \/ PipeClear \/ PipeScan
  <2>1. /\ UNCHANGED <<heap, tm, due, rfeeds, pendings, clock, mn_now, budget, running>>
        /\ loop \in {"invoke"} \cup PipeCb /\ loop' \in {"invoke"} \cup PipeCb /\ (running = Nobody \/ loop # "invoke")
    BY <1>9 DEF PipeRead, PipeUnskip, PipeCheck, PipeClear, PipeScan, PipeCb
  <2>2. Phases' /\ NeverOversleeps'
    BY <1>a, <2>1 DEF Phases, NeverOversleeps, PipeCb
  <2> QED
    BY <1>a, <2>1, <2>2, Quiet
<1>10. CASE PipeTake
  BY <1>10, TakeKeeps
<1>11. CASE Invoke
  BY <1>11, InvokeOrder
<1>12. CASE Return
  <2>1. UNCHANGED <<heap, tm, due, rfeeds, clock, mn_now, waittime, loop, pendings, budget>> /\ running' = Nobody
    BY <1>12 DEF Return
  <2>2. Phases' /\ NeverOversleeps'
    BY <1>a, <2>1 DEF Phases, NeverOversleeps
  <2> QED
    BY <1>a, <2>1, <2>2, Quiet
<1>13. ASSUME NEW t \in budget.used, TimerStop(t) PROVE TimerInv'
  BY <1>a, <1>13, TimerStopKeeps DEF TimerTypes
<1>14. ASSUME NEW t \in budget.used, NEW start \in Delays, NEW repeat \in Delays, TimerStart(t, start, repeat)
       PROVE  TimerInv'
  BY <1>a, <1>14, TimerStartKeeps DEF TimerTypes
<1>15. CASE Tick
  <2>1. /\ UNCHANGED <<heap, tm, due, rfeeds, mn_now, waittime, loop, pendings, running>>
        /\ budget' = [budget EXCEPT !.ticks = @ - 1] /\ clock' = clock + 1
    BY <1>15 DEF Tick
  <2>2. Phases' /\ NeverOversleeps'
    BY <1>a, <2>1 DEF Phases, NeverOversleeps
  <2>3. BudgetLeaves
    BY <1>a, <2>1, Spend
  <2>4. clock' \in Nat
    BY <1>a, <2>1
  <2> QED
    BY <2>1, <2>2, <2>3, <2>4, Quiet
<1>16. CASE UNCHANGED vars
  <2>1. UNCHANGED <<heap, tm, due, rfeeds, clock, mn_now, waittime, loop, pendings, running, budget>>
    BY <1>16 DEF vars
  <2>2. Phases' /\ NeverOversleeps'
    BY <1>a, <2>1 DEF Phases, NeverOversleeps
  <2> QED
    BY <1>a, <2>1, <2>2, Quiet
<1> QED
  BY <1>1, <1>2, <1>3, <1>4, <1>5, <1>6, <1>7, <1>8, <1>9, <1>10, <1>11, <1>12, <1>13, <1>14, <1>15, <1>16 DEF Next, LoopStep

(* The loop never sleeps past the time any active timer is due, whatever     *)
(* callbacks start, stop and change and whatever expires: the heap keeps     *)
(* the earliest at its root, by which ev_run computes how long to poll.      *)
THEOREM LoopNeverOversleeps == Spec => []NeverOversleeps
<1>1. TimerInv => NeverOversleeps
  BY DEF TimerInv
<1> QED
  BY TimerInit, TimerStep, <1>1, PTL DEF Spec

(* Timers that expired together are called back in the order in which they   *)
(* were due, the LIFO of pending watchers notwithstanding (timers_reify and  *)
(* feed_reverse_done), also when callbacks stop some of them meanwhile.      *)
THEOREM CalledInOrder == Spec => TimersInOrder
<1> DEFINE InOrder == \A t \in Timers : running' = t /\ running = Nobody =>
                        \A u \in Timers : (\E j \in DOMAIN pendings' : pendings'[j] = u) => due[t] <= due[u]
<1>1. TimerInv /\ [Next]_vars => InOrder
  <2> SUFFICES ASSUME TimerInv, [Next]_vars PROVE InOrder
    OBVIOUS
  <2>1. CASE Invoke
    BY <2>1, InvokeOrder
  <2>2. CASE ~Invoke
    <3>1. running' \in {running, Nobody}
      BY <2>2 DEF Next, vars, SendStep, LoopStep, SetSent, TestFlag, SetFlag, SetSkipped, TestWanted, ClearSkipped, Write,
                  SendLeaves, LoopLeaves, PipeLeaves, Begin, Decide, Poll, PollInterrupted, PollReturns, Unwant, Look,
                  Expire, FeedReverseDone, PipeRead, PipeUnskip, PipeCheck, PipeClear, PipeScan, PipeTake, Return,
                  TimerStop, TimerStart, UserCode, Tick
    <3>2. Nobody \notin Timers
      BY TimersAssumption
    <3> QED
      BY <3>1, <3>2
  <2> QED
    BY <2>1, <2>2
<1>2. TimerInv /\ [Next]_vars => [InOrder]_vars
  BY <1>1
<1> HIDE DEF InOrder
<1>3. Spec => [][InOrder]_vars
  BY TimerInit, TimerStep, <1>1, PTL DEF Spec
<1> QED
  BY <1>3 DEF TimersInOrder, InOrder

-----------------------------------------------------------------------------
(* The descriptors: the inductive invariant, part by part *)

Ev == RW \cup {"EXCEPT"}

IoType == [fd : Fds \cup {NoFd}, fdset : BOOLEAN, active : BOOLEAN, pending : Nat]
AnfdType == [head : Seq(Ios), events : SUBSET Ev, emask : SUBSET (Ev \cup {"EPERM"}), egen : Nat,
             reify : SUBSET {"REIFY", "IOFDSET"}]
PendingType == [w : Ios \cup {PendingW}, events : SUBSET (Ev \cup {"ERROR"}), src : SUBSET (Files \cup {None})]
PollfdType == [fd : Fds, events : SUBSET Ev]
PollType == [polls : Seq(PollfdType), pollidxs : [Fds -> Nat]]
SelectType == [ri : SUBSET Fds, wi : SUBSET Fds]
EpollType == [eperms : SUBSET Fds]
AnfdsType == [Fds -> AnfdType]
ChangesType == Seq(Fds)
PendingsType == Seq(PendingType)
IosType == [Ios -> IoType]

LoopType ==
  [backend : Backends, poll : PollType, select : SelectType, epoll : EpollType, anfds : AnfdsType,
   fdchanges : ChangesType, pendings : PendingsType, postfork : BOOLEAN, io : IosType]
ItemType == [fd : Fds, file : Files \ Plain, mask : SUBSET RW, gen : Nat]
KernelType == [file : [Fds -> Files \cup {None}], kset : SUBSET ItemType]
Owners == [Watchers -> Fds \cup {NoFd}]

ActiveOn(l, fd) == {i \in Ios : l.io[i].active /\ l.io[i].fd = fd}

(* The descriptors' lists hold the active ev_io, each once. *)
Linked(l) ==
  /\ \A fd \in Fds : IsInjective(l.anfds[fd].head) /\ Range(l.anfds[fd].head) = ActiveOn(l, fd)
  /\ \A i \in Ios : l.io[i].active => l.io[i].fd \in Fds

(* Every pending event has its place *)
Placed(l) ==
  /\ \A i \in Ios : l.io[i].pending # 0 =>
       l.io[i].active /\ l.io[i].pending \in DOMAIN l.pendings /\ l.pendings[l.io[i].pending].w = i
  /\ \A n \in DOMAIN l.pendings : l.pendings[n].w # PendingW => l.io[l.pendings[n].w].pending = n

Sources(l, kern) ==
  \A n \in DOMAIN l.pendings :
    l.pendings[n].w # PendingW => l.pendings[n].src = {kern.file[l.io[l.pendings[n].w].fd]}

Wanted(l, fd) == UNION {EventsOf[i] : i \in ActiveOn(l, fd)}

(* A descriptor with a change is in the list of changes *)
Queued(l) == \A fd \in Fds : l.anfds[fd].reify # {} => fd \in Range(l.fdchanges)

Passed(l) == \A fd \in Fds : l.anfds[fd].reify = {} => l.anfds[fd].events = Wanted(l, fd)

Owned(l, kern, f) ==
  /\ \A x \in Watchers : f[x] # NoFd => kern.file[f[x]] # None
  /\ \A x, y \in Watchers : f[x] = f[y] /\ f[x] # NoFd => x = y
  /\ \A i \in Ios : f[i[1]] # NoFd => l.io[i].fd = f[i[1]]
  /\ \A i \in Ios : l.io[i].active => f[i[1]] # NoFd

Fresh(l, f, fd) == \A i \in Ios : f[i[1]] = fd => l.io[i].fdset /\ ~l.io[i].active

Anew(l, f, fd) == "IOFDSET" \in l.anfds[fd].reify \/ Fresh(l, f, fd)

(* Item e of the kernel's set: under the present generation it belongs to the *)
(* present file, or else to one of a descriptor that counts as new.           *)
ItemKnown(l, kern, f, e) ==
  /\ e.gen <= l.anfds[e.fd].egen
  /\ e.file = kern.file[e.fd] =>
       /\ e.gen = l.anfds[e.fd].egen
       /\ l.anfds[e.fd].emask = {} \/ e.mask = l.anfds[e.fd].emask \cap RW
  /\ e.gen = l.anfds[e.fd].egen /\ e.file # kern.file[e.fd] /\ kern.file[e.fd] # None =>
       Anew(l, f, e.fd) \/ l.anfds[e.fd].events = {}

OneFilePerGeneration(kern) ==
  \A e, d \in kern.kset : e.fd = d.fd /\ e.gen = d.gen => e.file = d.file

(* What libev believes to have told the kernel, the kernel has. *)
InKernel(l, kern, f, fd) ==
  kern.file[fd] \in Files \ Plain =>
    \/ Anew(l, f, fd) \/ l.anfds[fd].events = {} \/ l.postfork
    \/ \E e \in kern.kset : e.fd = fd /\ e.file = kern.file[fd] /\ e.mask = l.anfds[fd].events \cap RW

(* A descriptor that epoll refused is kept apart. *)
KeptApart(l, kern, f, fd) ==
  /\ kern.file[fd] \in Plain =>
       \/ Anew(l, f, fd) \/ l.anfds[fd].events \cap RW = {}
       \/ fd \in l.epoll.eperms /\ l.anfds[fd].emask = {"EPERM"}
  /\ "EPERM" \in l.anfds[fd].emask => fd \in l.epoll.eperms

EpollInv(l, kern, f) ==
  /\ \A e \in kern.kset : ItemKnown(l, kern, f, e)
  /\ OneFilePerGeneration(kern)
  /\ \A fd \in Fds : InKernel(l, kern, f, fd) /\ KeptApart(l, kern, f, fd)

PollInv(l) ==
  /\ \A n \in DOMAIN l.poll.polls :
       /\ l.poll.pollidxs[l.poll.polls[n].fd] = n
       /\ l.poll.polls[n].events = l.anfds[l.poll.polls[n].fd].events
       /\ l.poll.polls[n].events # {}
  /\ \A fd \in Fds : l.poll.pollidxs[fd] # NoPlace =>
       l.poll.pollidxs[fd] \in DOMAIN l.poll.polls /\ l.poll.polls[l.poll.pollidxs[fd]].fd = fd
  /\ \A fd \in Fds : l.anfds[fd].events # {} => l.poll.pollidxs[fd] # NoPlace

SelectInv(l) ==
  \A fd \in Fds : /\ "READ" \in l.anfds[fd].events <=> fd \in l.select.ri
                  /\ "WRITE" \in l.anfds[fd].events <=> fd \in l.select.wi

BackendInv(l, kern, f) ==
  /\ l.backend = "epoll" => EpollInv(l, kern, f)
  /\ l.backend = "poll" => PollInv(l)
  /\ l.backend = "select" => SelectInv(l)

LoopInv(l, kern, f) ==
  /\ Linked(l) /\ Placed(l) /\ Sources(l, kern) /\ Queued(l) /\ Passed(l) /\ Owned(l, kern, f) /\ BackendInv(l, kern, f)

-----------------------------------------------------------------------------
(* Fields of the loop, and fd_change *)

LEMMA EventsOfType == \A i \in Ios : EventsOf[i] \in SUBSET Ev /\ EventsOf[i] # {}
  BY DEF EventsOf, Ios, Ev, RW, W!Dirs

LEMMA LoopFields ==
  ASSUME NEW l \in LoopType
  PROVE  /\ l.backend \in Backends /\ l.poll \in PollType /\ l.select \in SelectType /\ l.epoll \in EpollType
         /\ l.anfds \in AnfdsType /\ l.fdchanges \in ChangesType /\ l.pendings \in PendingsType
         /\ l.postfork \in BOOLEAN /\ l.io \in IosType
  BY DEF LoopType

LEMMA PendingAt ==
  ASSUME NEW l \in LoopType, NEW n \in DOMAIN l.pendings
  PROVE  l.pendings[n] \in PendingType /\ l.pendings[n].w \in Ios \cup {PendingW}
<1>1. l.pendings \in Seq(PendingType)
  BY LoopFields DEF PendingsType
<1>2. l.pendings[n] \in PendingType
  BY <1>1
<1> QED
  BY <1>2 DEF PendingType

LEMMA PollfdAt ==
  ASSUME NEW l \in LoopType, NEW n \in DOMAIN l.poll.polls
  PROVE  l.poll.polls[n] \in PollfdType /\ l.poll.polls[n].fd \in Fds
<1>1. l.poll.polls \in Seq(PollfdType)
  BY LoopFields DEF PollType
<1>2. l.poll.polls[n] \in PollfdType
  BY <1>1
<1> QED
  BY <1>2 DEF PollfdType

SameBackend(l, m) == m.backend = l.backend /\ m.poll = l.poll /\ m.select = l.select /\ m.epoll = l.epoll

(* m is l but for what fd_change does: flags join the changes of fd. *)
ChangedFd(l, m, fd, fl) ==
  /\ SameBackend(l, m) /\ m.pendings = l.pendings /\ m.postfork = l.postfork /\ m.io = l.io
  /\ \A f \in Fds : /\ m.anfds[f].head = l.anfds[f].head
                    /\ m.anfds[f].events = l.anfds[f].events
                    /\ m.anfds[f].emask = l.anfds[f].emask
                    /\ m.anfds[f].egen = l.anfds[f].egen
                    /\ m.anfds[f].reify = IF f = fd THEN l.anfds[f].reify \cup fl ELSE l.anfds[f].reify

LEMMA FdChange ==
  ASSUME NEW l \in LoopType, NEW fd \in Fds, NEW fl \in SUBSET {"REIFY", "IOFDSET"},
         NEW m, m = fd_change(l, fd, fl)
  PROVE  m \in LoopType /\ ChangedFd(l, m, fd, fl) /\ (Queued(l) => Queued(m))
<1> DEFINE b == [l.anfds[fd] EXCEPT !.reify = @ \cup fl]
           A == [l.anfds EXCEPT ![fd] = b]
           C == IF l.anfds[fd].reify = {} THEN Append(l.fdchanges, fd) ELSE l.fdchanges
<1>1. l.anfds \in [Fds -> AnfdType] /\ l.fdchanges \in Seq(Fds)
  BY LoopFields DEF AnfdsType, ChangesType
<1>2. l.anfds[fd] \in AnfdType
  BY <1>1
<1>3. b \in AnfdType
  BY <1>2 DEF AnfdType
<1>4. A \in AnfdsType
  BY <1>1, <1>3 DEF AnfdsType
<1>5. C \in ChangesType
  BY <1>1 DEF ChangesType
<1>6. m = [l EXCEPT !.anfds = A, !.fdchanges = C]
  BY DEF fd_change
<1>7. /\ m \in LoopType /\ m.anfds = A /\ m.fdchanges = C
      /\ SameBackend(l, m) /\ m.pendings = l.pendings /\ m.postfork = l.postfork /\ m.io = l.io
  <2> HIDE DEF A, C
  <2> QED
    BY <1>4, <1>5, <1>6 DEF LoopType, SameBackend
<1>8. ASSUME NEW f \in Fds
      PROVE  /\ m.anfds[f].head = l.anfds[f].head
             /\ m.anfds[f].events = l.anfds[f].events
             /\ m.anfds[f].emask = l.anfds[f].emask
             /\ m.anfds[f].egen = l.anfds[f].egen
             /\ m.anfds[f].reify = IF f = fd THEN l.anfds[f].reify \cup fl ELSE l.anfds[f].reify
  <2>1. m.anfds[f] = IF f = fd THEN b ELSE l.anfds[f]
    <3> HIDE DEF b
    <3> QED
      BY <1>7, <1>1
  <2> QED
    BY <2>1, <1>2 DEF AnfdType
<1>9. ASSUME Queued(l) PROVE Queued(m)
  <2>1. \A n \in DOMAIN l.fdchanges : n \in DOMAIN C /\ C[n] = l.fdchanges[n]
    BY <1>1
  <2>2. l.anfds[fd].reify = {} => Len(l.fdchanges) + 1 \in DOMAIN C /\ C[Len(l.fdchanges) + 1] = fd
    BY <1>1
  <2>3. Range(l.fdchanges) \subseteq Range(C)
    <3> HIDE DEF C
    <3> QED
      BY <2>1 DEF Range
  <2>4. l.anfds[fd].reify = {} => fd \in Range(C)
    <3> HIDE DEF C
    <3> QED
      BY <2>2 DEF Range
  <2> HIDE DEF C
  <2> QED
    BY <2>3, <2>4, <1>7, <1>8, <1>9 DEF Queued
<1> QED
  BY <1>7, <1>8, <1>9 DEF ChangedFd

-----------------------------------------------------------------------------
(* ev_io_stop and ev_io_start *)

SameIo(l, m, i) == m.io[i].fd = l.io[i].fd /\ m.io[i].fdset = l.io[i].fdset
SameGuess(l, m, fd) ==
  m.anfds[fd].events = l.anfds[fd].events /\ m.anfds[fd].emask = l.anfds[fd].emask /\ m.anfds[fd].egen = l.anfds[fd].egen

(* m is l without the pending event of i. *)
Withdrawn(l, m, i) ==
  /\ SameBackend(l, m) /\ m.anfds = l.anfds /\ m.fdchanges = l.fdchanges /\ m.postfork = l.postfork
  /\ DOMAIN m.pendings = DOMAIN l.pendings
  /\ \A n \in DOMAIN l.pendings :
       /\ m.pendings[n].src = l.pendings[n].src
       /\ m.pendings[n].w = IF l.pendings[n].w = i THEN PendingW ELSE l.pendings[n].w
  /\ \A j \in Ios : /\ SameIo(l, m, j) /\ (m.io[j].active <=> l.io[j].active)
                    /\ m.io[j].pending = IF j = i THEN 0 ELSE l.io[j].pending

LEMMA Withdraw ==
  ASSUME NEW l \in LoopType, Placed(l), NEW i \in Ios, NEW m, m = clear_pending(l, i)
  PROVE  m \in LoopType /\ Withdrawn(l, m, i)
<1>1. l.pendings \in Seq(PendingType) /\ l.io \in [Ios -> IoType]
  BY LoopFields DEF PendingsType, IosType
<1>2. CASE l.io[i].pending = 0
  <2>1. m = l
    BY <1>2 DEF clear_pending
  <2>2. \A n \in DOMAIN l.pendings : l.pendings[n].w # i
    BY <1>2, PendingAssumption, <1>1 DEF Placed
  <2> QED
    BY <2>1, <2>2, <1>2 DEF Withdrawn, SameBackend, SameIo
<1>3. CASE l.io[i].pending # 0
  <2> DEFINE n == l.io[i].pending
             p == [l.pendings[n] EXCEPT !.w = PendingW]
             P == [l.pendings EXCEPT ![n] = p]
             o == [l.io[i] EXCEPT !.pending = 0]
             O == [l.io EXCEPT ![i] = o]
  <2>1. n \in DOMAIN l.pendings /\ l.pendings[n].w = i
    BY <1>3 DEF Placed
  <2>2. l.pendings[n] \in PendingType /\ l.io[i] \in IoType
    BY <1>1, <2>1
  <2>3. /\ p \in PendingType /\ p.w = PendingW /\ p.src = l.pendings[n].src
    BY <2>2 DEF PendingType
  <2>4. o \in IoType /\ o.fd = l.io[i].fd /\ o.fdset = l.io[i].fdset /\ o.active = l.io[i].active /\ o.pending = 0
    BY <2>2 DEF IoType
  <2>5. m = [l EXCEPT !.pendings = P, !.io = O]
    BY <1>3 DEF clear_pending
  <2> HIDE DEF p, o
  <2>6. P \in PendingsType /\ DOMAIN P = DOMAIN l.pendings /\ \A q \in DOMAIN P : P[q] = IF q = n THEN p ELSE l.pendings[q]
    BY <1>1, <2>1, <2>3 DEF PendingsType
  <2>7. O \in IosType /\ \A j \in Ios : O[j] = IF j = i THEN o ELSE l.io[j]
    BY <1>1, <2>4 DEF IosType
  <2> HIDE DEF P, O, n
  <2>8. m \in LoopType /\ m.pendings = P /\ m.io = O
        /\ SameBackend(l, m) /\ m.anfds = l.anfds /\ m.fdchanges = l.fdchanges /\ m.postfork = l.postfork
    BY <2>5, <2>6, <2>7 DEF LoopType, SameBackend
  <2>9. \A q \in DOMAIN l.pendings : q # n => l.pendings[q].w # i
    BY <1>1, PendingAssumption DEF Placed, n
  <2>10. \A q \in DOMAIN l.pendings :
       /\ m.pendings[q].src = l.pendings[q].src
       /\ m.pendings[q].w = IF l.pendings[q].w = i THEN PendingW ELSE l.pendings[q].w
    BY <2>1, <2>3, <2>6, <2>8, <2>9
  <2>11. \A j \in Ios : /\ SameIo(l, m, j) /\ (m.io[j].active <=> l.io[j].active)
                    /\ m.io[j].pending = IF j = i THEN 0 ELSE l.io[j].pending
    BY <2>4, <2>7, <2>8 DEF SameIo
  <2> QED
    BY <2>6, <2>8, <2>10, <2>11 DEF Withdrawn
<1> QED
  BY <1>2, <1>3

(* m is l with i stopped. *)
Stopped(l, m, i) ==
  /\ SameBackend(l, m) /\ m.postfork = l.postfork
  /\ DOMAIN m.pendings = DOMAIN l.pendings
  /\ \A n \in DOMAIN l.pendings :
       /\ m.pendings[n].src = l.pendings[n].src
       /\ m.pendings[n].w = IF l.pendings[n].w = i THEN PendingW ELSE l.pendings[n].w
  /\ \A j \in Ios : /\ SameIo(l, m, j) /\ (m.io[j].active <=> l.io[j].active /\ j # i)
                    /\ m.io[j].pending = IF j = i THEN 0 ELSE l.io[j].pending
  /\ \A fd \in Fds :
       /\ SameGuess(l, m, fd)
       /\ m.anfds[fd].reify = IF l.io[i].active /\ l.io[i].fd = fd
                              THEN l.anfds[fd].reify \cup {"REIFY"} ELSE l.anfds[fd].reify

LEMMA StopIo ==
  ASSUME NEW l \in LoopType, Placed(l), Linked(l), Queued(l), NEW i \in Ios, NEW m, m = ev_io_stop(l, i)
  PROVE  m \in LoopType /\ Stopped(l, m, i) /\ Linked(m) /\ Queued(m)
<1> DEFINE c == clear_pending(l, i)
           fd == l.io[i].fd
<1>1. c \in LoopType /\ Withdrawn(l, c, i)
  BY Withdraw
<1> HIDE DEF c
<1>2. l.anfds \in [Fds -> AnfdType] /\ l.io \in [Ios -> IoType] /\ c.io \in [Ios -> IoType] /\ c.anfds = l.anfds
  BY LoopFields, <1>1 DEF AnfdsType, IosType, Withdrawn
<1>3. CASE ~l.io[i].active
  <2>1. m = c
    BY <1>3 DEF ev_io_stop, c
  <2>2. \A f \in Fds : ActiveOn(m, f) = ActiveOn(l, f)
    BY <1>1, <2>1 DEF Withdrawn, ActiveOn, SameIo
  <2>3. Stopped(l, m, i)
    BY <1>1, <1>3, <2>1 DEF Withdrawn, Stopped, SameGuess
  <2>4. Linked(m)
    BY <1>1, <1>2, <2>1, <2>2 DEF Linked, Withdrawn, SameIo
  <2>5. Queued(m)
    BY <1>1, <1>2, <2>1 DEF Queued, Withdrawn
  <2> QED
    BY <1>1, <2>1, <2>3, <2>4, <2>5
<1>4. CASE l.io[i].active
  <2> DEFINE a == [l.anfds[fd] EXCEPT !.head = RemoveFirst(@, i)]
             A == [l.anfds EXCEPT ![fd] = a]
             o == [c.io[i] EXCEPT !.active = FALSE]
             O == [c.io EXCEPT ![i] = o]
             d == [c EXCEPT !.anfds = A, !.io = O]
  <2>1. fd \in Fds /\ IsInjective(l.anfds[fd].head) /\ Range(l.anfds[fd].head) = ActiveOn(l, fd) /\ i \in ActiveOn(l, fd)
    BY <1>4 DEF Linked, ActiveOn
  <2>2. l.anfds[fd] \in AnfdType /\ c.io[i] \in IoType
    BY <1>2, <2>1
  <2>3. l.anfds[fd].head \in Seq(Ios)
    BY <2>2 DEF AnfdType
  <2> DEFINE rest == RemoveFirst(l.anfds[fd].head, i)
  <2>4. rest \in Seq(Ios) /\ IsInjective(rest) /\ Range(rest) = ActiveOn(l, fd) \ {i}
    BY <2>1, <2>3, RemoveOnly
  <2>5. a = [l.anfds[fd] EXCEPT !.head = rest]
    OBVIOUS
  <2> HIDE DEF rest, a
  <2>6. /\ a \in AnfdType /\ a.head = rest /\ a.events = l.anfds[fd].events /\ a.emask = l.anfds[fd].emask
        /\ a.egen = l.anfds[fd].egen /\ a.reify = l.anfds[fd].reify
    BY <2>2, <2>4, <2>5 DEF AnfdType
  <2>7. o \in IoType /\ o.fd = c.io[i].fd /\ o.fdset = c.io[i].fdset /\ o.active = FALSE /\ o.pending = c.io[i].pending
    BY <2>2 DEF IoType
  <2> HIDE DEF o
  <2>8. A \in AnfdsType /\ \A f \in Fds : A[f] = IF f = fd THEN a ELSE l.anfds[f]
    BY <1>2, <2>1, <2>6 DEF AnfdsType
  <2>9. O \in IosType /\ \A j \in Ios : O[j] = IF j = i THEN o ELSE c.io[j]
    BY <1>2, <2>7 DEF IosType
  <2>10. m = fd_change(d, fd, {"REIFY"})
    BY <1>2, <1>4 DEF ev_io_stop, c, a, o, rest
  <2> HIDE DEF A, O
  <2>11. /\ d \in LoopType /\ d.anfds = A /\ d.io = O /\ d.pendings = c.pendings /\ d.fdchanges = c.fdchanges
         /\ d.postfork = c.postfork /\ SameBackend(c, d)
    BY <1>1, <2>8, <2>9 DEF LoopType, SameBackend
  <2> HIDE DEF d
  <2>12. m \in LoopType /\ ChangedFd(d, m, fd, {"REIFY"}) /\ (Queued(d) => Queued(m))
    BY <2>1, <2>10, <2>11, FdChange
  <2>13. Queued(d)
    BY <1>1, <2>6, <2>8, <2>11 DEF Queued, Withdrawn
  <2>14. \A j \in Ios : /\ SameIo(l, m, j) /\ (m.io[j].active <=> l.io[j].active /\ j # i)
                    /\ m.io[j].pending = IF j = i THEN 0 ELSE l.io[j].pending
    BY <1>1, <2>7, <2>9, <2>11, <2>12 DEF Withdrawn, ChangedFd, SameIo
  <2>15. \A f \in Fds :
       /\ SameGuess(l, m, f)
       /\ m.anfds[f].reify = IF l.io[i].active /\ l.io[i].fd = f
                             THEN l.anfds[f].reify \cup {"REIFY"} ELSE l.anfds[f].reify
       /\ m.anfds[f].head = IF f = fd THEN rest ELSE l.anfds[f].head
    BY <1>4, <2>6, <2>8, <2>11, <2>12 DEF ChangedFd, SameGuess
  <2>16. \A f \in Fds : ActiveOn(m, f) = IF f = fd THEN ActiveOn(l, f) \ {i} ELSE ActiveOn(l, f)
    BY <2>14 DEF ActiveOn, SameIo
  <2>17. Linked(m)
    BY <2>4, <2>14, <2>15, <2>16 DEF Linked, SameIo
  <2>18. Stopped(l, m, i)
    <3>1. SameBackend(l, m) /\ m.postfork = l.postfork /\ m.pendings = c.pendings
      BY <1>1, <2>11, <2>12 DEF Withdrawn, ChangedFd, SameBackend
    <3>2. /\ DOMAIN m.pendings = DOMAIN l.pendings
          /\ \A n \in DOMAIN l.pendings :
               /\ m.pendings[n].src = l.pendings[n].src
               /\ m.pendings[n].w = IF l.pendings[n].w = i THEN PendingW ELSE l.pendings[n].w
      BY <1>1, <3>1 DEF Withdrawn
    <3> QED
      BY <3>1, <3>2, <2>14, <2>15 DEF Stopped
  <2> QED
    BY <2>12, <2>13, <2>17, <2>18
<1> QED
  BY <1>3, <1>4

(* m is l with i, that was not active, started. *)
Started(l, m, i) ==
  /\ SameBackend(l, m) /\ m.postfork = l.postfork /\ m.pendings = l.pendings
  /\ \A j \in Ios : /\ m.io[j].fd = l.io[j].fd /\ m.io[j].pending = l.io[j].pending
                    /\ (m.io[j].fdset <=> l.io[j].fdset /\ j # i)
                    /\ (m.io[j].active <=> l.io[j].active \/ j = i)
  /\ \A fd \in Fds :
       /\ SameGuess(l, m, fd)
       /\ m.anfds[fd].reify =
            IF l.io[i].fd = fd
            THEN l.anfds[fd].reify \cup {"REIFY"} \cup (IF l.io[i].fdset THEN {"IOFDSET"} ELSE {})
            ELSE l.anfds[fd].reify

LEMMA StartIo ==
  ASSUME NEW l \in LoopType, Linked(l), Queued(l), NEW i \in Ios, ~l.io[i].active, l.io[i].fd \in Fds,
         NEW m, m = ev_io_start(l, i)
  PROVE  m \in LoopType /\ Started(l, m, i) /\ Linked(m) /\ Queued(m)
<1> DEFINE fd == l.io[i].fd
           fl == {"REIFY"} \cup (IF l.io[i].fdset THEN {"IOFDSET"} ELSE {})
           longer == <<i>> \o l.anfds[fd].head
           a == [l.anfds[fd] EXCEPT !.head = longer]
           A == [l.anfds EXCEPT ![fd] = a]
           o == [l.io[i] EXCEPT !.active = TRUE, !.fdset = FALSE]
           O == [l.io EXCEPT ![i] = o]
           d == [l EXCEPT !.anfds = A, !.io = O]
<1>1. l.anfds \in [Fds -> AnfdType] /\ l.io \in [Ios -> IoType]
  BY LoopFields DEF AnfdsType, IosType
<1>2. l.anfds[fd] \in AnfdType /\ l.io[i] \in IoType
  BY <1>1
<1>3. l.anfds[fd].head \in Seq(Ios) /\ IsInjective(l.anfds[fd].head) /\ Range(l.anfds[fd].head) = ActiveOn(l, fd)
      /\ i \notin ActiveOn(l, fd)
  BY <1>2 DEF AnfdType, Linked, ActiveOn
<1>4. longer \in Seq(Ios) /\ IsInjective(longer) /\ Range(longer) = ActiveOn(l, fd) \cup {i}
  BY <1>3, PrependOnly
<1>5. fl \in SUBSET {"REIFY", "IOFDSET"}
  OBVIOUS
<1> HIDE DEF longer, fl
<1>6. /\ a \in AnfdType /\ a.head = longer /\ a.events = l.anfds[fd].events /\ a.emask = l.anfds[fd].emask
      /\ a.egen = l.anfds[fd].egen /\ a.reify = l.anfds[fd].reify
  BY <1>2, <1>4 DEF AnfdType
<1>7. o \in IoType /\ o.fd = l.io[i].fd /\ o.fdset = FALSE /\ o.active = TRUE /\ o.pending = l.io[i].pending
  BY <1>2 DEF IoType
<1> HIDE DEF a, o
<1>8. A \in AnfdsType /\ \A f \in Fds : A[f] = IF f = fd THEN a ELSE l.anfds[f]
  BY <1>1, <1>6 DEF AnfdsType
<1>9. O \in IosType /\ \A j \in Ios : O[j] = IF j = i THEN o ELSE l.io[j]
  BY <1>1, <1>7 DEF IosType
<1>10. m = fd_change(d, fd, fl)
  BY DEF ev_io_start, a, o, longer, fl
<1> HIDE DEF A, O
<1>11. /\ d \in LoopType /\ d.anfds = A /\ d.io = O /\ d.pendings = l.pendings /\ d.fdchanges = l.fdchanges
       /\ d.postfork = l.postfork /\ SameBackend(l, d)
  BY <1>8, <1>9 DEF LoopType, SameBackend
<1> HIDE DEF d
<1>12. m \in LoopType /\ ChangedFd(d, m, fd, fl) /\ (Queued(d) => Queued(m))
  BY <1>5, <1>10, <1>11, FdChange
<1>13. Queued(d)
  BY <1>6, <1>8, <1>11 DEF Queued
<1>14. \A j \in Ios : /\ m.io[j].fd = l.io[j].fd /\ m.io[j].pending = l.io[j].pending
                    /\ (m.io[j].fdset <=> l.io[j].fdset /\ j # i)
                    /\ (m.io[j].active <=> l.io[j].active \/ j = i)
  BY <1>7, <1>9, <1>11, <1>12 DEF ChangedFd
<1>15. \A f \in Fds :
       /\ SameGuess(l, m, f)
       /\ m.anfds[f].reify = IF l.io[i].fd = f THEN l.anfds[f].reify \cup fl ELSE l.anfds[f].reify
       /\ m.anfds[f].head = IF f = fd THEN longer ELSE l.anfds[f].head
  BY <1>6, <1>8, <1>11, <1>12 DEF ChangedFd, SameGuess
<1>16. \A f \in Fds : ActiveOn(m, f) = IF f = fd THEN ActiveOn(l, f) \cup {i} ELSE ActiveOn(l, f)
  BY <1>14 DEF ActiveOn
<1>17. Linked(m)
  <2>1. ASSUME NEW f \in Fds PROVE IsInjective(m.anfds[f].head) /\ Range(m.anfds[f].head) = ActiveOn(m, f)
    <3>1. CASE f = fd
      BY <3>1, <1>4, <1>15, <1>16
    <3>2. CASE f # fd
      BY <3>2, <1>15, <1>16 DEF Linked
    <3> QED
      BY <3>1, <3>2
  <2>2. \A j \in Ios : m.io[j].active => m.io[j].fd \in Fds
    BY <1>14 DEF Linked
  <2> QED
    BY <2>1, <2>2 DEF Linked
<1>18. Started(l, m, i)
  <2>1. SameBackend(l, m) /\ m.postfork = l.postfork /\ m.pendings = l.pendings
    BY <1>11, <1>12 DEF ChangedFd, SameBackend
  <2>2. \A f \in Fds : m.anfds[f].reify =
            IF l.io[i].fd = f
            THEN l.anfds[f].reify \cup {"REIFY"} \cup (IF l.io[i].fdset THEN {"IOFDSET"} ELSE {})
            ELSE l.anfds[f].reify
    BY <1>15 DEF fl
  <2> QED
    BY <2>1, <2>2, <1>14, <1>15 DEF Started
<1> QED
  BY <1>12, <1>13, <1>17, <1>18

(* What the backends and libev's guesses at them need: that m differs from l *)
(* in neither, and that a descriptor that counted as new still does.         *)
LEMMA BackendCarries ==
  ASSUME NEW l, NEW m, NEW kern, NEW f, BackendInv(l, kern, f),
         SameBackend(l, m), m.postfork = l.postfork,
         \A fd \in Fds : SameGuess(l, m, fd) /\ (Anew(l, f, fd) => Anew(m, f, fd)),
         kern \in KernelType, l \in LoopType
  PROVE  BackendInv(m, kern, f)
<1>1. ASSUME EpollInv(l, kern, f) PROVE EpollInv(m, kern, f)
  <2>1. \A e \in kern.kset : e.fd \in Fds
    BY DEF KernelType, ItemType
  <2>2. ASSUME NEW e \in kern.kset PROVE ItemKnown(m, kern, f, e)
    <3>1. ItemKnown(l, kern, f, e) /\ e.fd \in Fds
      BY <1>1, <2>1 DEF EpollInv
    <3> QED
      BY <3>1 DEF ItemKnown, SameGuess
  <2>3. ASSUME NEW fd \in Fds PROVE InKernel(m, kern, f, fd) /\ KeptApart(m, kern, f, fd)
    <3>1. InKernel(l, kern, f, fd) /\ KeptApart(l, kern, f, fd)
      BY <1>1 DEF EpollInv
    <3> QED
      BY <3>1 DEF InKernel, KeptApart, SameGuess, SameBackend
  <2> QED
    BY <1>1, <2>2, <2>3 DEF EpollInv
<1>2. ASSUME PollInv(l) PROVE PollInv(m)
  <2>1. \A n \in DOMAIN l.poll.polls : l.poll.polls[n].fd \in Fds
    BY PollfdAt
  <2> QED
    BY <1>2, <2>1 DEF PollInv, SameBackend, SameGuess
<1>3. ASSUME SelectInv(l) PROVE SelectInv(m)
  BY <1>3 DEF SelectInv, SameBackend, SameGuess
<1> QED
  BY <1>1, <1>2, <1>3 DEF BackendInv, SameBackend

LEMMA StopKeeps ==
  ASSUME NEW l \in LoopType, NEW kern \in KernelType, NEW f \in Owners, LoopInv(l, kern, f),
         NEW i \in Ios, NEW m, m = ev_io_stop(l, i)
  PROVE  m \in LoopType /\ Stopped(l, m, i) /\ LoopInv(m, kern, f)
<1>1. m \in LoopType /\ Stopped(l, m, i) /\ Linked(m) /\ Queued(m)
  BY StopIo DEF LoopInv
<1>2. \A n \in DOMAIN l.pendings : l.pendings[n].w \in Ios \cup {PendingW}
  BY PendingAt
<1>3. Placed(m)
  <2>1. ASSUME NEW j \in Ios, m.io[j].pending # 0
        PROVE  m.io[j].active /\ m.io[j].pending \in DOMAIN m.pendings /\ m.pendings[m.io[j].pending].w = j
    BY <1>1, <2>1 DEF LoopInv, Placed, Stopped
  <2>2. ASSUME NEW n \in DOMAIN m.pendings, m.pendings[n].w # PendingW
        PROVE  m.io[m.pendings[n].w].pending = n
    BY <1>1, <1>2, <2>2 DEF LoopInv, Placed, Stopped
  <2> QED
    BY <2>1, <2>2 DEF Placed
<1>4. Sources(m, kern)
  BY <1>1, <1>2 DEF LoopInv, Sources, Stopped, SameIo
<1>5. Passed(m)
  <2> SUFFICES ASSUME NEW fd \in Fds, m.anfds[fd].reify = {} PROVE m.anfds[fd].events = Wanted(m, fd)
    BY DEF Passed
  <2>1. l.anfds[fd].reify = {} /\ ~(l.io[i].active /\ l.io[i].fd = fd)
    BY <1>1 DEF Stopped
  <2>2. ActiveOn(m, fd) = ActiveOn(l, fd)
    BY <1>1, <2>1 DEF ActiveOn, Stopped, SameIo
  <2> QED
    <3>1. Wanted(m, fd) = Wanted(l, fd)
      BY <2>2 DEF Wanted
    <3>2. m.anfds[fd].events = l.anfds[fd].events
      BY <1>1 DEF Stopped, SameGuess
    <3> QED
      BY <2>1, <3>1, <3>2 DEF LoopInv, Passed
<1>6. Owned(m, kern, f)
  BY <1>1 DEF LoopInv, Owned, Stopped, SameIo
<1>7. \A fd \in Fds : Anew(l, f, fd) => Anew(m, f, fd)
  BY <1>1, ZenonT(30) DEF Anew, Fresh, Stopped, SameIo
<1>8. BackendInv(m, kern, f)
  <2>1. SameBackend(l, m) /\ m.postfork = l.postfork /\ \A fd \in Fds : SameGuess(l, m, fd)
    BY <1>1 DEF Stopped
  <2> QED
    BY <2>1, <1>7, BackendCarries DEF LoopInv
<1> QED
  BY <1>1, <1>3, <1>4, <1>5, <1>6, <1>8 DEF LoopInv

LEMMA StartKeeps ==
  ASSUME NEW l \in LoopType, NEW kern \in KernelType, NEW f \in Owners, LoopInv(l, kern, f),
         NEW i \in Ios, ~l.io[i].active, f[i[1]] # NoFd, NEW m, m = ev_io_start(l, i)
  PROVE  m \in LoopType /\ Started(l, m, i) /\ LoopInv(m, kern, f)
<1>0. i[1] \in Watchers /\ l.io[i].fd \in Fds /\ f[i[1]] = l.io[i].fd
  <2>1. i[1] \in Watchers
    BY DEF Ios
  <2> QED
    BY <2>1 DEF LoopInv, Owned, Owners
<1>1. m \in LoopType /\ Started(l, m, i) /\ Linked(m) /\ Queued(m)
  BY <1>0, StartIo DEF LoopInv
<1>2. \A n \in DOMAIN l.pendings : l.pendings[n].w \in Ios \cup {PendingW}
  BY PendingAt
<1>3. Placed(m)
  BY <1>1, <1>2 DEF LoopInv, Placed, Started
<1>4. Sources(m, kern)
  BY <1>1, <1>2 DEF LoopInv, Sources, Started
<1>5. Passed(m)
  <2> SUFFICES ASSUME NEW fd \in Fds, m.anfds[fd].reify = {} PROVE m.anfds[fd].events = Wanted(m, fd)
    BY DEF Passed
  <2>1. l.anfds[fd].reify = {} /\ l.io[i].fd # fd
    BY <1>1 DEF Started
  <2>2. ActiveOn(m, fd) = ActiveOn(l, fd)
    BY <1>1, <2>1 DEF ActiveOn, Started
  <2> QED
    <3>1. Wanted(m, fd) = Wanted(l, fd)
      BY <2>2 DEF Wanted
    <3>2. m.anfds[fd].events = l.anfds[fd].events
      BY <1>1 DEF Started, SameGuess
    <3> QED
      BY <2>1, <3>1, <3>2 DEF LoopInv, Passed
<1>6. Owned(m, kern, f)
  BY <1>1 DEF LoopInv, Owned, Started
<1>7. ASSUME NEW fd \in Fds, Anew(l, f, fd) PROVE Anew(m, f, fd)
  <2>1. CASE "IOFDSET" \in l.anfds[fd].reify
    BY <1>1, <2>1 DEF Anew, Started
  <2>2. CASE Fresh(l, f, fd) /\ fd = l.io[i].fd
    <3>1. l.io[i].fdset
      BY <1>0, <2>2 DEF Fresh
    <3> QED
      BY <1>1, <2>2, <3>1 DEF Anew, Started
  <2>3. CASE Fresh(l, f, fd) /\ fd # l.io[i].fd
    BY <1>0, <1>1, <2>3 DEF Anew, Fresh, Started
  <2> QED
    BY <1>7, <2>1, <2>2, <2>3 DEF Anew
<1>8. BackendInv(m, kern, f)
  <2>1. SameBackend(l, m) /\ m.postfork = l.postfork /\ \A fd \in Fds : SameGuess(l, m, fd)
    BY <1>1 DEF Started
  <2> QED
    BY <2>1, <1>7, BackendCarries DEF LoopInv
<1> QED
  BY <1>1, <1>3, <1>4, <1>5, <1>6, <1>8 DEF LoopInv

-----------------------------------------------------------------------------
(* Events *)

(* m is l but for the events that are pending. *)
SameButPending(l, m) ==
  /\ SameBackend(l, m) /\ m.anfds = l.anfds /\ m.fdchanges = l.fdchanges /\ m.postfork = l.postfork
  /\ \A j \in Ios : SameIo(l, m, j) /\ (m.io[j].active <=> l.io[j].active)

LEMMA FeedIo ==
  ASSUME NEW l \in LoopType, NEW kern \in KernelType, Placed(l), Sources(l, kern),
         NEW i \in Ios, l.io[i].active, l.io[i].fd \in Fds, NEW revents \in SUBSET Ev,
         NEW m, m = ev_feed_event(l, i, revents, kern.file[l.io[i].fd])
  PROVE  m \in LoopType /\ SameButPending(l, m) /\ Placed(m) /\ Sources(m, kern)
<1> DEFINE src == kern.file[l.io[i].fd]
           n == l.io[i].pending
<1>1. l.pendings \in Seq(PendingType) /\ l.io \in [Ios -> IoType] /\ src \in Files \cup {None}
  BY LoopFields DEF PendingsType, IosType, KernelType
<1>2. l.io[i] \in IoType
  BY <1>1
<1> HIDE DEF src
<1>3. CASE n # 0
  <2> DEFINE p == AlsoFor(l.pendings[n], revents, src)
             P == [l.pendings EXCEPT ![n] = p]
  <2>1. n \in DOMAIN l.pendings /\ l.pendings[n].w = i
    BY <1>3 DEF Placed
  <2>2. l.pendings[n].src = {src}
    BY <2>1, PendingAssumption DEF Sources, src
  <2>3. l.pendings[n] \in PendingType
    BY <1>1, <2>1
  <2>4. p \in PendingType /\ p.w = i /\ p.src = {src}
    BY <1>1, <2>1, <2>2, <2>3 DEF PendingType, AlsoFor
  <2> HIDE DEF p
  <2>5. P \in PendingsType /\ DOMAIN P = DOMAIN l.pendings /\ \A q \in DOMAIN P : P[q] = IF q = n THEN p ELSE l.pendings[q]
    BY <1>1, <2>1, <2>4 DEF PendingsType
  <2>6. m = [l EXCEPT !.pendings = P]
    BY <1>3 DEF ev_feed_event, src, p
  <2> HIDE DEF P, n
  <2>7. m \in LoopType /\ m.pendings = P /\ m.io = l.io /\ SameBackend(l, m) /\ m.anfds = l.anfds
        /\ m.fdchanges = l.fdchanges /\ m.postfork = l.postfork
    BY <2>5, <2>6 DEF LoopType, SameBackend
  <2>10. ASSUME NEW q \in DOMAIN l.pendings
         PROVE  m.pendings[q].w = l.pendings[q].w /\ m.pendings[q].src = l.pendings[q].src
    <3>1. m.pendings[q] = IF q = n THEN p ELSE l.pendings[q]
      BY <2>5, <2>7
    <3> QED
      BY <3>1, <2>1, <2>2, <2>4
  <2>11. DOMAIN m.pendings = DOMAIN l.pendings
    BY <2>5, <2>7
  <2>12. m.io = l.io
    BY <2>7
  <2>8. Placed(m)
    <3>1. ASSUME NEW j \in Ios, m.io[j].pending # 0
          PROVE  m.io[j].active /\ m.io[j].pending \in DOMAIN m.pendings /\ m.pendings[m.io[j].pending].w = j
      <4>1. m.io[j] = l.io[j]
        BY <2>12
      <4>2. l.io[j].active /\ l.io[j].pending \in DOMAIN l.pendings /\ l.pendings[l.io[j].pending].w = j
        BY <3>1, <4>1 DEF Placed
      <4> QED
        BY <4>1, <4>2, <2>10, <2>11, ZenonT(30)
    <3>2. ASSUME NEW q \in DOMAIN m.pendings, m.pendings[q].w # PendingW
          PROVE  m.io[m.pendings[q].w].pending = q
      BY <3>2, <2>10, <2>11, <2>12, ZenonT(30) DEF Placed
    <3> QED
      BY <3>1, <3>2, ZenonT(30) DEF Placed
  <2>9. Sources(m, kern)
    <3>1. \A q \in DOMAIN m.pendings : m.pendings[q].w # PendingW =>
            m.pendings[q].src = {kern.file[l.io[m.pendings[q].w].fd]}
      BY <2>10, <2>11, ZenonT(30) DEF Sources
    <3> QED
      BY <3>1, <2>12, ZenonT(30) DEF Sources
  <2> QED
    BY <2>7, <2>8, <2>9 DEF SameButPending, SameIo
<1>4. CASE n = 0
  <2> DEFINE len == Len(l.pendings)
             p == [w |-> i, events |-> revents, src |-> {src}]
             P == Append(l.pendings, p)
             o == [l.io[i] EXCEPT !.pending = len + 1]
             O == [l.io EXCEPT ![i] = o]
  <2>1. len \in Nat /\ len + 1 \in Nat /\ DOMAIN l.pendings = 1 .. len
    BY <1>1, LenProperties
  <2>2. p \in PendingType /\ p.w = i /\ p.src = {src}
    BY <1>1 DEF PendingType
  <2> HIDE DEF p
  <2>3. P \in Seq(PendingType) /\ Len(P) = len + 1 /\ DOMAIN P = 1 .. len + 1
    BY <1>1, <2>1, <2>2, AppendProperties, LenProperties
  <2>4. \A q \in 1 .. len + 1 : P[q] = IF q = len + 1 THEN p ELSE l.pendings[q]
    BY <1>1, <2>1, <2>2, AppendProperties
  <2>5. o \in IoType /\ o.fd = l.io[i].fd /\ o.fdset = l.io[i].fdset /\ o.active = l.io[i].active /\ o.pending = len + 1
    <3> HIDE DEF len
    <3> QED
      BY <1>2, <2>1 DEF IoType
  <2>6. m = [l EXCEPT !.pendings = P, !.io = O]
    BY <1>4 DEF ev_feed_event, src, p, O, o
  <2> HIDE DEF P, o
  <2>7. O \in IosType /\ \A j \in Ios : O[j] = IF j = i THEN o ELSE l.io[j]
    BY <1>1, <2>5 DEF IosType
  <2> HIDE DEF O, len
  <2>8. m \in LoopType /\ m.pendings = P /\ m.io = O /\ SameBackend(l, m) /\ m.anfds = l.anfds
        /\ m.fdchanges = l.fdchanges /\ m.postfork = l.postfork
    BY <2>3, <2>6, <2>7, Zenon DEF LoopType, SameBackend, PendingsType
  <2>9. Placed(m)
    <3>1. ASSUME NEW j \in Ios, m.io[j].pending # 0
          PROVE  m.io[j].active /\ m.io[j].pending \in DOMAIN m.pendings /\ m.pendings[m.io[j].pending].w = j
      <4>1. CASE j = i
        <5>1. m.io[j] = o /\ m.io[j].pending = len + 1
          BY <4>1, <2>5, <2>7, <2>8
        <5>2. len + 1 \in 1 .. len + 1
          BY <2>1
        <5>3. m.pendings[len + 1] = p /\ len + 1 \in DOMAIN m.pendings
          BY <5>2, <2>3, <2>4, <2>8
        <5> QED
          BY <4>1, <5>1, <5>3, <2>2, <2>5
      <4>2. CASE j # i
        <5>1. m.io[j] = l.io[j]
          BY <4>2, <2>7, <2>8
        <5>2. l.io[j].active /\ l.io[j].pending \in DOMAIN l.pendings /\ l.pendings[l.io[j].pending].w = j
          BY <3>1, <5>1 DEF Placed
        <5>3. l.io[j].pending \in 1 .. len + 1 /\ l.io[j].pending # len + 1
          BY <5>2, <2>1
        <5> QED
          BY <5>1, <5>2, <5>3, <2>3, <2>4, <2>8
      <4> QED
        BY <4>1, <4>2, Zenon
    <3>2. ASSUME NEW q \in DOMAIN m.pendings, m.pendings[q].w # PendingW
          PROVE  m.io[m.pendings[q].w].pending = q
      <4>1. q \in 1 .. len + 1
        BY <2>3, <2>8
      <4>2. CASE q = len + 1
        BY <4>1, <4>2, <2>2, <2>4, <2>5, <2>7, <2>8
      <4>3. CASE q # len + 1
        <5>1. q \in DOMAIN l.pendings /\ m.pendings[q] = l.pendings[q]
          BY <4>1, <4>3, <2>1, <2>4, <2>8
        <5>2. l.pendings[q].w \in Ios /\ l.io[l.pendings[q].w].pending = q
          BY <5>1, <3>2, PendingAt DEF Placed
        <5>3. q # 0
          BY <2>1, <4>1
        <5> QED
          BY <1>4, <5>1, <5>2, <5>3, <2>7, <2>8
      <4> QED
        BY <4>2, <4>3, ZenonT(30)
    <3> QED
      BY <3>1, <3>2 DEF Placed
  <2>10. Sources(m, kern)
    <3> SUFFICES ASSUME NEW q \in DOMAIN m.pendings, m.pendings[q].w # PendingW
                 PROVE  m.pendings[q].src = {kern.file[m.io[m.pendings[q].w].fd]}
      BY ZenonT(30) DEF Sources
    <3>1. q \in 1 .. len + 1
      BY <2>3, <2>8
    <3>2. \A j \in Ios : m.io[j].fd = l.io[j].fd
      BY <2>5, <2>7, <2>8
    <3>3. CASE q = len + 1
      BY <3>1, <3>2, <3>3, <2>2, <2>4, <2>8 DEF src
    <3>4. CASE q # len + 1
      <4>1. q \in DOMAIN l.pendings /\ m.pendings[q] = l.pendings[q]
        BY <3>1, <3>4, <2>1, <2>4, <2>8
      <4> QED
        <5>1. l.pendings[q].w \in Ios /\ l.pendings[q].w # PendingW
          BY <4>1, PendingAt
        <5>2. l.pendings[q].src = {kern.file[l.io[l.pendings[q].w].fd]}
          BY <4>1, <5>1, ZenonT(30) DEF Sources
        <5> QED
          BY <3>2, <4>1, <5>1, <5>2, ZenonT(30)
    <3> QED
      BY <3>3, <3>4, ZenonT(30)
  <2>11. \A j \in Ios : SameIo(l, m, j) /\ (m.io[j].active <=> l.io[j].active)
    BY <2>5, <2>7, <2>8 DEF SameIo
  <2> QED
    BY <2>8, <2>9, <2>10, <2>11 DEF SameButPending
<1> QED
  BY <1>3, <1>4

(* Pending events are all that the invariant says of events. *)
LEMMA PendingCarries ==
  ASSUME NEW l \in LoopType, NEW kern \in KernelType, NEW f \in Owners, LoopInv(l, kern, f),
         NEW m, SameButPending(l, m), Placed(m), Sources(m, kern)
  PROVE  LoopInv(m, kern, f)
<1>1. \A fd \in Fds : ActiveOn(m, fd) = ActiveOn(l, fd)
  BY DEF SameButPending, SameIo, ActiveOn
<1>2. \A fd \in Fds : Wanted(m, fd) = Wanted(l, fd)
  BY <1>1 DEF Wanted
<1>3. Linked(m)
  BY <1>1 DEF LoopInv, Linked, SameButPending, SameIo
<1>4. Queued(m) /\ Passed(m)
  BY <1>2 DEF LoopInv, Queued, Passed, SameButPending
<1>5. Owned(m, kern, f)
  BY DEF LoopInv, Owned, SameButPending, SameIo
<1>6. \A fd \in Fds : Anew(l, f, fd) => Anew(m, f, fd)
  BY DEF Anew, Fresh, SameButPending, SameIo
<1>7. BackendInv(m, kern, f)
  BY <1>6, BackendCarries DEF LoopInv, SameButPending, SameGuess
<1> QED
  BY <1>3, <1>4, <1>5, <1>7 DEF LoopInv

LEMMA SameButPendingTwice ==
  ASSUME NEW l, NEW m, NEW n, SameButPending(l, m), SameButPending(m, n)
  PROVE  SameButPending(l, n)
  BY DEF SameButPending, SameBackend, SameIo

(* fd_event: an event is fed to ev_io of the descriptor, with its present file. *)
LEMMA EventKeeps ==
  ASSUME NEW l \in LoopType, NEW kern \in KernelType, NEW f \in Owners, LoopInv(l, kern, f),
         NEW fd \in Fds, NEW revents \in SUBSET Ev, NEW src,
         l.anfds[fd].reify = {} /\ ActiveOn(l, fd) # {} => src = kern.file[fd],
         NEW m, m = fd_event(l, fd, revents, src)
  PROVE  m \in LoopType /\ SameButPending(l, m) /\ LoopInv(m, kern, f)
<1> DEFINE S == {s \in LoopType : SameButPending(l, s) /\ Placed(s) /\ Sources(s, kern)}
           T == ActiveOn(l, fd)
           head == l.anfds[fd].head
           op(s, i) == IF EventsOf[i] \cap revents = {} THEN s
                       ELSE ev_feed_event(s, i, EventsOf[i] \cap revents, src)
           G == [p \in S \X T |-> op(p[1], p[2])]
           Def(it) == [s \in SUBSET DOMAIN head |->
                         IF s = {} THEN l ELSE op(it[s \ {Max(s)}], head[Max(s)])]
           it == CHOOSE it : it = Def(it)
<1>1. l \in S
  BY DEF LoopInv, SameButPending, SameBackend, SameIo
<1>2. CASE l.anfds[fd].reify # {}
  <2>1. m = l
    BY <1>2 DEF fd_event
  <2> QED
    BY <2>1, <1>1
<1>3. CASE l.anfds[fd].reify = {}
  <2>1. ASSUME NEW s \in S, NEW i \in T PROVE op(s, i) \in S
    <3>1. CASE EventsOf[i] \cap revents = {}
      BY <3>1
    <3>2. CASE EventsOf[i] \cap revents # {}
      <4>1. src = kern.file[fd]
        BY <1>3
      <4>2. i \in Ios /\ s.io[i].active /\ s.io[i].fd = fd
        BY DEF SameButPending, SameIo, ActiveOn
      <4>3. EventsOf[i] \cap revents \in SUBSET Ev
        OBVIOUS
      <4> DEFINE n == ev_feed_event(s, i, EventsOf[i] \cap revents, src)
      <4>4. n \in LoopType /\ SameButPending(s, n) /\ Placed(n) /\ Sources(n, kern)
        BY <4>1, <4>2, <4>3, FeedIo
      <4> HIDE DEF n
      <4>5. SameButPending(l, n)
        BY <4>4, SameButPendingTwice
      <4>6. op(s, i) = n
        BY <3>2 DEF n
      <4> HIDE DEF op
      <4> QED
        BY <4>4, <4>5, <4>6
    <3> QED
      BY <3>1, <3>2
  <2>2. G \in [S \X T -> S]
    <3> HIDE DEF S, T, op
    <3> QED
      BY <2>1
  <2>3. head \in Seq(T)
    <3>1. head \in Seq(Ios)
      <4>1. l.anfds[fd] \in AnfdType
        BY LoopFields DEF AnfdsType
      <4> QED
        BY <4>1 DEF AnfdType
    <3>2. Range(head) = T
      BY DEF LoopInv, Linked
    <3> QED
      BY <3>1, <3>2, SeqOfRange
  <2> HIDE DEF S, T, head, op
  <2>4. PICK g : IsFold(S, T, G, l, head, g)
    <3> HIDE DEF G
    <3> QED
      BY <1>1, <2>2, <2>3, FoldExists
  <2>5. g = Def(g)
    BY <2>4 DEF IsFold
  <2>6. it = Def(it)
    <3> HIDE DEF Def
    <3> QED
      BY <2>5
  <2> HIDE DEF it
  <2>7. Follows(S, T, G, l, head, it)
    BY <2>6 DEF Follows
  <2> HIDE DEF G, Def
  <2>8. PICK r : Runs(S, G, l, head, r, it[DOMAIN head])
    BY <1>1, <2>2, <2>3, <2>7, FoldRuns
  <2>9. m = it[DOMAIN head]
    BY <1>3 DEF fd_event, FoldLeft, MapThenFoldSet, head, it, Def, op
  <2>10. m \in S
    <3>1. Len(head) \in 0 .. Len(head)
      BY <2>3, LenProperties
    <3> QED
      BY <3>1, <2>8, <2>9 DEF Runs
  <2>13. m \in LoopType /\ SameButPending(l, m) /\ Placed(m) /\ Sources(m, kern)
    BY <2>10 DEF S
  <2> QED
    BY <2>13, PendingCarries
<1> QED
  BY <1>2, <1>3

-----------------------------------------------------------------------------
(* fd_reify: epoll_modify, poll_modify, select_modify *)

(* The events of fd are settled: m is l with no change of fd left to pass on. *)
Settled(l, m, fd, new) ==
  /\ SameBackend(l, m) /\ m.io = l.io /\ m.pendings = l.pendings /\ m.fdchanges = l.fdchanges /\ m.postfork = l.postfork
  /\ \A g \in Fds : /\ m.anfds[g].head = l.anfds[g].head /\ m.anfds[g].emask = l.anfds[g].emask
                    /\ m.anfds[g].egen = l.anfds[g].egen
                    /\ m.anfds[g].events = IF g = fd THEN new ELSE l.anfds[g].events
                    /\ m.anfds[g].reify = IF g = fd THEN {} ELSE l.anfds[g].reify

(* What a backend's modify leaves alone *)
SameButBackend(m, n) ==
  /\ n.backend = m.backend /\ n.io = m.io /\ n.pendings = m.pendings /\ n.fdchanges = m.fdchanges
  /\ n.postfork = m.postfork
  /\ \A g \in Fds : /\ n.anfds[g].head = m.anfds[g].head /\ n.anfds[g].events = m.anfds[g].events
                    /\ n.anfds[g].reify = m.anfds[g].reify

LEMMA Settle ==
  ASSUME NEW l \in LoopType, NEW fd \in Fds, NEW new \in SUBSET Ev,
         NEW m, m = PassedOn(l, fd, new)
  PROVE  m \in LoopType /\ Settled(l, m, fd, new)
<1> DEFINE a == [l.anfds[fd] EXCEPT !.reify = {}, !.events = new]
           A == [l.anfds EXCEPT ![fd] = a]
<1>1. l.anfds \in [Fds -> AnfdType] /\ l.anfds[fd] \in AnfdType
  BY LoopFields DEF AnfdsType
<1>2. a \in AnfdType /\ a.head = l.anfds[fd].head /\ a.emask = l.anfds[fd].emask
        /\ a.egen = l.anfds[fd].egen /\ a.events = new /\ a.reify = {}
  BY <1>1 DEF AnfdType
<1>3. m = [l EXCEPT !.anfds = A]
  BY <1>1 DEF PassedOn, LoopType, AnfdType
<1> HIDE DEF a
<1>4. A \in AnfdsType /\ \A g \in Fds : A[g] = IF g = fd THEN a ELSE l.anfds[g]
  BY <1>1, <1>2 DEF AnfdsType
<1> HIDE DEF A
<1>5. /\ m \in LoopType /\ m.anfds = A /\ SameBackend(l, m) /\ m.io = l.io /\ m.pendings = l.pendings
      /\ m.fdchanges = l.fdchanges /\ m.postfork = l.postfork
  BY <1>3, <1>4 DEF LoopType, SameBackend
<1>6. ASSUME NEW g \in Fds
      PROVE  /\ m.anfds[g].head = l.anfds[g].head /\ m.anfds[g].emask = l.anfds[g].emask
             /\ m.anfds[g].egen = l.anfds[g].egen
             /\ m.anfds[g].events = IF g = fd THEN new ELSE l.anfds[g].events
             /\ m.anfds[g].reify = IF g = fd THEN {} ELSE l.anfds[g].reify
  BY <1>2, <1>4, <1>5
<1> QED
  BY <1>5, <1>6 DEF Settled

EmaskType == SUBSET (Ev \cup {"EPERM"})
EpermsType == SUBSET Fds

(* The masks and generations as epoll_modify and epoll_poll set them *)
Remasked(m, fd, emask, egen, eperms) ==
  [m EXCEPT !.anfds[fd].emask = emask, !.anfds[fd].egen = egen, !.epoll = [eperms |-> eperms]]

LEMMA Remask ==
  ASSUME NEW m \in LoopType, NEW fd \in Fds, NEW emask \in EmaskType, NEW egen \in Nat,
         NEW eperms \in EpermsType,
         NEW n, n = Remasked(m, fd, emask, egen, eperms)
  PROVE  /\ n \in LoopType /\ SameButBackend(m, n) /\ n.poll = m.poll /\ n.select = m.select
         /\ n.epoll.eperms = eperms
         /\ \A g \in Fds : /\ n.anfds[g].emask = IF g = fd THEN emask ELSE m.anfds[g].emask
                           /\ n.anfds[g].egen = IF g = fd THEN egen ELSE m.anfds[g].egen
<1> DEFINE a == [m.anfds[fd] EXCEPT !.emask = emask, !.egen = egen]
           A == [m.anfds EXCEPT ![fd] = a]
           E == [eperms |-> eperms]
<1>1. m.anfds \in [Fds -> AnfdType] /\ m.anfds[fd] \in AnfdType /\ m.epoll \in EpollType
  BY LoopFields DEF AnfdsType
<1>2. a \in AnfdType /\ a.head = m.anfds[fd].head /\ a.emask = emask
        /\ a.egen = egen /\ a.events = m.anfds[fd].events /\ a.reify = m.anfds[fd].reify
  BY <1>1 DEF AnfdType, EmaskType
<1>3. n = [m EXCEPT !.anfds = A, !.epoll = E]
  BY <1>1 DEF LoopType, AnfdType, EpollType, Remasked
<1> HIDE DEF a
<1>4. A \in AnfdsType /\ \A g \in Fds : A[g] = IF g = fd THEN a ELSE m.anfds[g]
  BY <1>1, <1>2 DEF AnfdsType
<1>5. E \in EpollType /\ E.eperms = eperms
  BY <1>1 DEF EpollType, EpermsType
<1> HIDE DEF A, E
<1>6. /\ n \in LoopType /\ n.anfds = A /\ n.epoll = E /\ n.poll = m.poll /\ n.select = m.select /\ n.backend = m.backend
      /\ n.io = m.io /\ n.pendings = m.pendings /\ n.fdchanges = m.fdchanges /\ n.postfork = m.postfork
  BY <1>3, <1>4, <1>5 DEF LoopType
<1> QED
  BY <1>2, <1>4, <1>5, <1>6 DEF SameButBackend

(* The kernel's set with a new item for the present file of fd *)
HasItem(kern, n, fd, mask, gen) ==
  /\ n \in KernelType /\ n.file = kern.file
  /\ \A e \in n.kset : \/ e \in kern.kset /\ ~(e.fd = fd /\ e.file = kern.file[fd])
                       \/ e.fd = fd /\ e.file = kern.file[fd] /\ e.mask = mask /\ e.gen = gen
  /\ \A e \in kern.kset : e.fd # fd => e \in n.kset
  /\ \E e \in n.kset : e.fd = fd /\ e.file = kern.file[fd] /\ e.mask = mask /\ e.gen = gen

LEMMA SetItem ==
  ASSUME NEW kern \in KernelType, NEW fd \in Fds, kern.file[fd] \in Files \ Plain, NEW mask,
         NEW gen \in Nat, NEW n, n = KernelSet(kern, fd, mask, gen)
  PROVE  HasItem(kern, n, fd, mask \cap RW, gen)
<1> DEFINE d == [fd |-> fd, file |-> kern.file[fd], mask |-> mask \cap RW, gen |-> gen]
           K == {e \in kern.kset : ~(e.fd = fd /\ e.file = kern.file[fd])} \cup {d}
<1>1. kern.kset \in SUBSET ItemType
  BY DEF KernelType
<1>2. d \in ItemType /\ d.fd = fd /\ d.file = kern.file[fd] /\ d.mask = mask \cap RW /\ d.gen = gen
  BY DEF ItemType
<1>3. n = [kern EXCEPT !.kset = K]
  BY DEF KernelSet, KernelDel, KernelType
<1> HIDE DEF d
<1>4. K \in SUBSET ItemType
  BY <1>1, <1>2
<1>5. n.kset = K /\ n.file = kern.file /\ n \in KernelType
  <2> HIDE DEF K
  <2> QED
    BY <1>3, <1>4 DEF KernelType
<1> QED
  BY <1>2, <1>5 DEF HasItem

(* epoll_modify: what libev then believes the kernel to have of fd, it has. *)
LEMMA EpollModifies ==
  ASSUME NEW l \in LoopType, NEW kern \in KernelType, NEW f \in Owners, NEW fd \in Fds, NEW new \in SUBSET Ev,
         EpollInv(l, kern, f), new # {} => kern.file[fd] # None,
         NEW m \in LoopType, Settled(l, m, fd, new), NEW c, c.ev = m, c.k = kern,
         c = [ev |-> m, k |-> kern],
         NEW q, q = epoll_modify(c, fd, l.anfds[fd].events, new)
  PROVE  /\ q = [ev |-> q.ev, k |-> q.k] /\ q.ev \in LoopType /\ q.k \in KernelType /\ q.k.file = kern.file
         /\ SameButBackend(m, q.ev) /\ EpollInv(q.ev, q.k, f)
<1> DEFINE oldmask == l.anfds[fd].emask
           egen == l.anfds[fd].egen
           gen == egen + 1
           present == kern.file[fd]
<1>1. l.anfds \in [Fds -> AnfdType] /\ l.epoll \in EpollType /\ kern.file \in [Fds -> Files \cup {None}]
  BY LoopFields DEF AnfdsType, KernelType
<1>2. l.anfds[fd] \in AnfdType
  BY <1>1
<1>3. oldmask \in SUBSET (Ev \cup {"EPERM"}) /\ egen \in Nat /\ gen \in Nat /\ gen > egen /\ l.epoll.eperms \in SUBSET Fds
  BY <1>1, <1>2 DEF AnfdType, EpollType
<1>4. m.anfds[fd].emask = oldmask /\ m.anfds[fd].egen = egen /\ m.epoll = l.epoll /\ m.postfork = l.postfork
  BY DEF Settled, SameBackend
<1>5. \A e \in kern.kset : e.fd \in Fds /\ e.file \in Files \ Plain /\ e.gen \in Nat
  BY DEF KernelType, ItemType
<1>6. ASSUME NEW n, NEW g \in Fds, g # fd, Anew(l, f, g), SameButBackend(m, n) PROVE Anew(n, f, g)
  BY <1>6 DEF Anew, Fresh, Settled, SameButBackend
<1> HIDE DEF oldmask, egen, gen
<1>7. ASSUME NEW e \in kern.kset PROVE ItemKnown(l, kern, f, e)
  BY DEF EpollInv
<1>8. OneFilePerGeneration(kern) /\ \A g \in Fds : InKernel(l, kern, f, g) /\ KeptApart(l, kern, f, g)
  BY DEF EpollInv
<1>9. CASE new = {}
  <2>1. q = c
    BY <1>9 DEF epoll_modify, gen
  <2>2. SameButBackend(m, m)
    BY DEF SameButBackend
  <2>3. ASSUME NEW e \in kern.kset PROVE ItemKnown(m, kern, f, e)
    <3>1. CASE e.fd = fd
      BY <1>5, <1>7, <1>9, <3>1 DEF ItemKnown, Settled
    <3>2. CASE e.fd # fd
      BY <1>5, <1>6, <1>7, <2>2, <3>2 DEF ItemKnown, Settled
    <3> QED
      BY <3>1, <3>2
  <2>4. ASSUME NEW g \in Fds PROVE InKernel(m, kern, f, g) /\ KeptApart(m, kern, f, g)
    <3>1. CASE g = fd
      BY <1>8, <1>9, <3>1 DEF InKernel, KeptApart, Settled, SameBackend
    <3>2. CASE g # fd
      BY <1>6, <1>8, <2>2, <3>2 DEF InKernel, KeptApart, Settled, SameBackend
    <3> QED
      BY <3>1, <3>2
  <2> QED
    BY <2>1, <2>2, <2>3, <2>4, <1>8 DEF EpollInv
<1>10. CASE new # {} /\ present \in Plain
  <2> DEFINE n == q.ev
             P == IF "EPERM" \in oldmask THEN l.epoll.eperms ELSE l.epoll.eperms \cup {fd}
  <2>1. present # None
    BY <1>10, FilesAssumption
  <2>2. P = l.epoll.eperms \cup {fd} /\ P \in SUBSET Fds
    BY <1>3, <1>8 DEF KeptApart, oldmask
  <2>3. q = [ev |-> [m EXCEPT !.anfds[fd].emask = {"EPERM"}, !.anfds[fd].egen = gen, !.epoll.eperms = P], k |-> kern]
    BY <1>4, <1>10, <2>1 DEF epoll_modify, gen
  <2>9. q.k = kern /\ q = [ev |-> n, k |-> q.k]
    BY <2>3
  <2>4. n = [m EXCEPT !.anfds[fd].emask = {"EPERM"}, !.anfds[fd].egen = gen, !.epoll.eperms = P]
    BY <2>3
  <2> HIDE DEF n, P
  <2>5. n = Remasked(m, fd, {"EPERM"}, gen, P)
    <3>1. [m.epoll EXCEPT !.eperms = P] = [eperms |-> P]
      BY <1>1, <1>4 DEF EpollType
    <3>2. n = [m EXCEPT !.anfds[fd].emask = {"EPERM"}, !.anfds[fd].egen = gen, !.epoll = [m.epoll EXCEPT !.eperms = P]]
      BY <2>4
    <3> QED
      BY <3>1, <3>2 DEF Remasked
  <2>6. /\ n \in LoopType /\ SameButBackend(m, n) /\ n.epoll.eperms = l.epoll.eperms \cup {fd}
        /\ \A g \in Fds : /\ n.anfds[g].emask = IF g = fd THEN {"EPERM"} ELSE m.anfds[g].emask
                          /\ n.anfds[g].egen = IF g = fd THEN gen ELSE m.anfds[g].egen
    <3>1. {"EPERM"} \in EmaskType /\ P \in EpermsType
      BY <2>2 DEF EmaskType, EpermsType
    <3>2. /\ n \in LoopType /\ SameButBackend(m, n) /\ n.epoll.eperms = P
          /\ \A g \in Fds : /\ n.anfds[g].emask = IF g = fd THEN {"EPERM"} ELSE m.anfds[g].emask
                            /\ n.anfds[g].egen = IF g = fd THEN gen ELSE m.anfds[g].egen
      BY <1>3, <2>5, <3>1, Remask
    <3> QED
      BY <2>2, <3>2
  <2>7. ASSUME NEW e \in kern.kset PROVE ItemKnown(n, kern, f, e)
    <3>1. CASE e.fd = fd
      BY <1>3, <1>5, <1>7, <1>10, <2>6, <3>1 DEF ItemKnown, egen
    <3>2. CASE e.fd # fd
      <4>1. SameGuess(l, n, e.fd)
        BY <1>5, <2>6, <3>2 DEF Settled, SameButBackend, SameGuess
      <4> QED
        BY <1>5, <1>6, <1>7, <2>6, <3>2, <4>1 DEF ItemKnown, SameGuess
    <3> QED
      BY <3>1, <3>2
  <2>8. ASSUME NEW g \in Fds PROVE InKernel(n, kern, f, g) /\ KeptApart(n, kern, f, g)
    <3>1. CASE g = fd
      BY <1>8, <1>10, <2>6, <3>1 DEF InKernel, KeptApart
    <3>2. CASE g # fd
      BY <1>4, <1>6, <1>8, <2>6, <3>2 DEF InKernel, KeptApart, Settled, SameButBackend
    <3> QED
      BY <3>1, <3>2
  <2> QED
    BY <2>6, <2>7, <2>8, <2>9, <1>8 DEF EpollInv, n
<1>11. CASE new # {} /\ present \in Files \ Plain
  <2> DEFINE MOD == l.anfds[fd].events # {} /\ oldmask # new
             n == q.ev
  <2>1. present # None
    BY <1>11
  <2>2. CASE ~MOD /\ Registered(kern, fd) /\ oldmask = new
    <3>1. q = [ev |-> [m EXCEPT !.anfds[fd].emask = new], k |-> kern]
      BY <1>4, <1>11, <2>1, <2>2 DEF epoll_modify, gen
    <3>2. [m EXCEPT !.anfds[fd].emask = new] = m
      BY <1>4, <2>2, LoopFields DEF LoopType, AnfdsType, AnfdType
    <3>3. q = [ev |-> m, k |-> kern]
      BY <3>1, <3>2
    <3>4. SameButBackend(m, m)
      BY DEF SameButBackend
    <3>5. PICK d \in kern.kset : d.fd = fd /\ d.file = present
      BY <2>2 DEF Registered
    <3>6. d.gen = egen /\ d.mask = new \cap RW
      BY <1>7, <1>11, <2>2, <3>5 DEF ItemKnown, egen, oldmask
    <3>7. ASSUME NEW e \in kern.kset PROVE ItemKnown(m, kern, f, e)
      <4>1. CASE e.fd = fd
        <5>1. e.gen = egen => e.file = present
          BY <1>8, <3>5, <3>6, <4>1 DEF OneFilePerGeneration
        <5> QED
          BY <1>4, <1>5, <1>7, <4>1, <5>1 DEF ItemKnown, egen, oldmask
      <4>2. CASE e.fd # fd
        BY <1>5, <1>6, <1>7, <3>4, <4>2, ZenonT(30) DEF ItemKnown, Settled
      <4> QED
        BY <4>1, <4>2
    <3>8. ASSUME NEW g \in Fds PROVE InKernel(m, kern, f, g) /\ KeptApart(m, kern, f, g)
      <4>1. CASE g = fd
        <5>1. m.anfds[fd].events = new
          BY DEF Settled
        <5>2. "EPERM" \in oldmask => fd \in l.epoll.eperms
          BY <1>8 DEF KeptApart, oldmask
        <5> QED
          BY <1>4, <1>11, <3>5, <3>6, <4>1, <5>1, <5>2 DEF InKernel, KeptApart
      <4>2. CASE g # fd
        BY <1>6, <1>8, <3>4, <4>2 DEF InKernel, KeptApart, Settled, SameBackend
      <4> QED
        BY <4>1, <4>2
    <3> QED
      BY <3>3, <3>4, <3>7, <3>8, <1>8 DEF EpollInv
  <2>3. CASE ~(~MOD /\ Registered(kern, fd) /\ oldmask = new)
    <3>1. q = [ev |-> [m EXCEPT !.anfds[fd].emask = new, !.anfds[fd].egen = gen], k |-> KernelSet(kern, fd, new, gen)]
      BY <1>4, <1>11, <2>1, <2>3 DEF epoll_modify, gen
    <3>2. n = [m EXCEPT !.anfds[fd].emask = new, !.anfds[fd].egen = gen]
      BY <3>1
    <3>3. q = [ev |-> n, k |-> q.k] /\ q.k = KernelSet(kern, fd, new, gen)
      BY <3>1
    <3> HIDE DEF n
    <3>11. n = Remasked(m, fd, new, gen, l.epoll.eperms)
      <4>1. m.epoll = [eperms |-> l.epoll.eperms]
        BY <1>1, <1>4 DEF EpollType
      <4> QED
        <5>1. n = [m EXCEPT !.anfds[fd].emask = new, !.anfds[fd].egen = gen, !.epoll = m.epoll]
          BY <3>2, ZenonT(30) DEF LoopType
        <5> QED
          BY <4>1, <5>1 DEF Remasked
    <3>4. /\ n \in LoopType /\ SameButBackend(m, n) /\ n.epoll.eperms = l.epoll.eperms
          /\ \A g \in Fds : /\ n.anfds[g].emask = IF g = fd THEN new ELSE m.anfds[g].emask
                            /\ n.anfds[g].egen = IF g = fd THEN gen ELSE m.anfds[g].egen
      <4>1. new \in EmaskType /\ l.epoll.eperms \in EpermsType
        BY <1>3 DEF EmaskType, EpermsType
      <4> QED
        BY <1>3, <3>11, <4>1, Remask
    <3>5. /\ q.k \in KernelType /\ q.k.file = kern.file
          /\ \A e \in q.k.kset : \/ e \in kern.kset /\ ~(e.fd = fd /\ e.file = present)
                                 \/ e.fd = fd /\ e.file = present /\ e.mask = new \cap RW /\ e.gen = gen
          /\ \A e \in kern.kset : e.fd # fd => e \in q.k.kset
          /\ \E e \in q.k.kset : e.fd = fd /\ e.file = present /\ e.mask = new \cap RW /\ e.gen = gen
      <4>1. present \in Files \ Plain /\ gen \in Nat
        BY <1>3, <1>11
      <4>2. HasItem(kern, q.k, fd, new \cap RW, gen)
        BY <3>3, <4>1, SetItem
      <4> QED
        BY <4>2 DEF HasItem
    <3>6. ASSUME NEW e \in kern.kset, e.fd = fd PROVE e.gen # gen
      BY <1>3, <1>5, <1>7, <3>6 DEF ItemKnown, egen
    <3>7. ASSUME NEW e \in q.k.kset PROVE ItemKnown(n, q.k, f, e)
      <4>1. CASE e.fd = fd /\ e.file = present /\ e.mask = new \cap RW /\ e.gen = gen
        BY <1>3, <3>4, <3>5, <4>1 DEF ItemKnown
      <4>2. CASE e.fd = fd /\ e \in kern.kset /\ ~(e.fd = fd /\ e.file = present)
        BY <1>3, <1>5, <1>7, <3>4, <3>5, <3>6, <4>2 DEF ItemKnown, egen
      <4>3. CASE e.fd # fd /\ e \in kern.kset
        <5>1. SameGuess(l, n, e.fd)
          BY <1>5, <3>4, <4>3 DEF Settled, SameButBackend, SameGuess
        <5> QED
          BY <1>5, <1>6, <1>7, <3>4, <3>5, <4>3, <5>1 DEF ItemKnown, SameGuess
      <4> QED
        BY <3>5, <4>1, <4>2, <4>3
    <3>8. OneFilePerGeneration(q.k)
      BY <1>8, <3>5, <3>6 DEF OneFilePerGeneration
    <3>9. ASSUME NEW g \in Fds PROVE InKernel(n, q.k, f, g) /\ KeptApart(n, q.k, f, g)
      <4>1. CASE g = fd
        <5>1. n.anfds[fd].events = new
          BY <3>4 DEF Settled, SameButBackend
        <5>2. "EPERM" \notin new
          BY DEF Ev, RW
        <5> QED
          BY <1>11, <3>4, <3>5, <4>1, <5>1, <5>2 DEF InKernel, KeptApart
      <4>2. CASE g # fd
        BY <1>4, <1>6, <1>8, <3>4, <3>5, <4>2 DEF InKernel, KeptApart, Settled, SameButBackend
      <4> QED
        BY <4>1, <4>2
    <3> QED
      BY <3>3, <3>4, <3>5, <3>7, <3>8, <3>9, Zenon DEF EpollInv, n
  <2> QED
    BY <2>2, <2>3
<1> QED
  BY <1>1, <1>9, <1>10, <1>11

(* The arrays of poll and select with new contents *)
LEMMA NewPoll ==
  ASSUME NEW m \in LoopType, NEW p \in PollType, NEW n, n = [m EXCEPT !.poll = p]
  PROVE  n \in LoopType /\ SameButBackend(m, n) /\ n.poll = p /\ n.anfds = m.anfds
  BY DEF LoopType, SameButBackend

LEMMA NewSelect ==
  ASSUME NEW m \in LoopType, NEW s \in SelectType, NEW n, n = [m EXCEPT !.select = s]
  PROVE  n \in LoopType /\ SameButBackend(m, n) /\ n.select = s /\ n.anfds = m.anfds
  BY DEF LoopType, SameButBackend

(* poll_modify: the array has no gaps, and each descriptor its place. *)
LEMMA PollModifies ==
  ASSUME NEW l \in LoopType, NEW kern, NEW fd \in Fds, NEW new \in SUBSET Ev, PollInv(l),
         NEW m \in LoopType, Settled(l, m, fd, new), NEW c, c = [ev |-> m, k |-> kern],
         NEW q, q = poll_modify(c, fd, l.anfds[fd].events, new)
  PROVE  /\ q = [ev |-> q.ev, k |-> kern] /\ q.ev \in LoopType /\ SameButBackend(m, q.ev) /\ PollInv(q.ev)
<1> DEFINE old == l.anfds[fd].events
           polls == l.poll.polls
           idxs == l.poll.pollidxs
           len == Len(polls)
<1>1. c.ev = m /\ m.poll = l.poll
  BY DEF Settled, SameBackend
<1>2. polls \in Seq(PollfdType) /\ idxs \in [Fds -> Nat]
  BY LoopFields DEF PollType
<1>3. len \in Nat /\ DOMAIN polls = 1 .. len /\ \A n \in 1 .. len : polls[n] \in PollfdType /\ polls[n].fd \in Fds
  BY <1>2, LenProperties, PollfdAt
<1>4. \A g \in Fds : m.anfds[g].events = IF g = fd THEN new ELSE l.anfds[g].events
  BY DEF Settled
<1>5. /\ \A n \in 1 .. len : /\ idxs[polls[n].fd] = n /\ polls[n].events = l.anfds[polls[n].fd].events
                             /\ polls[n].events # {}
      /\ \A g \in Fds : idxs[g] # NoPlace => idxs[g] \in 1 .. len /\ polls[idxs[g]].fd = g
      /\ \A g \in Fds : l.anfds[g].events # {} => idxs[g] # NoPlace
  BY <1>3 DEF PollInv
<1> HIDE DEF old, polls, idxs, len
<1>6. CASE old = new
  <2>1. q = c
    BY <1>6 DEF poll_modify, old
  <2>2. PollInv(m)
    <3>1. \A g \in Fds : m.anfds[g].events = l.anfds[g].events
      BY <1>4, <1>6 DEF old
    <3>2. DOMAIN m.poll.polls = 1 .. len /\ m.poll.polls = polls /\ m.poll.pollidxs = idxs
      BY <1>1, <1>3 DEF polls, idxs
    <3> QED
      BY <1>3, <1>5, <3>1, <3>2 DEF PollInv
  <2>3. SameButBackend(m, m)
    BY DEF SameButBackend
  <2> QED
    BY <1>1, <2>1, <2>2, <2>3
<1>7. CASE old # new
  <2> DEFINE n == q.ev
  <2>1. CASE idxs[fd] = NoPlace
    <3> DEFINE e == [fd |-> fd, events |-> new]
               longer == Append(polls, e)
               p == [polls |-> longer, pollidxs |-> [idxs EXCEPT ![fd] = len + 1]]
    <3>1. old = {} /\ new # {}
      BY <1>5, <1>7, <2>1 DEF old
    <3>2. /\ longer \in Seq(PollfdType) /\ Len(longer) = len + 1 /\ DOMAIN longer = 1 .. len + 1
          /\ \A j \in 1 .. len + 1 : longer[j] = IF j = len + 1 THEN e ELSE polls[j]
      BY <1>2, <1>3 DEF PollfdType, len
    <3>3. [Append(polls, [fd |-> fd, events |-> {}]) EXCEPT ![len + 1].events = new] = longer
      <4> DEFINE e0 == [fd |-> fd, events |-> {}]
                 z == Append(polls, e0)
      <4>1. e0 \in PollfdType /\ [e0 EXCEPT !.events = new] = e
        BY DEF PollfdType
      <4>2. /\ z \in Seq(PollfdType) /\ DOMAIN z = 1 .. len + 1
            /\ \A j \in 1 .. len + 1 : z[j] = IF j = len + 1 THEN e0 ELSE polls[j]
        <5> HIDE DEF e0
        <5> QED
          BY <1>2, <1>3, <4>1 DEF len
      <4>3. len + 1 \in 1 .. len + 1
        BY <1>3
      <4> HIDE DEF z, e0, e, longer
      <4>4. [z EXCEPT ![len + 1] = e] = longer
        <5>1. Len(z) = len + 1
          BY <1>3, <4>2, LenProperties
        <5>2. longer = [j \in 1 .. len + 1 |-> longer[j]]
          BY <3>2
        <5> QED
          BY <3>2, <4>2, <4>3, <5>2
      <4>5. z[len + 1] = e0
        BY <4>2, <4>3
      <4>6. [z EXCEPT ![len + 1].events = new] = [z EXCEPT ![len + 1] = [e0 EXCEPT !.events = new]]
        BY <4>5
      <4> QED
        BY <4>1, <4>4, <4>6 DEF z, e0
    <3>4. q = [c EXCEPT !.ev.poll = p]
      BY <1>1, <1>7, <2>1, <3>1, <3>3, ZenonT(30) DEF poll_modify, old, polls, idxs, len, NoPlace
    <3>5. p \in PollType /\ p.polls = longer /\ p.pollidxs = [idxs EXCEPT ![fd] = len + 1]
      BY <1>2, <1>3, <3>2 DEF PollType
    <3> HIDE DEF longer, p
    <3>6. n = [m EXCEPT !.poll = p] /\ q = [ev |-> n, k |-> kern]
      BY <1>1, <3>4
    <3> HIDE DEF n
    <3>7. n \in LoopType /\ SameButBackend(m, n) /\ n.poll = p /\ n.anfds = m.anfds
      BY <3>5, <3>6, NewPoll
    <3>8. \A g \in Fds : n.poll.pollidxs[g] = IF g = fd THEN len + 1 ELSE idxs[g]
      BY <1>2, <3>5, <3>7
    <3>9. ASSUME NEW j \in DOMAIN n.poll.polls
          PROVE  /\ n.poll.pollidxs[n.poll.polls[j].fd] = j
                 /\ n.poll.polls[j].events = n.anfds[n.poll.polls[j].fd].events /\ n.poll.polls[j].events # {}
      <4>1. j \in 1 .. len + 1
        BY <3>2, <3>5, <3>7
      <4>2. CASE j = len + 1
        <5>1. n.poll.polls[j] = e
          BY <3>2, <3>5, <3>7, <4>1, <4>2
        <5> QED
          BY <1>4, <3>1, <3>7, <3>8, <4>2, <5>1
      <4>3. CASE j # len + 1
        <5>1. j \in 1 .. len /\ n.poll.polls[j] = polls[j]
          BY <1>3, <3>2, <3>5, <3>7, <4>1, <4>3
        <5>2. polls[j].fd # fd
          BY <1>5, <2>1, <5>1 DEF NoPlace
        <5> QED
          BY <1>3, <1>4, <1>5, <3>7, <3>8, <5>1, <5>2
      <4> QED
        BY <4>2, <4>3
    <3>10. ASSUME NEW g \in Fds, n.poll.pollidxs[g] # NoPlace
           PROVE  n.poll.pollidxs[g] \in DOMAIN n.poll.polls /\ n.poll.polls[n.poll.pollidxs[g]].fd = g
      <4>1. CASE g = fd
        <5>1. len + 1 \in 1 .. len + 1
          BY <1>3
        <5> QED
          BY <3>2, <3>5, <3>7, <3>8, <4>1, <5>1
      <4>2. CASE g # fd
        <5>1. idxs[g] \in 1 .. len /\ polls[idxs[g]].fd = g
          BY <1>5, <3>8, <3>10, <4>2
        <5>2. idxs[g] \in 1 .. len + 1 /\ idxs[g] # len + 1
          BY <1>3, <5>1
        <5> QED
          BY <3>2, <3>5, <3>7, <3>8, <4>2, <5>1, <5>2
      <4> QED
        BY <4>1, <4>2
    <3>11. \A g \in Fds : n.anfds[g].events # {} => n.poll.pollidxs[g] # NoPlace
      BY <1>3, <1>4, <1>5, <3>7, <3>8 DEF NoPlace
    <3> QED
      BY <3>6, <3>7, <3>9, <3>10, <3>11, Zenon DEF PollInv, n
  <2>2. CASE idxs[fd] # NoPlace /\ new # {}
    <3> DEFINE idx == idxs[fd]
               e == [polls[idx] EXCEPT !.events = new]
               changed == [polls EXCEPT ![idx] = e]
               p == [polls |-> changed, pollidxs |-> idxs]
    <3>1. idx \in 1 .. len /\ polls[idx].fd = fd
      BY <1>5, <2>2
    <3>2. e \in PollfdType /\ e.fd = fd /\ e.events = new
      BY <1>3, <3>1 DEF PollfdType
    <3> HIDE DEF e, idx
    <3>3. /\ changed \in Seq(PollfdType) /\ DOMAIN changed = 1 .. len
          /\ \A j \in 1 .. len : changed[j] = IF j = idx THEN e ELSE polls[j]
      BY <1>2, <1>3, <3>1, <3>2
    <3>4. q = [c EXCEPT !.ev.poll = p]
      <4>1. l.poll = [polls |-> polls, pollidxs |-> idxs]
        BY LoopFields DEF PollType, polls, idxs
      <4> QED
        <5>1. q = [c EXCEPT !.ev.poll = [l.poll EXCEPT !.polls[idxs[fd]].events = new]]
          BY <1>1, <1>7, <2>2, Zenon DEF poll_modify, old, idxs, NoPlace
        <5>2. [l.poll EXCEPT !.polls[idxs[fd]].events = new] = p
          BY <4>1 DEF e, idx
        <5> HIDE DEF p
        <5> QED
          BY <5>1, <5>2
    <3>5. p \in PollType /\ p.polls = changed /\ p.pollidxs = idxs
      BY <1>2, <3>3 DEF PollType
    <3> HIDE DEF changed, p
    <3>6. n = [m EXCEPT !.poll = p] /\ q = [ev |-> n, k |-> kern]
      BY <1>1, <3>4
    <3> HIDE DEF n
    <3>7. n \in LoopType /\ SameButBackend(m, n) /\ n.poll = p /\ n.anfds = m.anfds
      BY <3>5, <3>6, NewPoll
    <3>8. ASSUME NEW j \in DOMAIN n.poll.polls
          PROVE  /\ n.poll.pollidxs[n.poll.polls[j].fd] = j
                 /\ n.poll.polls[j].events = n.anfds[n.poll.polls[j].fd].events /\ n.poll.polls[j].events # {}
      <4>1. j \in 1 .. len
        BY <3>3, <3>5, <3>7
      <4>2. CASE j = idx
        BY <1>4, <2>2, <3>2, <3>3, <3>5, <3>7, <4>1, <4>2 DEF idx
      <4>3. CASE j # idx
        <5>1. n.poll.polls[j] = polls[j] /\ polls[j].fd # fd
          BY <1>5, <3>3, <3>5, <3>7, <4>1, <4>3 DEF idx
        <5> QED
          BY <1>3, <1>4, <1>5, <3>5, <3>7, <4>1, <5>1
      <4> QED
        BY <4>2, <4>3
    <3>9. ASSUME NEW g \in Fds, n.poll.pollidxs[g] # NoPlace
          PROVE  n.poll.pollidxs[g] \in DOMAIN n.poll.polls /\ n.poll.polls[n.poll.pollidxs[g]].fd = g
      <4>1. idxs[g] \in 1 .. len /\ polls[idxs[g]].fd = g
        BY <1>5, <3>5, <3>7, <3>9
      <4> QED
        BY <3>2, <3>3, <3>5, <3>7, <4>1, <3>1
    <3>10. \A g \in Fds : n.anfds[g].events # {} => n.poll.pollidxs[g] # NoPlace
      BY <1>4, <1>5, <2>2, <3>5, <3>7
    <3> QED
      BY <3>6, <3>7, <3>8, <3>9, <3>10 DEF PollInv, n
  <2>3. CASE idxs[fd] # NoPlace /\ new = {}
    <3> DEFINE idx == idxs[fd]
               last == polls[len]
               packed == Front([polls EXCEPT ![idx] = last])
               places == [idxs EXCEPT ![last.fd] = idx, ![fd] = NoPlace]
               p == [polls |-> packed, pollidxs |-> places]
    <3>1. idx \in 1 .. len /\ polls[idx].fd = fd
      BY <1>5, <2>3
    <3>2. len \in 1 .. len /\ last \in PollfdType /\ last.fd \in Fds /\ len - 1 \in Nat
      BY <1>3, <3>1
    <3>3. /\ packed \in Seq(PollfdType) /\ DOMAIN packed = 1 .. len - 1
          /\ \A j \in 1 .. len - 1 : packed[j] = IF j = idx THEN last ELSE polls[j]
      <4> DEFINE r == [polls EXCEPT ![idx] = last]
      <4>1. /\ r \in Seq(PollfdType) /\ Len(r) = len
            /\ \A j \in 1 .. len : r[j] = IF j = idx THEN last ELSE polls[j]
        BY <1>2, <1>3, <3>1, <3>2 DEF len
      <4> HIDE DEF r, last, idx
      <4>2. /\ SubSeq(r, 1, len - 1) \in Seq(PollfdType) /\ Len(SubSeq(r, 1, len - 1)) = len - 1
            /\ \A j \in 1 .. len - 1 : SubSeq(r, 1, len - 1)[j] = r[j]
        <5>1. \A j \in 1 .. len - 1 : r[j] \in PollfdType
          BY <1>3, <3>2, <4>1
        <5> QED
          BY <1>3, <3>2, <4>1, <5>1, SubSeqProperties
      <4>3. packed = SubSeq(r, 1, len - 1)
        BY <4>1 DEF Front, r
      <4> HIDE DEF packed
      <4>4. \A j \in 1 .. len - 1 : j \in 1 .. len
        BY <1>3
      <4> QED
        BY <4>1, <4>2, <4>3, <4>4, LenProperties
    <3>4. \A g \in Fds : places[g] = IF g = fd THEN NoPlace ELSE IF g = last.fd THEN idx ELSE idxs[g]
      BY <1>2, <3>2
    <3>5. places \in [Fds -> Nat]
      BY <1>2, <1>3, <3>1, <3>2 DEF NoPlace
    <3>6. q = [c EXCEPT !.ev.poll = p]
      <4>1. Last(polls) = last
        BY DEF Last, len
      <4> QED
        BY <1>1, <1>7, <2>3, <4>1 DEF poll_modify, RemovePollfd, old, polls, idxs, NoPlace
    <3>7. p \in PollType /\ p.polls = packed /\ p.pollidxs = places
      BY <3>3, <3>5 DEF PollType
    <3> HIDE DEF packed, places, p, last
    <3>8. n = [m EXCEPT !.poll = p] /\ q = [ev |-> n, k |-> kern]
      BY <1>1, <3>6
    <3> HIDE DEF n
    <3>9. n \in LoopType /\ SameButBackend(m, n) /\ n.poll = p /\ n.anfds = m.anfds
      BY <3>7, <3>8, NewPoll
    <3> HIDE DEF idx
    <3>10. idxs[last.fd] = len /\ last.events = l.anfds[last.fd].events /\ last.events # {} /\ idxs[fd] = idx
      BY <1>5, <3>2 DEF last, idx
    <3>11. ASSUME NEW j \in DOMAIN n.poll.polls
          PROVE  /\ n.poll.pollidxs[n.poll.polls[j].fd] = j
                 /\ n.poll.polls[j].events = n.anfds[n.poll.polls[j].fd].events /\ n.poll.polls[j].events # {}
      <4>1. j \in 1 .. len - 1 /\ j # len /\ j \in 1 .. len
        BY <1>3, <3>3, <3>7, <3>9
      <4>2. CASE j = idx
        <5>1. n.poll.polls[j] = last /\ last.fd # fd
          BY <3>3, <3>7, <3>9, <3>10, <4>1, <4>2
        <5> QED
          BY <1>4, <3>2, <3>4, <3>7, <3>9, <3>10, <4>2, <5>1
      <4>3. CASE j # idx
        <5>1. n.poll.polls[j] = polls[j] /\ polls[j].fd # fd /\ polls[j].fd # last.fd
          BY <1>5, <3>3, <3>7, <3>9, <3>10, <4>1, <4>3
        <5> QED
          BY <1>3, <1>4, <1>5, <3>4, <3>7, <3>9, <4>1, <5>1
      <4> QED
        BY <4>2, <4>3
    <3>12. ASSUME NEW g \in Fds, n.poll.pollidxs[g] # NoPlace
          PROVE  n.poll.pollidxs[g] \in DOMAIN n.poll.polls /\ n.poll.polls[n.poll.pollidxs[g]].fd = g
      <4>1. g # fd
        BY <3>4, <3>7, <3>9, <3>12
      <4>2. CASE g = last.fd
        <5>1. idx # len /\ idx \in 1 .. len - 1
          <6>1. idx # len
            BY <3>1, <4>1, <4>2 DEF last
          <6> QED
            BY <1>3, <3>1, <6>1
        <5> QED
          BY <3>3, <3>4, <3>7, <3>9, <4>1, <4>2, <5>1
      <4>3. CASE g # last.fd
        <5>1. n.poll.pollidxs[g] = idxs[g]
          BY <3>4, <3>7, <3>9, <4>1, <4>3
        <5>2. idxs[g] \in 1 .. len /\ polls[idxs[g]].fd = g
          BY <1>5, <3>12, <5>1
        <5>3. idxs[g] # len /\ idxs[g] # idx
          BY <3>1, <4>1, <4>3, <5>2 DEF last
        <5>4. idxs[g] \in 1 .. len - 1
          BY <1>3, <5>2, <5>3
        <5> QED
          BY <3>3, <3>7, <3>9, <5>1, <5>2, <5>3, <5>4
      <4> QED
        BY <4>2, <4>3
    <3>13. \A g \in Fds : n.anfds[g].events # {} => n.poll.pollidxs[g] # NoPlace
      BY <1>3, <1>4, <1>5, <2>3, <3>1, <3>4, <3>7, <3>9 DEF NoPlace
    <3> QED
      BY <3>8, <3>9, <3>11, <3>12, <3>13 DEF PollInv, n
  <2> QED
    BY <2>1, <2>2, <2>3
<1> QED
  BY <1>6, <1>7

(* select_modify: the sets are those of the descriptors that want the event. *)
LEMMA SelectModifies ==
  ASSUME NEW l \in LoopType, NEW kern, NEW fd \in Fds, NEW new \in SUBSET Ev, SelectInv(l),
         NEW m \in LoopType, Settled(l, m, fd, new), NEW c, c = [ev |-> m, k |-> kern],
         NEW q, q = select_modify(c, fd, l.anfds[fd].events, new)
  PROVE  /\ q = [ev |-> q.ev, k |-> kern] /\ q.ev \in LoopType /\ SameButBackend(m, q.ev) /\ SelectInv(q.ev)
<1> DEFINE ri == l.select.ri
           wi == l.select.wi
           s == [ri |-> IF "READ" \in new THEN ri \cup {fd} ELSE ri \ {fd},
                 wi |-> IF "WRITE" \in new THEN wi \cup {fd} ELSE wi \ {fd}]
           n == q.ev
<1>1. c.ev = m /\ m.select = l.select
  BY DEF Settled, SameBackend
<1>2. ri \in SUBSET Fds /\ wi \in SUBSET Fds
  BY LoopFields DEF SelectType
<1>3. \A g \in Fds : m.anfds[g].events = IF g = fd THEN new ELSE l.anfds[g].events
  BY DEF Settled
<1>4. CASE l.anfds[fd].events = new
  <2>1. q = c
    BY <1>4 DEF select_modify
  <2>2. SelectInv(m)
    BY <1>1, <1>3, <1>4 DEF SelectInv
  <2>3. SameButBackend(m, m)
    BY DEF SameButBackend
  <2> QED
    BY <1>1, <2>1, <2>2, <2>3
<1>5. CASE l.anfds[fd].events # new
  <2>1. s \in SelectType
    BY <1>2 DEF SelectType
  <2>2. q = [c EXCEPT !.ev.select = s]
    BY <1>1, <1>5 DEF select_modify
  <2>3. s.ri = (IF "READ" \in new THEN ri \cup {fd} ELSE ri \ {fd}) /\ s.wi = (IF "WRITE" \in new THEN wi \cup {fd} ELSE wi \ {fd})
    OBVIOUS
  <2> HIDE DEF s
  <2>4. n = [m EXCEPT !.select = s] /\ q = [ev |-> n, k |-> kern]
    BY <1>1, <2>2
  <2> HIDE DEF n
  <2>5. n \in LoopType /\ SameButBackend(m, n) /\ n.select = s /\ n.anfds = m.anfds
    BY <2>1, <2>4, NewSelect
  <2>6. ASSUME NEW g \in Fds
        PROVE  ("READ" \in n.anfds[g].events <=> g \in s.ri) /\ ("WRITE" \in n.anfds[g].events <=> g \in s.wi)
    <3>1. ("READ" \in l.anfds[g].events <=> g \in ri) /\ ("WRITE" \in l.anfds[g].events <=> g \in wi)
      BY DEF SelectInv
    <3> QED
      BY <1>3, <2>3, <2>5, <3>1
  <2>7. SelectInv(n)
    BY <2>5, <2>6 DEF SelectInv
  <2> QED
    BY <2>4, <2>5, <2>7 DEF n
<1> QED
  BY <1>4, <1>5

-----------------------------------------------------------------------------
(* fd_reify: the changes of all descriptors *)

PairType == [ev : LoopType, k : KernelType]

(* Passing on the changes leaves alone who watches what, and the files. *)
SameWatches(l, m) ==
  /\ m.backend = l.backend /\ m.io = l.io /\ m.pendings = l.pendings /\ m.fdchanges = l.fdchanges
  /\ m.postfork = l.postfork

LEMMA PairFields ==
  ASSUME NEW c \in PairType
  PROVE  c.ev \in LoopType /\ c.k \in KernelType /\ c = [ev |-> c.ev, k |-> c.k]
  BY DEF PairType

LEMMA APair ==
  ASSUME NEW l \in LoopType, NEW kern \in KernelType, NEW q, q = [ev |-> l, k |-> kern]
  PROVE  q \in PairType
  BY DEF PairType

(* A descriptor that is watched is open. *)
LEMMA WatchedIsOpen ==
  ASSUME NEW l, NEW kern, NEW f, Owned(l, kern, f), NEW fd \in Fds, NEW i \in ActiveOn(l, fd)
  PROVE  i \in Ios /\ i[1] \in Watchers /\ f[i[1]] = fd /\ kern.file[fd] # None /\ ~Fresh(l, f, fd)
<1>1. i \in Ios /\ i[1] \in Watchers /\ l.io[i].active /\ l.io[i].fd = fd
  BY DEF ActiveOn, Ios
<1>2. f[i[1]] = fd /\ kern.file[fd] # None
  BY <1>1 DEF Owned
<1> QED
  BY <1>1, <1>2 DEF Fresh

LEMMA WantedEvents ==
  ASSUME NEW l, NEW fd \in Fds
  PROVE  Wanted(l, fd) \in SUBSET Ev /\ (Wanted(l, fd) # {} <=> ActiveOn(l, fd) # {})
<1>1. ActiveOn(l, fd) \subseteq Ios
  BY DEF ActiveOn
<1> QED
  BY <1>1, EventsOfType DEF Wanted

(* The backend is told of the events of one descriptor. *)
LEMMA BackendModifies ==
  ASSUME NEW l \in LoopType, NEW kern \in KernelType, NEW f \in Owners, NEW fd \in Fds, NEW new \in SUBSET Ev,
         BackendInv(l, kern, f), new # {} => kern.file[fd] # None,
         NEW m \in LoopType, Settled(l, m, fd, new), NEW c, c = [ev |-> m, k |-> kern],
         NEW q, q = backend_modify(c, fd, l.anfds[fd].events, new)
  PROVE  /\ q = [ev |-> q.ev, k |-> q.k] /\ q.ev \in LoopType /\ q.k \in KernelType /\ q.k.file = kern.file
         /\ SameButBackend(m, q.ev) /\ BackendInv(q.ev, q.k, f)
<1>1. c.ev = m /\ c.k = kern /\ m.backend = l.backend /\ l.backend \in Backends
  BY LoopFields DEF Settled, SameBackend
<1>2. CASE l.backend = "epoll"
  <2>1. q = epoll_modify(c, fd, l.anfds[fd].events, new)
    BY <1>1, <1>2 DEF backend_modify
  <2>2. /\ q = [ev |-> q.ev, k |-> q.k] /\ q.ev \in LoopType /\ q.k \in KernelType /\ q.k.file = kern.file
        /\ SameButBackend(m, q.ev) /\ EpollInv(q.ev, q.k, f)
    BY <1>1, <1>2, <2>1, EpollModifies DEF BackendInv
  <2> QED
    BY <1>1, <1>2, <2>2, Zenon DEF BackendInv, SameButBackend
<1>3. CASE l.backend = "poll"
  <2>1. q = poll_modify(c, fd, l.anfds[fd].events, new)
    BY <1>1, <1>3 DEF backend_modify
  <2>2. /\ q = [ev |-> q.ev, k |-> kern] /\ q.ev \in LoopType /\ SameButBackend(m, q.ev) /\ PollInv(q.ev)
    BY <1>3, <2>1, PollModifies DEF BackendInv
  <2>3. q.k = kern
    BY <2>2
  <2> QED
    BY <1>1, <1>3, <2>2, <2>3, Zenon DEF BackendInv, SameButBackend
<1>4. CASE l.backend = "select"
  <2>1. q = select_modify(c, fd, l.anfds[fd].events, new)
    BY <1>1, <1>4 DEF backend_modify
  <2>2. /\ q = [ev |-> q.ev, k |-> kern] /\ q.ev \in LoopType /\ SameButBackend(m, q.ev) /\ SelectInv(q.ev)
    BY <1>4, <2>1, SelectModifies DEF BackendInv
  <2>3. q.k = kern
    BY <2>2
  <2> QED
    BY <1>1, <1>4, <2>2, <2>3, Zenon DEF BackendInv, SameButBackend
<1> QED
  BY <1>1, <1>2, <1>3, <1>4 DEF Backends

LEMMA ReifyIs ==
  ASSUME NEW l, NEW kern, NEW fd, NEW new, NEW m,
         new = Asked(l.anfds[fd]),
         m = PassedOn(l, fd, new)
  PROVE  Reify([ev |-> l, k |-> kern], fd) =
           IF "IOFDSET" \in l.anfds[fd].reify \/ l.anfds[fd].events # new
           THEN backend_modify([ev |-> m, k |-> kern], fd, l.anfds[fd].events, new)
           ELSE [ev |-> m, k |-> kern]
<1> DEFINE c == [ev |-> l, k |-> kern]
           d == [c EXCEPT !.ev = PassedOn(c.ev, fd, new)]
<1>1. d = [ev |-> m, k |-> kern]
  OBVIOUS
<1>2. c.ev = l
  OBVIOUS
<1>3. Reify(c, fd) = IF "IOFDSET" \in c.ev.anfds[fd].reify \/ c.ev.anfds[fd].events # new
                     THEN backend_modify(d, fd, c.ev.anfds[fd].events, new)
                     ELSE d
  <2>1. new = Asked(c.ev.anfds[fd])
    BY <1>2
  <2> HIDE DEF c
  <2> QED
    BY <2>1 DEF Reify
<1> HIDE DEF c, d
<1> QED
  BY <1>1, <1>2, <1>3 DEF c

LEMMA ReifyKeeps ==
  ASSUME NEW c \in PairType, NEW f \in Owners, LoopInv(c.ev, c.k, f), NEW fd \in Fds, NEW q, q = Reify(c, fd)
  PROVE  /\ q \in PairType /\ LoopInv(q.ev, q.k, f) /\ q.k.file = c.k.file /\ SameWatches(c.ev, q.ev)
         /\ \A g \in Fds : q.ev.anfds[g].reify = IF g = fd THEN {} ELSE c.ev.anfds[g].reify
<1> DEFINE l == c.ev
           kern == c.k
           a == l.anfds[fd]
           new == Asked(a)
           m == PassedOn(l, fd, new)
           told == [ev |-> m, k |-> kern]
<1>1. l \in LoopType /\ kern \in KernelType /\ c = [ev |-> l, k |-> kern]
  BY PairFields
<1>2. new = Wanted(l, fd)
  <2>1. Range(a.head) = ActiveOn(l, fd)
    BY DEF LoopInv, Linked
  <2> QED
    BY <2>1 DEF Asked, Wanted, Range
<1>3. new \in SUBSET Ev /\ (new # {} => kern.file[fd] # None)
  <2>1. new \in SUBSET Ev /\ (new # {} => ActiveOn(l, fd) # {})
    BY <1>2, WantedEvents
  <2>2. ActiveOn(l, fd) # {} => kern.file[fd] # None
    BY WatchedIsOpen DEF LoopInv
  <2> QED
    BY <2>1, <2>2
<1>4. q = IF "IOFDSET" \in a.reify \/ a.events # new THEN backend_modify(told, fd, a.events, new) ELSE told
  BY <1>1, ReifyIs
<1> HIDE DEF new
<1>5. m \in LoopType /\ Settled(l, m, fd, new)
  BY <1>1, <1>3, Settle
<1>6. told = [ev |-> m, k |-> kern]
  OBVIOUS
<1> HIDE DEF m, told
<1>7. /\ q = [ev |-> q.ev, k |-> q.k] /\ q.ev \in LoopType /\ q.k \in KernelType /\ q.k.file = kern.file
      /\ SameButBackend(m, q.ev) /\ BackendInv(q.ev, q.k, f)
  <2>1. CASE "IOFDSET" \in a.reify \/ a.events # new
    <3>1. q = backend_modify(told, fd, l.anfds[fd].events, new)
      BY <1>4, <2>1
    <3>2. BackendInv(l, kern, f)
      BY DEF LoopInv
    <3> HIDE DEF l, kern
    <3> QED
      BY <1>1, <1>3, <1>5, <1>6, <3>1, <3>2, BackendModifies
  <2>2. CASE ~("IOFDSET" \in a.reify \/ a.events # new)
    <3>1. q.ev = m /\ q.k = kern /\ q = [ev |-> m, k |-> kern]
      BY <1>4, <1>6, <2>2
    <3>2. SameButBackend(m, m)
      BY DEF SameButBackend
    <3>3. SameBackend(l, m) /\ m.postfork = l.postfork
      BY <1>5 DEF Settled
    <3>4. ASSUME NEW g \in Fds PROVE SameGuess(l, m, g) /\ (Anew(l, f, g) => Anew(m, f, g))
      BY <1>5, <2>2 DEF Settled, SameGuess, Anew, Fresh
    <3>5. BackendInv(m, kern, f)
      <4>1. BackendInv(l, kern, f)
        BY DEF LoopInv
      <4> HIDE DEF l, kern
      <4> QED
        BY <1>1, <3>3, <3>4, <4>1, BackendCarries
    <3> QED
      BY <1>1, <1>5, <3>1, <3>2, <3>5
  <2> QED
    BY <2>1, <2>2
<1> DEFINE n == q.ev
<1>8. SameWatches(l, n)
  BY <1>5, <1>7 DEF Settled, SameButBackend, SameWatches, SameBackend
<1>9. ASSUME NEW g \in Fds
      PROVE  /\ n.anfds[g].reify = (IF g = fd THEN {} ELSE l.anfds[g].reify)
             /\ n.anfds[g].events = (IF g = fd THEN new ELSE l.anfds[g].events)
             /\ n.anfds[g].head = l.anfds[g].head
             /\ ActiveOn(n, g) = ActiveOn(l, g) /\ Wanted(n, g) = Wanted(l, g)
  <2>1. ActiveOn(n, g) = ActiveOn(l, g)
    BY <1>8 DEF SameWatches, ActiveOn
  <2> QED
    BY <1>5, <1>7, <2>1 DEF Settled, SameButBackend, Wanted
<1>10. Linked(n) /\ Placed(n) /\ Sources(n, q.k) /\ Owned(n, q.k, f)
  <2>1. Linked(l) /\ Placed(l) /\ Sources(l, kern) /\ Owned(l, kern, f)
    BY DEF LoopInv
  <2> HIDE DEF n, l, kern
  <2>2. n.io = l.io /\ n.pendings = l.pendings
    BY <1>8 DEF SameWatches
  <2>3. q.k.file = kern.file
    BY <1>7
  <2>4. Linked(n)
    BY <1>9, <2>1, <2>2 DEF Linked
  <2>5. Placed(n)
    BY <2>1, <2>2 DEF Placed
  <2>6. Sources(n, q.k)
    BY <2>1, <2>2, <2>3 DEF Sources
  <2>7. Owned(n, q.k, f)
    BY <2>1, <2>2, <2>3 DEF Owned
  <2> QED
    BY <2>4, <2>5, <2>6, <2>7
<1>11. Queued(n) /\ Passed(n)
  <2>1. n.fdchanges = l.fdchanges
    BY <1>8 DEF SameWatches
  <2>2. Queued(l) /\ Passed(l)
    BY DEF LoopInv
  <2> HIDE DEF n, l
  <2> QED
    BY <1>2, <1>9, <2>1, <2>2 DEF Queued, Passed
<1>12. q \in PairType
  BY <1>7, APair
<1> QED
  BY <1>7, <1>8, <1>9, <1>10, <1>11, <1>12 DEF LoopInv

(* fd_reify: afterwards nothing is left to pass on. *)
LEMMA FdReify ==
  ASSUME NEW c \in PairType, NEW f \in Owners, LoopInv(c.ev, c.k, f), NEW q, q = fd_reify(c)
  PROVE  /\ q \in PairType /\ LoopInv(q.ev, q.k, f) /\ q.k.file = c.k.file
         /\ q.ev.backend = c.ev.backend /\ q.ev.io = c.ev.io /\ q.ev.pendings = c.ev.pendings
         /\ \A g \in Fds : q.ev.anfds[g].reify = {}
<1> DEFINE S == {s \in PairType : LoopInv(s.ev, s.k, f) /\ s.k.file = c.k.file /\ SameWatches(c.ev, s.ev)}
           T == Fds
           seq == c.ev.fdchanges
           G == [p \in S \X T |-> Reify(p[1], p[2])]
           Def(it) == [s \in SUBSET DOMAIN seq |->
                         IF s = {} THEN c ELSE Reify(it[s \ {Max(s)}], seq[Max(s)])]
           it == CHOOSE it : it = Def(it)
           m == FoldLeft(Reify, c, seq)
           Cleared == [t \in T |-> {s \in S : s.ev.anfds[t].reify = {}}]
<1>1. c \in S
  BY DEF SameWatches
<1>2. seq \in Seq(T)
  BY PairFields, LoopFields DEF ChangesType
<1>3. ASSUME NEW s \in S, NEW t \in T
      PROVE  /\ Reify(s, t) \in S
             /\ \A g \in T : Reify(s, t).ev.anfds[g].reify = IF g = t THEN {} ELSE s.ev.anfds[g].reify
  <2> DEFINE n == Reify(s, t)
  <2>1. /\ n \in PairType /\ LoopInv(n.ev, n.k, f) /\ n.k.file = s.k.file /\ SameWatches(s.ev, n.ev)
        /\ \A g \in Fds : n.ev.anfds[g].reify = IF g = t THEN {} ELSE s.ev.anfds[g].reify
    <3> HIDE DEF n
    <3>1. n = Reify(s, t)
      BY DEF n
    <3> QED
      BY <3>1, ReifyKeeps
  <2> HIDE DEF n
  <2>2. SameWatches(c.ev, n.ev)
    BY <2>1 DEF SameWatches
  <2>3. n \in S
    BY <2>1, <2>2
  <2> QED
    BY <2>1, <2>3 DEF n
<1> HIDE DEF S, T, seq
<1>4. G \in [S \X T -> S]
  BY <1>3
<1>5. PICK table : IsFold(S, T, G, c, seq, table)
  <2> HIDE DEF G
  <2> QED
    BY <1>1, <1>2, <1>4, FoldExists
<1>6. table = Def(table)
  BY <1>5 DEF IsFold
<1>7. it = Def(it)
  <2> HIDE DEF Def
  <2> QED
    BY <1>6
<1> HIDE DEF it
<1>8. Follows(S, T, G, c, seq, it)
  BY <1>7 DEF Follows
<1>9. G \in [S \X T -> S] /\ \A s \in S, t \in T : G[<<s, t>>] = Reify(s, t)
  BY <1>4
<1> HIDE DEF G, Def
<1>10. PICK r : Runs(S, G, c, seq, r, it[DOMAIN seq])
  BY <1>1, <1>2, <1>8, <1>9, FoldRuns
<1>11. m = it[DOMAIN seq]
  BY DEF FoldLeft, MapThenFoldSet, it, Def
<1>12. DoneBy(S, T, G, Cleared)
  <2> SUFFICES ASSUME NEW s \in S, NEW t \in T, NEW u \in T
               PROVE  G[<<s, t>>] \in Cleared[t] /\ (s \in Cleared[t] => G[<<s, u>>] \in Cleared[t])
    BY DEF DoneBy
  <2>1. G[<<s, t>>] \in Cleared[t]
    BY <1>3, <1>9
  <2>2. ASSUME s \in Cleared[t] PROVE G[<<s, u>>] \in Cleared[t]
    <3>1. G[<<s, u>>] = Reify(s, u) /\ s.ev.anfds[t].reify = {}
      BY <1>9, <2>2
    <3>2. Reify(s, u) \in S /\ Reify(s, u).ev.anfds[t].reify = {}
      BY <1>3, <3>1
    <3> QED
      BY <3>1, <3>2
  <2> QED
    BY <2>1, <2>2
<1>13. m \in S /\ \A n \in 1 .. Len(seq) : m \in Cleared[seq[n]]
  <2> HIDE DEF m, Cleared
  <2> QED
    BY <1>2, <1>10, <1>11, <1>12, FoldDone
<1>14. q = [m EXCEPT !.ev.fdchanges = <<>>]
  BY DEF fd_reify, seq
<1> HIDE DEF m
<1>15. m \in PairType /\ LoopInv(m.ev, m.k, f) /\ m.k.file = c.k.file /\ SameWatches(c.ev, m.ev)
  BY <1>13 DEF S
<1>16. ASSUME NEW g \in Fds PROVE m.ev.anfds[g].reify = {}
  <2>1. CASE g \in Range(seq)
    <3>1. PICK n \in 1 .. Len(seq) : seq[n] = g
      BY <1>2, <2>1, LenProperties DEF Range
    <3>2. m \in Cleared[g] /\ g \in T
      BY <1>13, <3>1 DEF T
    <3> QED
      BY <3>2
  <2>2. CASE g \notin Range(seq)
    <3>1. m.ev.fdchanges = seq /\ Queued(m.ev)
      BY <1>15 DEF SameWatches, seq, LoopInv
    <3> QED
      BY <2>2, <3>1 DEF Queued
  <2> QED
    BY <2>1, <2>2
<1> HIDE DEF Cleared
<1>17. m.ev \in LoopType /\ m.k \in KernelType /\ m = [ev |-> m.ev, k |-> m.k]
  BY <1>15, PairFields
<1> DEFINE n == [m.ev EXCEPT !.fdchanges = <<>>]
<1>18. /\ q = [ev |-> n, k |-> m.k]
       /\ n \in LoopType /\ n.fdchanges = <<>> /\ SameBackend(m.ev, n) /\ n.anfds = m.ev.anfds /\ n.io = m.ev.io
       /\ n.pendings = m.ev.pendings /\ n.postfork = m.ev.postfork
  <2>1. q = [ev |-> n, k |-> m.k]
    BY <1>14, <1>17
  <2>2. <<>> \in ChangesType
    BY DEF ChangesType
  <2> QED
    BY <1>17, <2>1, <2>2 DEF LoopType, SameBackend
<1> HIDE DEF n
<1>19. q.ev = n /\ q.k = m.k /\ q \in PairType
  BY <1>17, <1>18, APair
<1>20. LoopInv(n, m.k, f)
  <2>1. ASSUME NEW g \in Fds PROVE ActiveOn(n, g) = ActiveOn(m.ev, g) /\ Wanted(n, g) = Wanted(m.ev, g)
    <3>1. ActiveOn(n, g) = ActiveOn(m.ev, g)
      BY <1>18 DEF ActiveOn
    <3> QED
      BY <3>1 DEF Wanted
  <2>2. Linked(n) /\ Placed(n) /\ Sources(n, m.k) /\ Owned(n, m.k, f)
    <3>1. Linked(m.ev) /\ Placed(m.ev) /\ Sources(m.ev, m.k) /\ Owned(m.ev, m.k, f)
      BY <1>15 DEF LoopInv
    <3>2. Linked(n)
      BY <1>18, <2>1, <3>1 DEF Linked
    <3>3. Placed(n)
      BY <1>18, <3>1 DEF Placed
    <3>4. Sources(n, m.k)
      BY <1>18, <3>1, Zenon DEF Sources
    <3>5. Owned(n, m.k, f)
      BY <1>18, <3>1 DEF Owned
    <3> QED
      BY <3>2, <3>3, <3>4, <3>5
  <2>3. Queued(n) /\ Passed(n)
    BY <1>15, <1>16, <1>18, <2>1 DEF LoopInv, Queued, Passed
  <2>4. BackendInv(n, m.k, f)
    <3>1. ASSUME NEW g \in Fds PROVE SameGuess(m.ev, n, g) /\ (Anew(m.ev, f, g) => Anew(n, f, g))
      BY <1>18 DEF SameGuess, Anew, Fresh
    <3>2. BackendInv(m.ev, m.k, f)
      BY <1>15 DEF LoopInv
    <3> QED
      BY <1>17, <1>18, <3>1, <3>2, BackendCarries
  <2> QED
    BY <2>2, <2>3, <2>4 DEF LoopInv
<1> QED
  BY <1>15, <1>16, <1>18, <1>19, <1>20 DEF SameWatches, SameBackend

-----------------------------------------------------------------------------
(* fd_rearm_all and loop_fork *)

(* n is m but for descriptors that count as new again. *)
Rearmed(m, n) ==
  /\ SameBackend(m, n) /\ n.io = m.io /\ n.pendings = m.pendings /\ n.postfork = m.postfork
  /\ \A g \in Fds :
       /\ n.anfds[g].head = m.anfds[g].head
       /\ \/ n.anfds[g].events = m.anfds[g].events /\ n.anfds[g].emask = m.anfds[g].emask
             /\ n.anfds[g].reify = m.anfds[g].reify
          \/ n.anfds[g].events = {} /\ n.anfds[g].emask = {} /\ n.anfds[g].reify # {}

LEMMA RearmOne ==
  ASSUME NEW m \in LoopType, Queued(m), NEW fd \in Fds, NEW n, n = Rearm(m, fd)
  PROVE  n \in LoopType /\ Rearmed(m, n) /\ Queued(n) /\ n.anfds[fd].events = {}
<1>1. CASE m.anfds[fd].events = {}
  <2>1. n = m
    BY <1>1 DEF Rearm
  <2> QED
    BY <1>1, <2>1 DEF Rearmed, SameBackend
<1>2. CASE m.anfds[fd].events # {}
  <2> DEFINE a == [m.anfds[fd] EXCEPT !.events = {}, !.emask = {}]
             A == [m.anfds EXCEPT ![fd] = a]
             b == [m EXCEPT !.anfds = A]
             fl == {"IOFDSET", "REIFY"}
  <2>1. m.anfds \in [Fds -> AnfdType] /\ m.anfds[fd] \in AnfdType
    BY LoopFields DEF AnfdsType
  <2>2. a \in AnfdType /\ a.head = m.anfds[fd].head /\ a.emask = {} /\ a.events = {} /\ a.reify = m.anfds[fd].reify
    BY <2>1 DEF AnfdType
  <2>3. [m EXCEPT !.anfds[fd].events = {}, !.anfds[fd].emask = {}] = b
    BY <2>1 DEF LoopType, AnfdType
  <2> HIDE DEF a
  <2>4. A \in AnfdsType /\ \A g \in Fds : A[g] = IF g = fd THEN a ELSE m.anfds[g]
    BY <2>1, <2>2 DEF AnfdsType
  <2> HIDE DEF A
  <2>5. /\ b \in LoopType /\ b.anfds = A /\ SameBackend(m, b) /\ b.io = m.io /\ b.pendings = m.pendings
        /\ b.fdchanges = m.fdchanges /\ b.postfork = m.postfork
    BY <2>4 DEF LoopType, SameBackend
  <2> HIDE DEF b
  <2>6. n = fd_change(b, fd, fl)
    BY <1>2, <2>3 DEF Rearm
  <2>7. fl \in SUBSET {"REIFY", "IOFDSET"}
    OBVIOUS
  <2> HIDE DEF fl
  <2>8. n \in LoopType /\ ChangedFd(b, n, fd, fl) /\ (Queued(b) => Queued(n))
    BY <2>5, <2>6, <2>7, FdChange
  <2>9. Queued(b)
    BY <2>2, <2>4, <2>5 DEF Queued
  <2>10. ASSUME NEW g \in Fds
         PROVE  /\ n.anfds[g].head = m.anfds[g].head
                /\ g # fd => /\ n.anfds[g].events = m.anfds[g].events /\ n.anfds[g].emask = m.anfds[g].emask
                             /\ n.anfds[g].reify = m.anfds[g].reify
                /\ g = fd => n.anfds[g].events = {} /\ n.anfds[g].emask = {} /\ n.anfds[g].reify # {}
    BY <2>2, <2>4, <2>5, <2>8, ZenonT(30) DEF ChangedFd, fl
  <2>11. SameBackend(m, n) /\ n.io = m.io /\ n.pendings = m.pendings /\ n.postfork = m.postfork
    BY <2>5, <2>8 DEF ChangedFd, SameBackend
  <2> QED
    BY <2>8, <2>9, <2>10, <2>11 DEF Rearmed
<1> QED
  BY <1>1, <1>2

LEMMA RearmedTwice ==
  ASSUME NEW l, NEW m, NEW n, Rearmed(l, m), Rearmed(m, n)
  PROVE  Rearmed(l, n)
<1>1. SameBackend(l, n) /\ n.io = l.io /\ n.pendings = l.pendings /\ n.postfork = l.postfork
  BY DEF Rearmed, SameBackend
<1>2. ASSUME NEW g \in Fds
      PROVE  /\ n.anfds[g].head = l.anfds[g].head
             /\ \/ n.anfds[g].events = l.anfds[g].events /\ n.anfds[g].emask = l.anfds[g].emask
                   /\ n.anfds[g].reify = l.anfds[g].reify
                \/ n.anfds[g].events = {} /\ n.anfds[g].emask = {} /\ n.anfds[g].reify # {}
  BY DEF Rearmed
<1> QED
  BY <1>1, <1>2 DEF Rearmed

LEMMA AllUpwards == Upwards \in Seq(Fds) /\ \A fd \in Fds : \E n \in 1 .. Len(Upwards) : Upwards[n] = fd
<1>1. MaxFd \in Nat /\ MaxFd > 2 /\ MaxFd - 2 \in Nat
  BY NumbersAssumption
<1>2. \A n \in 1 .. MaxFd - 2 : n + 2 \in Fds
  BY <1>1 DEF Fds
<1>3. Upwards \in [1 .. MaxFd - 2 -> Fds]
  BY <1>2 DEF Upwards
<1>4. Upwards \in Seq(Fds) /\ Len(Upwards) = MaxFd - 2
  BY <1>1, <1>3
<1>5. ASSUME NEW fd \in Fds PROVE fd - 2 \in 1 .. MaxFd - 2 /\ Upwards[fd - 2] = fd
  BY <1>1 DEF Fds, Upwards
<1> QED
  BY <1>4, <1>5

LEMMA AllDownwards == Downwards \in Seq(Fds)
<1>1. MaxFd \in Nat /\ MaxFd > 2 /\ MaxFd - 2 \in Nat
  BY NumbersAssumption
<1>2. \A n \in 1 .. MaxFd - 2 : MaxFd + 1 - n \in Fds
  BY <1>1 DEF Fds
<1>3. Downwards \in [1 .. MaxFd - 2 -> Fds]
  BY <1>2 DEF Downwards
<1> QED
  BY <1>1, <1>3

(* fd_rearm_all: libev believes nothing of any descriptor. *)
LEMMA RearmAll ==
  ASSUME NEW l \in LoopType, Queued(l), NEW m, m = fd_rearm_all(l)
  PROVE  m \in LoopType /\ Rearmed(l, m) /\ Queued(m) /\ \A g \in Fds : m.anfds[g].events = {}
<1> DEFINE S == {s \in LoopType : Rearmed(l, s) /\ Queued(s)}
           T == Fds
           seq == Upwards
           G == [p \in S \X T |-> Rearm(p[1], p[2])]
           Def(it) == [s \in SUBSET DOMAIN seq |->
                         IF s = {} THEN l ELSE Rearm(it[s \ {Max(s)}], seq[Max(s)])]
           it == CHOOSE it : it = Def(it)
           Cleared == [t \in T |-> {s \in S : s.anfds[t].events = {}}]
<1>1. l \in S
  BY DEF Rearmed, SameBackend
<1>2. seq \in Seq(T)
  BY AllUpwards
<1>3. ASSUME NEW s \in S, NEW t \in T
      PROVE  /\ Rearm(s, t) \in S /\ Rearm(s, t).anfds[t].events = {}
             /\ \A u \in T : s.anfds[u].events = {} => Rearm(s, t).anfds[u].events = {}
  <2> DEFINE n == Rearm(s, t)
  <2>1. n \in LoopType /\ Rearmed(s, n) /\ Queued(n) /\ n.anfds[t].events = {}
    BY RearmOne
  <2> HIDE DEF n
  <2>2. Rearmed(l, n)
    BY <2>1, RearmedTwice
  <2>3. \A u \in T : s.anfds[u].events = {} => n.anfds[u].events = {}
    BY <2>1 DEF Rearmed
  <2> QED
    BY <2>1, <2>2, <2>3 DEF n
<1> HIDE DEF S, T, seq
<1>4. G \in [S \X T -> S]
  BY <1>3
<1>5. PICK table : IsFold(S, T, G, l, seq, table)
  <2> HIDE DEF G
  <2> QED
    BY <1>1, <1>2, <1>4, FoldExists
<1>6. table = Def(table)
  BY <1>5 DEF IsFold
<1>7. it = Def(it)
  <2> HIDE DEF Def
  <2> QED
    BY <1>6
<1> HIDE DEF it
<1>8. Follows(S, T, G, l, seq, it)
  BY <1>7 DEF Follows
<1>9. G \in [S \X T -> S] /\ \A s \in S, t \in T : G[<<s, t>>] = Rearm(s, t)
  BY <1>4
<1> HIDE DEF G, Def
<1>10. PICK r : Runs(S, G, l, seq, r, it[DOMAIN seq])
  BY <1>1, <1>2, <1>8, <1>9, FoldRuns
<1>11. m = it[DOMAIN seq]
  BY DEF fd_rearm_all, FoldLeft, MapThenFoldSet, it, Def, seq
<1>12. DoneBy(S, T, G, Cleared)
  <2> SUFFICES ASSUME NEW s \in S, NEW t \in T, NEW u \in T
               PROVE  G[<<s, t>>] \in Cleared[t] /\ (s \in Cleared[t] => G[<<s, u>>] \in Cleared[t])
    BY DEF DoneBy
  <2> QED
    BY <1>3, <1>9
<1>13. m \in S /\ \A n \in 1 .. Len(seq) : m \in Cleared[seq[n]]
  <2>1. Runs(S, G, l, seq, r, m)
    BY <1>10, <1>11
  <2> HIDE DEF Cleared
  <2> QED
    BY <1>2, <1>12, <2>1, FoldDone
<1>14. ASSUME NEW fd \in Fds PROVE m.anfds[fd].events = {}
  <2>1. PICK n \in 1 .. Len(seq) : seq[n] = fd
    BY AllUpwards DEF seq
  <2>2. m \in Cleared[fd] /\ fd \in T
    BY <1>13, <2>1 DEF T
  <2> QED
    BY <2>2
<1> QED
  BY <1>13, <1>14 DEF S

(* loop_fork *)
LEMMA LoopFork ==
  ASSUME NEW c \in PairType, NEW f \in Owners, LoopInv(c.ev, c.k, f), NEW q, q = loop_fork(c)
  PROVE  /\ q \in PairType /\ LoopInv(q.ev, q.k, f) /\ q.k.file = c.k.file
         /\ q.ev.backend = c.ev.backend /\ q.ev.io = c.ev.io /\ q.ev.pendings = c.ev.pendings
<1> DEFINE l == c.ev
           kern == c.k
<1>1. l \in LoopType /\ kern \in KernelType /\ c = [ev |-> l, k |-> kern]
  BY PairFields
<1>2. /\ Linked(l) /\ Placed(l) /\ Sources(l, kern) /\ Queued(l) /\ Passed(l) /\ Owned(l, kern, f)
      /\ BackendInv(l, kern, f)
  BY DEF LoopInv
<1> HIDE DEF l, kern
<1>3. CASE l.backend = "epoll"
  <2> DEFINE m == fd_rearm_all(l)
             n == [m EXCEPT !.postfork = FALSE]
             kn == [kern EXCEPT !.kset = {}]
  <2>1. m \in LoopType /\ Rearmed(l, m) /\ Queued(m) /\ \A g \in Fds : m.anfds[g].events = {}
    BY <1>1, <1>2, RearmAll
  <2>2. q = [ev |-> n, k |-> kn]
    BY <1>1, <1>3 DEF loop_fork, epoll_fork, l, kern
  <2> HIDE DEF m
  <2>3. /\ n \in LoopType /\ n.anfds = m.anfds /\ n.fdchanges = m.fdchanges /\ n.io = m.io /\ n.pendings = m.pendings
        /\ SameBackend(m, n)
    BY <2>1 DEF LoopType, SameBackend
  <2>4. kn \in KernelType /\ kn.file = kern.file /\ kn.kset = {}
    BY <1>1 DEF KernelType
  <2> HIDE DEF n, kn
  <2>5. q.ev = n /\ q.k = kn
    BY <2>2
  <2>6. n.io = l.io /\ n.pendings = l.pendings /\ SameBackend(l, n)
    BY <2>1, <2>3 DEF Rearmed, SameBackend
  <2>7. ASSUME NEW g \in Fds
        PROVE  /\ n.anfds[g].head = l.anfds[g].head /\ n.anfds[g].events = {}
               /\ ActiveOn(n, g) = ActiveOn(l, g) /\ Wanted(n, g) = Wanted(l, g)
               /\ n.anfds[g].reify = {} => n.anfds[g].reify = l.anfds[g].reify /\ n.anfds[g].events = l.anfds[g].events
               /\ n.anfds[g].emask = {} \/ n.anfds[g].emask = l.anfds[g].emask
    <3>1. ActiveOn(n, g) = ActiveOn(l, g)
      BY <2>6 DEF ActiveOn
    <3> QED
      BY <2>1, <2>3, <3>1 DEF Rearmed, Wanted
  <2>8. Linked(n)
    BY <1>2, <2>6, <2>7 DEF Linked
  <2>9. Placed(n)
    BY <1>2, <2>6 DEF Placed
  <2>10. Sources(n, kn)
    BY <1>2, <2>4, <2>6 DEF Sources
  <2>11. Queued(n)
    BY <2>1, <2>3 DEF Queued
  <2>12. Passed(n)
    BY <1>2, <2>7 DEF Passed
  <2>13. Owned(n, kn, f)
    BY <1>2, <2>4, <2>6 DEF Owned
  <2>14. EpollInv(n, kn, f)
    <3>1. EpollInv(l, kern, f)
      BY <1>2, <1>3 DEF BackendInv
    <3>2. \A g \in Fds : KeptApart(l, kern, f, g)
      BY <3>1 DEF EpollInv
    <3>3. ASSUME NEW g \in Fds PROVE InKernel(n, kn, f, g) /\ KeptApart(n, kn, f, g)
      BY <2>4, <2>6, <2>7, <3>2 DEF InKernel, KeptApart, SameBackend
    <3> QED
      BY <2>4, <3>3 DEF EpollInv, OneFilePerGeneration
  <2>15. BackendInv(n, kn, f)
    BY <1>3, <2>6, <2>14 DEF BackendInv, SameBackend
  <2>16. q \in PairType
    BY <2>2, <2>3, <2>4, APair
  <2>17. LoopInv(n, kn, f)
    BY <2>8, <2>9, <2>10, <2>11, <2>12, <2>13, <2>15 DEF LoopInv
  <2> QED
    BY <2>4, <2>5, <2>6, <2>16, <2>17 DEF l, kern, SameBackend
<1>4. CASE l.backend # "epoll"
  <2> DEFINE n == [l EXCEPT !.postfork = FALSE]
  <2>1. q = [ev |-> n, k |-> kern]
    BY <1>1, <1>4 DEF loop_fork, l, kern
  <2>2. /\ n \in LoopType /\ n.anfds = l.anfds /\ n.fdchanges = l.fdchanges /\ n.io = l.io /\ n.pendings = l.pendings
        /\ SameBackend(l, n)
    BY <1>1 DEF LoopType, SameBackend
  <2> HIDE DEF n
  <2>3. q.ev = n /\ q.k = kern
    BY <2>1
  <2>4. \A g \in Fds : ActiveOn(n, g) = ActiveOn(l, g) /\ Wanted(n, g) = Wanted(l, g)
    <3>1. \A g \in Fds : ActiveOn(n, g) = ActiveOn(l, g)
      BY <2>2 DEF ActiveOn
    <3> QED
      BY <3>1 DEF Wanted
  <2>5. Linked(n)
    BY <1>2, <2>2, <2>4 DEF Linked
  <2>6. Placed(n)
    BY <1>2, <2>2 DEF Placed
  <2>7. Sources(n, kern)
    BY <1>2, <2>2 DEF Sources
  <2>8. Queued(n) /\ Passed(n)
    BY <1>2, <2>2, <2>4 DEF Queued, Passed
  <2>9. Owned(n, kern, f)
    BY <1>2, <2>2 DEF Owned
  <2>10. PollInv(l) => PollInv(n)
    BY <2>2 DEF PollInv, SameBackend
  <2>11. SelectInv(l) => SelectInv(n)
    BY <2>2 DEF SelectInv, SameBackend
  <2>12. BackendInv(n, kern, f)
    BY <1>2, <1>4, <2>2, <2>10, <2>11 DEF BackendInv, SameBackend
  <2>13. q \in PairType
    BY <1>1, <2>1, <2>2, APair
  <2>14. LoopInv(n, kern, f)
    BY <2>5, <2>6, <2>7, <2>8, <2>9, <2>12 DEF LoopInv
  <2> QED
    BY <2>2, <2>3, <2>13, <2>14 DEF l, kern, SameBackend
<1> QED
  BY <1>3, <1>4

-----------------------------------------------------------------------------
(* The polls of the three backends *)

(* What a poll leaves alone: it feeds events, and epoll_poll learns of the   *)
(* kernel's set.                                                             *)
Told(l, m) ==
  /\ m.backend = l.backend
  /\ \A i \in Ios : SameIo(l, m, i) /\ (m.io[i].active <=> l.io[i].active)
  /\ \A g \in Fds : /\ m.anfds[g].events = l.anfds[g].events /\ m.anfds[g].egen = l.anfds[g].egen
                    /\ m.anfds[g].reify = l.anfds[g].reify

LEMMA ToldTwice ==
  ASSUME NEW l, NEW m, NEW n, Told(l, m), Told(m, n)
  PROVE  Told(l, n)
  BY DEF Told, SameIo

LEMMA BackendOnly ==
  ASSUME NEW l \in LoopType, NEW kern, NEW f, LoopInv(l, kern, f), NEW n, SameButBackend(l, n),
         NEW kn, kn.file = kern.file, BackendInv(n, kn, f)
  PROVE  LoopInv(n, kn, f)
<1>1. n.io = l.io /\ n.pendings = l.pendings /\ n.fdchanges = l.fdchanges
  BY DEF SameButBackend
<1>2. /\ Linked(l) /\ Placed(l) /\ Sources(l, kern) /\ Queued(l) /\ Passed(l) /\ Owned(l, kern, f)
  BY DEF LoopInv
<1>3. ASSUME NEW g \in Fds
      PROVE  /\ n.anfds[g].head = l.anfds[g].head /\ n.anfds[g].events = l.anfds[g].events
             /\ n.anfds[g].reify = l.anfds[g].reify
             /\ ActiveOn(n, g) = ActiveOn(l, g) /\ Wanted(n, g) = Wanted(l, g)
  <2>1. ActiveOn(n, g) = ActiveOn(l, g)
    BY <1>1 DEF ActiveOn
  <2> QED
    BY <2>1 DEF SameButBackend, Wanted
<1>4. Linked(n)
  BY <1>1, <1>2, <1>3 DEF Linked
<1>5. Placed(n) /\ Sources(n, kn)
  BY <1>1, <1>2 DEF Placed, Sources
<1>6. Queued(n) /\ Passed(n)
  BY <1>1, <1>2, <1>3 DEF Queued, Passed
<1>7. Owned(n, kn, f)
  BY <1>1, <1>2 DEF Owned
<1> QED
  BY <1>4, <1>5, <1>6, <1>7 DEF LoopInv

(* The events of one descriptor are fed. *)
LEMMA FeedKeeps ==
  ASSUME NEW l \in LoopType, NEW kern \in KernelType, NEW f \in Owners, LoopInv(l, kern, f),
         NEW fd \in Fds, NEW revents \in SUBSET Ev, NEW src,
         l.anfds[fd].reify = {} /\ ActiveOn(l, fd) # {} => src = kern.file[fd],
         NEW m, m = fd_event(l, fd, revents, src)
  PROVE  m \in LoopType /\ LoopInv(m, kern, f) /\ Told(l, m)
<1>1. m \in LoopType /\ SameButPending(l, m) /\ LoopInv(m, kern, f)
  BY EventKeeps
<1> QED
  BY <1>1 DEF SameButPending, Told, SameBackend

(* An item under the present generation is the present file's, if anyone     *)
(* watches the descriptor.                                                   *)
Attributed(l, kern, f, e) ==
  e.gen = l.anfds[e.fd].egen /\ e.file # kern.file[e.fd] /\ kern.file[e.fd] # None =>
    Anew(l, f, e.fd) \/ l.anfds[e.fd].events = {}

LEMMA ReportedFile ==
  ASSUME NEW l \in LoopType, NEW kern \in KernelType, NEW f \in Owners, LoopInv(l, kern, f),
         NEW e \in ItemType, Attributed(l, kern, f, e), e.gen = l.anfds[e.fd].egen
  PROVE  l.anfds[e.fd].reify = {} /\ ActiveOn(l, e.fd) # {} => e.file = kern.file[e.fd]
<1> SUFFICES ASSUME l.anfds[e.fd].reify = {}, NEW i \in ActiveOn(l, e.fd)
             PROVE  e.file = kern.file[e.fd]
  OBVIOUS
<1>1. e.fd \in Fds
  BY DEF ItemType
<1>2. kern.file[e.fd] # None /\ ~Fresh(l, f, e.fd)
  BY <1>1, WatchedIsOpen DEF LoopInv
<1>3. l.anfds[e.fd].events # {}
  BY <1>1, WantedEvents DEF LoopInv, Passed
<1> QED
  BY <1>2, <1>3 DEF Attributed, Anew

LEMMA ReportKeeps ==
  ASSUME NEW l \in LoopType, NEW kern \in KernelType, NEW f \in Owners, LoopInv(l, kern, f), l.backend = "epoll",
         NEW e \in ItemType, Attributed(l, kern, f, e), \A g \in Fds : l.anfds[g].reify = {},
         NEW got \in SUBSET Ev, NEW c, c = [ev |-> l, k |-> kern], NEW q, q = Report(c, e, got)
  PROVE  /\ q = [ev |-> q.ev, k |-> q.k] /\ q.ev \in LoopType /\ q.k \in KernelType
         /\ q.k.file = kern.file /\ LoopInv(q.ev, q.k, f) /\ Told(l, q.ev)
<1> DEFINE fd == e.fd
           present == kern.file[fd]
           want == l.anfds[fd].events
           egen == l.anfds[fd].egen
<1>1. c.ev = l /\ c.k = kern /\ fd \in Fds /\ e.file \in Files \ Plain /\ e.gen \in Nat
  BY DEF ItemType
<1>2. l.anfds[fd] \in AnfdType /\ l.epoll \in EpollType
  BY <1>1, LoopFields DEF AnfdsType
<1>3. want \in SUBSET Ev /\ egen \in Nat /\ want \in EmaskType /\ l.epoll.eperms \in EpermsType
  BY <1>2 DEF AnfdType, EpollType, EmaskType, EpermsType
<1>4. EpollInv(l, kern, f)
  BY DEF LoopInv, BackendInv
<1>5. OneFilePerGeneration(kern) /\ \A g \in Fds : InKernel(l, kern, f, g) /\ KeptApart(l, kern, f, g)
  BY <1>4 DEF EpollInv
<1>6. ASSUME NEW d \in kern.kset
      PROVE  /\ ItemKnown(l, kern, f, d) /\ d.fd \in Fds /\ d.file \in Files \ Plain /\ d.gen \in Nat
  BY <1>4 DEF EpollInv, KernelType, ItemType
<1>10. egen = e.gen /\ ActiveOn(l, fd) # {} => e.file = present
  <2>1. l.anfds[fd].reify = {}
    BY <1>1
  <2> QED
    BY <2>1, ReportedFile
<1> HIDE DEF fd, want, egen
<1>7. CASE egen # e.gen
  <2> DEFINE n == [l EXCEPT !.postfork = TRUE]
  <2>1. q = [ev |-> n, k |-> kern]
    BY <1>7 DEF Report, fd, egen
  <2>2. n \in LoopType /\ n.anfds = l.anfds /\ SameBackend(l, n) /\ n.io = l.io /\ n.pendings = l.pendings
          /\ n.fdchanges = l.fdchanges /\ n.postfork
    BY DEF LoopType, SameBackend
  <2> HIDE DEF n
  <2>3. ASSUME NEW g \in Fds, Anew(l, f, g) PROVE Anew(n, f, g)
    BY <2>2, <2>3 DEF Anew, Fresh
  <2>4. ASSUME NEW d \in kern.kset PROVE ItemKnown(n, kern, f, d)
    BY <1>6, <2>2, <2>3 DEF ItemKnown
  <2>5. ASSUME NEW g \in Fds PROVE InKernel(n, kern, f, g) /\ KeptApart(n, kern, f, g)
    BY <1>5, <2>2, <2>3 DEF InKernel, KeptApart, SameBackend
  <2>6. EpollInv(n, kern, f)
    BY <1>5, <2>4, <2>5 DEF EpollInv
  <2>7. ASSUME NEW g \in Fds PROVE ActiveOn(n, g) = ActiveOn(l, g) /\ Wanted(n, g) = Wanted(l, g)
    <3>1. ActiveOn(n, g) = ActiveOn(l, g)
      BY <2>2 DEF ActiveOn
    <3> QED
      BY <3>1 DEF Wanted
  <2>8. Linked(n) /\ Placed(n) /\ Sources(n, kern) /\ Queued(n) /\ Passed(n) /\ Owned(n, kern, f)
    <3>1. Linked(l) /\ Placed(l) /\ Sources(l, kern) /\ Queued(l) /\ Passed(l) /\ Owned(l, kern, f)
      BY DEF LoopInv
    <3>2. Linked(n)
      BY <2>2, <2>7, <3>1 DEF Linked
    <3>3. Placed(n) /\ Sources(n, kern)
      BY <2>2, <3>1 DEF Placed, Sources
    <3>4. Queued(n) /\ Passed(n)
      BY <2>2, <2>7, <3>1 DEF Queued, Passed
    <3>5. Owned(n, kern, f)
      BY <2>2, <3>1 DEF Owned
    <3> QED
      BY <3>2, <3>3, <3>4, <3>5
  <2>9. LoopInv(n, kern, f)
    BY <2>2, <2>6, <2>8 DEF LoopInv, BackendInv, SameBackend
  <2> QED
    BY <2>1, <2>2, <2>9 DEF Told, SameIo, SameBackend
<1>8. CASE egen = e.gen /\ got \subseteq want
  <2> DEFINE n == fd_event(l, fd, got, e.file)
  <2>1. q = [ev |-> n, k |-> kern]
    BY <1>1, <1>8 DEF Report, fd, egen, want
  <2>2. l.anfds[fd].reify = {} /\ ActiveOn(l, fd) # {} => e.file = present
    BY <1>8, <1>10
  <2>4. n = fd_event(l, fd, got, e.file)
    OBVIOUS
  <2> HIDE DEF n
  <2>3. n \in LoopType /\ LoopInv(n, kern, f) /\ Told(l, n)
    BY <1>1, <2>2, <2>4, FeedKeeps
  <2> QED
    BY <2>1, <2>3
<1>9. CASE egen = e.gen /\ ~(got \subseteq want)
  <2> DEFINE n == Remasked(l, fd, want, egen, l.epoll.eperms)
  <2>1. [c EXCEPT !.ev.anfds[fd].emask = want] = [ev |-> n, k |-> kern]
    <3>1. n = [l EXCEPT !.anfds[fd].emask = want]
      <4>1. [eperms |-> l.epoll.eperms] = l.epoll
        BY <1>2 DEF EpollType
      <4>2. [l EXCEPT !.anfds[fd].emask = want, !.anfds[fd].egen = egen, !.epoll = l.epoll]
              = [l EXCEPT !.anfds[fd].emask = want]
        <5>1. [l.anfds[fd] EXCEPT !.emask = want, !.egen = egen] = [l.anfds[fd] EXCEPT !.emask = want]
          BY <1>2 DEF AnfdType, egen
        <5>2. l.anfds \in [Fds -> AnfdType]
          BY LoopFields DEF AnfdsType
        <5>3. [l EXCEPT !.anfds[fd].emask = want, !.anfds[fd].egen = egen, !.epoll = l.epoll]
                = [l EXCEPT !.anfds = [l.anfds EXCEPT ![fd] = [l.anfds[fd] EXCEPT !.emask = want, !.egen = egen]]]
          <6> DEFINE a == [l.anfds[fd] EXCEPT !.emask = want, !.egen = egen]
                     A == [l.anfds EXCEPT ![fd] = a]
          <6>1. [l EXCEPT !.anfds[fd].emask = want, !.anfds[fd].egen = egen, !.epoll = l.epoll]
                  = [l EXCEPT !.anfds = A, !.epoll = l.epoll]
            BY <1>1, <1>2, <5>2, ZenonT(30) DEF LoopType, AnfdType
          <6>2. A = [l.anfds EXCEPT ![fd] = a]
            OBVIOUS
          <6> HIDE DEF A
          <6>3. [l EXCEPT !.anfds = A, !.epoll = l.epoll] = [l EXCEPT !.anfds = A]
            BY DEF LoopType
          <6> QED
            BY <6>1, <6>2, <6>3 DEF A
        <5> QED
          BY <5>1, <5>3
      <4> QED
        BY <4>1, <4>2 DEF Remasked
    <3>2. [c EXCEPT !.ev.anfds[fd].emask = want] = [ev |-> [l EXCEPT !.anfds[fd].emask = want], k |-> kern]
      BY <1>1
    <3> QED
      BY <3>1, <3>2
  <2>2. /\ n \in LoopType /\ SameButBackend(l, n) /\ n.poll = l.poll /\ n.select = l.select
        /\ n.epoll.eperms = l.epoll.eperms
        /\ \A g \in Fds : /\ n.anfds[g].emask = IF g = fd THEN want ELSE l.anfds[g].emask
                          /\ n.anfds[g].egen = IF g = fd THEN egen ELSE l.anfds[g].egen
    BY <1>1, <1>3, Remask
  <2> HIDE DEF n
  <2>3. ASSUME NEW g \in Fds
        PROVE  n.anfds[g].egen = l.anfds[g].egen /\ n.anfds[g].events = l.anfds[g].events /\ n.anfds[g].reify = {}
    BY <2>2 DEF SameButBackend, egen
  <2>4. ASSUME NEW g \in Fds, Anew(l, f, g) PROVE Anew(n, f, g)
    BY <2>2, <2>4 DEF Anew, Fresh, SameButBackend
  <2>5. "EPERM" \notin want
    BY <1>3 DEF Ev, RW
  <2>6. CASE Registered(kern, fd)
    <3> DEFINE kn == IF want = {} THEN KernelDel(kern, fd) ELSE KernelSet(kern, fd, want, e.gen)
    <3>1. q = [ev |-> fd_event(n, fd, got, e.file), k |-> kn]
      BY <1>1, <1>9, <2>1, <2>6 DEF Report, fd, egen, want
    <3>2. PICK r \in kern.kset : r.fd = fd /\ r.file = present
      BY <2>6 DEF Registered
    <3>3. r.gen = egen /\ present \in Files \ Plain
      BY <1>6, <3>2 DEF ItemKnown, egen
    <3>4. CASE want = {}
      <4>1. /\ kn \in KernelType /\ kn.file = kern.file /\ kn.kset \subseteq kern.kset
            /\ \A d \in kern.kset : d.fd # fd => d \in kn.kset
        BY <3>4 DEF KernelDel, KernelType
      <4> HIDE DEF kn
      <4>2. ASSUME NEW d \in kn.kset PROVE ItemKnown(n, kn, f, d)
        <5>1. d \in kern.kset /\ d.fd \in Fds /\ ItemKnown(l, kern, f, d)
          BY <1>6, <4>1
        <5> QED
          BY <2>2, <2>3, <2>4, <3>4, <4>1, <5>1 DEF ItemKnown
      <4>3. OneFilePerGeneration(kn)
        BY <1>5, <4>1 DEF OneFilePerGeneration
      <4>4. ASSUME NEW g \in Fds PROVE InKernel(n, kn, f, g) /\ KeptApart(n, kn, f, g)
        <5>1. CASE g = fd
          <6>1. n.anfds[fd].events = {} /\ n.anfds[fd].emask = {}
            BY <1>1, <2>2, <2>3, <3>4 DEF want
          <6> QED
            BY <5>1, <6>1 DEF InKernel, KeptApart
        <5>2. CASE g # fd
          <6>1. n.postfork = l.postfork
            BY <2>2 DEF SameButBackend
          <6> QED
            BY <1>5, <2>2, <2>3, <2>4, <4>1, <5>2, <6>1 DEF InKernel, KeptApart
        <5> QED
          BY <5>1, <5>2
      <4>5. EpollInv(n, kn, f)
        BY <4>2, <4>3, <4>4 DEF EpollInv
      <4>6. LoopInv(n, kn, f)
        <5>1. BackendInv(n, kn, f)
          BY <2>2, <4>5 DEF BackendInv, SameButBackend
        <5> QED
          BY <2>2, <4>1, <5>1, BackendOnly
      <4>7. n.anfds[fd].reify = {} /\ ActiveOn(n, fd) # {} => e.file = kn.file[fd]
        <5>1. ActiveOn(n, fd) = ActiveOn(l, fd)
          BY <2>2 DEF SameButBackend, ActiveOn
        <5> QED
          BY <1>9, <1>10, <4>1, <5>1
      <4> DEFINE o == fd_event(n, fd, got, e.file)
      <4>8. o \in LoopType /\ LoopInv(o, kn, f) /\ Told(n, o)
        BY <1>1, <2>2, <4>1, <4>6, <4>7, FeedKeeps
      <4> HIDE DEF o
      <4>9. Told(l, n)
        BY <2>2, <2>3 DEF Told, SameButBackend, SameIo
      <4> QED
        BY <3>1, <4>1, <4>8, <4>9, ToldTwice DEF o
    <3>5. CASE want # {}
      <4>1. HasItem(kern, kn, fd, want \cap RW, e.gen)
        <5>1. kn = KernelSet(kern, fd, want, e.gen)
          BY <3>5
        <5> HIDE DEF kn
        <5> QED
          BY <1>1, <3>3, <5>1, SetItem
      <4> HIDE DEF kn
      <4>2. ASSUME NEW d \in kn.kset PROVE ItemKnown(n, kn, f, d)
        <5>1. CASE d.fd = fd /\ d.file = present /\ d.mask = want \cap RW /\ d.gen = e.gen
          <6>1. kn.file = kern.file /\ d.gen \in Nat /\ d.gen = n.anfds[fd].egen /\ n.anfds[fd].emask = want
            BY <1>1, <1>9, <2>2, <4>1, <5>1 DEF HasItem
          <6> QED
            BY <5>1, <6>1 DEF ItemKnown
        <5>2. CASE d \in kern.kset /\ ~(d.fd = fd /\ d.file = present)
          <6>1. kn.file = kern.file /\ d.fd \in Fds /\ ItemKnown(l, kern, f, d)
            BY <1>6, <4>1, <5>2 DEF HasItem
          <6> QED
            BY <2>2, <2>3, <2>4, <5>2, <6>1 DEF ItemKnown
        <5> QED
          BY <4>1, <5>1, <5>2 DEF HasItem
      <4>3. OneFilePerGeneration(kn)
        <5>1. ASSUME NEW d \in kern.kset, d.fd = fd, d.gen = e.gen PROVE d.file = present
          BY <1>5, <1>9, <3>2, <3>3, <5>1 DEF OneFilePerGeneration
        <5> QED
          BY <1>5, <4>1, <5>1 DEF OneFilePerGeneration, HasItem
      <4>4. ASSUME NEW g \in Fds PROVE InKernel(n, kn, f, g) /\ KeptApart(n, kn, f, g)
        <5>1. CASE g = fd
          <6>1. n.anfds[fd].events = want /\ n.anfds[fd].emask = want /\ kn.file[fd] = present
            BY <1>1, <2>2, <2>3, <4>1 DEF want, HasItem
          <6>2. \E d \in kn.kset : d.fd = fd /\ d.file = present /\ d.mask = want \cap RW
            BY <4>1 DEF HasItem
          <6> QED
            BY <2>5, <3>3, <5>1, <6>1, <6>2 DEF InKernel, KeptApart
        <5>2. CASE g # fd
          <6>1. n.postfork = l.postfork
            BY <2>2 DEF SameButBackend
          <6> QED
            BY <1>5, <2>2, <2>3, <2>4, <4>1, <5>2, <6>1 DEF InKernel, KeptApart, HasItem
        <5> QED
          BY <5>1, <5>2
      <4>5. EpollInv(n, kn, f)
        BY <4>2, <4>3, <4>4 DEF EpollInv
      <4>6. LoopInv(n, kn, f) /\ kn \in KernelType /\ kn.file = kern.file
        <5>1. BackendInv(n, kn, f)
          BY <2>2, <4>5 DEF BackendInv, SameButBackend
        <5>2. kn \in KernelType /\ kn.file = kern.file
          BY <4>1 DEF HasItem
        <5> QED
          BY <2>2, <5>1, <5>2, BackendOnly
      <4>7. n.anfds[fd].reify = {} /\ ActiveOn(n, fd) # {} => e.file = kn.file[fd]
        <5>1. ActiveOn(n, fd) = ActiveOn(l, fd)
          BY <2>2 DEF SameButBackend, ActiveOn
        <5> QED
          BY <1>9, <1>10, <4>6, <5>1
      <4> DEFINE o == fd_event(n, fd, got, e.file)
      <4>8. o \in LoopType /\ LoopInv(o, kn, f) /\ Told(n, o)
        BY <1>1, <2>2, <4>6, <4>7, FeedKeeps
      <4> HIDE DEF o
      <4>9. Told(l, n)
        BY <2>2, <2>3 DEF Told, SameButBackend, SameIo
      <4> QED
        BY <3>1, <4>6, <4>8, <4>9, ToldTwice DEF o
    <3> QED
      BY <3>4, <3>5
  <2>7. CASE ~Registered(kern, fd)
    <3> DEFINE o == [n EXCEPT !.postfork = TRUE]
    <3>1. q = [ev |-> o, k |-> kern]
      BY <1>1, <1>9, <2>1, <2>7 DEF Report, fd, egen, want
    <3>2. o \in LoopType /\ o.anfds = n.anfds /\ SameBackend(n, o) /\ o.io = n.io /\ o.pendings = n.pendings
            /\ o.fdchanges = n.fdchanges /\ o.postfork
      BY <2>2 DEF LoopType, SameBackend
    <3> HIDE DEF o
    <3>3. o.io = l.io /\ o.pendings = l.pendings /\ o.fdchanges = l.fdchanges /\ o.backend = l.backend
            /\ o.epoll.eperms = l.epoll.eperms
      BY <2>2, <3>2 DEF SameButBackend, SameBackend
    <3>4. ASSUME NEW g \in Fds, Anew(l, f, g) PROVE Anew(o, f, g)
      BY <2>4, <3>2, <3>4 DEF Anew, Fresh
    <3>5. ASSUME NEW d \in kern.kset PROVE ItemKnown(o, kern, f, d)
      <4>1. d.fd = fd => d.file # present
        BY <2>7 DEF Registered
      <4>2. d.fd \in Fds /\ ItemKnown(l, kern, f, d)
        BY <1>6
      <4>3. o.anfds[d.fd].egen = l.anfds[d.fd].egen /\ o.anfds[d.fd].events = l.anfds[d.fd].events
              /\ (d.fd # fd => o.anfds[d.fd].emask = l.anfds[d.fd].emask)
        BY <2>2, <2>3, <3>2, <4>2
      <4> QED
        BY <3>4, <4>1, <4>2, <4>3 DEF ItemKnown
    <3>6. ASSUME NEW g \in Fds PROVE InKernel(o, kern, f, g) /\ KeptApart(o, kern, f, g)
      <4>1. CASE g = fd
        <5>1. present \in Plain => Anew(l, f, fd) \/ want = {}
          BY <1>1, <1>9, FilesAssumption DEF Attributed, egen, want, fd
        <5>2. o.anfds[fd].emask = want /\ o.anfds[fd].events = want
          BY <1>1, <2>2, <2>3, <3>2 DEF want
        <5> QED
          BY <2>5, <3>2, <3>4, <4>1, <5>1, <5>2 DEF InKernel, KeptApart
      <4>2. CASE g # fd
        BY <1>5, <2>2, <2>3, <3>2, <3>3, <3>4, <4>2 DEF InKernel, KeptApart
      <4> QED
        BY <4>1, <4>2
    <3>7. EpollInv(o, kern, f)
      BY <1>5, <3>5, <3>6 DEF EpollInv
    <3>8. ASSUME NEW g \in Fds
          PROVE  ActiveOn(o, g) = ActiveOn(l, g) /\ Wanted(o, g) = Wanted(l, g) /\ o.anfds[g].head = l.anfds[g].head
      <4>1. ActiveOn(o, g) = ActiveOn(l, g)
        BY <3>3 DEF ActiveOn
      <4> QED
        BY <2>2, <3>2, <4>1 DEF Wanted, SameButBackend
    <3>9. Linked(o) /\ Placed(o) /\ Sources(o, kern) /\ Queued(o) /\ Passed(o) /\ Owned(o, kern, f)
      <4>1. Linked(l) /\ Placed(l) /\ Sources(l, kern) /\ Queued(l) /\ Passed(l) /\ Owned(l, kern, f)
        BY DEF LoopInv
      <4>2. Linked(o)
        BY <3>3, <3>8, <4>1 DEF Linked
      <4>3. Placed(o) /\ Sources(o, kern)
        BY <3>3, <4>1 DEF Placed, Sources
      <4>4. Queued(o) /\ Passed(o)
        BY <2>3, <3>2, <3>8, <4>1 DEF Queued, Passed
      <4>5. Owned(o, kern, f)
        BY <3>3, <4>1 DEF Owned
      <4> QED
        BY <4>2, <4>3, <4>4, <4>5
    <3>10. LoopInv(o, kern, f)
      BY <3>3, <3>7, <3>9 DEF LoopInv, BackendInv
    <3>11. Told(l, o)
      BY <2>3, <3>2, <3>3 DEF Told, SameIo
    <3> QED
      BY <3>1, <3>2, <3>10, <3>11
  <2> QED
    BY <2>6, <2>7
<1> QED
  BY <1>7, <1>8, <1>9

LEMMA ToldCarries ==
  ASSUME NEW l, NEW m, NEW kern, NEW f, NEW e, e.fd \in Fds, Told(l, m), Attributed(l, kern, f, e)
  PROVE  Attributed(m, kern, f, e)
<1>1. Anew(l, f, e.fd) => Anew(m, f, e.fd)
  BY DEF Told, Anew, Fresh, SameIo
<1> QED
  BY <1>1 DEF Told, Attributed

(* epoll_poll, the events the kernel reports *)
LEMMA ReportAllKeeps ==
  ASSUME NEW c \in PairType, NEW f \in Owners, LoopInv(c.ev, c.k, f), c.ev.backend = "epoll",
         \A g \in Fds : c.ev.anfds[g].reify = {},
         NEW count \in Nat, NEW items \in [1 .. count -> c.k.kset], NEW got \in [1 .. count -> SUBSET RW],
         NEW q, q = ReportAll(c, items, got)
  PROVE  q \in PairType /\ LoopInv(q.ev, q.k, f) /\ q.k.file = c.k.file /\ Told(c.ev, q.ev)
<1> DEFINE S == {s \in PairType : LoopInv(s.ev, s.k, f) /\ s.k.file = c.k.file /\ Told(c.ev, s.ev)}
           T == 1 .. count
           seq == [n \in DOMAIN items |-> n]
           op(s, n) == Report(s, items[n], got[n])
           G == [p \in S \X T |-> op(p[1], p[2])]
           Def(it) == [s \in SUBSET DOMAIN seq |->
                         IF s = {} THEN c ELSE op(it[s \ {Max(s)}], seq[Max(s)])]
           it == CHOOSE it : it = Def(it)
<1>1. c \in S
  BY DEF Told, SameIo
<1>2. seq \in Seq(T)
  <2>1. seq \in [1 .. count -> 1 .. count]
    OBVIOUS
  <2> QED
    BY <2>1
<1>3. ASSUME NEW s \in S, NEW t \in T PROVE op(s, t) \in S
  <2> DEFINE n == op(s, t)
             e == items[t]
  <2>1. e \in c.k.kset /\ got[t] \in SUBSET Ev
    BY DEF Ev
  <2>2. e \in ItemType /\ ItemKnown(c.ev, c.k, f, e) /\ e.fd \in Fds
    <3>1. c.k \in KernelType
      BY PairFields
    <3> QED
      BY <2>1, <3>1 DEF LoopInv, BackendInv, EpollInv, KernelType, ItemType
  <2> HIDE DEF e
  <2>3. Attributed(c.ev, c.k, f, e)
    BY <2>2 DEF ItemKnown, Attributed
  <2>4. Attributed(s.ev, c.k, f, e)
    BY <2>2, <2>3, ToldCarries
  <2>5. Attributed(s.ev, s.k, f, e)
    BY <2>4 DEF Attributed
  <2>6. s.ev \in LoopType /\ s.k \in KernelType /\ s = [ev |-> s.ev, k |-> s.k]
    BY PairFields
  <2>7. s.ev.backend = "epoll" /\ \A g \in Fds : s.ev.anfds[g].reify = {}
    BY DEF Told
  <2>8. n = Report(s, e, got[t])
    BY DEF e
  <2>9. LoopInv(s.ev, s.k, f)
    OBVIOUS
  <2> HIDE DEF n
  <2>10. /\ n = [ev |-> n.ev, k |-> n.k] /\ n.ev \in LoopType /\ n.k \in KernelType
         /\ n.k.file = s.k.file /\ LoopInv(n.ev, n.k, f) /\ Told(s.ev, n.ev)
    BY <2>1, <2>2, <2>5, <2>6, <2>7, <2>8, <2>9, ReportKeeps
  <2>11. n \in PairType /\ Told(c.ev, n.ev)
    BY <2>10, APair, ToldTwice
  <2>12. n \in S
    BY <2>10, <2>11
  <2> QED
    BY <2>12 DEF n
<1> HIDE DEF S, T, seq, op
<1>4. G \in [S \X T -> S]
  BY <1>3
<1>5. PICK table : IsFold(S, T, G, c, seq, table)
  <2> HIDE DEF G
  <2> QED
    BY <1>1, <1>2, <1>4, FoldExists
<1>6. table = Def(table)
  BY <1>5 DEF IsFold
<1>7. it = Def(it)
  <2> HIDE DEF Def
  <2> QED
    BY <1>6
<1> HIDE DEF it
<1>8. Follows(S, T, G, c, seq, it)
  BY <1>7 DEF Follows
<1> HIDE DEF G, Def
<1>9. PICK r : Runs(S, G, c, seq, r, it[DOMAIN seq])
  BY <1>1, <1>2, <1>4, <1>8, FoldRuns
<1>10. q = it[DOMAIN seq]
  BY DEF ReportAll, FoldLeftDomain, FoldLeft, MapThenFoldSet, it, Def, op, seq
<1>11. q \in S
  <2>1. Len(seq) \in 0 .. Len(seq)
    BY <1>2, LenProperties
  <2> QED
    BY <2>1, <1>9, <1>10 DEF Runs
<1> QED
  BY <1>11 DEF S

LEMMA AlwaysReadyKeeps ==
  ASSUME NEW l \in LoopType, NEW kern \in KernelType, NEW f \in Owners, LoopInv(l, kern, f), l.backend = "epoll",
         NEW fd \in Fds, NEW c, c = [ev |-> l, k |-> kern], NEW q, q = AlwaysReady(c, fd)
  PROVE  q = [ev |-> q.ev, k |-> kern] /\ q.ev \in LoopType /\ LoopInv(q.ev, kern, f) /\ Told(l, q.ev)
<1> DEFINE emask == l.anfds[fd].emask
           want == l.anfds[fd].events
           egen == l.anfds[fd].egen
           eperms == l.epoll.eperms \ {fd}
<1>1. c.ev = l /\ c.k = kern
  OBVIOUS
<1>2. l.anfds[fd] \in AnfdType /\ l.epoll \in EpollType
  BY <1>1, LoopFields DEF AnfdsType
<1>3. want \in SUBSET Ev /\ egen \in Nat /\ {} \in EmaskType /\ eperms \in EpermsType
  BY <1>2 DEF AnfdType, EpollType, EmaskType, EpermsType
<1> HIDE DEF emask, want, egen
<1>4. CASE "EPERM" \in emask /\ want \cap RW # {}
  <2> DEFINE n == fd_event(l, fd, want \cap RW, kern.file[fd])
  <2>1. q = [ev |-> n, k |-> kern]
    BY <1>1, <1>4 DEF AlwaysReady, emask, want
  <2>2. n = fd_event(l, fd, want \cap RW, kern.file[fd])
    OBVIOUS
  <2>3. want \cap RW \in SUBSET Ev
    BY <1>3
  <2> HIDE DEF n
  <2>4. n \in LoopType /\ LoopInv(n, kern, f) /\ Told(l, n)
    BY <2>2, <2>3, FeedKeeps
  <2> QED
    BY <2>1, <2>4
<1>5. CASE ~("EPERM" \in emask /\ want \cap RW # {})
  <2> DEFINE n == Remasked(l, fd, {}, egen, eperms)
  <2>1. q = [c EXCEPT !.ev.epoll.eperms = eperms, !.ev.anfds[fd].emask = {}]
    BY <1>1, <1>5 DEF AlwaysReady, emask, want
  <2>2. q = [ev |-> n, k |-> kern]
    <3> DEFINE a == [l.anfds[fd] EXCEPT !.emask = {}, !.egen = egen]
               A == [l.anfds EXCEPT ![fd] = a]
    <3>1. q = [ev |-> [l EXCEPT !.epoll.eperms = eperms, !.anfds[fd].emask = {}], k |-> kern]
      BY <1>1, <2>1 DEF LoopType
    <3>3. a = [l.anfds[fd] EXCEPT !.emask = {}]
      BY <1>2 DEF AnfdType, egen
    <3> HIDE DEF eperms
    <3>2. [l.epoll EXCEPT !.eperms = eperms] = [eperms |-> eperms]
      BY <1>2 DEF EpollType
    <3>4. [l EXCEPT !.epoll.eperms = eperms, !.anfds[fd].emask = {}]
            = [l EXCEPT !.epoll = [l.epoll EXCEPT !.eperms = eperms], !.anfds = [l.anfds EXCEPT ![fd] = [l.anfds[fd] EXCEPT !.emask = {}]]]
      BY DEF LoopType
    <3>5. n = [l EXCEPT !.anfds = A, !.epoll = [eperms |-> eperms]]
      <4>1. l.anfds \in [Fds -> AnfdType]
        BY LoopFields DEF AnfdsType
      <4> QED
        BY <1>2, <4>1 DEF LoopType, AnfdType, Remasked
    <3>6. A = [l.anfds EXCEPT ![fd] = [l.anfds[fd] EXCEPT !.emask = {}]]
      BY <3>3
    <3> HIDE DEF A, n
    <3>7. [l EXCEPT !.epoll = [eperms |-> eperms], !.anfds = A] = [l EXCEPT !.anfds = A, !.epoll = [eperms |-> eperms]]
      BY DEF LoopType
    <3> QED
      BY <3>1, <3>2, <3>4, <3>5, <3>6, <3>7
  <2> HIDE DEF eperms
  <2>3. /\ n \in LoopType /\ SameButBackend(l, n) /\ n.poll = l.poll /\ n.select = l.select
        /\ n.epoll.eperms = eperms
        /\ \A g \in Fds : /\ n.anfds[g].emask = IF g = fd THEN {} ELSE l.anfds[g].emask
                          /\ n.anfds[g].egen = IF g = fd THEN egen ELSE l.anfds[g].egen
    BY <1>3, Remask
  <2> HIDE DEF n
  <2>4. ASSUME NEW g \in Fds
        PROVE  n.anfds[g].egen = l.anfds[g].egen /\ n.anfds[g].events = l.anfds[g].events /\ n.anfds[g].reify = l.anfds[g].reify
    BY <2>3 DEF SameButBackend, egen
  <2>5. ASSUME NEW g \in Fds, Anew(l, f, g) PROVE Anew(n, f, g)
    BY <2>3, <2>5 DEF Anew, Fresh, SameButBackend
  <2>6. EpollInv(l, kern, f)
    BY DEF LoopInv, BackendInv
  <2>7. ASSUME NEW d \in kern.kset PROVE ItemKnown(n, kern, f, d)
    <3>1. d.fd \in Fds /\ ItemKnown(l, kern, f, d)
      BY <2>6 DEF EpollInv, KernelType, ItemType
    <3> QED
      BY <2>3, <2>4, <2>5, <3>1 DEF ItemKnown
  <2>8. ASSUME NEW g \in Fds PROVE InKernel(n, kern, f, g) /\ KeptApart(n, kern, f, g)
    <3>1. InKernel(l, kern, f, g) /\ KeptApart(l, kern, f, g) /\ n.postfork = l.postfork
      BY <2>3, <2>6 DEF EpollInv, SameButBackend
    <3>2. CASE g = fd
      BY <1>5, <2>3, <2>4, <2>5, <3>1, <3>2 DEF InKernel, KeptApart, emask, want
    <3>3. CASE g # fd
      BY <2>3, <2>4, <2>5, <3>1, <3>3 DEF InKernel, KeptApart, eperms
    <3> QED
      BY <3>2, <3>3
  <2>9. EpollInv(n, kern, f)
    BY <2>6, <2>7, <2>8 DEF EpollInv
  <2>10. BackendInv(n, kern, f)
    BY <2>3, <2>9 DEF BackendInv, SameButBackend
  <2>11. LoopInv(n, kern, f)
    BY <2>3, <2>10, BackendOnly
  <2>12. Told(l, n)
    BY <2>3, <2>4 DEF Told, SameButBackend, SameIo
  <2> QED
    BY <2>2, <2>3, <2>11, <2>12
<1> QED
  BY <1>4, <1>5

LEMMA SetAsSeq ==
  ASSUME NEW A \in SUBSET Fds
  PROVE  SetToSeq(A) \in Seq(Fds)
<1>1. IsFiniteSet(Fds)
  BY NumbersAssumption, FS_Interval DEF Fds
<1>2. IsFiniteSet(A)
  BY <1>1, FS_Subset
<1>3. Cardinality(A) \in Nat /\ ExistsBijection(1 .. Cardinality(A), A)
  BY <1>2, FS_CardinalityType
<1>4. \E b \in [1 .. Cardinality(A) -> A] : IsInjective(b)
  BY <1>3 DEF ExistsBijection, Bijection, Injection, Surjection
<1>5. SetToSeq(A) \in [1 .. Cardinality(A) -> A]
  BY <1>4 DEF SetToSeq
<1>6. SetToSeq(A) \in [1 .. Cardinality(A) -> Fds]
  BY <1>5
<1> QED
  BY <1>3, <1>6

(* epoll_poll, the descriptors that epoll refuses *)
LEMMA RefusedKeeps ==
  ASSUME NEW c \in PairType, NEW f \in Owners, LoopInv(c.ev, c.k, f), c.ev.backend = "epoll",
         NEW q, q = PollRefused(c)
  PROVE  q \in PairType /\ LoopInv(q.ev, q.k, f) /\ q.k.file = c.k.file /\ Told(c.ev, q.ev)
<1> DEFINE S == {s \in PairType : LoopInv(s.ev, s.k, f) /\ s.k = c.k /\ Told(c.ev, s.ev)}
           T == Fds
           seq == SetToSeq(c.ev.epoll.eperms)
           G == [p \in S \X T |-> AlwaysReady(p[1], p[2])]
           Def(it) == [s \in SUBSET DOMAIN seq |->
                         IF s = {} THEN c ELSE AlwaysReady(it[s \ {Max(s)}], seq[Max(s)])]
           it == CHOOSE it : it = Def(it)
<1>1. c \in S
  BY DEF Told, SameIo
<1>2. seq \in Seq(T)
  <2>1. c.ev.epoll \in EpollType
    BY PairFields, LoopFields
  <2>2. c.ev.epoll.eperms \in SUBSET Fds
    BY <2>1 DEF EpollType
  <2> QED
    BY <2>2, SetAsSeq
<1>3. ASSUME NEW s \in S, NEW t \in T PROVE AlwaysReady(s, t) \in S
  <2> DEFINE n == AlwaysReady(s, t)
  <2>1. s.ev \in LoopType /\ s.k \in KernelType /\ s = [ev |-> s.ev, k |-> s.k]
    BY PairFields
  <2>2. s.ev.backend = "epoll" /\ LoopInv(s.ev, s.k, f) /\ n = AlwaysReady(s, t)
    BY DEF Told
  <2> HIDE DEF n
  <2>3. n = [ev |-> n.ev, k |-> s.k] /\ n.ev \in LoopType /\ LoopInv(n.ev, s.k, f) /\ Told(s.ev, n.ev)
    BY <2>1, <2>2, AlwaysReadyKeeps
  <2>4. n \in PairType /\ Told(c.ev, n.ev) /\ n.k = s.k
    BY <2>1, <2>3, APair, ToldTwice
  <2>5. n \in S
    BY <2>3, <2>4
  <2> QED
    BY <2>5 DEF n
<1> HIDE DEF S, T, seq
<1>4. G \in [S \X T -> S]
  BY <1>3
<1>5. PICK table : IsFold(S, T, G, c, seq, table)
  <2> HIDE DEF G
  <2> QED
    BY <1>1, <1>2, <1>4, FoldExists
<1>6. table = Def(table)
  BY <1>5 DEF IsFold
<1>7. it = Def(it)
  <2> HIDE DEF Def
  <2> QED
    BY <1>6
<1> HIDE DEF it
<1>8. Follows(S, T, G, c, seq, it)
  BY <1>7 DEF Follows
<1> HIDE DEF G, Def
<1>9. PICK r : Runs(S, G, c, seq, r, it[DOMAIN seq])
  BY <1>1, <1>2, <1>4, <1>8, FoldRuns
<1>10. q = it[DOMAIN seq]
  BY DEF PollRefused, FoldLeft, MapThenFoldSet, it, Def, seq
<1>11. q \in S
  <2>1. Len(seq) \in 0 .. Len(seq)
    BY <1>2, LenProperties
  <2> QED
    BY <2>1, <1>9, <1>10 DEF Runs
<1> QED
  BY <1>11 DEF S

(* epoll_poll *)
LEMMA EpollPolls ==
  ASSUME NEW c \in PairType, NEW f \in Owners, LoopInv(c.ev, c.k, f), c.ev.backend = "epoll",
         \A g \in Fds : c.ev.anfds[g].reify = {},
         NEW count \in Nat, NEW items \in [1 .. count -> c.k.kset], NEW got \in [1 .. count -> SUBSET RW],
         NEW q, q = epoll_poll(c, items, got)
  PROVE  q \in PairType /\ LoopInv(q.ev, q.k, f) /\ q.k.file = c.k.file /\ Told(c.ev, q.ev)
<1> DEFINE m == ReportAll(c, items, got)
<1>1. m = ReportAll(c, items, got)
  OBVIOUS
<1>2. q = PollRefused(m)
  BY DEF epoll_poll
<1> HIDE DEF m
<1>3. m \in PairType /\ LoopInv(m.ev, m.k, f) /\ m.k.file = c.k.file /\ Told(c.ev, m.ev)
  BY <1>1, ReportAllKeeps
<1>4. m.ev.backend = "epoll"
  BY <1>3 DEF Told
<1>5. q \in PairType /\ LoopInv(q.ev, q.k, f) /\ q.k.file = m.k.file /\ Told(m.ev, q.ev)
  BY <1>2, <1>3, <1>4, RefusedKeeps
<1> QED
  BY <1>3, <1>5, ToldTwice

(* A descriptor with events to ask for is open, once its changes are passed on. *)
LEMMA AskedIsOpen ==
  ASSUME NEW l \in LoopType, NEW kern \in KernelType, NEW f \in Owners, LoopInv(l, kern, f),
         NEW fd \in Fds, l.anfds[fd].reify = {}, l.anfds[fd].events # {}
  PROVE  kern.file[fd] # None
<1>1. Wanted(l, fd) # {}
  BY DEF LoopInv, Passed
<1>2. PICK i \in ActiveOn(l, fd) : TRUE
  BY <1>1, WantedEvents
<1>3. Owned(l, kern, f)
  BY DEF LoopInv
<1> QED
  BY <1>2, <1>3, WatchedIsOpen

LEMMA SamePollsTold ==
  ASSUME NEW l \in LoopType, NEW m \in LoopType, SameButPending(l, m)
  PROVE  Told(l, m)
  BY DEF SameButPending, SameBackend, Told

(* poll_poll *)
LEMMA PollPolls ==
  ASSUME NEW c \in PairType, NEW f \in Owners, LoopInv(c.ev, c.k, f), c.ev.backend = "poll",
         \A g \in Fds : c.ev.anfds[g].reify = {},
         NEW got \in [Fds -> SUBSET Ev], NEW q, q = poll_poll(c, got)
  PROVE  q \in PairType /\ LoopInv(q.ev, q.k, f) /\ q.k.file = c.k.file /\ Told(c.ev, q.ev)
<1> DEFINE S == {s \in LoopType : LoopInv(s, c.k, f) /\ Told(c.ev, s)}
           T == {p \in PollfdType : c.k.file[p.fd] # None}
           seq == c.ev.poll.polls
           op(s, p) == CASE got[p.fd] = {} -> s
                         [] got[p.fd] # {} /\ c.k.file[p.fd] = None -> fd_kill(s, p.fd)
                         [] got[p.fd] # {} /\ c.k.file[p.fd] # None -> fd_event(s, p.fd, got[p.fd], c.k.file[p.fd])
           G == [z \in S \X T |-> op(z[1], z[2])]
           Def(it) == [s \in SUBSET DOMAIN seq |->
                         IF s = {} THEN c.ev ELSE op(it[s \ {Max(s)}], seq[Max(s)])]
           it == CHOOSE it : it = Def(it)
<1>0. c.ev \in LoopType /\ c.k \in KernelType /\ c = [ev |-> c.ev, k |-> c.k]
  BY PairFields
<1>1. c.ev \in S
  BY <1>0 DEF Told, SameIo
<1>2. seq \in Seq(T)
  <2>1. seq \in Seq(PollfdType)
    BY <1>0, LoopFields DEF PollType
  <2>2. ASSUME NEW n \in DOMAIN seq PROVE seq[n] \in T
    <3>1. seq[n] \in PollfdType /\ seq[n].fd \in Fds
      BY <1>0, PollfdAt
    <3>2. c.ev.anfds[seq[n].fd].events # {}
      BY DEF LoopInv, BackendInv, PollInv
    <3> QED
      BY <1>0, <3>1, <3>2, AskedIsOpen
  <2> HIDE DEF T, seq
  <2> QED
    BY <2>1, <2>2
<1>3. ASSUME NEW s \in S, NEW t \in T PROVE op(s, t) \in S
  <2>1. t.fd \in Fds /\ got[t.fd] \in SUBSET Ev
    BY DEF PollfdType
  <2>2. CASE got[t.fd] = {}
    BY <2>2
  <2>3. CASE got[t.fd] # {}
    <3> DEFINE n == fd_event(s, t.fd, got[t.fd], c.k.file[t.fd])
    <3>1. n = fd_event(s, t.fd, got[t.fd], c.k.file[t.fd])
      OBVIOUS
    <3>2. op(s, t) = n
      BY <2>3
    <3> HIDE DEF n, op
    <3>3. n \in LoopType /\ LoopInv(n, c.k, f) /\ Told(s, n)
      BY <1>0, <2>1, <3>1, FeedKeeps
    <3>4. Told(c.ev, n)
      BY <3>3, ToldTwice
    <3> QED
      BY <3>2, <3>3, <3>4
  <2> QED
    BY <2>2, <2>3
<1> HIDE DEF S, T, seq, op
<1>4. G \in [S \X T -> S]
  BY <1>3
<1>5. PICK table : IsFold(S, T, G, c.ev, seq, table)
  <2> HIDE DEF G
  <2> QED
    BY <1>1, <1>2, <1>4, FoldExists
<1>6. table = Def(table)
  BY <1>5 DEF IsFold
<1>7. it = Def(it)
  <2> HIDE DEF Def
  <2> QED
    BY <1>6
<1> HIDE DEF it
<1>8. Follows(S, T, G, c.ev, seq, it)
  BY <1>7 DEF Follows
<1> HIDE DEF G, Def
<1>9. PICK r : Runs(S, G, c.ev, seq, r, it[DOMAIN seq])
  BY <1>1, <1>2, <1>4, <1>8, FoldRuns, Zenon
<1>10. q = [c EXCEPT !.ev = it[DOMAIN seq]]
  BY Zenon DEF poll_poll, FoldLeft, MapThenFoldSet, it, Def, op, seq
<1>11. it[DOMAIN seq] \in S
  <2>1. Len(seq) \in 0 .. Len(seq)
    BY <1>2, LenProperties
  <2> QED
    BY <2>1, <1>9 DEF Runs
<1>12. q = [ev |-> it[DOMAIN seq], k |-> c.k]
  BY <1>0, <1>10
<1> QED
  BY <1>0, <1>11, <1>12, APair DEF S

(* select_poll *)
LEMMA SelectPolls ==
  ASSUME NEW c \in PairType, NEW f \in Owners, LoopInv(c.ev, c.k, f),
         NEW got \in [Fds -> SUBSET Ev], NEW q, q = select_poll(c, got)
  PROVE  q \in PairType /\ LoopInv(q.ev, q.k, f) /\ q.k.file = c.k.file /\ Told(c.ev, q.ev)
<1> DEFINE S == {s \in LoopType : LoopInv(s, c.k, f) /\ Told(c.ev, s)}
           T == Fds
           seq == Downwards
           op(s, fd) == IF got[fd] = {} THEN s ELSE fd_event(s, fd, got[fd], c.k.file[fd])
           G == [z \in S \X T |-> op(z[1], z[2])]
           Def(it) == [s \in SUBSET DOMAIN seq |->
                         IF s = {} THEN c.ev ELSE op(it[s \ {Max(s)}], seq[Max(s)])]
           it == CHOOSE it : it = Def(it)
<1>0. c.ev \in LoopType /\ c.k \in KernelType /\ c = [ev |-> c.ev, k |-> c.k]
  BY PairFields
<1>1. c.ev \in S
  BY <1>0 DEF Told, SameIo
<1>2. seq \in Seq(T)
  BY AllDownwards
<1>3. ASSUME NEW s \in S, NEW t \in T PROVE op(s, t) \in S
  <2>1. t \in Fds /\ got[t] \in SUBSET Ev
    OBVIOUS
  <2>2. CASE got[t] = {}
    BY <2>2
  <2>3. CASE got[t] # {}
    <3> DEFINE n == fd_event(s, t, got[t], c.k.file[t])
    <3>1. n = fd_event(s, t, got[t], c.k.file[t])
      OBVIOUS
    <3>2. op(s, t) = n
      BY <2>3
    <3> HIDE DEF n, op
    <3>3. n \in LoopType /\ LoopInv(n, c.k, f) /\ Told(s, n)
      BY <1>0, <2>1, <3>1, FeedKeeps
    <3>4. Told(c.ev, n)
      BY <3>3, ToldTwice
    <3> QED
      BY <3>2, <3>3, <3>4
  <2> QED
    BY <2>2, <2>3
<1> HIDE DEF S, T, seq, op
<1>4. G \in [S \X T -> S]
  BY <1>3
<1>5. PICK table : IsFold(S, T, G, c.ev, seq, table)
  <2> HIDE DEF G
  <2> QED
    BY <1>1, <1>2, <1>4, FoldExists
<1>6. table = Def(table)
  BY <1>5 DEF IsFold
<1>7. it = Def(it)
  <2> HIDE DEF Def
  <2> QED
    BY <1>6
<1> HIDE DEF it
<1>8. Follows(S, T, G, c.ev, seq, it)
  BY <1>7 DEF Follows
<1> HIDE DEF G, Def
<1>9. PICK r : Runs(S, G, c.ev, seq, r, it[DOMAIN seq])
  BY <1>1, <1>2, <1>4, <1>8, FoldRuns
<1>10. q = [c EXCEPT !.ev = it[DOMAIN seq]]
  BY DEF select_poll, FoldLeft, MapThenFoldSet, it, Def, op, seq
<1>11. it[DOMAIN seq] \in S
  <2>1. Len(seq) \in 0 .. Len(seq)
    BY <1>2, LenProperties
  <2> QED
    BY <2>1, <1>9 DEF Runs
<1>12. q = [ev |-> it[DOMAIN seq], k |-> c.k]
  BY <1>0, <1>10
<1> QED
  BY <1>0, <1>11, <1>12, APair DEF S

(* What an iteration of the loop leaves of the watchers: only events are fed. *)
SameIos(l, m) == \A i \in Ios : SameIo(l, m, i) /\ (m.io[i].active <=> l.io[i].active)

(* Before the poll: the kernel's set is built again, the changes are passed on. *)
Rebuilt(c, d) == d = IF c.ev.postfork THEN loop_fork(c) ELSE c

LEMMA Prepares ==
  ASSUME NEW c \in PairType, NEW f \in Owners, LoopInv(c.ev, c.k, f),
         NEW d, Rebuilt(c, d), NEW q, q = fd_reify(d)
  PROVE  /\ q \in PairType /\ LoopInv(q.ev, q.k, f) /\ q.k.file = c.k.file
         /\ q.ev.backend = c.ev.backend /\ q.ev.io = c.ev.io
         /\ \A g \in Fds : q.ev.anfds[g].reify = {}
<1>1. /\ d \in PairType /\ LoopInv(d.ev, d.k, f) /\ d.k.file = c.k.file
      /\ d.ev.backend = c.ev.backend /\ d.ev.io = c.ev.io
  <2>1. CASE c.ev.postfork
    BY <2>1, LoopFork DEF Rebuilt
  <2>2. CASE ~c.ev.postfork
    BY <2>2 DEF Rebuilt
  <2> QED
    BY <2>1, <2>2
<1> QED
  BY <1>1, FdReify

-----------------------------------------------------------------------------
(* User code *)

(* m is l with x's ev_io of dirs stopped. *)
StoppedDirs(l, m, x, dirs) ==
  \A j \in Ios : /\ SameIo(l, m, j)
                 /\ (m.io[j].active <=> l.io[j].active /\ ~(j[1] = x /\ j[2] \in dirs))
                 /\ (m.io[j].pending # 0 <=> l.io[j].pending # 0 /\ ~(j[1] = x /\ j[2] \in dirs))

(* m is l with x's ev_io of dirs started. *)
StartedDirs(l, m, x, dirs) ==
  \A j \in Ios : /\ m.io[j].fd = l.io[j].fd
                 /\ (m.io[j].active <=> l.io[j].active \/ (j[1] = x /\ j[2] \in dirs))
                 /\ (m.io[j].pending # 0 <=> l.io[j].pending # 0)

LEMMA AnIo ==
  ASSUME NEW x \in Watchers, NEW d \in W!Dirs
  PROVE  <<x, d>> \in Ios /\ \A j \in Ios : j = <<x, d>> <=> j[1] = x /\ j[2] = d
  BY DEF Ios

(* One step of Each, for d, and what is done after it *)
StopStep(m, n, x, d, dirs) == n = IF d \in dirs THEN ev_io_stop(m, <<x, d>>) ELSE m
StartStep(m, n, x, d, dirs) == n = IF d \in dirs THEN ev_io_start(m, <<x, d>>) ELSE m
Done(done, d, dirs) == done \cup (dirs \cap {d})

LEMMA StopOne ==
  ASSUME NEW l, NEW m \in LoopType, NEW kern \in KernelType, NEW f \in Owners, LoopInv(m, kern, f),
         NEW x \in Watchers, NEW d \in W!Dirs, NEW dirs, NEW done, StoppedDirs(l, m, x, done),
         NEW n, StopStep(m, n, x, d, dirs)
  PROVE  n \in LoopType /\ LoopInv(n, kern, f) /\ StoppedDirs(l, n, x, Done(done, d, dirs))
<1>1. CASE d \in dirs
  <2> DEFINE i == <<x, d>>
  <2>1. i \in Ios /\ (\A j \in Ios : j = i <=> j[1] = x /\ j[2] = d) /\ n = ev_io_stop(m, i)
    BY <1>1, AnIo DEF StopStep
  <2> HIDE DEF i
  <2>2. n \in LoopType /\ Stopped(m, n, i) /\ LoopInv(n, kern, f)
    BY <2>1, StopKeeps
  <2>3. Done(done, d, dirs) = done \cup {d}
    BY <1>1 DEF Done
  <2>4. ASSUME NEW j \in Ios
        PROVE  /\ SameIo(l, n, j)
               /\ (n.io[j].active <=> l.io[j].active /\ ~(j[1] = x /\ j[2] \in done \cup {d}))
               /\ (n.io[j].pending # 0 <=> l.io[j].pending # 0 /\ ~(j[1] = x /\ j[2] \in done \cup {d}))
    <3>1. /\ SameIo(m, n, j) /\ (n.io[j].active <=> m.io[j].active /\ j # i)
          /\ n.io[j].pending = IF j = i THEN 0 ELSE m.io[j].pending
      BY <2>2 DEF Stopped
    <3>2. /\ SameIo(l, m, j)
          /\ (m.io[j].active <=> l.io[j].active /\ ~(j[1] = x /\ j[2] \in done))
          /\ (m.io[j].pending # 0 <=> l.io[j].pending # 0 /\ ~(j[1] = x /\ j[2] \in done))
      BY DEF StoppedDirs
    <3>3. j = i <=> j[1] = x /\ j[2] = d
      BY <2>1
    <3>4. SameIo(l, n, j)
      BY <3>1, <3>2 DEF SameIo
    <3> QED
      BY <3>1, <3>2, <3>3, <3>4
  <2> QED
    BY <2>2, <2>3, <2>4 DEF StoppedDirs
<1>2. CASE d \notin dirs
  <2>1. n = m /\ Done(done, d, dirs) = done
    BY <1>2 DEF StopStep, Done
  <2> QED
    BY <2>1
<1> QED
  BY <1>1, <1>2

LEMMA EachStops ==
  ASSUME NEW l \in LoopType, NEW kern \in KernelType, NEW f \in Owners, LoopInv(l, kern, f),
         NEW x \in Watchers, NEW dirs \in SUBSET W!Dirs, NEW m, m = Each(ev_io_stop, l, x, dirs)
  PROVE  m \in LoopType /\ LoopInv(m, kern, f) /\ StoppedDirs(l, m, x, dirs)
<1> DEFINE a == IF "RX" \in dirs THEN ev_io_stop(l, <<x, "RX">>) ELSE l
           b == IF "TX" \in dirs THEN ev_io_stop(a, <<x, "TX">>) ELSE a
           c == IF "ER" \in dirs THEN ev_io_stop(b, <<x, "ER">>) ELSE b
           A == Done({}, "RX", dirs)
           B == Done(A, "TX", dirs)
           C == Done(B, "ER", dirs)
<1>1. m = c
  BY DEF Each
<1>2. "RX" \in W!Dirs /\ "TX" \in W!Dirs /\ "ER" \in W!Dirs /\ C = dirs
  BY DEF W!Dirs, Done
<1>3. StopStep(l, a, x, "RX", dirs) /\ StopStep(a, b, x, "TX", dirs) /\ StopStep(b, c, x, "ER", dirs)
  BY DEF StopStep
<1>4. StoppedDirs(l, l, x, {})
  BY DEF StoppedDirs, SameIo
<1> HIDE DEF a, b, c
<1>5. a \in LoopType /\ LoopInv(a, kern, f) /\ StoppedDirs(l, a, x, A)
  BY <1>2, <1>3, <1>4, StopOne
<1>6. b \in LoopType /\ LoopInv(b, kern, f) /\ StoppedDirs(l, b, x, B)
  BY <1>2, <1>3, <1>5, StopOne
<1>7. c \in LoopType /\ LoopInv(c, kern, f) /\ StoppedDirs(l, c, x, C)
  BY <1>2, <1>3, <1>6, StopOne
<1> QED
  BY <1>1, <1>2, <1>7

LEMMA StartOne ==
  ASSUME NEW l, NEW m \in LoopType, NEW kern \in KernelType, NEW f \in Owners, LoopInv(m, kern, f),
         NEW x \in Watchers, f[x] # NoFd, NEW d \in W!Dirs, NEW dirs, NEW done, StartedDirs(l, m, x, done),
         d \in dirs => d \notin done /\ ~l.io[<<x, d>>].active,
         NEW n, StartStep(m, n, x, d, dirs)
  PROVE  n \in LoopType /\ LoopInv(n, kern, f) /\ StartedDirs(l, n, x, Done(done, d, dirs))
<1>1. CASE d \in dirs
  <2> DEFINE i == <<x, d>>
  <2>1. /\ i \in Ios /\ (\A j \in Ios : j = i <=> j[1] = x /\ j[2] = d) /\ n = ev_io_start(m, i)
        /\ i[1] = x /\ i[2] = d /\ ~l.io[i].active
    BY <1>1, AnIo DEF StartStep
  <2> HIDE DEF i
  <2>2. ~m.io[i].active
    BY <1>1, <2>1 DEF StartedDirs
  <2>3. n \in LoopType /\ Started(m, n, i) /\ LoopInv(n, kern, f)
    BY <2>1, <2>2, StartKeeps
  <2>4. Done(done, d, dirs) = done \cup {d}
    BY <1>1 DEF Done
  <2>5. ASSUME NEW j \in Ios
        PROVE  /\ n.io[j].fd = l.io[j].fd
               /\ (n.io[j].active <=> l.io[j].active \/ (j[1] = x /\ j[2] \in done \cup {d}))
               /\ (n.io[j].pending # 0 <=> l.io[j].pending # 0)
    <3>1. /\ n.io[j].fd = m.io[j].fd /\ n.io[j].pending = m.io[j].pending
          /\ (n.io[j].active <=> m.io[j].active \/ j = i)
      BY <2>3 DEF Started
    <3>2. /\ m.io[j].fd = l.io[j].fd
          /\ (m.io[j].active <=> l.io[j].active \/ (j[1] = x /\ j[2] \in done))
          /\ (m.io[j].pending # 0 <=> l.io[j].pending # 0)
      BY DEF StartedDirs
    <3>3. j = i <=> j[1] = x /\ j[2] = d
      BY <2>1
    <3> QED
      BY <3>1, <3>2, <3>3
  <2> QED
    BY <2>3, <2>4, <2>5 DEF StartedDirs
<1>2. CASE d \notin dirs
  <2>1. n = m /\ Done(done, d, dirs) = done
    BY <1>2 DEF StartStep, Done
  <2> QED
    BY <2>1
<1> QED
  BY <1>1, <1>2

LEMMA EachStarts ==
  ASSUME NEW l \in LoopType, NEW kern \in KernelType, NEW f \in Owners, LoopInv(l, kern, f),
         NEW x \in Watchers, f[x] # NoFd, NEW dirs \in SUBSET W!Dirs,
         \A d \in dirs : ~l.io[<<x, d>>].active, NEW m, m = Each(ev_io_start, l, x, dirs)
  PROVE  m \in LoopType /\ LoopInv(m, kern, f) /\ StartedDirs(l, m, x, dirs)
<1> DEFINE a == IF "RX" \in dirs THEN ev_io_start(l, <<x, "RX">>) ELSE l
           b == IF "TX" \in dirs THEN ev_io_start(a, <<x, "TX">>) ELSE a
           c == IF "ER" \in dirs THEN ev_io_start(b, <<x, "ER">>) ELSE b
           A == Done({}, "RX", dirs)
           B == Done(A, "TX", dirs)
           C == Done(B, "ER", dirs)
<1>1. m = c
  BY DEF Each
<1>2. /\ "RX" \in W!Dirs /\ "TX" \in W!Dirs /\ "ER" \in W!Dirs
      /\ "RX" \notin {} /\ "TX" \notin A /\ "ER" \notin B
  BY DEF W!Dirs, Done
<1>3. StartStep(l, a, x, "RX", dirs) /\ StartStep(a, b, x, "TX", dirs) /\ StartStep(b, c, x, "ER", dirs)
  BY DEF StartStep
<1>4. StartedDirs(l, l, x, {})
  BY DEF StartedDirs
<1>9. C = dirs
  BY DEF W!Dirs, Done
<1>8. A = Done({}, "RX", dirs) /\ B = Done(A, "TX", dirs) /\ C = Done(B, "ER", dirs)
  OBVIOUS
<1> HIDE DEF a, b, c, A, B, C
<1>5. a \in LoopType /\ LoopInv(a, kern, f) /\ StartedDirs(l, a, x, A)
  BY <1>2, <1>3, <1>4, <1>8, StartOne
<1>6. b \in LoopType /\ LoopInv(b, kern, f) /\ StartedDirs(l, b, x, B)
  BY <1>2, <1>3, <1>5, <1>8, StartOne
<1>7. c \in LoopType /\ LoopInv(c, kern, f) /\ StartedDirs(l, c, x, C)
  BY <1>2, <1>3, <1>6, <1>8, StartOne
<1> QED
  BY <1>1, <1>7, <1>9

(* m is l with x's ev_io initialised for descriptor fd. *)
Initialised(l, m, x, fd) ==
  /\ SameBackend(l, m) /\ m.anfds = l.anfds /\ m.fdchanges = l.fdchanges /\ m.pendings = l.pendings
  /\ m.postfork = l.postfork
  /\ \A j \in Ios : m.io[j] = IF j[1] = x THEN [fd |-> fd, fdset |-> TRUE, active |-> FALSE, pending |-> 0]
                              ELSE l.io[j]

LEMMA InitIos ==
  ASSUME NEW l \in LoopType, NEW x \in Watchers, NEW fd \in Fds,
         NEW m, m = Each(LAMBDA n, i : ev_io_init(n, i, fd), l, x, W!Dirs)
  PROVE  m \in LoopType /\ Initialised(l, m, x, fd)
<1> DEFINE r == [fd |-> fd, fdset |-> TRUE, active |-> FALSE, pending |-> 0]
           io == [l.io EXCEPT ![<<x, "RX">>] = r, ![<<x, "TX">>] = r, ![<<x, "ER">>] = r]
<1>1. "RX" \in W!Dirs /\ "TX" \in W!Dirs /\ "ER" \in W!Dirs
  BY DEF W!Dirs
<1>2. m = ev_io_init(ev_io_init(ev_io_init(l, <<x, "RX">>, fd), <<x, "TX">>, fd), <<x, "ER">>, fd)
  BY <1>1 DEF Each
<1>3. r \in IoType
  BY DEF IoType
<1>4. l.io \in [Ios -> IoType]
  BY LoopFields DEF IosType
<1>5. <<x, "RX">> \in Ios /\ <<x, "TX">> \in Ios /\ <<x, "ER">> \in Ios
  BY <1>1 DEF Ios
<1>6. m = [l EXCEPT !.io = io]
  BY <1>2 DEF ev_io_init, LoopType
<1>7. io \in IosType
  <2> HIDE DEF r
  <2> QED
    BY <1>3, <1>4, <1>5 DEF IosType
<1>8. \A j \in Ios : io[j] = IF j[1] = x THEN r ELSE l.io[j]
  <2> HIDE DEF r
  <2> TAKE j \in Ios
  <2>1. j[2] \in W!Dirs
    BY DEF Ios
  <2>2. j[1] = x => j = <<x, "RX">> \/ j = <<x, "TX">> \/ j = <<x, "ER">>
    <3>1. j[2] = "RX" \/ j[2] = "TX" \/ j[2] = "ER"
      BY <2>1 DEF W!Dirs
    <3> QED
      BY <1>1, <3>1, AnIo
  <2>3. j[1] # x => j # <<x, "RX">> /\ j # <<x, "TX">> /\ j # <<x, "ER">>
    BY <1>1, AnIo
  <2> QED
    BY <1>4, <1>5, <2>2, <2>3
<1> HIDE DEF io
<1>9. m \in LoopType /\ m.io = io
  BY <1>6, <1>7 DEF LoopType
<1>10. /\ SameBackend(l, m) /\ m.anfds = l.anfds /\ m.fdchanges = l.fdchanges /\ m.pendings = l.pendings
       /\ m.postfork = l.postfork
  BY <1>6 DEF LoopType, SameBackend
<1> QED
  BY <1>8, <1>9, <1>10 DEF Initialised

-----------------------------------------------------------------------------
(* Initialising, opening, closing *)

(* x's ev_io, none of which is active, are initialised: no list, change or   *)
(* pending event knows of them.                                              *)
LEMMA InitKeeps ==
  ASSUME NEW l \in LoopType, Linked(l), Placed(l), Queued(l), Passed(l),
         NEW x \in Watchers, NEW fd \in Fds, \A j \in Ios : j[1] = x => ~l.io[j].active,
         NEW m \in LoopType, Initialised(l, m, x, fd)
  PROVE  /\ Linked(m) /\ Placed(m) /\ Queued(m) /\ Passed(m)
         /\ \A j \in Ios : /\ (m.io[j].active <=> l.io[j].active) /\ m.io[j].pending = l.io[j].pending
                           /\ j[1] # x => SameIo(l, m, j)
                           /\ j[1] = x => m.io[j].fd = fd /\ m.io[j].fdset /\ ~m.io[j].active
<1>1. ASSUME NEW j \in Ios
      PROVE  /\ (m.io[j].active <=> l.io[j].active) /\ m.io[j].pending = l.io[j].pending
             /\ j[1] # x => m.io[j] = l.io[j]
             /\ j[1] = x => m.io[j].fd = fd /\ m.io[j].fdset /\ ~m.io[j].active
  <2>1. CASE j[1] = x
    <3>1. m.io[j] = [fd |-> fd, fdset |-> TRUE, active |-> FALSE, pending |-> 0]
      BY <2>1 DEF Initialised
    <3>2. ~l.io[j].active /\ l.io[j].pending = 0
      BY <2>1 DEF Placed
    <3> QED
      BY <2>1, <3>1, <3>2
  <2>2. CASE j[1] # x
    BY <2>2 DEF Initialised
  <2> QED
    BY <2>1, <2>2
<1>2. ASSUME NEW g \in Fds PROVE ActiveOn(m, g) = ActiveOn(l, g) /\ Wanted(m, g) = Wanted(l, g)
  <2>1. ActiveOn(m, g) = ActiveOn(l, g)
    BY <1>1 DEF ActiveOn
  <2> QED
    BY <2>1 DEF Wanted
<1>3. m.anfds = l.anfds /\ m.pendings = l.pendings /\ m.fdchanges = l.fdchanges
  BY DEF Initialised
<1>4. Linked(m)
  <2>1. \A j \in Ios : m.io[j].active => m.io[j].fd \in Fds
    BY <1>1 DEF Linked
  <2> QED
    BY <1>2, <1>3, <2>1 DEF Linked
<1>5. Placed(m)
  <2>1. \A j \in Ios : m.io[j].pending # 0 =>
          m.io[j].active /\ m.io[j].pending \in DOMAIN m.pendings /\ m.pendings[m.io[j].pending].w = j
    BY <1>1, <1>3 DEF Placed
  <2>2. ASSUME NEW n \in DOMAIN m.pendings, m.pendings[n].w # PendingW
        PROVE  m.io[m.pendings[n].w].pending = n
    <3>1. m.pendings[n].w \in Ios
      BY <1>3, <2>2, PendingAt
    <3> QED
      BY <1>1, <1>3, <2>2, <3>1 DEF Placed
  <2> QED
    BY <2>1, <2>2 DEF Placed
<1>6. Queued(m) /\ Passed(m)
  BY <1>2, <1>3 DEF Queued, Passed
<1> QED
  BY <1>1, <1>4, <1>5, <1>6 DEF SameIo

(* A pending event belongs to an ev_io that is active. *)
LEMMA PendingActive ==
  ASSUME NEW l \in LoopType, Placed(l), NEW n \in DOMAIN l.pendings, l.pendings[n].w # PendingW
  PROVE  l.pendings[n].w \in Ios /\ l.io[l.pendings[n].w].active
<1>1. l.pendings[n].w \in Ios
  BY PendingAt
<1>2. l.pendings \in Seq(PendingType)
  BY LoopFields DEF PendingsType
<1>3. n # 0
  BY <1>2
<1> QED
  BY <1>1, <1>3 DEF Placed

(* Open: the descriptor given out was closed, so nothing libev keeps of it   *)
(* counts; the file is one the kernel's set does not have.                   *)
LEMMA OpenKeeps ==
  ASSUME NEW l \in LoopType, NEW kern \in KernelType, NEW f \in Owners, LoopInv(l, kern, f),
         NEW x \in Watchers, f[x] = NoFd, \A j \in Ios : j[1] = x => ~l.io[j].active,
         NEW fd \in Fds, kern.file[fd] = None,
         NEW file \in Files, \A e \in kern.kset : e.file # file,
         NEW m \in LoopType, Initialised(l, m, x, fd),
         NEW kn, kn = KernelOpen(kern, fd, file), NEW g, g = [f EXCEPT ![x] = fd]
  PROVE  kn \in KernelType /\ g \in Owners /\ LoopInv(m, kn, g)
<1>1. Linked(l) /\ Placed(l) /\ Sources(l, kern) /\ Queued(l) /\ Passed(l) /\ Owned(l, kern, f) /\ BackendInv(l, kern, f)
  BY DEF LoopInv
<1>2. /\ Linked(m) /\ Placed(m) /\ Queued(m) /\ Passed(m)
      /\ \A j \in Ios : /\ (m.io[j].active <=> l.io[j].active) /\ m.io[j].pending = l.io[j].pending
                        /\ j[1] # x => SameIo(l, m, j)
                        /\ j[1] = x => m.io[j].fd = fd /\ m.io[j].fdset /\ ~m.io[j].active
  BY <1>1, InitKeeps
<1>3. /\ kn \in KernelType /\ kn.kset = kern.kset
      /\ \A h \in Fds : kn.file[h] = IF h = fd THEN file ELSE kern.file[h]
  BY DEF KernelOpen, KernelType
<1>4. g \in Owners /\ \A y \in Watchers : g[y] = IF y = x THEN fd ELSE f[y]
  BY DEF Owners
<1>5. \A y \in Watchers : f[y] # fd
  BY <1>1 DEF Owned, Fds, NoFd
<1>6. \A j \in Ios : j[1] \in Watchers
  BY DEF Ios
<1>7. \A j \in Ios : l.io[j].active => l.io[j].fd # fd /\ j[1] # x
  BY <1>1, <1>5, <1>6 DEF Owned
<1>8. Owned(m, kn, g)
  <2>1. \A y \in Watchers : g[y] # NoFd => kn.file[g[y]] # None
    <3>1. file # None
      BY FilesAssumption
    <3>2. \A y \in Watchers : f[y] # NoFd => f[y] \in Fds
      BY DEF Owners
    <3> QED
      BY <1>1, <1>3, <1>4, <3>1, <3>2 DEF Owned
  <2>2. \A y, z \in Watchers : g[y] = g[z] /\ g[y] # NoFd => y = z
    BY <1>1, <1>4, <1>5 DEF Owned
  <2>3. \A j \in Ios : g[j[1]] # NoFd => m.io[j].fd = g[j[1]]
    BY <1>1, <1>2, <1>4, <1>6 DEF Owned, SameIo
  <2>4. \A j \in Ios : m.io[j].active => g[j[1]] # NoFd
    BY <1>1, <1>2, <1>4, <1>6 DEF Owned, Fds, NoFd
  <2> QED
    BY <2>1, <2>2, <2>3, <2>4 DEF Owned
<1>9. Sources(m, kn)
  <2> SUFFICES ASSUME NEW n \in DOMAIN m.pendings, m.pendings[n].w # PendingW
               PROVE  m.pendings[n].src = {kn.file[m.io[m.pendings[n].w].fd]}
    BY DEF Sources
  <2> DEFINE i == m.pendings[n].w
  <2>1. i \in Ios /\ l.io[i].active /\ m.pendings = l.pendings
    BY <1>1, PendingActive DEF Initialised
  <2>2. m.io[i].fd = l.io[i].fd /\ l.io[i].fd # fd /\ l.io[i].fd \in Fds
    BY <1>1, <1>2, <1>7, <2>1 DEF SameIo, Linked
  <2>3. kn.file[l.io[i].fd] = kern.file[l.io[i].fd]
    BY <1>3, <2>2
  <2>4. l.pendings[n].src = {kern.file[l.io[i].fd]}
    BY <1>1, <2>1 DEF Sources
  <2> HIDE DEF i
  <2>5. m.pendings[n].src = {kn.file[m.io[i].fd]}
    BY <2>1, <2>2, <2>3, <2>4
  <2> QED
    BY <2>5 DEF i
<1>10. SameBackend(l, m) /\ m.anfds = l.anfds /\ m.postfork = l.postfork
  BY DEF Initialised
<1>11. Anew(m, g, fd)
  <2>1. \A j \in Ios : g[j[1]] = fd => j[1] = x
    BY <1>4, <1>5, <1>6
  <2> QED
    BY <1>2, <2>1 DEF Anew, Fresh
<1>12. ASSUME NEW h \in Fds, h # fd, Anew(l, f, h) PROVE Anew(m, g, h)
  <2>1. \A j \in Ios : g[j[1]] = h => j[1] # x /\ f[j[1]] = h
    BY <1>4, <1>6, <1>12
  <2> QED
    BY <1>2, <1>10, <1>12, <2>1 DEF Anew, Fresh, SameIo
<1>13. ASSUME EpollInv(l, kern, f) PROVE EpollInv(m, kn, g)
  <2>1. ASSUME NEW e \in kn.kset PROVE ItemKnown(m, kn, g, e)
    <3>1. e.fd \in Fds /\ ItemKnown(l, kern, f, e) /\ e.file # file /\ e.file # None
      BY <1>3, <1>13, FilesAssumption DEF EpollInv, KernelType, ItemType
    <3>2. CASE e.fd = fd
      BY <1>3, <1>10, <1>11, <3>1, <3>2 DEF ItemKnown
    <3>3. CASE e.fd # fd
      BY <1>3, <1>10, <1>12, <3>1, <3>3 DEF ItemKnown
    <3> QED
      BY <3>2, <3>3
  <2>2. OneFilePerGeneration(kn)
    BY <1>3, <1>13 DEF EpollInv, OneFilePerGeneration
  <2>3. ASSUME NEW h \in Fds PROVE InKernel(m, kn, g, h) /\ KeptApart(m, kn, g, h)
    <3>1. InKernel(l, kern, f, h) /\ KeptApart(l, kern, f, h)
      BY <1>13 DEF EpollInv
    <3>2. CASE h = fd
      BY <1>10, <1>11, <3>1, <3>2 DEF InKernel, KeptApart, SameBackend
    <3>3. CASE h # fd
      BY <1>3, <1>10, <1>12, <3>1, <3>3 DEF InKernel, KeptApart, SameBackend
    <3> QED
      BY <3>2, <3>3
  <2> QED
    BY <2>1, <2>2, <2>3 DEF EpollInv
<1>14. BackendInv(m, kn, g)
  BY <1>1, <1>10, <1>13 DEF BackendInv, SameBackend, PollInv, SelectInv
<1> QED
  BY <1>2, <1>3, <1>4, <1>8, <1>9, <1>14 DEF LoopInv

(* TakeOver: x goes on with the descriptor of y. *)
LEMMA TakeOverKeeps ==
  ASSUME NEW l \in LoopType, NEW kern \in KernelType, NEW f \in Owners, LoopInv(l, kern, f),
         NEW x \in Watchers, f[x] = NoFd, NEW y \in Watchers, f[y] # NoFd,
         \A j \in Ios : j[1] = x \/ j[1] = y => ~l.io[j].active,
         NEW fd, fd = f[y], NEW m \in LoopType, Initialised(l, m, x, fd),
         NEW g, g = [f EXCEPT ![x] = fd, ![y] = NoFd]
  PROVE  g \in Owners /\ LoopInv(m, kern, g)
<1>1. Linked(l) /\ Placed(l) /\ Sources(l, kern) /\ Queued(l) /\ Passed(l) /\ Owned(l, kern, f) /\ BackendInv(l, kern, f)
  BY DEF LoopInv
<1>0. fd \in Fds /\ x # y /\ fd # NoFd
  BY DEF Owners
<1>2. /\ Linked(m) /\ Placed(m) /\ Queued(m) /\ Passed(m)
      /\ \A j \in Ios : /\ (m.io[j].active <=> l.io[j].active) /\ m.io[j].pending = l.io[j].pending
                        /\ j[1] # x => SameIo(l, m, j)
                        /\ j[1] = x => m.io[j].fd = fd /\ m.io[j].fdset /\ ~m.io[j].active
  BY <1>0, <1>1, InitKeeps
<1>4. g \in Owners /\ \A z \in Watchers : g[z] = IF z = y THEN NoFd ELSE IF z = x THEN fd ELSE f[z]
  BY <1>0 DEF Owners
<1>5. \A z \in Watchers : z # y => f[z] # fd
  BY <1>0, <1>1 DEF Owned
<1>6. \A j \in Ios : j[1] \in Watchers
  BY DEF Ios
<1>7. \A j \in Ios : l.io[j].active => j[1] # y /\ j[1] # x
  OBVIOUS
<1>8. Owned(m, kern, g)
  <2>1. ASSUME NEW z \in Watchers, g[z] # NoFd PROVE kern.file[g[z]] # None
    <3>1. kern.file[f[y]] # None
      BY <1>1 DEF Owned
    <3>2. z # x /\ z # y => kern.file[f[z]] # None
      BY <1>1, <1>4, <2>1 DEF Owned
    <3> QED
      BY <1>0, <1>4, <2>1, <3>1, <3>2
  <2>2. \A w, z \in Watchers : g[w] = g[z] /\ g[w] # NoFd => w = z
    BY <1>0, <1>1, <1>4, <1>5 DEF Owned
  <2>3. ASSUME NEW j \in Ios, g[j[1]] # NoFd PROVE m.io[j].fd = g[j[1]]
    <3>1. j[1] \in Watchers /\ j[1] # y
      BY <1>4, <1>6, <2>3
    <3>2. CASE j[1] = x
      BY <1>0, <1>2, <1>4, <3>1, <3>2
    <3>3. CASE j[1] # x
      <4>1. g[j[1]] = f[j[1]] /\ m.io[j].fd = l.io[j].fd
        BY <1>2, <1>4, <3>1, <3>3 DEF SameIo
      <4>2. l.io[j].fd = f[j[1]]
        BY <1>1, <2>3, <4>1 DEF Owned
      <4> QED
        BY <4>1, <4>2
    <3> QED
      BY <3>2, <3>3
  <2>4. ASSUME NEW j \in Ios, m.io[j].active PROVE g[j[1]] # NoFd
    <3>1. l.io[j].active /\ j[1] \in Watchers
      BY <1>2, <1>6, <2>4
    <3>2. j[1] # x /\ j[1] # y /\ f[j[1]] # NoFd
      BY <1>1, <1>7, <3>1 DEF Owned
    <3> QED
      BY <1>4, <3>1, <3>2
  <2> QED
    BY <2>1, <2>2, <2>3, <2>4 DEF Owned
<1>9. Sources(m, kern)
  <2> SUFFICES ASSUME NEW n \in DOMAIN m.pendings, m.pendings[n].w # PendingW
               PROVE  m.pendings[n].src = {kern.file[m.io[m.pendings[n].w].fd]}
    BY DEF Sources
  <2> DEFINE i == m.pendings[n].w
  <2>1. i \in Ios /\ l.io[i].active /\ m.pendings = l.pendings
    BY <1>1, PendingActive DEF Initialised
  <2>2. m.io[i].fd = l.io[i].fd
    BY <1>2, <1>7, <2>1 DEF SameIo
  <2>4. l.pendings[n].src = {kern.file[l.io[i].fd]}
    BY <1>1, <2>1 DEF Sources
  <2> HIDE DEF i
  <2>5. m.pendings[n].src = {kern.file[m.io[i].fd]}
    BY <2>1, <2>2, <2>4
  <2> QED
    BY <2>5 DEF i
<1>10. SameBackend(l, m) /\ m.anfds = l.anfds /\ m.postfork = l.postfork
  BY DEF Initialised
<1>11. ASSUME NEW h \in Fds, Anew(l, f, h) PROVE Anew(m, g, h)
  <2>1. CASE h = fd
    <3>1. \A j \in Ios : g[j[1]] = fd => j[1] = x
      BY <1>0, <1>4, <1>5, <1>6
    <3> QED
      BY <1>2, <2>1, <3>1 DEF Anew, Fresh
  <2>2. CASE h # fd
    <3>1. h # NoFd
      BY DEF Fds, NoFd
    <3>2. \A j \in Ios : g[j[1]] = h => j[1] # x /\ f[j[1]] = h
      BY <1>4, <1>6, <2>2, <3>1
    <3> QED
      BY <1>2, <1>10, <1>11, <3>2 DEF Anew, Fresh, SameIo
  <2> QED
    BY <2>1, <2>2
<1>12. \A h \in Fds : SameGuess(l, m, h)
  BY <1>10 DEF SameGuess
<1>13. \A h \in Fds : SameGuess(l, m, h) /\ (Anew(l, f, h) => Anew(m, g, h))
  BY <1>11, <1>12
<1>14. ASSUME EpollInv(l, kern, f) PROVE EpollInv(m, kern, g)
  <2>1. ASSUME NEW e \in kern.kset PROVE ItemKnown(m, kern, g, e)
    <3>1. e.fd \in Fds /\ ItemKnown(l, kern, f, e)
      BY <1>14 DEF EpollInv, KernelType, ItemType
    <3> QED
      BY <1>10, <1>11, <3>1 DEF ItemKnown
  <2>2. ASSUME NEW h \in Fds PROVE InKernel(m, kern, g, h) /\ KeptApart(m, kern, g, h)
    <3>1. InKernel(l, kern, f, h) /\ KeptApart(l, kern, f, h)
      BY <1>14 DEF EpollInv
    <3> QED
      BY <1>10, <1>11, <3>1 DEF InKernel, KeptApart, SameBackend
  <2> QED
    BY <1>14, <2>1, <2>2 DEF EpollInv
<1>15. BackendInv(m, kern, g)
  BY <1>1, <1>10, <1>14 DEF BackendInv, SameBackend, PollInv, SelectInv
<1> QED
  BY <1>2, <1>4, <1>8, <1>9, <1>15 DEF LoopInv

(* Close: what libev keeps of the descriptor counts no more. *)
LEMMA CloseKeeps ==
  ASSUME NEW l \in LoopType, NEW kern \in KernelType, NEW f \in Owners, LoopInv(l, kern, f),
         NEW x \in Watchers, f[x] # NoFd, \A j \in Ios : j[1] = x => ~l.io[j].active,
         NEW kn, kn = KernelClose(kern, f[x]), NEW g, g = [f EXCEPT ![x] = NoFd]
  PROVE  kn \in KernelType /\ g \in Owners /\ LoopInv(l, kn, g)
<1> DEFINE fd == f[x]
<1>1. Linked(l) /\ Placed(l) /\ Sources(l, kern) /\ Queued(l) /\ Passed(l) /\ Owned(l, kern, f) /\ BackendInv(l, kern, f)
  BY DEF LoopInv
<1>2. fd \in Fds /\ fd # NoFd
  BY DEF Owners
<1>3. /\ kn \in KernelType /\ kn.kset \subseteq kern.kset
      /\ \A e \in kern.kset : e.fd # fd => e \in kn.kset
      /\ \A h \in Fds : kn.file[h] = IF h = fd THEN None ELSE kern.file[h]
  <2>1. CASE kern.file[fd] \in Shared
    BY <1>2, <2>1 DEF KernelClose, KernelType
  <2>2. CASE kern.file[fd] \notin Shared
    BY <1>2, <2>2 DEF KernelClose, KernelDel, KernelType
  <2> QED
    BY <2>1, <2>2
<1>4. g \in Owners /\ \A y \in Watchers : g[y] = IF y = x THEN NoFd ELSE f[y]
  BY DEF Owners
<1>5. \A y \in Watchers : y # x => f[y] # fd
  BY <1>1, <1>2 DEF Owned
<1> HIDE DEF fd
<1>6. \A j \in Ios : j[1] \in Watchers
  BY DEF Ios
<1>7. \A j \in Ios : l.io[j].active => l.io[j].fd # fd /\ j[1] # x
  BY <1>1, <1>5, <1>6 DEF Owned
<1>8. Owned(l, kn, g)
  <2>1. \A z \in Watchers : f[z] # NoFd => f[z] \in Fds
    BY DEF Owners
  <2>2. \A z \in Watchers : g[z] # NoFd => kn.file[g[z]] # None
    BY <1>1, <1>3, <1>4, <1>5, <2>1 DEF Owned
  <2>3. \A y, z \in Watchers : g[y] = g[z] /\ g[y] # NoFd => y = z
    BY <1>1, <1>4 DEF Owned
  <2>4. \A j \in Ios : g[j[1]] # NoFd => l.io[j].fd = g[j[1]]
    BY <1>1, <1>4, <1>6 DEF Owned
  <2>5. \A j \in Ios : l.io[j].active => g[j[1]] # NoFd
    BY <1>1, <1>4, <1>6, <1>7 DEF Owned
  <2> QED
    BY <2>2, <2>3, <2>4, <2>5 DEF Owned
<1>9. Sources(l, kn)
  <2> SUFFICES ASSUME NEW n \in DOMAIN l.pendings, l.pendings[n].w # PendingW
               PROVE  l.pendings[n].src = {kn.file[l.io[l.pendings[n].w].fd]}
    BY DEF Sources
  <2> DEFINE i == l.pendings[n].w
  <2>1. i \in Ios /\ l.io[i].active
    BY <1>1, PendingActive
  <2>2. l.io[i].fd # fd /\ l.io[i].fd \in Fds
    BY <1>1, <1>7, <2>1 DEF Linked
  <2>3. kn.file[l.io[i].fd] = kern.file[l.io[i].fd]
    BY <1>3, <2>2
  <2> QED
    BY <1>1, <2>1, <2>3, ZenonT(30) DEF Sources
<1>10. ASSUME NEW h \in Fds, h # fd, Anew(l, f, h) PROVE Anew(l, g, h)
  <2>1. h # NoFd
    BY DEF Fds, NoFd
  <2>2. \A j \in Ios : g[j[1]] = h => f[j[1]] = h
    BY <1>4, <1>6, <2>1
  <2> QED
    BY <1>10, <2>2 DEF Anew, Fresh
<1>11. ASSUME EpollInv(l, kern, f) PROVE EpollInv(l, kn, g)
  <2>1. ASSUME NEW e \in kn.kset PROVE ItemKnown(l, kn, g, e)
    <3>1. e.fd \in Fds /\ ItemKnown(l, kern, f, e) /\ e.file # None
      BY <1>3, <1>11, FilesAssumption DEF EpollInv, KernelType, ItemType
    <3>2. CASE e.fd = fd
      BY <1>3, <3>1, <3>2 DEF ItemKnown
    <3>3. CASE e.fd # fd
      BY <1>3, <1>10, <3>1, <3>3 DEF ItemKnown
    <3> QED
      BY <3>2, <3>3
  <2>2. OneFilePerGeneration(kn)
    BY <1>3, <1>11 DEF EpollInv, OneFilePerGeneration
  <2>3. ASSUME NEW h \in Fds PROVE InKernel(l, kn, g, h) /\ KeptApart(l, kn, g, h)
    <3>1. InKernel(l, kern, f, h) /\ KeptApart(l, kern, f, h)
      BY <1>11 DEF EpollInv
    <3>2. CASE h = fd
      BY <1>3, <3>1, <3>2, FilesAssumption DEF InKernel, KeptApart
    <3>3. CASE h # fd
      BY <1>3, <1>10, <3>1, <3>3 DEF InKernel, KeptApart
    <3> QED
      BY <3>2, <3>3
  <2> QED
    BY <2>1, <2>2, <2>3 DEF EpollInv
<1>12. BackendInv(l, kn, g)
  BY <1>1, <1>11 DEF BackendInv
<1> QED
  BY <1>1, <1>3, <1>4, <1>8, <1>9, <1>12 DEF LoopInv

-----------------------------------------------------------------------------
(* The records of Watcher, and what the loop holds of them *)

GoodWatcher(r) == r \in WatcherType /\ ActiveMatchesFlags(r) /\ PendingIsActive(r)
LEMMA InitGood == GoodWatcher(WatcherInit)
  BY DEF GoodWatcher, WatcherInit, WatcherType, ActiveMatchesFlags, PendingIsActive, Watched, Flags, Dirs

LEMMA WithGood == ASSUME NEW dirs \in SUBSET Dirs PROVE GoodWatcher(WatcherWith(dirs))
  BY DEF GoodWatcher, WatcherWith, WatcherInit, WatcherType, ActiveMatchesFlags, PendingIsActive, Watched, Flags, Dirs

LEMMA WatchGood == ASSUME NEW r, GoodWatcher(r), NEW d \in Dirs PROVE GoodWatcher(Watch(r, d))
  BY ZenonT(30)
  DEF GoodWatcher, Watch, IoStart, WatcherType, ActiveMatchesFlags, PendingIsActive, Watched, Flags, Dirs

LEMMA NoWatchGood == ASSUME NEW r, GoodWatcher(r), NEW d \in Dirs PROVE GoodWatcher(NoWatch(r, d))
  BY DEF GoodWatcher, NoWatch, IoStop, WatcherType, ActiveMatchesFlags, PendingIsActive, Watched, Flags, Dirs

LEMMA StartGood == ASSUME NEW r, GoodWatcher(r) PROVE GoodWatcher(Start(r))
  BY DEF GoodWatcher, Start, IoStart, WatcherType, ActiveMatchesFlags, PendingIsActive, Watched, Flags, Dirs

LEMMA StopGood == ASSUME NEW r, GoodWatcher(r) PROVE GoodWatcher(Stop(r))
  BY DEF GoodWatcher, Stop, IoStop, WatcherType, ActiveMatchesFlags, PendingIsActive, Watched, Flags, Dirs

LEMMA FeedGood == ASSUME NEW r, GoodWatcher(r), NEW ready \in SUBSET Dirs PROVE GoodWatcher(Feed(r, ready))
  BY DEF GoodWatcher, Feed, WatcherType, ActiveMatchesFlags, PendingIsActive, Watched, Flags, Dirs

LEMMA DeliverGood == ASSUME NEW r, GoodWatcher(r), NEW d \in Dirs PROVE GoodWatcher(Deliver(r, d))
  BY DEF GoodWatcher, Deliver, WatcherType, ActiveMatchesFlags, PendingIsActive, Watched, Flags, Dirs

(* What watcher.c and libev hold of watcher x, of loop l and flags fl: wbar[x]. *)
View(l, fl, x) ==
  [flags   |-> fl[x],
   active  |-> {d \in Dirs : l.io[<<x, d>>].active},
   pending |-> {d \in Dirs : l.io[<<x, d>>].pending # 0}]

LEMMA SameDirs == W!Dirs = Dirs
  BY DEF W!Dirs, Dirs

LEMMA Views ==
  /\ wbar = [x \in Watchers |-> View(ev, flags, x)]
  /\ wbar' = [x \in Watchers |-> View(ev', flags', x)]
  BY DEF wbar, View, W!Dirs, Dirs

(* The inductive invariant: the loop, its backend and the kernel agree, and  *)
(* the flags of watcher.c agree with the loop.                               *)
FlagsType == [Watchers -> SUBSET Flags]
SystemTypes == ev \in LoopType /\ k \in KernelType /\ fdOf \in Owners /\ flags \in FlagsType
StoppedIfClosed == \A x \in Watchers : fdOf[x] = NoFd => "STARTED" \notin flags[x]
SysInv ==
  /\ SystemTypes /\ LoopInv(ev, k, fdOf) /\ StoppedIfClosed
  /\ \A x \in Watchers : GoodWatcher(wbar[x])

LEMMA InitLoop ==
  ASSUME NEW backend \in Backends
  PROVE  LoopInit(backend) \in LoopType
<1> DEFINE l == LoopInit(backend)
<1>1. <<>> \in Seq(Ios) /\ <<>> \in ChangesType /\ <<>> \in PendingsType /\ <<>> \in Seq(PollfdType)
  BY DEF ChangesType, PendingsType
<1>2. Anfd \in AnfdType
  BY <1>1 DEF Anfd, AnfdType
<1>3. [g \in Fds |-> Anfd] \in AnfdsType
  BY <1>2 DEF AnfdsType
<1>4. [i \in Ios |-> [fd |-> NoFd, fdset |-> FALSE, active |-> FALSE, pending |-> 0]] \in IosType
  BY DEF IosType, IoType
<1>5. poll_init \in PollType
  BY <1>1 DEF poll_init, PollType, NoPlace
<1>6. select_init \in SelectType /\ epoll_init \in EpollType
  BY DEF select_init, SelectType, epoll_init, EpollType
<1> QED
  BY <1>1, <1>3, <1>4, <1>5, <1>6 DEF LoopInit, LoopType

LEMMA SystemStarts == SystemInit => SysInv /\ WatchersInit
<1> SUFFICES ASSUME SystemInit PROVE SysInv /\ WatchersInit
  OBVIOUS
<1>1. PICK backend \in Backends : ev = LoopInit(backend)
  BY DEF SystemInit
<1>2. k = KernelInit /\ flags = [x \in Watchers |-> {}] /\ fdOf = [x \in Watchers |-> NoFd]
  BY DEF SystemInit
<1>3. SystemTypes
  BY <1>1, <1>2, InitLoop DEF SystemTypes, FlagsType, KernelInit, KernelType, Owners
<1>4. /\ ev.pendings = <<>> /\ ev.fdchanges = <<>> /\ ev.poll = poll_init /\ ev.select = select_init
      /\ \A g \in Fds : ev.anfds[g] = Anfd
      /\ \A i \in Ios : ev.io[i] = [fd |-> NoFd, fdset |-> FALSE, active |-> FALSE, pending |-> 0]
  BY <1>1 DEF LoopInit
<1>5. \A g \in Fds : /\ ev.anfds[g].head = <<>> /\ ev.anfds[g].events = {} /\ ev.anfds[g].emask = {}
                     /\ ev.anfds[g].reify = {}
  BY <1>4 DEF Anfd
<1>6. \A i \in Ios : ~ev.io[i].active /\ ev.io[i].pending = 0
  BY <1>4
<1>7. \A g \in Fds : ActiveOn(ev, g) = {}
  BY <1>6 DEF ActiveOn
<1>8. Linked(ev)
  BY <1>5, <1>6, <1>7 DEF Linked, IsInjective, Range
<1>9. Placed(ev) /\ Sources(ev, k) /\ Queued(ev)
  BY <1>4, <1>5, <1>6 DEF Placed, Sources, Queued
<1>10. Passed(ev)
  BY <1>5, <1>7 DEF Passed, Wanted
<1>11. Owned(ev, k, fdOf)
  BY <1>2, <1>6 DEF Owned, Ios
<1>12. EpollInv(ev, k, fdOf)
  <2>1. k.kset = {} /\ \A g \in Fds : k.file[g] = None
    BY <1>2 DEF KernelInit
  <2> QED
    BY <1>5, <2>1, FilesAssumption DEF EpollInv, OneFilePerGeneration, InKernel, KeptApart
<1>13. PollInv(ev) /\ SelectInv(ev)
  BY <1>4, <1>5 DEF PollInv, poll_init, NoPlace, SelectInv, select_init
<1>14. LoopInv(ev, k, fdOf)
  BY <1>8, <1>9, <1>10, <1>11, <1>12, <1>13 DEF LoopInv, BackendInv
<1>15. ASSUME NEW x \in Watchers PROVE wbar[x] = WatcherInit
  <2>1. \A d \in Dirs : <<x, d>> \in Ios
    BY SameDirs, AnIo
  <2> QED
    BY <1>2, <1>6, <2>1, Views DEF View, WatcherInit
<1>16. WatchersInit
  BY <1>15 DEF WatchersInit, wbar
<1> QED
  BY <1>2, <1>3, <1>14, <1>15, <1>16, InitGood DEF SysInv, StoppedIfClosed

-----------------------------------------------------------------------------
(* The steps *)

(* The ev_io of x are in m what they are in l. *)
SameOf(l, m, x) ==
  \A j \in Ios : j[1] = x => (m.io[j].active <=> l.io[j].active) /\ (m.io[j].pending # 0 <=> l.io[j].pending # 0)

LEMMA SameView ==
  ASSUME NEW l, NEW m, NEW fl, NEW gl, NEW x \in Watchers, gl[x] = fl[x], SameOf(l, m, x)
  PROVE  View(m, gl, x) = View(l, fl, x)
<1>1. \A d \in Dirs : <<x, d>> \in Ios /\ <<x, d>>[1] = x
  BY SameDirs, AnIo
<1> QED
  BY <1>1 DEF View, SameOf

(* What Apply does, by way of loop a *)
Applied(l, a, m, fl, gl, x, v, new) ==
  /\ v = View(l, fl, x) /\ new.pending = v.pending \ (v.active \ new.active)
  /\ StoppedDirs(l, a, x, v.active \ new.active) /\ StartedDirs(a, m, x, new.active \ v.active)
  /\ gl = [fl EXCEPT ![x] = new.flags]

LEMMA ViewApplied ==
  ASSUME NEW l, NEW a, NEW m, NEW fl \in FlagsType, NEW x \in Watchers,
         NEW v, NEW new \in WatcherType, NEW gl, Applied(l, a, m, fl, gl, x, v, new)
  PROVE  /\ gl \in FlagsType
         /\ View(m, gl, x) = new
         /\ \A y \in Watchers : y # x => View(m, gl, y) = View(l, fl, y)
<1>1. /\ new = [flags |-> new.flags, active |-> new.active, pending |-> new.pending]
      /\ new.flags \in SUBSET Flags /\ new.active \in SUBSET Dirs /\ new.pending \in SUBSET Dirs
  BY DEF WatcherType
<1>0. /\ v = View(l, fl, x) /\ new.pending = v.pending \ (v.active \ new.active)
      /\ StoppedDirs(l, a, x, v.active \ new.active) /\ StartedDirs(a, m, x, new.active \ v.active)
      /\ gl = [fl EXCEPT ![x] = new.flags]
  BY DEF Applied
<1>2. gl \in FlagsType /\ gl[x] = new.flags /\ \A y \in Watchers : y # x => gl[y] = fl[y]
  BY <1>0, <1>1 DEF FlagsType
<1>3. ASSUME NEW d \in Dirs
      PROVE  /\ m.io[<<x, d>>].active <=> d \in new.active
             /\ m.io[<<x, d>>].pending # 0 <=> d \in new.pending
  <2>1. <<x, d>> \in Ios /\ <<x, d>>[1] = x /\ <<x, d>>[2] = d
    BY SameDirs, AnIo
  <2>2. /\ a.io[<<x, d>>].active <=> l.io[<<x, d>>].active /\ d \notin v.active \ new.active
        /\ a.io[<<x, d>>].pending # 0 <=> l.io[<<x, d>>].pending # 0 /\ d \notin v.active \ new.active
    BY <1>0, <2>1 DEF StoppedDirs
  <2>3. /\ m.io[<<x, d>>].active <=> a.io[<<x, d>>].active \/ d \in new.active \ v.active
        /\ m.io[<<x, d>>].pending # 0 <=> a.io[<<x, d>>].pending # 0
    BY <1>0, <2>1 DEF StartedDirs
  <2>4. (d \in v.active <=> l.io[<<x, d>>].active) /\ (d \in v.pending <=> l.io[<<x, d>>].pending # 0)
    BY <1>0 DEF View
  <2> QED
    BY <1>0, <2>2, <2>3, <2>4
<1>4. View(m, gl, x) = new
  <2>1. {d \in Dirs : m.io[<<x, d>>].active} = new.active
    BY <1>1, <1>3
  <2>2. {d \in Dirs : m.io[<<x, d>>].pending # 0} = new.pending
    BY <1>1, <1>3
  <2> QED
    BY <1>1, <1>2, <2>1, <2>2 DEF View
<1>5. ASSUME NEW y \in Watchers, y # x PROVE View(m, gl, y) = View(l, fl, y)
  <2>1. SameOf(l, m, y)
    BY <1>0, <1>5 DEF StoppedDirs, StartedDirs, SameOf
  <2>2. gl[y] = fl[y]
    BY <1>2, <1>5
  <2> QED
    BY <2>1, <2>2, SameView
<1> QED
  BY <1>2, <1>4, <1>5

(* A call of a watcher function does to the loop what Watcher says. *)
LEMMA Applies ==
  ASSUME SysInv, NEW x \in Watchers, fdOf[x] # NoFd, NEW new, GoodWatcher(new),
         new.pending = wbar[x].pending \ (wbar[x].active \ new.active), Apply(x, new)
  PROVE  SysInv' /\ Update(x, new)
<1> DEFINE v == wbar[x]
           a == Each(ev_io_stop, ev, x, v.active \ new.active)
<1>1. SystemTypes /\ LoopInv(ev, k, fdOf) /\ StoppedIfClosed /\ \A y \in Watchers : GoodWatcher(wbar[y])
  BY DEF SysInv
<1>2. ev \in LoopType /\ k \in KernelType /\ fdOf \in Owners /\ flags \in FlagsType
  BY <1>1 DEF SystemTypes
<1>3. v = View(ev, flags, x) /\ v.active \in SUBSET W!Dirs /\ new.active \in SUBSET W!Dirs /\ new \in WatcherType
  BY SameDirs, Views DEF View, GoodWatcher, WatcherType
<1>4. a = Each(ev_io_stop, ev, x, v.active \ new.active) /\ v.active \ new.active \in SUBSET W!Dirs
  BY <1>3
<1>5. ev' = Each(ev_io_start, a, x, new.active \ v.active) /\ new.active \ v.active \in SUBSET W!Dirs
  BY <1>3 DEF Apply
<1>6. flags' = [flags EXCEPT ![x] = new.flags] /\ k' = k /\ fdOf' = fdOf
  BY DEF Apply
<1> HIDE DEF a, v
<1>7. a \in LoopType /\ LoopInv(a, k, fdOf) /\ StoppedDirs(ev, a, x, v.active \ new.active)
  BY <1>1, <1>2, <1>4, EachStops
<1>8. \A d \in new.active \ v.active : ~a.io[<<x, d>>].active
  <2> TAKE d \in new.active \ v.active
  <2>1. <<x, d>> \in Ios /\ d \in Dirs
    BY <1>5, SameDirs, AnIo
  <2>2. ~ev.io[<<x, d>>].active
    BY <1>3, <2>1 DEF View
  <2> QED
    BY <1>7, <2>1, <2>2 DEF StoppedDirs
<1>9. ev' \in LoopType /\ LoopInv(ev', k, fdOf) /\ StartedDirs(a, ev', x, new.active \ v.active)
  BY <1>2, <1>5, <1>7, <1>8, EachStarts
<1>10. new.pending = v.pending \ (v.active \ new.active)
  BY DEF v
<1>11. /\ flags' \in FlagsType
       /\ View(ev', flags', x) = new
       /\ \A y \in Watchers : y # x => View(ev', flags', y) = View(ev, flags, y)
  <2>1. Applied(ev, a, ev', flags, flags', x, v, new)
    BY <1>3, <1>6, <1>7, <1>9, <1>10 DEF Applied
  <2>2. new \in WatcherType
    BY <1>3
  <2> QED
    BY <1>2, <2>1, <2>2, ViewApplied
<1>12. wbar' = [wbar EXCEPT ![x] = new]
  BY <1>11, Views
<1>13. \A y \in Watchers : GoodWatcher(wbar'[y])
  BY <1>1, <1>12, Views
<1>14. StoppedIfClosed'
  BY <1>1, <1>2, <1>6 DEF StoppedIfClosed, FlagsType
<1>15. SystemTypes'
  BY <1>2, <1>6, <1>9, <1>11 DEF SystemTypes
<1> QED
  BY <1>6, <1>9, <1>12, <1>13, <1>14, <1>15 DEF SysInv, Update

LEMMA CallKeeps ==
  ASSUME SysInv, NEW x \in Watchers, Call(x)
  PROVE  SysInv' /\ UserCall(x)
<1>1. GoodWatcher(wbar[x]) /\ fdOf[x] # NoFd /\ "TX" \in Dirs
  BY DEF SysInv, Call, Dirs
<1> DEFINE v == wbar[x]
<1>2. \A new \in {Watch(v, "TX"), NoWatch(v, "TX"), Start(v), Stop(v)} :
        GoodWatcher(new) /\ new.pending = v.pending \ (v.active \ new.active)
  <2> HIDE DEF v
  <2>1. GoodWatcher(v)
    BY <1>1 DEF v
  <2>2. GoodWatcher(Watch(v, "TX")) /\ GoodWatcher(NoWatch(v, "TX")) /\ GoodWatcher(Start(v)) /\ GoodWatcher(Stop(v))
    BY <1>1, <2>1, WatchGood, NoWatchGood, StartGood, StopGood
  <2>3. Watch(v, "TX").pending = v.pending \ (v.active \ Watch(v, "TX").active)
    BY <2>1 DEF GoodWatcher, Watch, IoStart, WatcherType, ActiveMatchesFlags, PendingIsActive, Watched, Flags, Dirs
  <2>4. NoWatch(v, "TX").pending = v.pending \ (v.active \ NoWatch(v, "TX").active)
    BY <2>1 DEF GoodWatcher, NoWatch, IoStop, WatcherType, ActiveMatchesFlags, PendingIsActive, Watched, Flags, Dirs
  <2>5. Start(v).pending = v.pending \ (v.active \ Start(v).active)
    BY <2>1 DEF GoodWatcher, Start, IoStart, WatcherType, ActiveMatchesFlags, PendingIsActive, Watched, Flags, Dirs
  <2>6. Stop(v).pending = v.pending \ (v.active \ Stop(v).active)
    BY <2>1 DEF GoodWatcher, Stop, IoStop, WatcherType, ActiveMatchesFlags, PendingIsActive, Watched, Flags, Dirs
  <2> QED
    BY <2>2, <2>3, <2>4, <2>5, <2>6
<1>3. PICK new \in {Watch(v, "TX"), NoWatch(v, "TX"), Start(v), Stop(v)} : Apply(x, new)
  BY DEF Call
<1>4. SysInv' /\ Update(x, new)
  BY <1>1, <1>2, <1>3, Applies
<1> QED
  BY <1>1, <1>3, <1>4 DEF UserCall

-----------------------------------------------------------------------------
(* Steps that initialise *)

(* x's flags are the watches set before it is started. *)
InitFlags(fl, gl, x, dirs) == gl = [fl EXCEPT ![x] = WatcherWith(dirs).flags]

LEMMA InitView ==
  ASSUME NEW l, NEW m, NEW x \in Watchers, NEW fd, Initialised(l, m, x, fd),
         NEW fl \in FlagsType, NEW dirs \in StartWith, NEW gl, InitFlags(fl, gl, x, dirs)
  PROVE  /\ gl \in FlagsType /\ View(m, gl, x) = WatcherWith(dirs) /\ GoodWatcher(WatcherWith(dirs))
         /\ dirs \in SUBSET Dirs /\ "STARTED" \notin gl[x]
         /\ \A y \in Watchers : y # x => View(m, gl, y) = View(l, fl, y) /\ gl[y] = fl[y]
<1>1. dirs \in SUBSET Dirs /\ "STARTED" \notin dirs
  BY DEF StartWith, Dirs
<1>2. WatcherWith(dirs) = [flags |-> dirs, active |-> {}, pending |-> {}]
  BY DEF WatcherWith, WatcherInit
<1>3. gl = [fl EXCEPT ![x] = dirs]
  BY <1>2 DEF InitFlags
<1>4. gl \in FlagsType /\ gl[x] = dirs /\ \A y \in Watchers : y # x => gl[y] = fl[y]
  BY <1>1, <1>3 DEF FlagsType, Flags
<1>5. ASSUME NEW d \in Dirs PROVE ~m.io[<<x, d>>].active /\ m.io[<<x, d>>].pending = 0
  <2>1. <<x, d>> \in Ios /\ <<x, d>>[1] = x
    BY SameDirs, AnIo
  <2>2. m.io[<<x, d>>] = [fd |-> fd, fdset |-> TRUE, active |-> FALSE, pending |-> 0]
    BY <2>1 DEF Initialised
  <2> QED
    BY <2>2
<1>6. View(m, gl, x) = WatcherWith(dirs)
  BY <1>2, <1>4, <1>5 DEF View
<1>7. ASSUME NEW y \in Watchers, y # x PROVE View(m, gl, y) = View(l, fl, y)
  <2>1. SameOf(l, m, y)
    BY <1>7 DEF Initialised, SameOf
  <2>2. gl[y] = fl[y]
    BY <1>4, <1>7
  <2> QED
    BY <2>1, <2>2, SameView
<1> QED
  BY <1>1, <1>4, <1>6, <1>7, WithGood

(* A watcher that is not started has no active ev_io. *)
LEMMA StoppedIsInactive ==
  ASSUME SysInv, NEW x \in Watchers, "STARTED" \notin flags[x]
  PROVE  \A j \in Ios : j[1] = x => ~ev.io[j].active
<1>1. GoodWatcher(wbar[x]) /\ wbar[x] = View(ev, flags, x)
  BY Views DEF SysInv
<1>2. \A d \in Dirs : ~ev.io[<<x, d>>].active
  BY <1>1 DEF GoodWatcher, View, ActiveMatchesFlags, Watched
<1>3. \A j \in Ios : j[1] = x => j = <<x, j[2]>> /\ j[2] \in Dirs
  BY SameDirs DEF Ios
<1> QED
  BY <1>2, <1>3

LEMMA InvParts ==
  ASSUME SysInv
  PROVE  /\ ev \in LoopType /\ k \in KernelType /\ fdOf \in Owners /\ flags \in FlagsType
         /\ LoopInv(ev, k, fdOf) /\ \A x \in Watchers : fdOf[x] = NoFd => "STARTED" \notin flags[x]
  BY DEF SysInv, SystemTypes, StoppedIfClosed

(* The step of x's initialisation, once the loop is known to be in order *)
LEMMA InitStep ==
  ASSUME SysInv, NEW x \in Watchers, "STARTED" \notin flags[x], NEW fd \in Fds, InitWithFd(x, fd),
         ev' \in LoopType => k' \in KernelType /\ fdOf' \in Owners /\ LoopInv(ev', k', fdOf'),
         \A y \in Watchers : y # x /\ fdOf'[y] = NoFd => "STARTED" \notin flags[y]
  PROVE  SysInv' /\ Reinit(x)
<1>1. ev \in LoopType /\ flags \in FlagsType
  BY InvParts
<1>2. ev' = Each(LAMBDA n, i : ev_io_init(n, i, fd), ev, x, W!Dirs)
  BY DEF InitWithFd
<1>3. ev' \in LoopType /\ Initialised(ev, ev', x, fd)
  BY <1>1, <1>2, InitIos
<1>4. PICK dirs \in StartWith : InitFlags(flags, flags', x, dirs)
  BY DEF InitWithFd, InitFlags
<1>5. /\ flags' \in FlagsType /\ View(ev', flags', x) = WatcherWith(dirs) /\ GoodWatcher(WatcherWith(dirs))
      /\ dirs \in SUBSET Dirs /\ "STARTED" \notin flags'[x]
      /\ \A y \in Watchers : y # x => View(ev', flags', y) = View(ev, flags, y) /\ flags'[y] = flags[y]
  BY <1>1, <1>3, <1>4, InitView
<1>6. wbar' = [wbar EXCEPT ![x] = WatcherWith(dirs)]
  BY <1>5, Views
<1>7. \A y \in Watchers : GoodWatcher(wbar'[y])
  BY <1>5, <1>6, Views DEF SysInv
<1>8. wbar[x].flags = flags[x]
  BY Views DEF View
<1>9. StoppedIfClosed'
  BY <1>5 DEF StoppedIfClosed
<1>10. SystemTypes'
  BY <1>3, <1>5 DEF SystemTypes
<1> QED
  BY <1>3, <1>5, <1>6, <1>7, <1>8, <1>9, <1>10 DEF SysInv, Reinit, Update

LEMMA Opens ==
  ASSUME SysInv, NEW x \in Watchers, Open(x)
  PROVE  SysInv' /\ Reinit(x)
<1>1. /\ ev \in LoopType /\ k \in KernelType /\ fdOf \in Owners /\ flags \in FlagsType
      /\ LoopInv(ev, k, fdOf) /\ \A y \in Watchers : fdOf[y] = NoFd => "STARTED" \notin flags[y]
  BY InvParts
<1>2. fdOf[x] = NoFd
  BY DEF Open
<1>3. PICK fd \in Free, file \in Files :
         /\ \A e \in k.kset : e.file # file
         /\ k' = KernelOpen(k, fd, file) /\ InitWithFd(x, fd) /\ fdOf' = [fdOf EXCEPT ![x] = fd]
  BY DEF Open
<1>4. fd \in Fds /\ k.file[fd] = None /\ \A e \in k.kset : e.file # file
  <2>1. fd \in Fds /\ k.file[fd] = None
    BY DEF Free
  <2> QED
    BY <1>3, <2>1
<1>5. "STARTED" \notin flags[x] /\ \A j \in Ios : j[1] = x => ~ev.io[j].active
  BY <1>1, <1>2, StoppedIsInactive
<1>6. ASSUME ev' \in LoopType PROVE k' \in KernelType /\ fdOf' \in Owners /\ LoopInv(ev', k', fdOf')
  <2>1. Initialised(ev, ev', x, fd)
    BY <1>1, <1>3, <1>4, InitIos DEF InitWithFd
  <2>2. k' = KernelOpen(k, fd, file) /\ fdOf' = [fdOf EXCEPT ![x] = fd]
    BY <1>3
  <2> QED
    BY <1>1, <1>2, <1>4, <1>5, <1>6, <2>1, <2>2, OpenKeeps
<1>7. \A y \in Watchers : y # x /\ fdOf'[y] = NoFd => "STARTED" \notin flags[y]
  BY <1>1, <1>3 DEF Owners
<1>8. InitWithFd(x, fd)
  BY <1>3
<1> QED
  BY <1>4, <1>5, <1>6, <1>7, <1>8, InitStep

LEMMA TakesOver ==
  ASSUME SysInv, NEW x \in Watchers, NEW y \in Watchers, TakeOver(x, y)
  PROVE  SysInv' /\ Reinit(x)
<1>1. /\ ev \in LoopType /\ k \in KernelType /\ fdOf \in Owners /\ flags \in FlagsType
      /\ LoopInv(ev, k, fdOf) /\ \A z \in Watchers : fdOf[z] = NoFd => "STARTED" \notin flags[z]
  BY InvParts
<1> DEFINE fd == fdOf[y]
<1>2. /\ fdOf[x] = NoFd /\ fdOf[y] # NoFd /\ "STARTED" \notin flags[y] /\ k' = k
      /\ InitWithFd(x, fd) /\ fdOf' = [fdOf EXCEPT ![x] = fd, ![y] = NoFd] /\ fd = fdOf[y]
  BY DEF TakeOver
<1>3. fd \in Fds
  BY <1>1, <1>2 DEF Owners
<1> HIDE DEF fd
<1>4. "STARTED" \notin flags[x] /\ \A j \in Ios : j[1] = x \/ j[1] = y => ~ev.io[j].active
  BY <1>1, <1>2, StoppedIsInactive
<1>5. ASSUME ev' \in LoopType PROVE k' \in KernelType /\ fdOf' \in Owners /\ LoopInv(ev', k', fdOf')
  <2>1. Initialised(ev, ev', x, fd)
    BY <1>1, <1>2, <1>3, InitIos DEF InitWithFd
  <2>2. fdOf' \in Owners /\ LoopInv(ev', k, fdOf')
    BY <1>1, <1>2, <1>4, <1>5, <2>1, TakeOverKeeps
  <2> QED
    BY <1>1, <1>2, <2>2
<1>6. \A z \in Watchers : z # x /\ fdOf'[z] = NoFd => "STARTED" \notin flags[z]
  BY <1>1, <1>2 DEF Owners
<1> QED
  BY <1>2, <1>3, <1>4, <1>5, <1>6, InitStep

LEMMA Closes ==
  ASSUME SysInv, NEW x \in Watchers, Close(x)
  PROVE  SysInv' /\ UNCHANGED wbar
<1>1. /\ ev \in LoopType /\ k \in KernelType /\ fdOf \in Owners /\ flags \in FlagsType
      /\ LoopInv(ev, k, fdOf) /\ \A z \in Watchers : fdOf[z] = NoFd => "STARTED" \notin flags[z]
  BY InvParts
<1>2. /\ fdOf[x] # NoFd /\ "STARTED" \notin flags[x] /\ k' = KernelClose(k, fdOf[x])
      /\ fdOf' = [fdOf EXCEPT ![x] = NoFd] /\ ev' = ev /\ flags' = flags
  BY DEF Close
<1>3. \A j \in Ios : j[1] = x => ~ev.io[j].active
  BY <1>2, StoppedIsInactive
<1>4. k' \in KernelType /\ fdOf' \in Owners /\ LoopInv(ev, k', fdOf')
  BY <1>1, <1>2, <1>3, CloseKeeps
<1>5. wbar' = wbar
  BY <1>2, Views
<1>6. StoppedIfClosed'
  BY <1>1, <1>2 DEF StoppedIfClosed, Owners
<1>7. SystemTypes'
  BY <1>1, <1>2, <1>4 DEF SystemTypes
<1>8. LoopInv(ev', k', fdOf')
  BY <1>2, <1>4
<1>9. \A y \in Watchers : GoodWatcher(wbar'[y])
  BY <1>5 DEF SysInv
<1> QED
  BY <1>5, <1>6, <1>7, <1>8, <1>9 DEF SysInv

(* ev_invoke_pending takes the newest event. *)
LEMMA InvokeKeeps ==
  ASSUME NEW l \in LoopType, NEW kern \in KernelType, NEW f \in Owners, LoopInv(l, kern, f), l.pendings # <<>>,
         NEW i, i = Last(l.pendings).w, NEW m, m = ev_invoke_pending(l)
  PROVE  /\ m \in LoopType /\ LoopInv(m, kern, f) /\ i \in Ios \cup {PendingW}
         /\ i # PendingW => l.io[i].pending # 0
         /\ \A j \in Ios : /\ m.io[j].active <=> l.io[j].active
                           /\ m.io[j].pending # 0 <=> l.io[j].pending # 0 /\ j # i
<1> DEFINE last == Len(l.pendings)
           P == Front(l.pendings)
           io == IF i = PendingW THEN l.io ELSE [l.io EXCEPT ![i].pending = 0]
<1>1. l.pendings \in Seq(PendingType) /\ l.io \in [Ios -> IoType] /\ Linked(l) /\ Placed(l) /\ Sources(l, kern)
  BY LoopFields DEF PendingsType, IosType, LoopInv
<1>2. last \in DOMAIN l.pendings /\ last \in Nat /\ last # 0 /\ i = l.pendings[last].w
  BY <1>1 DEF Last
<1>3. i \in Ios \cup {PendingW}
  BY <1>2, PendingAt
<1>4. i # PendingW => i \in Ios /\ l.io[i].pending = last
  BY <1>2, <1>3, <1>1 DEF Placed
<1>5. P \in PendingsType /\ DOMAIN P = 1 .. (last - 1) /\ \A n \in 1 .. (last - 1) : P[n] = l.pendings[n] /\ n \in DOMAIN l.pendings
  BY <1>1, <1>2 DEF PendingsType, Front
<1>6. io \in IosType
  BY <1>1, <1>3 DEF IosType, IoType
<1>7. \A j \in Ios : /\ io[j].fd = l.io[j].fd /\ io[j].fdset = l.io[j].fdset /\ io[j].active = l.io[j].active
                     /\ io[j].pending = IF j = i THEN 0 ELSE l.io[j].pending
  BY <1>1, <1>3, PendingAssumption DEF IoType
<1>8. m = [l EXCEPT !.pendings = P, !.io = io]
  BY <1>2 DEF ev_invoke_pending, LoopType, Last
<1> HIDE DEF P, io
<1>9. m \in LoopType /\ m.pendings = P /\ m.io = io
  BY <1>5, <1>6, <1>8 DEF LoopType
<1>10. SameButPending(l, m)
  BY <1>7, <1>8 DEF LoopType, SameButPending, SameBackend, SameIo
<1>11. Placed(m)
  <2>1. ASSUME NEW j \in Ios, m.io[j].pending # 0
        PROVE  m.io[j].active /\ m.io[j].pending \in DOMAIN m.pendings /\ m.pendings[m.io[j].pending].w = j
    <3>1. j # i /\ m.io[j].pending = l.io[j].pending /\ l.io[j].pending # 0
      BY <1>7, <1>9, <2>1
    <3>2. l.io[j].active /\ l.io[j].pending \in DOMAIN l.pendings /\ l.pendings[l.io[j].pending].w = j
      BY <1>1, <3>1 DEF Placed
    <3>3. l.io[j].pending # last
      BY <1>2, <3>1, <3>2
    <3>4. l.io[j].pending \in 1 .. (last - 1)
      BY <1>1, <3>2, <3>3
    <3> QED
      BY <1>5, <1>7, <1>9, <3>1, <3>2, <3>4
  <2>2. ASSUME NEW n \in DOMAIN m.pendings, m.pendings[n].w # PendingW
        PROVE  m.io[m.pendings[n].w].pending = n
    <3>1. n \in 1 .. (last - 1) /\ m.pendings[n] = l.pendings[n] /\ n \in DOMAIN l.pendings
      BY <1>5, <1>9
    <3>2. l.pendings[n].w \in Ios /\ l.io[l.pendings[n].w].pending = n
      BY <1>1, <2>2, <3>1, PendingAt DEF Placed
    <3>3. l.pendings[n].w # i
      BY <1>2, <1>4, <2>2, <3>1, <3>2
    <3> QED
      BY <1>7, <1>9, <3>1, <3>2, <3>3
  <2> QED
    BY <2>1, <2>2 DEF Placed
<1>12. Sources(m, kern)
  <2>1. ASSUME NEW n \in DOMAIN m.pendings, m.pendings[n].w # PendingW
        PROVE  m.pendings[n].src = {kern.file[m.io[m.pendings[n].w].fd]}
    <3>1. m.pendings[n] = l.pendings[n] /\ n \in DOMAIN l.pendings
      BY <1>5, <1>9
    <3>2. l.pendings[n].w \in Ios
      BY <2>1, <3>1, PendingAt
    <3>3. l.pendings[n].src = {kern.file[l.io[l.pendings[n].w].fd]}
      BY <1>1, <2>1, <3>1 DEF Sources
    <3> QED
      BY <1>7, <1>9, <3>1, <3>2, <3>3
  <2> QED
    BY <2>1 DEF Sources
<1>13. LoopInv(m, kern, f)
  BY <1>9, <1>10, <1>11, <1>12, PendingCarries
<1> QED
  BY <1>2, <1>3, <1>4, <1>7, <1>9, <1>13

-----------------------------------------------------------------------------
(* The loop runs *)

LEMMA Invokes ==
  ASSUME SysInv, InvokePending
  PROVE  SysInv' /\ (UNCHANGED wbar \/ \E x \in Watchers, d \in Dirs : Callback(x, d))
<1>1. /\ ev \in LoopType /\ k \in KernelType /\ fdOf \in Owners /\ flags \in FlagsType
      /\ LoopInv(ev, k, fdOf) /\ \A z \in Watchers : fdOf[z] = NoFd => "STARTED" \notin flags[z]
  BY InvParts
<1> DEFINE i == Last(ev.pendings).w
<1>2. /\ ev.pendings # <<>> /\ ev' = ev_invoke_pending(ev) /\ i = Last(ev.pendings).w
      /\ k' = k /\ fdOf' = fdOf /\ flags' = flags
  BY DEF InvokePending
<1> HIDE DEF i
<1>3. /\ ev' \in LoopType /\ LoopInv(ev', k, fdOf) /\ i \in Ios \cup {PendingW}
      /\ i # PendingW => ev.io[i].pending # 0
      /\ \A j \in Ios : /\ ev'.io[j].active <=> ev.io[j].active
                        /\ ev'.io[j].pending # 0 <=> ev.io[j].pending # 0 /\ j # i
  BY <1>1, <1>2, InvokeKeeps
<1>4. SystemTypes' /\ StoppedIfClosed' /\ LoopInv(ev', k', fdOf')
  BY <1>1, <1>2, <1>3 DEF SystemTypes, StoppedIfClosed
<1>5. CASE i = PendingW
  <2>1. ASSUME NEW x \in Watchers PROVE View(ev', flags', x) = View(ev, flags, x)
    <3>1. SameOf(ev, ev', x)
      BY <1>3, <1>5, PendingAssumption DEF SameOf
    <3>2. flags'[x] = flags[x]
      BY <1>2
    <3> QED
      BY <3>1, <3>2, SameView
  <2>2. wbar' = wbar
    BY <2>1, Views
  <2> QED
    BY <1>4, <2>2 DEF SysInv
<1>6. CASE i # PendingW
  <2>1. PICK x \in Watchers, d \in Dirs : i = <<x, d>>
    BY <1>3, <1>6, SameDirs DEF Ios
  <2>2. GoodWatcher(wbar[x]) /\ wbar[x] = View(ev, flags, x)
    BY Views DEF SysInv
  <2>3. d \in wbar[x].pending
    BY <1>3, <1>6, <2>1, <2>2 DEF View
  <2>4. View(ev', flags', x) = Deliver(wbar[x], d)
    <3>1. ASSUME NEW e \in Dirs
          PROVE  /\ ev'.io[<<x, e>>].active <=> ev.io[<<x, e>>].active
                 /\ ev'.io[<<x, e>>].pending # 0 <=> ev.io[<<x, e>>].pending # 0 /\ e # d
      BY <1>3, <2>1, SameDirs, AnIo
    <3>2. Deliver(wbar[x], d) = [flags |-> wbar[x].flags, active |-> wbar[x].active, pending |-> wbar[x].pending \ {d}]
      BY <2>2 DEF GoodWatcher, WatcherType, Deliver
    <3>3. {e \in Dirs : ev'.io[<<x, e>>].active} = wbar[x].active
      BY <2>2, <3>1 DEF View
    <3>4. {e \in Dirs : ev'.io[<<x, e>>].pending # 0} = wbar[x].pending \ {d}
      BY <2>2, <3>1 DEF View
    <3>5. flags'[x] = wbar[x].flags
      BY <1>2, <2>2 DEF View
    <3> QED
      BY <3>2, <3>3, <3>4, <3>5 DEF View
  <2>5. ASSUME NEW y \in Watchers, y # x PROVE View(ev', flags', y) = View(ev, flags, y)
    <3>1. SameOf(ev, ev', y)
      BY <1>3, <2>1, <2>5 DEF SameOf
    <3>2. flags'[y] = flags[y]
      BY <1>2
    <3> QED
      BY <3>1, <3>2, SameView
  <2>6. wbar' = [wbar EXCEPT ![x] = Deliver(wbar[x], d)]
    BY <2>4, <2>5, Views
  <2>7. \A y \in Watchers : GoodWatcher(wbar'[y])
    <3>1. GoodWatcher(Deliver(wbar[x], d))
      BY <2>2, DeliverGood
    <3> QED
      BY <2>6, <3>1, Views DEF SysInv
  <2>8. Callback(x, d)
    BY <2>3, <2>6 DEF Callback, Update
  <2> QED
    BY <1>4, <2>7, <2>8 DEF SysInv
<1> QED
  BY <1>5, <1>6

LEMMA FeedIs ==
  ASSUME NEW r \in WatcherType, r.pending = {}, NEW ready \in SUBSET Dirs
  PROVE  Feed(r, ready) = [flags |-> r.flags, active |-> r.active, pending |-> ready \cap r.active]
  BY DEF WatcherType, Feed

(* One iteration of ev_run *)
LEMMA Iterates ==
  ASSUME SysInv, Iterate
  PROVE  SysInv' /\ PollWatchers
<1>1. /\ ev \in LoopType /\ k \in KernelType /\ fdOf \in Owners /\ flags \in FlagsType
      /\ LoopInv(ev, k, fdOf) /\ \A z \in Watchers : fdOf[z] = NoFd => "STARTED" \notin flags[z]
  BY InvParts
<1> DEFINE c == [ev |-> ev, k |-> k]
           d == IF c.ev.postfork THEN loop_fork(c) ELSE c
           q == fd_reify(d)
<1>2. /\ ev.pendings = <<>> /\ fdOf' = fdOf /\ flags' = flags
      /\ \/ ev.backend = "epoll" /\ AfterEpoll(q)
         \/ ev.backend = "poll" /\ AfterPoll(q)
         \/ ev.backend = "select" /\ AfterSelect(q)
  BY DEF Iterate
<1>3. Rebuilt(c, d) /\ q = fd_reify(d) /\ c = [ev |-> ev, k |-> k]
  BY DEF Rebuilt
<1>4. c.ev = ev /\ c.k = k
  OBVIOUS
<1> HIDE DEF c, d, q
<1>5. c \in PairType
  BY <1>1, <1>3, APair
<1>6. /\ q \in PairType /\ LoopInv(q.ev, q.k, fdOf) /\ q.k.file = c.k.file
      /\ q.ev.backend = c.ev.backend /\ q.ev.io = c.ev.io
      /\ \A g \in Fds : q.ev.anfds[g].reify = {}
  BY <1>1, <1>3, <1>4, <1>5, Prepares
<1>7. RW \in SUBSET Ev /\ RW \cup {"EXCEPT"} = Ev
  BY DEF Ev, RW
<1>8. PICK r : r \in PairType /\ LoopInv(r.ev, r.k, fdOf) /\ Told(q.ev, r.ev) /\ ev' = r.ev /\ k' = r.k
  <2>1. CASE ev.backend = "epoll" /\ AfterEpoll(q)
    <3>0. PICK count \in 0 .. EventMax :
            \E items \in [1 .. count -> q.k.kset], got \in [1 .. count -> SUBSET RW] :
              Becomes(epoll_poll(q, items, got))
      BY <2>1 DEF AfterEpoll
    <3>1. PICK items \in [1 .. count -> q.k.kset], got \in [1 .. count -> SUBSET RW] :
            Becomes(epoll_poll(q, items, got))
      BY <3>0
    <3> DEFINE r == epoll_poll(q, items, got)
    <3>2. r = epoll_poll(q, items, got) /\ count \in Nat /\ q.ev.backend = "epoll"
      BY <1>4, <1>6, <2>1
    <3>3. ev' = r.ev /\ k' = r.k
      BY <3>1 DEF Becomes
    <3> HIDE DEF r
    <3>4. r \in PairType /\ LoopInv(r.ev, r.k, fdOf) /\ Told(q.ev, r.ev)
      BY <1>1, <1>6, <3>2, EpollPolls
    <3> QED
      BY <3>3, <3>4
  <2>2. CASE ev.backend = "poll" /\ AfterPoll(q)
    <3>1. PICK got \in [Fds -> SUBSET Ev] : Becomes(poll_poll(q, got))
      BY <1>7, <2>2 DEF AfterPoll
    <3> DEFINE r == poll_poll(q, got)
    <3>2. r = poll_poll(q, got) /\ q.ev.backend = "poll"
      BY <1>4, <1>6, <2>2
    <3>3. ev' = r.ev /\ k' = r.k
      BY <3>1 DEF Becomes
    <3> HIDE DEF r
    <3>4. r \in PairType /\ LoopInv(r.ev, r.k, fdOf) /\ Told(q.ev, r.ev)
      BY <1>1, <1>6, <3>2, PollPolls
    <3> QED
      BY <3>3, <3>4
  <2>3. CASE ev.backend = "select" /\ AfterSelect(q)
    <3>1. PICK got \in [Fds -> SUBSET RW] : Becomes(select_poll(q, got))
      BY <2>3 DEF AfterSelect
    <3> DEFINE r == select_poll(q, got)
    <3>2. r = select_poll(q, got) /\ got \in [Fds -> SUBSET Ev]
      BY <1>7
    <3>3. ev' = r.ev /\ k' = r.k
      BY <3>1 DEF Becomes
    <3> HIDE DEF r
    <3>4. r \in PairType /\ LoopInv(r.ev, r.k, fdOf) /\ Told(q.ev, r.ev)
      BY <1>1, <1>6, <3>2, SelectPolls
    <3> QED
      BY <3>3, <3>4
  <2> QED
    BY <1>2, <2>1, <2>2, <2>3
<1>9. ev' \in LoopType /\ k' \in KernelType /\ LoopInv(ev', k', fdOf)
  BY <1>8, PairFields
<1>10. SystemTypes' /\ StoppedIfClosed' /\ LoopInv(ev', k', fdOf')
  BY <1>1, <1>2, <1>9 DEF SystemTypes, StoppedIfClosed
<1>11. \A i \in Ios : ev'.io[i].active <=> ev.io[i].active
  BY <1>4, <1>6, <1>8 DEF Told
<1>12. \A i \in Ios : ev.io[i].pending = 0
  <2>1. DOMAIN ev.pendings = {}
    BY <1>2
  <2> QED
    BY <1>1, <2>1 DEF LoopInv, Placed
<1>13. \A i \in Ios : ev'.io[i].pending # 0 => ev'.io[i].active
  BY <1>9 DEF LoopInv, Placed
<1> DEFINE fed(x) == {e \in Dirs : ev'.io[<<x, e>>].pending # 0}
           ready == [x \in Watchers |-> fed(x)]
<1>14. ASSUME NEW x \in Watchers
       PROVE  /\ wbar[x].pending = {} /\ wbar'[x] = Feed(wbar[x], ready[x]) /\ GoodWatcher(wbar'[x])
              /\ wbar[x] = View(ev, flags, x)
  <2>1. GoodWatcher(wbar[x]) /\ wbar[x] = View(ev, flags, x) /\ wbar'[x] = View(ev', flags', x)
    BY Views DEF SysInv
  <2>2. \A e \in Dirs : <<x, e>> \in Ios
    BY SameDirs, AnIo
  <2>3. wbar[x].pending = {}
    BY <1>12, <2>1, <2>2 DEF View
  <2>4. Feed(wbar[x], ready[x]) = [flags |-> flags[x], active |-> wbar[x].active, pending |-> ready[x] \cap wbar[x].active]
    <3>1. ready[x] \in SUBSET Dirs
      OBVIOUS
    <3>2. wbar[x] \in WatcherType /\ wbar[x].flags = flags[x]
      BY <2>1 DEF GoodWatcher, View
    <3> HIDE DEF ready
    <3> QED
      BY <2>3, <3>1, <3>2, FeedIs
  <2>5. ready[x] \cap wbar[x].active = ready[x]
    BY <1>11, <1>13, <2>1, <2>2 DEF View
  <2>6. View(ev', flags', x) = [flags |-> flags[x], active |-> wbar[x].active, pending |-> ready[x]]
    <3>1. {e \in Dirs : ev'.io[<<x, e>>].active} = wbar[x].active
      BY <1>11, <2>1, <2>2 DEF View
    <3> QED
      BY <1>2, <3>1 DEF View
  <2>7. wbar'[x] = Feed(wbar[x], ready[x])
    BY <2>1, <2>4, <2>5, <2>6
  <2>8. ready[x] \in SUBSET Dirs
    OBVIOUS
  <2>9. GoodWatcher(Feed(wbar[x], ready[x]))
    <3> HIDE DEF ready
    <3> QED
      BY <2>1, <2>8, FeedGood
  <2> HIDE DEF ready
  <2>10. GoodWatcher(wbar'[x])
    BY <2>7, <2>9
  <2> QED
    BY <2>1, <2>3, <2>7, <2>10
<1>15. ready \in [Watchers -> SUBSET Dirs]
  OBVIOUS
<1> HIDE DEF ready, fed
<1>16. wbar' = [x \in Watchers |-> Feed(wbar[x], ready[x])]
  BY <1>14, Views
<1>17. PollWatchers
  BY <1>14, <1>15, <1>16 DEF PollWatchers
<1> QED
  BY <1>10, <1>14, <1>17 DEF SysInv

-----------------------------------------------------------------------------
(* The theorems *)

LEMMA SystemSteps ==
  ASSUME SysInv, [SystemNext]_systemVars
  PROVE  SysInv' /\ [WatchersNext]_wbar
<1>1. ASSUME NEW x \in Watchers, Call(x) PROVE SysInv' /\ WatchersNext
  BY <1>1, CallKeeps DEF WatchersNext
<1>2. ASSUME NEW x \in Watchers, Open(x) PROVE SysInv' /\ WatchersNext
  BY <1>2, Opens DEF WatchersNext
<1>3. ASSUME NEW x \in Watchers, Close(x) PROVE SysInv' /\ UNCHANGED wbar
  BY <1>3, Closes
<1>4. ASSUME NEW x \in Watchers, NEW y \in Watchers, TakeOver(x, y) PROVE SysInv' /\ WatchersNext
  BY <1>4, TakesOver DEF WatchersNext
<1>5. CASE InvokePending
  BY <1>5, Invokes DEF WatchersNext
<1>6. CASE Iterate
  BY <1>6, Iterates DEF WatchersNext
<1>7. CASE UNCHANGED systemVars
  <2>1. ev' = ev /\ k' = k /\ flags' = flags /\ fdOf' = fdOf
    BY <1>7 DEF systemVars
  <2>2. wbar' = wbar
    BY <2>1, Views
  <2>3. \A y \in Watchers : GoodWatcher(wbar'[y])
    BY <2>2 DEF SysInv
  <2> QED
    BY <2>1, <2>2, <2>3 DEF SysInv, SystemTypes, StoppedIfClosed
<1> QED
  BY <1>1, <1>2, <1>3, <1>4, <1>5, <1>6, <1>7 DEF SystemNext

LEMMA SystemKeeps == SystemSpec => []SysInv
  BY SystemStarts, SystemSteps, PTL DEF SystemSpec

(* Libev's approximations hide the descriptors: for any number of watchers,  *)
(* descriptors, files, events and calls, with each of the three backends.    *)
THEOREM SystemImplements == SystemSpec => ImplementsWatcherSpec
<1>1. SystemInit => WatchersInit
  BY SystemStarts
<1>2. SysInv /\ [SystemNext]_systemVars => [WatchersNext]_wbar
  BY SystemSteps
<1> QED
  BY <1>1, <1>2, SystemKeeps, PTL DEF SystemSpec, ImplementsWatcherSpec, WatchersSpec

(* No event of an earlier file, or of a watcher that was stopped, is left.   *)
THEOREM NothingStale == SystemSpec => []NoStaleEvent
<1>1. SysInv => NoStaleEvent
  BY DEF SysInv, LoopInv, Sources, NoStaleEvent
<1> QED
  BY <1>1, SystemKeeps, PTL

(* The flags of watcher.c never drift from libev's view. *)
THEOREM FlagsAgreeWithLoop == SystemSpec => []WatchExact
<1>1. SysInv => WatchExact
  BY DEF SysInv, GoodWatcher, WatchExact
<1> QED
  BY <1>1, SystemKeeps, PTL

(* A callback runs only for a direction that is watched when it runs. *)
THEOREM CallbackIsWatched == SystemSpec => OnlyWatchedDelivered
<1>1. SysInv /\ [SystemNext]_systemVars =>
        [\A x \in Watchers, d \in Dirs : Callback(x, d) => Watched(wbar[x], d)]_wbar
  BY DEF SysInv, GoodWatcher, Callback, ActiveMatchesFlags, PendingIsActive
<1> QED
  BY <1>1, SystemKeeps, PTL DEF SystemSpec, OnlyWatchedDelivered

(* Each watch whose changes were passed on is one the backend asks for. *)
LEMMA WatchIsArmed ==
  ASSUME SysInv, NEW i \in Ios, ev.io[i].active, ev.anfds[ev.io[i].fd].reify = {}, ~ev.postfork,
         ev.backend = "epoll" => EventsOf[i] \subseteq RW
  PROVE  Armed(i)
<1> DEFINE fd == ev.io[i].fd
<1>1. /\ ev \in LoopType /\ k \in KernelType /\ fdOf \in Owners /\ LoopInv(ev, k, fdOf)
  BY InvParts
<1>2. Linked(ev) /\ Passed(ev) /\ Owned(ev, k, fdOf) /\ BackendInv(ev, k, fdOf)
  BY <1>1 DEF LoopInv
<1>3. fd \in Fds /\ i \in ActiveOn(ev, fd) /\ ev.anfds[fd].reify = {}
  BY <1>2 DEF Linked, ActiveOn
<1> HIDE DEF fd
<1>4. k.file[fd] # None /\ ~Fresh(ev, fdOf, fd)
  BY <1>2, <1>3, WatchedIsOpen
<1>5. EventsOf[i] \subseteq ev.anfds[fd].events /\ EventsOf[i] # {} /\ EventsOf[i] \in SUBSET Ev
  BY <1>2, <1>3, EventsOfType DEF Passed, Wanted
<1>6. ~Anew(ev, fdOf, fd) /\ ev.anfds[fd].events # {}
  BY <1>3, <1>4, <1>5 DEF Anew
<1>7. CASE ev.backend = "epoll"
  <2>1. EpollInv(ev, k, fdOf) /\ EventsOf[i] \subseteq RW /\ EventsOf[i] # {} /\ EventsOf[i] \subseteq ev.anfds[fd].events
    BY <1>2, <1>5, <1>7 DEF BackendInv
  <2>2. k.file[fd] \in Files
    BY <1>1, <1>3, <1>4 DEF KernelType
  <2>3. CASE k.file[fd] \in Plain
    <3>1. KeptApart(ev, k, fdOf, fd) /\ ev.anfds[fd].events \cap RW # {}
      BY <1>3, <2>1 DEF EpollInv
    <3>2. fd \in ev.epoll.eperms /\ ev.anfds[fd].emask = {"EPERM"}
      BY <1>6, <2>3, <3>1 DEF KeptApart
    <3> QED
      BY <1>7, <2>3, <3>2 DEF Armed, fd
  <2>4. CASE k.file[fd] \notin Plain
    <3>1. InKernel(ev, k, fdOf, fd)
      BY <1>3, <2>1 DEF EpollInv
    <3>2. PICK e \in k.kset : e.fd = fd /\ e.file = k.file[fd] /\ e.mask = ev.anfds[fd].events \cap RW
      BY <1>6, <2>2, <2>4, <3>1 DEF InKernel
    <3>3. ItemKnown(ev, k, fdOf, e)
      BY <2>1 DEF EpollInv
    <3>4. e.gen = ev.anfds[fd].egen
      BY <3>2, <3>3 DEF ItemKnown
    <3>5. EventsOf[i] \cap RW \subseteq e.mask
      BY <2>1, <3>2
    <3> QED
      BY <1>7, <2>4, <3>2, <3>4, <3>5 DEF Armed, fd
  <2> QED
    BY <2>3, <2>4
<1>8. CASE ev.backend = "poll"
  <2>1. PollInv(ev) /\ ev.poll.pollidxs[fd] # NoPlace
    BY <1>2, <1>3, <1>6, <1>8 DEF BackendInv, PollInv
  <2>2. /\ ev.poll.pollidxs[fd] \in DOMAIN ev.poll.polls /\ ev.poll.polls[ev.poll.pollidxs[fd]].fd = fd
        /\ ev.poll.polls[ev.poll.pollidxs[fd]].events = ev.anfds[fd].events
    BY <1>3, <2>1 DEF PollInv
  <2> QED
    BY <1>5, <1>8, <2>2, Zenon DEF Armed, fd
<1>9. CASE ev.backend = "select"
  <2>1. SelectInv(ev)
    BY <1>2, <1>9 DEF BackendInv
  <2>2. /\ "READ" \in EventsOf[i] => fd \in ev.select.ri
        /\ "WRITE" \in EventsOf[i] => fd \in ev.select.wi
    BY <1>3, <1>5, <2>1 DEF SelectInv
  <2> QED
    BY <1>9, <2>2 DEF Armed, fd
<1>10. ev.backend \in Backends
  BY <1>1, LoopFields
<1> QED
  BY <1>7, <1>8, <1>9, <1>10 DEF Backends

(* No watcher is deaf. *)
THEOREM NoneDeaf == SystemSpec => []EveryWatchIsArmed
<1>1. SysInv => EveryWatchIsArmed
  BY WatchIsArmed DEF EveryWatchIsArmed
<1> QED
  BY <1>1, SystemKeeps, PTL
=============================================================================
