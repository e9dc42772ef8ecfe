---------------------------- MODULE MCLibevLoop ----------------------------
(***************************************************************************)
(* A loop with two foreign senders and its own thread, and loops with up   *)
(* to eleven timers: the smallest 4-heap in which an entry that replaces a *)
(* stopped one has to move towards the root.                               *)
(***************************************************************************)
EXTENDS LibevLoop

CONSTANTS s1, s2, self, t1, t2, t3, t4, t5, t6, t7, t8, t9, t10, t11

MCSenders == {s1, s2, self}
MCTimers == {t1, t2, t3, t4, t5, t6, t7, t8, t9, t10, t11}
MCDelays == {0, 2}
(* Timers started at time 0, each due at its place in the sequence. *)
RECURSIVE Started(_)
Started(timers) ==
  IF timers = << >> THEN << >>
  ELSE LET n == Len(timers)
       IN  HeapInsert(Started(SubSeq(timers, 1, n - 1)), [w |-> timers[n][1], at |-> timers[n][2]])

MCScenarios ==
  {[heap |-> << >>, repeats |-> {}, used |-> {}, sends |-> 3, ops |-> 0, ticks |-> 0],
   [heap |-> Started(<<<<t1, 1>>>>), repeats |-> {t1},
    used |-> {}, sends |-> 1, ops |-> 0, ticks |-> 2],
   [heap |-> Started(<<<<t1, 0>>, <<t2, 2>>, <<t3, 2>>>>), repeats |-> {t1, t3},
    used |-> {t1, t2, t3, t4}, sends |-> 0, ops |-> 2, ticks |-> 3],
   [heap |-> Started(<<<<t1, 0>>, <<t2, 6>>, <<t3, 1>>, <<t4, 9>>, <<t5, 9>>,
                       <<t6, 7>>, <<t7, 7>>, <<t8, 7>>, <<t9, 7>>, <<t10, 4>>, <<t11, 2>>>>),
    repeats |-> {}, used |-> {t6}, sends |-> 0, ops |-> 1, ticks |-> 4]}
=============================================================================
