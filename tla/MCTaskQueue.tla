---------------------------- MODULE MCTaskQueue ----------------------------
(***************************************************************************)
(* A TLC instance of TaskQueue after src/main.c: T1 and T2 send to each    *)
(* other, and T1 also to itself, as a handler that reposts work does.  At  *)
(* T1 two messages of T2 meet its own.                                     *)
(***************************************************************************)
EXTENDS TaskQueue

CONSTANTS t1, t2

TwoTasks == {t1, t2}

ExchangeSends ==
  [r \in TwoTasks \X TwoTasks |->
     CASE r = <<t2, t1>> -> 2
       [] r \in {<<t1, t2>>, <<t1, t1>>} -> 1
       [] OTHER -> 0]
=============================================================================
