----------------------------- MODULE MCWatcher -----------------------------
(* Two watchers and two descriptor numbers: a watcher may take over the      *)
(* number of the other, or of itself before, with a file that a child holds  *)
(* too or with one epoll refuses.  Five calls let a descriptor leave the     *)
(* array of poll while another follows it there.                             *)
EXTENDS LibevWatcher, TLC

CONSTANTS x1, x2, socket, inherited, plain

TwoWatchers == {x1, x2}
ThreeFiles == {socket, inherited, plain}
OnlyPlain == {plain}
OnlyInherited == {inherited}
Calls == [epoll |-> 6, poll |-> 5, select |-> 4]
Symmetry == Permutations(TwoWatchers)
=============================================================================
