---------------------------- MODULE WatcherSpec ----------------------------
(***************************************************************************)
(* The watchers of one task's loop.  Between polls, and from inside any    *)
(* callback, user code may call any watcher function on any watcher: a     *)
(* callback may stop a watcher whose own event is already pending, as      *)
(* modbus_tcp_slave_stop does with every connection.                       *)
(***************************************************************************)
EXTENDS Watcher

CONSTANT Watchers   (* the watchers on the loop *)

VARIABLE w          (* per watcher, its record *)

TypeOK == w \in [Watchers -> WatcherType]

WatchersInit == w = [x \in Watchers |-> WatcherInit]

Update(x, new) == w' = [w EXCEPT ![x] = new]

UserCall(x) ==
  \/ \E d \in Dirs : Update(x, Watch(w[x], d)) \/ Update(x, NoWatch(w[x], d))
  \/ Update(x, Start(w[x]))
  \/ Update(x, Stop(w[x]))

(* A stopped watcher is initialised anew, for another descriptor. *)
Reinit(x) ==
  /\ "STARTED" \notin w[x].flags
  /\ \E dirs \in SUBSET Dirs : Update(x, WatcherWith(dirs))

(* Events already fed are all delivered, or withdrawn, before the next poll. *)
PollWatchers ==
  /\ \A x \in Watchers : w[x].pending = {}
  /\ \E ready \in [Watchers -> SUBSET Dirs] :
       w' = [x \in Watchers |-> Feed(w[x], ready[x])]

(* __ev_io_rx_callback, _tx_ and _er_ call the watcher's callback. *)
Callback(x, d) ==
  /\ d \in w[x].pending
  /\ Update(x, Deliver(w[x], d))

WatchersNext ==
  \/ \E x \in Watchers : UserCall(x) \/ Reinit(x) \/ \E d \in Dirs : Callback(x, d)
  \/ PollWatchers

WatchersSpec == WatchersInit /\ [][WatchersNext]_w

-----------------------------------------------------------------------------
(* Properties *)

(* The flags never drift from libev's view: an ev_io is on the loop exactly  *)
(* when its flag and STARTED are both set, in whatever order they were set   *)
(* and cleared (watcher.c 29-60, 104-153).                                   *)
WatchExact == \A x \in Watchers : ActiveMatchesFlags(w[x])

(* A callback runs only for a direction the user watches at that moment,     *)
(* also when the event was pending before the user stopped watching it, so   *)
(* a watcher may be freed once it is stopped (watcher.c 67-89, 139-152).     *)
OnlyWatchedDelivered ==
  [][\A x \in Watchers, d \in Dirs : Callback(x, d) => Watched(w[x], d)]_w
=============================================================================
