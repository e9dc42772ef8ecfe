------------------------------ MODULE Watcher ------------------------------
(***************************************************************************)
(* core/watcher.c as operators on a record: a file descriptor with three   *)
(* libev ev_io watchers, for reading, writing and exceptional conditions.  *)
(* flags are the WATCHER_ bits; active and pending are libev's own fields  *)
(* of the three ev_io: started on the loop, and fed an event whose         *)
(* callback has not run yet.                                               *)
(***************************************************************************)
EXTENDS Naturals

Dirs == {"RX", "TX", "ER"}
Flags == Dirs \cup {"STARTED"}

WatcherType == [flags : SUBSET Flags, active : SUBSET Dirs, pending : SUBSET Dirs]

(* ev_io_start: nothing happens to an ev_io that is already active. *)
IoStart(w, dirs) == [w EXCEPT !.active = @ \cup dirs]

(* ev_io_stop also withdraws an event that was fed and not yet delivered. *)
IoStop(w, dirs) == [w EXCEPT !.active = @ \ dirs, !.pending = @ \ dirs]

(* watcher_init_with_fd *)
WatcherInit == [flags |-> {}, active |-> {}, pending |-> {}]

(* watcher_init_with_fd, and the watches set before the watcher is started *)
WatcherWith(dirs) == [WatcherInit EXCEPT !.flags = dirs]

(* watcher_watch_rx, _tx and _err *)
Watch(w, d) ==
  IF d \in w.flags THEN w
  ELSE LET flagged == [w EXCEPT !.flags = @ \cup {d}]
       IN  IF "STARTED" \in w.flags THEN IoStart(flagged, {d}) ELSE flagged

(* watcher_no_watch_rx, _tx and _err *)
NoWatch(w, d) ==
  IF d \notin w.flags THEN w
  ELSE LET cleared == [w EXCEPT !.flags = @ \ {d}]
       IN  IF "STARTED" \in w.flags THEN IoStop(cleared, {d}) ELSE cleared

(* watcher_start *)
Start(w) ==
  IF "STARTED" \in w.flags THEN w
  ELSE IoStart([w EXCEPT !.flags = @ \cup {"STARTED"}], w.flags \cap Dirs)

(* watcher_stop *)
Stop(w) ==
  IF "STARTED" \notin w.flags THEN w
  ELSE IoStop([w EXCEPT !.flags = @ \ {"STARTED"}], w.flags \cap Dirs)

(* libev polls the descriptor and feeds an event to each active ev_io for    *)
(* which it is ready.                                                        *)
Feed(w, ready) == [w EXCEPT !.pending = @ \cup (ready \cap w.active)]

(* libev takes the pending event of direction d to call its callback. *)
Deliver(w, d) == [w EXCEPT !.pending = @ \ {d}]

(* Direction d is watched: its flag is set and the watcher is started. *)
Watched(w, d) == {d, "STARTED"} \subseteq w.flags

(* The ev_io on the loop are exactly the ones the flags ask for. *)
ActiveMatchesFlags(w) == \A d \in Dirs : d \in w.active <=> Watched(w, d)

PendingIsActive(w) == w.pending \subseteq w.active
=============================================================================
