--------------------------- MODULE AutoConnector ---------------------------
(***************************************************************************)
(* net/tcp_auto_connector.c over net/tcp_connector.c: one client that      *)
(* connects to a server, retries for ever and hands the connected socket   *)
(* to its user.  A connection attempt is a non-blocking connect() watched  *)
(* for writing, raced by a timer; a failed attempt is retried after a wait,*)
(* a timed-out one at once.  Everything runs on one task's loop; the user  *)
(* calls start and stop from the loop and from inside the callback.        *)
(***************************************************************************)
EXTENDS Watcher, FiniteSets

CONSTANTS
  Fds,       (* the descriptors socket() can return                        *)
  NoFd,      (* -1                                                         *)
  Unset      (* what sd holds before the first attempt                     *)

(* Before init sd is a zero of static memory: not -1, nor one of socket().  *)
ASSUME FdsAssumption == {NoFd, Unset} \cap Fds = {} /\ NoFd # Unset

VARIABLES
  state,     (* tcp_auto_connector_t.state                                 *)
  c,         (* the tcp_connector_t: sd, is_in_prog, its watcher and timer *)
  rtmr,      (* reconn_wait_tmr                                            *)
  open,      (* the descriptors open in the process                        *)
  held,      (* those of them handed to the user and not closed since      *)
  calling    (* the callback cb(-1) that is running, or "none"             *)

vars == <<state, c, rtmr, open, held, calling>>

(* A one-shot task_timer: "due" when libev has queued its callback. *)
TimerStates == {"off", "running", "due"}
TimerStart(t) == IF t = "off" THEN "running" ELSE t

(* tcp_connector_init: the watcher and the timer are initialised anew. *)
Fresh(fd) == [sd |-> fd, in_prog |-> FALSE, w |-> Watch(WatcherInit, "TX"), tmr |-> "off"]

(* tcp_auto_connector_init: no attempt has been made, sd is not set. *)
Init ==
  /\ state = "not_started"
  /\ c = Fresh(Unset)
  /\ rtmr = "off"
  /\ open = {}
  /\ held = {}
  /\ calling = "none"

(* tcp_connector_deinit, which also closes conn.sd if there is one. *)
Deinit(conn) ==
  LET stopped == IF conn.in_prog
                 THEN [conn EXCEPT !.in_prog = FALSE, !.w = Stop(@), !.tmr = "off"]
                 ELSE conn
  IN  [stopped EXCEPT !.sd = NoFd]

(* The connector gives its descriptor away. *)
tcp_connect_get_sd(conn) == [conn EXCEPT !.sd = NoFd]

-----------------------------------------------------------------------------
(* tcp_auto_connector_handle_tcp_connect_event, given the connector conn    *)
(* and the descriptors o open and h held when it is called.                 *)

(* mutant: tcp_connect_get_sd leaves the descriptor to the connector *)
SuccessKeepsSd(conn, o, h) ==
  /\ state' = "not_started"
  /\ c' = conn
  /\ open' = o
  /\ held' = h \cup {conn.sd}
  /\ calling' = "none"

(* The user's callback gets the descriptor and nothing follows it. *)
Success(conn, o, h) ==
  /\ state' = "not_started"
  /\ c' = tcp_connect_get_sd(conn)
  /\ open' = o
  /\ held' = h \cup {conn.sd}
  /\ calling' = "none"

(* mutant: the wait is not started *)
FailureUntimed(conn, t, o, h) ==
  /\ c' = Deinit(conn)
  /\ open' = o \ {conn.sd}
  /\ held' = h
  /\ state' = "reconnect_wait"
  /\ rtmr' = t
  /\ calling' = "failed"

(* The wait is started before the callback. *)
Failure(conn, t, o, h) ==
  /\ c' = Deinit(conn)
  /\ open' = o \ {conn.sd}
  /\ held' = h
  /\ state' = "reconnect_wait"
  /\ rtmr' = TimerStart(t)
  /\ calling' = "failed"

InProgress(conn, o, h) ==
  /\ c' = conn
  /\ open' = o
  /\ held' = h
  /\ state' = "connecting"
  /\ calling' = "none"

(* tcp_auto_connector_connect: socket() may fail, and connect() may succeed  *)
(* or fail at once or be in progress.  t is reconn_wait_tmr at the call.     *)
Connect(t, o, h) ==
  \/ Failure([c EXCEPT !.sd = NoFd], t, o, h)
  \/ \E fd \in Fds \ o :
       \/ Success(Fresh(fd), o \cup {fd}, h) /\ rtmr' = t
       \/ Failure(Fresh(fd), t, o \cup {fd}, h)
       \/ /\ InProgress([Fresh(fd) EXCEPT !.in_prog = TRUE, !.w = Start(@), !.tmr = "running"],
                        o \cup {fd}, h)
          /\ rtmr' = t

-----------------------------------------------------------------------------
(* Callbacks of the loop *)

(* __tcp_connector_watcher_callback: SO_ERROR tells whether it is connected. *)
ConnectEvent ==
  /\ calling = "none"
  /\ "TX" \in c.w.pending
  /\ LET ended == [c EXCEPT !.in_prog = FALSE, !.w = Stop(Deliver(@, "TX")), !.tmr = "off"] IN
       \/ Success(ended, open, held) /\ UNCHANGED rtmr
       \/ Failure(ended, rtmr, open, held)

(* mutant: the watcher is not stopped when the attempt times out *)
AttemptTimeoutUnstopped ==
  /\ calling = "none"
  /\ c.tmr = "due"
  /\ c' = Deinit([c EXCEPT !.in_prog = FALSE, !.tmr = "off"])
  /\ open' = open \ {c.sd}
  /\ calling' = "timedout"
  /\ UNCHANGED <<state, rtmr, held>>

(* __tcp_connector_timeout: the attempt is given up and the user called;     *)
(* the next attempt follows when the callback has returned.                  *)
AttemptTimeout ==
  /\ calling = "none"
  /\ c.tmr = "due"
  /\ c' = Deinit([c EXCEPT !.in_prog = FALSE, !.w = Stop(@), !.tmr = "off"])
  /\ open' = open \ {c.sd}
  /\ calling' = "timedout"
  /\ UNCHANGED <<state, rtmr, held>>

(* tcp_auto_connector_reconn_wait_timeout *)
WaitTimeout ==
  /\ calling = "none"
  /\ rtmr = "due"
  /\ Connect("off", open, held)

(* cb(-1) returns; after a timeout tcp_auto_connector_connect is called. *)
CallbackReturn ==
  \/ calling = "failed" /\ calling' = "none" /\ UNCHANGED <<state, c, rtmr, open, held>>
  \/ calling = "timedout" /\ Connect(rtmr, open, held)

(* The loop polls when no callback is queued: the descriptor may be writable *)
(* and timers may be due, several of them at once.                           *)
Poll(writable, attempt, wait) ==
  /\ calling = "none"
  /\ c.w.pending = {} /\ "due" \notin {c.tmr, rtmr}
  /\ attempt => c.tmr = "running"
  /\ wait => rtmr = "running"
  /\ c' = [c EXCEPT !.w = IF writable THEN Feed(@, {"TX"}) ELSE @,
                    !.tmr = IF attempt THEN "due" ELSE @]
  /\ rtmr' = IF wait THEN "due" ELSE rtmr
  /\ UNCHANGED <<state, open, held, calling>>

LoopPoll == \E writable, attempt, wait \in BOOLEAN : Poll(writable, attempt, wait)

LoopStep == ConnectEvent \/ AttemptTimeout \/ WaitTimeout \/ CallbackReturn

-----------------------------------------------------------------------------
(* The user *)

(* tcp_auto_connector_start, called by a user whose connector is not started  *)
(* and does not start again by itself once its callback returns.              *)
UserStart ==
  /\ state = "not_started"
  /\ calling # "timedout"
  /\ Connect(rtmr, open, held)

(* mutant: stop leaves the wait running *)
UserStopUntimed ==
  /\ c.sd # Unset
  /\ c' = Deinit(c)
  /\ open' = open \ {c.sd}
  /\ state' = "not_started"
  /\ UNCHANGED <<rtmr, held, calling>>

(* tcp_auto_connector_stop, from anywhere, the callback included.  It is     *)
(* called after a start only: before one it would close what sd happens to be.*)
UserStop ==
  /\ c.sd # Unset
  /\ c' = Deinit(c)
  /\ open' = open \ {c.sd}
  /\ rtmr' = IF state = "reconnect_wait" THEN "off" ELSE rtmr
  /\ state' = "not_started"
  /\ UNCHANGED <<held, calling>>

(* The user closes a descriptor it was given. *)
UserClose ==
  /\ \E fd \in held : held' = held \ {fd} /\ open' = open \ {fd}
  /\ UNCHANGED <<state, c, rtmr, calling>>

Next == LoopStep \/ LoopPoll \/ UserStart \/ UserStop \/ UserClose

(* The loop delivers what is queued, callbacks return, and a timer that runs *)
(* is due in the end.                                                        *)
Fairness ==
  /\ WF_vars(LoopStep)
  /\ WF_vars(\E writable, wait \in BOOLEAN : Poll(writable, TRUE, wait))
  /\ WF_vars(\E writable, attempt \in BOOLEAN : Poll(writable, attempt, TRUE))

Spec == Init /\ [][Next]_vars /\ Fairness

-----------------------------------------------------------------------------
(* Properties *)

(* Every descriptor opened is closed or handed over, and only one that is    *)
(* open is kept: no attempt, however it ends and whoever stops it, leaks its *)
(* descriptor or leaves one behind that was closed (tcp_connector.c 111-146, *)
(* 170-177).                                                                 *)
SocketsAccounted ==
  /\ held \subseteq open
  /\ c.sd \notin held
  /\ open = held \cup ({c.sd} \ {NoFd, Unset})

(* is_in_prog, the state, the watcher and the two timers agree: an attempt   *)
(* in progress is watched and timed on an open descriptor, a wait is timed,  *)
(* and otherwise nothing of the connector is on the loop.                    *)
AutoAgreement ==
  /\ c.in_prog <=> (state = "connecting" /\ calling = "none")
  /\ c.in_prog <=> c.w.active = {"TX"}
  /\ c.in_prog <=> c.tmr # "off"
  /\ c.in_prog => c.sd # NoFd
  /\ ~c.in_prog => c.w.active = {} /\ c.w.pending = {}
  /\ state = "reconnect_wait" <=> rtmr # "off"

(* Once stopped, the connector does not start again by itself, whatever was   *)
(* queued on the loop when it was stopped; a stop from inside the callback of *)
(* a timed-out attempt is undone by the next attempt (tcp_auto_connector.c    *)
(* 33-36, 99-115).                                                            *)
StopIsFinal ==
  [][state = "not_started" /\ state' # "not_started" => UserStart \/ calling = "timedout"]_vars

(* The connector never hangs, even if the server never answers: an attempt    *)
(* ends, and a wait ends in an attempt, which the user hears of if it fails.  *)
AutoNeverStuck ==
  /\ c.in_prog ~> ~c.in_prog
  /\ (state = "reconnect_wait" /\ calling = "none")
       ~> (state # "reconnect_wait" \/ calling = "failed")
=============================================================================
