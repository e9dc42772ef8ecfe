----------------------------- MODULE TcpClient -----------------------------
(***************************************************************************)
(* demo/tcp_client_test.c: the other user of net/tcp_connector.c, a client *)
(* that keeps its connection for a while, closes it and connects again, for*)
(* ever.  One timer, rtmr, stands for both waits: while connected it runs  *)
(* until the client disconnects, and otherwise until it tries again.  The  *)
(* descriptor stays with the connector, which closes it.                   *)
(*                                                                         *)
(* SpecUsers is either use of the connector, alone on its loop: the auto   *)
(* connector with a user who starts, stops and closes, or this client.     *)
(***************************************************************************)
EXTENDS AutoConnector

VARIABLES
  connected, (* the client holds a connection                              *)
  use        (* who uses the connector, "auto" or "client"                 *)

(* The client uses neither the state nor the callback of the auto connector. *)
autoOnly == <<state, held, calling>>
clientVars == <<vars, connected>>

ClientInit == Init /\ connected = FALSE

-----------------------------------------------------------------------------
(* tcp_connector_event_handler, of a connector conn with descriptors o open. *)

ClientSuccess(conn, t, o) ==
  /\ connected' = TRUE
  /\ c' = conn
  /\ open' = o
  /\ rtmr' = TimerStart(t)

ClientFailure(conn, t, o) ==
  /\ connected' = FALSE
  /\ c' = Deinit(conn)
  /\ open' = o \ {conn.sd}
  /\ rtmr' = TimerStart(t)

(* try_to_connect by the connector conn. *)
try_to_connect(conn, t, o) ==
  \/ ClientFailure([conn EXCEPT !.sd = NoFd], t, o)
  \/ \E fd \in Fds \ o :
       \/ ClientSuccess(Fresh(fd), t, o \cup {fd})
       \/ ClientFailure(Fresh(fd), t, o \cup {fd})
       \/ /\ connected' = FALSE
          /\ c' = [Fresh(fd) EXCEPT !.in_prog = TRUE, !.w = Start(@), !.tmr = "running"]
          /\ open' = o \cup {fd}
          /\ rtmr' = t

(* tcp_client_task_start *)
ClientStart ==
  /\ c.sd = Unset
  /\ try_to_connect(c, rtmr, open)
  /\ UNCHANGED autoOnly

(* The attempt has ended, one way or the other. *)
ClientConnectEvent ==
  /\ "TX" \in c.w.pending
  /\ LET ended == [c EXCEPT !.in_prog = FALSE, !.w = Stop(Deliver(@, "TX")), !.tmr = "off"] IN
       ClientSuccess(ended, rtmr, open) \/ ClientFailure(ended, rtmr, open)
  /\ UNCHANGED autoOnly

(* It has timed out: the next one follows at once. *)
ClientAttemptTimeout ==
  LET given_up == Deinit([c EXCEPT !.in_prog = FALSE, !.w = Stop(@), !.tmr = "off"]) IN
  /\ c.tmr = "due"
  /\ try_to_connect(given_up, rtmr, open \ {c.sd})
  /\ UNCHANGED autoOnly

(* The connection is closed, or there was none; either way the next attempt. *)
retry_timer_expired ==
  /\ rtmr = "due"
  /\ IF connected THEN try_to_connect(Deinit(c), "off", open \ {c.sd})
                  ELSE try_to_connect(c, "off", open)
  /\ UNCHANGED autoOnly

ClientCallback == ClientConnectEvent \/ ClientAttemptTimeout \/ retry_timer_expired

ClientNext == ClientStart \/ ClientCallback \/ (LoopPoll /\ UNCHANGED connected)

-----------------------------------------------------------------------------
(* Either use of the connector *)

InitUsers == use \in {"auto", "client"} /\ ClientInit

NextUsers ==
  /\ UNCHANGED use
  /\ \/ use = "auto" /\ Next /\ UNCHANGED connected
     \/ use = "client" /\ ClientNext

allVars == <<use, clientVars>>

(* The loop of either delivers what is queued, and timers expire. *)
SpecUsers ==
  /\ InitUsers /\ [][NextUsers]_allVars
  /\ WF_allVars(use = "auto" /\ UNCHANGED <<use, connected>> /\ LoopStep)
  /\ WF_allVars(use = "client" /\ UNCHANGED use /\ (ClientStart \/ ClientCallback))
  /\ WF_allVars(UNCHANGED <<use, connected>> /\ \E writable, wait \in BOOLEAN : Poll(writable, TRUE, wait))
  /\ WF_allVars(UNCHANGED <<use, connected>> /\ \E writable, attempt \in BOOLEAN : Poll(writable, attempt, TRUE))

-----------------------------------------------------------------------------
(* Properties *)

(* Once started, the client always has something to wait for, and one thing  *)
(* only: an attempt in progress, watched and timed, or its timer; and it     *)
(* says that it is connected when it holds an open descriptor that no        *)
(* attempt is using (tcp_client_test.c 29-122).                              *)
ClientAgreement ==
  /\ c.sd # Unset => (c.in_prog <=> rtmr = "off")
  /\ c.in_prog <=> c.w.active = {"TX"}
  /\ c.in_prog <=> c.tmr # "off"
  /\ connected <=> c.sd \in open /\ ~c.in_prog

(* Every connection is given up when its time has come, and every attempt    *)
(* ends or times out.                                                        *)
ClientMovesOn ==
  /\ connected ~> rtmr = "due"
  /\ c.in_prog ~> (~c.in_prog \/ c.tmr = "due")

(* The state, the watcher and the timers agree (tcp_connector.c 18-54,      *)
(* tcp_auto_connector.c 24-115, tcp_client_test.c 29-122).                  *)
Agreement == IF use = "auto" THEN AutoAgreement ELSE ClientAgreement

(* Neither waits for something that does not come. *)
NeverStuck ==
  /\ (use = "auto") => AutoNeverStuck
  /\ (use = "client") => ClientMovesOn
=============================================================================
