------------------------------ MODULE TcpServer ------------------------------
(***************************************************************************)
(* net/tcp_server.c with its two kinds of listening sockets, as            *)
(* demo/tcp_server_test.c uses them: a repeating timer stops and starts    *)
(* both servers in turn, and every connection accepted is closed at once.  *)
(* The Unix domain server asks for an AF_INET socket, which cannot be      *)
(* bound to its path, so that it never listens; start and stop are called  *)
(* on it all the same.                                                     *)
(***************************************************************************)
EXTENDS Watcher, FiniteSets

CONSTANTS
  Backlog,        (* connections the kernel completes before they are accepted *)
  MaxConnections  (* bound: clients that connect in all *)

Servers == {"ipv4", "unix"}    (* also the names of the sockets they listen on *)
NoSd == "-1"

VARIABLES
  server,       (* per server: its sd (its name while it listens, for the      *)
                (* listening socket), is_listening and its watcher             *)
  _server_stopped,
  _test_timer,  (* "off", "running" or "due" *)
  listening,    (* the sockets open in the kernel *)
  waiting,      (* per server, connections that wait to be accepted *)
  connected,    (* how many clients have connected *)
  newsd         (* connections accepted and not closed *)

serverVars == <<server, _server_stopped, _test_timer, listening, waiting, connected, newsd>>

(* Static storage: sd is 0 and the watcher has no flags. *)
Unused == [sd |-> "0", is_listening |-> FALSE, w |-> WatcherInit]

ServerInit ==
  /\ server = [s \in Servers |-> Unused]
  /\ _server_stopped = FALSE
  /\ _test_timer = "off"
  /\ listening = {}
  /\ waiting = [s \in Servers |-> 0]
  /\ connected = 0
  /\ newsd = 0

-----------------------------------------------------------------------------
(* The servers *)

(* tcp_server_init, with the socket that listens *)
Listens(s) == [sd |-> s, is_listening |-> FALSE, w |-> WatcherWith({"RX"})]

(* socket(), bind() or listen() fails, and the socket is closed again. *)
InitFailed(srv) == [srv EXCEPT !.sd = NoSd]

(* __init_tcp_server_ipv4 *)
Ipv4Init(srv) == {Listens("ipv4"), InitFailed(srv)}

(* tcp_server_unix_domain_init: bind() refuses the path on an AF_INET socket. *)
UnixDomainInit(srv) == {InitFailed(srv)}

(* tcp_server_start *)
ServerStart(srv) ==
  IF srv.is_listening THEN srv ELSE [srv EXCEPT !.is_listening = TRUE, !.w = Start(@)]

(* tcp_server_stop *)
ServerStop(srv) ==
  IF ~srv.is_listening THEN srv ELSE [srv EXCEPT !.is_listening = FALSE, !.w = Stop(@)]

(* One connection is accepted, unless its client has gone, and given to the  *)
(* user.                                                                     *)
Accept(s) ==
  \/ waiting[s] > 0 /\ waiting' = [waiting EXCEPT ![s] = @ - 1] /\ newsd' = newsd + 1
  \/ waiting[s] = 0 /\ UNCHANGED <<waiting, newsd>>

(* The listening socket's watcher fires. *)
RxEvent(s) ==
  /\ "RX" \in server[s].w.pending
  /\ server' = [server EXCEPT ![s].w = Deliver(@, "RX")]
  /\ Accept(s)
  /\ UNCHANGED <<_server_stopped, _test_timer, listening, connected>>

-----------------------------------------------------------------------------
(* The demo *)

(* tcp_server_task_start *)
TaskStart ==
  /\ _test_timer = "off"
  /\ \E ipv4 \in Ipv4Init(server["ipv4"]), unix \in UnixDomainInit(server["unix"]) :
       /\ server' = [ipv4 |-> ServerStart(ipv4), unix |-> ServerStart(unix)]
       /\ listening' = {ipv4.sd, unix.sd} \ {NoSd}
  /\ _test_timer' = "running"
  /\ UNCHANGED <<_server_stopped, waiting, connected, newsd>>

(* test_timer_expired; the timer repeats. *)
TestTimerExpired ==
  /\ _test_timer = "due"
  /\ _test_timer' = "running"
  /\ server' = [s \in Servers |->
       IF _server_stopped THEN ServerStart(server[s]) ELSE ServerStop(server[s])]
  /\ _server_stopped' = ~_server_stopped
  /\ UNCHANGED <<listening, waiting, connected, newsd>>

(* tcp_server_new_client returns: the connection is closed. *)
NewClient ==
  /\ newsd > 0
  /\ newsd' = newsd - 1
  /\ UNCHANGED <<server, _server_stopped, _test_timer, listening, waiting, connected>>

-----------------------------------------------------------------------------
(* The loop and the clients *)

(* A callback that has begun ends before the next one. *)
ServerCallback ==
  \/ NewClient
  \/ newsd = 0 /\ (TestTimerExpired \/ \E s \in Servers : RxEvent(s))

Quiet == newsd = 0 /\ _test_timer = "running" /\ \A s \in Servers : server[s].w.pending = {}

Ready(s) == server[s].sd \in listening /\ waiting[s] > 0

(* A poll finds connections waiting, or the timer due, or both. *)
PollServers(due) ==
  /\ Quiet
  /\ due \/ \E s \in Servers : Ready(s) /\ server[s].w.active # {}
  /\ server' = [s \in Servers |-> IF Ready(s) THEN [server[s] EXCEPT !.w = Feed(@, {"RX"})]
                                  ELSE server[s]]
  /\ _test_timer' = IF due THEN "due" ELSE _test_timer
  /\ UNCHANGED <<_server_stopped, listening, waiting, connected, newsd>>

ClientConnects(s) ==
  /\ server[s].sd \in listening
  /\ waiting[s] < Backlog /\ connected < MaxConnections
  /\ waiting' = [waiting EXCEPT ![s] = @ + 1]
  /\ connected' = connected + 1
  /\ UNCHANGED <<server, _server_stopped, _test_timer, listening, newsd>>

ClientLeaves(s) ==
  /\ waiting[s] > 0
  /\ waiting' = [waiting EXCEPT ![s] = @ - 1]
  /\ UNCHANGED <<server, _server_stopped, _test_timer, listening, connected, newsd>>

ServerNext ==
  \/ TaskStart \/ ServerCallback
  \/ \E due \in BOOLEAN : PollServers(due)
  \/ \E s \in Servers : ClientConnects(s) \/ ClientLeaves(s)

(* The loop runs, and it is faster than the timer's five seconds: while the  *)
(* servers are started a poll comes before the timer is due.                 *)
ServerFairness ==
  /\ WF_serverVars(ServerCallback)
  /\ WF_serverVars(PollServers(TRUE))
  /\ SF_serverVars(PollServers(FALSE))

-----------------------------------------------------------------------------
(* Properties *)

(* A server that is stopped takes no connection, also one that was readable  *)
(* when the timer stopped it: no event of its is pending, and its watcher,   *)
(* set up or not, agrees with is_listening (tcp_server.c 44-71).             *)
StoppedTakesNone ==
  \A s \in Servers :
    /\ ~server[s].is_listening => server[s].w.active = {} /\ server[s].w.pending = {}
    /\ server[s].is_listening <=> "STARTED" \in server[s].w.flags
    /\ server[s].w.active # {} => server[s].sd \in listening

(* A connection that waits is accepted in the end, though the server is      *)
(* stopped and started again and again (tcp_server_test.c 19-37).            *)
WaitingAreAccepted == \A s \in Servers : waiting[s] > 0 ~> waiting[s] = 0
=============================================================================
