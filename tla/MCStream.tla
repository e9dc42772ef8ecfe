------------------------------ MODULE MCStream ------------------------------
(***************************************************************************)
(* The sockets a program hands to the library, each on a loop: a stream, a *)
(* datagram socket and the two servers of the demo.  Init chooses the one  *)
(* that is in use, the others rest.                                        *)
(*                                                                         *)
(* A stream buffer of three bytes behind a socket of two, writes of up to  *)
(* four: a write may fit the socket, fill it and fit the buffer, or        *)
(* overflow both; the buffer wraps.  A datagram socket with room for two.  *)
(* Two connections may wait at a server while a third comes later.         *)
(***************************************************************************)
EXTENDS Stream

CONSTANTS
  SendRoom,       (* datagrams the kernel's send buffer holds                    *)
  MaxArrivals,    (* bound: datagrams that arrive in all                         *)
  Backlog,        (* connections the kernel completes before they are accepted   *)
  MaxConnections  (* bound: clients that connect to the servers in all           *)

VARIABLES
  use,
  dgram_w, from_len, dgram_life, unsent, arrived, arrivals, told, refused,
  server, _server_stopped, _test_timer, listening, waiting, connected, newsd

Udp == INSTANCE UdpSocket WITH life <- dgram_life
Server == INSTANCE TcpServer

udpVars == <<dgram_w, from_len, dgram_life, unsent, arrived, arrivals, told, refused>>
serverVars == <<server, _server_stopped, _test_timer, listening, waiting, connected, newsd>>

InitSockets ==
  /\ use \in {"stream", "udp", "server"}
  /\ Init
  /\ Udp!UdpInit
  /\ Server!ServerInit

NextSockets ==
  /\ UNCHANGED use
  /\ \/ use = "stream" /\ Next /\ UNCHANGED <<udpVars, serverVars>>
     \/ use = "udp" /\ Udp!UdpNext /\ UNCHANGED <<vars, serverVars>>
     \/ use = "server" /\ Server!ServerNext /\ UNCHANGED <<vars, udpVars>>

(* The fairness of the three: a stream that is not in use is not polled, and *)
(* the other two, not in use, have nothing to be fair to.                    *)
SpecSockets ==
  /\ InitSockets /\ [][NextSockets]_<<use, vars, udpVars, serverVars>>
  /\ WF_vars(use = "stream" /\ Poll) /\ WF_vars(Callback) /\ WF_vars(PeerReads)
  /\ Udp!UdpFairness
  /\ Server!ServerFairness

-----------------------------------------------------------------------------
(* The properties of the three, stated in their modules. *)

(* What is freed or stopped is not called back, also when its event was      *)
(* pending (stream.c 107-113, udp_socket.c 76-92, tcp_server.c 44-71).       *)
NoCallbackAfterFree == FreedIsSilent /\ Udp!StoppedIsSilent /\ Server!StoppedTakesNone

(* What waits for the socket gets its turn: queued bytes while writing is    *)
(* watched, a refused sender, a datagram, a connection (stream.c 17-50,      *)
(* udp_socket.c 20-54 and 94-113, tcp_server_ipv4.c 20-38).                  *)
WatchedDrains ==
  /\ WatchedQueueDrains
  /\ Udp!RefusedHearsOfRoom /\ Udp!ArrivedIsRead
  /\ Server!WaitingAreAccepted
=============================================================================
