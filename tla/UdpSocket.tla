------------------------------ MODULE UdpSocket ------------------------------
(***************************************************************************)
(* net/udp_socket.c: a non-blocking datagram socket on one task's loop.    *)
(* Every event of its watcher is passed to the user as one of three; a     *)
(* send that the kernel has no room for is refused, and the user is told   *)
(* when it may try again.  The user calls from the loop and from inside    *)
(* its callback, which is always the last thing the handler does.          *)
(***************************************************************************)
EXTENDS Watcher, Sequences

CONSTANTS
  SendRoom,    (* datagrams the kernel's send buffer holds *)
  MaxArrivals  (* bound: datagrams that arrive in all *)

VARIABLES
  dgram_w,     (* sock->watcher *)
  from_len,    (* the length of a sender's address: that of the socket's family *)
  life,        (* "closed", "stopped" or "started" *)
  unsent,      (* datagrams in the kernel's send buffer *)
  arrived,     (* lengths of the datagrams received and not read *)
  arrivals,    (* how many have arrived *)
  told,        (* history: the event last passed to the user *)
  refused      (* history: a send was refused for want of room, and the user *)
               (* has not been told of room since *)

udpVars == <<dgram_w, from_len, life, unsent, arrived, arrivals, told, refused>>

NoEvent == "none"
NoLength == "0"

UdpInit ==
  /\ dgram_w = WatcherInit
  /\ from_len = NoLength
  /\ life = "closed"
  /\ unsent = 0
  /\ arrived = << >>
  /\ arrivals = 0
  /\ told = NoEvent
  /\ refused = FALSE

-----------------------------------------------------------------------------
(* The user's calls *)

(* udp_socket_init: everything is watched, not yet started. *)
InitSocket(len) ==
  /\ dgram_w' = WatcherWith({"RX", "TX", "ER"})
  /\ from_len' = len
  /\ life' = "stopped"
  /\ unsent' = 0 /\ arrived' = << >>
  /\ told' = NoEvent /\ refused' = FALSE
  /\ UNCHANGED arrivals

(* A socket that cannot be bound is closed again, and nothing has changed;   *)
(* after a deinit the structure may be used for a socket of either family.   *)
Ipv4Init == life = "closed" /\ InitSocket("sockaddr_in")
UnixDomainInit == life = "closed" /\ InitSocket("sockaddr_un")

StartSocket ==
  /\ life # "closed"
  /\ dgram_w' = Start(dgram_w)
  /\ life' = "started"
  /\ UNCHANGED <<from_len, unsent, arrived, arrivals, told, refused>>

StopSocket ==
  /\ life # "closed"
  /\ dgram_w' = Stop(dgram_w)
  /\ life' = "stopped"
  /\ UNCHANGED <<from_len, unsent, arrived, arrivals, told, refused>>

(* udp_socket_deinit *)
Deinit ==
  /\ life # "closed"
  /\ dgram_w' = Stop(dgram_w)
  /\ life' = "closed"
  /\ UNCHANGED <<from_len, unsent, arrived, arrivals, told, refused>>

(* The kernel takes a datagram or has no room for it; the peer's refusal of  *)
(* an earlier one is an error too.  sendto of an empty datagram returns 0,   *)
(* which is no error, and errno is what an earlier call left there.          *)
SendResults(len) ==
  IF unsent = SendRoom THEN {"would_block", "error"}
  ELSE {"error"} \cup (IF len = 0 THEN {"sent_none"} ELSE {"sent"})

(* udp_socket_send, by a user who waits to be told once it was refused *)
Send(len) ==
  /\ life # "closed" /\ ~refused
  /\ \E ret \in SendResults(len), errno \in {"EWOULDBLOCK", "other"} :
       /\ ret = "would_block" => errno = "EWOULDBLOCK"
       /\ ret = "error" => errno = "other"
       /\ unsent' = IF ret \in {"sent", "sent_none"} THEN unsent + 1 ELSE unsent
       /\ dgram_w' = IF ret # "sent" /\ errno = "EWOULDBLOCK" THEN Watch(dgram_w, "TX") ELSE dgram_w
       /\ refused' = (refused \/ ret = "would_block")
  /\ UNCHANGED <<from_len, life, arrived, arrivals, told>>

-----------------------------------------------------------------------------
(* udp_watcher_callback *)

(* One datagram is read per event; an empty one, or none, is an error. *)
RxEvent ==
  /\ "RX" \in dgram_w.pending
  /\ dgram_w' = Deliver(dgram_w, "RX")
  /\ arrived' = IF arrived = << >> THEN << >> ELSE Tail(arrived)
  /\ told' = IF arrived # << >> /\ Head(arrived) > 0 THEN "rx" ELSE "err"
  /\ UNCHANGED <<from_len, life, unsent, arrivals, refused>>

TxEvent ==
  /\ "TX" \in dgram_w.pending
  /\ dgram_w' = NoWatch(Deliver(dgram_w, "TX"), "TX")
  /\ told' = "tx_buf_avail"
  /\ refused' = FALSE
  /\ UNCHANGED <<from_len, life, unsent, arrived, arrivals>>

ErrEvent ==
  /\ "ER" \in dgram_w.pending
  /\ dgram_w' = Deliver(dgram_w, "ER")
  /\ told' = "err"
  /\ UNCHANGED <<from_len, life, unsent, arrived, arrivals, refused>>

DgramCallback == RxEvent \/ TxEvent \/ ErrEvent

-----------------------------------------------------------------------------
(* The loop, the kernel and the peers *)

(* An error waiting on the socket makes it readable too. *)
PollSocket ==
  /\ dgram_w.pending = {}
  /\ \E ready \in SUBSET Dirs :
       /\ "TX" \in ready <=> unsent < SendRoom
       /\ arrived # << >> => "RX" \in ready
       /\ ready \cap dgram_w.active # {}
       /\ dgram_w' = Feed(dgram_w, ready)
  /\ UNCHANGED <<from_len, life, unsent, arrived, arrivals, told, refused>>

KernelSends ==
  /\ life # "closed" /\ unsent > 0
  /\ unsent' = unsent - 1
  /\ UNCHANGED <<dgram_w, from_len, life, arrived, arrivals, told, refused>>

Arrives ==
  /\ life # "closed" /\ arrivals < MaxArrivals
  /\ \E len \in {0, 1} : arrived' = Append(arrived, len)
  /\ arrivals' = arrivals + 1
  /\ UNCHANGED <<dgram_w, from_len, life, unsent, told, refused>>

UdpNext ==
  \/ Ipv4Init \/ UnixDomainInit \/ StartSocket \/ StopSocket \/ Deinit \/ \E len \in {0, 1} : Send(len)
  \/ DgramCallback \/ PollSocket \/ KernelSends \/ Arrives

(* ev_run polls and delivers what it fed; the network takes what was sent. *)
UdpFairness ==
  /\ WF_udpVars(PollSocket)
  /\ WF_udpVars(DgramCallback)
  /\ WF_udpVars(KernelSends)

-----------------------------------------------------------------------------
(* Properties *)

(* Once it is stopped the socket calls nobody back, also when events were    *)
(* pending: the user may free it (udp_socket.c 76-92).                       *)
StoppedIsSilent == life # "started" => dgram_w.active = {} /\ dgram_w.pending = {}

(* A sender that was refused hears of room, and a datagram that has arrived  *)
(* is read, unless the socket is stopped (udp_socket.c 41-49, 103-113).      *)
RefusedHearsOfRoom == refused /\ life = "started" ~> ~refused \/ life # "started"
ArrivedIsRead == arrived # << >> /\ life = "started" ~> arrived = << >> \/ life # "started"
=============================================================================
