------------------------------- MODULE Stream -------------------------------
(***************************************************************************)
(* stream/stream.c: a non-blocking byte stream (a TCP connection or a      *)
(* serial line) on one task's loop.  stream_write writes to the socket and *)
(* queues in the circular buffer what the socket did not take; the write   *)
(* event of the loop drains the buffer.  Everything here runs on one       *)
(* thread; what interleaves is the callbacks of the loop, the user's calls *)
(* from them, the kernel's socket buffer and the peer.                     *)
(*                                                                         *)
(* The bytes written are 1, 2, 3, ..., so that a byte lost, repeated or    *)
(* out of place shows.  The user frees the stream on EOF and on error, as  *)
(* modbus_tcp_slave.c and cli_telnet.c do.                                 *)
(***************************************************************************)
EXTENDS CircBuffer, Watcher

CONSTANTS
  TxSize,     (* tx_buf_size: the size of the circular buffer               *)
  Chunk,      (* how much one write event peeks, 128 in the code            *)
  SockSize,   (* the capacity of the kernel's socket buffer                 *)
  MaxWrite,   (* bound: the longest write                                   *)
  MaxBytes,   (* bound: bytes written in all                                *)
  PeerResets  (* whether the peer may reset the connection                  *)

ASSUME SizesAssumption == {TxSize, Chunk, SockSize} \subseteq Nat \ {0}
ASSUME BoundsAssumption == {MaxWrite, MaxBytes} \subseteq Nat
ASSUME PeerResetsAssumption == PeerResets \in BOOLEAN

VARIABLES
  tx,         (* tx_buf                                                     *)
  w,          (* the watcher                                                *)
  life,       (* "open", "freed" (stream_deinit called), "crashed" (CRASH)  *)
  sock,       (* bytes in the kernel's socket buffer                        *)
  peer,       (* "up", "closed" (sent FIN) or "reset"                       *)
  received,   (* history: how many bytes the peer has read                  *)
  used,       (* history: how many bytes the user has passed to write       *)
  taken       (* history: the bytes stream_write put in the socket or queue *)

vars == <<tx, w, life, sock, peer, received, used, taken>>

Space == SockSize - Len(sock)

(* stream_init_with_fd, then stream_start: reading and errors are watched. *)
Init ==
  /\ tx = CBInit(TxSize, [i \in 0 .. (TxSize - 1) |-> 0])
  /\ w = Start(Watch(Watch(WatcherInit, "RX"), "ER"))
  /\ life = "open"
  /\ sock = << >>
  /\ peer = "up"
  /\ received = 0
  /\ used = 0
  /\ taken = << >>

(* What write(2) of n bytes can return: some of what fits, or an error.  A   *)
(* full socket gives EWOULDBLOCK, a reset connection another error.          *)
Error == -1
WouldBlock == -2
WriteResults(n) ==
  IF peer = "reset" THEN {Error}
  ELSE IF Space = 0 THEN {WouldBlock}
  ELSE 1 .. (IF n < Space THEN n ELSE Space)

-----------------------------------------------------------------------------
(* stream_write *)

(* Something is queued already: queue behind it, all or nothing. *)
WriteBehind(data) ==
  /\ ~IsEmpty(tx)
  /\ tx' = Put(tx, data)
  /\ taken' = IF Fits(tx, Len(data)) THEN taken \o data ELSE taken
  /\ UNCHANGED <<w, sock>>

(* The buffer is empty: write to the socket, then queue the rest.  Line 157   *)
(* compares circ_buffer_put's 0 or -1 with false: when the rest was queued    *)
(* it returns false at once, and only when it did not fit is writing watched. *)
WriteThrough(data) ==
  /\ IsEmpty(tx)
  /\ \E ret \in WriteResults(Len(data)) :
       IF ret = Error \/ ret = Len(data)
       THEN /\ sock' = IF ret = Error THEN sock ELSE sock \o data
            /\ taken' = IF ret = Error THEN taken ELSE taken \o data
            /\ UNCHANGED <<tx, w>>
       ELSE LET n == IF ret = WouldBlock THEN 0 ELSE ret
                rest == SubSeq(data, n + 1, Len(data))
            IN  /\ sock' = sock \o SubSeq(data, 1, n)
                /\ tx' = Put(tx, rest)
                /\ taken' = taken \o (IF Fits(tx, Len(rest)) THEN data ELSE SubSeq(data, 1, n))
                /\ w' = IF Fits(tx, Len(rest)) THEN w ELSE Watch(w, "TX")

StreamWrite ==
  /\ life = "open"
  /\ \E n \in 1 .. MaxWrite :
       LET data == [i \in 1 .. n |-> used + i] IN
       /\ used + n <= MaxBytes
       /\ used' = used + n
       /\ WriteBehind(data) \/ WriteThrough(data)
  /\ UNCHANGED <<life, peer, received>>

-----------------------------------------------------------------------------
(* The watcher's callbacks *)

Pending(d) == life = "open" /\ d \in w.pending

(* stream_handle_tx_event, nothing queued *)
TxNothing ==
  /\ Pending("TX")
  /\ IsEmpty(tx)
  /\ w' = NoWatch(Deliver(w, "TX"), "TX")
  /\ UNCHANGED <<tx, life, sock, peer, received, used, taken>>

TxLen == IF tx.data_size < Chunk THEN tx.data_size ELSE Chunk

(* mutant: the buffer is advanced by what was peeked, not by what was sent *)
TxSendAdvancesAll ==
  /\ Pending("TX")
  /\ ~IsEmpty(tx)
  /\ \E ret \in WriteResults(TxLen) :
       /\ ret > 0
       /\ sock' = sock \o SubSeq(Peeked(tx, TxLen), 1, ret)
       /\ tx' = Advance(tx, TxLen)
       /\ w' = LET v == Deliver(w, "TX") IN IF IsEmpty(tx') THEN NoWatch(v, "TX") ELSE v
  /\ UNCHANGED <<life, peer, received, used, taken>>

(* mutant: writing is no longer watched although bytes are left *)
TxSendStops ==
  /\ Pending("TX")
  /\ ~IsEmpty(tx)
  /\ \E ret \in WriteResults(TxLen) :
       /\ ret > 0
       /\ sock' = sock \o SubSeq(Peeked(tx, TxLen), 1, ret)
       /\ tx' = Advance(tx, ret)
       /\ w' = NoWatch(Deliver(w, "TX"), "TX")
  /\ UNCHANGED <<life, peer, received, used, taken>>

(* stream_handle_tx_event, the socket takes something *)
TxSend ==
  /\ Pending("TX")
  /\ ~IsEmpty(tx)
  /\ \E ret \in WriteResults(TxLen) :
       /\ ret > 0
       /\ sock' = sock \o SubSeq(Peeked(tx, TxLen), 1, ret)
       /\ tx' = Advance(tx, ret)
       /\ w' = LET v == Deliver(w, "TX") IN IF IsEmpty(tx') THEN NoWatch(v, "TX") ELSE v
  /\ UNCHANGED <<life, peer, received, used, taken>>

(* stream_handle_tx_event, write fails: CRASH *)
TxCrash ==
  /\ Pending("TX")
  /\ ~IsEmpty(tx)
  /\ \E ret \in WriteResults(TxLen) : ret <= 0
  /\ w' = NoWatch(Deliver(w, "TX"), "TX")
  /\ life' = "crashed"
  /\ UNCHANGED <<tx, sock, peer, received, used, taken>>

(* read() returns data: the user is called and may write (StreamWrite). *)
RxData ==
  /\ Pending("RX")
  /\ peer # "reset"
  /\ w' = Deliver(w, "RX")
  /\ UNCHANGED <<tx, life, sock, peer, received, used, taken>>

(* mutant: stream_deinit closes the descriptor without stopping the watcher *)
FreeUnstopped(v) ==
  /\ life' = "freed"
  /\ w' = v
  /\ UNCHANGED <<tx, sock, peer, received, used, taken>>

(* stream_deinit: the buffer is freed, the watcher stopped, the fd closed. *)
Free(v) ==
  /\ life' = "freed"
  /\ w' = Stop(v)
  /\ UNCHANGED <<tx, sock, peer, received, used, taken>>

(* read() returns 0 or an error, or the error watcher fires. *)
RxEnd ==
  /\ Pending("RX")
  /\ peer # "up"
  /\ Free(Deliver(w, "RX"))

ErrorEvent ==
  /\ Pending("ER")
  /\ Free(Deliver(w, "ER"))

(* The user stops the stream from somewhere else (modbus_tcp_slave_stop). *)
UserFree ==
  /\ life = "open"
  /\ Free(w)

-----------------------------------------------------------------------------
(* The loop, the kernel and the peer *)

(* epoll: writable while there is room, readable and writable after a reset. *)
Readiness ==
  {r \in SUBSET Dirs :
     /\ ("TX" \in r) <=> (Space > 0 \/ peer = "reset")
     /\ peer # "up" => "RX" \in r}

Poll ==
  /\ life = "open"
  /\ w.pending = {}
  /\ \E ready \in Readiness : w' = Feed(w, ready)
  /\ UNCHANGED <<tx, life, sock, peer, received, used, taken>>

PeerReads ==
  /\ sock # << >>
  /\ received' = received + Len(sock)
  /\ sock' = << >>
  /\ UNCHANGED <<tx, w, life, peer, used, taken>>

PeerCloses ==
  /\ peer = "up"
  /\ peer' = "closed"
  /\ UNCHANGED <<tx, w, life, sock, received, used, taken>>

PeerReset ==
  /\ PeerResets
  /\ peer # "reset"
  /\ peer' = "reset"
  /\ sock' = << >>
  /\ UNCHANGED <<tx, w, life, received, used, taken>>

Callback == TxNothing \/ TxSend \/ TxCrash \/ RxData \/ RxEnd \/ ErrorEvent

Next ==
  \/ StreamWrite \/ UserFree \/ Callback \/ Poll
  \/ PeerReads \/ PeerCloses \/ PeerReset

(* ev_run keeps polling and delivers every event it fed before it polls      *)
(* again; the peer keeps reading what has arrived.                           *)
Fairness ==
  /\ WF_vars(Poll)
  /\ WF_vars(Callback)
  /\ WF_vars(PeerReads)

Spec == Init /\ [][Next]_vars /\ Fairness

-----------------------------------------------------------------------------
(* Properties *)

(* What the peer has read, what is in the socket and what is queued are, in  *)
(* this order, the bytes stream_write took: nothing taken is lost, repeated  *)
(* or overtaken, through partial writes, the two ways bytes reach the socket *)
(* and the wrap of the buffer (stream.c 28-46, 127-166).                     *)
WireOrder ==
  peer # "reset" => taken = SubSeq(taken, 1, received) \o sock \o Contents(tx)

(* After stream_deinit no callback of the stream can run, although events    *)
(* for it were pending when another event's callback freed it: the user      *)
(* frees the memory right after (stream.c 107-113).                          *)
FreedIsSilent == life = "freed" => w.active = {} /\ w.pending = {}

(* While writing is watched, queued bytes are eventually sent, unless the    *)
(* stream is freed, crashes or is reset.                                     *)
WatchedQueueDrains ==
  (Watched(w, "TX") /\ ~IsEmpty(tx) /\ life = "open")
    ~> (IsEmpty(tx) \/ life # "open" \/ peer = "reset")

(* stream.c:135 on the branch that queues behind earlier bytes: "tx watcher  *)
(* is alreadt started in this case".  A buffer that holds bytes is being     *)
(* drained.                                                                  *)
QueuedIsWatched == life = "open" /\ ~IsEmpty(tx) => Watched(w, "TX")
=============================================================================
