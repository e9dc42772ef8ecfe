--------------------------- MODULE ModbusTcpSlave ---------------------------
(***************************************************************************)
(* protocols/modbus/modbus_tcp_slave.c on net/tcp_server.c and             *)
(* tcp_server_ipv4.c: a Modbus slave that serves several masters, each on  *)
(* a TCP connection with a stream and an MBAP reader of its own, all on    *)
(* one loop.  The server may be stopped and started again.                 *)
(*                                                                         *)
(* stream_write is what module Stream shows of it: once the socket has not *)
(* taken a whole response, the bytes left over are never sent, nor is any  *)
(* later response.  What a request does to the slave is the matter of      *)
(* module ModbusHandlers; a response is known here by its transaction id.  *)
(***************************************************************************)
EXTENDS Integers, Sequences, SequencesExt

(***************************************************************************)
(* mbap_reader.c: cuts the bytes of a TCP connection into Modbus frames.   *)
(* The header of a frame is its transaction id, length and unit id, one    *)
(* number each here; length counts the unit id and the PDU.  frame stands  *)
(* for the buffer up to ndx, header_remaining is HeaderSize - ndx.         *)
(***************************************************************************)

CONSTANT SizeMax   (* MB_TCP_PDU_SIZE_MAX, in the code 260 *)

HeaderSize == 3

ASSUME SizeMaxAssumption == SizeMax \in Nat /\ SizeMax > HeaderSize

Tid(frame) == frame[1]
Length(frame) == frame[2]
Uid(frame) == frame[3]

(* mbap_reader_reset *)
ReaderStart == [state |-> "header", frame |-> << >>, data_remaining |-> 0]

Silent(r) == [reader |-> r, got |-> << >>]

(* mutant: the unit id is not taken into account *)
ReadHeaderLong(r, b) ==
  LET frame == Append(r.frame, b) IN
  Silent(IF Len(frame) < HeaderSize
         THEN [r EXCEPT !.frame = frame]
         ELSE [state |-> "pdu", frame |-> frame, data_remaining |-> Length(frame)])

ReadHeader(r, b) ==
  LET frame == Append(r.frame, b) IN
  Silent(IF Len(frame) < HeaderSize
         THEN [r EXCEPT !.frame = frame]
         ELSE [state |-> "pdu", frame |-> frame, data_remaining |-> Length(frame) - 1])

(* mutant: the reader is not reset after a frame *)
ReadPduUnreset(r, b) ==
  LET frame == Append(r.frame, b) IN
  IF Len(r.frame) >= SizeMax THEN Silent(ReaderStart)
  ELSE IF r.data_remaining = 1
  THEN [reader |-> [ReaderStart EXCEPT !.frame = << Tid(frame) >>], got |-> << frame >>]
  ELSE Silent([r EXCEPT !.frame = frame, !.data_remaining = @ - 1])

(* A byte that finds the buffer full is dropped with what is in the buffer.  *)
(* With a length of 0 or 1, data_remaining is never 0 after the decrement.   *)
ReadPdu(r, b) ==
  LET frame == Append(r.frame, b) IN
  IF Len(r.frame) >= SizeMax THEN Silent(ReaderStart)
  ELSE IF r.data_remaining = 1 THEN [reader |-> ReaderStart, got |-> << frame >>]
  ELSE Silent([r EXCEPT !.frame = frame, !.data_remaining = @ - 1])

(* mbap_state_machine *)
Read(r, b) == IF r.state = "header" THEN ReadHeader(r, b) ELSE ReadPdu(r, b)

(* mbap_reader_feed: the reader afterwards, and the frames its callback got. *)
FeedAll(r, fed) ==
  FoldLeft(LAMBDA acc, b :
             LET s == Read(acc.reader, b)
             IN  [reader |-> s.reader, got |-> acc.got \o s.got],
           Silent(r), fed)

-----------------------------------------------------------------------------

CONSTANTS
  Conns,       (* the connections masters make                              *)
  Shapes,      (* per connection, what its master sends: records            *)
               (* [length, uid, pdu] (pdu a sequence of bytes)              *)
  MyAddress,   (* slave.my_address                                          *)
  Room,        (* responses a socket takes while its master does not read   *)
  MaxReq       (* bound: requests per connection                            *)

Broadcast == 0

ShapeType == [length : Nat, uid : Nat, pdu : Seq(Nat)]

ASSUME ShapesAssumption == Shapes \in [Conns -> SUBSET ShapeType]
ASSUME MyAddressAssumption == MyAddress \in Nat \ {Broadcast}
ASSUME BoundsAssumption == Room \in Nat /\ MaxReq \in [Conns -> Nat]

VARIABLES
  is_listening,  (* server.is_listening                                     *)
  conn_state,    (* per connection "none", "pending" (in the backlog),      *)
                 (* "open" (accepted), "closed"                             *)
  connections,   (* slave.connections                                       *)
  reader,        (* the MBAP reader of each connection                      *)
  stuck,         (* the tx_buf of the stream holds bytes                    *)
  bytes,         (* sent by the master and not yet read                     *)
  ended,         (* the master's end: "no", "eof" or "err"                  *)
  sent,          (* history: the shapes a master has sent                   *)
  got,           (* history: the frames of a connection, in order           *)
  out            (* history: transaction ids of the responses that went out *)

slaveVars == <<is_listening, conn_state, connections, reader, stuck>>
masterVars == <<bytes, ended, sent>>
allVars == <<slaveVars, masterVars, got, out>>

(* modbus_tcp_slave_init *)
SlaveInit ==
  /\ is_listening = FALSE
  /\ conn_state = [c \in Conns |-> "none"]
  /\ connections = << >>
  /\ reader = [c \in Conns |-> ReaderStart]
  /\ stuck = [c \in Conns |-> FALSE]
  /\ bytes = [c \in Conns |-> << >>]
  /\ ended = [c \in Conns |-> "no"]
  /\ sent = [c \in Conns |-> << >>]
  /\ got = [c \in Conns |-> << >>]
  /\ out = [c \in Conns |-> << >>]

-----------------------------------------------------------------------------
(* The masters and their sockets *)

(* The listening socket exists from init on, started or not. *)
MasterConnects(c) ==
  /\ conn_state[c] = "none"
  /\ conn_state' = [conn_state EXCEPT ![c] = "pending"]
  /\ UNCHANGED <<is_listening, connections, reader, stuck, masterVars, got, out>>

Frame(tid, shape) == <<tid, shape.length, shape.uid>> \o shape.pdu

MasterSends(c) ==
  /\ conn_state[c] \in {"pending", "open"}
  /\ ended[c] = "no"
  /\ Len(sent[c]) < MaxReq[c]
  /\ \E shape \in Shapes[c] :
       /\ sent' = [sent EXCEPT ![c] = Append(@, shape)]
       /\ bytes' = [bytes EXCEPT ![c] = @ \o Frame(Len(sent'[c]), shape)]
  /\ UNCHANGED <<slaveVars, ended, got, out>>

(* The master closes, or resets the connection and so takes back its bytes. *)
MasterEnds(c) ==
  /\ conn_state[c] \in {"pending", "open"}
  /\ ended[c] = "no"
  /\ \E how \in {"eof", "err"} :
       /\ ended' = [ended EXCEPT ![c] = how]
       /\ bytes' = IF how = "err" THEN [bytes EXCEPT ![c] = << >>] ELSE bytes
  /\ UNCHANGED <<slaveVars, sent, got, out>>

-----------------------------------------------------------------------------
(* The server and its watcher *)

ServerStart == is_listening' = TRUE
ServerStop == is_listening' = FALSE

(* tcp_server_ipv4_rx_event: accept() takes c from the backlog.  When it     *)
(* fails nothing happens, and the event comes again.                         *)
NewConnection(c) == is_listening /\ conn_state[c] = "pending"

(* modbus_tcp_slave_start *)
Start ==
  /\ ServerStart
  /\ UNCHANGED <<conn_state, connections, reader, stuck, masterVars, got, out>>

(* modbus_tcp_slave_alloc_conn *)
Accept(c) ==
  /\ NewConnection(c)
  /\ conn_state' = [conn_state EXCEPT ![c] = "open"]
  /\ connections' = Append(connections, c)
  /\ reader' = [reader EXCEPT ![c] = ReaderStart]
  /\ stuck' = [stuck EXCEPT ![c] = FALSE]
  /\ UNCHANGED <<is_listening, masterVars, got, out>>

(* malloc fails and the new descriptor is closed. *)
AllocFails(c) ==
  /\ NewConnection(c)
  /\ conn_state' = [conn_state EXCEPT ![c] = "closed"]
  /\ UNCHANGED <<is_listening, connections, reader, stuck, masterVars, got, out>>

-----------------------------------------------------------------------------
(* modbus_tcp_slave_handle_rx_frame *)

(* A frame to the broadcast address is handled too, without an answer. *)
Answered(frame) == Uid(frame) = MyAddress

Responses(frames) ==
  FoldLeft(LAMBDA tids, f : IF Answered(f) THEN Append(tids, Tid(f)) ELSE tids, << >>, frames)

(* mutant: a response after one that was cut short is sent all the same *)
TransmitOn(c, responses, n) ==
  /\ out' = [out EXCEPT ![c] = @ \o SubSeq(responses, 1, n)]
  /\ stuck' = [stuck EXCEPT ![c] = @ \/ n < Len(responses)]

(* stream_write of responses one by one, when the socket takes n more. *)
Transmit(c, responses, n) ==
  LET taken == IF stuck[c] THEN 0 ELSE n IN
  /\ out' = [out EXCEPT ![c] = @ \o SubSeq(responses, 1, taken)]
  /\ stuck' = [stuck EXCEPT ![c] = @ \/ taken < Len(responses)]

(* How many whole responses of a number the socket takes: all, if it has room. *)
Takes(number) == {number} \cup Room .. number

(* The rx event: read() returns some of the bytes, and they are fed. *)
Rx(c) ==
  /\ conn_state[c] = "open"
  /\ \E n \in DOMAIN bytes[c] :
       LET fed == FeedAll(reader[c], SubSeq(bytes[c], 1, n))
           responses == Responses(fed.got)
       IN  /\ bytes' = [bytes EXCEPT ![c] = SubSeq(@, n + 1, Len(@))]
           /\ reader' = [reader EXCEPT ![c] = fed.reader]
           /\ got' = [got EXCEPT ![c] = @ \o fed.got]
           /\ \E k \in Takes(Len(responses)) : Transmit(c, responses, k)
  /\ UNCHANGED <<is_listening, conn_state, connections, ended, sent>>

-----------------------------------------------------------------------------
(* The end of connections *)

(* modbus_tcp_slave_dealloc_conn, of each connection of cs *)
Dealloc(cs) ==
  /\ conn_state' = [c \in Conns |-> IF c \in cs THEN "closed" ELSE conn_state[c]]
  /\ connections' = SelectSeq(connections, LAMBDA c : c \notin cs)

(* read() returns 0 or -1, or the watcher reports an error. *)
End(c) ==
  /\ conn_state[c] = "open"
  /\ bytes[c] = << >>
  /\ ended[c] # "no"
  /\ Dealloc({c})
  /\ UNCHANGED <<is_listening, reader, stuck, masterVars, got, out>>

(* modbus_tcp_slave_stop *)
Stop ==
  /\ ServerStop
  /\ Dealloc(Range(connections))
  /\ UNCHANGED <<reader, stuck, masterVars, got, out>>

SlaveNext ==
  \/ Start \/ Stop
  \/ \E c \in Conns :
       \/ MasterConnects(c) \/ MasterSends(c) \/ MasterEnds(c)
       \/ Accept(c) \/ AllocFails(c) \/ Rx(c) \/ End(c)

(* The loop serves every descriptor that is ready, again and again. *)
Fairness == \A c \in Conns : WF_allVars(Accept(c) \/ AllocFails(c) \/ Rx(c) \/ End(c))

SlaveSpec == SlaveInit /\ [][SlaveNext]_allVars /\ Fairness

-----------------------------------------------------------------------------
(* Properties *)

(* A master that keeps the rules of MBAP. *)
Proper(shape) == shape.length = Len(shape.pdu) + 1 /\ Len(shape.pdu) \in 1 .. (SizeMax - HeaderSize)
WellBehaved(c) == \A shape \in Range(sent[c]) : Proper(shape)

Frames(c) == [i \in DOMAIN sent[c] |-> Frame(i, sent[c][i])]

(* The bytes of frames, one behind the other. *)
Glued(frames) == FoldLeft(LAMBDA line, f : line \o f, << >>, frames)

(* However the bytes of a connection are cut by read(), whatever the other   *)
(* connections do, what a well-behaved master sent is what the slave has     *)
(* taken for frames, what its reader holds and what is unread, in this order *)
(* (mbap_reader.c 4-49).                                                     *)
NothingLost ==
  \A c \in Conns : conn_state[c] = "open" /\ WellBehaved(c) /\ ended[c] # "err" =>
    Glued(Frames(c)) = Glued(got[c]) \o reader[c].frame \o bytes[c]

(* The transaction ids of the requests to this slave alone. *)
Asked(c) ==
  FoldLeft(LAMBDA tids, i : IF sent[c][i].uid = MyAddress THEN Append(tids, i) ELSE tids,
           << >>, [i \in DOMAIN sent[c] |-> i])

(* A master gets the responses to its own requests, each once, in the order  *)
(* of the requests and with their transaction ids, and none to a broadcast   *)
(* or a request to somebody else; as long as the stream took all responses,  *)
(* none is missing (modbus_tcp_slave.c 46-92).                               *)
AnswersInOrder ==
  \A c \in Conns :
    /\ WellBehaved(c) => IsPrefix(out[c], Asked(c))
    /\ ~stuck[c] => out[c] = Responses(got[c])

(* What a well-behaved master sent on a connection that lasts is seen to in  *)
(* the end, unless the slave is stopped.                                     *)
EventuallySeen ==
  \A c \in Conns :
    (WellBehaved(c) /\ Len(got[c]) < Len(sent[c])) ~>
      (Len(got[c]) = Len(sent[c]) \/ ~WellBehaved(c) \/ ~is_listening
         \/ conn_state[c] = "closed" \/ ended[c] = "err")
=============================================================================
