-------------------------- MODULE ModbusTcpMaster --------------------------
(***************************************************************************)
(* protocols/modbus/modbus_tcp_master.c with its MBAP reader: requests to  *)
(* one Modbus slave over a TCP connection that the auto connector of       *)
(* module AutoConnector makes and remakes.  A request is written without   *)
(* waiting for the answer to the one before; the transaction id tells an   *)
(* answer to the last request from a late one.  The frame reader is fed    *)
(* what one read() returned, a frame's callback may send the next request  *)
(* and so lose the connection, and the feeding goes on afterwards.         *)
(*                                                                         *)
(* stream_write is what module Stream shows of it when the buffer is       *)
(* empty: true when the socket took the whole frame, false otherwise, also *)
(* when the rest was queued.  A frame is two halves, header and PDU.       *)
(***************************************************************************)
EXTENDS Naturals, Sequences, FiniteSets

CONSTANTS
  Fds, NoFd, Unset,   (* as in AutoConnector                               *)
  TidMod,             (* how many transaction ids there are, 2^16          *)
  MaxReq              (* bound: requests in all                            *)

ASSUME FdsAssumption == {NoFd, Unset} \cap Fds = {} /\ NoFd # Unset
ASSUME TidModAssumption == TidMod \in Nat \ {0}
ASSUME MaxReqAssumption == MaxReq \in Nat

VARIABLES
  state, c, rtmr, open, held, calling,   (* the auto connector; held is the *)
                                         (* descriptor of the open stream   *)
  tcp_state,   (* master.tcp_state                                          *)
  tid,         (* master.tid, the transaction id of the next request        *)
  cur,         (* history: number of the request ctx.req_* describes        *)
  asked,       (* requests on the connection the slave has not seen to      *)
  bytes,       (* half frames of answers in the connection                  *)
  chunk,       (* what the last read() returned and was not fed yet         *)
  part,        (* the halves the MBAP reader holds                          *)
  answering    (* number of the request whose answer callback runs, or 0    *)

connVars == <<state, c, rtmr, open, held, calling>>
wireVars == <<asked, bytes>>
readVars == <<chunk, part, answering>>
vars == <<connVars, tcp_state, tid, cur, wireVars, readVars>>

Connector == INSTANCE AutoConnector

(* modbus_tcp_master_init *)
Init ==
  /\ Connector!Init
  /\ tcp_state = "Not_Connected"
  /\ tid = 0
  /\ cur = 0
  /\ asked = << >> /\ bytes = << >>
  /\ chunk = << >> /\ part = << >>
  /\ answering = 0

(* The thread is in the loop: nothing is being fed or called back. *)
Idle == chunk = << >> /\ answering = 0 /\ calling = "none"

(* User code runs: a timer callback of the loop, or an answer callback. *)
UserCode == calling = "none" /\ (Idle \/ answering # 0)

-----------------------------------------------------------------------------
(* modbus_tcp_master_tcp_connector_callback, called when a step of the       *)
(* connector hands over a descriptor: stream and reader are initialised.     *)

Connected == held' # {} /\ held' # held

ConnectorCallback ==
  IF Connected
  THEN tcp_state' = "Connected" /\ part' = << >>
  ELSE UNCHANGED <<tcp_state, part>>

(* The callbacks of the connector on the loop. *)
ConnectorStep ==
  /\ (chunk = << >> /\ answering = 0) \/ calling # "none"
  /\ Connector!LoopStep \/ Connector!LoopPoll
  /\ ConnectorCallback
  /\ UNCHANGED <<tid, cur, wireVars, chunk, answering>>

(* modbus_tcp_master_start *)
MasterStart ==
  /\ UserCode
  /\ tcp_state = "Not_Connected"
  /\ Connector!Connect(rtmr, open, held)
  /\ tcp_state' = IF Connected THEN "Connected" ELSE "Connecting"
  /\ part' = IF Connected THEN << >> ELSE part
  /\ UNCHANGED <<tid, cur, wireVars, chunk, answering>>

(* modbus_tcp_master_start_reconnect: the stream is closed, reader and auto  *)
(* connector are initialised anew and a first attempt is made at once.       *)
StartReconnect ==
  /\ Connector!Connect("off", open \ held, {})
  /\ tcp_state' = IF held' # {} THEN "Connected" ELSE "Connecting"
  /\ part' = << >> /\ asked' = << >> /\ bytes' = << >>

(* mutant: the connector is not stopped *)
MasterStopUnstopped ==
  /\ UserCode
  /\ tcp_state # "Not_Connected"
  /\ tcp_state' = "Not_Connected"
  /\ held' = {} /\ open' = open \ held
  /\ UNCHANGED <<state, c, rtmr, calling>>
  /\ asked' = << >> /\ bytes' = << >>
  /\ UNCHANGED <<tid, cur, readVars>>

(* modbus_tcp_master_stop, which leaves the reader as it is. *)
MasterStop ==
  /\ UserCode
  /\ \/ tcp_state = "Connecting" /\ Connector!UserStop
     \/ /\ tcp_state = "Connected"
        /\ held' = {} /\ open' = open \ held
        /\ UNCHANGED <<state, c, rtmr, calling>>
  /\ tcp_state' = "Not_Connected"
  /\ asked' = << >> /\ bytes' = << >>
  /\ UNCHANGED <<tid, cur, readVars>>

-----------------------------------------------------------------------------
(* modbus_tcp_master_request.  mb_master_..._req has filled ctx.req_* before *)
(* it is known whether the request can be sent.                              *)

Halves(s) == {s[i].tid : i \in DOMAIN s}

(* 2^16 requests later an id is used again; no answer is that late. *)
TidIsFree == tid \notin Halves(asked) \cup Halves(bytes) \cup Halves(chunk) \cup Halves(part)

Ask ==
  /\ UserCode
  /\ cur < MaxReq
  /\ cur' = cur + 1

RequestNotConnected ==
  /\ Ask
  /\ tcp_state # "Connected"
  /\ UNCHANGED <<connVars, tcp_state, tid, wireVars, readVars>>

RequestSent ==
  /\ Ask
  /\ tcp_state = "Connected"
  /\ TidIsFree
  /\ asked' = Append(asked, [req |-> cur + 1, tid |-> tid])
  /\ tid' = (tid + 1) % TidMod
  /\ UNCHANGED <<connVars, tcp_state, bytes, readVars>>

(* stream_write returns false; master.tid++ follows the reconnect. *)
RequestFails ==
  /\ Ask
  /\ tcp_state = "Connected"
  /\ StartReconnect
  /\ tid' = (tid + 1) % TidMod
  /\ UNCHANGED <<chunk, answering>>

-----------------------------------------------------------------------------
(* modbus_tcp_master_stream_callback and the reader *)

(* EOF or an error of the stream *)
StreamEnd ==
  /\ Idle
  /\ tcp_state = "Connected"
  /\ StartReconnect
  /\ UNCHANGED <<tid, cur, chunk, answering>>

(* read() returns some of what has arrived. *)
StreamRx ==
  /\ Idle
  /\ tcp_state = "Connected"
  /\ \E n \in DOMAIN bytes :
       /\ chunk' = SubSeq(bytes, 1, n)
       /\ bytes' = SubSeq(bytes, n + 1, Len(bytes))
  /\ UNCHANGED <<connVars, tcp_state, tid, cur, asked, part, answering>>

Feeding == chunk # << >> /\ answering = 0 /\ calling = "none"

FeedHeader ==
  /\ Feeding
  /\ part = << >>
  /\ part' = << Head(chunk) >>
  /\ chunk' = Tail(chunk)
  /\ UNCHANGED <<connVars, tcp_state, tid, cur, wireVars, answering>>

(* mutant: the transaction id of the answer is not looked at *)
AcceptedAny(frame) == TRUE

(* modbus_tcp_master_got_frame: (master->tid - 1) is an int, -1 when tid is 0. *)
Accepted(frame) == tid > 0 /\ frame.tid = tid - 1

(* The frame is complete and accepted: the answer callback is called. *)
FeedAnswer ==
  /\ Feeding
  /\ part # << >>
  /\ Accepted(Head(part))
  /\ answering' = Head(part).req
  /\ part' = Append(part, Head(chunk))
  /\ chunk' = Tail(chunk)
  /\ UNCHANGED <<connVars, tcp_state, tid, cur, wireVars>>

(* "TID Mismatch": the frame is dropped. *)
FeedMismatch ==
  /\ Feeding
  /\ part # << >>
  /\ ~Accepted(Head(part))
  /\ part' = << >>
  /\ chunk' = Tail(chunk)
  /\ UNCHANGED <<connVars, tcp_state, tid, cur, wireVars, answering>>

(* The callback returns and the reader is reset. *)
AnswerReturn ==
  /\ answering # 0
  /\ calling = "none"
  /\ answering' = 0
  /\ part' = << >>
  /\ UNCHANGED <<connVars, tcp_state, tid, cur, wireVars, chunk>>

-----------------------------------------------------------------------------
(* The slave answers in order, or not at all. *)
SlaveAnswers ==
  /\ asked # << >>
  /\ bytes' = bytes \o << Head(asked), Head(asked) >>
  /\ asked' = Tail(asked)
  /\ UNCHANGED <<connVars, tcp_state, tid, cur, readVars>>

SlaveIgnores ==
  /\ asked # << >>
  /\ asked' = Tail(asked)
  /\ UNCHANGED <<connVars, tcp_state, tid, cur, bytes, readVars>>

Next ==
  \/ ConnectorStep \/ MasterStart \/ MasterStop
  \/ RequestNotConnected \/ RequestSent \/ RequestFails
  \/ StreamEnd \/ StreamRx \/ FeedHeader \/ FeedAnswer \/ FeedMismatch \/ AnswerReturn
  \/ SlaveAnswers \/ SlaveIgnores

Spec == Init /\ [][Next]_vars

-----------------------------------------------------------------------------
(* Properties *)

(* The master's state tells who is at work: the stream when connected, the    *)
(* connector when connecting, nobody otherwise.  Two sockets to the slave are *)
(* never open at once.                                                        *)
OneOwner ==
  /\ tcp_state = "Connected" <=> held # {}
  /\ tcp_state = "Connecting" <=> state # "not_started"
  /\ Cardinality(open) <= 1

(* The answer callback is called with the answer to the request ctx.req_*     *)
(* describes, although requests are sent without waiting, late answers come   *)
(* in, and a request that is not sent overwrites ctx.req_* all the same: the  *)
(* callback gets ctx.req_reg_addr as the address of the data it is given.     *)
AnswersLatest ==
  [][answering' # 0 /\ answering' # answering => answering' = cur]_vars
=============================================================================
