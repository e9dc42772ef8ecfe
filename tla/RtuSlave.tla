------------------------------ MODULE RtuSlave ------------------------------
(***************************************************************************)
(* protocols/modbus/modbus_rtu_slave.c: a Modbus slave on a serial line.   *)
(* Nothing in the bytes tells where a frame ends; the slave takes for a    *)
(* frame what it has read when no read has come for T35, a timer of its    *)
(* loop that every read restarts.  So a frame is cut right only if the     *)
(* loop keeps up with the line.  The model lets it be as late as it likes  *)
(* and remembers which frames that may have harmed.                        *)
(*                                                                         *)
(* A byte of the line is <<frame, position>>.  The CRC fits the bytes of   *)
(* one whole frame that was sent with a CRC that fits, and no others.      *)
(* stream_write is as in module ModbusTcpSlave.                            *)
(***************************************************************************)
EXTENDS Integers, Sequences, SequencesExt

CONSTANTS
  OwnLens,    (* the lengths of the frames on the line: for this slave,     *)
  AllLens,    (*   for every slave,                                         *)
  OtherLens,  (*   for another,                                             *)
  BrokenLens, (*   and for this slave with a CRC that does not fit          *)
  MyAddress, OtherAddress,
  SizeMin,    (* MB_SER_RTU_PDU_SIZE_MIN, in the code 4                     *)
  SizeMax,    (* MB_SER_RTU_PDU_SIZE_MAX, in the code 256                   *)
  Chunk,      (* the size of rx_bounce_buf, in the code 128                 *)
  MaxFrames   (* bound: frames on the line                                  *)

Broadcast == 0

ASSUME SizesAssumption == Chunk \in Nat /\ SizeMin \in Nat /\ SizeMax \in Nat /\ Chunk < SizeMax
ASSUME LensAssumption == OwnLens \cup AllLens \cup OtherLens \cup BrokenLens \subseteq Nat \ {0}
ASSUME AddressAssumption == Broadcast \notin {MyAddress, OtherAddress} /\ MyAddress # OtherAddress

(* The frames on the line. *)
Kinds ==
  [len : OwnLens, addr : {MyAddress}, intact : {TRUE}]
    \cup [len : AllLens, addr : {Broadcast}, intact : {TRUE}]
    \cup [len : OtherLens, addr : {OtherAddress}, intact : {TRUE}]
    \cup [len : BrokenLens, addr : {MyAddress}, intact : {FALSE}]

VARIABLES
  running,      (* the stream is started                                    *)
  data_buffer,  (* slave.data_buffer up to data_ndx                         *)
  t35,          (* "off", "running" or "due" (its callback is queued)       *)
  stuck,        (* the tx_buf of the stream holds bytes                     *)
  line,         (* history: the frames sent, the last one perhaps in part   *)
  pos,          (* how many bytes of the last frame were sent               *)
  unread,       (* bytes received by the port and not read                  *)
  harmed,       (* history: numbers of frames the loop was late for         *)
  served,       (* history: numbers of the frames handed to the handlers    *)
  answered      (* history: numbers of the frames whose response went out   *)

slaveVars == <<data_buffer, t35, stuck>>
lineVars == <<line, pos, unread>>
history == <<harmed, served, answered>>
rtuVars == <<running, slaveVars, lineVars, history>>

(* init_modbus_context, and a stream with nothing to send *)
ContextInit == data_buffer = << >> /\ t35 = "off" /\ stuck = FALSE

(* modbus_rtu_slave_init *)
RtuInit ==
  /\ running = FALSE
  /\ ContextInit
  /\ line = << >> /\ pos = 0 /\ unread = << >>
  /\ harmed = {} /\ served = << >> /\ answered = << >>

-----------------------------------------------------------------------------
(* The line *)

Current == Len(line)
Complete == line # << >> => pos = line[Current].len
Bytes(f) == [i \in 1 .. line[f].len |-> <<f, i>>]

(* The slave is done with what was sent. *)
Settled == unread = << >> /\ t35 = "off"

(* A master begins a frame, after silence.  It has waited for the response,  *)
(* or given up: then the slave may still be busy with the last frame.        *)
FrameBegins ==
  /\ Complete
  /\ Current < MaxFrames
  /\ \E k \in Kinds : line' = Append(line, k)
  /\ pos' = 1
  /\ unread' = Append(unread, <<Current + 1, 1>>)
  /\ harmed' = IF Settled /\ running THEN harmed ELSE harmed \cup {Current, Current + 1}
  /\ UNCHANGED <<running, slaveVars, served, answered>>

FrameGoesOn ==
  /\ ~Complete
  /\ pos' = pos + 1
  /\ unread' = Append(unread, <<Current, pos + 1>>)
  /\ UNCHANGED <<running, slaveVars, line, history>>

(* T35 passes without a read: the line is silent, or the loop is late.       *)
Silence ==
  /\ t35 = "running"
  /\ t35' = "due"
  /\ harmed' = IF Complete /\ unread = << >> THEN harmed ELSE harmed \cup {Current}
  /\ UNCHANGED <<running, data_buffer, stuck, lineVars, served, answered>>

-----------------------------------------------------------------------------
(* modbus_rtu_rx *)

(* What does not fit takes the place of what was there. *)
Store(read) ==
  data_buffer' = IF Len(data_buffer) + Len(read) >= SizeMax
                 THEN read
                 ELSE data_buffer \o read

(* Of the callbacks queued in one round of the loop, libev runs the timers'  *)
(* first.                                                                    *)
Rx ==
  /\ running
  /\ t35 # "due"
  /\ unread # << >>
  /\ LET n == IF Len(unread) < Chunk THEN Len(unread) ELSE Chunk IN
       /\ Store(SubSeq(unread, 1, n))
       /\ unread' = SubSeq(unread, n + 1, Len(unread))
  /\ t35' = "running"
  /\ UNCHANGED <<running, stuck, line, pos, history>>

-----------------------------------------------------------------------------
(* t35_timeout_handler *)

(* modbus_calc_crc gives 0 *)
CrcFits(buffer) ==
  \E f \in 1 .. Current : line[f].intact /\ buffer = Bytes(f)

(* mb_rtu_enable_rx *)
EnableRx == data_buffer' = << >>

(* mutant: a short frame is left in the buffer *)
DropKeepsShort ==
  /\ Len(data_buffer) < SizeMin \/ ~CrcFits(data_buffer)
  /\ IF Len(data_buffer) < SizeMin THEN UNCHANGED data_buffer ELSE EnableRx
  /\ UNCHANGED <<stuck, served, answered>>

(* An empty buffer, a short frame or a wrong CRC. *)
Drop ==
  /\ Len(data_buffer) < SizeMin \/ ~CrcFits(data_buffer)
  /\ EnableRx
  /\ UNCHANGED <<stuck, served, answered>>

(* The response is written, if the stream takes it. *)
Respond(f) ==
  \/ ~stuck /\ answered' = Append(answered, f) /\ UNCHANGED stuck
  \/ stuck' = TRUE /\ UNCHANGED answered

Answered(addr) == addr = MyAddress

(* mb_rtu_handle_rx_frame: a broadcast is handled without an answer, and a   *)
(* frame for another slave is only snooped.                                  *)
HandleFrame ==
  /\ Len(data_buffer) >= SizeMin
  /\ CrcFits(data_buffer)
  /\ LET f == Head(data_buffer)[1]
         addr == line[f].addr
     IN  /\ served' = IF addr \in {MyAddress, Broadcast} THEN Append(served, f) ELSE served
         /\ IF Answered(addr) THEN Respond(f) ELSE UNCHANGED <<stuck, answered>>
  /\ EnableRx

(* mb_rtu_start_handling_rx_frame *)
StartHandling == Drop \/ HandleFrame

Timeout ==
  /\ t35 = "due"
  /\ t35' = "off"
  /\ StartHandling
  /\ UNCHANGED <<running, lineVars, harmed>>

-----------------------------------------------------------------------------
(* modbus_rtu_slave_start, _stop: the timer goes on after a stop. *)

Start ==
  /\ ~running
  /\ running' = TRUE
  /\ harmed' = IF Complete /\ Settled THEN harmed ELSE harmed \cup {Current}
  /\ UNCHANGED <<slaveVars, lineVars, served, answered>>

(* mutant: the timer is stopped too *)
TimerStops == t35' = "off"

TimerGoesOn == UNCHANGED t35

Stop ==
  /\ running
  /\ running' = FALSE
  /\ TimerGoesOn
  /\ harmed' = IF Complete /\ Settled THEN harmed ELSE harmed \cup {Current}
  /\ UNCHANGED <<data_buffer, stuck, lineVars, served, answered>>

RtuNext == FrameBegins \/ FrameGoesOn \/ Silence \/ Rx \/ Timeout \/ Start \/ Stop

Fairness == WF_rtuVars(Silence) /\ WF_rtuVars(Timeout)

RtuSpec == RtuInit /\ [][RtuNext]_rtuVars /\ Fairness

-----------------------------------------------------------------------------
(* Properties *)

ForMe(f) == line[f].intact /\ line[f].addr \in {MyAddress, Broadcast}
            /\ line[f].len \in SizeMin .. (SizeMax - 1)

(* A proper frame that the loop was in time for is served as soon as the     *)
(* silence after it is noticed, whatever was on the line before: short and   *)
(* long frames, broken ones, ones cut in two by a late loop.  No path leaves *)
(* something in the buffer for the next frame (lines 189-224, 272-282).  It  *)
(* is answered if it is for this slave alone, as long as the stream can.     *)
TimelyFramesServed ==
  [][Timeout /\ Current > 0 /\ Complete /\ Current \notin harmed /\ ForMe(Current) =>
       /\ served' = Append(served, Current)
       /\ ~stuck' => answered' = IF line[Current].addr = MyAddress
                                 THEN Append(answered, Current)
                                 ELSE answered]_rtuVars

(* Once the line is silent the buffer is emptied, also when the slave is     *)
(* stopped in the middle of a frame: it does not wait with the beginning of  *)
(* an old frame for the next start (lines 121-129, 282, 324-328).            *)
NeverDeaf == data_buffer # << >> ~> data_buffer = << >>
=============================================================================
