--------------------------- MODULE ModbusExchange ---------------------------
(***************************************************************************)
(* A Modbus master and a Modbus slave from end to end: modbus_master.c     *)
(* builds a request PDU and remembers what it asked, the slave's handlers  *)
(* turn it into a response, modbus_rtu_response_handler.c checks the       *)
(* response against what was asked and calls the user back.  Other masters *)
(* send requests of their own in between.  What carries the PDUs, and the  *)
(* matching of late answers, is the matter of module ModbusTcpMaster.      *)
(***************************************************************************)
EXTENDS ModbusHandlers

CONSTANTS
  Addrs, Counts,     (* the addresses and counts the master asks for       *)
  CoilRuns, RegRuns, (* the sequences of values it writes                  *)
  ForeignPdus,       (* requests of other masters                          *)
  StaleBytes,        (* what the slave's buffer may hold behind a request  *)
  InitMemory,        (* the slave's memory at first                        *)
  MaxRequests        (* bound: requests in all                             *)

ASSUME AsksAssumption ==
  /\ Addrs \subseteq UInt16 /\ Counts \subseteq UInt16
  /\ CoilRuns \subseteq Seq({0, 1}) /\ RegRuns \subseteq Seq(UInt16)
  /\ \A values \in CoilRuns \cup RegRuns : Len(values) \in UInt16
(* tx_buf has 512 bytes, up to 17 of them before the values; the code leaves  *)
(* it to the user to ask for no more.                                         *)
ASSUME BufferAssumption == \A values \in RegRuns : 17 + 2 * Len(values) <= 512
ASSUME ForeignAssumption ==
  \A p \in ForeignPdus : p \in Seq(UInt8) /\ Len(p) \in 1 .. 253
ASSUME StaleAssumption == StaleBytes \subseteq [1 .. UINT8_MAX -> UInt8]
ASSUME InitMemoryAssumption == InitMemory \in Memory
ASSUME MaxRequestsAssumption == MaxRequests \in Nat

NoCall == [func |-> 0, addr |-> 0, nb |-> 0, data |-> << >>]

VARIABLES
  mem,       (* the slave's coils and holding registers                    *)
  ctx,       (* the master's req_func, req_reg_addr, req_nb, req_value      *)
  phase,     (* "idle", "requested", "foreign" (a request of another        *)
             (* master), "responded"                                        *)
  pdu,       (* the request, then the response                              *)
  called,    (* history: what the user was called back with, or NoCall      *)
  asked,     (* history: the address and values of the master's write       *)
  failed,    (* history: a user callback failed by itself                   *)
  requests   (* history: how many requests there were                       *)

vars == <<mem, ctx, phase, pdu, called, asked, failed, requests>>

NoWrite == [addr |-> 0, values |-> << >>]

Init ==
  /\ mem = InitMemory
  /\ ctx = [func |-> 0, addr |-> 0, nb |-> 0, value |-> 0]
  /\ phase = "idle"
  /\ pdu = << >>
  /\ called = NoCall
  /\ asked = NoWrite
  /\ failed = FALSE
  /\ requests = 0

-----------------------------------------------------------------------------
(* modbus_master.c *)

CanAsk ==
  /\ phase = "idle"
  /\ requests < MaxRequests
  /\ requests' = requests + 1
  /\ called' = NoCall
  /\ failed' = FALSE
  /\ UNCHANGED mem

Ask(request, p, write) ==
  /\ CanAsk
  /\ phase' = "requested"
  /\ ctx' = request
  /\ pdu' = p
  /\ asked' = write

(* mb_master_read_coils_req, _read_discrete_inputs, _read_holding_registers, *)
(* _read_input_registers                                                     *)
ReadReq ==
  \E func \in ReadBitsFuncs \cup ReadRegsFuncs, addr \in Addrs, nb \in Counts :
    Ask([ctx EXCEPT !.func = func, !.addr = addr, !.nb = nb], Header(func, addr, nb), NoWrite)

(* mb_master_write_single_coil *)
WriteSingleCoil ==
  \E addr \in Addrs, v \in {0, 1} :
    Ask([func |-> WRITE_SINGLE_COIL, addr |-> addr, nb |-> 1, value |-> CoilValue(v)],
        Header(WRITE_SINGLE_COIL, addr, CoilValue(v)),
        [addr |-> addr, values |-> <<v>>])

(* mb_master_write_single_register *)
WriteSingleRegister ==
  \E addr \in Addrs, values \in RegRuns :
    /\ Len(values) = 1
    /\ Ask([func |-> WRITE_REGISTER, addr |-> addr, nb |-> 1, value |-> values[1]],
           Header(WRITE_REGISTER, addr, values[1]),
           [addr |-> addr, values |-> values])

(* mb_master_write_multiple_coils, _registers *)
WriteMultiple ==
  \E addr \in Addrs :
    \/ \E values \in CoilRuns :
         Ask([ctx EXCEPT !.func = WRITE_MULTIPLE_COILS, !.addr = addr, !.nb = Len(values)],
             WriteCoilsPdu(addr, values), [addr |-> addr, values |-> values])
    \/ \E values \in RegRuns :
         Ask([ctx EXCEPT !.func = WRITE_MULTIPLE_REGISTERS, !.addr = addr, !.nb = Len(values)],
             WriteRegistersPdu(addr, values), [addr |-> addr, values |-> values])

(* mb_master_write_and_read_registers *)
WriteAndRead ==
  \E waddr, raddr \in Addrs, values \in RegRuns, nb \in Counts :
    Ask([ctx EXCEPT !.func = READWRITE_MULTIPLE_REGISTERS, !.addr = raddr, !.nb = nb],
        WriteReadPdu(waddr, values, raddr, nb), [addr |-> waddr, values |-> values])

(* Another master's request. *)
ForeignRequest ==
  /\ CanAsk
  /\ phase' = "foreign"
  /\ \E p \in ForeignPdus : pdu' = p
  /\ UNCHANGED <<ctx, asked>>

-----------------------------------------------------------------------------
(* The slave *)

(* modbus_rtu_handler_request_rx: the response goes to the one who asked. *)
HandleRequest ==
  /\ phase \in {"requested", "foreign"}
  /\ phase' = IF phase = "requested" THEN "responded" ELSE "idle"
  /\ \E wfault, rfault \in {"NOERR", "ETIMEDOUT", "EIO"}, stale \in StaleBytes :
       LET r == Dispatch(pdu, stale, wfault, rfault, mem) IN
       /\ mem' = r.mem
       /\ pdu' = ResponsePdu(pdu, r)
       /\ failed' = ({wfault, rfault} # {"NOERR"})
  /\ UNCHANGED <<ctx, called, asked, requests>>

-----------------------------------------------------------------------------
(* modbus_rtu_response_handler.c *)

(* mutant: an exception to a write of several is taken for its confirmation *)
ValidatedErrors(c, p) ==
  /\ p[1] = c.func \/ c.func \in MultipleFuncs
  /\ c.func \in ReadBitsFuncs => Len(p) = 2 + p[2] /\ 8 * p[2] >= c.nb
  /\ c.func \in ReadRegsFuncs \cup {READWRITE_MULTIPLE_REGISTERS} =>
       Len(p) = 2 + p[2] /\ p[2] \div 2 = c.nb
  /\ c.func \in EchoFuncs => Len(p) = 5 /\ Word(p, 4) = c.value /\ Word(p, 2) = c.addr

(* mutant: bytes are compared with the number of coils *)
ValidatedStrict(c, p) ==
  /\ p[1] = c.func
  /\ c.func \in ReadBitsFuncs => Len(p) = 2 + p[2] /\ p[2] >= c.nb
  /\ c.func \in ReadRegsFuncs \cup {READWRITE_MULTIPLE_REGISTERS} =>
       Len(p) = 2 + p[2] /\ p[2] \div 2 = c.nb
  /\ c.func \in EchoFuncs => Len(p) = 5 /\ Word(p, 4) = c.value /\ Word(p, 2) = c.addr
  /\ c.func \in MultipleFuncs => Len(p) = 5 /\ Word(p, 2) = c.addr /\ Word(p, 4) = c.nb

(* modbus_rtu_validate_response *)
Validated(c, p) ==
  /\ p[1] = c.func
  /\ c.func \in ReadBitsFuncs => Len(p) = 2 + p[2] /\ 8 * p[2] >= c.nb
  /\ c.func \in ReadRegsFuncs \cup {READWRITE_MULTIPLE_REGISTERS} =>
       Len(p) = 2 + p[2] /\ p[2] \div 2 = c.nb
  /\ c.func \in EchoFuncs => Len(p) = 5 /\ Word(p, 4) = c.value /\ Word(p, 2) = c.addr
  /\ c.func \in MultipleFuncs => Len(p) = 5 /\ Word(p, 2) = c.addr /\ Word(p, 4) = c.nb

(* The regs argument of the callback; NULL for the others. *)
CallData(c, p) ==
  IF c.func \in ReadBitsFuncs \cup ReadRegsFuncs THEN SubSeq(p, 3, Len(p))
  ELSE IF c.func \in EchoFuncs THEN SubSeq(p, 4, 5)
  ELSE << >>

(* modbus_rtu_handler_response_rx: a response that does not fit is dropped. *)
HandleResponse ==
  /\ phase = "responded"
  /\ phase' = "idle"
  /\ called' = IF Validated(ctx, pdu)
               THEN [func |-> ctx.func, addr |-> ctx.addr, nb |-> ctx.nb,
                     data |-> CallData(ctx, pdu)]
               ELSE NoCall
  /\ UNCHANGED <<mem, ctx, pdu, asked, failed, requests>>

(* All requests are made and seen to: the master has nothing left to do. *)
Rest == phase = "idle" /\ requests = MaxRequests /\ UNCHANGED vars

Next ==
  \/ ReadReq \/ WriteSingleCoil \/ WriteSingleRegister \/ WriteMultiple \/ WriteAndRead
  \/ ForeignRequest \/ HandleRequest \/ HandleResponse \/ Rest

Spec == Init /\ [][Next]_vars

-----------------------------------------------------------------------------
(* Properties *)

(* The table of the slave's memory m that a function is about. *)
Table(func, m) ==
  CASE func = READ_DISCRETE_INPUTS -> FromZero(Discretes)
    [] func = READ_INPUT_REGISTER -> FromZero(Inputs)
    [] func \in {READ_COILS, WRITE_SINGLE_COIL, WRITE_MULTIPLE_COILS} -> m.coils
    [] OTHER -> m.regs

(* A read callback of the master is given what the slave holds at the        *)
(* addresses that were asked for, through packing, the byte count, the       *)
(* length checks and the validation of both sides (modbus_func_coils.c       *)
(* 54-91, modbus_func_holding.c 144-174, modbus_rtu_response_handler.c       *)
(* 20-53, 133-149).                                                          *)
ReadsAreTrue ==
  called.func \in ReadBitsFuncs \cup ReadRegsFuncs =>
    \A i \in 0 .. (called.nb - 1) :
      Table(called.func, mem)[called.addr + i] =
        IF called.func \in ReadBitsFuncs THEN CoilAt(called.data, i) ELSE WordAt(called.data, i)

(* A write the master's user is told of has been done: the slave holds the   *)
(* values at the addresses that were written, also for the request that      *)
(* writes and reads.                                                         *)
ConfirmedWriteIsDone ==
  called.func \in EchoFuncs \cup MultipleFuncs \cup {READWRITE_MULTIPLE_REGISTERS} =>
    \A i \in 1 .. Len(asked.values) :
      Table(called.func, mem)[asked.addr + i - 1] = asked.values[i]

(* A request of the master that changes the slave's memory changes it at the *)
(* addresses and to the values of that request, in the table it names, even  *)
(* when an exception is answered; the neighbours in a packed byte stay.      *)
WritesAreExact ==
  [][phase = "requested" =>
       LET f == ctx.func
           Written(old, new) ==
             \A a \in DOMAIN new : new[a] # old[a] =>
               \E i \in 1 .. Len(asked.values) :
                 a = asked.addr + i - 1 /\ new[a] = asked.values[i]
       IN  /\ Written(mem.coils, mem'.coils) /\ Written(mem.regs, mem'.regs)
           /\ mem'.coils # mem.coils => f \in {WRITE_SINGLE_COIL, WRITE_MULTIPLE_COILS}
           /\ mem'.regs # mem.regs =>
                f \in {WRITE_REGISTER, WRITE_MULTIPLE_REGISTERS, READWRITE_MULTIPLE_REGISTERS}]_vars

(* The limit the slave sets to the master's request, for each function. *)
WithinLimits(c) ==
  CASE c.func \in ReadBitsFuncs -> c.nb \in 1 .. (ReadBitsMax - 1)
    [] c.func = READ_HOLDING_REGISTER -> c.nb \in 1 .. ReadHoldingMax
    [] c.func = READ_INPUT_REGISTER -> c.nb \in 1 .. (ReadInputMax - 1)
    [] c.func \in EchoFuncs -> TRUE
    [] c.func = WRITE_MULTIPLE_COILS -> c.nb \in 1 .. WriteCoilsMax
    [] c.func = WRITE_MULTIPLE_REGISTERS -> c.nb \in 1 .. WriteRegsMax
    [] OTHER -> c.nb \in 1 .. RWReadMax /\ Len(asked.values) \in 1 .. RWWriteMax

InTable(c) ==
  /\ {c.addr + i - 1 : i \in 1 .. c.nb} \subseteq DOMAIN Table(c.func, mem)
  /\ {asked.addr + i - 1 : i \in 1 .. Len(asked.values)} \subseteq DOMAIN Table(c.func, mem)

(* Both sides agree on what a good request is: one within the limits and the *)
(* slave's tables is confirmed to the master's user, unless a callback of    *)
(* the slave's user fails.                                                   *)
GoodRequestsConfirmed ==
  [][HandleResponse /\ WithinLimits(ctx) /\ InTable(ctx) /\ ~failed =>
       called'.func = ctx.func]_vars
=============================================================================
