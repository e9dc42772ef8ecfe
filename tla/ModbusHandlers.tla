--------------------------- MODULE ModbusHandlers ---------------------------
(***************************************************************************)
(* The request handlers of a Modbus slave (modbus_rtu_request_handler.c    *)
(* and modbus_func_*.c), as functions of the request PDU, the slave's      *)
(* memory and what goes wrong in the user's callbacks.  The callbacks      *)
(* themselves are the user's: they keep Coils and Registers addresses and  *)
(* answer MB_ENOREG outside.                                               *)
(*                                                                         *)
(* The result is the exception ("NONE" if none), the response PDU and the  *)
(* memory afterwards.  The code overwrites the request with the response.  *)
(***************************************************************************)
EXTENDS Integers, Sequences

(***************************************************************************)
(* The bytes of a Modbus PDU, as both sides of protocols/modbus lay them   *)
(* out: 16-bit words high byte first, coils eight to a byte, lowest bit    *)
(* first.  A PDU is a sequence of bytes, the function code at 1 (offset 0  *)
(* in the code).                                                           *)
(***************************************************************************)

READ_COILS == 1
READ_DISCRETE_INPUTS == 2
READ_HOLDING_REGISTER == 3
READ_INPUT_REGISTER == 4
WRITE_SINGLE_COIL == 5
WRITE_REGISTER == 6
WRITE_MULTIPLE_COILS == 15
WRITE_MULTIPLE_REGISTERS == 16
READWRITE_MULTIPLE_REGISTERS == 23

ReadBitsFuncs == {READ_COILS, READ_DISCRETE_INPUTS}
ReadRegsFuncs == {READ_HOLDING_REGISTER, READ_INPUT_REGISTER}
EchoFuncs == {WRITE_SINGLE_COIL, WRITE_REGISTER}
MultipleFuncs == {WRITE_MULTIPLE_COILS, WRITE_MULTIPLE_REGISTERS}

UINT8_MAX == 255
UINT16_MAX == 65535
UInt8 == 0 .. UINT8_MAX
UInt16 == 0 .. UINT16_MAX

(* A cast to uint8_t. *)
Byte(n) == n % 256

Hi(v) == v \div 256
Lo(v) == v % 256

(* The word at position i of a PDU. *)
Word(p, i) == 256 * p[i] + p[i + 1]

(* The bytes of a sequence of words. *)
Words(values) ==
  [k \in 1 .. (2 * Len(values)) |->
     IF k % 2 = 1 THEN Hi(values[(k + 1) \div 2]) ELSE Lo(values[k \div 2])]

(* How many bytes hold n coils. *)
ByteCount(n) == (n \div 8) + (IF n % 8 # 0 THEN 1 ELSE 0)

(* 1 << b *)
Bit(b) == <<1, 2, 4, 8, 16, 32, 64, 128>>[b + 1]

(* The k-th byte of the coils bits; the bits of the last one that stand for  *)
(* no coil are zero.                                                         *)
PackByte(bits, k) ==
  LET On(b) == IF 8 * (k - 1) + b < Len(bits) /\ bits[8 * (k - 1) + b + 1] # 0 THEN Bit(b) ELSE 0
  IN  On(0) + On(1) + On(2) + On(3) + On(4) + On(5) + On(6) + On(7)

(* mutant: the bits of a byte start at 1 *)
PackShifted(bits) == [k \in 1 .. ByteCount(Len(bits)) |-> Byte(2 * PackByte(bits, k))]

(* The bytes of a sequence of coils. *)
Pack(bits) == [k \in 1 .. ByteCount(Len(bits)) |-> PackByte(bits, k)]

(* The i-th coil and the i-th word, i from 0, of the data of a PDU. *)
CoilAt(data, i) == (data[i \div 8 + 1] \div Bit(i % 8)) % 2
WordAt(data, i) == Word(data, 2 * i + 1)

-----------------------------------------------------------------------------
(* Requests, as modbus_master.c builds them *)

(* mb_master_fill_io_status_req *)
Header(func, addr, v) == <<func, Hi(addr), Lo(addr), Hi(v), Lo(v)>>

(* 0xff00 *)
ON == 65280

CoilValue(v) == IF v # 0 THEN ON ELSE 0

(* byte_count is a byte: no more than 255 bytes of coils are sent. *)
WriteCoilsPdu(addr, values) ==
  LET byte_count == Byte(ByteCount(Len(values)))
  IN  Header(WRITE_MULTIPLE_COILS, addr, Len(values))
        \o <<byte_count>> \o SubSeq(Pack(values), 1, byte_count)

WriteRegistersPdu(addr, values) ==
  Header(WRITE_MULTIPLE_REGISTERS, addr, Len(values))
    \o <<Byte(2 * Len(values))>> \o Words(values)

(* mutant: the addresses change places *)
WriteReadPduSwapped(waddr, values, raddr, nb) ==
  Header(READWRITE_MULTIPLE_REGISTERS, waddr, nb)
    \o <<Hi(raddr), Lo(raddr), Hi(Len(values)), Lo(Len(values)), Byte(2 * Len(values))>>
    \o Words(values)

WriteReadPdu(waddr, values, raddr, nb) ==
  Header(READWRITE_MULTIPLE_REGISTERS, raddr, nb)
    \o <<Hi(waddr), Lo(waddr), Hi(Len(values)), Lo(Len(values)), Byte(2 * Len(values))>>
    \o Words(values)

-----------------------------------------------------------------------------

CONSTANTS
  NCoils, NRegs,     (* how many coils, and how many holding registers      *)
  Discretes, Inputs, (* the slave's discrete inputs and input registers     *)
  ReadBitsMax,       (* limits of one request, in the code 2000,            *)
  ReadInputMax,      (*   125,                                              *)
  ReadHoldingMax,    (*   125,                                              *)
  WriteCoilsMax,     (*   1968,                                             *)
  WriteRegsMax,      (*   120,                                              *)
  RWReadMax,         (*   125 and                                           *)
  RWWriteMax,        (*   121                                               *)
  RspMax             (* room for a response PDU, 253                        *)

Limits == {ReadBitsMax, ReadInputMax, ReadHoldingMax, WriteCoilsMax, WriteRegsMax,
           RWReadMax, RWWriteMax, RspMax}

ASSUME MemoryAssumption ==
  /\ NCoils \in Nat /\ NRegs \in Nat
  /\ Discretes \in Seq({0, 1}) /\ Inputs \in Seq(UInt16)
ASSUME LimitsAssumption == Limits \subseteq Nat
ASSUME RoomAssumption ==
  /\ 9 <= RspMax /\ RspMax < 256
  /\ 1 + ByteCount(ReadBitsMax) < RspMax
  /\ \A n \in {ReadInputMax, ReadHoldingMax, RWReadMax} : 1 + 2 * n < RspMax
  /\ ByteCount(WriteCoilsMax) < 256 /\ 2 * WriteRegsMax < 256 /\ 2 * RWWriteMax < 256

Memory == [coils : [0 .. (NCoils - 1) -> {0, 1}], regs : [0 .. (NRegs - 1) -> UInt16]]

Errors == {"NOERR", "ENOREG", "ETIMEDOUT", "EIO"}

(* prveMBError2Exception *)
Exception(err) ==
  CASE err = "NOERR" -> "NONE"
    [] err = "ENOREG" -> "ILLEGAL_DATA_ADDRESS"
    [] err = "ETIMEDOUT" -> "SLAVE_BUSY"
    [] OTHER -> "SLAVE_DEVICE_FAILURE"

ExceptionCode ==
  [ILLEGAL_FUNCTION |-> 1, ILLEGAL_DATA_ADDRESS |-> 2, ILLEGAL_DATA_VALUE |-> 3,
   SLAVE_DEVICE_FAILURE |-> 4, SLAVE_BUSY |-> 6]

Answer(rsp, m) == [ex |-> "NONE", rsp |-> rsp, mem |-> m]
Refusal(ex, m) == [ex |-> ex, rsp |-> << >>, mem |-> m]
IllegalValue(m) == Refusal("ILLEGAL_DATA_VALUE", m)

(* What the user's callback returns for n items at addr of size: its own     *)
(* failure fault, or MB_ENOREG.                                              *)
CallbackError(addr, n, size, fault) == IF addr + n > size THEN "ENOREG" ELSE fault

Served(err, answer, m) == IF err = "NOERR" THEN answer ELSE Refusal(Exception(err), m)

(* n consecutive items of a table, and a table with values put at addr. *)
Items(table, addr, n) == [i \in 1 .. n |-> table[addr + i - 1]]
Put(table, addr, values) ==
  [a \in DOMAIN table |->
     IF addr <= a /\ a < addr + Len(values) THEN values[a - addr + 1] ELSE table[a]]

FromZero(s) == [a \in 0 .. (Len(s) - 1) |-> s[a + 1]]

-----------------------------------------------------------------------------

(* modbus_func_handler_read_coils: fewer than the maximum *)
ReadBits(p, table, size, fault, m) ==
  LET addr == Word(p, 2)
      n == Word(p, 4)
  IN  IF Len(p) # 5 \/ n \notin 1 .. (ReadBitsMax - 1)
      THEN IllegalValue(m)
      ELSE Served(CallbackError(addr, n, size, fault),
                  Answer(<<p[1], Byte(ByteCount(n))>> \o Pack(Items(table, addr, n)), m), m)

(* modbus_func_handler_read_discrete_inputs: the same checks *)
ReadDiscretes(p, fault, m) == ReadBits(p, FromZero(Discretes), Len(Discretes), fault, m)

(* modbus_func_handler_write_coil: 0xff00 or 0x0000, the response an echo *)
WriteCoil(p, fault, m) ==
  LET addr == Word(p, 2) IN
  IF Len(p) # 5 \/ Word(p, 4) \notin {ON, 0}
  THEN IllegalValue(m)
  ELSE Served(CallbackError(addr, 1, NCoils, fault),
              Answer(p, [m EXCEPT !.coils = Put(@, addr, <<IF p[4] = 255 THEN 1 ELSE 0>>)]), m)

(* The data of a write request from position first: no handler compares what *)
(* is announced with what came, so that behind the end of p it takes what    *)
(* the buffer held before, stale.                                            *)
Data(p, first, stale) ==
  [i \in 1 .. UINT8_MAX |-> IF first + i - 1 <= Len(p) THEN p[first + i - 1] ELSE stale[i]]

(* modbus_func_handler_write_multiple_coils *)
WriteCoils(p, stale, fault, m) ==
  LET addr == Word(p, 2)
      n == Word(p, 4)
      data == Data(p, 7, stale)
  IN  IF Len(p) <= 5 \/ n \notin 1 .. WriteCoilsMax \/ p[6] # Byte(ByteCount(n))
      THEN IllegalValue(m)
      ELSE Served(CallbackError(addr, n, NCoils, fault),
                  Answer(SubSeq(p, 1, 5),
                         [m EXCEPT !.coils = Put(@, addr, [i \in 1 .. n |-> CoilAt(data, i - 1)])]),
                  m)

-----------------------------------------------------------------------------

(* modbus_func_handler_read_input_register: fewer than the maximum *)
ReadInput(p, fault, m) ==
  LET addr == Word(p, 2)
      n == Word(p, 4)
  IN  IF Len(p) # 5 \/ n \notin 1 .. (ReadInputMax - 1)
      THEN IllegalValue(m)
      ELSE Served(CallbackError(addr, n, Len(Inputs), fault),
                  Answer(<<p[1], Byte(2 * n)>> \o Words(Items(FromZero(Inputs), addr, n)), m), m)

(* modbus_func_handler_read_holding_register: line 145 overwrites the high   *)
(* byte of the count.                                                        *)
ReadHolding(p, fault, m) ==
  LET addr == Word(p, 2)
      n == p[5]
  IN  IF Len(p) # 5 \/ n \notin 1 .. ReadHoldingMax
      THEN IllegalValue(m)
      ELSE Served(CallbackError(addr, n, NRegs, fault),
                  Answer(<<p[1], Byte(2 * n)>> \o Words(Items(m.regs, addr, n)), m), m)

(* modbus_func_handler_write_holding_register, the response an echo *)
WriteRegister(p, fault, m) ==
  LET addr == Word(p, 2) IN
  IF Len(p) # 5
  THEN IllegalValue(m)
  ELSE Served(CallbackError(addr, 1, NRegs, fault),
              Answer(p, [m EXCEPT !.regs = Put(@, addr, <<Word(p, 4)>>)]), m)

Registers(data, n) == [i \in 1 .. n |-> WordAt(data, i - 1)]

(* modbus_func_handler_write_multiple_holding_registers *)
WriteRegisters(p, stale, fault, m) ==
  LET addr == Word(p, 2)
      n == Word(p, 4)
  IN  IF Len(p) < 6 \/ n \notin 1 .. WriteRegsMax \/ p[6] # Byte(2 * n)
      THEN IllegalValue(m)
      ELSE Served(CallbackError(addr, n, NRegs, fault),
                  Answer(SubSeq(p, 1, 5),
                         [m EXCEPT !.regs = Put(@, addr, Registers(Data(p, 7, stale), n))]),
                  m)

(* modbus_func_handler_read_write_multiple_holding_registers: writes, then   *)
(* reads; a request that is too short is not touched and no exception.       *)
WriteRead(p, stale, wfault, rfault, m) ==
  LET raddr == Word(p, 2)
      rn == Word(p, 4)
      waddr == Word(p, 6)
      wn == Word(p, 8)
      written == [m EXCEPT !.regs = Put(@, waddr, Registers(Data(p, 11, stale), wn))]
  IN  IF Len(p) < 10 THEN Answer(p, m)
      ELSE IF rn \notin 1 .. RWReadMax \/ wn \notin 1 .. RWWriteMax \/ p[10] # 2 * wn
      THEN IllegalValue(m)
      ELSE Served(CallbackError(waddr, wn, NRegs, wfault),
                  Served(CallbackError(raddr, rn, NRegs, rfault),
                         Answer(<<p[1], Byte(2 * rn)>> \o Words(Items(written.regs, raddr, rn)),
                                written),
                         written),
                  m)

-----------------------------------------------------------------------------
(* modbus_rtu_handler_request_rx *)

Dispatch(p, stale, wfault, rfault, m) ==
  CASE p[1] = READ_COILS -> ReadBits(p, m.coils, NCoils, rfault, m)
    [] p[1] = READ_DISCRETE_INPUTS -> ReadDiscretes(p, rfault, m)
    [] p[1] = READ_HOLDING_REGISTER -> ReadHolding(p, rfault, m)
    [] p[1] = READ_INPUT_REGISTER -> ReadInput(p, rfault, m)
    [] p[1] = WRITE_SINGLE_COIL -> WriteCoil(p, wfault, m)
    [] p[1] = WRITE_REGISTER -> WriteRegister(p, wfault, m)
    [] p[1] = WRITE_MULTIPLE_COILS -> WriteCoils(p, stale, wfault, m)
    [] p[1] = WRITE_MULTIPLE_REGISTERS -> WriteRegisters(p, stale, wfault, m)
    [] p[1] = READWRITE_MULTIPLE_REGISTERS -> WriteRead(p, stale, wfault, rfault, m)
    [] OTHER -> Refusal("ILLEGAL_FUNCTION", m)

(* func | MB_FUNC_ERROR *)
ErrorFunc(func) == IF func < 128 THEN func + 128 ELSE func

ResponsePdu(p, r) ==
  IF r.ex = "NONE" THEN r.rsp ELSE <<ErrorFunc(p[1]), ExceptionCode[r.ex]>>
=============================================================================
