-------------------------- MODULE MCModbusExchange --------------------------
(***************************************************************************)
(* Ten coils, so that a request may use a part of a second byte; four      *)
(* registers with both bytes in use; limits that ordinary requests reach.  *)
(* Counts and addresses also have values that differ in the high byte only.*)
(***************************************************************************)
EXTENDS ModbusExchange

TenCoils == [a \in 0 .. 9 |-> IF a \in {0, 3, 8} THEN 1 ELSE 0]
FourRegs == [a \in 0 .. 3 |-> 256 * (a + 1) + 7 * a]
SmallMemory == [coils |-> TenCoils, regs |-> FourRegs]
SmallDiscretes == <<1, 1, 0, 0, 0, 0, 0, 1, 0, 1>>
SmallInputs == <<65535, 258, 0>>

SmallAddrs == {0, 1, 8, 256}
SmallCounts == {0, 1, 2, 4, 9, 10, 257}
SmallCoilRuns == {<<0>>, <<1, 1>>, [i \in 1 .. 9 |-> i % 2], [i \in 1 .. 10 |-> 1]}
SmallRegRuns == {<< >>, <<513>>, <<65280, 255>>, <<3, 2, 1>>}

(* Good requests of another master, ones too short, an unknown function, a   *)
(* coil value that is neither 0xff00 nor 0, a count that needs its high byte,*)
(* a write that does not bring the bytes it announces.                       *)
SmallForeign ==
  {Header(WRITE_SINGLE_COIL, 9, 65280), Header(WRITE_SINGLE_COIL, 9, 256),
   WriteRegistersPdu(2, <<11, 12>>), <<READ_COILS, 0, 1, 0>>, <<7, 0>>, <<200, 1>>,
   SubSeq(WriteReadPdu(0, <<5>>, 1, 1), 1, 9), Header(READ_HOLDING_REGISTER, 0, 257),
   SubSeq(WriteRegistersPdu(1, <<770, 771>>), 1, 8)}
SmallStale == {[i \in 1 .. 255 |-> 0], [i \in 1 .. 255 |-> i]}
=============================================================================
