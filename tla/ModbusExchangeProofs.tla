------------------------ MODULE ModbusExchangeProofs ------------------------
(***************************************************************************)
(* For any tables, limits, requests and failing callbacks, what a Modbus   *)
(* master's user is told is true of the slave: what was read, and what was *)
(* written; nothing else is written, and good requests are confirmed.      *)
(* And for any masters on a TCP slave: requests are cut out of the bytes   *)
(* of a connection as they were sent, and are answered in their order.     *)
(***************************************************************************)
EXTENDS ModbusExchange, ModbusTcpSlave, FoldLemmas

Bits == {0, 1}

-----------------------------------------------------------------------------
(* Words and bits *)

(* What the bounds of a byte and of a word mean.                            *)
LEMMA Ranges ==
  /\ \A v : v \in UInt8 <=> v \in Int /\ 0 <= v /\ v <= 255
  /\ \A v : v \in UInt16 <=> v \in Int /\ 0 <= v /\ v <= 65535
<1>1. UINT8_MAX \in Int /\ UINT16_MAX \in Int
  BY DEF UINT8_MAX, UINT16_MAX
<1>2. \A v : v \in UInt8 <=> v \in Int /\ 0 <= v /\ v <= UINT8_MAX
  BY <1>1 DEF UInt8
<1>3. \A v : v \in UInt16 <=> v \in Int /\ 0 <= v /\ v <= UINT16_MAX
  BY <1>1 DEF UInt16
<1> QED
  BY <1>2, <1>3 DEF UINT8_MAX, UINT16_MAX

(* Words are numbers.                                                       *)
LEMMA WordIsNat == UInt16 \subseteq Nat
  BY Ranges

(* The two bytes of a word make the word again.                             *)
LEMMA WordOfBytes ==
  ASSUME NEW v \in UInt16
  PROVE  Hi(v) \in UInt8 /\ Lo(v) \in UInt8 /\ 256 * Hi(v) + Lo(v) = v
  BY Ranges DEF Hi, Lo

(* Two bytes make a word.                                                   *)
LEMMA BytesOfWord ==
  ASSUME NEW p, NEW i, p[i] \in UInt8, p[i + 1] \in UInt8
  PROVE  Word(p, i) \in UInt16
  BY Ranges DEF Word

(* The bytes that hold n coils are just enough.                             *)
LEMMA ByteCounts ==
  ASSUME NEW n \in Nat
  PROVE  ByteCount(n) \in Nat /\ 8 * ByteCount(n) >= n /\ 8 * ByteCount(n) < n + 8
  BY DEF ByteCount

(* The bytes of a sequence of words, high byte first.                       *)
LEMMA WordsOf ==
  ASSUME NEW values \in Seq(UInt16)
  PROVE  /\ Words(values) \in Seq(UInt8) /\ Len(Words(values)) = 2 * Len(values)
         /\ \A i \in 1 .. Len(values) :
              /\ Words(values)[2 * i - 1] = Hi(values[i])
              /\ Words(values)[2 * i] = Lo(values[i])
<1> DEFINE n == Len(values)
<1>1. n \in Nat /\ \A i \in 1 .. n : values[i] \in UInt16
  OBVIOUS
<1> HIDE DEF n
<1>2. \A k \in 1 .. (2 * n) : k % 2 = 1 => (k + 1) \div 2 \in 1 .. n
  BY <1>1
<1>3. \A k \in 1 .. (2 * n) : k % 2 # 1 => k \div 2 \in 1 .. n
  BY <1>1
<1>4. \A v \in UInt16 : Hi(v) \in UInt8 /\ Lo(v) \in UInt8
  BY WordOfBytes
<1>5. Words(values) \in [1 .. (2 * n) -> UInt8]
  BY <1>1, <1>2, <1>3, <1>4 DEF Words, n
<1>6. \A i \in 1 .. n : Words(values)[2 * i - 1] = Hi(values[i]) /\ Words(values)[2 * i] = Lo(values[i])
  <2> SUFFICES ASSUME NEW i \in 1 .. n
               PROVE  Words(values)[2 * i - 1] = Hi(values[i]) /\ Words(values)[2 * i] = Lo(values[i])
    OBVIOUS
  <2>1. 2 * i - 1 \in 1 .. (2 * n) /\ (2 * i - 1) % 2 = 1 /\ ((2 * i - 1) + 1) \div 2 = i
    BY <1>1
  <2>2. 2 * i \in 1 .. (2 * n) /\ (2 * i) % 2 = 0 /\ (2 * i) \div 2 = i
    BY <1>1
  <2> QED
    BY <2>1, <2>2 DEF Words, n
<1>7. Words(values) \in Seq(UInt8) /\ Len(Words(values)) = 2 * n
  BY <1>1, <1>5
<1> QED
  BY <1>6, <1>7 DEF n

(* Eight bits as a number. *)
Sum8(b0, b1, b2, b3, b4, b5, b6, b7) ==
  b0 + 2 * b1 + 4 * b2 + 8 * b3 + 16 * b4 + 32 * b5 + 64 * b6 + 128 * b7

(* The coils of a run come out of its bytes as they went in. *)
LEMMA Packed ==
  ASSUME NEW bits \in Seq(Bits)
  PROVE  /\ Pack(bits) \in Seq(UInt8) /\ Len(Pack(bits)) = ByteCount(Len(bits))
         /\ \A i \in 0 .. (Len(bits) - 1) :
              i \div 8 + 1 \in 1 .. ByteCount(Len(bits)) /\ CoilAt(Pack(bits), i) = bits[i + 1]
<1> DEFINE n == Len(bits)
           on(k, b) == IF 8 * (k - 1) + b < n /\ bits[8 * (k - 1) + b + 1] # 0 THEN 1 ELSE 0
<1>1. n \in Nat /\ \A i \in 1 .. n : bits[i] \in Bits
  BY DEF Bits
<1>2. ByteCount(n) \in Nat
  BY <1>1, ByteCounts
<1>3. \A k : PackByte(bits, k) = Sum8(on(k, 0), on(k, 1), on(k, 2), on(k, 3),
                                      on(k, 4), on(k, 5), on(k, 6), on(k, 7))
  BY DEF PackByte, Bit, Sum8
<1>4. \A k, b : on(k, b) \in Bits
  BY DEF Bits
<1> HIDE DEF on
<1>5. \A k : /\ PackByte(bits, k) \in UInt8
            /\ \A b \in 0 .. 7 : (PackByte(bits, k) \div Bit(b)) % 2 = on(k, b)
  <2> TAKE k
  <2>1. /\ on(k, 0) \in Bits /\ on(k, 1) \in Bits /\ on(k, 2) \in Bits /\ on(k, 3) \in Bits
        /\ on(k, 4) \in Bits /\ on(k, 5) \in Bits /\ on(k, 6) \in Bits /\ on(k, 7) \in Bits
    BY <1>4, Zenon
  <2> DEFINE s == PackByte(bits, k)
  <2>2. s = Sum8(on(k, 0), on(k, 1), on(k, 2), on(k, 3), on(k, 4), on(k, 5), on(k, 6), on(k, 7))
    BY <1>3, Zenon
  <2> HIDE DEF s
  <2>3. /\ s \in UInt8
        /\ (s \div 1) % 2 = on(k, 0) /\ (s \div 2) % 2 = on(k, 1)
        /\ (s \div 4) % 2 = on(k, 2) /\ (s \div 8) % 2 = on(k, 3)
        /\ (s \div 16) % 2 = on(k, 4) /\ (s \div 32) % 2 = on(k, 5)
        /\ (s \div 64) % 2 = on(k, 6) /\ (s \div 128) % 2 = on(k, 7)
    <3>1. PICK b0, b1, b2, b3, b4, b5, b6, b7 \in Bits :
            /\ b0 = on(k, 0) /\ b1 = on(k, 1) /\ b2 = on(k, 2) /\ b3 = on(k, 3)
            /\ b4 = on(k, 4) /\ b5 = on(k, 5) /\ b6 = on(k, 6) /\ b7 = on(k, 7)
      BY <2>1, Zenon
    <3>2. s = Sum8(b0, b1, b2, b3, b4, b5, b6, b7)
      BY <2>2, <3>1, Zenon
    <3>3. /\ s \in UInt8
          /\ (s \div 1) % 2 = b0 /\ (s \div 2) % 2 = b1 /\ (s \div 4) % 2 = b2 /\ (s \div 8) % 2 = b3
          /\ (s \div 16) % 2 = b4 /\ (s \div 32) % 2 = b5 /\ (s \div 64) % 2 = b6
          /\ (s \div 128) % 2 = b7
      BY <3>2, Ranges DEF Sum8, Bits
    <3> QED
      BY <3>1, <3>3, Zenon
  <2>4. \A b \in 0 .. 7 : b \in {0, 1, 2, 3, 4, 5, 6, 7}
    OBVIOUS
  <2>5. \A b \in 0 .. 7 : (s \div Bit(b)) % 2 = on(k, b)
    BY <2>3, <2>4 DEF Bit
  <2> QED
    BY <2>3, <2>5 DEF s
<1>6. Pack(bits) \in [1 .. ByteCount(n) -> UInt8]
  BY <1>5 DEF Pack
<1>7. Pack(bits) \in Seq(UInt8) /\ Len(Pack(bits)) = ByteCount(n)
  BY <1>2, <1>6
<1>8. ASSUME NEW i \in 0 .. (n - 1)
      PROVE  i \div 8 + 1 \in 1 .. ByteCount(n) /\ CoilAt(Pack(bits), i) = bits[i + 1]
  <2> DEFINE k == i \div 8 + 1
             b == i % 8
  <2>1. b \in 0 .. 7 /\ i = 8 * (k - 1) + b /\ k \in 1 .. ByteCount(n)
    BY <1>1, <1>8 DEF ByteCount
  <2>2. on(k, b) = bits[i + 1]
    BY <1>1, <2>1 DEF on, Bits
  <2>3. CoilAt(Pack(bits), i) = (PackByte(bits, k) \div Bit(b)) % 2
    BY <2>1 DEF CoilAt, Pack
  <2> HIDE DEF k, b
  <2>5. (PackByte(bits, k) \div Bit(b)) % 2 = on(k, b)
    BY <2>1, <1>5, Zenon
  <2> QED
    BY <2>1, <2>2, <2>3, <2>5 DEF k
<1> QED
  BY <1>7, <1>8 DEF n

-----------------------------------------------------------------------------
(* PDUs *)

Pdus == Seq(UInt8)

IsHeader(p, func, addr, v) ==
  /\ p \in Pdus /\ Len(p) = 5 /\ p[1] = func
  /\ Word(p, 2) = addr /\ Word(p, 4) = v /\ p[4] = Hi(v) /\ p[5] = Lo(v)

(* The five bytes of mb_master_fill_io_status_req, read back.               *)
LEMMA HeaderOf ==
  ASSUME NEW func \in UInt8, NEW addr \in UInt16, NEW v \in UInt16
  PROVE  IsHeader(Header(func, addr, v), func, addr, v)
<1> SUFFICES ASSUME NEW p, p = Header(func, addr, v)
             PROVE  IsHeader(p, func, addr, v)
  OBVIOUS
<1>1. Hi(addr) \in UInt8 /\ Lo(addr) \in UInt8 /\ Hi(v) \in UInt8 /\ Lo(v) \in UInt8
  BY WordOfBytes
<1>2. p \in Pdus /\ Len(p) = 5
  BY <1>1 DEF Header, Pdus
<1>3. p[1] = func /\ p[2] = Hi(addr) /\ p[3] = Lo(addr) /\ p[4] = Hi(v) /\ p[5] = Lo(v)
  BY DEF Header
<1>4. 256 * Hi(addr) + Lo(addr) = addr /\ 256 * Hi(v) + Lo(v) = v
  BY WordOfBytes
<1>5. Word(p, 2) = 256 * p[2] + p[3] /\ Word(p, 4) = 256 * p[4] + p[5]
  BY DEF Word
<1> QED
  BY <1>2, <1>3, <1>4, <1>5 DEF IsHeader

(* The bytes of two sequences, one behind the other.                        *)
LEMMA Joined ==
  ASSUME NEW s \in Pdus, NEW t \in Pdus
  PROVE  /\ s \o t \in Pdus /\ Len(s \o t) = Len(s) + Len(t)
         /\ \A i \in 1 .. Len(s) : (s \o t)[i] = s[i]
         /\ \A i \in 1 .. Len(t) : (s \o t)[Len(s) + i] = t[i]
  BY DEF Pdus

(* What a handler takes for the data begins with content. *)
Arrives(data, content) == \A i \in 1 .. Len(content) : i \in 1 .. UINT8_MAX => data[i] = content[i]

(* A request that brings data behind a header of k bytes. *)
LEMMA DataOf ==
  ASSUME NEW s \in Pdus, NEW t \in Pdus
  PROVE  \A stale : Arrives(Data(s \o t, Len(s) + 1, stale), t)
<1> SUFFICES ASSUME NEW stale, NEW i \in 1 .. Len(t), i \in 1 .. UINT8_MAX, NEW p, p = s \o t
             PROVE  Data(p, Len(s) + 1, stale)[i] = t[i]
  BY DEF Arrives
<1>1. Len(s) \in Nat /\ Len(t) \in Nat
  BY DEF Pdus
<1>2. Len(p) = Len(s) + Len(t) /\ p[Len(s) + i] = t[i]
  BY Joined
<1>3. Data(p, Len(s) + 1, stale)[i] = IF (Len(s) + 1) + i - 1 <= Len(p) THEN p[(Len(s) + 1) + i - 1] ELSE stale[i]
  BY DEF Data
<1>4. (Len(s) + 1) + i - 1 = Len(s) + i /\ Len(s) + i <= Len(s) + Len(t)
  BY <1>1
<1> QED
  BY <1>2, <1>3, <1>4

Stales == [1 .. UINT8_MAX -> UInt8]

(* What a handler takes for the data is bytes, wherever the request ends.   *)
LEMMA DataBytes ==
  ASSUME NEW p \in Pdus, NEW first \in Nat \ {0}, NEW stale \in Stales
  PROVE  Data(p, first, stale) \in Stales
<1>1. Len(p) \in Nat /\ \A j \in 1 .. Len(p) : p[j] \in UInt8
  BY DEF Pdus
<1>2. UINT8_MAX \in Nat
  BY DEF UINT8_MAX
<1>3. \A i \in 1 .. UINT8_MAX : first + i - 1 <= Len(p) => first + i - 1 \in 1 .. Len(p)
  BY <1>1, <1>2
<1> QED
  BY <1>1, <1>3 DEF Data, Stales

-----------------------------------------------------------------------------
(* The slave's memory *)

PutCoils(m, addr, values) == [m EXCEPT !.coils = Put(@, addr, values)]
PutRegs(m, addr, values) == [m EXCEPT !.regs = Put(@, addr, values)]

(* A table of n items of the set S. *)
Tables(n, S) == [0 .. (n - 1) -> S]

(* Values put in a table are there, and nothing else changes.               *)
LEMMA PutOf ==
  ASSUME NEW n \in Nat, NEW S, NEW table \in Tables(n, S),
         NEW addr \in Nat, NEW values \in Seq(S)
  PROVE  /\ Put(table, addr, values) \in Tables(n, S)
         /\ addr + Len(values) <= n =>
              \A i \in 1 .. Len(values) : Put(table, addr, values)[addr + i - 1] = values[i]
         /\ \A a \in 0 .. (n - 1) : Put(table, addr, values)[a] # table[a] =>
              \E i \in 1 .. Len(values) : a = addr + i - 1 /\ Put(table, addr, values)[a] = values[i]
<1> DEFINE len == Len(values)
           Inside(a) == addr <= a /\ a < addr + len
           new == Put(table, addr, values)
<1>0. table \in [0 .. (n - 1) -> S]
  BY DEF Tables
<1>1. len \in Nat /\ \A i \in 1 .. len : values[i] \in S
  OBVIOUS
<1>2. \A a \in 0 .. (n - 1) : new[a] = IF Inside(a) THEN values[a - addr + 1] ELSE table[a]
  BY <1>0 DEF Put
<1> HIDE DEF len
<1>3. \A a \in 0 .. (n - 1) : Inside(a) => a - addr + 1 \in 1 .. len /\ a = addr + (a - addr + 1) - 1
  BY <1>1
<1>4. new \in Tables(n, S)
  BY <1>0, <1>1, <1>3 DEF Put, Tables, len
<1>5. ASSUME addr + len <= n, NEW i \in 1 .. len
      PROVE  new[addr + i - 1] = values[i]
  <2>1. addr + i - 1 \in 0 .. (n - 1) /\ Inside(addr + i - 1) /\ (addr + i - 1) - addr + 1 = i
    BY <1>1, <1>5
  <2> QED
    BY <2>1, <1>2
<1>6. ASSUME NEW a \in 0 .. (n - 1), new[a] # table[a]
      PROVE  \E i \in 1 .. len : a = addr + i - 1 /\ new[a] = values[i]
  <2> HIDE DEF new
  <2>1. Inside(a) /\ new[a] = values[a - addr + 1]
    BY <1>2, <1>6
  <2> QED
    BY <2>1, <1>3
<1> QED
  BY <1>4, <1>5, <1>6 DEF len

-----------------------------------------------------------------------------
(* The handlers *)

Faults == {"NOERR", "ETIMEDOUT", "EIO"}

Exceptions ==
  {"ILLEGAL_FUNCTION", "ILLEGAL_DATA_ADDRESS", "ILLEGAL_DATA_VALUE", "SLAVE_DEVICE_FAILURE", "SLAVE_BUSY"}

(* The result r of a handler: its answer, only if the request is good, and   *)
(* then unless a callback fails; or an exception, nothing changed.           *)
Handled(r, good, fault, rsp, new, m) ==
  \/ good /\ fault = "NOERR" /\ r = Answer(rsp, new)
  \/ ~(good /\ fault = "NOERR") /\ r.ex \in Exceptions /\ r.mem = m

(* A refusal is an exception and leaves the memory.                         *)
LEMMA Refused ==
  ASSUME NEW ex \in Exceptions, NEW m
  PROVE  Refusal(ex, m).ex \in Exceptions /\ Refusal(ex, m).mem = m
  BY DEF Refusal

(* A request passes when it is inside the table and the callback does not fail. *)
LEMMA ServedAs ==
  ASSUME NEW fault \in Faults, NEW addr \in Nat, NEW n \in Nat, NEW size \in Nat, NEW answer, NEW m
  PROVE  LET r == Served(CallbackError(addr, n, size, fault), answer, m)
         IN  \/ addr + n <= size /\ fault = "NOERR" /\ r = answer
             \/ ~(addr + n <= size /\ fault = "NOERR") /\ r.ex \in Exceptions /\ r.mem = m
<1> DEFINE r == Served(CallbackError(addr, n, size, fault), answer, m)
<1>1. CASE addr + n <= size /\ fault = "NOERR"
  BY <1>1 DEF Served, CallbackError
<1>2. CASE ~(addr + n <= size /\ fault = "NOERR")
  <2> DEFINE err == CallbackError(addr, n, size, fault)
  <2>1. err \in {"ENOREG", "ETIMEDOUT", "EIO"}
    BY <1>2 DEF CallbackError, Faults
  <2> HIDE DEF err
  <2>2. Exception(err) \in Exceptions
    BY <2>1 DEF Exception, Exceptions
  <2>3. r = Refusal(Exception(err), m)
    BY <2>1 DEF Served, err
  <2> QED
    BY <1>2, <2>2, <2>3, Refused
<1> QED
  BY <1>1, <1>2

(* A word inside a request is a word.                                       *)
LEMMA WordsOfPdu ==
  ASSUME NEW p \in Pdus, NEW i \in Nat \ {0}, i + 1 <= Len(p)
  PROVE  Word(p, i) \in UInt16
<1>1. i \in 1 .. Len(p) /\ i + 1 \in 1 .. Len(p)
  BY DEF Pdus
<1>2. p[i] \in UInt8 /\ p[i + 1] \in UInt8
  BY <1>1 DEF Pdus
<1> QED
  BY <1>2, BytesOfWord

(* The address and the count of a request are words.                        *)
LEMMA WordsOfFive ==
  ASSUME NEW p \in Pdus, 5 <= Len(p)
  PROVE  Word(p, 2) \in UInt16 /\ Word(p, 4) \in UInt16
<1>1. Len(p) \in Nat
  BY DEF Pdus
<1>2. 2 + 1 <= Len(p) /\ 4 + 1 <= Len(p)
  BY <1>1
<1> QED
  BY <1>2, WordsOfPdu

(* What a handler does that checks the request (ok) and then calls back for  *)
(* n items at addr of a table of size.                                       *)
Result(ok, addr, n, size, fault, rsp, new, m) ==
  IF ~ok THEN IllegalValue(m) ELSE Served(CallbackError(addr, n, size, fault), Answer(rsp, new), m)

(* A handler that checks, calls back and answers.                           *)
LEMMA Checked ==
  ASSUME NEW ok \in BOOLEAN, NEW addr, NEW n, ok => addr \in Nat /\ n \in Nat,
         NEW size \in Nat, NEW fault \in Faults, NEW rsp, NEW new, NEW m
  PROVE  Handled(Result(ok, addr, n, size, fault, rsp, new, m),
                 ok /\ addr + n <= size, fault, rsp, new, m)
<1> SUFFICES ASSUME NEW r, r = Result(ok, addr, n, size, fault, rsp, new, m)
             PROVE  Handled(r, ok /\ addr + n <= size, fault, rsp, new, m)
  OBVIOUS
<1>1. CASE ok
  <2>1. r = Served(CallbackError(addr, n, size, fault), Answer(rsp, new), m)
    BY <1>1 DEF Result
  <2>2. addr \in Nat /\ n \in Nat
    BY <1>1
  <2>3. \/ addr + n <= size /\ fault = "NOERR" /\ r = Answer(rsp, new)
        \/ ~(addr + n <= size /\ fault = "NOERR") /\ r.ex \in Exceptions /\ r.mem = m
    BY <2>1, <2>2, ServedAs
  <2> QED
    BY <1>1, <2>3 DEF Handled
<1>2. CASE ~ok
  <2>1. r = Refusal("ILLEGAL_DATA_VALUE", m)
    BY <1>2 DEF IllegalValue, Result
  <2> QED
    BY <1>2, <2>1, Refused DEF Handled, Exceptions
<1> QED
  BY <1>1, <1>2

(* The address and the count of a request, for the lengths the handlers test. *)
LEMMA WordsAreNat ==
  ASSUME NEW p \in Pdus
  PROVE  (Len(p) = 5 \/ ~(Len(p) <= 5) \/ ~(Len(p) < 6)) =>
           /\ Word(p, 2) \in UInt16 /\ Word(p, 4) \in UInt16
           /\ Word(p, 2) \in Nat /\ Word(p, 4) \in Nat
<1>1. Len(p) \in Nat
  BY DEF Pdus
<1>2. ASSUME Len(p) = 5 \/ ~(Len(p) <= 5) \/ ~(Len(p) < 6)
      PROVE  5 <= Len(p)
  BY <1>1, <1>2
<1> QED
  BY <1>2, WordsOfFive, WordIsNat

(* modbus_func_handler_read_coils, _read_discrete_inputs *)
LEMMA ReadBitsOf ==
  ASSUME NEW p \in Pdus, NEW table, NEW size \in Nat, NEW fault \in Faults, NEW m
  PROVE  LET addr == Word(p, 2)
             n == Word(p, 4)
         IN  Handled(ReadBits(p, table, size, fault, m),
                   (Len(p) = 5 /\ n \in 1 .. (ReadBitsMax - 1)) /\ addr + n <= size, fault,
                   <<p[1], Byte(ByteCount(n))>> \o Pack(Items(table, addr, n)), m, m)
<1> DEFINE addr == Word(p, 2)
           n == Word(p, 4)
<1>1. Len(p) = 5 => addr \in Nat /\ n \in Nat
  BY WordsAreNat
<1> DEFINE ok == Len(p) = 5 /\ n \in 1 .. (ReadBitsMax - 1)
           rsp == <<p[1], Byte(ByteCount(n))>> \o Pack(Items(table, addr, n))
           r == ReadBits(p, table, size, fault, m)
<1>2. r = Result(ok, addr, n, size, fault, rsp, m, m)
  BY DEF ReadBits, Result
<1>3. ok \in BOOLEAN /\ (ok => addr \in Nat /\ n \in Nat)
  BY <1>1
<1> HIDE DEF ok, rsp, r, addr, n
<1>4. Handled(r, ok /\ addr + n <= size, fault, rsp, m, m)
  BY <1>2, <1>3, Checked
<1> QED
  BY <1>4 DEF ok, rsp, r, addr, n

(* modbus_func_handler_write_coil *)
LEMMA WriteCoilOf ==
  ASSUME NEW p \in Pdus, NEW fault \in Faults, NEW m
  PROVE  LET addr == Word(p, 2)
         IN  Handled(WriteCoil(p, fault, m),
                   (Len(p) = 5 /\ Word(p, 4) \in {ON, 0}) /\ addr + 1 <= NCoils, fault, p,
                   PutCoils(m, addr, <<IF p[4] = 255 THEN 1 ELSE 0>>), m)
<1> DEFINE addr == Word(p, 2)
<1>1. Len(p) = 5 => addr \in Nat
  BY WordsAreNat
<1> DEFINE ok == Len(p) = 5 /\ Word(p, 4) \in {ON, 0}
           new == PutCoils(m, addr, <<IF p[4] = 255 THEN 1 ELSE 0>>)
           r == WriteCoil(p, fault, m)
<1>2. r = Result(ok, addr, 1, NCoils, fault, p, new, m)
  BY DEF WriteCoil, Result, PutCoils
<1>3. ok \in BOOLEAN /\ (ok => addr \in Nat /\ 1 \in Nat) /\ NCoils \in Nat
  BY <1>1, MemoryAssumption
<1> HIDE DEF ok, new, r, addr
<1>4. Handled(r, ok /\ addr + 1 <= NCoils, fault, p, new, m)
  BY <1>2, <1>3, Checked
<1> QED
  BY <1>4 DEF ok, new, r, addr

(* modbus_func_handler_write_multiple_coils *)
LEMMA WriteCoilsOf ==
  ASSUME NEW p \in Pdus, NEW stale, NEW fault \in Faults, NEW m
  PROVE  LET addr == Word(p, 2)
             n == Word(p, 4)
         IN  Handled(WriteCoils(p, stale, fault, m),
                   (~(Len(p) <= 5) /\ n \in 1 .. WriteCoilsMax /\ p[6] = Byte(ByteCount(n)))
                     /\ addr + n <= NCoils,
                   fault, SubSeq(p, 1, 5),
                   PutCoils(m, addr, [i \in 1 .. n |-> CoilAt(Data(p, 7, stale), i - 1)]),
                   m)
<1> DEFINE addr == Word(p, 2)
           n == Word(p, 4)
<1>1. ~(Len(p) <= 5) => addr \in Nat /\ n \in Nat
  BY WordsAreNat
<1> DEFINE ok == ~(Len(p) <= 5) /\ n \in 1 .. WriteCoilsMax /\ p[6] = Byte(ByteCount(n))
           rsp == SubSeq(p, 1, 5)
           new == PutCoils(m, addr, [i \in 1 .. n |-> CoilAt(Data(p, 7, stale), i - 1)])
           r == WriteCoils(p, stale, fault, m)
<1>2. r = Result(ok, addr, n, NCoils, fault, rsp, new, m)
  BY DEF WriteCoils, Result, PutCoils
<1>3. ok \in BOOLEAN /\ (ok => addr \in Nat /\ n \in Nat) /\ NCoils \in Nat
  BY <1>1, MemoryAssumption
<1> HIDE DEF ok, new, r, rsp, addr, n
<1>4. Handled(r, ok /\ addr + n <= NCoils, fault, rsp, new, m)
  BY <1>2, <1>3, Checked
<1> QED
  BY <1>4 DEF ok, new, r, rsp, addr, n

(* modbus_func_handler_read_input_register *)
LEMMA ReadInputOf ==
  ASSUME NEW p \in Pdus, NEW fault \in Faults, NEW m
  PROVE  LET addr == Word(p, 2)
             n == Word(p, 4)
         IN  Handled(ReadInput(p, fault, m),
                   (Len(p) = 5 /\ n \in 1 .. (ReadInputMax - 1)) /\ addr + n <= Len(Inputs), fault,
                   <<p[1], Byte(2 * n)>> \o Words(Items(FromZero(Inputs), addr, n)), m, m)
<1> DEFINE addr == Word(p, 2)
           n == Word(p, 4)
<1>1. Len(p) = 5 => addr \in Nat /\ n \in Nat
  BY WordsAreNat
<1> DEFINE ok == Len(p) = 5 /\ n \in 1 .. (ReadInputMax - 1)
           rsp == <<p[1], Byte(2 * n)>> \o Words(Items(FromZero(Inputs), addr, n))
           size == Len(Inputs)
           r == ReadInput(p, fault, m)
<1>2. r = Result(ok, addr, n, size, fault, rsp, m, m)
  BY DEF ReadInput, Result
<1>3. ok \in BOOLEAN /\ (ok => addr \in Nat /\ n \in Nat) /\ size \in Nat
  BY <1>1, MemoryAssumption
<1> HIDE DEF ok, rsp, r, size, addr, n
<1>4. Handled(r, ok /\ addr + n <= size, fault, rsp, m, m)
  BY <1>2, <1>3, Checked
<1> QED
  BY <1>4 DEF ok, rsp, r, size, addr, n

(* modbus_func_handler_read_holding_register *)
LEMMA ReadHoldingOf ==
  ASSUME NEW p \in Pdus, NEW fault \in Faults, NEW m
  PROVE  LET addr == Word(p, 2)
             n == p[5]
         IN  Handled(ReadHolding(p, fault, m),
                   (Len(p) = 5 /\ n \in 1 .. ReadHoldingMax) /\ addr + n <= NRegs, fault,
                   <<p[1], Byte(2 * n)>> \o Words(Items(m.regs, addr, n)), m, m)
<1> DEFINE addr == Word(p, 2)
           n == p[5]
<1>1. (Len(p) = 5 => addr \in Nat) /\ (n \in 1 .. ReadHoldingMax => n \in Nat)
  BY WordsAreNat
<1> DEFINE ok == Len(p) = 5 /\ n \in 1 .. ReadHoldingMax
           rsp == <<p[1], Byte(2 * n)>> \o Words(Items(m.regs, addr, n))
           r == ReadHolding(p, fault, m)
<1>2. r = Result(ok, addr, n, NRegs, fault, rsp, m, m)
  BY DEF ReadHolding, Result
<1>3. ok \in BOOLEAN /\ (ok => addr \in Nat /\ n \in Nat) /\ NRegs \in Nat
  BY <1>1, MemoryAssumption
<1> HIDE DEF ok, rsp, r, addr, n
<1>4. Handled(r, ok /\ addr + n <= NRegs, fault, rsp, m, m)
  BY <1>2, <1>3, Checked
<1> QED
  BY <1>4 DEF ok, rsp, r, addr, n

(* modbus_func_handler_write_holding_register *)
LEMMA WriteRegisterOf ==
  ASSUME NEW p \in Pdus, NEW fault \in Faults, NEW m
  PROVE  LET addr == Word(p, 2)
         IN  Handled(WriteRegister(p, fault, m), Len(p) = 5 /\ addr + 1 <= NRegs, fault, p,
                   PutRegs(m, addr, <<Word(p, 4)>>), m)
<1> DEFINE addr == Word(p, 2)
<1>1. Len(p) = 5 => addr \in Nat
  BY WordsAreNat
<1> DEFINE ok == Len(p) = 5
           new == PutRegs(m, addr, <<Word(p, 4)>>)
           r == WriteRegister(p, fault, m)
<1>2. r = Result(ok, addr, 1, NRegs, fault, p, new, m)
  BY DEF WriteRegister, Result, PutRegs
<1>3. ok \in BOOLEAN /\ (ok => addr \in Nat /\ 1 \in Nat) /\ NRegs \in Nat
  BY <1>1, MemoryAssumption
<1> HIDE DEF ok, new, r, addr
<1>4. Handled(r, ok /\ addr + 1 <= NRegs, fault, p, new, m)
  BY <1>2, <1>3, Checked
<1> QED
  BY <1>4 DEF ok, new, r, addr

(* modbus_func_handler_write_multiple_holding_registers *)
LEMMA WriteRegistersOf ==
  ASSUME NEW p \in Pdus, NEW stale, NEW fault \in Faults, NEW m
  PROVE  LET addr == Word(p, 2)
             n == Word(p, 4)
         IN  Handled(WriteRegisters(p, stale, fault, m),
                   (~(Len(p) < 6) /\ n \in 1 .. WriteRegsMax /\ p[6] = Byte(2 * n)) /\ addr + n <= NRegs,
                   fault, SubSeq(p, 1, 5),
                   PutRegs(m, addr, Registers(Data(p, 7, stale), n)), m)
<1> DEFINE addr == Word(p, 2)
           n == Word(p, 4)
<1>1. ~(Len(p) < 6) => addr \in Nat /\ n \in Nat
  BY WordsAreNat
<1> DEFINE ok == ~(Len(p) < 6) /\ n \in 1 .. WriteRegsMax /\ p[6] = Byte(2 * n)
           rsp == SubSeq(p, 1, 5)
           new == PutRegs(m, addr, Registers(Data(p, 7, stale), n))
           r == WriteRegisters(p, stale, fault, m)
<1>2. r = Result(ok, addr, n, NRegs, fault, rsp, new, m)
  BY DEF WriteRegisters, Result, PutRegs
<1>3. ok \in BOOLEAN /\ (ok => addr \in Nat /\ n \in Nat) /\ NRegs \in Nat
  BY <1>1, MemoryAssumption
<1> HIDE DEF ok, new, r, rsp, addr, n
<1>4. Handled(r, ok /\ addr + n <= NRegs, fault, rsp, new, m)
  BY <1>2, <1>3, Checked
<1> QED
  BY <1>4 DEF ok, new, r, rsp, addr, n

(* The four words of a request that writes and reads.                       *)
LEMMA WordsAreNat10 ==
  ASSUME NEW p \in Pdus, ~(Len(p) < 10)
  PROVE  /\ Word(p, 2) \in Nat /\ Word(p, 4) \in Nat /\ Word(p, 6) \in Nat /\ Word(p, 8) \in Nat
<1>1. Len(p) \in Nat
  BY DEF Pdus
<1>2. 2 + 1 <= Len(p) /\ 4 + 1 <= Len(p) /\ 6 + 1 <= Len(p) /\ 8 + 1 <= Len(p)
  BY <1>1
<1>3. Word(p, 2) \in UInt16 /\ Word(p, 4) \in UInt16
  BY <1>2, WordsOfPdu
<1>4. Word(p, 6) \in UInt16 /\ Word(p, 8) \in UInt16
  BY <1>2, WordsOfPdu
<1> QED
  BY <1>3, <1>4, WordIsNat

(* The memory after the write of a request that writes and reads, and the    *)
(* checks before it.                                                         *)
Rewritten(p, stale, m) == [m EXCEPT !.regs = Put(@, Word(p, 6), Registers(Data(p, 11, stale), Word(p, 8)))]
WriteReadOk(p) == Word(p, 4) \in 1 .. RWReadMax /\ Word(p, 8) \in 1 .. RWWriteMax /\ p[10] = 2 * Word(p, 8)

(* A request handled in two steps, a write and a read: an exception may be   *)
(* answered after the write.                                                 *)
HandledTwice(r, written, served, rsp, new, m) ==
  \/ written /\ served /\ r = Answer(rsp, new)
  \/ ~(written /\ served) /\ r.ex \in Exceptions /\ (r.mem = m \/ (written /\ r.mem = new))

(* modbus_func_handler_read_write_multiple_holding_registers                 *)
LEMMA WriteReadOf ==
  ASSUME NEW p \in Pdus, ~(Len(p) < 10), NEW stale, NEW wfault \in Faults, NEW rfault \in Faults,
         NEW m
  PROVE  HandledTwice(WriteRead(p, stale, wfault, rfault, m),
                      WriteReadOk(p) /\ Word(p, 6) + Word(p, 8) <= NRegs,
                      Word(p, 2) + Word(p, 4) <= NRegs /\ wfault = "NOERR" /\ rfault = "NOERR",
                      <<p[1], Byte(2 * Word(p, 4))>>
                        \o Words(Items(Rewritten(p, stale, m).regs, Word(p, 2), Word(p, 4))),
                      Rewritten(p, stale, m), m)
<1> DEFINE raddr == Word(p, 2)
           rn == Word(p, 4)
           waddr == Word(p, 6)
           wn == Word(p, 8)
           new == Rewritten(p, stale, m)
           r == WriteRead(p, stale, wfault, rfault, m)
           ok == WriteReadOk(p)
<1>1. raddr \in Nat /\ rn \in Nat /\ waddr \in Nat /\ wn \in Nat /\ NRegs \in Nat
  BY WordsAreNat10, MemoryAssumption
<1> DEFINE rsp == <<p[1], Byte(2 * rn)>> \o Words(Items(new.regs, raddr, rn))
           inner == Served(CallbackError(raddr, rn, NRegs, rfault), Answer(rsp, new), new)
           outer == Served(CallbackError(waddr, wn, NRegs, wfault), inner, m)
<1>2. r = IF ~ok THEN IllegalValue(m) ELSE outer
  BY DEF WriteRead, WriteReadOk, Rewritten
<1> HIDE DEF ok, r, new, raddr, rn, waddr, wn
<1> HIDE DEF rsp
<1>3. \/ raddr + rn <= NRegs /\ rfault = "NOERR" /\ inner = Answer(rsp, new)
      \/ ~(raddr + rn <= NRegs /\ rfault = "NOERR") /\ inner.ex \in Exceptions /\ inner.mem = new
  BY <1>1, ServedAs
<1> HIDE DEF inner
<1>4. \/ waddr + wn <= NRegs /\ wfault = "NOERR" /\ outer = inner
      \/ ~(waddr + wn <= NRegs /\ wfault = "NOERR") /\ outer.ex \in Exceptions /\ outer.mem = m
  BY <1>1, ServedAs
<1> HIDE DEF outer
<1>5. \/ /\ ok /\ waddr + wn <= NRegs /\ raddr + rn <= NRegs /\ wfault = "NOERR" /\ rfault = "NOERR"
         /\ r = Answer(rsp, new)
      \/ /\ ~(ok /\ waddr + wn <= NRegs /\ raddr + rn <= NRegs /\ wfault = "NOERR" /\ rfault = "NOERR")
         /\ r.ex \in Exceptions
         /\ r.mem = m \/ (ok /\ waddr + wn <= NRegs /\ r.mem = new)
  <2>1. CASE ~ok
    <3>1. r = Refusal("ILLEGAL_DATA_VALUE", m)
      BY <1>2, <2>1 DEF IllegalValue
    <3> QED
      BY <2>1, <3>1, Refused DEF Exceptions
  <2>2. CASE ok
    <3>1. r = outer
      BY <1>2, <2>2
    <3> QED
      BY <1>3, <1>4, <2>2, <3>1
  <2> QED
    BY <2>1, <2>2
<1> QED
  BY <1>5 DEF HandledTwice, ok, r, new, raddr, rn, waddr, wn, rsp

-----------------------------------------------------------------------------
(* What the handlers write *)

(* A coil is a bit.                                                         *)
LEMMA CoilIsBit ==
  ASSUME NEW data, NEW i \in Nat, data[i \div 8 + 1] \in UInt8
  PROVE  CoilAt(data, i) \in {0, 1}
<1>1. i % 8 \in 0 .. 7
  OBVIOUS
<1>2. Bit(i % 8) \in Nat \ {0}
  BY <1>1 DEF Bit
<1>3. data[i \div 8 + 1] \in Int
  BY Ranges
<1>4. \A v \in Int, w \in Nat \ {0} : (v \div w) % 2 \in {0, 1}
  OBVIOUS
<1> QED
  BY <1>2, <1>3, <1>4 DEF CoilAt

(* The bytes of a run of coils the slave accepts are within a byte count.   *)
LEMMA ByteCountGrows ==
  ASSUME NEW n \in Nat, NEW k \in Nat, n <= k, ByteCount(k) < 256, NEW i \in 0 .. (n - 1)
  PROVE  i \div 8 + 1 \in 1 .. UINT8_MAX
<1>1. 8 * ByteCount(k) >= k /\ ByteCount(k) \in Nat
  BY ByteCounts
<1>2. \A b \in Nat : 8 * b >= k /\ b < 256 => i \div 8 + 1 \in 1 .. 255
  OBVIOUS
<1> QED
  BY <1>1, <1>2 DEF UINT8_MAX

(* What a request for coils writes is coils, whatever bytes came.           *)
LEMMA CoilsWritten ==
  ASSUME NEW p \in Pdus, NEW stale \in Stales, NEW n \in 1 .. WriteCoilsMax, NEW first \in Nat \ {0}
  PROVE  [i \in 1 .. n |-> CoilAt(Data(p, first, stale), i - 1)] \in Seq({0, 1})
<1>1. WriteCoilsMax \in Nat /\ ByteCount(WriteCoilsMax) < 256
  BY LimitsAssumption, RoomAssumption DEF Limits
<1>2. n \in Nat /\ n <= WriteCoilsMax
  BY <1>1
<1>3. ASSUME NEW i \in 1 .. n
      PROVE  CoilAt(Data(p, first, stale), i - 1) \in {0, 1}
  <2>1. i - 1 \in Nat /\ i - 1 \in 0 .. (n - 1)
    BY <1>2
  <2>2. (i - 1) \div 8 + 1 \in 1 .. UINT8_MAX
    BY <1>1, <1>2, <2>1, ByteCountGrows
  <2>3. Data(p, first, stale)[(i - 1) \div 8 + 1] \in UInt8
    <3>1. Data(p, first, stale) \in [1 .. UINT8_MAX -> UInt8]
      BY DataBytes DEF Stales
    <3> QED
      BY <2>2, <3>1
  <2> QED
    BY <2>1, <2>3, CoilIsBit
<1> QED
  BY <1>2, <1>3

(* What a request for registers writes is words, whatever bytes came.       *)
LEMMA RegistersWritten ==
  ASSUME NEW p \in Pdus, NEW stale \in Stales, NEW n \in Nat, 2 * n < 256, NEW first \in Nat \ {0}
  PROVE  Registers(Data(p, first, stale), n) \in Seq(UInt16)
<1>1. ASSUME NEW i \in 1 .. n
      PROVE  WordAt(Data(p, first, stale), i - 1) \in UInt16
  <2>1. 2 * (i - 1) + 1 \in 1 .. UINT8_MAX /\ 2 * (i - 1) + 1 + 1 \in 1 .. UINT8_MAX
    BY DEF UINT8_MAX
  <2>2. /\ Data(p, first, stale)[2 * (i - 1) + 1] \in UInt8
        /\ Data(p, first, stale)[2 * (i - 1) + 1 + 1] \in UInt8
    BY <2>1, DataBytes DEF Stales
  <2> QED
    BY <2>2, BytesOfWord DEF WordAt
<1> QED
  BY <1>1 DEF Registers

(* The memory after a write of coils.                                       *)
LEMMA CoilsPut ==
  ASSUME NEW m \in Memory, NEW addr \in Nat, NEW values \in Seq(Bits)
  PROVE  LET new == PutCoils(m, addr, values) IN
         /\ new \in Memory /\ new.regs = m.regs
         /\ addr + Len(values) <= NCoils =>
              \A i \in 1 .. Len(values) : new.coils[addr + i - 1] = values[i]
         /\ \A a \in DOMAIN new.coils : new.coils[a] # m.coils[a] =>
              \E i \in 1 .. Len(values) : a = addr + i - 1 /\ new.coils[a] = values[i]
<1> SUFFICES ASSUME NEW new, new = [m EXCEPT !.coils = Put(@, addr, values)]
             PROVE  /\ new \in Memory /\ new.regs = m.regs
                    /\ addr + Len(values) <= NCoils =>
                         \A i \in 1 .. Len(values) : new.coils[addr + i - 1] = values[i]
                    /\ \A a \in DOMAIN new.coils : new.coils[a] # m.coils[a] =>
                         \E i \in 1 .. Len(values) : a = addr + i - 1 /\ new.coils[a] = values[i]
  BY DEF PutCoils
<1> DEFINE coils == Put(m.coils, addr, values)
<1>1. NCoils \in Nat /\ m.coils \in Tables(NCoils, Bits)
  BY MemoryAssumption DEF Memory, Tables, Bits
<1>2. /\ coils \in Tables(NCoils, Bits)
      /\ addr + Len(values) <= NCoils => \A i \in 1 .. Len(values) : coils[addr + i - 1] = values[i]
      /\ \A a \in 0 .. (NCoils - 1) : coils[a] # m.coils[a] =>
           \E i \in 1 .. Len(values) : a = addr + i - 1 /\ coils[a] = values[i]
  BY <1>1, PutOf
<1>3. new = [m EXCEPT !.coils = coils]
  OBVIOUS
<1> HIDE DEF coils
<1>4. new \in Memory /\ new.coils = coils /\ new.regs = m.regs
  BY <1>2, <1>3 DEF Memory, Tables, Bits
<1>5. DOMAIN coils = 0 .. (NCoils - 1)
  BY <1>2 DEF Tables
<1> QED
  BY <1>2, <1>4, <1>5

(* The memory after a write of registers.                                   *)
LEMMA RegsPut ==
  ASSUME NEW m \in Memory, NEW addr \in Nat, NEW values \in Seq(UInt16)
  PROVE  LET new == PutRegs(m, addr, values) IN
         /\ new \in Memory /\ new.coils = m.coils
         /\ addr + Len(values) <= NRegs =>
              \A i \in 1 .. Len(values) : new.regs[addr + i - 1] = values[i]
         /\ \A a \in DOMAIN new.regs : new.regs[a] # m.regs[a] =>
              \E i \in 1 .. Len(values) : a = addr + i - 1 /\ new.regs[a] = values[i]
<1> SUFFICES ASSUME NEW new, new = [m EXCEPT !.regs = Put(@, addr, values)]
             PROVE  /\ new \in Memory /\ new.coils = m.coils
                    /\ addr + Len(values) <= NRegs =>
                         \A i \in 1 .. Len(values) : new.regs[addr + i - 1] = values[i]
                    /\ \A a \in DOMAIN new.regs : new.regs[a] # m.regs[a] =>
                         \E i \in 1 .. Len(values) : a = addr + i - 1 /\ new.regs[a] = values[i]
  BY DEF PutRegs
<1> DEFINE regs == Put(m.regs, addr, values)
<1>1. NRegs \in Nat /\ m.regs \in Tables(NRegs, UInt16)
  BY MemoryAssumption DEF Memory, Tables, Bits
<1>2. /\ regs \in Tables(NRegs, UInt16)
      /\ addr + Len(values) <= NRegs => \A i \in 1 .. Len(values) : regs[addr + i - 1] = values[i]
      /\ \A a \in 0 .. (NRegs - 1) : regs[a] # m.regs[a] =>
           \E i \in 1 .. Len(values) : a = addr + i - 1 /\ regs[a] = values[i]
  BY <1>1, PutOf
<1>3. new = [m EXCEPT !.regs = regs]
  OBVIOUS
<1> HIDE DEF regs
<1>4. new \in Memory /\ new.regs = regs /\ new.coils = m.coils
  BY <1>2, <1>3 DEF Memory, Tables
<1>5. DOMAIN regs = 0 .. (NRegs - 1)
  BY <1>2 DEF Tables
<1> QED
  BY <1>2, <1>4, <1>5

(* The memory after the write of a request that writes and reads is one.    *)
LEMMA RewrittenOf ==
  ASSUME NEW m \in Memory, NEW p \in Pdus, ~(Len(p) < 10), NEW stale \in Stales, WriteReadOk(p)
  PROVE  /\ Word(p, 6) \in Nat /\ Registers(Data(p, 11, stale), Word(p, 8)) \in Seq(UInt16)
         /\ Rewritten(p, stale, m) \in Memory
<1> DEFINE waddr == Word(p, 6)
           wn == Word(p, 8)
           values == Registers(Data(p, 11, stale), wn)
<1>1. RWWriteMax \in Nat /\ 2 * RWWriteMax < 256
  BY LimitsAssumption, RoomAssumption DEF Limits
<1>2. waddr \in Nat /\ wn \in Nat
  BY WordsAreNat10
<1>3. wn \in 1 .. RWWriteMax
  BY DEF WriteReadOk
<1> HIDE DEF wn, waddr
<1>4. 2 * wn < 256
  BY <1>1, <1>2, <1>3
<1>5. values \in Seq(UInt16)
  BY <1>2, <1>4, RegistersWritten
<1>6. Rewritten(p, stale, m) = PutRegs(m, waddr, values)
  BY DEF Rewritten, PutRegs, wn, waddr
<1> HIDE DEF values
<1>7. Rewritten(p, stale, m) \in Memory
  BY <1>2, <1>5, <1>6, RegsPut
<1> QED
  BY <1>2, <1>5, <1>7 DEF wn, waddr, values

(* A handler that writes a memory, or nothing, leaves a memory.             *)
LEMMA HandledKeeps ==
  ASSUME NEW m \in Memory, NEW new, NEW good, good => new \in Memory,
         NEW r, NEW fault, NEW rsp, Handled(r, good, fault, rsp, new, m)
  PROVE  r.mem \in Memory
  BY DEF Handled, Answer

(* No request, whatever its bytes, takes the memory out of its type.         *)
LEMMA DispatchKeepsMemory ==
  ASSUME NEW m \in Memory, NEW p \in Pdus, NEW stale \in Stales,
         NEW wfault \in Faults, NEW rfault \in Faults
  PROVE  Dispatch(p, stale, wfault, rfault, m).mem \in Memory
<1> DEFINE addr == Word(p, 2)
           n == Word(p, 4)
<1>1. /\ WriteRegsMax \in Nat /\ 2 * WriteRegsMax < 256
      /\ RWWriteMax \in Nat /\ 2 * RWWriteMax < 256
      /\ NCoils \in Nat /\ Len(Discretes) \in Nat
  BY LimitsAssumption, RoomAssumption, MemoryAssumption DEF Limits
<1>2. (Len(p) = 5 \/ ~(Len(p) <= 5) \/ ~(Len(p) < 6)) => addr \in Nat /\ n \in Nat
  BY WordsAreNat
<1>3. ASSUME NEW table, NEW size \in Nat
      PROVE  ReadBits(p, table, size, rfault, m).mem \in Memory
  <2> DEFINE r == ReadBits(p, table, size, rfault, m)
             good == (Len(p) = 5 /\ n \in 1 .. (ReadBitsMax - 1)) /\ addr + n <= size
             rsp == <<p[1], Byte(ByteCount(n))>> \o Pack(Items(table, addr, n))
  <2>1. Handled(r, good, rfault, rsp, m, m)
    BY ReadBitsOf
  <2> HIDE DEF r, good, rsp
  <2>3. r.mem \in Memory
    BY <2>1, HandledKeeps
  <2> QED
    BY <2>3 DEF r
<1>4. ReadDiscretes(p, rfault, m).mem \in Memory
  BY <1>1, <1>3 DEF ReadDiscretes
<1>5. ReadHolding(p, rfault, m).mem \in Memory
  <2> DEFINE r == ReadHolding(p, rfault, m)
             good == (Len(p) = 5 /\ p[5] \in 1 .. ReadHoldingMax) /\ addr + p[5] <= NRegs
             rsp == <<p[1], Byte(2 * p[5])>> \o Words(Items(m.regs, addr, p[5]))
  <2>1. Handled(r, good, rfault, rsp, m, m)
    BY ReadHoldingOf
  <2> HIDE DEF r, good, rsp
  <2>3. r.mem \in Memory
    BY <2>1, HandledKeeps
  <2> QED
    BY <2>3 DEF r
<1>6. ReadInput(p, rfault, m).mem \in Memory
  <2> DEFINE r == ReadInput(p, rfault, m)
             good == (Len(p) = 5 /\ n \in 1 .. (ReadInputMax - 1)) /\ addr + n <= Len(Inputs)
             rsp == <<p[1], Byte(2 * n)>> \o Words(Items(FromZero(Inputs), addr, n))
  <2>1. Handled(r, good, rfault, rsp, m, m)
    BY ReadInputOf
  <2> HIDE DEF r, good, rsp
  <2>3. r.mem \in Memory
    BY <2>1, HandledKeeps
  <2> QED
    BY <2>3 DEF r
<1>7. WriteCoil(p, wfault, m).mem \in Memory
  <2> DEFINE values == <<IF p[4] = 255 THEN 1 ELSE 0>>
  <2> DEFINE r == WriteCoil(p, wfault, m)
             good == (Len(p) = 5 /\ Word(p, 4) \in {ON, 0}) /\ addr + 1 <= NCoils
             rsp == p
             new == PutCoils(m, addr, values)
  <2>1. Handled(r, good, wfault, rsp, new, m)
    BY WriteCoilOf
  <2>2. ASSUME good PROVE new \in Memory
    <3>1. values \in Seq(Bits)
      BY DEF Bits
    <3>2. addr \in Nat
      BY <1>2, <2>2
    <3> HIDE DEF values, addr
    <3> QED
      BY <3>1, <3>2, CoilsPut
  <2> HIDE DEF r, good, rsp, new
  <2>3. r.mem \in Memory
    BY <2>1, <2>2, HandledKeeps
  <2> QED
    BY <2>3 DEF r
<1>8. WriteRegister(p, wfault, m).mem \in Memory
  <2> DEFINE values == <<Word(p, 4)>>
  <2> DEFINE r == WriteRegister(p, wfault, m)
             good == Len(p) = 5 /\ addr + 1 <= NRegs
             rsp == p
             new == PutRegs(m, addr, values)
  <2>1. Handled(r, good, wfault, rsp, new, m)
    BY WriteRegisterOf
  <2>2. ASSUME good PROVE new \in Memory
    <3>1. values \in Seq(UInt16)
      BY <2>2, WordsAreNat
    <3>2. addr \in Nat
      BY <1>2, <2>2
    <3> HIDE DEF values, addr
    <3> QED
      BY <3>1, <3>2, RegsPut
  <2> HIDE DEF r, good, rsp, new
  <2>3. r.mem \in Memory
    BY <2>1, <2>2, HandledKeeps
  <2> QED
    BY <2>3 DEF r
<1>9. WriteCoils(p, stale, wfault, m).mem \in Memory
  <2> DEFINE values == [i \in 1 .. n |-> CoilAt(Data(p, 7, stale), i - 1)]
  <2> DEFINE r == WriteCoils(p, stale, wfault, m)
             good == (~(Len(p) <= 5) /\ n \in 1 .. WriteCoilsMax /\ p[6] = Byte(ByteCount(n))) /\ addr + n <= NCoils
             rsp == SubSeq(p, 1, 5)
             new == PutCoils(m, addr, values)
  <2>1. Handled(r, good, wfault, rsp, new, m)
    BY WriteCoilsOf
  <2>2. ASSUME good PROVE new \in Memory
    <3>1. values \in Seq(Bits)
      BY <2>2, CoilsWritten DEF Bits
    <3>2. addr \in Nat
      BY <1>2, <2>2
    <3> HIDE DEF values, addr
    <3> QED
      BY <3>1, <3>2, CoilsPut
  <2> HIDE DEF r, good, rsp, new
  <2>3. r.mem \in Memory
    BY <2>1, <2>2, HandledKeeps
  <2> QED
    BY <2>3 DEF r
<1>10. WriteRegisters(p, stale, wfault, m).mem \in Memory
  <2> DEFINE values == Registers(Data(p, 7, stale), n)
  <2> DEFINE r == WriteRegisters(p, stale, wfault, m)
             good == (~(Len(p) < 6) /\ n \in 1 .. WriteRegsMax /\ p[6] = Byte(2 * n)) /\ addr + n <= NRegs
             rsp == SubSeq(p, 1, 5)
             new == PutRegs(m, addr, values)
  <2>1. Handled(r, good, wfault, rsp, new, m)
    BY WriteRegistersOf
  <2>2. ASSUME good PROVE new \in Memory
    <3>1. values \in Seq(UInt16)
      BY <1>1, <1>2, <2>2, RegistersWritten
    <3>2. addr \in Nat
      BY <1>2, <2>2
    <3> HIDE DEF values, addr
    <3> QED
      BY <3>1, <3>2, RegsPut
  <2> HIDE DEF r, good, rsp, new
  <2>3. r.mem \in Memory
    BY <2>1, <2>2, HandledKeeps
  <2> QED
    BY <2>3 DEF r
<1>11. WriteRead(p, stale, wfault, rfault, m).mem \in Memory
  <2>1. CASE Len(p) < 10
    BY <2>1 DEF WriteRead, Answer
  <2>2. CASE ~(Len(p) < 10)
    <3>1. WriteReadOk(p) => Rewritten(p, stale, m) \in Memory
      BY <1>1, <2>2, RewrittenOf
    <3> DEFINE r == WriteRead(p, stale, wfault, rfault, m)
               rsp == <<p[1], Byte(2 * n)>> \o Words(Items(Rewritten(p, stale, m).regs, addr, n))
    <3>2. (WriteReadOk(p) /\ r = Answer(rsp, Rewritten(p, stale, m)))
            \/ r.mem = m \/ (WriteReadOk(p) /\ r.mem = Rewritten(p, stale, m))
      BY <2>2, WriteReadOf DEF HandledTwice
    <3> HIDE DEF r, rsp
    <3>3. r.mem \in Memory
      BY <3>1, <3>2 DEF Answer
    <3> QED
      BY <3>3 DEF r
  <2> QED
    BY <2>1, <2>2
<1>12. Refusal("ILLEGAL_FUNCTION", m).mem \in Memory
  BY DEF Refusal
<1> HIDE DEF addr, n
<1> QED
  BY <1>1, <1>3, <1>4, <1>5, <1>6, <1>7, <1>8, <1>9, <1>10, <1>11, <1>12 DEF Dispatch

-----------------------------------------------------------------------------
(* What the master may expect *)

ReadFuncs == ReadBitsFuncs \cup ReadRegsFuncs
CoilWriteFuncs == {WRITE_SINGLE_COIL, WRITE_MULTIPLE_COILS}
RegWriteFuncs == {WRITE_REGISTER, WRITE_MULTIPLE_REGISTERS, READWRITE_MULTIPLE_REGISTERS}
WriteFuncs == EchoFuncs \cup MultipleFuncs \cup {READWRITE_MULTIPLE_REGISTERS}

Funcs == 1 .. 127

(* The size of the table a function is about. *)
Size(func) ==
  CASE func = READ_DISCRETE_INPUTS -> Len(Discretes)
    [] func = READ_INPUT_REGISTER -> Len(Inputs)
    [] func \in {READ_COILS, WRITE_SINGLE_COIL, WRITE_MULTIPLE_COILS} -> NCoils
    [] OTHER -> NRegs

(* A request c that writes a lies within the limits and the tables. *)
Within(c, a) ==
  CASE c.func \in ReadBitsFuncs -> c.nb \in 1 .. (ReadBitsMax - 1)
    [] c.func = READ_HOLDING_REGISTER -> c.nb \in 1 .. ReadHoldingMax
    [] c.func = READ_INPUT_REGISTER -> c.nb \in 1 .. (ReadInputMax - 1)
    [] c.func \in EchoFuncs -> TRUE
    [] c.func = WRITE_MULTIPLE_COILS -> c.nb \in 1 .. WriteCoilsMax
    [] c.func = WRITE_MULTIPLE_REGISTERS -> c.nb \in 1 .. WriteRegsMax
    [] OTHER -> c.nb \in 1 .. RWReadMax /\ Len(a.values) \in 1 .. RWWriteMax

Good(c, a) ==
  /\ Within(c, a)
  /\ c.addr + c.nb <= Size(c.func) /\ a.addr + Len(a.values) <= Size(c.func)

(* The data of a callback are true of the memory m, and so is the write. *)
Told(c, data, a, m) ==
  /\ c.func \in ReadFuncs =>
       \A i \in 0 .. (c.nb - 1) :
         Table(c.func, m)[c.addr + i] =
           IF c.func \in ReadBitsFuncs THEN CoilAt(data, i) ELSE WordAt(data, i)
  /\ c.func \in WriteFuncs =>
       \A i \in 1 .. Len(a.values) : Table(c.func, m)[a.addr + i - 1] = a.values[i]

WrittenBy(old, new, a) ==
  \A x \in DOMAIN new : new[x] # old[x] =>
    \E i \in 1 .. Len(a.values) : x = a.addr + i - 1 /\ new[x] = a.values[i]

Exact(c, a, old, new) ==
  /\ WrittenBy(old.coils, new.coils, a) /\ WrittenBy(old.regs, new.regs, a)
  /\ new.coils # old.coils => c.func \in CoilWriteFuncs
  /\ new.regs # old.regs => c.func \in RegWriteFuncs

(* What the slave's result r of the request p means to the master who made   *)
(* the request c, writing a, when the memory was m.                          *)
Fulfils(c, a, p, r, m, clean) ==
  LET q == ResponsePdu(p, r) IN
  /\ Validated(c, q) => Told(c, CallData(c, q), a, r.mem)
  /\ Good(c, a) /\ clean => Validated(c, q)
  /\ Exact(c, a, m, r.mem)

USE DEF READ_COILS, READ_DISCRETE_INPUTS, READ_HOLDING_REGISTER, READ_INPUT_REGISTER, WRITE_SINGLE_COIL,
        WRITE_REGISTER, WRITE_MULTIPLE_COILS, WRITE_MULTIPLE_REGISTERS, READWRITE_MULTIPLE_REGISTERS

(* A memory that did not change was written exactly.                        *)
LEMMA NothingWritten ==
  ASSUME NEW c, NEW a, NEW m
  PROVE  Exact(c, a, m, m)
  BY DEF Exact, WrittenBy

(* No exception passes modbus_rtu_validate_response: its function code differs. *)
LEMMA RefusedResponse ==
  ASSUME NEW c, c.func \in Funcs, NEW p, p[1] = c.func, NEW r, r.ex \in Exceptions
  PROVE  ~Validated(c, ResponsePdu(p, r))
<1>1. ErrorFunc(p[1]) # c.func
  BY DEF ErrorFunc, Funcs
<1>2. r.ex # "NONE"
  BY DEF Exceptions
<1>3. ResponsePdu(p, r)[1] = ErrorFunc(p[1])
  BY <1>2 DEF ResponsePdu
<1> QED
  BY <1>1, <1>3 DEF Validated

(* The response PDU of a request that is answered.                          *)
LEMMA AnswerResponse ==
  ASSUME NEW p, NEW rsp, NEW new
  PROVE  ResponsePdu(p, Answer(rsp, new)) = rsp /\ Answer(rsp, new).mem = new
  BY DEF ResponsePdu, Answer

(* A response that brings data behind its byte count. *)
Reply(func, count, data) == <<func, count>> \o data
Brings(q, func, count, data) ==
  Len(q) = 2 + count /\ q[1] = func /\ q[2] = count /\ SubSeq(q, 3, Len(q)) = data

(* The data behind a byte count, read back.                                 *)
LEMMA AnswerOf ==
  ASSUME NEW func \in UInt8, NEW count \in Nat, count \in UInt8, NEW data \in Pdus, Len(data) = count
  PROVE  Brings(Reply(func, count, data), func, count, data)
<1> SUFFICES ASSUME NEW q, q = <<func, count>> \o data
             PROVE  Len(q) = 2 + count /\ q[1] = func /\ q[2] = count /\ SubSeq(q, 3, Len(q)) = data
  BY DEF Reply, Brings
<1> DEFINE s == <<func, count>>
<1>1. s \in Pdus /\ Len(s) = 2 /\ s[1] = func /\ s[2] = count
  BY DEF Pdus
<1>2. q = s \o data
  OBVIOUS
<1> HIDE DEF s
<1>3. /\ q \in Pdus /\ Len(q) = Len(s) + Len(data)
      /\ \A i \in 1 .. Len(s) : q[i] = s[i]
      /\ \A i \in 1 .. Len(data) : q[Len(s) + i] = data[i]
  <2>1. /\ s \o data \in Pdus /\ Len(s \o data) = Len(s) + Len(data)
        /\ \A i \in 1 .. Len(s) : (s \o data)[i] = s[i]
        /\ \A i \in 1 .. Len(data) : (s \o data)[Len(s) + i] = data[i]
    BY <1>1, Joined, Zenon
  <2> QED
    BY <1>2, <2>1
<1>4. /\ Len(q) = 2 + count /\ q[1] = func /\ q[2] = count
      /\ \A i \in 1 .. count : q[2 + i] = data[i]
  BY <1>1, <1>3
<1>5. /\ SubSeq(q, 3, Len(q)) \in Seq(UInt8) /\ Len(SubSeq(q, 3, Len(q))) = count
      /\ \A i \in 1 .. count : SubSeq(q, 3, Len(q))[i] = q[2 + i]
  BY <1>3, <1>4 DEF Pdus
<1>6. SubSeq(q, 3, Len(q)) = data
  BY <1>4, <1>5 DEF Pdus
<1> QED
  BY <1>4, <1>6

AreItems(items, S, table, addr, n) ==
  items \in Seq(S) /\ Len(items) = n /\ \A j \in 1 .. n : items[j] = table[addr + j - 1]

(* A run inside a table.                                                    *)
LEMMA ItemsOf ==
  ASSUME NEW size \in Nat, NEW S, NEW table \in Tables(size, S), NEW addr \in Nat, NEW n \in Nat,
         addr + n <= size
  PROVE  AreItems(Items(table, addr, n), S, table, addr, n)
<1>1. \A i \in 1 .. n : addr + i - 1 \in 0 .. (size - 1)
  OBVIOUS
<1>2. Items(table, addr, n) \in [1 .. n -> S]
  BY <1>1 DEF Items, Tables
<1>3. \A j \in 1 .. n : Items(table, addr, n)[j] = table[addr + j - 1]
  BY DEF Items
<1> QED
  BY <1>2, <1>3 DEF AreItems

(* The table a function is about, and its size.                             *)
LEMMA TableOf ==
  ASSUME NEW m \in Memory, NEW func \in Funcs
  PROVE  /\ Size(func) \in Nat /\ DOMAIN Table(func, m) = 0 .. (Size(func) - 1)
         /\ func \in ReadBitsFuncs => Table(func, m) \in Tables(Size(func), Bits)
         /\ func \in ReadRegsFuncs => Table(func, m) \in Tables(Size(func), UInt16)
<1>1. /\ NCoils \in Nat /\ NRegs \in Nat /\ Len(Discretes) \in Nat /\ Len(Inputs) \in Nat
      /\ FromZero(Discretes) \in [0 .. (Len(Discretes) - 1) -> Bits]
      /\ FromZero(Inputs) \in [0 .. (Len(Inputs) - 1) -> UInt16]
  BY MemoryAssumption DEF FromZero, Bits
<1>2. m.coils \in [0 .. (NCoils - 1) -> Bits] /\ m.regs \in [0 .. (NRegs - 1) -> UInt16]
  BY DEF Memory, Bits
<1> QED
  BY <1>1, <1>2 DEF Table, Size, Tables, ReadBitsFuncs, ReadRegsFuncs

(* What is left to show of a handler: its answer is validated if the request *)
(* is good, what it tells is true, and it writes what it should.             *)
LEMMA HandledFulfils ==
  ASSUME NEW c, c.func \in Funcs, NEW a, NEW p, p[1] = c.func, NEW m, NEW r, NEW good, NEW fault,
         NEW rsp, NEW new, Handled(r, good, fault, rsp, new, m),
         NEW clean, clean => fault = "NOERR",
         good /\ Validated(c, rsp) => Told(c, CallData(c, rsp), a, new),
         Good(c, a) => good /\ Validated(c, rsp),
         good => Exact(c, a, m, new)
  PROVE  Fulfils(c, a, p, r, m, clean)
<1>1. CASE good /\ fault = "NOERR" /\ r = Answer(rsp, new)
  <2>1. ResponsePdu(p, r) = rsp /\ r.mem = new
    BY <1>1, AnswerResponse
  <2> QED
    BY <1>1, <2>1 DEF Fulfils
<1>2. CASE ~(good /\ fault = "NOERR") /\ r.ex \in Exceptions /\ r.mem = m
  <2>1. ~Validated(c, ResponsePdu(p, r))
    BY <1>2, RefusedResponse
  <2>2. Exact(c, a, m, r.mem)
    BY <1>2, NothingWritten
  <2>3. ~(Good(c, a) /\ clean)
    BY <1>2
  <2> QED
    BY <2>1, <2>2, <2>3 DEF Fulfils
<1> QED
  BY <1>1, <1>2 DEF Handled

(* Reading coils or discrete inputs: packing, the byte count and its check. *)
LEMMA ReadBitsFulfils ==
  ASSUME NEW m \in Memory, NEW c, c.func \in ReadBitsFuncs, c.addr \in UInt16, c.nb \in UInt16,
         NEW a, NEW p, p = Header(c.func, c.addr, c.nb),
         NEW fault \in Faults, NEW clean, clean => fault = "NOERR"
  PROVE  Fulfils(c, a, p, ReadBits(p, Table(c.func, m), Size(c.func), fault, m), m, clean)
<1>1. c.func \in UInt8 /\ c.func \in Funcs
  BY Ranges DEF ReadBitsFuncs, Funcs
<1>2. PICK addr \in Nat, n \in Nat, size \in Nat :
        c.addr = addr /\ c.nb = n /\ Size(c.func) = size /\ addr \in UInt16 /\ n \in UInt16
  BY <1>1, TableOf, WordIsNat
<1> DEFINE table == Table(c.func, m)
           r == ReadBits(p, table, size, fault, m)
           items == Items(table, addr, n)
           data == Pack(items)
           rsp == <<p[1], Byte(ByteCount(n))>> \o data
           good == (Len(p) = 5 /\ n \in 1 .. (ReadBitsMax - 1)) /\ addr + n <= size
<1>3. p \in Pdus /\ Len(p) = 5 /\ p[1] = c.func /\ Word(p, 2) = addr /\ Word(p, 4) = n
  BY <1>2, <1>1, HeaderOf DEF IsHeader
<1>4. table \in Tables(size, Bits)
  BY <1>2, <1>1, TableOf
<1>5. ReadBitsMax \in Nat /\ ByteCount(ReadBitsMax) < 256
  BY LimitsAssumption, RoomAssumption DEF Limits, ByteCount
<1>6. Handled(r, good, fault, rsp, m, m)
  BY <1>3, <1>4, ReadBitsOf
<1>7. ASSUME good PROVE Validated(c, rsp) /\ Told(c, CallData(c, rsp), a, m)
  <2>1. items \in Seq(Bits) /\ Len(items) = n /\ \A j \in 1 .. n : items[j] = table[addr + j - 1]
    <3>1. addr + n <= size
      BY <1>7
    <3> HIDE DEF table
    <3>2. AreItems(items, Bits, table, addr, n)
      BY <1>4, <3>1, ItemsOf
    <3> QED
      BY <3>2 DEF AreItems
  <2> HIDE DEF items
  <2>2. /\ data \in Pdus /\ Len(data) = ByteCount(n)
        /\ \A i \in 0 .. (n - 1) : CoilAt(data, i) = items[i + 1]
    BY <2>1, Packed DEF Pdus
  <2> HIDE DEF data
  <2>3. PICK k \in Nat : k = ByteCount(n) /\ 8 * k >= n
    BY ByteCounts
  <2>4. k < 256
    BY <2>3, <1>5, <1>7 DEF ByteCount
  <2>5. Byte(k) = k /\ k \in UInt8
    BY <2>3, <2>4, Ranges DEF Byte
  <2>6. rsp = Reply(c.func, k, data)
    BY <1>3, <2>3, <2>5 DEF Reply
  <2> HIDE DEF rsp
  <2>7. /\ Len(rsp) = 2 + k /\ rsp[1] = c.func /\ rsp[2] = k
         /\ SubSeq(rsp, 3, Len(rsp)) = data
    <3>1. Len(data) = k
      BY <2>2, <2>3
    <3>2. Brings(Reply(c.func, k, data), c.func, k, data)
      BY <1>1, <2>2, <2>5, <3>1, AnswerOf
    <3> QED
      BY <3>2, <2>6 DEF Brings
  <2>8. Validated(c, rsp)
    <3>1. Len(rsp) = 2 + rsp[2] /\ 8 * rsp[2] >= c.nb
      BY <1>2, <2>3, <2>7
    <3>2. c.func \notin ReadRegsFuncs \cup {READWRITE_MULTIPLE_REGISTERS} \cup EchoFuncs \cup MultipleFuncs
      BY DEF ReadBitsFuncs, ReadRegsFuncs, EchoFuncs, MultipleFuncs
    <3> QED
      BY <2>7, <3>1, <3>2 DEF Validated
  <2>9. CallData(c, rsp) = data
    BY <2>7 DEF CallData
  <2>10. c.func \notin WriteFuncs
    BY DEF WriteFuncs, ReadBitsFuncs, EchoFuncs, MultipleFuncs
  <2>11. \A i \in 0 .. (n - 1) : Table(c.func, m)[addr + i] = CoilAt(data, i)
    <3> TAKE i \in 0 .. (n - 1)
    <3>1. i + 1 \in 1 .. n /\ addr + (i + 1) - 1 = addr + i
      BY <1>2
    <3> QED
      BY <2>1, <2>2, <3>1
  <2> QED
    BY <2>8, <2>9, <2>10, <2>11, <1>2 DEF Told
<1>8. Good(c, a) => good
  <2>1. Within(c, a) => n \in 1 .. (ReadBitsMax - 1)
    BY <1>2 DEF Within, ReadBitsFuncs, EchoFuncs
  <2>2. Good(c, a) => Within(c, a) /\ addr + n <= size
    BY <1>2 DEF Good
  <2> QED
    BY <1>3, <2>1, <2>2
<1> HIDE DEF r, rsp, good
<1>9. Exact(c, a, m, m)
  BY NothingWritten
<1>10. Fulfils(c, a, p, r, m, clean)
  BY <1>1, <1>3, <1>6, <1>7, <1>8, <1>9, HandledFulfils
<1> QED
  BY <1>2, <1>10 DEF r

(* A response that brings words. *)
BringsWords(rsp, func, table, addr, n) ==
  \E data \in Pdus :
    Brings(rsp, func, 2 * n, data) /\ \A i \in 0 .. (n - 1) : WordAt(data, i) = table[addr + i]

(* A response to a read of registers, read back.                            *)
LEMMA WordsAnswer ==
  ASSUME NEW func \in UInt8, NEW size \in Nat, NEW table \in Tables(size, UInt16),
         NEW addr \in Nat, NEW n \in Nat, addr + n <= size, 2 * n < 256
  PROVE  BringsWords(<<func, Byte(2 * n)>> \o Words(Items(table, addr, n)), func, table, addr, n)
<1> DEFINE items == Items(table, addr, n)
           data == Words(items)
<1>1. items \in Seq(UInt16) /\ Len(items) = n /\ \A j \in 1 .. n : items[j] = table[addr + j - 1]
  BY ItemsOf DEF AreItems
<1> HIDE DEF items
<1>2. /\ data \in Pdus /\ Len(data) = 2 * n
      /\ \A j \in 1 .. n : data[2 * j - 1] = Hi(items[j]) /\ data[2 * j] = Lo(items[j])
  <2>1. /\ data \in Seq(UInt8) /\ Len(data) = 2 * Len(items)
        /\ \A j \in 1 .. Len(items) : data[2 * j - 1] = Hi(items[j]) /\ data[2 * j] = Lo(items[j])
    BY <1>1, WordsOf, Zenon
  <2> QED
    BY <2>1, <1>1 DEF Pdus
<1> HIDE DEF data
<1>3. PICK k \in Nat : k = 2 * n /\ k \in UInt8 /\ Byte(k) = k
  BY Ranges DEF Byte
<1>4. Brings(Reply(func, k, data), func, k, data)
  BY <1>2, <1>3, AnswerOf
<1>5. \A i \in 0 .. (n - 1) : WordAt(data, i) = table[addr + i]
  <2> TAKE i \in 0 .. (n - 1)
  <2>1. /\ i + 1 \in 1 .. n /\ addr + (i + 1) - 1 = addr + i
        /\ 2 * (i + 1) - 1 = 2 * i + 1 /\ 2 * (i + 1) = (2 * i + 1) + 1
    OBVIOUS
  <2>2. items[i + 1] \in UInt16 /\ items[i + 1] = table[addr + i]
    BY <1>1, <2>1
  <2>3. data[2 * i + 1] = Hi(items[i + 1]) /\ data[(2 * i + 1) + 1] = Lo(items[i + 1])
    BY <1>2, <2>1
  <2>4. WordAt(data, i) = 256 * Hi(items[i + 1]) + Lo(items[i + 1])
    BY <2>3 DEF WordAt, Word
  <2> QED
    BY <2>2, <2>4, WordOfBytes
<1>6. <<func, Byte(2 * n)>> \o Words(Items(table, addr, n)) = Reply(func, k, data)
  BY <1>3 DEF Reply, data, items
<1> QED
  BY <1>2, <1>3, <1>4, <1>5, <1>6 DEF BringsWords

AreWords(data, table, addr, n) == \A i \in 0 .. (n - 1) : WordAt(data, i) = table[addr + i]

(* What a master makes of a response that brings words.                      *)
LEMMA WordsValidated ==
  ASSUME NEW c, c.func \in ReadRegsFuncs \cup {READWRITE_MULTIPLE_REGISTERS},
         NEW n \in Nat, NEW rsp, NEW table, NEW addr \in Nat, BringsWords(rsp, c.func, table, addr, n)
  PROVE  /\ Validated(c, rsp) <=> n = c.nb
         /\ c.func \in ReadRegsFuncs => AreWords(CallData(c, rsp), table, addr, n)
<1>1. PICK data \in Pdus :
        Brings(rsp, c.func, 2 * n, data) /\ \A i \in 0 .. (n - 1) : WordAt(data, i) = table[addr + i]
  BY DEF BringsWords
<1>2. /\ Len(rsp) = 2 + 2 * n /\ rsp[1] = c.func /\ rsp[2] = 2 * n /\ SubSeq(rsp, 3, Len(rsp)) = data
  BY <1>1 DEF Brings
<1>3. (2 * n) \div 2 = n
  OBVIOUS
<1>4. c.func \notin ReadBitsFuncs \cup EchoFuncs \cup MultipleFuncs
  BY DEF ReadBitsFuncs, ReadRegsFuncs, EchoFuncs, MultipleFuncs
<1>5. Validated(c, rsp) <=> n = c.nb
  BY <1>2, <1>3, <1>4 DEF Validated
<1>6. c.func \in ReadRegsFuncs => CallData(c, rsp) = data
  BY <1>2, <1>4 DEF CallData
<1> QED
  BY <1>1, <1>5, <1>6 DEF AreWords

(* Reading input registers.                                                 *)
LEMMA ReadInputFulfils ==
  ASSUME NEW m \in Memory, NEW c, c.func = READ_INPUT_REGISTER, c.addr \in UInt16, c.nb \in UInt16,
         NEW a, NEW p, p = Header(c.func, c.addr, c.nb),
         NEW fault \in Faults, NEW clean, clean => fault = "NOERR"
  PROVE  Fulfils(c, a, p, ReadInput(p, fault, m), m, clean)
<1>1. c.func \in UInt8 /\ c.func \in Funcs /\ c.func \in ReadRegsFuncs
  BY Ranges DEF ReadRegsFuncs, Funcs
<1>2. PICK addr \in Nat, n \in Nat, size \in Nat :
        c.addr = addr /\ c.nb = n /\ Size(c.func) = size /\ addr \in UInt16 /\ n \in UInt16
  BY <1>1, TableOf, WordIsNat
<1>3. size = Len(Inputs)
  BY <1>2 DEF Size
<1> DEFINE table == Table(c.func, m)
           r == ReadInput(p, fault, m)
           rsp == <<p[1], Byte(2 * n)>> \o Words(Items(table, addr, n))
           good == (Len(p) = 5 /\ n \in 1 .. (ReadInputMax - 1)) /\ addr + n <= size
<1>4. p \in Pdus /\ Len(p) = 5 /\ p[1] = c.func /\ Word(p, 2) = addr /\ Word(p, 4) = n
  BY <1>1, <1>2, HeaderOf DEF IsHeader
<1>5. table \in Tables(size, UInt16)
  BY <1>1, <1>2, TableOf
<1>6. ReadInputMax \in Nat /\ 2 * ReadInputMax < 256
  BY LimitsAssumption, RoomAssumption DEF Limits
<1>7. table = FromZero(Inputs)
  BY DEF Table
<1> HIDE DEF table
<1>8. Handled(r, good, fault, rsp, m, m)
  <2>1. Handled(ReadInput(p, fault, m),
                (Len(p) = 5 /\ Word(p, 4) \in 1 .. (ReadInputMax - 1)) /\ Word(p, 2) + Word(p, 4) <= Len(Inputs),
                fault,
                <<p[1], Byte(2 * Word(p, 4))>> \o Words(Items(FromZero(Inputs), Word(p, 2), Word(p, 4))), m, m)
    BY <1>4, ReadInputOf, Zenon
  <2> QED
    BY <2>1, <1>3, <1>4, <1>7
<1>9. ASSUME good PROVE Validated(c, rsp) /\ Told(c, CallData(c, rsp), a, m)
  <2>1. addr + n <= size /\ 2 * n < 256
    BY <1>6, <1>9
  <2>2. BringsWords(rsp, c.func, table, addr, n)
    BY <1>1, <1>4, <1>5, <2>1, WordsAnswer
  <2> HIDE DEF rsp
  <2>3. Validated(c, rsp) /\ \A i \in 0 .. (n - 1) : WordAt(CallData(c, rsp), i) = table[addr + i]
    <3>1. c.func \in ReadRegsFuncs \cup {READWRITE_MULTIPLE_REGISTERS} /\ n = c.nb
      BY <1>1, <1>2
    <3>2. Validated(c, rsp)
      BY <2>2, <3>1, WordsValidated
    <3>3. AreWords(CallData(c, rsp), table, addr, n)
      BY <1>1, <2>2, <3>1, WordsValidated
    <3> QED
      BY <3>2, <3>3 DEF AreWords
  <2>4. c.func \notin WriteFuncs /\ c.func \notin ReadBitsFuncs
    BY DEF WriteFuncs, ReadBitsFuncs, EchoFuncs, MultipleFuncs
  <2> QED
    BY <1>2, <2>3, <2>4 DEF Told, table
<1>10. Good(c, a) => good
  <2>1. Within(c, a) => n \in 1 .. (ReadInputMax - 1)
    BY <1>2 DEF Within, ReadBitsFuncs, EchoFuncs
  <2>2. Good(c, a) => Within(c, a) /\ addr + n <= size
    BY <1>2 DEF Good
  <2> QED
    BY <1>4, <2>1, <2>2
<1>11. Exact(c, a, m, m)
  BY NothingWritten
<1> HIDE DEF r, rsp, good
<1>12. Fulfils(c, a, p, r, m, clean)
  BY <1>1, <1>4, <1>8, <1>9, <1>10, <1>11, HandledFulfils
<1> QED
  BY <1>12 DEF r

(* The count is its low byte: a request for more than 255 registers that the *)
(* slave serves is not validated.                                            *)
LEMMA ReadHoldingFulfils ==
  ASSUME NEW m \in Memory, NEW c, c.func = READ_HOLDING_REGISTER, c.addr \in UInt16, c.nb \in UInt16,
         NEW a, NEW p, p = Header(c.func, c.addr, c.nb),
         NEW fault \in Faults, NEW clean, clean => fault = "NOERR"
  PROVE  Fulfils(c, a, p, ReadHolding(p, fault, m), m, clean)
<1>1. c.func \in UInt8 /\ c.func \in Funcs /\ c.func \in ReadRegsFuncs
  BY Ranges DEF ReadRegsFuncs, Funcs
<1>2. PICK addr \in Nat, n \in Nat, size \in Nat, h \in Nat :
        /\ c.addr = addr /\ c.nb = n /\ Size(c.func) = size /\ addr \in UInt16 /\ n \in UInt16
        /\ h = Lo(n)
  <2>1. Lo(c.nb) \in UInt8
    BY WordOfBytes
  <2>2. Lo(c.nb) \in Nat
    BY <2>1, Ranges
  <2> QED
    BY <1>1, <2>2, TableOf, WordIsNat
<1>3. size = NRegs
  BY <1>2 DEF Size
<1> DEFINE table == Table(c.func, m)
           r == ReadHolding(p, fault, m)
           rsp == <<p[1], Byte(2 * h)>> \o Words(Items(table, addr, h))
           good == (Len(p) = 5 /\ h \in 1 .. ReadHoldingMax) /\ addr + h <= size
<1>4. p \in Pdus /\ Len(p) = 5 /\ p[1] = c.func /\ Word(p, 2) = addr /\ p[5] = h
  BY <1>1, <1>2, HeaderOf DEF IsHeader
<1>5. table \in Tables(size, UInt16)
  BY <1>1, <1>2, TableOf
<1>6. ReadHoldingMax \in Nat /\ 2 * ReadHoldingMax < 256
  BY LimitsAssumption, RoomAssumption DEF Limits
<1>7. table = m.regs
  BY DEF Table
<1> HIDE DEF table
<1>8. Handled(r, good, fault, rsp, m, m)
  <2>1. Handled(ReadHolding(p, fault, m),
                (Len(p) = 5 /\ p[5] \in 1 .. ReadHoldingMax) /\ Word(p, 2) + p[5] <= NRegs,
                fault,
                <<p[1], Byte(2 * p[5])>> \o Words(Items(m.regs, Word(p, 2), p[5])), m, m)
    BY <1>4, ReadHoldingOf, Zenon
  <2> QED
    BY <2>1, <1>3, <1>4, <1>7
<1>9. ASSUME good
      PROVE  (Validated(c, rsp) <=> h = n) /\ (Validated(c, rsp) => Told(c, CallData(c, rsp), a, m))
  <2>1. addr + h <= size /\ 2 * h < 256
    BY <1>6, <1>9
  <2>2. BringsWords(rsp, c.func, table, addr, h)
    BY <1>1, <1>4, <1>5, <2>1, WordsAnswer
  <2> HIDE DEF rsp
  <2>3. c.func \in ReadRegsFuncs \cup {READWRITE_MULTIPLE_REGISTERS}
    BY <1>1
  <2>4. /\ Validated(c, rsp) <=> h = c.nb
        /\ AreWords(CallData(c, rsp), table, addr, h)
    BY <1>1, <2>2, <2>3, WordsValidated
  <2>5. c.func \notin WriteFuncs /\ c.func \notin ReadBitsFuncs
    BY DEF WriteFuncs, ReadBitsFuncs, EchoFuncs, MultipleFuncs
  <2> QED
    BY <1>2, <2>4, <2>5 DEF Told, AreWords, table
<1>10. Good(c, a) => good /\ h = n
  <2>1. Within(c, a) => n \in 1 .. ReadHoldingMax
    BY <1>2 DEF Within, ReadBitsFuncs, EchoFuncs
  <2>2. Good(c, a) => Within(c, a) /\ addr + n <= size
    BY <1>2 DEF Good
  <2>3. n \in 1 .. ReadHoldingMax => h = n
    BY <1>2, <1>6 DEF Lo
  <2> QED
    BY <1>4, <2>1, <2>2, <2>3
<1>11. Exact(c, a, m, m)
  BY NothingWritten
<1> HIDE DEF r, rsp, good
<1>12. Fulfils(c, a, p, r, m, clean)
  BY <1>1, <1>4, <1>8, <1>9, <1>10, <1>11, HandledFulfils
<1> QED
  BY <1>12 DEF r

-----------------------------------------------------------------------------
(* The requests that write *)

(* A write of coils inside the table, as the master meant it.               *)
LEMMA CoilsExact ==
  ASSUME NEW m \in Memory, NEW c, c.func \in CoilWriteFuncs, NEW a, a.addr \in Nat, a.values \in Seq(Bits),
         a.addr + Len(a.values) <= NCoils
  PROVE  LET new == PutCoils(m, a.addr, a.values)
         IN  Exact(c, a, m, new) /\ \A data : Told(c, data, a, new)
<1> SUFFICES ASSUME NEW new, new = PutCoils(m, a.addr, a.values)
             PROVE  Exact(c, a, m, new) /\ \A data : Told(c, data, a, new)
  OBVIOUS
<1>1. PICK addr \in Nat, values \in Seq(Bits) : addr = a.addr /\ values = a.values
  OBVIOUS
<1>2. new = PutCoils(m, addr, values) /\ addr + Len(values) <= NCoils
  BY <1>1
<1>3. /\ new.regs = m.regs
      /\ \A i \in 1 .. Len(values) : new.coils[addr + i - 1] = values[i]
      /\ \A x \in DOMAIN new.coils : new.coils[x] # m.coils[x] =>
           \E i \in 1 .. Len(values) : x = addr + i - 1 /\ new.coils[x] = values[i]
  <2> DEFINE w == PutCoils(m, addr, values)
  <2>1. /\ w \in Memory /\ w.regs = m.regs
        /\ addr + Len(values) <= NCoils =>
             \A i \in 1 .. Len(values) : w.coils[addr + i - 1] = values[i]
        /\ \A x \in DOMAIN w.coils : w.coils[x] # m.coils[x] =>
             \E i \in 1 .. Len(values) : x = addr + i - 1 /\ w.coils[x] = values[i]
    BY CoilsPut, Zenon
  <2> HIDE DEF w
  <2>2. new = w
    BY <1>2 DEF w
  <2> QED
    BY <1>2, <2>1, <2>2
<1>4. Exact(c, a, m, new)
  BY <1>1, <1>3 DEF Exact, WrittenBy
<1>5. Table(c.func, new) = new.coils /\ c.func \notin ReadFuncs
  BY DEF Table, CoilWriteFuncs, ReadFuncs, ReadBitsFuncs, ReadRegsFuncs
<1> QED
  BY <1>1, <1>3, <1>4, <1>5 DEF Told

(* A write of registers inside the table, as the master meant it.           *)
LEMMA RegsExact ==
  ASSUME NEW m \in Memory, NEW c, c.func \in RegWriteFuncs, NEW a, a.addr \in Nat, a.values \in Seq(UInt16),
         a.addr + Len(a.values) <= NRegs
  PROVE  LET new == PutRegs(m, a.addr, a.values)
         IN  Exact(c, a, m, new) /\ \A data : Told(c, data, a, new)
<1> SUFFICES ASSUME NEW new, new = PutRegs(m, a.addr, a.values)
             PROVE  Exact(c, a, m, new) /\ \A data : Told(c, data, a, new)
  OBVIOUS
<1>1. PICK addr \in Nat, values \in Seq(UInt16) : addr = a.addr /\ values = a.values
  OBVIOUS
<1>2. new = PutRegs(m, addr, values) /\ addr + Len(values) <= NRegs
  BY <1>1
<1>3. /\ new.coils = m.coils
      /\ \A i \in 1 .. Len(values) : new.regs[addr + i - 1] = values[i]
      /\ \A x \in DOMAIN new.regs : new.regs[x] # m.regs[x] =>
           \E i \in 1 .. Len(values) : x = addr + i - 1 /\ new.regs[x] = values[i]
  <2> DEFINE w == PutRegs(m, addr, values)
  <2>1. /\ w \in Memory /\ w.coils = m.coils
        /\ addr + Len(values) <= NRegs =>
             \A i \in 1 .. Len(values) : w.regs[addr + i - 1] = values[i]
        /\ \A x \in DOMAIN w.regs : w.regs[x] # m.regs[x] =>
             \E i \in 1 .. Len(values) : x = addr + i - 1 /\ w.regs[x] = values[i]
    BY RegsPut, Zenon
  <2> HIDE DEF w
  <2>2. new = w
    BY <1>2 DEF w
  <2> QED
    BY <1>2, <2>1, <2>2
<1>4. Exact(c, a, m, new)
  BY <1>1, <1>3 DEF Exact, WrittenBy
<1>5. Table(c.func, new) = new.regs /\ c.func \notin ReadFuncs
  BY DEF Table, RegWriteFuncs, ReadFuncs, ReadBitsFuncs, ReadRegsFuncs
<1> QED
  BY <1>1, <1>3, <1>4, <1>5 DEF Told

(* Writing one coil, the response an echo.                                  *)
LEMMA WriteCoilFulfils ==
  ASSUME NEW m \in Memory, NEW c, c.func = WRITE_SINGLE_COIL, c.addr \in UInt16, c.nb = 1,
         NEW v \in Bits, c.value = CoilValue(v),
         NEW a, a.addr = c.addr, a.values = <<v>>, NEW p, p = Header(c.func, c.addr, c.value),
         NEW fault \in Faults, NEW clean, clean => fault = "NOERR"
  PROVE  Fulfils(c, a, p, WriteCoil(p, fault, m), m, clean)
<1>1. c.func \in UInt8 /\ c.func \in Funcs /\ c.func \in CoilWriteFuncs
  BY Ranges DEF CoilWriteFuncs, Funcs
<1>2. PICK addr \in Nat : c.addr = addr /\ addr \in UInt16
  BY WordIsNat
<1>3. c.value \in {ON, 0} /\ c.value \in UInt16 /\ (Hi(c.value) = 255 <=> v = 1)
  <2>1. ON \in UInt16 /\ 0 \in UInt16 /\ Hi(ON) = 255 /\ Hi(0) = 0
    BY Ranges DEF ON, Hi
  <2> QED
    BY <2>1 DEF CoilValue, Bits
<1>4. p \in Pdus /\ Len(p) = 5 /\ p[1] = c.func /\ Word(p, 2) = addr /\ Word(p, 4) = c.value
      /\ p[4] = Hi(c.value)
  BY <1>1, <1>2, <1>3, HeaderOf DEF IsHeader
<1>5. <<IF p[4] = 255 THEN 1 ELSE 0>> = a.values /\ a.values \in Seq(Bits) /\ Len(a.values) = 1
  BY <1>3, <1>4 DEF Bits
<1> DEFINE new == PutCoils(m, a.addr, a.values)
           r == WriteCoil(p, fault, m)
           good == addr + 1 <= NCoils
<1>6. Handled(r, good, fault, p, new, m)
  <2>1. Handled(r, (Len(p) = 5 /\ Word(p, 4) \in {ON, 0}) /\ Word(p, 2) + 1 <= NCoils, fault, p,
                PutCoils(m, Word(p, 2), <<IF p[4] = 255 THEN 1 ELSE 0>>), m)
    BY <1>4, WriteCoilOf
  <2>2. new = PutCoils(m, Word(p, 2), <<IF p[4] = 255 THEN 1 ELSE 0>>)
    BY <1>2, <1>4, <1>5
  <2>3. good <=> (Len(p) = 5 /\ Word(p, 4) \in {ON, 0}) /\ Word(p, 2) + 1 <= NCoils
    BY <1>3, <1>4
  <2> HIDE DEF new, r, good
  <2> QED
    BY <2>1, <2>2, <2>3
<1>7. ASSUME good PROVE Exact(c, a, m, new) /\ Told(c, CallData(c, p), a, new)
  <2>1. a.addr \in Nat /\ a.addr + Len(a.values) <= NCoils
    BY <1>2, <1>5, <1>7
  <2> QED
    BY <1>1, <1>5, <2>1, CoilsExact
<1>8. Validated(c, p)
  BY <1>2, <1>4 DEF Validated, ReadBitsFuncs, ReadRegsFuncs, EchoFuncs, MultipleFuncs
<1>9. Good(c, a) => good
  BY <1>2 DEF Good, Size
<1> HIDE DEF new, r, good
<1>10. Fulfils(c, a, p, r, m, clean)
  BY <1>1, <1>4, <1>6, <1>7, <1>8, <1>9, HandledFulfils
<1> QED
  BY <1>10 DEF r

(* Writing one register, the response an echo.                              *)
LEMMA WriteRegisterFulfils ==
  ASSUME NEW m \in Memory, NEW c, c.func = WRITE_REGISTER, c.addr \in UInt16, c.nb = 1, c.value \in UInt16,
         NEW a, a.addr = c.addr, a.values = <<c.value>>, NEW p, p = Header(c.func, c.addr, c.value),
         NEW fault \in Faults, NEW clean, clean => fault = "NOERR"
  PROVE  Fulfils(c, a, p, WriteRegister(p, fault, m), m, clean)
<1>1. c.func \in UInt8 /\ c.func \in Funcs /\ c.func \in RegWriteFuncs
  BY Ranges DEF RegWriteFuncs, Funcs
<1>2. PICK addr \in Nat : c.addr = addr /\ addr \in UInt16
  BY WordIsNat
<1>3. c.value \in UInt16
  OBVIOUS
<1>4. p \in Pdus /\ Len(p) = 5 /\ p[1] = c.func /\ Word(p, 2) = addr /\ Word(p, 4) = c.value
  <2>1. IsHeader(p, c.func, c.addr, c.value)
    BY <1>1, <1>3, HeaderOf, Zenon
  <2> QED
    BY <1>2, <2>1 DEF IsHeader
<1>5. a.values \in Seq(UInt16) /\ Len(a.values) = 1
  OBVIOUS
<1> DEFINE new == PutRegs(m, a.addr, a.values)
           r == WriteRegister(p, fault, m)
           good == addr + 1 <= NRegs
<1>6. Handled(r, good, fault, p, new, m)
  <2>1. Handled(r, Len(p) = 5 /\ Word(p, 2) + 1 <= NRegs, fault, p,
                PutRegs(m, Word(p, 2), <<Word(p, 4)>>), m)
    BY <1>4, WriteRegisterOf, Zenon
  <2>2. new = PutRegs(m, Word(p, 2), <<Word(p, 4)>>)
    BY <1>2, <1>4
  <2>3. good <=> Len(p) = 5 /\ Word(p, 2) + 1 <= NRegs
    BY <1>4
  <2> HIDE DEF new, r, good
  <2> QED
    BY <2>1, <2>2, <2>3
<1>7. ASSUME good PROVE Exact(c, a, m, new) /\ Told(c, CallData(c, p), a, new)
  <2>1. a.addr \in Nat /\ a.addr + Len(a.values) <= NRegs
    BY <1>2, <1>5, <1>7
  <2> QED
    BY <1>1, <1>5, <2>1, RegsExact
<1>8. Validated(c, p)
  BY <1>2, <1>4 DEF Validated, ReadBitsFuncs, ReadRegsFuncs, EchoFuncs, MultipleFuncs
<1>9. Good(c, a) => good
  BY <1>2 DEF Good, Size
<1> HIDE DEF new, r, good
<1>10. Fulfils(c, a, p, r, m, clean)
  BY <1>1, <1>4, <1>6, <1>7, <1>8, <1>9, HandledFulfils
<1> QED
  BY <1>10 DEF r

(* A request that brings data behind a header and a byte count. *)
IsWrite(p, func, addr, v, b, data) ==
  /\ p \in Pdus /\ Len(p) = 6 + Len(data)
  /\ p[1] = func /\ Word(p, 2) = addr /\ Word(p, 4) = v /\ p[6] = b
  /\ SubSeq(p, 1, 5) = Header(func, addr, v)
  /\ \A stale : Arrives(Data(p, 7, stale), data)

(* The request of mb_master_write_multiple_coils or _registers, read back.  *)
LEMMA WriteOf ==
  ASSUME NEW func \in UInt8, NEW addr \in UInt16, NEW v \in UInt16, NEW b \in UInt8, NEW data \in Pdus
  PROVE  IsWrite(Header(func, addr, v) \o <<b>> \o data, func, addr, v, b, data)
<1> DEFINE h == Header(func, addr, v)
           s == h \o <<b>>
           p == s \o data
<1>1. /\ h \in Pdus /\ Len(h) = 5 /\ h[1] = func
      /\ Word(h, 2) = addr /\ Word(h, 4) = v
  BY HeaderOf DEF IsHeader
<1> HIDE DEF h
<1>2. <<b>> \in Pdus /\ Len(<<b>>) = 1 /\ <<b>>[1] = b
  BY DEF Pdus
<1>3. /\ s \in Pdus /\ Len(s) = 6 /\ s[6] = b
      /\ \A i \in 1 .. 5 : s[i] = h[i]
  <2>1. /\ s \in Pdus /\ Len(s) = Len(h) + Len(<<b>>)
        /\ \A i \in 1 .. Len(h) : s[i] = h[i]
        /\ \A i \in 1 .. Len(<<b>>) : s[Len(h) + i] = <<b>>[i]
    BY <1>1, <1>2, Joined, Zenon
  <2> HIDE DEF s
  <2>2. 1 \in 1 .. 1 /\ 5 + 1 = 6
    OBVIOUS
  <2> QED
    BY <1>1, <1>2, <2>1, <2>2
<1> HIDE DEF s
<1>4. /\ p \in Pdus /\ Len(p) = Len(s) + Len(data)
      /\ \A i \in 1 .. Len(s) : p[i] = s[i]
      /\ \A i \in 1 .. Len(data) : p[Len(s) + i] = data[i]
  BY <1>3, Joined, Zenon
<1>5. \A stale : Arrives(Data(p, 7, stale), data)
  <2>1. \A stale : Arrives(Data(p, Len(s) + 1, stale), data)
    BY <1>3, DataOf, Zenon
  <2>2. Len(s) + 1 = 7
    BY <1>3
  <2> QED
    BY <2>1, <2>2, Zenon
<1> HIDE DEF p
<1>6. /\ p \in Pdus /\ Len(p) = 6 + Len(data) /\ p[6] = b
      /\ \A i \in 1 .. 5 : p[i] = h[i]
  BY <1>3, <1>4
<1>7. p[1] = func /\ Word(p, 2) = addr /\ Word(p, 4) = v
  BY <1>1, <1>6 DEF Word
<1>8. SubSeq(p, 1, 5) = h
  <2>1. Len(data) \in Nat
    BY DEF Pdus
  <2> QED
    BY <1>1, <1>6, <2>1 DEF Pdus
<1>9. IsWrite(p, func, addr, v, b, data)
  BY <1>5, <1>6, <1>7, <1>8 DEF IsWrite, h
<1> QED
  BY <1>9 DEF p, s, h

(* The first five bytes are what is answered, and what is validated. *)
LEMMA HeaderValidated ==
  ASSUME NEW c, c.func \in MultipleFuncs, c.addr \in UInt16, c.nb \in UInt16
  PROVE  Validated(c, Header(c.func, c.addr, c.nb))
<1>1. c.func \in UInt8
  BY Ranges DEF MultipleFuncs
<1>2. IsHeader(Header(c.func, c.addr, c.nb), c.func, c.addr, c.nb)
  BY <1>1, HeaderOf
<1>3. c.func \notin ReadBitsFuncs \cup ReadRegsFuncs \cup {READWRITE_MULTIPLE_REGISTERS} \cup EchoFuncs
  BY DEF ReadBitsFuncs, ReadRegsFuncs, EchoFuncs, MultipleFuncs
<1> QED
  BY <1>2, <1>3 DEF Validated, IsHeader

(* The coils unpacked are those that were packed.                           *)
LEMMA CoilsArrive ==
  ASSUME NEW values \in Seq(Bits), Len(values) <= WriteCoilsMax,
         NEW data, Arrives(data, Pack(values))
  PROVE  [i \in 1 .. Len(values) |-> CoilAt(data, i - 1)] = values
<1> SUFFICES ASSUME NEW n \in Nat, n = Len(values)
             PROVE  [i \in 1 .. n |-> CoilAt(data, i - 1)] = values
  OBVIOUS
<1>1. WriteCoilsMax \in Nat /\ ByteCount(WriteCoilsMax) < 256
  BY LimitsAssumption, RoomAssumption DEF Limits
<1>2. /\ Len(Pack(values)) = ByteCount(n)
      /\ \A i \in 0 .. (n - 1) :
           i \div 8 + 1 \in 1 .. ByteCount(n) /\ CoilAt(Pack(values), i) = values[i + 1]
  BY Packed
<1>3. ASSUME NEW i \in 1 .. n
      PROVE  CoilAt(data, i - 1) = values[i]
  <2>1. PICK j \in Nat : j = i - 1 /\ j \in 0 .. (n - 1) /\ i = j + 1
    OBVIOUS
  <2>2. j \div 8 + 1 \in 1 .. UINT8_MAX
    BY <1>1, <2>1, ByteCountGrows
  <2>3. j \div 8 + 1 \in 1 .. Len(Pack(values))
    BY <1>2, <2>1
  <2>4. data[j \div 8 + 1] = Pack(values)[j \div 8 + 1]
    BY <2>2, <2>3 DEF Arrives
  <2>5. CoilAt(data, j) = CoilAt(Pack(values), j)
    BY <2>4 DEF CoilAt
  <2> QED
    BY <1>2, <2>1, <2>5
<1>4. values = [i \in 1 .. n |-> values[i]]
  OBVIOUS
<1> QED
  BY <1>3, <1>4

(* The bytes of coils that are sent: all of them if a byte can count them.   *)
Sent(values) == SubSeq(Pack(values), 1, Byte(ByteCount(Len(values))))

(* What is sent is bytes. *)
LEMMA SentOf ==
  ASSUME NEW values \in Seq(Bits)
  PROVE  /\ Sent(values) \in Pdus
         /\ ByteCount(Len(values)) < 256 => Sent(values) = Pack(values)
<1>1. PICK k \in Nat : k = ByteCount(Len(values))
  BY ByteCounts
<1>2. PICK b \in Nat : b = Byte(k) /\ b <= k /\ (k < 256 => b = k)
  BY DEF Byte
<1>3. PICK packed \in Seq(UInt8) : packed = Pack(values) /\ Len(packed) = k
  BY <1>1, Packed
<1>4. SubSeq(packed, 1, b) \in Seq(UInt8) /\ (b = k => SubSeq(packed, 1, b) = packed)
  BY <1>2, <1>3
<1> QED
  BY <1>1, <1>2, <1>3, <1>4 DEF Sent, Pdus

(* Writing coils.                                                           *)
LEMMA WriteCoilsFulfils ==
  ASSUME NEW m \in Memory, NEW c, c.func = WRITE_MULTIPLE_COILS, c.addr \in UInt16, c.nb \in UInt16,
         NEW a, a.addr = c.addr, a.values \in Seq(Bits), Len(a.values) = c.nb,
         NEW p, p = WriteCoilsPdu(a.addr, a.values),
         NEW stale, NEW fault \in Faults, NEW clean, clean => fault = "NOERR"
  PROVE  Fulfils(c, a, p, WriteCoils(p, stale, fault, m), m, clean)
<1>1. c.func \in UInt8 /\ c.func \in Funcs /\ c.func \in CoilWriteFuncs /\ c.func \in MultipleFuncs
  BY Ranges DEF CoilWriteFuncs, Funcs, MultipleFuncs
<1>2. PICK addr \in Nat, n \in Nat, b \in Nat :
        /\ c.addr = addr /\ c.nb = n /\ addr \in UInt16 /\ n \in UInt16
        /\ b = Byte(ByteCount(n)) /\ b \in UInt8
  <2>1. PICK n \in Nat : c.nb = n /\ n \in UInt16
    BY WordIsNat
  <2>2. PICK k \in Nat : k = ByteCount(n)
    BY ByteCounts
  <2>3. Byte(k) \in Nat /\ Byte(k) \in UInt8
    BY Ranges DEF Byte
  <2> QED
    BY <2>1, <2>2, <2>3, WordIsNat
<1>3. PICK values \in Seq(Bits) : values = a.values /\ Len(values) = n
  BY <1>2
<1> DEFINE data == Sent(values)
           head == Header(c.func, addr, n)
           raw == [i \in 1 .. n |-> CoilAt(Data(p, 7, stale), i - 1)]
           new == PutCoils(m, addr, values)
           r == WriteCoils(p, stale, fault, m)
           good == n \in 1 .. WriteCoilsMax /\ addr + n <= NCoils
<1>4. data \in Pdus
  BY SentOf
<1>5. IsWrite(p, c.func, addr, n, b, data)
  <2>1. p = Header(c.func, addr, n) \o <<b>> \o data
    BY <1>2, <1>3 DEF WriteCoilsPdu, Sent
  <2> HIDE DEF data
  <2> QED
    BY <1>1, <1>2, <1>4, <2>1, WriteOf
<1>6. /\ p \in Pdus /\ 5 < Len(p) /\ p[1] = c.func /\ Word(p, 2) = addr /\ Word(p, 4) = n /\ p[6] = b
      /\ SubSeq(p, 1, 5) = head
      /\ Arrives(Data(p, 7, stale), data)
  BY <1>4, <1>5 DEF IsWrite, Pdus
<1>7. good => raw = values
  <2>1. ASSUME Len(values) <= WriteCoilsMax
        PROVE  [i \in 1 .. Len(values) |-> CoilAt(Data(p, 7, stale), i - 1)] = values
    <3>1. WriteCoilsMax \in Nat /\ ByteCount(WriteCoilsMax) < 256
      BY LimitsAssumption, RoomAssumption DEF Limits
    <3>2. ByteCount(Len(values)) < 256
      BY <2>1, <3>1 DEF ByteCount
    <3>3. Arrives(Data(p, 7, stale), Pack(values))
      BY <1>6, <3>2, SentOf
    <3> QED
      BY <2>1, <3>3, CoilsArrive
  <2>2. raw = [i \in 1 .. Len(values) |-> CoilAt(Data(p, 7, stale), i - 1)]
    BY <1>3
  <2>3. good => Len(values) <= WriteCoilsMax
    BY <1>3
  <2> HIDE DEF raw, good
  <2> QED
    BY <2>1, <2>2, <2>3, Zenon
<1> HIDE DEF data, head
<1>8. Handled(r, good, fault, head, new, m)
  <2>1. Handled(r, (~(Len(p) <= 5) /\ Word(p, 4) \in 1 .. WriteCoilsMax /\ p[6] = Byte(ByteCount(Word(p, 4))))
                     /\ Word(p, 2) + Word(p, 4) <= NCoils,
                fault, SubSeq(p, 1, 5),
                PutCoils(m, Word(p, 2), [i \in 1 .. Word(p, 4) |-> CoilAt(Data(p, 7, stale), i - 1)]), m)
    BY <1>6, WriteCoilsOf, Zenon
  <2>2. Handled(r, (~(Len(p) <= 5) /\ n \in 1 .. WriteCoilsMax /\ b = Byte(ByteCount(n))) /\ addr + n <= NCoils,
                fault, head, PutCoils(m, addr, raw), m)
    BY <1>6, <2>1
  <2>3. good <=> (~(Len(p) <= 5) /\ n \in 1 .. WriteCoilsMax /\ b = Byte(ByteCount(n))) /\ addr + n <= NCoils
    <3>1. Len(p) \in Nat
      BY <1>6 DEF Pdus
    <3> QED
      BY <1>2, <1>6, <3>1
  <2>4. good => PutCoils(m, addr, raw) = new
    BY <1>7
  <2> HIDE DEF r, raw, new, good
  <2> QED
    BY <2>2, <2>3, <2>4 DEF Handled
<1>9. ASSUME good PROVE Exact(c, a, m, new) /\ \A d : Told(c, d, a, new)
  <2>1. a.addr \in Nat /\ a.addr + Len(a.values) <= NCoils
    BY <1>2, <1>3, <1>9
  <2>2. new = PutCoils(m, a.addr, a.values)
    BY <1>2, <1>3
  <2> HIDE DEF new
  <2> QED
    BY <1>1, <1>3, <2>1, <2>2, CoilsExact
<1>10. Validated(c, head)
  BY <1>1, <1>2, HeaderValidated DEF head
<1>11. Good(c, a) => good
  BY <1>2, <1>3 DEF Good, Within, Size, ReadBitsFuncs, EchoFuncs
<1> HIDE DEF new, r, good
<1>12. Fulfils(c, a, p, r, m, clean)
  BY <1>1, <1>6, <1>8, <1>9, <1>10, <1>11, HandledFulfils
<1> QED
  BY <1>12 DEF r

(* The registers decoded are those that were encoded.                       *)
LEMMA RegsArrive ==
  ASSUME NEW values \in Seq(UInt16), 2 * Len(values) < 256,
         NEW data, Arrives(data, Words(values))
  PROVE  Registers(data, Len(values)) = values
<1>1. PICK n \in Nat : n = Len(values)
  OBVIOUS
<1>2. /\ Len(Words(values)) = 2 * n
      /\ \A i \in 1 .. n : Words(values)[2 * i - 1] = Hi(values[i]) /\ Words(values)[2 * i] = Lo(values[i])
  <2>1. /\ Len(Words(values)) = 2 * Len(values)
        /\ \A i \in 1 .. Len(values) :
             Words(values)[2 * i - 1] = Hi(values[i]) /\ Words(values)[2 * i] = Lo(values[i])
    BY WordsOf, Zenon
  <2> QED
    BY <1>1, <2>1
<1>3. ASSUME NEW i \in 1 .. n
      PROVE  WordAt(data, i - 1) = values[i]
  <2>1. PICK j \in Nat, k \in Nat : j = 2 * i - 1 /\ k = 2 * i /\ k = j + 1 /\ 2 * (i - 1) + 1 = j
    OBVIOUS
  <2>2. j \in 1 .. UINT8_MAX /\ k \in 1 .. UINT8_MAX /\ j \in 1 .. 2 * n /\ k \in 1 .. 2 * n
    BY <1>1, <2>1 DEF UINT8_MAX
  <2>3. data[j] = Hi(values[i]) /\ data[k] = Lo(values[i])
    BY <1>2, <2>1, <2>2 DEF Arrives
  <2>4. values[i] \in UInt16
    BY <1>1
  <2>5. WordAt(data, i - 1) = 256 * Hi(values[i]) + Lo(values[i])
    BY <2>1, <2>3 DEF WordAt, Word
  <2> QED
    BY <2>4, <2>5, WordOfBytes
<1>4. values = [i \in 1 .. n |-> values[i]]
  BY <1>1
<1> QED
  BY <1>1, <1>3, <1>4 DEF Registers

(* Writing registers.                                                       *)
LEMMA WriteRegistersFulfils ==
  ASSUME NEW m \in Memory, NEW c, c.func = WRITE_MULTIPLE_REGISTERS, c.addr \in UInt16, c.nb \in UInt16,
         NEW a, a.addr = c.addr, a.values \in Seq(UInt16), Len(a.values) = c.nb,
         NEW p, p = WriteRegistersPdu(a.addr, a.values),
         NEW stale, NEW fault \in Faults, NEW clean, clean => fault = "NOERR"
  PROVE  Fulfils(c, a, p, WriteRegisters(p, stale, fault, m), m, clean)
<1>1. c.func \in UInt8 /\ c.func \in Funcs /\ c.func \in RegWriteFuncs /\ c.func \in MultipleFuncs
  BY Ranges DEF RegWriteFuncs, Funcs, MultipleFuncs
<1>2. PICK addr \in Nat, n \in Nat, b \in Nat :
        /\ c.addr = addr /\ c.nb = n /\ addr \in UInt16 /\ n \in UInt16
        /\ b = Byte(2 * n) /\ b \in UInt8
  <2>1. PICK n \in Nat : c.nb = n /\ n \in UInt16
    BY WordIsNat
  <2>2. PICK k \in Nat : k = 2 * n
    OBVIOUS
  <2>3. Byte(k) \in Nat /\ Byte(k) \in UInt8
    BY Ranges DEF Byte
  <2> QED
    BY <2>1, <2>2, <2>3, WordIsNat
<1>3. PICK values \in Seq(UInt16) : values = a.values /\ Len(values) = n
  BY <1>2
<1> DEFINE data == Words(values)
           head == Header(c.func, addr, n)
           raw == Registers(Data(p, 7, stale), n)
           new == PutRegs(m, addr, values)
           r == WriteRegisters(p, stale, fault, m)
           good == n \in 1 .. WriteRegsMax /\ addr + n <= NRegs
<1>4. data \in Pdus
  BY WordsOf, Zenon DEF Pdus
<1>5. IsWrite(p, c.func, addr, n, b, data)
  <2>1. p = Header(c.func, addr, n) \o <<b>> \o data
    BY <1>2, <1>3 DEF WriteRegistersPdu
  <2> HIDE DEF data
  <2> QED
    BY <1>1, <1>2, <1>4, <2>1, WriteOf
<1> HIDE DEF data
<1>6. /\ p \in Pdus /\ 5 < Len(p) /\ p[1] = c.func /\ Word(p, 2) = addr /\ Word(p, 4) = n /\ p[6] = b
      /\ SubSeq(p, 1, 5) = head
      /\ Arrives(Data(p, 7, stale), data)
  BY <1>4, <1>5 DEF IsWrite, Pdus
<1>7. good => raw = values
  <2>1. 2 * Len(values) < 256 => Registers(Data(p, 7, stale), Len(values)) = values
    BY <1>6, RegsArrive DEF data
  <2>2. good => 2 * Len(values) < 256
    <3>1. WriteRegsMax \in Nat /\ 2 * WriteRegsMax < 256
      BY LimitsAssumption, RoomAssumption DEF Limits
    <3>2. n \in 1 .. WriteRegsMax => 2 * n < 256
      BY <3>1
    <3> QED
      BY <1>3, <3>2
  <2>3. raw = Registers(Data(p, 7, stale), Len(values))
    BY <1>3
  <2> HIDE DEF raw, good
  <2> QED
    BY <2>1, <2>2, <2>3, Zenon
<1> HIDE DEF head
<1>8. Handled(r, good, fault, head, new, m)
  <2>1. Handled(r, (~(Len(p) < 6) /\ Word(p, 4) \in 1 .. WriteRegsMax /\ p[6] = Byte(2 * Word(p, 4)))
                     /\ Word(p, 2) + Word(p, 4) <= NRegs,
                fault, SubSeq(p, 1, 5),
                PutRegs(m, Word(p, 2), Registers(Data(p, 7, stale), Word(p, 4))), m)
    BY <1>6, WriteRegistersOf, Zenon
  <2>2. Handled(r, (~(Len(p) < 6) /\ n \in 1 .. WriteRegsMax /\ b = Byte(2 * n)) /\ addr + n <= NRegs,
                fault, head, PutRegs(m, addr, raw), m)
    BY <1>6, <2>1
  <2>3. good <=> (~(Len(p) < 6) /\ n \in 1 .. WriteRegsMax /\ b = Byte(2 * n)) /\ addr + n <= NRegs
    <3>1. Len(p) \in Nat
      BY <1>6 DEF Pdus
    <3> QED
      BY <1>2, <1>6, <3>1
  <2>4. good => PutRegs(m, addr, raw) = new
    BY <1>7
  <2> HIDE DEF r, raw, new, good
  <2> QED
    BY <2>2, <2>3, <2>4 DEF Handled
<1>9. ASSUME good PROVE Exact(c, a, m, new) /\ \A d : Told(c, d, a, new)
  <2>1. a.addr \in Nat /\ a.addr + Len(a.values) <= NRegs
    BY <1>2, <1>3, <1>9
  <2>2. new = PutRegs(m, a.addr, a.values)
    BY <1>2, <1>3
  <2> HIDE DEF new
  <2> QED
    BY <1>1, <1>3, <2>1, <2>2, RegsExact
<1>10. Validated(c, head)
  BY <1>1, <1>2, HeaderValidated DEF head
<1>11. Good(c, a) => good
  BY <1>2, <1>3 DEF Good, Within, Size, ReadBitsFuncs, EchoFuncs
<1> HIDE DEF new, r, good
<1>12. Fulfils(c, a, p, r, m, clean)
  BY <1>1, <1>6, <1>8, <1>9, <1>10, <1>11, HandledFulfils
<1> QED
  BY <1>12 DEF r

(* The request that writes and reads: n words at waddr, then nb from raddr.  *)
IsWriteRead(p, raddr, nb, waddr, n, data) ==
  /\ p \in Pdus /\ Len(p) = 10 + Len(data) /\ p[1] = READWRITE_MULTIPLE_REGISTERS
  /\ Word(p, 2) = raddr /\ Word(p, 4) = nb /\ Word(p, 6) = waddr /\ Word(p, 8) = n
  /\ p[10] = Byte(2 * n)
  /\ \A stale : Arrives(Data(p, 11, stale), data)

(* The request of mb_master_write_and_read_registers, read back.            *)
LEMMA WriteReadPduOf ==
  ASSUME NEW raddr \in UInt16, NEW nb \in UInt16, NEW waddr \in UInt16,
         NEW n \in Nat, n \in UInt16, NEW data \in Pdus
  PROVE  IsWriteRead(Header(READWRITE_MULTIPLE_REGISTERS, raddr, nb)
                       \o <<Hi(waddr), Lo(waddr), Hi(n), Lo(n), Byte(2 * n)>> \o data,
                     raddr, nb, waddr, n, data)
<1> DEFINE h == Header(READWRITE_MULTIPLE_REGISTERS, raddr, nb)
           t == <<Hi(waddr), Lo(waddr), Hi(n), Lo(n), Byte(2 * n)>>
           s == h \o t
           p == s \o data
<1>1. /\ h \in Pdus /\ Len(h) = 5 /\ h[1] = READWRITE_MULTIPLE_REGISTERS
      /\ Word(h, 2) = raddr /\ Word(h, 4) = nb
  <2>1. READWRITE_MULTIPLE_REGISTERS \in UInt8
    BY Ranges
  <2> QED
    BY <2>1, HeaderOf DEF IsHeader
<1>2. /\ t \in Pdus /\ Len(t) = 5 /\ Word(t, 1) = waddr /\ Word(t, 3) = n
      /\ t[5] = Byte(2 * n)
  <2>1. Byte(2 * n) \in UInt8
    <3>1. PICK k \in Nat : k = 2 * n
      OBVIOUS
    <3>2. Byte(k) \in UInt8
      BY Ranges DEF Byte
    <3> QED
      BY <3>1, <3>2
  <2>2. /\ Hi(waddr) \in UInt8 /\ Lo(waddr) \in UInt8 /\ 256 * Hi(waddr) + Lo(waddr) = waddr
        /\ Hi(n) \in UInt8 /\ Lo(n) \in UInt8 /\ 256 * Hi(n) + Lo(n) = n
    BY WordOfBytes
  <2> QED
    BY <2>1, <2>2 DEF Pdus, Word
<1> HIDE DEF h, t
<1>3. /\ s \in Pdus /\ Len(s) = 10
      /\ \A i \in 1 .. 5 : s[i] = h[i] /\ s[5 + i] = t[i]
  <2>1. /\ s \in Pdus /\ Len(s) = Len(h) + Len(t)
        /\ \A i \in 1 .. Len(h) : s[i] = h[i]
        /\ \A i \in 1 .. Len(t) : s[Len(h) + i] = t[i]
    BY <1>1, <1>2, Joined, Zenon
  <2> HIDE DEF s
  <2> QED
    BY <1>1, <1>2, <2>1
<1> HIDE DEF s
<1>4. /\ p \in Pdus /\ Len(p) = Len(s) + Len(data)
      /\ \A i \in 1 .. Len(s) : p[i] = s[i]
  BY <1>3, Joined, Zenon
<1>5. \A stale : Arrives(Data(p, 11, stale), data)
  <2>1. \A stale : Arrives(Data(p, Len(s) + 1, stale), data)
    BY <1>3, DataOf, Zenon
  <2>2. Len(s) + 1 = 11
    BY <1>3
  <2> QED
    BY <2>1, <2>2, Zenon
<1> HIDE DEF p
<1>6. /\ p \in Pdus /\ Len(p) = 10 + Len(data)
      /\ \A i \in 1 .. 5 : p[i] = h[i] /\ p[5 + i] = t[i]
  <2>1. p \in Pdus /\ Len(p) = 10 + Len(data)
    BY <1>3, <1>4
  <2>2. \A i \in 1 .. 10 : p[i] = s[i]
    BY <1>3, <1>4
  <2>3. ASSUME NEW i \in 1 .. 5 PROVE p[i] = h[i] /\ p[5 + i] = t[i]
    <3>1. i \in 1 .. 10 /\ 5 + i \in 1 .. 10
      OBVIOUS
    <3>2. s[i] = h[i] /\ s[5 + i] = t[i]
      BY <1>3
    <3> QED
      BY <2>2, <3>1, <3>2
  <2> QED
    BY <2>1, <2>3
<1>7. p[1] = READWRITE_MULTIPLE_REGISTERS /\ Word(p, 2) = raddr /\ Word(p, 4) = nb
  BY <1>1, <1>6 DEF Word
<1>8. p[6] = t[1] /\ p[7] = t[2] /\ p[8] = t[3] /\ p[9] = t[4] /\ p[10] = t[5]
  <2>1. p[5 + 1] = t[1] /\ p[5 + 2] = t[2] /\ p[5 + 3] = t[3] /\ p[5 + 4] = t[4] /\ p[5 + 5] = t[5]
    BY <1>6
  <2> QED
    BY <2>1
<1>9. Word(p, 6) = waddr /\ Word(p, 8) = n /\ p[10] = Byte(2 * n)
  BY <1>2, <1>8 DEF Word
<1>10. IsWriteRead(p, raddr, nb, waddr, n, data)
  BY <1>5, <1>6, <1>7, <1>9 DEF IsWriteRead
<1> QED
  BY <1>10 DEF p, s, h, t

(* The write may be done when the read is refused: an exception is answered, *)
(* and the memory is that of the write.                                      *)
LEMMA WriteReadFulfils ==
  ASSUME NEW m \in Memory, NEW c, c.func = READWRITE_MULTIPLE_REGISTERS,
         c.addr \in UInt16, c.nb \in UInt16,
         NEW a, a.addr \in UInt16, a.values \in Seq(UInt16), Len(a.values) \in UInt16,
         NEW p, p = WriteReadPdu(a.addr, a.values, c.addr, c.nb),
         NEW stale \in Stales, NEW wfault \in Faults, NEW rfault \in Faults,
         NEW clean, clean => wfault = "NOERR" /\ rfault = "NOERR"
  PROVE  Fulfils(c, a, p, WriteRead(p, stale, wfault, rfault, m), m, clean)
<1>1. c.func \in UInt8 /\ c.func \in Funcs /\ c.func \in RegWriteFuncs
      /\ c.func \in ReadRegsFuncs \cup {READWRITE_MULTIPLE_REGISTERS}
  BY Ranges DEF RegWriteFuncs, Funcs
<1>2. PICK raddr \in Nat, nb \in Nat, waddr \in Nat, n \in Nat, values \in Seq(UInt16) :
        /\ c.addr = raddr /\ c.nb = nb /\ a.addr = waddr /\ a.values = values /\ Len(values) = n
        /\ raddr \in UInt16 /\ nb \in UInt16 /\ waddr \in UInt16 /\ n \in UInt16
  BY WordIsNat
<1> DEFINE data == Words(values)
           raw == Registers(Data(p, 11, stale), n)
           new == PutRegs(m, waddr, values)
           r == WriteRead(p, stale, wfault, rfault, m)
           rsp == <<c.func, Byte(2 * nb)>> \o Words(Items(new.regs, raddr, nb))
           ok == nb \in 1 .. RWReadMax /\ n \in 1 .. RWWriteMax /\ Byte(2 * n) = 2 * n
           written == ok /\ waddr + n <= NRegs
           served == raddr + nb <= NRegs /\ wfault = "NOERR" /\ rfault = "NOERR"
<1>3. data \in Pdus
  BY WordsOf, Zenon DEF Pdus
<1>4. IsWriteRead(p, raddr, nb, waddr, n, data)
  <2>1. p = Header(READWRITE_MULTIPLE_REGISTERS, raddr, nb)
              \o <<Hi(waddr), Lo(waddr), Hi(n), Lo(n), Byte(2 * n)>> \o data
    BY <1>2 DEF WriteReadPdu
  <2> HIDE DEF data
  <2>2. IsWriteRead(Header(READWRITE_MULTIPLE_REGISTERS, raddr, nb)
                      \o <<Hi(waddr), Lo(waddr), Hi(n), Lo(n), Byte(2 * n)>> \o data,
                    raddr, nb, waddr, n, data)
    BY <1>2, <1>3, WriteReadPduOf, Zenon
  <2> QED
    BY <2>1, <2>2
<1> HIDE DEF data
<1>5. /\ p \in Pdus /\ ~(Len(p) < 10) /\ p[1] = c.func
      /\ Word(p, 2) = raddr /\ Word(p, 4) = nb /\ Word(p, 6) = waddr /\ Word(p, 8) = n
      /\ p[10] = Byte(2 * n) /\ Arrives(Data(p, 11, stale), data)
  BY <1>3, <1>4 DEF IsWriteRead, Pdus
<1>6. WriteReadOk(p) <=> ok
  BY <1>5 DEF WriteReadOk
<1>7. RWWriteMax \in Nat /\ 2 * RWWriteMax < 256 /\ RWReadMax \in Nat /\ 2 * RWReadMax < 256
  <2>1. RWWriteMax \in Nat /\ RWReadMax \in Nat /\ RspMax \in Nat
    BY LimitsAssumption DEF Limits
  <2>2. 2 * RWWriteMax < 256 /\ 1 + 2 * RWReadMax < RspMax /\ RspMax < 256
    BY RoomAssumption
  <2> QED
    BY <2>1, <2>2
<1>8. ok => raw = values
  <2>1. 2 * Len(values) < 256 => Registers(Data(p, 11, stale), Len(values)) = values
    BY <1>5, RegsArrive DEF data
  <2>2. ok => 2 * Len(values) < 256
    <3>1. n \in 1 .. RWWriteMax => 2 * n < 256
      BY <1>7
    <3> QED
      BY <1>2, <3>1
  <2>3. raw = Registers(Data(p, 11, stale), Len(values))
    BY <1>2
  <2> HIDE DEF raw, ok
  <2> QED
    BY <2>1, <2>2, <2>3, Zenon
<1>9. ok => Rewritten(p, stale, m) = new
  <2>1. Rewritten(p, stale, m) = PutRegs(m, waddr, raw)
    BY <1>5 DEF Rewritten, PutRegs
  <2> HIDE DEF raw, ok
  <2> QED
    BY <2>1, <1>8
<1>10. HandledTwice(r, written, served, rsp, new, m)
  <2> DEFINE w == Rewritten(p, stale, m)
  <2>1. HandledTwice(r, WriteReadOk(p) /\ Word(p, 6) + Word(p, 8) <= NRegs,
                     Word(p, 2) + Word(p, 4) <= NRegs /\ wfault = "NOERR" /\ rfault = "NOERR",
                     <<p[1], Byte(2 * Word(p, 4))>> \o Words(Items(w.regs, Word(p, 2), Word(p, 4))), w, m)
    BY <1>5, WriteReadOf, Zenon
  <2> HIDE DEF w, r, ok
  <2>2. HandledTwice(r, ok /\ waddr + n <= NRegs,
                     raddr + nb <= NRegs /\ wfault = "NOERR" /\ rfault = "NOERR",
                     <<c.func, Byte(2 * nb)>> \o Words(Items(w.regs, raddr, nb)), w, m)
    BY <1>5, <1>6, <2>1 DEF HandledTwice
  <2>3. ok => w = new
    BY <1>9 DEF w
  <2> HIDE DEF new
  <2> QED
    BY <2>2, <2>3 DEF HandledTwice
<1>11. ASSUME written PROVE Exact(c, a, m, new) /\ (\A d : Told(c, d, a, new)) /\ new \in Memory
  <2>1. a.addr \in Nat /\ a.addr + Len(a.values) <= NRegs
    BY <1>2, <1>11
  <2>2. new = PutRegs(m, a.addr, a.values)
    BY <1>2
  <2>3. new \in Memory
    BY <1>2, RegsPut
  <2> HIDE DEF new
  <2> QED
    BY <1>1, <1>2, <2>1, <2>2, <2>3, RegsExact
<1>12. ASSUME written, served PROVE Validated(c, rsp)
  <2>1. NRegs \in Nat /\ new.regs \in Tables(NRegs, UInt16)
    BY <1>11, <1>12, MemoryAssumption DEF Memory, Tables
  <2>2. raddr + nb <= NRegs /\ 2 * nb < 256
    <3>1. nb \in 1 .. RWReadMax => 2 * nb < 256
      BY <1>7
    <3> QED
      BY <1>12, <3>1
  <2> HIDE DEF new
  <2>3. BringsWords(rsp, c.func, new.regs, raddr, nb)
    BY <1>1, <2>1, <2>2, WordsAnswer
  <2> HIDE DEF rsp
  <2> QED
    BY <1>1, <1>2, <2>3, WordsValidated
<1>13. Good(c, a) /\ clean => written /\ served
  <2>1. Good(c, a) => nb \in 1 .. RWReadMax /\ n \in 1 .. RWWriteMax
    BY <1>2 DEF Good, Within, ReadBitsFuncs, EchoFuncs
  <2>2. Good(c, a) => raddr + nb <= NRegs /\ waddr + n <= NRegs
    BY <1>2 DEF Good, Size
  <2>3. n \in 1 .. RWWriteMax => Byte(2 * n) = 2 * n
    BY <1>7 DEF Byte
  <2> QED
    BY <2>1, <2>2, <2>3
<1> HIDE DEF new, r, rsp, written, served
<1> HIDE DEF ok
<1>14. ASSUME written /\ served /\ r = Answer(rsp, new)
       PROVE  Fulfils(c, a, p, r, m, clean)
  <2>1. ResponsePdu(p, r) = rsp /\ r.mem = new
    BY <1>14, AnswerResponse
  <2>2. Validated(c, rsp) /\ Told(c, CallData(c, rsp), a, new) /\ Exact(c, a, m, new)
    BY <1>11, <1>12, <1>14
  <2> QED
    BY <2>1, <2>2 DEF Fulfils
<1>15. ASSUME ~(written /\ served) /\ r.ex \in Exceptions /\ (r.mem = m \/ (written /\ r.mem = new))
       PROVE  Fulfils(c, a, p, r, m, clean)
  <2>1. ~Validated(c, ResponsePdu(p, r))
    BY <1>1, <1>5, <1>15, RefusedResponse
  <2>2. Exact(c, a, m, r.mem)
    BY <1>11, <1>15, NothingWritten
  <2>3. ~(Good(c, a) /\ clean)
    BY <1>13, <1>15
  <2> QED
    BY <2>1, <2>2, <2>3 DEF Fulfils
<1>16. Fulfils(c, a, p, r, m, clean)
  BY <1>10, <1>14, <1>15 DEF HandledTwice
<1> QED
  BY <1>16 DEF r

-----------------------------------------------------------------------------
(* Every request of the master *)

(* The request the master sent for what it remembers, c and a.               *)
IsRequest(c, a, p) ==
  /\ c.addr \in UInt16 /\ c.nb \in UInt16
  /\ \/ c.func \in ReadFuncs /\ a = NoWrite /\ p = Header(c.func, c.addr, c.nb)
     \/ /\ c.func = WRITE_SINGLE_COIL /\ c.nb = 1 /\ p = Header(c.func, c.addr, c.value)
        /\ \E v \in Bits : c.value = CoilValue(v) /\ a = [addr |-> c.addr, values |-> <<v>>]
     \/ /\ c.func = WRITE_REGISTER /\ c.nb = 1 /\ p = Header(c.func, c.addr, c.value)
        /\ c.value \in UInt16 /\ a = [addr |-> c.addr, values |-> <<c.value>>]
     \/ \E values \in Seq(Bits) :
          /\ c.func = WRITE_MULTIPLE_COILS /\ c.nb = Len(values)
          /\ p = WriteCoilsPdu(c.addr, values) /\ a = [addr |-> c.addr, values |-> values]
     \/ \E values \in Seq(UInt16) :
          /\ c.func = WRITE_MULTIPLE_REGISTERS /\ c.nb = Len(values)
          /\ p = WriteRegistersPdu(c.addr, values) /\ a = [addr |-> c.addr, values |-> values]
     \/ \E waddr \in UInt16, values \in Seq(UInt16) :
          /\ c.func = READWRITE_MULTIPLE_REGISTERS /\ Len(values) \in UInt16
          /\ p = WriteReadPdu(waddr, values, c.addr, c.nb) /\ a = [addr |-> waddr, values |-> values]

(* What stands for a coil in a request is a word.                           *)
LEMMA CoilValueIsWord ==
  ASSUME NEW v
  PROVE  CoilValue(v) \in UInt16
<1>1. ON \in UInt16 /\ 0 \in UInt16
  BY Ranges DEF ON
<1> QED
  BY <1>1 DEF CoilValue

(* A request of the master is a sequence of bytes, its function first.      *)
LEMMA RequestIsPdu ==
  ASSUME NEW c, NEW a, NEW p, IsRequest(c, a, p)
  PROVE  p \in Pdus /\ p[1] = c.func
<1>1. c.addr \in UInt16 /\ c.nb \in UInt16
  BY DEF IsRequest
<1>2. ASSUME NEW v \in UInt16, c.func \in UInt8, p = Header(c.func, c.addr, v)
      PROVE  p \in Pdus /\ p[1] = c.func
  BY <1>1, <1>2, HeaderOf DEF IsHeader
<1>3. CASE c.func \in ReadFuncs /\ p = Header(c.func, c.addr, c.nb)
  <2>1. c.func \in UInt8
    BY <1>3, Ranges DEF ReadFuncs, ReadBitsFuncs, ReadRegsFuncs
  <2> QED
    BY <1>1, <1>2, <1>3, <2>1
<1>4. ASSUME c.func \in EchoFuncs, p = Header(c.func, c.addr, c.value), c.value \in UInt16
      PROVE  p \in Pdus /\ p[1] = c.func
  <2>1. c.func \in UInt8
    BY <1>4, Ranges DEF EchoFuncs
  <2> QED
    BY <1>2, <1>4, <2>1
<1>5. ASSUME c.func \in MultipleFuncs, NEW b \in UInt8, NEW data \in Pdus,
             p = Header(c.func, c.addr, c.nb) \o <<b>> \o data
      PROVE  p \in Pdus /\ p[1] = c.func
  <2>1. c.func \in UInt8
    <3>1. \A func \in MultipleFuncs : func \in UInt8
      BY Ranges DEF MultipleFuncs
    <3> QED
      BY <1>5, <3>1
  <2>2. IsWrite(p, c.func, c.addr, c.nb, b, data)
    BY <1>1, <1>5, <2>1, WriteOf
  <2> QED
    BY <2>2 DEF IsWrite
<1>6. ASSUME NEW values \in Seq(Bits), c.func = WRITE_MULTIPLE_COILS, c.nb = Len(values),
             p = WriteCoilsPdu(c.addr, values)
      PROVE  p \in Pdus /\ p[1] = c.func
  <2>1. PICK b \in UInt8 : b = Byte(ByteCount(Len(values)))
    <3>1. PICK k \in Nat : k = ByteCount(Len(values))
      BY ByteCounts
    <3>2. Byte(k) \in UInt8
      BY Ranges DEF Byte
    <3> QED
      BY <3>1, <3>2
  <2>2. PICK data \in Pdus : data = Sent(values)
    BY SentOf
  <2>3. p = Header(c.func, c.addr, c.nb) \o <<b>> \o data
    BY <1>6, <2>1, <2>2 DEF WriteCoilsPdu, Sent
  <2> QED
    BY <1>5, <1>6, <2>3 DEF MultipleFuncs
<1>7. ASSUME NEW values \in Seq(UInt16), c.func = WRITE_MULTIPLE_REGISTERS, c.nb = Len(values),
             p = WriteRegistersPdu(c.addr, values)
      PROVE  p \in Pdus /\ p[1] = c.func
  <2>1. PICK b \in UInt8 : b = Byte(2 * Len(values))
    <3>1. PICK k \in Nat : k = 2 * Len(values)
      OBVIOUS
    <3>2. Byte(k) \in UInt8
      BY Ranges DEF Byte
    <3> QED
      BY <3>1, <3>2
  <2>2. PICK data \in Pdus : data = Words(values)
    BY WordsOf DEF Pdus
  <2>3. p = Header(c.func, c.addr, c.nb) \o <<b>> \o data
    BY <1>7, <2>1, <2>2 DEF WriteRegistersPdu
  <2> QED
    BY <1>5, <1>7, <2>3 DEF MultipleFuncs
<1>8. ASSUME NEW waddr \in UInt16, NEW values \in Seq(UInt16),
             c.func = READWRITE_MULTIPLE_REGISTERS, Len(values) \in UInt16,
             p = WriteReadPdu(waddr, values, c.addr, c.nb)
      PROVE  p \in Pdus /\ p[1] = c.func
  <2>1. PICK n \in Nat, data \in Pdus : n = Len(values) /\ data = Words(values)
    BY WordsOf DEF Pdus
  <2>2. p = Header(READWRITE_MULTIPLE_REGISTERS, c.addr, c.nb)
              \o <<Hi(waddr), Lo(waddr), Hi(n), Lo(n), Byte(2 * n)>> \o data
    BY <1>8, <2>1 DEF WriteReadPdu
  <2>3. IsWriteRead(Header(READWRITE_MULTIPLE_REGISTERS, c.addr, c.nb)
                      \o <<Hi(waddr), Lo(waddr), Hi(n), Lo(n), Byte(2 * n)>> \o data,
                    c.addr, c.nb, waddr, n, data)
    BY <1>1, <1>8, <2>1, WriteReadPduOf, Zenon
  <2> QED
    BY <1>8, <2>2, <2>3 DEF IsWriteRead
<1> QED
  BY <1>3, <1>4, <1>6, <1>7, <1>8, CoilValueIsWord DEF IsRequest, EchoFuncs

(* What the slave makes of a request of the master, whatever went wrong.     *)
LEMMA RequestFulfilled ==
  ASSUME NEW m \in Memory, NEW c, NEW a, NEW p, IsRequest(c, a, p), NEW stale \in Stales,
         NEW wfault \in Faults, NEW rfault \in Faults,
         NEW clean, clean => wfault = "NOERR" /\ rfault = "NOERR"
  PROVE  Fulfils(c, a, p, Dispatch(p, stale, wfault, rfault, m), m, clean)
<1> DEFINE r == Dispatch(p, stale, wfault, rfault, m)
<1>1. c.addr \in UInt16 /\ c.nb \in UInt16 /\ p[1] = c.func
  BY RequestIsPdu DEF IsRequest
<1>2. ASSUME c.func \in ReadFuncs, p = Header(c.func, c.addr, c.nb)
      PROVE  Fulfils(c, a, p, r, m, clean)
  <2>1. CASE c.func \in ReadBitsFuncs
    <3>1. r = ReadBits(p, Table(c.func, m), Size(c.func), rfault, m)
      BY <1>1, <2>1 DEF Dispatch, ReadDiscretes, Table, Size, ReadBitsFuncs
    <3>2. Fulfils(c, a, p, ReadBits(p, Table(c.func, m), Size(c.func), rfault, m), m, clean)
      BY <1>1, <1>2, <2>1, ReadBitsFulfils, Zenon
    <3> QED
      BY <3>1, <3>2
  <2>2. CASE c.func = READ_INPUT_REGISTER
    <3>1. r = ReadInput(p, rfault, m)
      BY <1>1, <2>2 DEF Dispatch
    <3>2. Fulfils(c, a, p, ReadInput(p, rfault, m), m, clean)
      BY <1>1, <1>2, <2>2, ReadInputFulfils, Zenon
    <3> QED
      BY <3>1, <3>2
  <2>3. CASE c.func = READ_HOLDING_REGISTER
    <3>1. r = ReadHolding(p, rfault, m)
      BY <1>1, <2>3 DEF Dispatch
    <3>2. Fulfils(c, a, p, ReadHolding(p, rfault, m), m, clean)
      BY <1>1, <1>2, <2>3, ReadHoldingFulfils, Zenon
    <3> QED
      BY <3>1, <3>2
  <2> QED
    BY <1>2, <2>1, <2>2, <2>3 DEF ReadFuncs, ReadRegsFuncs
<1>3. ASSUME c.func = WRITE_SINGLE_COIL, c.nb = 1, p = Header(c.func, c.addr, c.value),
             NEW v \in Bits, c.value = CoilValue(v), a = [addr |-> c.addr, values |-> <<v>>]
      PROVE  Fulfils(c, a, p, r, m, clean)
  <2>1. r = WriteCoil(p, wfault, m)
    BY <1>1, <1>3 DEF Dispatch
  <2>2. a.addr = c.addr /\ a.values = <<v>>
    BY <1>3
  <2>3. Fulfils(c, a, p, WriteCoil(p, wfault, m), m, clean)
    BY <1>1, <1>3, <2>2, WriteCoilFulfils, Zenon
  <2> QED
    BY <2>1, <2>3
<1>4. ASSUME c.func = WRITE_REGISTER, c.nb = 1, p = Header(c.func, c.addr, c.value),
             c.value \in UInt16, a = [addr |-> c.addr, values |-> <<c.value>>]
      PROVE  Fulfils(c, a, p, r, m, clean)
  <2>1. r = WriteRegister(p, wfault, m)
    BY <1>1, <1>4 DEF Dispatch
  <2>2. a.addr = c.addr /\ a.values = <<c.value>>
    BY <1>4
  <2>3. Fulfils(c, a, p, WriteRegister(p, wfault, m), m, clean)
    BY <1>1, <1>4, <2>2, WriteRegisterFulfils, Zenon
  <2> QED
    BY <2>1, <2>3
<1>5. ASSUME NEW values \in Seq(Bits), c.func = WRITE_MULTIPLE_COILS, c.nb = Len(values),
             p = WriteCoilsPdu(c.addr, values), a = [addr |-> c.addr, values |-> values]
      PROVE  Fulfils(c, a, p, r, m, clean)
  <2>1. r = WriteCoils(p, stale, wfault, m)
    BY <1>1, <1>5 DEF Dispatch
  <2>2. a.addr = c.addr /\ a.values = values
    BY <1>5
  <2>3. p = WriteCoilsPdu(a.addr, a.values) /\ a.values \in Seq(Bits) /\ Len(a.values) = c.nb
    BY <1>5, <2>2
  <2>4. Fulfils(c, a, p, WriteCoils(p, stale, wfault, m), m, clean)
    BY <1>1, <1>5, <2>2, <2>3, WriteCoilsFulfils, Zenon
  <2> QED
    BY <2>1, <2>4
<1>6. ASSUME NEW values \in Seq(UInt16), c.func = WRITE_MULTIPLE_REGISTERS, c.nb = Len(values),
             p = WriteRegistersPdu(c.addr, values), a = [addr |-> c.addr, values |-> values]
      PROVE  Fulfils(c, a, p, r, m, clean)
  <2>1. r = WriteRegisters(p, stale, wfault, m)
    BY <1>1, <1>6 DEF Dispatch
  <2>2. a.addr = c.addr /\ a.values = values
    BY <1>6
  <2>3. p = WriteRegistersPdu(a.addr, a.values) /\ a.values \in Seq(UInt16) /\ Len(a.values) = c.nb
    BY <1>6, <2>2
  <2>4. Fulfils(c, a, p, WriteRegisters(p, stale, wfault, m), m, clean)
    BY <1>1, <1>6, <2>2, <2>3, WriteRegistersFulfils, Zenon
  <2> QED
    BY <2>1, <2>4
<1>7. ASSUME NEW waddr \in UInt16, NEW values \in Seq(UInt16),
             c.func = READWRITE_MULTIPLE_REGISTERS, Len(values) \in UInt16,
             p = WriteReadPdu(waddr, values, c.addr, c.nb), a = [addr |-> waddr, values |-> values]
      PROVE  Fulfils(c, a, p, r, m, clean)
  <2>1. r = WriteRead(p, stale, wfault, rfault, m)
    BY <1>1, <1>7 DEF Dispatch
  <2>2. a.addr = waddr /\ a.values = values
    BY <1>7
  <2>3. /\ p = WriteReadPdu(a.addr, a.values, c.addr, c.nb)
        /\ a.addr \in UInt16 /\ a.values \in Seq(UInt16) /\ Len(a.values) \in UInt16
    BY <1>7, <2>2
  <2>4. Fulfils(c, a, p, WriteRead(p, stale, wfault, rfault, m), m, clean)
    BY <1>1, <1>7, <2>3, WriteReadFulfils, Zenon
  <2> QED
    BY <2>1, <2>4
<1> HIDE DEF r
<1>8. Fulfils(c, a, p, r, m, clean)
  BY <1>2, <1>3, <1>4, <1>5, <1>6, <1>7 DEF IsRequest
<1> QED
  BY <1>8 DEF r

-----------------------------------------------------------------------------
(* The exchange *)

Contexts == [func : UInt8, addr : UInt16, nb : UInt16, value : UInt16]

(* What holds of a response before the master looks at it: if it validates   *)
(* it, what it tells its user is true; if the request was good and no        *)
(* callback failed, it does.                                                 *)
Settled(c, a, q, m, clean) ==
  /\ Validated(c, q) => Told(c, CallData(c, q), a, m)
  /\ Good(c, a) /\ clean => Validated(c, q)

Inv ==
  /\ mem \in Memory /\ ctx \in Contexts
  /\ phase # "idle" => called = NoCall
  /\ phase = "requested" => IsRequest(ctx, asked, pdu)
  /\ phase = "foreign" => pdu \in Pdus
  /\ phase = "responded" =>
       (\E p : IsRequest(ctx, asked, p)) /\ Settled(ctx, asked, pdu, mem, ~failed)
  /\ ReadsAreTrue /\ ConfirmedWriteIsDone

(* While the user has not been called back, nothing wrong was told.         *)
LEMMA NothingCalled ==
  ASSUME called = NoCall
  PROVE  ReadsAreTrue /\ ConfirmedWriteIsDone
<1>1. called.func = 0
  BY DEF NoCall
<1> QED
  BY <1>1 DEF ReadsAreTrue, ConfirmedWriteIsDone, ReadBitsFuncs, ReadRegsFuncs, EchoFuncs, MultipleFuncs

(* A request keeps the invariant.                                           *)
LEMMA AskKeeps ==
  ASSUME Inv, NEW request \in Contexts, NEW p, NEW write, Ask(request, p, write),
         IsRequest(request, write, p)
  PROVE  Inv'
<1>1. /\ mem' = mem /\ ctx' = request /\ asked' = write /\ pdu' = p
      /\ phase' = "requested" /\ called' = NoCall
  BY DEF Ask, CanAsk
<1>2. (ReadsAreTrue /\ ConfirmedWriteIsDone)'
  <2>1. (called = NoCall)'
    BY <1>1 DEF NoCall
  <2> QED
    BY <2>1, NothingCalled, PTL
<1>3. IsRequest(ctx, asked, pdu)'
  BY <1>1
<1> QED
  BY <1>1, <1>2, <1>3 DEF Inv

(* The invariant holds at first.                                            *)
LEMMA InitInv == Init => Inv
<1> SUFFICES ASSUME Init PROVE Inv
  OBVIOUS
<1>1. 0 \in UInt8 /\ 0 \in UInt16
  BY Ranges
<1>2. ctx \in Contexts /\ mem \in Memory /\ called = NoCall /\ phase = "idle"
  BY <1>1, InitMemoryAssumption DEF Init, Contexts
<1> QED
  BY <1>2, NothingCalled DEF Inv

(* The four reads keep the invariant.                                       *)
LEMMA ReadReqKeeps ==
  ASSUME Inv, ReadReq
  PROVE  Inv'
<1>1. PICK func \in ReadFuncs, addr \in Addrs, nb \in Counts :
        Ask([ctx EXCEPT !.func = func, !.addr = addr, !.nb = nb], Header(func, addr, nb), NoWrite)
  BY DEF ReadReq, ReadFuncs
<1>2. PICK c : c = [ctx EXCEPT !.func = func, !.addr = addr, !.nb = nb]
  OBVIOUS
<1>3. func \in UInt8
  <2>1. \A f \in ReadFuncs : f \in UInt8
    BY Ranges DEF ReadFuncs, ReadBitsFuncs, ReadRegsFuncs
  <2> QED
    BY <2>1
<1>4. c \in Contexts /\ c.func = func /\ c.addr = addr /\ c.nb = nb /\ addr \in UInt16 /\ nb \in UInt16
  BY <1>2, <1>3, AsksAssumption DEF Inv, Contexts
<1>5. IsRequest(c, NoWrite, Header(func, addr, nb))
  BY <1>4 DEF IsRequest
<1> QED
  BY <1>1, <1>2, <1>4, <1>5, AskKeeps

(* The writes of one item keep the invariant.                               *)
LEMMA WriteSingleKeeps ==
  ASSUME Inv, WriteSingleCoil \/ WriteSingleRegister
  PROVE  Inv'
<1>1. WRITE_SINGLE_COIL \in UInt8 /\ WRITE_REGISTER \in UInt8 /\ 1 \in UInt16
  BY Ranges
<1>2. CASE WriteSingleCoil
  <2>1. PICK addr \in Addrs, v \in Bits :
          Ask([func |-> WRITE_SINGLE_COIL, addr |-> addr, nb |-> 1, value |-> CoilValue(v)],
              Header(WRITE_SINGLE_COIL, addr, CoilValue(v)), [addr |-> addr, values |-> <<v>>])
    BY <1>2 DEF WriteSingleCoil, Bits
  <2>2. PICK c : c = [func |-> WRITE_SINGLE_COIL, addr |-> addr, nb |-> 1, value |-> CoilValue(v)]
    OBVIOUS
  <2>3. addr \in UInt16
    BY AsksAssumption
  <2>4. c \in Contexts
    BY <1>1, <2>2, <2>3, CoilValueIsWord DEF Contexts
  <2>5. c.func = WRITE_SINGLE_COIL /\ c.addr = addr /\ c.nb = 1 /\ c.value = CoilValue(v)
    BY <2>2
  <2>6. IsRequest(c, [addr |-> addr, values |-> <<v>>], Header(WRITE_SINGLE_COIL, addr, CoilValue(v)))
    BY <1>1, <2>3, <2>5 DEF IsRequest
  <2> QED
    BY <2>1, <2>2, <2>4, <2>6, AskKeeps
<1>3. CASE WriteSingleRegister
  <2>1. PICK addr \in Addrs, values \in RegRuns :
          /\ Len(values) = 1
          /\ Ask([func |-> WRITE_REGISTER, addr |-> addr, nb |-> 1, value |-> values[1]],
                 Header(WRITE_REGISTER, addr, values[1]), [addr |-> addr, values |-> values])
    BY <1>3 DEF WriteSingleRegister
  <2>2. PICK c : c = [func |-> WRITE_REGISTER, addr |-> addr, nb |-> 1, value |-> values[1]]
    OBVIOUS
  <2>3. addr \in UInt16 /\ values \in Seq(UInt16)
    BY AsksAssumption
  <2>4. values[1] \in UInt16 /\ values = <<values[1]>>
    <3>1. values[1] \in UInt16
      <4>1. \A i \in 1 .. Len(values) : values[i] \in UInt16
        BY <2>3
      <4>2. 1 \in 1 .. Len(values)
        BY <2>1
      <4> QED
        BY <4>1, <4>2
    <3>2. values = [i \in 1 .. 1 |-> values[i]]
      BY <2>1, <2>3
    <3>3. PICK v \in UInt16 : v = values[1]
      BY <3>1
    <3>4. <<v>> = [i \in 1 .. 1 |-> v]
      OBVIOUS
    <3>5. [i \in 1 .. 1 |-> v] = [i \in 1 .. 1 |-> values[i]]
      BY <3>3
    <3> QED
      BY <3>1, <3>2, <3>3, <3>4, <3>5
  <2>5. c \in Contexts
    BY <1>1, <2>2, <2>3, <2>4 DEF Contexts
  <2>6. c.func = WRITE_REGISTER /\ c.addr = addr /\ c.nb = 1 /\ c.value = values[1]
    BY <2>2
  <2>7. IsRequest(c, [addr |-> addr, values |-> values], Header(WRITE_REGISTER, addr, values[1]))
    BY <1>1, <2>3, <2>4, <2>6 DEF IsRequest
  <2> QED
    BY <2>1, <2>2, <2>5, <2>7, AskKeeps
<1> QED
  BY <1>2, <1>3

(* The writes of several keep the invariant.                                *)
LEMMA WriteMultipleKeeps ==
  ASSUME Inv, WriteMultiple
  PROVE  Inv'
<1>1. \A func \in MultipleFuncs : func \in UInt8
  BY Ranges DEF MultipleFuncs
<1>2. PICK addr \in Addrs :
        \/ \E values \in CoilRuns :
             Ask([ctx EXCEPT !.func = WRITE_MULTIPLE_COILS, !.addr = addr, !.nb = Len(values)],
                 WriteCoilsPdu(addr, values), [addr |-> addr, values |-> values])
        \/ \E values \in RegRuns :
             Ask([ctx EXCEPT !.func = WRITE_MULTIPLE_REGISTERS, !.addr = addr, !.nb = Len(values)],
                 WriteRegistersPdu(addr, values), [addr |-> addr, values |-> values])
  BY DEF WriteMultiple
<1>3. addr \in UInt16
  BY AsksAssumption
<1>4. ASSUME NEW values \in CoilRuns,
             Ask([ctx EXCEPT !.func = WRITE_MULTIPLE_COILS, !.addr = addr, !.nb = Len(values)],
                 WriteCoilsPdu(addr, values), [addr |-> addr, values |-> values])
      PROVE  Inv'
  <2>1. PICK c : c = [ctx EXCEPT !.func = WRITE_MULTIPLE_COILS, !.addr = addr, !.nb = Len(values)]
    OBVIOUS
  <2>2. values \in Seq(Bits) /\ Len(values) \in UInt16
    BY AsksAssumption DEF Bits
  <2>3. WRITE_MULTIPLE_COILS \in UInt8
    BY <1>1 DEF MultipleFuncs
  <2>4. c \in Contexts /\ c.func = WRITE_MULTIPLE_COILS /\ c.addr = addr /\ c.nb = Len(values)
    BY <1>3, <2>1, <2>2, <2>3 DEF Inv, Contexts
  <2>5. IsRequest(c, [addr |-> addr, values |-> values], WriteCoilsPdu(addr, values))
    BY <1>3, <2>2, <2>4 DEF IsRequest
  <2> QED
    BY <1>4, <2>1, <2>4, <2>5, AskKeeps
<1>5. ASSUME NEW values \in RegRuns,
             Ask([ctx EXCEPT !.func = WRITE_MULTIPLE_REGISTERS, !.addr = addr, !.nb = Len(values)],
                 WriteRegistersPdu(addr, values), [addr |-> addr, values |-> values])
      PROVE  Inv'
  <2>1. PICK c : c = [ctx EXCEPT !.func = WRITE_MULTIPLE_REGISTERS, !.addr = addr, !.nb = Len(values)]
    OBVIOUS
  <2>2. values \in Seq(UInt16) /\ Len(values) \in UInt16
    BY AsksAssumption
  <2>3. WRITE_MULTIPLE_REGISTERS \in UInt8
    BY <1>1 DEF MultipleFuncs
  <2>4. c \in Contexts /\ c.func = WRITE_MULTIPLE_REGISTERS /\ c.addr = addr /\ c.nb = Len(values)
    BY <1>3, <2>1, <2>2, <2>3 DEF Inv, Contexts
  <2>5. IsRequest(c, [addr |-> addr, values |-> values], WriteRegistersPdu(addr, values))
    BY <1>3, <2>2, <2>4 DEF IsRequest
  <2> QED
    BY <1>5, <2>1, <2>4, <2>5, AskKeeps
<1> QED
  BY <1>2, <1>4, <1>5

(* The write and read keeps the invariant.                                  *)
LEMMA WriteAndReadKeeps ==
  ASSUME Inv, WriteAndRead
  PROVE  Inv'
<1>1. PICK waddr \in Addrs, raddr \in Addrs, values \in RegRuns, nb \in Counts :
        Ask([ctx EXCEPT !.func = READWRITE_MULTIPLE_REGISTERS, !.addr = raddr, !.nb = nb],
            WriteReadPdu(waddr, values, raddr, nb), [addr |-> waddr, values |-> values])
  BY DEF WriteAndRead
<1>2. PICK c : c = [ctx EXCEPT !.func = READWRITE_MULTIPLE_REGISTERS, !.addr = raddr, !.nb = nb]
  OBVIOUS
<1>3. waddr \in UInt16 /\ raddr \in UInt16 /\ nb \in UInt16 /\ values \in Seq(UInt16) /\ Len(values) \in UInt16
  BY AsksAssumption
<1>4. READWRITE_MULTIPLE_REGISTERS \in UInt8
  BY Ranges
<1>5. c \in Contexts /\ c.func = READWRITE_MULTIPLE_REGISTERS /\ c.addr = raddr /\ c.nb = nb
  BY <1>2, <1>3, <1>4 DEF Inv, Contexts
<1>6. IsRequest(c, [addr |-> waddr, values |-> values], WriteReadPdu(waddr, values, raddr, nb))
  BY <1>3, <1>5 DEF IsRequest
<1> QED
  BY <1>1, <1>2, <1>5, <1>6, AskKeeps

(* The request of another master keeps the invariant.                       *)
LEMMA ForeignRequestKeeps ==
  ASSUME Inv, ForeignRequest
  PROVE  Inv'
<1>1. /\ mem' = mem /\ ctx' = ctx /\ pdu' \in ForeignPdus
      /\ phase' = "foreign" /\ called' = NoCall
  BY DEF ForeignRequest, CanAsk
<1>2. (ReadsAreTrue /\ ConfirmedWriteIsDone)'
  <2>1. (called = NoCall)'
    BY <1>1 DEF NoCall
  <2> QED
    BY <2>1, NothingCalled, PTL
<1>3. pdu' \in Pdus
  BY <1>1, ForeignAssumption DEF Pdus
<1> QED
  BY <1>1, <1>2, <1>3 DEF Inv

(* The memory stays one, and what the master is about to look at is settled. *)
LEMMA HandleRequestKeeps ==
  ASSUME Inv, HandleRequest
  PROVE  Inv'
<1>1. PICK wfault \in Faults, rfault \in Faults, stale \in Stales :
        /\ mem' = Dispatch(pdu, stale, wfault, rfault, mem).mem
        /\ pdu' = ResponsePdu(pdu, Dispatch(pdu, stale, wfault, rfault, mem))
        /\ failed' = ({wfault, rfault} # {"NOERR"})
  BY StaleAssumption DEF HandleRequest, Faults, Stales
<1>2. PICK r :
        /\ r = Dispatch(pdu, stale, wfault, rfault, mem)
        /\ mem' = r.mem /\ pdu' = ResponsePdu(pdu, r)
        /\ failed' = ({wfault, rfault} # {"NOERR"})
  BY <1>1
<1>3. /\ phase \in {"requested", "foreign"}
      /\ phase' = IF phase = "requested" THEN "responded" ELSE "idle"
      /\ ctx' = ctx /\ asked' = asked /\ called' = called
  BY DEF HandleRequest
<1>4. pdu \in Pdus
  BY <1>3, RequestIsPdu DEF Inv
<1>5. mem' \in Memory
  BY <1>2, <1>4, DispatchKeepsMemory DEF Inv
<1>6. called = NoCall /\ called' = NoCall
  BY <1>3 DEF Inv
<1>7. (ReadsAreTrue /\ ConfirmedWriteIsDone)'
  <2>1. (called = NoCall)'
    BY <1>6 DEF NoCall
  <2> QED
    BY <2>1, NothingCalled, PTL
<1>8. ASSUME phase = "requested"
      PROVE  IsRequest(ctx, asked, pdu) /\ Settled(ctx, asked, pdu', mem', ~failed')
  <2>1. IsRequest(ctx, asked, pdu)
    BY <1>8 DEF Inv
  <2>2. PICK clean : clean = ~failed'
    OBVIOUS
  <2>3. clean => wfault = "NOERR" /\ rfault = "NOERR"
    BY <1>2, <2>2
  <2>4. Fulfils(ctx, asked, pdu, r, mem, clean)
    BY <1>2, <2>1, <2>3, RequestFulfilled DEF Inv
  <2>5. Settled(ctx, asked, ResponsePdu(pdu, r), r.mem, clean)
    BY <2>4 DEF Fulfils, Settled
  <2> QED
    BY <1>2, <2>1, <2>2, <2>5
<1>9. (phase = "responded")' =>
        ((\E p : IsRequest(ctx, asked, p)) /\ Settled(ctx, asked, pdu, mem, ~failed))'
  BY <1>3, <1>8
<1>10. ctx' \in Contexts
  BY <1>3 DEF Inv
<1> QED
  BY <1>3, <1>5, <1>6, <1>7, <1>9, <1>10 DEF Inv

(* What the user is told is true, because the response was settled.         *)
LEMMA HandleResponseKeeps ==
  ASSUME Inv, HandleResponse
  PROVE  Inv'
<1>1. /\ phase = "responded" /\ phase' = "idle" /\ mem' = mem /\ ctx' = ctx /\ asked' = asked
      /\ called' = IF Validated(ctx, pdu)
                   THEN [func |-> ctx.func, addr |-> ctx.addr, nb |-> ctx.nb,
                         data |-> CallData(ctx, pdu)]
                   ELSE NoCall
  BY DEF HandleResponse
<1>2. Settled(ctx, asked, pdu, mem, ~failed)
  BY <1>1 DEF Inv
<1>3. (ReadsAreTrue /\ ConfirmedWriteIsDone)'
  <2>1. CASE Validated(ctx, pdu)
    <3>1. Told(ctx, CallData(ctx, pdu), asked, mem)
      BY <1>2, <2>1 DEF Settled
    <3>2. /\ called'.func = ctx.func /\ called'.addr = ctx.addr /\ called'.nb = ctx.nb
          /\ called'.data = CallData(ctx, pdu)
      BY <1>1, <2>1
    <3>3. ReadsAreTrue'
      BY <1>1, <3>1, <3>2 DEF ReadsAreTrue, Told, ReadFuncs
    <3>4. ConfirmedWriteIsDone'
      BY <1>1, <3>1, <3>2 DEF ConfirmedWriteIsDone, Told, WriteFuncs
    <3> QED
      BY <3>3, <3>4
  <2>2. CASE ~Validated(ctx, pdu)
    <3>1. (called = NoCall)'
      BY <1>1, <2>2 DEF NoCall
    <3> QED
      BY <3>1, NothingCalled, PTL
  <2> QED
    BY <2>1, <2>2
<1> QED
  BY <1>1, <1>3 DEF Inv

(* Every step keeps the invariant.                                          *)
LEMMA NextInv ==
  ASSUME Inv, [Next]_vars
  PROVE  Inv'
<1>1. CASE UNCHANGED vars
  BY <1>1 DEF Inv, vars, ReadsAreTrue, ConfirmedWriteIsDone
<1>2. CASE Rest
  BY <1>1, <1>2 DEF Rest
<1> QED
  BY <1>1, <1>2, ReadReqKeeps, WriteSingleKeeps, WriteMultipleKeeps, WriteAndReadKeeps,
     ForeignRequestKeeps, HandleRequestKeeps, HandleResponseKeeps DEF Next

(* The invariant holds.                                                     *)
LEMMA InvHolds == Spec => []Inv
<1> QED
  BY InitInv, NextInv, PTL DEF Spec

(* What both sides' limits and tables say of a request.                      *)
LEMMA RunFits ==
  ASSUME NEW addr \in Nat, NEW n \in Nat, n > 0, NEW size \in Nat,
         {addr + i - 1 : i \in 1 .. n} \subseteq 0 .. (size - 1)
  PROVE  addr + n <= size
<1>1. n \in 1 .. n
  OBVIOUS
<1>2. addr + n - 1 \in 0 .. (size - 1)
  BY <1>1
<1> QED
  BY <1>2

(* What the master remembers of its write.                                   *)
LEMMA WriteRemembered ==
  ASSUME NEW c, NEW a, NEW p, IsRequest(c, a, p)
  PROVE  /\ a.addr \in Nat /\ Len(a.values) \in Nat
         /\ \/ c.func \in ReadFuncs /\ a.addr = 0 /\ Len(a.values) = 0
            \/ c.func \in EchoFuncs /\ c.nb = 1 /\ Len(a.values) = 1
            \/ c.func \in MultipleFuncs /\ Len(a.values) = c.nb
            \/ c.func = READWRITE_MULTIPLE_REGISTERS
<1>1. c.addr \in Nat
  BY WordIsNat DEF IsRequest
<1>2. CASE c.func \in ReadFuncs /\ a = NoWrite
  BY <1>2 DEF NoWrite
<1>3. ASSUME c.func \in EchoFuncs, c.nb = 1, NEW v, a = [addr |-> c.addr, values |-> <<v>>]
      PROVE  /\ a.addr \in Nat /\ Len(a.values) \in Nat
             /\ c.func \in EchoFuncs /\ c.nb = 1 /\ Len(a.values) = 1
  <2>1. Len(<<v>>) = 1
    OBVIOUS
  <2>2. a.addr = c.addr /\ a.values = <<v>>
    BY <1>3
  <2> QED
    BY <1>1, <1>3, <2>1, <2>2
<1>4. ASSUME NEW S, NEW values \in Seq(S), NEW addr \in Nat, a = [addr |-> addr, values |-> values]
      PROVE  a.addr \in Nat /\ Len(a.values) \in Nat /\ Len(a.values) = Len(values)
  <2>1. a.addr = addr /\ a.values = values
    BY <1>4
  <2> QED
    BY <2>1
<1>5. ASSUME NEW values \in Seq(Bits), c.func = WRITE_MULTIPLE_COILS, c.nb = Len(values),
             a = [addr |-> c.addr, values |-> values]
      PROVE  /\ a.addr \in Nat /\ Len(a.values) \in Nat
             /\ c.func \in MultipleFuncs /\ Len(a.values) = c.nb
  BY <1>1, <1>4, <1>5 DEF MultipleFuncs
<1>6. ASSUME NEW values \in Seq(UInt16), c.func = WRITE_MULTIPLE_REGISTERS, c.nb = Len(values),
             a = [addr |-> c.addr, values |-> values]
      PROVE  /\ a.addr \in Nat /\ Len(a.values) \in Nat
             /\ c.func \in MultipleFuncs /\ Len(a.values) = c.nb
  BY <1>1, <1>4, <1>6 DEF MultipleFuncs
<1>7. ASSUME NEW values \in Seq(UInt16), NEW waddr \in UInt16,
             c.func = READWRITE_MULTIPLE_REGISTERS, a = [addr |-> waddr, values |-> values]
      PROVE  a.addr \in Nat /\ Len(a.values) \in Nat /\ c.func = READWRITE_MULTIPLE_REGISTERS
  <2>1. waddr \in Nat
    BY WordIsNat
  <2> QED
    BY <1>4, <1>7, <2>1
<1> QED
  BY <1>2, <1>3, <1>5, <1>6, <1>7 DEF IsRequest, EchoFuncs

(* A request within the limits and inside the tables is good.               *)
LEMMA LimitsAreGood ==
  ASSUME mem \in Memory, NEW p, IsRequest(ctx, asked, p), WithinLimits(ctx), InTable(ctx)
  PROVE  Good(ctx, asked)
<1>1. Within(ctx, asked)
  BY DEF WithinLimits, Within
<1>2. ctx.func \in Funcs
  BY DEF IsRequest, Funcs, ReadFuncs, ReadBitsFuncs, ReadRegsFuncs
<1>3. PICK addr \in Nat, n \in Nat, size \in Nat, waddr \in Nat, k \in Nat :
        /\ ctx.addr = addr /\ ctx.nb = n /\ Size(ctx.func) = size
        /\ asked.addr = waddr /\ Len(asked.values) = k
  <2>1. ctx.addr \in Nat /\ ctx.nb \in Nat /\ Size(ctx.func) \in Nat
    BY <1>2, TableOf, WordIsNat DEF IsRequest
  <2> QED
    BY <2>1, WriteRemembered
<1>4. DOMAIN Table(ctx.func, mem) = 0 .. (size - 1)
  BY <1>2, <1>3, TableOf
<1>5. /\ {addr + i - 1 : i \in 1 .. n} \subseteq 0 .. (size - 1)
      /\ {waddr + i - 1 : i \in 1 .. k} \subseteq 0 .. (size - 1)
  BY <1>3, <1>4 DEF InTable
<1>6. \/ ctx.func \in ReadFuncs /\ waddr = 0 /\ k = 0
      \/ ctx.func \in EchoFuncs /\ n = 1 /\ k = 1
      \/ ctx.func \in MultipleFuncs /\ k = n
      \/ ctx.func = READWRITE_MULTIPLE_REGISTERS
  <2>1. \/ ctx.func \in ReadFuncs /\ asked.addr = 0 /\ Len(asked.values) = 0
        \/ ctx.func \in EchoFuncs /\ ctx.nb = 1 /\ Len(asked.values) = 1
        \/ ctx.func \in MultipleFuncs /\ Len(asked.values) = ctx.nb
        \/ ctx.func = READWRITE_MULTIPLE_REGISTERS
    BY WriteRemembered, Zenon
  <2> QED
    BY <1>3, <2>1
<1>7. n > 0
  <2>1. ctx.func \notin EchoFuncs => n > 0
    BY <1>1, <1>2, <1>3, LimitsAssumption DEF Within, Limits
  <2> QED
    BY <1>6, <2>1 DEF ReadFuncs, ReadBitsFuncs, ReadRegsFuncs, EchoFuncs, MultipleFuncs
<1>8. k > 0 \/ (waddr = 0 /\ k = 0)
  <2>1. ctx.func = READWRITE_MULTIPLE_REGISTERS => k \in 1 .. RWWriteMax
    BY <1>1, <1>3 DEF Within, ReadBitsFuncs, EchoFuncs
  <2>2. RWWriteMax \in Nat
    BY LimitsAssumption DEF Limits
  <2> QED
    BY <1>6, <1>7, <2>1, <2>2
<1>9. addr + n <= size
  BY <1>5, <1>7, RunFits
<1>10. waddr + k <= size
  <2>1. k > 0 => waddr + k <= size
    BY <1>5, RunFits
  <2> QED
    BY <1>8, <2>1
<1> QED
  BY <1>1, <1>3, <1>9, <1>10 DEF Good

-----------------------------------------------------------------------------
(* The theorems *)

(* What a read callback of the master is given is what the slave holds at    *)
(* the addresses that were asked for.                                        *)
THEOREM UserIsToldTheTruth == Spec => []ReadsAreTrue
<1>1. Inv => ReadsAreTrue
  BY DEF Inv
<1> QED
  BY <1>1, InvHolds, PTL

(* A write the master's user is told of has been done.                       *)
THEOREM ConfirmedIsDone == Spec => []ConfirmedWriteIsDone
<1>1. Inv => ConfirmedWriteIsDone
  BY DEF Inv
<1> QED
  BY <1>1, InvHolds, PTL

(* A request of the master changes the slave's memory at its addresses and   *)
(* to its values only, in the table it names, whatever is answered.          *)
THEOREM NothingElseIsWritten == Spec => WritesAreExact
<1> DEFINE Step == phase = "requested" => Exact(ctx, asked, mem, mem')
<1>1. ASSUME Inv, Next PROVE Step
  <2>1. SUFFICES ASSUME phase = "requested" PROVE Exact(ctx, asked, mem, mem')
    OBVIOUS
  <2>2. HandleRequest
    BY <1>1, <2>1 DEF Next, ReadReq, WriteSingleCoil, WriteSingleRegister, WriteMultiple, WriteAndRead,
                      ForeignRequest, Ask, CanAsk, HandleResponse, Rest
  <2>3. PICK wfault \in Faults, rfault \in Faults, stale \in Stales :
          mem' = Dispatch(pdu, stale, wfault, rfault, mem).mem
    BY <2>2, StaleAssumption DEF HandleRequest, Faults, Stales
  <2>4. IsRequest(ctx, asked, pdu) /\ mem \in Memory
    BY <1>1, <2>1 DEF Inv
  <2>5. PICK clean : clean = FALSE
    OBVIOUS
  <2>6. Fulfils(ctx, asked, pdu, Dispatch(pdu, stale, wfault, rfault, mem), mem, clean)
    BY <2>4, <2>5, RequestFulfilled
  <2> QED
    BY <2>3, <2>6 DEF Fulfils
<1>2. Step => (phase = "requested" =>
       LET f == ctx.func
           Written(old, new) ==
             \A a \in DOMAIN new : new[a] # old[a] =>
               \E i \in 1 .. Len(asked.values) :
                 a = asked.addr + i - 1 /\ new[a] = asked.values[i]
       IN  /\ Written(mem.coils, mem'.coils) /\ Written(mem.regs, mem'.regs)
           /\ mem'.coils # mem.coils => f \in {WRITE_SINGLE_COIL, WRITE_MULTIPLE_COILS}
           /\ mem'.regs # mem.regs =>
                f \in {WRITE_REGISTER, WRITE_MULTIPLE_REGISTERS, READWRITE_MULTIPLE_REGISTERS})
  BY DEF Exact, WrittenBy, CoilWriteFuncs, RegWriteFuncs
<1> QED
  BY <1>1, <1>2, InvHolds, PTL DEF Spec, WritesAreExact

(* A request within the slave's limits and tables is confirmed, unless a     *)
(* callback of the slave's user fails.                                       *)
THEOREM GoodIsConfirmed == Spec => GoodRequestsConfirmed
<1> DEFINE Step == HandleResponse /\ WithinLimits(ctx) /\ InTable(ctx) /\ ~failed => called'.func = ctx.func
<1>1. ASSUME Inv PROVE Step
  <2>1. SUFFICES ASSUME HandleResponse, WithinLimits(ctx), InTable(ctx), ~failed
                 PROVE  called'.func = ctx.func
    OBVIOUS
  <2>2. phase = "responded"
    BY <2>1 DEF HandleResponse
  <2>3. (\E p : IsRequest(ctx, asked, p)) /\ Settled(ctx, asked, pdu, mem, ~failed) /\ mem \in Memory
    BY <1>1, <2>2 DEF Inv
  <2>4. Good(ctx, asked)
    BY <2>1, <2>3, LimitsAreGood
  <2>5. Validated(ctx, pdu)
    BY <2>1, <2>3, <2>4 DEF Settled
  <2> QED
    BY <2>1, <2>5 DEF HandleResponse
<1> QED
  BY <1>1, InvHolds, PTL DEF Spec, GoodRequestsConfirmed

-----------------------------------------------------------------------------
(* The frames on a TCP connection *)

(* Whatever the slave takes for a frame has a header. *)
FrameType == {f \in Seq(Nat) : Len(f) >= HeaderSize}

LEMMA FrameFacts ==
  ASSUME NEW f \in FrameType
  PROVE  f \in Seq(Nat) /\ Tid(f) \in Nat /\ Length(f) \in Nat /\ Uid(f) \in Nat
<1>1. f \in Seq(Nat) /\ 1 \in 1 .. Len(f) /\ 2 \in 1 .. Len(f) /\ 3 \in 1 .. Len(f)
  BY DEF FrameType, HeaderSize
<1> QED
  BY <1>1, ElementOfSeq DEF Tid, Length, Uid

Itself == [f \in FrameType |-> f]
AllGlued == [s \in Seq(FrameType) |-> Glued(s)]

LEMMA GluedRuns ==
  ASSUME NEW s \in Seq(FrameType)
  PROVE  \E r : Runs(Seq(Nat), [x \in Seq(Nat) \X FrameType |-> Cat(x[1], x[2])], << >>, s, r, Glued(s))
<1> DEFINE T == FrameType
           S == Seq(Nat)
           op(line, f) == line \o f
           G == [x \in S \X T |-> Cat(x[1], x[2])]
           Def(q) == [p \in SUBSET DOMAIN s |->
                        IF p = {} THEN << >> ELSE LET i == Max(p) IN op(q[p \ {i}], s[i])]
           it == CHOOSE q : q = Def(q)
<1>1. << >> \in S
  OBVIOUS
<1>2. \A a \in S, f \in T : Cat(a, f) \in S /\ Cat(a, f) = op(a, f)
  BY FrameFacts, CatFacts DEF Cat
<1>3. G \in [S \X T -> S] /\ \A a \in S, f \in T : G[<<a, f>>] = op(a, f)
  BY <1>2
<1> HIDE DEF S, T, G, op
<1>4. PICK g : IsFold(S, T, G, << >>, s, g)
  BY <1>1, <1>3, FoldExists DEF T
<1>5. g = Def(g)
  BY <1>3, <1>4 DEF IsFold
<1>6. it = Def(it)
  <2> HIDE DEF Def
  <2> QED
    BY <1>5
<1> HIDE DEF it
<1>7. Follows(S, T, G, << >>, s, it)
  BY <1>3, <1>6 DEF Follows
<1> HIDE DEF Def
<1>8. PICK r : Runs(S, G, << >>, s, r, it[DOMAIN s])
  BY <1>1, <1>3, <1>7, FoldRuns DEF T
<1>9. Glued(s) = it[DOMAIN s]
  BY DEF Glued, FoldLeft, MapThenFoldSet, it, Def, op
<1> QED
  BY <1>8, <1>9 DEF S, T, G

LEMMA GluedGlues == Gluing(FrameType, Nat, Itself, AllGlued)
<1> DEFINE G == [x \in Seq(Nat) \X FrameType |-> Cat(x[1], x[2])]
<1>1. ASSUME NEW s \in Seq(FrameType)
      PROVE  Glued(s) \in Seq(Nat) /\ \E r : Runs(Seq(Nat), G, << >>, s, r, Glued(s))
  <2>1. PICK r : Runs(Seq(Nat), G, << >>, s, r, Glued(s))
    BY GluedRuns
  <2> HIDE DEF G
  <2>2. Glued(s) \in Seq(Nat)
    BY <2>1, LenProperties DEF Runs
  <2> QED
    BY <2>1, <2>2
<1>2. Glued(<< >>) = << >>
  <2> HIDE DEF G
  <2>1. << >> \in Seq(FrameType) /\ Len(<< >>) = 0
    OBVIOUS
  <2> QED
    BY <1>1, <2>1 DEF Runs
<1>3. ASSUME NEW s \in Seq(FrameType), NEW f \in FrameType PROVE Glued(Append(s, f)) = Cat(Glued(s), f)
  <2>1. Append(s, f) \in Seq(FrameType)
    BY AppendProperties
  <2>2. PICK q : Runs(Seq(Nat), G, << >>, s, q, Glued(s))
    BY <1>1
  <2>3. PICK r : Runs(Seq(Nat), G, << >>, Append(s, f), r, Glued(Append(s, f)))
    BY <1>1, <2>1
  <2>4. Glued(Append(s, f)) = G[<<Glued(s), f>>]
    <3> HIDE DEF G
    <3> QED
      BY <2>2, <2>3, RunsGrow
  <2> QED
    BY <1>1, <2>4
<1>4. Itself \in [FrameType -> Seq(Nat)]
  BY FrameFacts DEF Itself
<1>5. AllGlued \in [Seq(FrameType) -> Seq(Nat)] /\ AllGlued[<< >>] = << >>
  BY <1>1, <1>2 DEF AllGlued
<1>6. ASSUME NEW s \in Seq(FrameType), NEW f \in FrameType
      PROVE  AllGlued[Append(s, f)] = Cat(AllGlued[s], Itself[f])
  <2>1. Append(s, f) \in Seq(FrameType)
    BY AppendProperties
  <2> QED
    BY <1>3, <2>1 DEF AllGlued, Itself
<1> QED
  BY <1>4, <1>5, <1>6 DEF Gluing

Response == [f \in FrameType |-> IF Answered(f) THEN << Tid(f) >> ELSE << >>]
AllResponses == [s \in Seq(FrameType) |-> Responses(s)]

LEMMA ResponseFacts ==
  ASSUME NEW f \in FrameType, NEW a \in Seq(Nat)
  PROVE  /\ Response[f] \in Seq(Nat)
         /\ (IF Answered(f) THEN Append(a, Tid(f)) ELSE a) = Cat(a, Response[f])
<1>1. Tid(f) \in Nat
  BY FrameFacts
<1>2. CASE Answered(f)
  <2>1. Append(a, Tid(f)) = Cat(a, <<Tid(f)>>) /\ <<Tid(f)>> \in Seq(Nat)
    BY <1>1, CatAppend
  <2>2. Response[f] = <<Tid(f)>>
    BY <1>2 DEF Response
  <2> QED
    BY <1>2, <2>1, <2>2
<1>3. CASE ~Answered(f)
  <2>1. Response[f] = << >> /\ << >> \in Seq(Nat)
    BY <1>3 DEF Response
  <2> QED
    BY <1>3, <2>1, CatFacts
<1> QED
  BY <1>2, <1>3

LEMMA ResponsesRun ==
  ASSUME NEW s \in Seq(FrameType)
  PROVE  \E r : Runs(Seq(Nat), [x \in Seq(Nat) \X FrameType |-> Cat(x[1], Response[x[2]])], << >>, s, r,
                     Responses(s))
<1> DEFINE T == FrameType
           S == Seq(Nat)
           op(tids, f) == IF Answered(f) THEN Append(tids, Tid(f)) ELSE tids
           G == [x \in S \X T |-> Cat(x[1], Response[x[2]])]
           Def(q) == [p \in SUBSET DOMAIN s |->
                        IF p = {} THEN << >> ELSE LET i == Max(p) IN op(q[p \ {i}], s[i])]
           it == CHOOSE q : q = Def(q)
<1>1. << >> \in S
  OBVIOUS
<1>2. \A a \in S, f \in T : Cat(a, Response[f]) \in S /\ Cat(a, Response[f]) = op(a, f)
  BY ResponseFacts, CatFacts
<1>3. G \in [S \X T -> S] /\ \A a \in S, f \in T : G[<<a, f>>] = op(a, f)
  BY <1>2
<1> HIDE DEF S, T, G, op
<1>4. PICK g : IsFold(S, T, G, << >>, s, g)
  BY <1>1, <1>3, FoldExists DEF T
<1>5. g = Def(g)
  BY <1>3, <1>4 DEF IsFold
<1>6. it = Def(it)
  <2> HIDE DEF Def
  <2> QED
    BY <1>5
<1> HIDE DEF it
<1>7. Follows(S, T, G, << >>, s, it)
  BY <1>3, <1>6 DEF Follows
<1> HIDE DEF Def
<1>8. PICK r : Runs(S, G, << >>, s, r, it[DOMAIN s])
  BY <1>1, <1>3, <1>7, FoldRuns DEF T
<1>9. Responses(s) = it[DOMAIN s]
  BY DEF Responses, FoldLeft, MapThenFoldSet, it, Def, op
<1> QED
  BY <1>8, <1>9 DEF S, T, G

LEMMA ResponsesGlue == Gluing(FrameType, Nat, Response, AllResponses)
<1> DEFINE G == [x \in Seq(Nat) \X FrameType |-> Cat(x[1], Response[x[2]])]
<1>1. ASSUME NEW s \in Seq(FrameType)
      PROVE  Responses(s) \in Seq(Nat) /\ \E r : Runs(Seq(Nat), G, << >>, s, r, Responses(s))
  <2>1. PICK r : Runs(Seq(Nat), G, << >>, s, r, Responses(s))
    BY ResponsesRun
  <2> HIDE DEF G
  <2>2. Responses(s) \in Seq(Nat)
    BY <2>1, LenProperties DEF Runs
  <2> QED
    BY <2>1, <2>2
<1>2. Responses(<< >>) = << >>
  <2> HIDE DEF G
  <2>1. << >> \in Seq(FrameType) /\ Len(<< >>) = 0
    OBVIOUS
  <2> QED
    BY <1>1, <2>1 DEF Runs
<1>3. ASSUME NEW s \in Seq(FrameType), NEW f \in FrameType
      PROVE  Responses(Append(s, f)) = Cat(Responses(s), Response[f])
  <2>1. Append(s, f) \in Seq(FrameType)
    BY AppendProperties
  <2>2. PICK q : Runs(Seq(Nat), G, << >>, s, q, Responses(s))
    BY <1>1
  <2>3. PICK r : Runs(Seq(Nat), G, << >>, Append(s, f), r, Responses(Append(s, f)))
    BY <1>1, <2>1
  <2>4. Responses(Append(s, f)) = G[<<Responses(s), f>>]
    <3> HIDE DEF G
    <3> QED
      BY <2>2, <2>3, RunsGrow
  <2> QED
    BY <1>1, <2>4
<1>4. Response \in [FrameType -> Seq(Nat)]
  <2>1. << >> \in Seq(Nat)
    OBVIOUS
  <2> QED
    BY <2>1, ResponseFacts DEF Response
<1>5. AllResponses \in [Seq(FrameType) -> Seq(Nat)] /\ AllResponses[<< >>] = << >>
  BY <1>1, <1>2 DEF AllResponses
<1>6. ASSUME NEW s \in Seq(FrameType), NEW f \in FrameType
      PROVE  AllResponses[Append(s, f)] = Cat(AllResponses[s], Response[f])
  <2>1. Append(s, f) \in Seq(FrameType)
    BY AppendProperties
  <2> QED
    BY <1>3, <2>1 DEF AllResponses
<1> QED
  BY <1>4, <1>5, <1>6 DEF Gluing

(* all begins with the frames taken. *)
First(taken, all) == Len(taken) <= Len(all) /\ \A i \in 1 .. Len(taken) : taken[i] = all[i]

LEMMA FirstSplits ==
  ASSUME NEW T, NEW all \in Seq(T), NEW taken \in Seq(T), First(taken, all)
  PROVE  \E rest \in Seq(T) : all = Cat(taken, rest)
<1> DEFINE a == Len(taken)
           b == Len(all)
           rest == SubSeq(all, a + 1, b)
<1>1. a \in Nat /\ b \in Nat /\ a <= b /\ \A i \in 1 .. a : taken[i] = all[i]
  BY LenProperties DEF First
<1>2. SubSeq(all, 1, a) \in Seq(T) /\ Len(SubSeq(all, 1, a)) = a /\ \A i \in 1 .. a : SubSeq(all, 1, a)[i] = all[i]
  <2>1. \A i \in 1 .. a : all[i] \in T
    BY <1>1, ElementOfSeq
  <2> HIDE DEF a
  <2>2. /\ SubSeq(all, 1, a) \in Seq(T) /\ Len(SubSeq(all, 1, a)) = IF 1 <= a THEN a - 1 + 1 ELSE 0
        /\ \A i \in 1 .. a - 1 + 1 : SubSeq(all, 1, a)[i] = all[1 + i - 1]
    BY <1>1, <2>1, SubSeqProperties
  <2>3. (IF 1 <= a THEN a - 1 + 1 ELSE 0) = a /\ a - 1 + 1 = a /\ \A i \in 1 .. a : 1 + i - 1 = i
    BY <1>1
  <2> QED
    BY <2>2, <2>3
<1>3. SubSeq(all, 1, a) = taken
  BY <1>1, <1>2, SeqEqual
<1>4. SubSeq(all, 1, a) \o rest = SubSeq(all, 1, b)
  <2>1. 1 \in 1 .. b + 1 /\ a \in 1 - 1 .. b /\ b \in a .. b
    BY <1>1
  <2> QED
    BY <2>1, ConcatAdjacentSubSeq
<1>5. SubSeq(all, 1, b) = all
  BY SubSeqFull
<1>6. rest \in Seq(T)
  <2>1. \A i \in a + 1 .. b : all[i] \in T
    BY <1>1, ElementOfSeq
  <2>2. a + 1 \in Int /\ b \in Int
    BY <1>1
  <2> QED
    BY <2>1, <2>2, SubSeqProperties
<1> QED
  BY <1>3, <1>4, <1>5, <1>6 DEF Cat

(* Which is next behind the frames taken. *)
LEMMA NextFrame ==
  ASSUME NEW all \in Seq(FrameType), NEW taken \in Seq(FrameType), First(taken, all),
         Len(taken) < Len(all),
         NEW x \in Seq(Nat), Glued(all) = Cat(Glued(taken), x)
  PROVE  LET f == all[Len(taken) + 1]
         IN  /\ f \in FrameType /\ Glued(taken) \in Seq(Nat)
             /\ Append(taken, f) \in Seq(FrameType) /\ First(Append(taken, f), all)
             /\ Glued(Append(taken, f)) = Cat(Glued(taken), f)
             /\ \E tail \in Seq(Nat) : x = Cat(f, tail)
<1> DEFINE n == Len(taken) + 1
           f == all[n]
           more == Append(taken, f)
<1>1. n \in 1 .. Len(all) /\ Len(taken) \in Nat /\ Len(all) \in Nat
  BY LenProperties
<1>2. f \in FrameType
  BY <1>1, ElementOfSeq
<1>3. /\ more \in Seq(FrameType) /\ Len(more) = Len(taken) + 1
      /\ \A i \in 1 .. Len(taken) : more[i] = taken[i]
      /\ more[Len(taken) + 1] = f
  <2> HIDE DEF f
  <2> QED
    BY <1>2, AppendProperties
<1> HIDE DEF f, more
<1>4. First(more, all)
  <2>1. ASSUME NEW i \in 1 .. Len(more) PROVE more[i] = all[i]
    <3>1. CASE i \in 1 .. Len(taken)
      BY <1>3, <3>1 DEF First
    <3>2. CASE i = Len(taken) + 1
      BY <1>3, <3>2 DEF f
    <3> QED
      BY <1>1, <1>3, <3>1, <3>2
  <2> QED
    BY <1>1, <1>3, <2>1 DEF First
<1>5. PICK rest \in Seq(FrameType) : all = Cat(more, rest)
  BY <1>3, <1>4, FirstSplits
<1>6. /\ \A s \in Seq(FrameType) : AllGlued[s] = Glued(s) /\ Glued(s) \in Seq(Nat)
      /\ Itself[f] = f /\ f \in Seq(Nat)
  BY <1>2, GluedGlues, FrameFacts DEF Gluing, AllGlued, Itself
<1>7. Glued(all) = Cat(Glued(more), Glued(rest))
  <2>1. AllGlued[Cat(more, rest)] = Cat(AllGlued[more], AllGlued[rest])
    BY <1>3, GluedGlues, GluingSplits
  <2> QED
    BY <1>3, <1>5, <1>6, <2>1
<1>8. Glued(more) = Cat(Glued(taken), f)
  <2>1. AllGlued[Append(taken, f)] = Cat(AllGlued[taken], Itself[f])
    BY <1>2, GluedGlues DEF Gluing
  <2> QED
    BY <1>3, <1>6, <2>1 DEF more
<1>9. Cat(Cat(Glued(taken), f), Glued(rest)) = Cat(Glued(taken), Cat(f, Glued(rest)))
  BY <1>6, CatAssociative
<1>10. Cat(Glued(taken), x) = Cat(Glued(taken), Cat(f, Glued(rest)))
  BY <1>7, <1>8, <1>9
<1>11. x = Cat(f, Glued(rest))
  <2>1. Cat(f, Glued(rest)) \in Seq(Nat) /\ Glued(taken) \in Seq(Nat)
    BY <1>6, CatFacts
  <2> QED
    BY <1>10, <2>1, CatCancels
<1> QED
  BY <1>2, <1>3, <1>4, <1>6, <1>8, <1>11 DEF f, more

-----------------------------------------------------------------------------
(* The reader *)

ReaderType ==
  {r \in [state : {"header", "pdu"}, frame : Seq(Nat), data_remaining : Int] :
     r.state = "pdu" => Len(r.frame) >= HeaderSize}

LEMMA ReaderChanged ==
  ASSUME NEW r \in [state : {"header", "pdu"}, frame : Seq(Nat), data_remaining : Int],
         NEW v \in Seq(Nat), NEW e \in Int,
         NEW q, q = [r EXCEPT !.frame = v, !.data_remaining = e]
  PROVE  /\ q \in [state : {"header", "pdu"}, frame : Seq(Nat), data_remaining : Int]
         /\ q.state = r.state /\ q.frame = v /\ q.data_remaining = e
  OBVIOUS

LEMMA ReadTypes ==
  ASSUME NEW r \in ReaderType, NEW b \in Nat, NEW m, m = Read(r, b)
  PROVE  m.reader \in ReaderType /\ m.got \in Seq(FrameType)
<1> DEFINE frame == Append(r.frame, b)
<1>1. /\ r = [state |-> r.state, frame |-> r.frame, data_remaining |-> r.data_remaining]
      /\ r.state \in {"header", "pdu"} /\ r.frame \in Seq(Nat) /\ r.data_remaining \in Int
      /\ r.state = "pdu" => Len(r.frame) >= HeaderSize
  BY DEF ReaderType
<1>2. frame \in Seq(Nat) /\ Len(frame) = Len(r.frame) + 1 /\ Len(r.frame) \in Nat
  BY <1>1, AppendProperties, LenProperties
<1> HIDE DEF frame
<1>3. ReaderStart \in ReaderType /\ << >> \in Seq(FrameType)
  <2>1. << >> \in Seq(Nat) /\ << >> \in Seq(FrameType)
    OBVIOUS
  <2> QED
    BY <2>1 DEF ReaderStart, ReaderType
<1>4. CASE r.state = "header"
  <2>1. CASE Len(frame) < HeaderSize
    <3>1. m = [reader |-> [r EXCEPT !.frame = frame], got |-> << >>]
      BY <1>4, <2>1 DEF Read, ReadHeader, Silent, frame
    <3>2. [r EXCEPT !.frame = frame] = [state |-> "header", frame |-> frame, data_remaining |-> r.data_remaining]
      BY <1>1, <1>4
    <3>3. [r EXCEPT !.frame = frame] \in ReaderType
      BY <1>1, <1>2, <3>2 DEF ReaderType
    <3> QED
      BY <1>3, <3>1, <3>3
  <2>2. CASE ~(Len(frame) < HeaderSize)
    <3>1. m = [reader |-> [state |-> "pdu", frame |-> frame, data_remaining |-> Length(frame) - 1], got |-> << >>]
      BY <1>4, <2>2 DEF Read, ReadHeader, Silent, frame
    <3>2. frame \in FrameType /\ Len(frame) >= HeaderSize
      BY <1>2, <2>2 DEF FrameType, HeaderSize
    <3>3. Length(frame) - 1 \in Int
      BY <3>2, FrameFacts
    <3>4. [state |-> "pdu", frame |-> frame, data_remaining |-> Length(frame) - 1] \in ReaderType
      BY <1>2, <3>2, <3>3 DEF ReaderType
    <3> QED
      BY <1>3, <3>1, <3>4
  <2> QED
    BY <2>1, <2>2
<1>5. CASE r.state = "pdu"
  <2>1. frame \in FrameType
    BY <1>1, <1>2, <1>5 DEF FrameType, HeaderSize
  <2>2. m = ReadPdu(r, b)
    BY <1>5 DEF Read
  <2>3. CASE Len(r.frame) >= SizeMax
    BY <1>3, <2>2, <2>3 DEF ReadPdu, Silent
  <2>4. CASE ~(Len(r.frame) >= SizeMax) /\ r.data_remaining = 1
    <3>1. m = [reader |-> ReaderStart, got |-> <<frame>>]
      BY <2>2, <2>4 DEF ReadPdu, frame
    <3>2. <<frame>> \in Seq(FrameType)
      BY <2>1
    <3> QED
      BY <1>3, <3>1, <3>2
  <2>5. CASE ~(Len(r.frame) >= SizeMax) /\ r.data_remaining # 1
    <3> DEFINE q == [r EXCEPT !.frame = frame, !.data_remaining = r.data_remaining - 1]
    <3>1. m = [reader |-> q, got |-> << >>]
      BY <2>2, <2>5 DEF ReadPdu, Silent, frame
    <3>2. r.data_remaining - 1 \in Int /\ r \in [state : {"header", "pdu"}, frame : Seq(Nat), data_remaining : Int]
      BY <1>1 DEF ReaderType
    <3>3. q \in [state : {"header", "pdu"}, frame : Seq(Nat), data_remaining : Int] /\ q.frame = frame
      BY <1>2, <3>2, ReaderChanged
    <3> HIDE DEF q
    <3>4. q \in ReaderType
      <4>1. Len(frame) >= HeaderSize
        BY <1>1, <1>2, <1>5 DEF HeaderSize
      <4> QED
        BY <3>3, <4>1 DEF ReaderType
    <3> QED
      BY <1>3, <3>1, <3>4
  <2> QED
    BY <2>3, <2>4, <2>5
<1> QED
  BY <1>1, <1>4, <1>5

(* A frame that keeps the rules of MBAP. *)
Ruled(f) == Len(f) \in HeaderSize + 1 .. SizeMax /\ Length(f) - 1 = Len(f) - HeaderSize

(* The reader is in the middle of f. *)
Inside(r, f) ==
  /\ Len(r.frame) < Len(f)
  /\ r.state = (IF Len(r.frame) < HeaderSize THEN "header" ELSE "pdu")
  /\ r.state = "pdu" => r.data_remaining = Len(f) - Len(r.frame)

(* Of the frames of all, the slave has taken the first, its reader holds the *)
(* next as far as it came, and rest is to come.                              *)
Behind(all, taken, r, rest) ==
  /\ First(taken, all)
  /\ Glued(all) = Cat(Cat(Glued(taken), r.frame), rest)
  /\ IF r.frame = << >> THEN r.state = "header"
     ELSE Len(taken) < Len(all) /\ Inside(r, all[Len(taken) + 1])

LEMMA GluedFacts ==
  ASSUME NEW s \in Seq(FrameType)
  PROVE  Glued(s) \in Seq(Nat)
<1>1. AllGlued[s] = Glued(s)
  BY DEF AllGlued
<1> QED
  BY <1>1, GluedGlues DEF Gluing

(* There is a frame to come while there are bytes. *)
LEMMA FrameToCome ==
  ASSUME NEW all \in Seq(FrameType), NEW taken \in Seq(FrameType), NEW r \in ReaderType,
         NEW x \in Seq(Nat), x # << >>, Behind(all, taken, r, x)
  PROVE  /\ Len(taken) < Len(all)
         /\ Inside(r, all[Len(taken) + 1])
<1>1. /\ First(taken, all) /\ Len(taken) \in Nat /\ Len(all) \in Nat /\ Len(taken) <= Len(all)
      /\ Glued(all) \in Seq(Nat) /\ Glued(taken) \in Seq(Nat) /\ r.frame \in Seq(Nat)
      /\ Glued(all) = Cat(Cat(Glued(taken), r.frame), x)
  BY LenProperties, GluedFacts DEF Behind, First, ReaderType
<1>2. CASE r.frame # << >>
  BY <1>2 DEF Behind
<1>3. CASE r.frame = << >>
  <2>1. r.state = "header" /\ Len(r.frame) = 0
    BY <1>3 DEF Behind
  <2>2. Len(taken) # Len(all)
    <3> SUFFICES ASSUME Len(taken) = Len(all) PROVE FALSE
      OBVIOUS
    <3>1. taken = all
      BY <1>1, SeqEqual DEF First
    <3>2. Glued(all) = Cat(Glued(all), x)
      BY <1>1, <1>3, <3>1, CatFacts
    <3>3. Len(Glued(all)) = Len(Glued(all)) + Len(x) /\ Len(Glued(all)) \in Nat /\ Len(x) \in Nat
      BY <1>1, <3>2, CatFacts, LenProperties
    <3>4. Len(x) # 0
      OBVIOUS
    <3> QED
      BY <3>3, <3>4
  <2>3. all[Len(taken) + 1] \in FrameType
    <3>1. Len(taken) + 1 \in 1 .. Len(all)
      BY <1>1, <2>2
    <3> QED
      BY <3>1, ElementOfSeq
  <2>4. Inside(r, all[Len(taken) + 1])
    BY <2>1, <2>3 DEF Inside, FrameType, HeaderSize
  <2> QED
    BY <1>1, <2>2, <2>4
<1> QED
  BY <1>2, <1>3

LEMMA OneByte == ASSUME NEW b \in Nat PROVE <<b>> \in Seq(Nat) /\ Len(<<b>>) = 1 /\ <<b>>[1] = b
  OBVIOUS

LEMMA AppendByte ==
  ASSUME NEW u \in Seq(Nat), NEW b \in Nat
  PROVE  /\ Append(u, b) \in Seq(Nat) /\ Append(u, b) # << >> /\ Len(Append(u, b)) = Len(u) + 1
         /\ \A i \in 1 .. Len(u) : Append(u, b)[i] = u[i]
         /\ Append(u, b)[Len(u) + 1] = b
  BY AppendProperties

(* What the reader makes of a byte *)
LEMMA ByteRead ==
  ASSUME NEW all \in Seq(FrameType), \A i \in 1 .. Len(all) : Ruled(all[i]),
         NEW taken \in Seq(FrameType), NEW r \in ReaderType,
         NEW x \in Seq(Nat), Behind(all, taken, r, x),
         NEW b \in Nat, NEW rest \in Seq(Nat), x = Cat(<<b>>, rest),
         NEW m, m = Read(r, b)
  PROVE  Behind(all, Cat(taken, m.got), m.reader, rest)
<1> DEFINE n == Len(taken) + 1
           f == all[n]
           k == Len(r.frame)
           g == Append(r.frame, b)
<1>1. x # << >> /\ x[1] = b
  <2>1. PICK e \in Seq(Nat) : e = <<b>> /\ Len(e) = 1 /\ e[1] = b
    BY OneByte
  <2>2. Len(x) = 1 + Len(rest) /\ x[1] = b
    <3>1. x = e \o rest
      BY <2>1 DEF Cat
    <3>2. /\ Len(e \o rest) = Len(e) + Len(rest)
          /\ \A i \in 1 .. Len(e) + Len(rest) : (e \o rest)[i] = IF i <= Len(e) THEN e[i] ELSE rest[i - Len(e)]
      BY ConcatProperties
    <3>3. Len(e) = 1 /\ e[1] = b /\ 1 \in 1 .. 1 + Len(rest)
      BY <2>1, LenProperties
    <3> HIDE <2>1
    <3> QED
      BY <3>1, <3>2, <3>3
  <2>3. Len(rest) \in Nat
    BY LenProperties
  <2> QED
    BY <2>2, <2>3
<1>2. Len(taken) < Len(all) /\ Inside(r, f)
  BY <1>1, FrameToCome
<1>3. /\ First(taken, all) /\ Glued(all) = Cat(Cat(Glued(taken), r.frame), x)
      /\ Glued(taken) \in Seq(Nat) /\ r.frame \in Seq(Nat) /\ k \in Nat
      /\ r.state = "pdu" => k >= HeaderSize
  BY GluedFacts, LenProperties DEF Behind, ReaderType
<1>4. Glued(all) = Cat(Glued(taken), Cat(r.frame, x)) /\ Cat(r.frame, x) \in Seq(Nat)
  <2>1. PICK p \in Seq(Nat), u \in Seq(Nat) : p = Glued(taken) /\ u = r.frame
    BY <1>3
  <2>2. Cat(Cat(p, u), x) = Cat(p, Cat(u, x)) /\ Cat(u, x) \in Seq(Nat)
    BY CatFacts, CatAssociative
  <2> QED
    BY <1>3, <2>1, <2>2
<1>5. /\ f \in FrameType /\ Append(taken, f) \in Seq(FrameType) /\ First(Append(taken, f), all)
      /\ Glued(Append(taken, f)) = Cat(Glued(taken), f)
      /\ \E tail \in Seq(Nat) : Cat(r.frame, x) = Cat(f, tail)
  <2> HIDE DEF f
  <2>1. /\ all[n] \in FrameType /\ Append(taken, all[n]) \in Seq(FrameType) /\ First(Append(taken, all[n]), all)
        /\ Glued(Append(taken, all[n])) = Cat(Glued(taken), all[n])
        /\ \E tail \in Seq(Nat) : Cat(r.frame, x) = Cat(all[n], tail)
    BY <1>2, <1>3, <1>4, NextFrame
  <2> QED
    BY <2>1 DEF f
<1>6. Ruled(f)
  <2>1. n \in 1 .. Len(all)
    BY <1>2, LenProperties
  <2> QED
    BY <2>1
<1> HIDE DEF f
<1>7. PICK tail \in Seq(Nat) : Cat(r.frame, x) = Cat(f, tail)
  BY <1>5
<1>8. f \in Seq(Nat) /\ Len(f) \in Nat /\ k < Len(f) /\ Len(f) <= SizeMax /\ Length(f) - 1 = Len(f) - HeaderSize
  BY <1>2, <1>5, <1>6, LenProperties, SizeMaxAssumption DEF Inside, Ruled, FrameType, HeaderSize
<1>9. (\A i \in 1 .. k : r.frame[i] = f[i]) /\ b = f[k + 1]
  <2>1. r.frame \o x = f \o tail
    BY <1>7 DEF Cat
  <2> DEFINE u == r.frame
  <2> HIDE DEF u
  <2>2. u \in Seq(Nat) /\ u \o x = f \o tail /\ k = Len(u)
    BY <1>3, <2>1 DEF u
  <2>3. \A i \in 1 .. Len(u) + Len(x) : (u \o x)[i] = IF i <= Len(u) THEN u[i] ELSE x[i - Len(u)]
    BY <2>2, ConcatProperties
  <2>4. \A i \in 1 .. Len(f) + Len(tail) : (f \o tail)[i] = IF i <= Len(f) THEN f[i] ELSE tail[i - Len(f)]
    BY <1>8, ConcatProperties
  <2>5. /\ Len(x) \in Nat /\ Len(x) # 0 /\ Len(tail) \in Nat /\ Len(f) \in Nat
        /\ k \in Nat /\ k = Len(u) /\ k < Len(f)
    BY <1>1, <1>3, <1>8, <2>2, LenProperties
  <2> HIDE DEF k
  <2>6. ASSUME NEW i \in 1 .. k PROVE u[i] = f[i]
    <3>1. i \in 1 .. Len(u) + Len(x) /\ i <= Len(u) /\ i \in 1 .. Len(f) + Len(tail) /\ i <= Len(f)
      BY <2>5
    <3> QED
      BY <2>2, <2>3, <2>4, <3>1
  <2>7. b = f[k + 1]
    <3>1. k + 1 \in 1 .. Len(u) + Len(x) /\ ~(k + 1 <= Len(u)) /\ k + 1 - Len(u) = 1
          /\ k + 1 \in 1 .. Len(f) + Len(tail) /\ k + 1 <= Len(f)
      BY <2>5
    <3>2. (u \o x)[k + 1] = x[1]
      BY <2>3, <2>5, <3>1
    <3>3. (f \o tail)[k + 1] = f[k + 1]
      BY <2>4, <3>1
    <3> QED
      BY <1>1, <2>2, <3>2, <3>3
  <2> QED
    BY <2>6, <2>7 DEF u
<1>10. /\ g \in Seq(Nat) /\ Len(g) = k + 1 /\ (\A i \in 1 .. k + 1 : g[i] = f[i]) /\ g # << >>
       /\ Cat(g, rest) = Cat(r.frame, x)
  <2>1. /\ g \in Seq(Nat) /\ Len(g) = k + 1 /\ (\A i \in 1 .. k : g[i] = r.frame[i]) /\ g[k + 1] = b
        /\ g # << >>
    <3>1. PICK u \in Seq(Nat) : u = r.frame
      BY <1>3
    <3>2. PICK v : v = Append(u, b)
      OBVIOUS
    <3>3. /\ v \in Seq(Nat) /\ v # << >> /\ Len(v) = Len(u) + 1
          /\ (\A i \in 1 .. Len(u) : v[i] = u[i]) /\ v[Len(u) + 1] = b
      BY <3>2, AppendByte
    <3>4. v = g /\ Len(u) = k
      BY <3>1, <3>2
    <3> HIDE DEF g, k
    <3> QED
      BY <3>1, <3>3, <3>4
  <2>2. PICK e \in Seq(Nat) : e = <<b>> /\ g = Cat(r.frame, e)
    BY <1>3, CatAppend
  <2>3. x = Cat(e, rest)
    BY <2>2
  <2>4. Cat(Cat(r.frame, e), rest) = Cat(r.frame, Cat(e, rest))
    <3> HIDE <2>2
    <3> QED
      BY <1>3, CatAssociative
  <2> HIDE DEF g, k
  <2>5. ASSUME NEW i \in 1 .. k + 1 PROVE g[i] = f[i]
    <3>1. i \in 1 .. k \/ i = k + 1
      BY <1>3
    <3> QED
      BY <1>9, <2>1, <3>1
  <2> QED
    BY <2>1, <2>2, <2>3, <2>4, <2>5
<1> HIDE DEF g, k
<1>11. Glued(all) = Cat(Cat(Glued(taken), g), rest)
  BY <1>3, <1>4, <1>10, CatAssociative
<1>12. ASSUME NEW q, m = [reader |-> q, got |-> << >>], q.frame = g, Inside(q, f)
       PROVE  Behind(all, Cat(taken, m.got), m.reader, rest)
  <2>1. Cat(taken, m.got) = taken /\ m.reader = q
    BY <1>12, CatFacts
  <2> QED
    BY <1>2, <1>3, <1>10, <1>11, <1>12, <2>1 DEF Behind, f
<1>13. CASE r.state = "header"
  <2>1. k < HeaderSize
    BY <1>2, <1>13 DEF Inside, k
  <2>2. CASE k + 1 < HeaderSize
    <3>1. m = [reader |-> [r EXCEPT !.frame = g], got |-> << >>]
      BY <1>10, <1>13, <2>2 DEF Read, ReadHeader, Silent, g
    <3>2. [r EXCEPT !.frame = g].frame = g /\ [r EXCEPT !.frame = g].state = "header"
      BY <1>13 DEF ReaderType
    <3>3. Len(g) < HeaderSize /\ HeaderSize < Len(f) /\ Len(g) \in Nat
      BY <1>3, <1>6, <1>8, <1>10, <2>2 DEF Ruled, HeaderSize
    <3>4. Len(g) < Len(f)
      BY <1>8, <3>3 DEF HeaderSize
    <3>5. Inside([r EXCEPT !.frame = g], f)
      BY <3>2, <3>3, <3>4 DEF Inside
    <3> QED
      BY <1>12, <3>1, <3>2, <3>5
  <2>3. CASE ~(k + 1 < HeaderSize)
    <3> DEFINE q == [state |-> "pdu", frame |-> g, data_remaining |-> Length(g) - 1]
    <3>1. m = [reader |-> q, got |-> << >>]
      BY <1>10, <1>13, <2>3 DEF Read, ReadHeader, Silent, g
    <3>2. k + 1 = HeaderSize
      BY <1>3, <2>1, <2>3 DEF HeaderSize
    <3>3. Length(g) = Length(f)
      <4>1. 2 \in 1 .. k + 1
        BY <3>2 DEF HeaderSize
      <4> QED
        BY <1>10, <4>1 DEF Length
    <3>4. Len(g) = HeaderSize /\ HeaderSize < Len(f)
      BY <1>6, <1>10, <3>2 DEF Ruled, HeaderSize
    <3>5. q.frame = g /\ q.state = "pdu" /\ q.data_remaining = Length(g) - 1
      OBVIOUS
    <3> HIDE DEF q
    <3>6. Len(q.frame) = HeaderSize /\ Len(f) \in Nat /\ q.data_remaining = Len(f) - HeaderSize
      BY <1>8, <3>3, <3>4, <3>5
    <3>7. Len(q.frame) < Len(f) /\ ~(Len(q.frame) < HeaderSize) /\ q.data_remaining = Len(f) - Len(q.frame)
      BY <3>4, <3>6 DEF HeaderSize
    <3>8. Inside(q, f)
      BY <3>5, <3>7 DEF Inside
    <3> QED
      BY <1>12, <3>1, <3>5, <3>8
  <2> QED
    BY <2>2, <2>3
<1>14. CASE r.state = "pdu"
  <2>1. k >= HeaderSize /\ r.data_remaining = Len(f) - k /\ ~(k >= SizeMax)
    BY <1>2, <1>3, <1>8, <1>14, SizeMaxAssumption DEF Inside, k
  <2>2. m = ReadPdu(r, b)
    BY <1>14 DEF Read
  <2>3. CASE r.data_remaining = 1
    <3>1. m = [reader |-> ReaderStart, got |-> <<g>>]
      BY <2>1, <2>2, <2>3 DEF ReadPdu, g, k
    <3>2. k + 1 = Len(f)
      BY <1>3, <1>8, <2>1, <2>3
    <3>3. g = f
      BY <1>8, <1>10, <3>2, SeqEqual
    <3>4. Cat(taken, m.got) = Append(taken, f) /\ m.reader = ReaderStart
      <4>1. Append(taken, f) = Cat(taken, <<f>>)
        BY <1>5, CatAppend
      <4> QED
        BY <3>1, <3>3, <4>1
    <3>5. Glued(Append(taken, f)) \in Seq(Nat)
      BY <1>5, GluedFacts
    <3>6. Glued(all) = Cat(Cat(Glued(Append(taken, f)), << >>), rest)
      BY <1>5, <1>11, <3>3, <3>5, CatFacts
    <3>7. ReaderStart.frame = << >> /\ ReaderStart.state = "header"
      BY DEF ReaderStart
    <3> QED
      BY <1>5, <3>4, <3>6, <3>7 DEF Behind
  <2>4. CASE r.data_remaining # 1
    <3> DEFINE q == [r EXCEPT !.frame = g, !.data_remaining = @ - 1]
    <3>1. m = [reader |-> q, got |-> << >>]
      BY <2>1, <2>2, <2>4 DEF ReadPdu, Silent, g, k
    <3>2. q.frame = g /\ q.state = "pdu" /\ q.data_remaining = r.data_remaining - 1
      BY <1>14 DEF ReaderType
    <3> HIDE DEF q
    <3>3. Len(g) < Len(f) /\ ~(Len(g) < HeaderSize) /\ q.data_remaining = Len(f) - Len(g)
      BY <1>3, <1>8, <1>10, <2>1, <2>4, <3>2 DEF HeaderSize
    <3>4. Inside(q, f)
      BY <3>2, <3>3 DEF Inside
    <3> QED
      BY <1>12, <3>1, <3>2, <3>4
  <2> QED
    BY <2>3, <2>4
<1> QED
  BY <1>13, <1>14 DEF ReaderType

(* Many bytes, one by one *)
FedType == [reader : ReaderType, got : Seq(FrameType)]
FedBy == [x \in FedType \X Nat |-> [reader |-> Read(x[1].reader, x[2]).reader,
                                    got |-> Cat(x[1].got, Read(x[1].reader, x[2]).got)]]

LEMMA FedTypes ==
  ASSUME NEW acc \in FedType, NEW b \in Nat, NEW q, q = FedBy[<<acc, b>>]
  PROVE  /\ q \in FedType
         /\ q = [reader |-> Read(acc.reader, b).reader, got |-> acc.got \o Read(acc.reader, b).got]
         /\ q.reader = Read(acc.reader, b).reader /\ q.got = Cat(acc.got, Read(acc.reader, b).got)
<1>1. acc.reader \in ReaderType /\ acc.got \in Seq(FrameType)
  BY DEF FedType
<1>2. PICK m : m = Read(acc.reader, b)
  OBVIOUS
<1>3. m.reader \in ReaderType /\ m.got \in Seq(FrameType)
  BY <1>1, <1>2, ReadTypes
<1>4. q = [reader |-> m.reader, got |-> Cat(acc.got, m.got)]
  BY <1>2 DEF FedBy
<1>5. Cat(acc.got, m.got) \in Seq(FrameType)
  BY <1>1, <1>3, CatFacts
<1>6. q \in FedType
  BY <1>3, <1>4, <1>5 DEF FedType
<1>7. q.reader = m.reader /\ q.got = Cat(acc.got, m.got)
  BY <1>4
<1>8. Cat(acc.got, m.got) = acc.got \o m.got
  BY DEF Cat
<1> QED
  BY <1>2, <1>4, <1>6, <1>7, <1>8

LEMMA FeedRuns ==
  ASSUME NEW r \in ReaderType, NEW part \in Seq(Nat)
  PROVE  \E q : Runs(FedType, FedBy, Silent(r), part, q, FeedAll(r, part))
<1> DEFINE T == Nat
           op(acc, b) == LET s == Read(acc.reader, b) IN [reader |-> s.reader, got |-> acc.got \o s.got]
           Def(q) == [p \in SUBSET DOMAIN part |->
                        IF p = {} THEN Silent(r) ELSE LET i == Max(p) IN op(q[p \ {i}], part[i])]
           it == CHOOSE q : q = Def(q)
<1>1. Silent(r) \in FedType
  <2>1. << >> \in Seq(FrameType)
    OBVIOUS
  <2> QED
    BY <2>1 DEF Silent, FedType
<1>2. \A a \in FedType, b \in T : FedBy[<<a, b>>] = op(a, b) /\ FedBy[<<a, b>>] \in FedType
  BY FedTypes
<1>3. FedBy \in [FedType \X T -> FedType] /\ \A a \in FedType, b \in T : FedBy[<<a, b>>] = op(a, b)
  <2>1. FedBy = [x \in FedType \X T |-> FedBy[x]]
    BY DEF FedBy
  <2>2. ASSUME NEW x \in FedType \X T PROVE FedBy[x] \in FedType
    <3>1. PICK a \in FedType, b \in T : x = <<a, b>>
      OBVIOUS
    <3> QED
      BY <1>2, <3>1
  <2> QED
    BY <1>2, <2>1, <2>2
<1> HIDE DEF T, op
<1>4. PICK g : IsFold(FedType, T, FedBy, Silent(r), part, g)
  BY <1>1, <1>3, FoldExists DEF T
<1>5. g = Def(g)
  BY <1>3, <1>4 DEF IsFold
<1>6. it = Def(it)
  <2> HIDE DEF Def
  <2> QED
    BY <1>5
<1> HIDE DEF it
<1>7. Follows(FedType, T, FedBy, Silent(r), part, it)
  BY <1>3, <1>6 DEF Follows
<1> HIDE DEF Def
<1>8. PICK q : Runs(FedType, FedBy, Silent(r), part, q, it[DOMAIN part])
  BY <1>1, <1>3, <1>7, FoldRuns DEF T
<1>9. FeedAll(r, part) = it[DOMAIN part]
  BY DEF FeedAll, FoldLeft, MapThenFoldSet, it, Def, op
<1> QED
  BY <1>8, <1>9

LEMMA FeedTypes ==
  ASSUME NEW r \in ReaderType, NEW part \in Seq(Nat), NEW m, m = FeedAll(r, part)
  PROVE  m.reader \in ReaderType /\ m.got \in Seq(FrameType)
<1>1. PICK q : Runs(FedType, FedBy, Silent(r), part, q, m)
  BY FeedRuns
<1>2. m \in FedType
  BY <1>1, LenProperties DEF Runs
<1> QED
  BY <1>2 DEF FedType

(* The reader keeps its place whatever part of the bytes it is fed. *)
LEMMA FeedKeepsPlace ==
  ASSUME NEW all \in Seq(FrameType), \A i \in 1 .. Len(all) : Ruled(all[i]),
         NEW taken \in Seq(FrameType), NEW r \in ReaderType,
         NEW part \in Seq(Nat), NEW rest \in Seq(Nat), Behind(all, taken, r, Cat(part, rest)),
         NEW m, m = FeedAll(r, part)
  PROVE  Behind(all, Cat(taken, m.got), m.reader, rest)
<1> DEFINE n == Len(part)
           after(i) == Cat(SubSeq(part, i + 1, n), rest)
<1>1. PICK q : Runs(FedType, FedBy, Silent(r), part, q, m)
  BY FeedRuns
<1> DEFINE J == {i \in 0 .. n : Behind(all, Cat(taken, q[i].got), q[i].reader, after(i))}
<1>2. /\ n \in Nat /\ q \in [0 .. n -> FedType] /\ q[0] = Silent(r) /\ m = q[n]
      /\ \A i \in 1 .. n : q[i] = FedBy[<<q[i - 1], part[i]>>]
  BY <1>1, LenProperties DEF Runs
<1>3. after(0) = Cat(part, rest) /\ after(n) = rest
  <2>1. SubSeq(part, 1, n) = part /\ SubSeq(part, n + 1, n) = << >>
    BY <1>2, SubSeqFull, SubSeqEmpty
  <2>2. Cat(<< >>, rest) = rest
    BY CatFacts
  <2>3. 0 + 1 = 1
    OBVIOUS
  <2> QED
    BY <2>1, <2>2, <2>3
<1>4. ASSUME NEW i \in 1 .. n
      PROVE  /\ part[i] \in Nat /\ after(i) \in Seq(Nat) /\ after(i - 1) \in Seq(Nat)
             /\ after(i - 1) = Cat(<<part[i]>>, after(i))
  <2>1. part[i] \in Nat /\ i \in Nat /\ n \in i .. n
    BY <1>2, ElementOfSeq
  <2>2. SubSeq(part, i, n) = <<part[i]>> \o SubSeq(part, i + 1, n)
    BY <2>1, SubSeqRecursiveFirst
  <2>3. SubSeq(part, i + 1, n) \in Seq(Nat)
    <3>1. \A j \in i + 1 .. n : part[j] \in Nat
      BY <1>2, ElementOfSeq
    <3> QED
      BY <1>2, <2>1, <3>1, SubSeqProperties
  <2>4. PICK e \in Seq(Nat), u \in Seq(Nat) : e = <<part[i]>> /\ u = SubSeq(part, i + 1, n)
    BY <2>1, <2>3, OneByte
  <2>5. SubSeq(part, i, n) = Cat(e, u) /\ (i - 1) + 1 = i
    BY <2>1, <2>2, <2>4 DEF Cat
  <2>6. Cat(Cat(e, u), rest) = Cat(e, Cat(u, rest)) /\ Cat(u, rest) \in Seq(Nat)
        /\ Cat(e, Cat(u, rest)) \in Seq(Nat)
    <3> HIDE <2>4
    <3>1. Cat(u, rest) \in Seq(Nat)
      BY CatFacts
    <3> QED
      BY <3>1, CatFacts, CatAssociative
  <2> QED
    BY <2>1, <2>4, <2>5, <2>6
<1> HIDE DEF n, after
<1>5. 0 \in J
  <2>1. q[0].got = << >> /\ q[0].reader = r
    BY <1>2 DEF Silent
  <2>2. Cat(taken, << >>) = taken
    BY CatFacts
  <2> QED
    BY <1>2, <1>3, <2>1, <2>2
<1>6. ASSUME NEW i \in 1 .. n, i - 1 \in J PROVE i \in J
  <2>1. i \in 0 .. n /\ i - 1 \in 0 .. n
    BY <1>2
  <2>2. PICK a \in FedType : a = q[i - 1]
    BY <1>2, <2>1
  <2>3. PICK b \in Nat : b = part[i]
    BY <1>4
  <2>4. Behind(all, Cat(taken, a.got), a.reader, after(i - 1))
    BY <1>6, <2>2
  <2>5. q[i] = FedBy[<<a, b>>]
    BY <1>2, <2>2, <2>3
  <2>6. PICK s : s = Read(a.reader, b)
    OBVIOUS
  <2>7. a.reader \in ReaderType /\ a.got \in Seq(FrameType)
    BY DEF FedType
  <2>8. q[i].reader = s.reader /\ q[i].got = Cat(a.got, s.got)
    BY <2>5, <2>6, FedTypes
  <2>9. Cat(taken, a.got) \in Seq(FrameType) /\ s.got \in Seq(FrameType)
    BY <2>6, <2>7, CatFacts, ReadTypes
  <2>10. Behind(all, Cat(Cat(taken, a.got), s.got), s.reader, after(i))
    BY <1>4, <2>3, <2>4, <2>6, <2>7, <2>9, ByteRead
  <2>11. Cat(Cat(taken, a.got), s.got) = Cat(taken, q[i].got)
    BY <2>7, <2>8, <2>9, CatAssociative
  <2> QED
    BY <2>1, <2>8, <2>10, <2>11
<1> HIDE DEF J
<1>7. n \in J
  <2>1. \A i \in 0 .. n : i \in J
    BY <1>2, <1>5, <1>6, Upto
  <2> QED
    BY <1>2, <2>1
<1> QED
  BY <1>2, <1>3, <1>7 DEF J

-----------------------------------------------------------------------------
(* What a master sends *)

FramesOf(shapes) == [i \in DOMAIN shapes |-> Frame(i, shapes[i])]

LEMMA FrameSent ==
  ASSUME NEW tid \in Nat, NEW shape \in ShapeType, NEW f, f = Frame(tid, shape)
  PROVE  /\ f \in FrameType /\ Tid(f) = tid /\ Uid(f) = shape.uid
         /\ Proper(shape) => Ruled(f)
<1>1. shape.length \in Nat /\ shape.uid \in Nat /\ shape.pdu \in Seq(Nat)
  BY DEF ShapeType
<1>2. PICK h : h = <<tid, shape.length, shape.uid>>
  OBVIOUS
<1>3. h \in Seq(Nat) /\ Len(h) = 3 /\ h[1] = tid /\ h[2] = shape.length /\ h[3] = shape.uid
  BY <1>1, <1>2
<1>4. PICK p \in Seq(Nat) : p = shape.pdu
  BY <1>1
<1>5. f = h \o p
  BY <1>2, <1>4 DEF Frame
<1>6. /\ h \o p \in Seq(Nat) /\ Len(h \o p) = Len(h) + Len(p) /\ Len(p) \in Nat
      /\ \A i \in 1 .. Len(h) + Len(p) : (h \o p)[i] = IF i <= Len(h) THEN h[i] ELSE p[i - Len(h)]
  BY <1>3, ConcatProperties, LenProperties
<1>7. f \in Seq(Nat) /\ Len(f) = 3 + Len(p) /\ f[1] = tid /\ f[2] = shape.length /\ f[3] = shape.uid
  <2>1. /\ 1 \in 1 .. Len(h) + Len(p) /\ 2 \in 1 .. Len(h) + Len(p) /\ 3 \in 1 .. Len(h) + Len(p)
        /\ 1 <= Len(h) /\ 2 <= Len(h) /\ 3 <= Len(h)
    BY <1>3, <1>6
  <2> HIDE <1>2
  <2> QED
    BY <1>3, <1>5, <1>6, <2>1
<1>8. ASSUME Proper(shape) PROVE Ruled(f)
  <2>1. shape.length = Len(p) + 1 /\ Len(p) \in 1 .. (SizeMax - HeaderSize) /\ SizeMax \in Nat
    BY <1>4, <1>8, SizeMaxAssumption DEF Proper
  <2>2. Length(f) = Len(p) + 1
    BY <1>7, <2>1 DEF Length
  <2> QED
    BY <1>6, <1>7, <2>1, <2>2 DEF Ruled, HeaderSize
<1> QED
  BY <1>6, <1>7, <1>8 DEF FrameType, HeaderSize, Tid, Uid

LEMMA FramesSent ==
  ASSUME NEW shapes \in Seq(ShapeType), NEW fs, fs = FramesOf(shapes)
  PROVE  /\ fs \in Seq(FrameType) /\ Len(fs) = Len(shapes)
         /\ \A i \in 1 .. Len(fs) : /\ shapes[i] \in ShapeType /\ fs[i] = Frame(i, shapes[i])
                                    /\ Tid(fs[i]) = i /\ Uid(fs[i]) = shapes[i].uid
                                    /\ Proper(shapes[i]) => Ruled(fs[i])
<1> DEFINE n == Len(shapes)
<1>1. n \in Nat /\ DOMAIN shapes = 1 .. n
  BY LenProperties
<1>2. fs = [i \in 1 .. n |-> Frame(i, shapes[i])]
  BY <1>1 DEF FramesOf
<1>3. ASSUME NEW i \in 1 .. n
      PROVE  /\ shapes[i] \in ShapeType /\ fs[i] = Frame(i, shapes[i]) /\ fs[i] \in FrameType
             /\ Tid(fs[i]) = i /\ Uid(fs[i]) = shapes[i].uid
             /\ Proper(shapes[i]) => Ruled(fs[i])
  <2>1. i \in Nat /\ shapes[i] \in ShapeType /\ fs[i] = Frame(i, shapes[i])
    BY <1>1, <1>2, ElementOfSeq
  <2> QED
    BY <2>1, FrameSent
<1> HIDE DEF n
<1>4. fs \in Seq(FrameType) /\ Len(fs) = n
  <2>1. fs \in [1 .. n -> FrameType]
    BY <1>2, <1>3
  <2> QED
    BY <1>1, <2>1
<1> QED
  BY <1>3, <1>4 DEF n

LEMMA FramesGrow ==
  ASSUME NEW shapes \in Seq(ShapeType), NEW shape \in ShapeType,
         NEW f, f = Frame(Len(shapes) + 1, shape)
  PROVE  f \in FrameType /\ FramesOf(Append(shapes, shape)) = Append(FramesOf(shapes), f)
<1>1. PICK n \in Nat : n = Len(shapes)
  BY LenProperties
<1>2. PICK more \in Seq(ShapeType) : more = Append(shapes, shape)
  BY AppendProperties
<1>3. Len(more) = n + 1 /\ more[n + 1] = shape /\ \A i \in 1 .. n : more[i] = shapes[i]
  BY <1>1, <1>2, AppendProperties
<1>4. f \in FrameType
  BY <1>1, FrameSent
<1>5. PICK fs \in Seq(FrameType) : fs = FramesOf(shapes) /\ Len(fs) = n
  BY <1>1, FramesSent
<1>6. PICK gs \in Seq(FrameType) : gs = FramesOf(more) /\ Len(gs) = n + 1
  BY <1>3, FramesSent
<1>7. \A i \in 1 .. n : fs[i] = Frame(i, shapes[i])
  BY <1>5, FramesSent
<1>8. \A i \in 1 .. n + 1 : gs[i] = Frame(i, more[i])
  BY <1>6, FramesSent
<1>9. /\ Append(fs, f) \in Seq(FrameType) /\ Len(Append(fs, f)) = n + 1
      /\ \A i \in 1 .. n : Append(fs, f)[i] = fs[i]
      /\ Append(fs, f)[n + 1] = f
  BY <1>4, <1>5, AppendProperties
<1>10. \A i \in 1 .. n + 1 : gs[i] = Append(fs, f)[i]
  <2> SUFFICES ASSUME NEW i \in 1 .. n + 1 PROVE gs[i] = Append(fs, f)[i]
    OBVIOUS
  <2>1. CASE i \in 1 .. n
    BY <1>3, <1>7, <1>8, <1>9, <2>1
  <2>2. CASE i = n + 1
    BY <1>1, <1>3, <1>8, <1>9, <2>2
  <2>3. i \in 1 .. n \/ i = n + 1
    OBVIOUS
  <2> QED
    BY <2>1, <2>2, <2>3
<1>11. gs = Append(fs, f)
  BY <1>6, <1>9, <1>10, SeqEqual
<1> QED
  BY <1>2, <1>4, <1>5, <1>6, <1>11

(* The reader keeps its place when another frame is sent. *)
LEMMA SendKeepsPlace ==
  ASSUME NEW all \in Seq(FrameType), NEW f \in FrameType, NEW taken \in Seq(FrameType),
         NEW r \in ReaderType, NEW x \in Seq(Nat)
  PROVE  /\ First(taken, all) => First(taken, Append(all, f))
         /\ Behind(all, taken, r, x) => Behind(Append(all, f), taken, r, Cat(x, f))
<1>1. PICK more \in Seq(FrameType) : more = Append(all, f)
  BY AppendProperties
<1>2. Len(more) = Len(all) + 1 /\ \A i \in 1 .. Len(all) : more[i] = all[i]
  BY <1>1, AppendProperties
<1>3. Len(all) \in Nat /\ Len(taken) \in Nat
  BY LenProperties
<1>4. ASSUME First(taken, all) PROVE First(taken, more)
  BY <1>2, <1>3, <1>4 DEF First
<1>5. ASSUME Behind(all, taken, r, x) PROVE Behind(more, taken, r, Cat(x, f))
  <2>1. First(taken, all) /\ Glued(all) = Cat(Cat(Glued(taken), r.frame), x)
        /\ IF r.frame = << >> THEN r.state = "header"
           ELSE Len(taken) < Len(all) /\ Inside(r, all[Len(taken) + 1])
    BY <1>5 DEF Behind
  <2>2. Glued(more) = Cat(Glued(all), f)
    <3>1. AllGlued[more] = Cat(AllGlued[all], Itself[f])
      BY <1>1, GluedGlues DEF Gluing
    <3> QED
      BY <3>1 DEF AllGlued, Itself
  <2>3. PICK u \in Seq(Nat) : u = Cat(Glued(taken), r.frame)
    <3>1. Glued(taken) \in Seq(Nat) /\ r.frame \in Seq(Nat)
      BY GluedFacts DEF ReaderType
    <3> QED
      BY <3>1, CatFacts
  <2>4. Cat(Cat(u, x), f) = Cat(u, Cat(x, f))
    BY CatAssociative, FrameFacts
  <2>5. Glued(more) = Cat(Cat(Glued(taken), r.frame), Cat(x, f))
    BY <2>1, <2>2, <2>3, <2>4
  <2>6. CASE r.frame = << >>
    BY <1>4, <2>1, <2>5, <2>6 DEF Behind
  <2>7. CASE r.frame # << >>
    <3>1. Len(taken) < Len(all) /\ Inside(r, all[Len(taken) + 1])
      BY <2>1, <2>7
    <3>2. Len(taken) + 1 \in 1 .. Len(all) /\ Len(taken) < Len(more)
      BY <1>2, <1>3, <3>1
    <3>3. Inside(r, more[Len(taken) + 1])
      BY <1>2, <3>1, <3>2
    <3> QED
      BY <1>4, <2>1, <2>5, <2>7, <3>2, <3>3 DEF Behind
  <2> QED
    BY <2>6, <2>7
<1> QED
  BY <1>1, <1>4, <1>5

-----------------------------------------------------------------------------
(* The responses *)

Asking(shapes) ==
  FoldLeft(LAMBDA tids, i : IF shapes[i].uid = MyAddress THEN Append(tids, i) ELSE tids,
           << >>, [i \in DOMAIN shapes |-> i])

(* The id of request i, if it is to this slave alone *)
AskedOne(shapes, i) == IF shapes[i].uid = MyAddress THEN <<i>> ELSE << >>

LEMMA AskedOneFacts ==
  ASSUME NEW shapes, NEW i \in Nat, NEW a \in Seq(Nat)
  PROVE  /\ AskedOne(shapes, i) \in Seq(Nat) /\ Cat(a, AskedOne(shapes, i)) \in Seq(Nat)
         /\ (IF shapes[i].uid = MyAddress THEN Append(a, i) ELSE a) = Cat(a, AskedOne(shapes, i))
<1>1. << >> \in Seq(Nat) /\ Cat(a, << >>) = a
  BY CatFacts
<1>2. Append(a, i) = Cat(a, <<i>>) /\ <<i>> \in Seq(Nat)
  BY CatAppend
<1>3. PICK e \in Seq(Nat) : e = AskedOne(shapes, i)
  BY <1>1, <1>2 DEF AskedOne
<1>4. Cat(a, e) \in Seq(Nat)
  BY CatFacts
<1> QED
  BY <1>1, <1>2, <1>3, <1>4 DEF AskedOne

LEMMA AskingRuns ==
  ASSUME NEW shapes \in Seq(ShapeType)
  PROVE  \E r : Runs(Seq(Nat), [x \in Seq(Nat) \X Nat |-> Cat(x[1], AskedOne(shapes, x[2]))], << >>,
                     [i \in DOMAIN shapes |-> i], r, Asking(shapes))
<1> DEFINE s == [i \in DOMAIN shapes |-> i]
           T == Nat
           S == Seq(Nat)
           op(tids, i) == IF shapes[i].uid = MyAddress THEN Append(tids, i) ELSE tids
           G == [x \in S \X T |-> Cat(x[1], AskedOne(shapes, x[2]))]
           Def(q) == [p \in SUBSET DOMAIN s |->
                        IF p = {} THEN << >> ELSE LET i == Max(p) IN op(q[p \ {i}], s[i])]
           it == CHOOSE q : q = Def(q)
<1>0. s \in Seq(T)
  <2>1. DOMAIN shapes = 1 .. Len(shapes) /\ Len(shapes) \in Nat
    BY LenProperties
  <2> QED
    BY <2>1
<1>1. << >> \in S
  OBVIOUS
<1>2. \A a \in S, i \in T : Cat(a, AskedOne(shapes, i)) \in S /\ Cat(a, AskedOne(shapes, i)) = op(a, i)
  BY AskedOneFacts
<1>3. G \in [S \X T -> S] /\ \A a \in S, i \in T : G[<<a, i>>] = op(a, i)
  BY <1>2
<1> HIDE DEF S, T, G, op, s
<1>4. PICK g : IsFold(S, T, G, << >>, s, g)
  BY <1>0, <1>1, <1>3, FoldExists
<1>5. g = Def(g)
  BY <1>3, <1>4 DEF IsFold
<1>6. it = Def(it)
  <2> HIDE DEF Def
  <2> QED
    BY <1>5
<1> HIDE DEF it
<1>7. Follows(S, T, G, << >>, s, it)
  BY <1>3, <1>6 DEF Follows
<1> HIDE DEF Def
<1>8. PICK r : Runs(S, G, << >>, s, r, it[DOMAIN s])
  BY <1>0, <1>1, <1>3, <1>7, FoldRuns
<1>9. Asking(shapes) = it[DOMAIN s]
  BY DEF Asking, FoldLeft, MapThenFoldSet, it, Def, op, s
<1> QED
  BY <1>8, <1>9 DEF S, T, G, s

(* The requests to this slave are those its frames would be answered with. *)
LEMMA AskedAreResponses ==
  ASSUME NEW shapes \in Seq(ShapeType)
  PROVE  Asking(shapes) = Responses(FramesOf(shapes))
<1> DEFINE G == [x \in Seq(Nat) \X Nat |-> Cat(x[1], AskedOne(shapes, x[2]))]
           H == [x \in Seq(Nat) \X FrameType |-> Cat(x[1], Response[x[2]])]
           s == [i \in DOMAIN shapes |-> i]
           fs == FramesOf(shapes)
           n == Len(shapes)
<1>1. n \in Nat /\ DOMAIN shapes = 1 .. n
  BY LenProperties
<1>2. Len(s) = n /\ \A i \in 1 .. n : s[i] = i
  BY <1>1
<1>3. /\ fs \in Seq(FrameType) /\ Len(fs) = n
      /\ \A i \in 1 .. n : /\ fs[i] \in FrameType /\ Response[fs[i]] = AskedOne(shapes, i)
  <2>1. fs \in Seq(FrameType) /\ Len(fs) = n
    BY FramesSent
  <2>2. ASSUME NEW i \in 1 .. n PROVE fs[i] \in FrameType /\ Response[fs[i]] = AskedOne(shapes, i)
    <3>1. fs[i] \in FrameType /\ Tid(fs[i]) = i /\ Uid(fs[i]) = shapes[i].uid
      BY <2>1, FramesSent, ElementOfSeq
    <3> HIDE DEF fs
    <3> QED
      BY <3>1 DEF Response, AskedOne, Answered
  <2> QED
    BY <2>1, <2>2
<1>4. PICK q : Runs(Seq(Nat), G, << >>, s, q, Asking(shapes))
  BY AskingRuns
<1>5. PICK r : Runs(Seq(Nat), H, << >>, fs, r, Responses(fs))
  BY <1>3, ResponsesRun
<1> DEFINE J == {i \in 0 .. n : q[i] = r[i]}
<1> HIDE DEF G, H, s, fs, n
<1>6. /\ q \in [0 .. n -> Seq(Nat)] /\ q[0] = << >> /\ Asking(shapes) = q[n]
      /\ \A i \in 1 .. n : q[i] = G[<<q[i - 1], i>>]
  BY <1>2, <1>4 DEF Runs
<1>7. /\ r \in [0 .. n -> Seq(Nat)] /\ r[0] = << >> /\ Responses(fs) = r[n]
      /\ \A i \in 1 .. n : r[i] = H[<<r[i - 1], fs[i]>>]
  BY <1>3, <1>5 DEF Runs
<1>8. 0 \in J
  BY <1>1, <1>6, <1>7
<1>9. ASSUME NEW i \in 1 .. n, i - 1 \in J PROVE i \in J
  <2>1. i \in Nat /\ i \in 0 .. n /\ i - 1 \in 0 .. n
    BY <1>1
  <2>2. PICK a \in Seq(Nat) : a = q[i - 1] /\ a = r[i - 1]
    BY <1>6, <1>9, <2>1
  <2>3. G[<<a, i>>] = Cat(a, AskedOne(shapes, i))
    BY <2>1 DEF G
  <2>4. PICK f \in FrameType : f = fs[i]
    BY <1>3
  <2>5. H[<<a, f>>] = Cat(a, Response[f])
    BY DEF H
  <2> QED
    BY <1>3, <1>6, <1>7, <2>1, <2>2, <2>3, <2>4, <2>5
<1> HIDE DEF J
<1>10. n \in J
  <2>1. \A i \in 0 .. n : i \in J
    BY <1>1, <1>8, <1>9, Upto
  <2> QED
    BY <1>1, <2>1
<1> QED
  BY <1>6, <1>7, <1>10 DEF J, fs

(* The beginning of a sequence of ids *)
Begins(a, b) == \E rest \in Seq(Nat) : b = Cat(a, rest)

LEMMA BeginsFacts ==
  ASSUME NEW a \in Seq(Nat), NEW b \in Seq(Nat), NEW x \in Seq(Nat)
  PROVE  /\ Begins(a, a)
         /\ Begins(a, b) => Begins(a, Cat(b, x))
         /\ Begins(a, b) => IsPrefix(a, b)
<1>1. Begins(a, a)
  <2>1. << >> \in Seq(Nat) /\ Cat(a, << >>) = a
    BY CatFacts
  <2> QED
    BY <2>1 DEF Begins
<1>2. ASSUME Begins(a, b) PROVE Begins(a, Cat(b, x))
  <2>1. PICK rest \in Seq(Nat) : b = Cat(a, rest)
    BY <1>2 DEF Begins
  <2>2. Cat(Cat(a, rest), x) = Cat(a, Cat(rest, x)) /\ Cat(rest, x) \in Seq(Nat)
    BY CatAssociative, CatFacts
  <2> QED
    BY <2>1, <2>2 DEF Begins
<1>3. ASSUME Begins(a, b) PROVE IsPrefix(a, b)
  <2>1. PICK rest \in Seq(Nat) : b = Cat(a, rest)
    BY <1>3 DEF Begins
  <2>2. b = a \o rest /\ Len(b) = Len(a) + Len(rest) /\ Len(a) \in Nat /\ Len(rest) \in Nat
    BY <2>1, CatFacts, LenProperties DEF Cat
  <2>3. SubSeq(b, 1, Len(a)) = SubSeq(a, 1, Len(a))
    <3>1. CASE Len(a) = 0
      BY <3>1, SubSeqEmpty
    <3>2. CASE Len(a) # 0
      <4>1. 1 \in 1 .. Len(a) /\ Len(a) \in 1 .. Len(a)
        BY <2>2, <3>2
      <4>2. SubSeq(a \o rest, 1, Len(a)) = SubSeq(a, 1, Len(a))
        BY <4>1, SubSeqOfConcat1
      <4> QED
        BY <2>2, <4>2
    <3> QED
      BY <3>1, <3>2
  <2> QED
    BY <2>2, <2>3 DEF IsPrefix
<1> QED
  BY <1>1, <1>2, <1>3

LEMMA ResponsesSplit ==
  ASSUME NEW s \in Seq(FrameType), NEW t \in Seq(FrameType)
  PROVE  /\ Responses(s) \in Seq(Nat) /\ Responses(t) \in Seq(Nat)
         /\ Responses(Cat(s, t)) = Cat(Responses(s), Responses(t))
<1>1. AllResponses[s] \in Seq(Nat) /\ AllResponses[t] \in Seq(Nat)
  BY ResponsesGlue DEF Gluing
<1>2. AllResponses[Cat(s, t)] = Cat(AllResponses[s], AllResponses[t])
  BY ResponsesGlue, GluingSplits
<1>3. Cat(s, t) \in Seq(FrameType)
  BY CatFacts
<1> QED
  BY <1>1, <1>2, <1>3 DEF AllResponses

-----------------------------------------------------------------------------
(* The connections *)

SlaveTypes ==
  /\ conn_state \in [Conns -> {"none", "pending", "open", "closed"}]
  /\ reader \in [Conns -> ReaderType]
  /\ stuck \in [Conns -> BOOLEAN]
  /\ bytes \in [Conns -> Seq(Nat)]
  /\ ended \in [Conns -> {"no", "eof", "err"}]
  /\ sent \in [Conns -> Seq(ShapeType)]
  /\ got \in [Conns -> Seq(FrameType)]
  /\ out \in [Conns -> Seq(Nat)]

(* The reader of a connection that lasts has kept its place.                *)
WhatWasSent(c) ==
  WellBehaved(c) =>
    /\ First(got[c], FramesOf(sent[c]))
    /\ conn_state[c] # "closed" /\ ended[c] # "err" => Behind(FramesOf(sent[c]), got[c], reader[c], bytes[c])

(* Nothing happens on a connection before it is accepted, nor after a reset. *)
Untouched(c) ==
  /\ conn_state[c] \in {"none", "pending"} => reader[c] = ReaderStart /\ stuck[c] = FALSE
  /\ ended[c] = "err" => bytes[c] = << >>

WhatWentOut(c) ==
  /\ Begins(out[c], Responses(got[c]))
  /\ ~stuck[c] => out[c] = Responses(got[c])

LineInv(c) == WhatWasSent(c) /\ Untouched(c) /\ WhatWentOut(c)

SlaveInv == SlaveTypes /\ \A c \in Conns : LineInv(c)

(* Of connection c nothing has changed that LineInv speaks of. *)
LineSame(c) ==
  /\ reader'[c] = reader[c] /\ stuck'[c] = stuck[c] /\ bytes'[c] = bytes[c]
  /\ ended'[c] = ended[c] /\ sent'[c] = sent[c] /\ got'[c] = got[c] /\ out'[c] = out[c]

LEMMA SameBehaviour ==
  ASSUME NEW c, sent'[c] = sent[c]
  PROVE  WellBehaved(c)' = WellBehaved(c) /\ FramesOf(sent[c])' = FramesOf(sent[c])
  BY DEF WellBehaved, FramesOf

LEMMA SameLine ==
  ASSUME NEW c, LineInv(c), LineSame(c),
         \/ conn_state'[c] = conn_state[c]
         \/ conn_state'[c] = "closed"
         \/ conn_state[c] \in {"none", "pending"} /\ conn_state'[c] # "closed"
  PROVE  LineInv(c)'
<1>1. WellBehaved(c)' = WellBehaved(c) /\ FramesOf(sent[c])' = FramesOf(sent[c])
  BY SameBehaviour DEF LineSame
<1>2. WhatWasSent(c)'
  BY <1>1 DEF LineInv, LineSame, WhatWasSent
<1>3. Untouched(c)'
  BY DEF LineInv, LineSame, Untouched
<1>4. WhatWentOut(c)'
  BY DEF LineInv, LineSame, WhatWentOut
<1> QED
  BY <1>2, <1>3, <1>4 DEF LineInv

LEMMA SlaveInitially == SlaveInit => SlaveInv
<1> SUFFICES ASSUME SlaveInit PROVE SlaveInv
  OBVIOUS
<1>1. ReaderStart \in ReaderType /\ << >> \in Seq(Nat) /\ << >> \in Seq(ShapeType) /\ << >> \in Seq(FrameType)
  <2>1. << >> \in Seq(Nat) /\ << >> \in Seq(ShapeType) /\ << >> \in Seq(FrameType)
    OBVIOUS
  <2> QED
    BY <2>1 DEF ReaderStart, ReaderType
<1>2. SlaveTypes
  BY <1>1 DEF SlaveInit, SlaveTypes
<1>3. Glued(<< >>) = << >> /\ Responses(<< >>) = << >>
  <2>1. AllGlued[<< >>] = << >> /\ AllResponses[<< >>] = << >>
    BY GluedGlues, ResponsesGlue DEF Gluing
  <2> QED
    BY <1>1, <2>1 DEF AllGlued, AllResponses
<1>4. ASSUME NEW c \in Conns PROVE LineInv(c)
  <2>1. /\ conn_state[c] = "none" /\ reader[c] = ReaderStart /\ stuck[c] = FALSE /\ bytes[c] = << >>
        /\ ended[c] = "no" /\ sent[c] = << >> /\ got[c] = << >> /\ out[c] = << >>
    BY DEF SlaveInit
  <2>2. FramesOf(sent[c]) = << >>
    BY <2>1 DEF FramesOf
  <2>3. Cat(Cat(<< >>, << >>), << >>) = << >>
    BY <1>1, CatFacts
  <2>4. Len(<< >>) = 0 /\ ReaderStart.frame = << >> /\ ReaderStart.state = "header"
    BY DEF ReaderStart
  <2>5. First(<< >>, << >>)
    BY <2>4 DEF First
  <2>6. Behind(<< >>, << >>, ReaderStart, << >>)
    BY <1>3, <2>3, <2>4, <2>5 DEF Behind
  <2>7. Begins(<< >>, << >>)
    BY <1>1, BeginsFacts
  <2> QED
    BY <1>3, <2>1, <2>2, <2>5, <2>6, <2>7 DEF LineInv, WhatWasSent, Untouched, WhatWentOut
<1> QED
  BY <1>2, <1>4 DEF SlaveInv

LEMMA SendKeeps ==
  ASSUME SlaveInv, NEW c \in Conns, MasterSends(c)
  PROVE  SlaveInv'
<1>1. PICK shape \in Shapes[c] :
        /\ sent' = [sent EXCEPT ![c] = Append(@, shape)]
        /\ bytes' = [bytes EXCEPT ![c] = @ \o Frame(Len(sent'[c]), shape)]
  BY DEF MasterSends
<1>2. /\ UNCHANGED <<conn_state, reader, stuck, ended, got, out>> /\ ended[c] = "no"
  BY DEF MasterSends, slaveVars
<1>3. SlaveTypes /\ \A d \in Conns : LineInv(d)
  BY DEF SlaveInv
<1>4. shape \in ShapeType /\ sent[c] \in Seq(ShapeType) /\ bytes[c] \in Seq(Nat)
  BY <1>3, ShapesAssumption DEF SlaveTypes
<1>5. sent' \in [Conns -> Seq(ShapeType)] /\ sent'[c] = Append(sent[c], shape)
  <2>1. Append(sent[c], shape) \in Seq(ShapeType)
    BY <1>4, AppendProperties
  <2> QED
    BY <1>1, <1>3, <2>1 DEF SlaveTypes
<1>6. PICK f : f = Frame(Len(sent[c]) + 1, shape)
  OBVIOUS
<1>7. f \in FrameType /\ FramesOf(sent'[c]) = Append(FramesOf(sent[c]), f) /\ Len(sent'[c]) = Len(sent[c]) + 1
  <2>1. PICK s \in Seq(ShapeType) : s = sent[c]
    BY <1>4
  <2>2. Len(Append(s, shape)) = Len(s) + 1
    BY <1>4, AppendProperties
  <2>3. f \in FrameType /\ FramesOf(Append(s, shape)) = Append(FramesOf(s), f)
    BY <1>4, <1>6, <2>1, FramesGrow
  <2> QED
    BY <1>5, <2>1, <2>2, <2>3
<1>8. bytes' \in [Conns -> Seq(Nat)] /\ bytes'[c] = Cat(bytes[c], f)
  <2>1. Cat(bytes[c], f) \in Seq(Nat)
    BY <1>4, <1>7, CatFacts, FrameFacts
  <2>2. bytes' = [bytes EXCEPT ![c] = Cat(bytes[c], f)]
    BY <1>1, <1>6, <1>7 DEF Cat
  <2> QED
    BY <1>3, <2>1, <2>2 DEF SlaveTypes
<1>9. SlaveTypes'
  BY <1>2, <1>3, <1>5, <1>8 DEF SlaveTypes
<1>10. ASSUME NEW d \in Conns, d # c PROVE LineInv(d)'
  <2>1. LineSame(d) /\ conn_state'[d] = conn_state[d]
    BY <1>1, <1>2, <1>3, <1>10 DEF LineSame, SlaveTypes
  <2> QED
    BY <1>3, <2>1, SameLine
<1>11. LineInv(c)'
  <2>1. WhatWasSent(c) /\ Untouched(c) /\ WhatWentOut(c)
    BY <1>3 DEF LineInv
  <2>2. Untouched(c)' /\ WhatWentOut(c)'
    BY <1>2, <2>1 DEF Untouched, WhatWentOut
  <2>3. ASSUME WellBehaved(c)' PROVE WellBehaved(c)
    <3> SUFFICES ASSUME NEW s \in Range(sent[c]) PROVE Proper(s)
      BY DEF WellBehaved
    <3>1. PICK i \in 1 .. Len(sent[c]) : s = sent[c][i]
      BY <1>4, LenProperties DEF Range
    <3>2. /\ Append(sent[c], shape)[i] = sent[c][i] /\ i \in DOMAIN Append(sent[c], shape)
      <4>1. PICK u \in Seq(ShapeType) : u = sent[c]
        BY <1>4
      <4>2. /\ Len(Append(u, shape)) = Len(u) + 1 /\ Append(u, shape)[i] = u[i]
            /\ DOMAIN Append(u, shape) = 1 .. Len(Append(u, shape)) /\ Len(u) \in Nat
        BY <1>4, <3>1, <4>1, AppendProperties, LenProperties
      <4>3. i \in 1 .. Len(u) + 1
        BY <3>1, <4>1, <4>2
      <4> QED
        BY <4>1, <4>2, <4>3
    <3>3. s \in Range(sent'[c])
      BY <1>5, <3>1, <3>2 DEF Range
    <3> QED
      BY <2>3, <3>3 DEF WellBehaved
  <2>4. /\ got[c] \in Seq(FrameType) /\ reader[c] \in ReaderType /\ FramesOf(sent[c]) \in Seq(FrameType)
    BY <1>3, <1>4, FramesSent DEF SlaveTypes
  <2>5. PICK all \in Seq(FrameType), taken \in Seq(FrameType), r \in ReaderType, x \in Seq(Nat) :
          all = FramesOf(sent[c]) /\ taken = got[c] /\ r = reader[c] /\ x = bytes[c]
    BY <1>4, <2>4
  <2>6. /\ First(taken, all) => First(taken, Append(all, f))
        /\ Behind(all, taken, r, x) => Behind(Append(all, f), taken, r, Cat(x, f))
    BY <1>7, SendKeepsPlace
  <2>7. FramesOf(sent[c])' = Append(all, f)
    BY <1>7, <2>5
  <2>8. /\ got'[c] = taken /\ reader'[c] = r /\ bytes'[c] = Cat(x, f) /\ conn_state'[c] = conn_state[c]
        /\ ended'[c] = ended[c]
    BY <1>2, <1>8, <2>5
  <2>9. WhatWasSent(c)'
    BY <2>1, <2>3, <2>5, <2>6, <2>7, <2>8 DEF WhatWasSent
  <2> QED
    BY <2>2, <2>9 DEF LineInv
<1> QED
  BY <1>9, <1>10, <1>11 DEF SlaveInv

LEMMA EndKeeps ==
  ASSUME SlaveInv, NEW c \in Conns, MasterEnds(c)
  PROVE  SlaveInv'
<1>1. PICK how \in {"eof", "err"} :
        /\ ended' = [ended EXCEPT ![c] = how]
        /\ bytes' = IF how = "err" THEN [bytes EXCEPT ![c] = << >>] ELSE bytes
  BY DEF MasterEnds
<1>2. UNCHANGED <<conn_state, reader, stuck, sent, got, out>> /\ ended[c] = "no"
  BY DEF MasterEnds, slaveVars
<1>3. SlaveTypes /\ \A d \in Conns : LineInv(d)
  BY DEF SlaveInv
<1>4. SlaveTypes'
  <2>1. << >> \in Seq(Nat)
    OBVIOUS
  <2>2. ended' \in [Conns -> {"no", "eof", "err"}]
    BY <1>1, <1>3 DEF SlaveTypes
  <2>3. bytes' \in [Conns -> Seq(Nat)]
    BY <1>1, <1>3, <2>1 DEF SlaveTypes
  <2> QED
    BY <1>2, <1>3, <2>2, <2>3 DEF SlaveTypes
<1>5. ASSUME NEW d \in Conns, d # c PROVE LineInv(d)'
  <2>1. LineSame(d) /\ conn_state'[d] = conn_state[d]
    BY <1>1, <1>2, <1>3, <1>5 DEF LineSame, SlaveTypes
  <2> QED
    BY <1>3, <2>1, SameLine
<1>6. LineInv(c)'
  <2>1. WhatWasSent(c) /\ Untouched(c) /\ WhatWentOut(c)
    BY <1>3 DEF LineInv
  <2>2. /\ ended'[c] = how
        /\ bytes'[c] = IF how = "err" THEN << >> ELSE bytes[c]
    BY <1>1, <1>3 DEF SlaveTypes
  <2>3. Untouched(c)' /\ WhatWentOut(c)'
    BY <1>2, <2>1, <2>2 DEF Untouched, WhatWentOut
  <2>4. WellBehaved(c)' = WellBehaved(c) /\ FramesOf(sent[c])' = FramesOf(sent[c])
    BY <1>2, SameBehaviour
  <2>5. WhatWasSent(c)'
    BY <1>2, <2>1, <2>2, <2>4 DEF WhatWasSent
  <2> QED
    BY <2>3, <2>5 DEF LineInv
<1> QED
  BY <1>4, <1>5, <1>6 DEF SlaveInv

(* What the stream takes of the responses to more frames. *)
LEMMA TransmitKeeps ==
  ASSUME NEW c, out \in [Conns -> Seq(Nat)], stuck \in [Conns -> BOOLEAN], c \in Conns,
         NEW s \in Seq(FrameType), NEW more \in Seq(FrameType),
         NEW responses, responses = Responses(more),
         Begins(out[c], Responses(s)), ~stuck[c] => out[c] = Responses(s),
         NEW k \in Takes(Len(responses)), Transmit(c, responses, k)
  PROVE  /\ out' \in [Conns -> Seq(Nat)] /\ stuck' \in [Conns -> BOOLEAN]
         /\ \A d \in Conns : d # c => out'[d] = out[d] /\ stuck'[d] = stuck[d]
         /\ Begins(out'[c], Responses(Cat(s, more)))
         /\ ~stuck'[c] => out'[c] = Responses(Cat(s, more))
<1> DEFINE n == IF stuck[c] THEN 0 ELSE k
           part == SubSeq(responses, 1, n)
<1>1. /\ responses \in Seq(Nat) /\ Responses(s) \in Seq(Nat)
      /\ Responses(Cat(s, more)) = Cat(Responses(s), responses)
  BY ResponsesSplit
<1>2. Len(responses) \in Nat /\ out[c] \in Seq(Nat)
  BY <1>1, LenProperties
<1>3. k \in 0 .. Len(responses) /\ n \in 0 .. Len(responses)
  <2>1. Room \in Nat
    BY BoundsAssumption
  <2>2. k \in {Len(responses)} \cup (Room .. Len(responses))
    BY DEF Takes
  <2> QED
    BY <1>2, <2>1, <2>2
<1>4. part \in Seq(Nat)
  <2>1. \A i \in 1 .. n : responses[i] \in Nat
    BY <1>1, <1>2, <1>3, ElementOfSeq
  <2> QED
    BY <1>3, <2>1, SubSeqProperties
<1>5. \E rest \in Seq(Nat) : responses = Cat(part, rest)
  <2> DEFINE rest == SubSeq(responses, n + 1, Len(responses))
  <2>1. 1 \in 1 .. Len(responses) + 1 /\ n \in 1 - 1 .. Len(responses) /\ Len(responses) \in n .. Len(responses)
    BY <1>2, <1>3
  <2>2. part \o rest = SubSeq(responses, 1, Len(responses))
    BY <1>1, <2>1, ConcatAdjacentSubSeq
  <2>3. SubSeq(responses, 1, Len(responses)) = responses
    BY <1>1, SubSeqFull
  <2>4. rest \in Seq(Nat)
    <3>1. \A i \in n + 1 .. Len(responses) : responses[i] \in Nat
      BY <1>1, <1>2, <1>3, ElementOfSeq
    <3>2. n + 1 \in Int /\ Len(responses) \in Int
      BY <1>2, <1>3
    <3> QED
      BY <3>1, <3>2, SubSeqProperties
  <2> QED
    BY <2>2, <2>3, <2>4 DEF Cat
<1>6. /\ out' = [out EXCEPT ![c] = Cat(out[c], part)]
      /\ stuck' = [stuck EXCEPT ![c] = stuck[c] \/ n < Len(responses)]
  BY DEF Transmit, Cat
<1>7. stuck[c] => part = << >>
  <2>1. SubSeq(responses, 1, 0) = << >>
    BY SubSeqEmpty
  <2> QED
    BY <2>1
<1>8. n = Len(responses) => part = responses
  BY <1>1, SubSeqFull
<1> HIDE DEF part
<1>9. /\ out' \in [Conns -> Seq(Nat)] /\ out'[c] = Cat(out[c], part)
      /\ \A d \in Conns : d # c => out'[d] = out[d]
  <2>1. Cat(out[c], part) \in Seq(Nat)
    BY <1>2, <1>4, CatFacts
  <2> QED
    BY <1>6, <2>1
<1>10. (~stuck[c]) => n = k
  OBVIOUS
<1> HIDE DEF n
<1>11. /\ stuck' \in [Conns -> BOOLEAN] /\ (stuck'[c] <=> stuck[c] \/ n < Len(responses))
       /\ \A d \in Conns : d # c => stuck'[d] = stuck[d]
  <2>1. (stuck[c] \/ n < Len(responses)) \in BOOLEAN
    OBVIOUS
  <2>2. \A d \in Conns : stuck'[d] = IF d = c THEN stuck[c] \/ n < Len(responses) ELSE stuck[d]
    BY <1>6
  <2>3. stuck' \in [Conns -> BOOLEAN]
    BY <1>6, <2>1
  <2> QED
    BY <2>2, <2>3
<1>12. Begins(out'[c], Responses(Cat(s, more)))
  <2>1. CASE stuck[c]
    <3>1. out'[c] = out[c]
      BY <1>2, <1>7, <1>9, <2>1, CatFacts
    <3>2. Begins(out[c], Cat(Responses(s), responses))
      BY <1>1, <1>2, BeginsFacts
    <3> QED
      BY <1>1, <3>1, <3>2
  <2>2. CASE ~stuck[c]
    <3>1. PICK rest \in Seq(Nat) : responses = Cat(part, rest)
      BY <1>5
    <3>2. PICK o \in Seq(Nat) : o = out[c] /\ o = Responses(s)
      BY <1>2, <2>2
    <3>3. Cat(Cat(o, part), rest) = Cat(o, Cat(part, rest))
      BY <1>4, CatAssociative
    <3>4. out'[c] = Cat(o, part) /\ Responses(Cat(s, more)) = Cat(Cat(o, part), rest)
      BY <1>1, <1>9, <3>1, <3>2, <3>3
    <3> QED
      BY <3>4 DEF Begins
  <2> QED
    BY <2>1, <2>2
<1>13. ASSUME ~stuck'[c] PROVE out'[c] = Responses(Cat(s, more))
  <2>1. ~stuck[c] /\ ~(n < Len(responses))
    BY <1>11, <1>13
  <2>2. n = Len(responses)
    BY <1>2, <1>3, <2>1
  <2> QED
    BY <1>1, <1>8, <1>9, <2>1, <2>2
<1> QED
  BY <1>9, <1>11, <1>12, <1>13

LEMMA ReadKeeps ==
  ASSUME SlaveInv, NEW c \in Conns, Rx(c)
  PROVE  SlaveInv'
<1>1. PICK n \in DOMAIN bytes[c] :
        LET fed == FeedAll(reader[c], SubSeq(bytes[c], 1, n))
            responses == Responses(fed.got)
        IN  /\ bytes' = [bytes EXCEPT ![c] = SubSeq(@, n + 1, Len(@))]
            /\ reader' = [reader EXCEPT ![c] = fed.reader]
            /\ got' = [got EXCEPT ![c] = @ \o fed.got]
            /\ \E k \in Takes(Len(responses)) : Transmit(c, responses, k)
  BY DEF Rx
<1>2. UNCHANGED <<conn_state, ended, sent>> /\ conn_state[c] = "open"
  BY DEF Rx
<1>3. SlaveTypes /\ \A d \in Conns : LineInv(d)
  BY DEF SlaveInv
<1> DEFINE x == bytes[c]
           part == SubSeq(x, 1, n)
           rest == SubSeq(x, n + 1, Len(x))
<1>4. x \in Seq(Nat) /\ n \in 1 .. Len(x) /\ Len(x) \in Nat
  BY <1>3, LenProperties DEF SlaveTypes
<1>5. part \in Seq(Nat) /\ rest \in Seq(Nat) /\ x = Cat(part, rest)
  <2>1. (\A i \in 1 .. n : x[i] \in Nat) /\ \A i \in n + 1 .. Len(x) : x[i] \in Nat
    BY <1>4, ElementOfSeq
  <2>2. n \in Int /\ n + 1 \in Int /\ Len(x) \in Int
    BY <1>4
  <2>3. part \in Seq(Nat) /\ rest \in Seq(Nat)
    BY <2>1, <2>2, SubSeqProperties
  <2>4. 1 \in 1 .. Len(x) + 1 /\ n \in 1 - 1 .. Len(x) /\ Len(x) \in n .. Len(x)
    BY <1>4
  <2>5. part \o rest = SubSeq(x, 1, Len(x))
    BY <1>4, <2>4, ConcatAdjacentSubSeq
  <2>6. SubSeq(x, 1, Len(x)) = x
    BY <1>4, SubSeqFull
  <2> QED
    BY <2>3, <2>5, <2>6 DEF Cat
<1>6. PICK fed : fed = FeedAll(reader[c], part)
  OBVIOUS
<1>7. /\ bytes' = [bytes EXCEPT ![c] = rest]
      /\ reader' = [reader EXCEPT ![c] = fed.reader]
      /\ got' = [got EXCEPT ![c] = Cat(got[c], fed.got)]
      /\ \E k \in Takes(Len(Responses(fed.got))) : Transmit(c, Responses(fed.got), k)
  BY <1>1, <1>6 DEF Cat
<1>8. x # << >>
  BY <1>4
<1> HIDE DEF part, rest
<1>9. reader[c] \in ReaderType /\ fed.reader \in ReaderType /\ fed.got \in Seq(FrameType)
  <2>1. reader[c] \in ReaderType
    BY <1>3 DEF SlaveTypes
  <2> QED
    BY <1>5, <1>6, <2>1, FeedTypes
<1>10. PICK s \in Seq(FrameType), more \in Seq(FrameType) : s = got[c] /\ more = fed.got
  BY <1>3, <1>9 DEF SlaveTypes
<1>11. Cat(s, more) \in Seq(FrameType)
  BY CatFacts
<1>12. WhatWasSent(c) /\ Untouched(c) /\ WhatWentOut(c)
  BY <1>3 DEF LineInv
<1>13. PICK k \in Takes(Len(Responses(more))) : Transmit(c, Responses(more), k)
  BY <1>7, <1>10
<1>14. /\ out' \in [Conns -> Seq(Nat)] /\ stuck' \in [Conns -> BOOLEAN]
       /\ \A d \in Conns : d # c => out'[d] = out[d] /\ stuck'[d] = stuck[d]
       /\ Begins(out'[c], Responses(Cat(s, more)))
       /\ ~stuck'[c] => out'[c] = Responses(Cat(s, more))
  <2>1. /\ out \in [Conns -> Seq(Nat)] /\ stuck \in [Conns -> BOOLEAN]
        /\ Begins(out[c], Responses(s)) /\ (~stuck[c] => out[c] = Responses(s))
    BY <1>3, <1>10, <1>12 DEF SlaveTypes, WhatWentOut
  <2> QED
    BY <1>13, <2>1, TransmitKeeps
<1>15. /\ bytes' \in [Conns -> Seq(Nat)] /\ reader' \in [Conns -> ReaderType] /\ got' \in [Conns -> Seq(FrameType)]
       /\ bytes'[c] = rest /\ reader'[c] = fed.reader /\ got'[c] = Cat(s, more)
       /\ \A d \in Conns : d # c => bytes'[d] = bytes[d] /\ reader'[d] = reader[d] /\ got'[d] = got[d]
  <2>1. bytes \in [Conns -> Seq(Nat)] /\ reader \in [Conns -> ReaderType] /\ got \in [Conns -> Seq(FrameType)]
    BY <1>3 DEF SlaveTypes
  <2>2. got' = [got EXCEPT ![c] = Cat(s, more)]
    BY <1>7, <1>10
  <2> QED
    BY <1>5, <1>7, <1>9, <1>11, <2>1, <2>2
<1>16. SlaveTypes'
  BY <1>2, <1>3, <1>14, <1>15 DEF SlaveTypes
<1>17. ASSUME NEW d \in Conns, d # c PROVE LineInv(d)'
  <2>1. LineSame(d) /\ conn_state'[d] = conn_state[d]
    BY <1>2, <1>14, <1>15, <1>17 DEF LineSame
  <2> QED
    BY <1>3, <2>1, SameLine
<1>18. LineInv(c)'
  <2>1. ended[c] # "err"
    BY <1>8, <1>12 DEF Untouched
  <2>2. Untouched(c)' /\ WhatWentOut(c)'
    BY <1>2, <1>14, <1>15, <2>1 DEF Untouched, WhatWentOut
  <2>3. WellBehaved(c)' = WellBehaved(c) /\ FramesOf(sent[c])' = FramesOf(sent[c])
    BY <1>2, SameBehaviour
  <2>4. ASSUME WellBehaved(c)
        PROVE  Behind(FramesOf(sent[c]), Cat(s, more), fed.reader, rest)
    <3>1. Behind(FramesOf(sent[c]), s, reader[c], Cat(part, rest))
      BY <1>2, <1>5, <1>10, <1>12, <2>1, <2>4 DEF WhatWasSent
    <3>2. sent[c] \in Seq(ShapeType)
      BY <1>3 DEF SlaveTypes
    <3>3. PICK all \in Seq(FrameType) : all = FramesOf(sent[c]) /\ Len(all) = Len(sent[c])
      BY <3>2, FramesSent
    <3>4. ASSUME NEW i \in 1 .. Len(all) PROVE Ruled(all[i])
      <4>1. Proper(sent[c][i]) => Ruled(all[i])
        BY <3>2, <3>3, FramesSent
      <4>2. sent[c][i] \in Range(sent[c])
        BY <3>2, <3>3, LenProperties DEF Range
      <4> QED
        BY <2>4, <4>1, <4>2 DEF WellBehaved
    <3> QED
      BY <1>5, <1>6, <1>9, <1>10, <3>1, <3>3, <3>4, FeedKeepsPlace
  <2>5. WhatWasSent(c)'
    <3>1. ASSUME WellBehaved(c)
          PROVE  First(Cat(s, more), FramesOf(sent[c]))
      BY <2>4, <3>1 DEF Behind
    <3> QED
      BY <1>15, <2>3, <2>4, <3>1 DEF WhatWasSent
  <2> QED
    BY <2>2, <2>5 DEF LineInv
<1> QED
  BY <1>16, <1>17, <1>18 DEF SlaveInv

(* Steps that only open and close connections *)
LEMMA ConnectionsKeep ==
  ASSUME SlaveInv, UNCHANGED <<bytes, ended, sent, got, out>>,
         conn_state' \in [Conns -> {"none", "pending", "open", "closed"}],
         \A d \in Conns :
           \/ conn_state'[d] = conn_state[d] \/ conn_state'[d] = "closed"
           \/ conn_state[d] \in {"none", "pending"} /\ conn_state'[d] # "closed",
         reader' = reader /\ stuck' = stuck
  PROVE  SlaveInv'
<1>1. SlaveTypes /\ \A d \in Conns : LineInv(d)
  BY DEF SlaveInv
<1>2. SlaveTypes'
  BY <1>1 DEF SlaveTypes
<1>3. ASSUME NEW d \in Conns PROVE LineInv(d)'
  <2>1. LineSame(d)
    BY DEF LineSame
  <2> QED
    BY <1>1, <2>1, SameLine
<1> QED
  BY <1>2, <1>3 DEF SlaveInv

LEMMA SlaveStep == SlaveInv /\ [SlaveNext]_allVars => SlaveInv'
<1> SUFFICES ASSUME SlaveInv, [SlaveNext]_allVars PROVE SlaveInv'
  OBVIOUS
<1>1. conn_state \in [Conns -> {"none", "pending", "open", "closed"}] /\ reader \in [Conns -> ReaderType]
      /\ stuck \in [Conns -> BOOLEAN]
  BY DEF SlaveInv, SlaveTypes
<1>2. CASE UNCHANGED allVars
  <2>1. UNCHANGED <<conn_state, reader, stuck, bytes, ended, sent, got, out>>
    BY <1>2 DEF allVars, slaveVars, masterVars
  <2> QED
    BY <1>1, <2>1, ConnectionsKeep
<1>3. CASE Start
  <2>1. UNCHANGED <<conn_state, reader, stuck, bytes, ended, sent, got, out>>
    BY <1>3 DEF Start, masterVars
  <2> QED
    BY <1>1, <2>1, ConnectionsKeep
<1>4. CASE Stop
  <2>1. UNCHANGED <<reader, stuck, bytes, ended, sent, got, out>> /\ Dealloc(Range(connections))
    BY <1>4 DEF Stop, masterVars
  <2>2. \A d \in Conns : conn_state'[d] = conn_state[d] \/ conn_state'[d] = "closed"
    BY <2>1 DEF Dealloc
  <2>3. conn_state' \in [Conns -> {"none", "pending", "open", "closed"}]
    BY <1>1, <2>1 DEF Dealloc
  <2> QED
    BY <2>1, <2>2, <2>3, ConnectionsKeep
<1>5. ASSUME NEW c \in Conns, MasterConnects(c) PROVE SlaveInv'
  <2>1. /\ UNCHANGED <<reader, stuck, bytes, ended, sent, got, out>> /\ conn_state[c] = "none"
        /\ conn_state' = [conn_state EXCEPT ![c] = "pending"]
    BY <1>5 DEF MasterConnects, masterVars
  <2>2. /\ conn_state' \in [Conns -> {"none", "pending", "open", "closed"}]
        /\ \A d \in Conns : conn_state'[d] = IF d = c THEN "pending" ELSE conn_state[d]
    BY <1>1, <2>1
  <2> QED
    BY <2>1, <2>2, ConnectionsKeep
<1>6. ASSUME NEW c \in Conns, Accept(c) PROVE SlaveInv'
  <2>1. /\ UNCHANGED <<bytes, ended, sent, got, out>> /\ conn_state[c] = "pending"
        /\ conn_state' = [conn_state EXCEPT ![c] = "open"]
        /\ reader' = [reader EXCEPT ![c] = ReaderStart] /\ stuck' = [stuck EXCEPT ![c] = FALSE]
    BY <1>6 DEF Accept, NewConnection, masterVars
  <2>2. reader[c] = ReaderStart /\ stuck[c] = FALSE
    BY <2>1 DEF SlaveInv, LineInv, Untouched
  <2>3. reader' = reader /\ stuck' = stuck
    BY <1>1, <2>1, <2>2
  <2>4. /\ conn_state' \in [Conns -> {"none", "pending", "open", "closed"}]
        /\ \A d \in Conns : conn_state'[d] = IF d = c THEN "open" ELSE conn_state[d]
    BY <1>1, <2>1
  <2> QED
    BY <2>1, <2>3, <2>4, ConnectionsKeep
<1>7. ASSUME NEW c \in Conns, AllocFails(c) PROVE SlaveInv'
  <2>1. /\ UNCHANGED <<reader, stuck, bytes, ended, sent, got, out>>
        /\ conn_state' = [conn_state EXCEPT ![c] = "closed"]
    BY <1>7 DEF AllocFails, masterVars
  <2>2. /\ conn_state' \in [Conns -> {"none", "pending", "open", "closed"}]
        /\ \A d \in Conns : conn_state'[d] = IF d = c THEN "closed" ELSE conn_state[d]
    BY <1>1, <2>1
  <2> QED
    BY <2>1, <2>2, ConnectionsKeep
<1>8. ASSUME NEW c \in Conns, End(c) PROVE SlaveInv'
  <2>1. UNCHANGED <<reader, stuck, bytes, ended, sent, got, out>> /\ Dealloc({c})
    BY <1>8 DEF End, masterVars
  <2>2. \A d \in Conns : conn_state'[d] = conn_state[d] \/ conn_state'[d] = "closed"
    BY <2>1 DEF Dealloc
  <2>3. conn_state' \in [Conns -> {"none", "pending", "open", "closed"}]
    BY <1>1, <2>1 DEF Dealloc
  <2> QED
    BY <2>1, <2>2, <2>3, ConnectionsKeep
<1> QED
  BY <1>2, <1>3, <1>4, <1>5, <1>6, <1>7, <1>8, SendKeeps, EndKeeps, ReadKeeps DEF SlaveNext

(* However the bytes of a well-behaved master are cut by read(), and whatever*)
(* the other masters send, what it sent is what the slave has taken for      *)
(* frames, what its reader holds and what is unread.                         *)
THEOREM FramesComeWhole == SlaveSpec => []NothingLost
<1>1. SlaveInv => NothingLost
  <2> SUFFICES ASSUME SlaveInv, NEW c \in Conns, conn_state[c] = "open", WellBehaved(c), ended[c] # "err"
               PROVE  Glued(Frames(c)) = Glued(got[c]) \o reader[c].frame \o bytes[c]
    BY DEF NothingLost
  <2>1. Behind(FramesOf(sent[c]), got[c], reader[c], bytes[c])
    BY DEF SlaveInv, LineInv, WhatWasSent
  <2>2. Frames(c) = FramesOf(sent[c])
    BY DEF Frames, FramesOf
  <2> QED
    BY <2>1, <2>2 DEF Behind, Cat
<1> QED
  BY <1>1, SlaveInitially, SlaveStep, PTL DEF SlaveSpec

(* A master gets the responses to its own requests, in their order, as many  *)
(* of the first as the stream could take, and none to anything else.         *)
THEOREM AnswersStayInOrder == SlaveSpec => []AnswersInOrder
<1>1. SlaveInv => AnswersInOrder
  <2> SUFFICES ASSUME SlaveInv, NEW c \in Conns
               PROVE  /\ WellBehaved(c) => IsPrefix(out[c], Asked(c))
                      /\ ~stuck[c] => out[c] = Responses(got[c])
    BY DEF AnswersInOrder
  <2>1. SlaveTypes /\ LineInv(c)
    BY DEF SlaveInv
  <2>2. ASSUME WellBehaved(c) PROVE IsPrefix(out[c], Asked(c))
    <3>1. First(got[c], FramesOf(sent[c])) /\ Begins(out[c], Responses(got[c]))
      BY <2>1, <2>2 DEF LineInv, WhatWasSent, WhatWentOut
    <3>2. PICK s \in Seq(FrameType), o \in Seq(Nat), shapes \in Seq(ShapeType) :
            s = got[c] /\ o = out[c] /\ shapes = sent[c]
      BY <2>1 DEF SlaveTypes
    <3>3. PICK all \in Seq(FrameType) : all = FramesOf(shapes)
      BY FramesSent
    <3>4. PICK rest \in Seq(FrameType) : all = Cat(s, rest)
      BY <3>1, <3>2, <3>3, FirstSplits
    <3>5. /\ Responses(s) \in Seq(Nat) /\ Responses(rest) \in Seq(Nat)
          /\ Responses(all) = Cat(Responses(s), Responses(rest))
      BY <3>4, ResponsesSplit
    <3>6. Begins(o, Responses(all)) /\ Responses(all) \in Seq(Nat)
      <4>1. PICK u \in Seq(Nat), v \in Seq(Nat) : u = Responses(s) /\ v = Responses(rest)
        BY <3>5
      <4>2. Begins(o, u)
        BY <3>1, <3>2, <4>1
      <4>3. Begins(o, Cat(u, v)) /\ Cat(u, v) \in Seq(Nat)
        BY <4>2, BeginsFacts, CatFacts
      <4> QED
        BY <3>5, <4>1, <4>3
    <3>7. Asked(c) = Responses(all)
      <4>1. Asked(c) = Asking(sent[c])
        BY DEF Asked, Asking
      <4> QED
        BY <3>2, <3>3, <4>1, AskedAreResponses
    <3> QED
      BY <3>2, <3>6, <3>7, BeginsFacts
  <2> QED
    BY <2>1, <2>2 DEF LineInv, WhatWentOut
<1> QED
  BY <1>1, SlaveInitially, SlaveStep, PTL DEF SlaveSpec
=============================================================================
