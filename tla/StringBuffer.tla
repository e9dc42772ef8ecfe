---------------------------- MODULE StringBuffer ----------------------------
(***************************************************************************)
(* utils/sbuf.c: integers written to a buffer in network byte order and    *)
(* read back from it.  Nothing in sbuf.c sets data_len, which limits the   *)
(* reads: the user does, when the buffer goes from writing to reading.     *)
(* Both limits leave the byte before them unused.                          *)
(***************************************************************************)
EXTENDS Integers, Sequences, SequencesExt

CONSTANTS
  Size,        (* the len given to sbuf_init                               *)
  Values,      (* the integers written, per type: [type -> a set]          *)
  MaxWrites    (* bound: the integers written                              *)

VARIABLES
  sbuf,        (* the sbuf_t: [buf, write_ndx, read_ndx, data_len]         *)
  wrote,       (* history: <<type, value>> of the writes that succeeded    *)
  readback     (* history: the same of the reads                           *)

vars == <<sbuf, wrote, readback>>

Width == [u8 |-> 1, s8 |-> 1, u16 |-> 2, s16 |-> 2, u32 |-> 4, s32 |-> 4]
Types == DOMAIN Width
Signed == {"s8", "s16", "s32"}

(* htons and htonl of the value, cast to unsigned: its bytes, high one first.*)
Bytes(type, v) ==
  LET n == Width[type] IN
  [i \in 1 .. n |-> (v \div 256 ^ (n - i)) % 256]

(* ntohs and ntohl, and the cast back. *)
FromBytes(type, bytes) ==
  LET high == IF type \in Signed /\ bytes[1] >= 128 THEN bytes[1] - 256 ELSE bytes[1]
  IN  FoldLeft(LAMBDA acc, b : 256 * acc + b, high, Tail(bytes))

-----------------------------------------------------------------------------
sbuf_is_write_possible(n) == sbuf.write_ndx + n < Size

sbuf_is_read_possible(n) == sbuf.read_ndx + n < sbuf.data_len

(* sbuf_init, over whatever the memory holds: zeroes, say. *)
Init ==
  /\ sbuf = [buf |-> [i \in 0 .. (Size - 1) |-> 0], write_ndx |-> 0, read_ndx |-> 0, data_len |-> 0]
  /\ wrote = << >>
  /\ readback = << >>

(* sbuf_write of an integer; one that does not fit changes nothing. *)
Write(type, v) ==
  LET n == Width[type]
      at == sbuf.write_ndx
  IN  /\ sbuf_is_write_possible(n)
      /\ sbuf' = [sbuf EXCEPT !.buf = [i \in DOMAIN @ |-> IF i \in at .. (at + n - 1)
                                                           THEN Bytes(type, v)[i - at + 1] ELSE @[i]],
                              !.write_ndx = @ + n]
      /\ wrote' = Append(wrote, <<type, v>>)
      /\ UNCHANGED readback

(* sbuf_read of an integer. *)
Read(type) ==
  LET n == Width[type] IN
  /\ sbuf_is_read_possible(n)
  /\ sbuf' = [sbuf EXCEPT !.read_ndx = @ + n]
  /\ readback' = Append(readback,
       <<type, FromBytes(type, [i \in 1 .. n |-> sbuf.buf[sbuf.read_ndx + i - 1]])>>)
  /\ UNCHANGED wrote

(* The user hands the buffer to a reader, who reads the types that were      *)
(* written; a user who knows of the unused byte counts it in.                *)
HandOver ==
  /\ wrote # << >> /\ sbuf.data_len = 0
  /\ \E n \in {sbuf.write_ndx, sbuf.write_ndx + 1} : sbuf' = [sbuf EXCEPT !.data_len = n]
  /\ UNCHANGED <<wrote, readback>>

Next ==
  \/ /\ sbuf.data_len = 0 /\ Len(wrote) < MaxWrites
     /\ \E type \in Types : \E v \in Values[type] : Write(type, v)
  \/ HandOver
  \/ /\ Len(readback) < Len(wrote)
     /\ Read(wrote[Len(readback) + 1][1])

-----------------------------------------------------------------------------
(* Properties *)

(* What is read is what was written, with its sign, in the same order; and   *)
(* when no more can be read, everything was, or, if the user counted the     *)
(* bytes written only, all but the last (sbuf.c 5-68).                       *)
ReadsAreWrites ==
  /\ IsPrefix(readback, wrote)
  /\ Len(readback) < Len(wrote) /\ sbuf.data_len > 0
       /\ ~sbuf_is_read_possible(Width[wrote[Len(readback) + 1][1]])
     => sbuf.data_len = sbuf.write_ndx /\ Len(readback) = Len(wrote) - 1
=============================================================================
