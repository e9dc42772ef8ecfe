------------------------------ MODULE ItemPool ------------------------------
(***************************************************************************)
(* core/item_pool.c as core/log.c uses it: a fixed pool of buffers under a *)
(* mutex.  log_write takes a buffer, formats into it and hands it to the   *)
(* logger task with task_notify; the logger's handler prints it and puts   *)
(* it back.  task_notify is the mailbox of module Mailbox, which module    *)
(* TaskQueue implements.                                                   *)
(***************************************************************************)
EXTENDS Naturals, Sequences, SequencesExt, FiniteSets

CONSTANTS
  Writers,   (* the threads that call log_write           *)
  Logger,    (* the logger task, pool->task, not a writer *)
  Buffers,   (* the pool's buffers                        *)
  NoBuf,     (* "no buffer"                               *)
  NoThread   (* "the mutex is free"                       *)

Threads == Writers \cup {Logger}

ASSUME PoolAssumption ==
  Logger \notin Writers /\ NoBuf \notin Buffers /\ NoThread \notin Threads /\ IsFiniteSet(Buffers)

VARIABLES
  pc,        (* where each thread is in log_write or in __consume_buffer     *)
  buf,       (* the buffer in the thread's hands, or NoBuf                   *)
  lock,      (* owner of pool->lock                                          *)
  free,      (* free_buffer_list                                             *)
  box,       (* the logger's mailbox: buffers handed over, oldest first      *)
  handling,  (* the buffer the logger's handler was called with, or NoBuf    *)
  leaked     (* buffers task_notify refused and item_pool_notify dropped     *)

poolVars == <<pc, buf, lock, free, box, handling, leaked>>

Mail == INSTANCE Mailbox WITH Tasks <- {Logger}, Message <- Buffers, NoMsg <- NoBuf

GetPCs == {"get_first", "get_unlink", "get_unlock"}
PutPCs == {"put_link", "put_unlock"}
PCs == {"idle", "get_lock", "format", "notify", "put_lock"} \cup GetPCs \cup PutPCs

(* item_pool_init: every buffer is on the free list. *)
PoolInit ==
  /\ pc = [t \in Threads |-> "idle"]
  /\ buf = [t \in Threads |-> NoBuf]
  /\ lock = NoThread
  /\ free = SetToSeq(Buffers)
  /\ Mail!Init
  /\ leaked = {}

mailVars == <<box, handling>>

Goto(t, from, to) ==
  /\ pc[t] = from
  /\ pc' = [pc EXCEPT ![t] = to]

-----------------------------------------------------------------------------
(* item_pool_get, called by log_write *)

LogWrite(t) ==
  /\ Goto(t, "idle", "get_lock")
  /\ UNCHANGED <<buf, lock, free, mailVars, leaked>>

(* mutant: the free list is read without the mutex *)
GetLockIgnored(t) ==
  /\ Goto(t, "get_lock", "get_first")
  /\ UNCHANGED <<buf, lock, free, mailVars, leaked>>

GetLock(t) ==
  /\ lock = NoThread
  /\ Goto(t, "get_lock", "get_first")
  /\ lock' = t
  /\ UNCHANGED <<buf, free, mailVars, leaked>>

(* list_empty: no buffer; otherwise the first entry is picked. *)
GetFirst(t) ==
  /\ IF free = << >>
     THEN Goto(t, "get_first", "get_unlock") /\ UNCHANGED buf
     ELSE /\ Goto(t, "get_first", "get_unlink")
          /\ buf' = [buf EXCEPT ![t] = Head(free)]
  /\ UNCHANGED <<lock, free, mailVars, leaked>>

(* list_del_init of the entry, which is harmless on one already unlinked. *)
Without(list, b) ==
  IF b \in Range(list) THEN RemoveAt(list, CHOOSE i \in DOMAIN list : list[i] = b) ELSE list

GetUnlink(t) ==
  /\ Goto(t, "get_unlink", "get_unlock")
  /\ free' = Without(free, buf[t])
  /\ UNCHANGED <<buf, lock, mailVars, leaked>>

(* log_write returns at once when it got no buffer. *)
GetUnlock(t) ==
  /\ Goto(t, "get_unlock", IF buf[t] = NoBuf THEN "idle" ELSE "format")
  /\ lock' = NoThread
  /\ UNCHANGED <<buf, free, mailVars, leaked>>

-----------------------------------------------------------------------------
(* log_write has a buffer *)

(* mutant: a line that is empty or too long is dropped, its buffer with it *)
FormatDrops(t) ==
  /\ \/ Goto(t, "format", "notify") /\ UNCHANGED buf
     \/ Goto(t, "format", "idle") /\ buf' = [buf EXCEPT ![t] = NoBuf]
  /\ UNCHANGED <<lock, free, mailVars, leaked>>

(* vsnprintf: a line of 1 to 255 characters is sent, any other put back. *)
Format(t) ==
  /\ Goto(t, "format", "notify") \/ Goto(t, "format", "put_lock")
  /\ UNCHANGED <<buf, lock, free, mailVars, leaked>>

(* item_pool_notify: the mailbox takes the buffer ... *)
Notify(t) ==
  /\ Goto(t, "notify", "idle")
  /\ Mail!Post(Logger, buf[t])
  /\ buf' = [buf EXCEPT ![t] = NoBuf]
  /\ UNCHANGED <<lock, free, leaked>>

(* ... or task_notify returns -1, which item_pool_notify ignores. *)
NotifyRefused(t) ==
  /\ Goto(t, "notify", "idle")
  /\ leaked' = leaked \cup {buf[t]}
  /\ buf' = [buf EXCEPT ![t] = NoBuf]
  /\ UNCHANGED <<lock, free, mailVars>>

-----------------------------------------------------------------------------
(* __put_item_pool_buffer, called by log_write and by __consume_buffer *)

PutLock(t) ==
  /\ lock = NoThread
  /\ Goto(t, "put_lock", "put_link")
  /\ lock' = t
  /\ UNCHANGED <<buf, free, mailVars, leaked>>

PutLink(t) ==
  /\ Goto(t, "put_link", "put_unlock")
  /\ free' = Append(free, buf[t])
  /\ buf' = [buf EXCEPT ![t] = NoBuf]
  /\ UNCHANGED <<lock, mailVars, leaked>>

(* The logger's handler returns after the put; log_write returns. *)
PutUnlock(t) ==
  /\ Goto(t, "put_unlock", "idle")
  /\ lock' = NoThread
  /\ IF t = Logger THEN Mail!Return(Logger) ELSE UNCHANGED mailVars
  /\ UNCHANGED <<buf, free, leaked>>

(* __consume_buffer starts: the line is printed, the buffer is to be put back. *)
Consume ==
  /\ Goto(Logger, "idle", "put_lock")
  /\ Mail!Take(Logger)
  /\ buf' = [buf EXCEPT ![Logger] = Head(box[Logger])]
  /\ UNCHANGED <<lock, free, leaked>>

-----------------------------------------------------------------------------
PutBack(t) == PutLock(t) \/ PutLink(t) \/ PutUnlock(t)

WriterStep(t) ==
  \/ GetLock(t) \/ GetFirst(t) \/ GetUnlink(t) \/ GetUnlock(t)
  \/ Format(t) \/ Notify(t) \/ NotifyRefused(t) \/ PutBack(t)

PoolNext ==
  \/ \E t \in Writers : LogWrite(t) \/ WriterStep(t)
  \/ Consume \/ PutBack(Logger)

(* A log_write begun goes on, the logger handles its mail, and a thread that *)
(* keeps finding the mutex free now and then obtains it.                     *)
PoolFairness ==
  /\ \A t \in Writers :
       /\ WF_poolVars(WriterStep(t))
       /\ SF_poolVars(GetLock(t))
       /\ SF_poolVars(PutLock(t))
  /\ WF_poolVars(Consume)
  /\ WF_poolVars(PutBack(Logger))
  /\ SF_poolVars(PutLock(Logger))

PoolSpec == PoolInit /\ [][PoolNext]_poolVars /\ PoolFairness

-----------------------------------------------------------------------------
(* Properties *)

(* Thread t has taken its buffer off the list and not put it back. *)
Holds(t, b) == buf[t] = b /\ pc[t] # "get_unlink"

(* How many times buffer b is on the free list, in a thread's hands, in the  *)
(* mailbox or leaked.                                                        *)
Places(b) ==
  Cardinality({i \in DOMAIN free : free[i] = b})
    + Cardinality({t \in Threads : Holds(t, b)})
    + Cardinality({i \in DOMAIN box[Logger] : box[Logger][i] = b})
    + (IF b \in leaked THEN 1 ELSE 0)

(* A buffer is never in two hands: no two writers format into one buffer,    *)
(* and none formats into a buffer the logger has yet to print; nor does a    *)
(* buffer disappear, other than by a refused task_notify (item_pool.c 27-75, *)
(* log.c 77-102); and nobody formats or sends without one, also when the     *)
(* pool was empty.                                                           *)
EachBufferOnce ==
  /\ \A b \in Buffers : Places(b) = 1
  /\ \A t \in Threads : pc[t] \in {"format", "notify", "put_lock"} => buf[t] \in Buffers

(* Every buffer taken from the pool comes back to it, unless task_notify     *)
(* refused it: the pool is not drained by lines that are too long, nor by    *)
(* writers that race for the last buffer.                                    *)
BuffersComeBack ==
  \A b \in Buffers : (b \notin Range(free)) ~> (b \in Range(free) \cup leaked)
=============================================================================
