-------------------------- MODULE ModbusLinkProofs --------------------------
(***************************************************************************)
(* Proofs about the ends of a Modbus line: the master on TCP and the slave *)
(* on a serial line.                                                       *)
(*                                                                         *)
(* For any number of descriptors, transaction ids and requests, the master *)
(* never has two sockets to its slave, and its answer callback gets the    *)
(* answer to the request that ctx.req_* describes.                         *)
(*                                                                         *)
(* The first rests on AutoConnectorProofs: the connector keeps its own     *)
(* invariant under the master's calls, and is at rest while a stream is    *)
(* open.  The second rests on the order of the requests and halves on the  *)
(* connection, and on the master not reading while it answers: what it has *)
(* read is used up when the answer to its last request is complete.        *)
(*                                                                         *)
(* For any frames, sizes and delays, the slave serves a frame that its     *)
(* loop was in time for: until T35 has passed after its end, the buffer    *)
(* and the unread bytes are that frame as far as it was sent.              *)
(***************************************************************************)
EXTENDS ModbusTcpMaster, RtuSlave, SequenceTheorems, FiniteSetTheorems, TLAPS

(* The connector of the master, with nothing of the demo client. *)
Conn == INSTANCE AutoConnectorProofs WITH connected <- FALSE, use <- "auto"

USE FdsAssumption DEF Conn!FdsAssumption

-----------------------------------------------------------------------------
(* The steps the master makes of the connector are those of AutoConnector.   *)

LEMMA SameWatcher ==
  /\ Connector!Dirs = Conn!Dirs
  /\ Connector!WatcherInit = Conn!WatcherInit
  /\ \A w, d : Connector!Watch(w, d) = Conn!Watch(w, d)
  /\ \A w, d : Connector!Deliver(w, d) = Conn!Deliver(w, d)
  /\ \A w, e : Connector!Feed(w, e) = Conn!Feed(w, e)
  /\ \A w : Connector!Start(w) = Conn!Start(w)
  /\ \A w : Connector!Stop(w) = Conn!Stop(w)
  BY DEF Connector!Dirs, Conn!Dirs, Connector!WatcherInit, Conn!WatcherInit,
         Connector!Watch, Conn!Watch, Connector!Deliver, Conn!Deliver, Connector!Feed, Conn!Feed,
         Connector!Start, Conn!Start, Connector!Stop, Conn!Stop,
         Connector!IoStart, Conn!IoStart, Connector!IoStop, Conn!IoStop

LEMMA SameConnector ==
  /\ \A fd : Connector!Fresh(fd) = Conn!Fresh(fd)
  /\ \A conn : Connector!Deinit(conn) = Conn!Deinit(conn)
  /\ \A t : Connector!TimerStart(t) = Conn!TimerStart(t)
  /\ \A conn, o, h : Connector!Success(conn, o, h) = Conn!Success(conn, o, h)
  BY SameWatcher
  DEF Connector!Fresh, Conn!Fresh, Connector!Deinit, Conn!Deinit, Connector!TimerStart, Conn!TimerStart,
      Connector!Success, Conn!Success, Connector!tcp_connect_get_sd, Conn!tcp_connect_get_sd

LEMMA SameInit == Connector!Init => Conn!Init
  BY SameConnector DEF Connector!Init, Conn!Init

LEMMA SameOutcomes ==
  ASSUME NEW conn, NEW o, NEW h
  PROVE  /\ Connector!Success(conn, o, h) => Conn!Success(conn, o, h)
         /\ \A t : Connector!Failure(conn, t, o, h) => Conn!Failure(conn, t, o, h)
         /\ Connector!InProgress(conn, o, h) => Conn!InProgress(conn, o, h)
  BY SameConnector
  DEF Connector!Success, Conn!Success, Connector!tcp_connect_get_sd, Conn!tcp_connect_get_sd,
      Connector!Failure, Conn!Failure, Connector!InProgress, Conn!InProgress

LEMMA SameConnect ==
  ASSUME NEW t, NEW o, NEW h, Connector!Connect(t, o, h) PROVE Conn!Connect(t, o, h)
<1>1. CASE Connector!Failure([c EXCEPT !.sd = NoFd], t, o, h)
  BY <1>1, SameOutcomes DEF Conn!Connect
<1>2. ASSUME NEW fd \in Fds \ o, Connector!Success(Connector!Fresh(fd), o \cup {fd}, h), rtmr' = t
      PROVE  Conn!Connect(t, o, h)
  BY <1>2, SameOutcomes, SameConnector DEF Conn!Connect
<1>3. ASSUME NEW fd \in Fds \ o, Connector!Failure(Connector!Fresh(fd), t, o \cup {fd}, h)
      PROVE  Conn!Connect(t, o, h)
  BY <1>3, SameOutcomes, SameConnector DEF Conn!Connect
<1>4. ASSUME NEW fd \in Fds \ o, rtmr' = t,
             Connector!InProgress([Connector!Fresh(fd) EXCEPT !.in_prog = TRUE, !.w = Connector!Start(@),
                                                              !.tmr = "running"], o \cup {fd}, h)
      PROVE  Conn!Connect(t, o, h)
  BY <1>4, SameOutcomes, SameConnector, SameWatcher DEF Conn!Connect
<1> QED
  BY <1>1, <1>2, <1>3, <1>4 DEF Connector!Connect

LEMMA SameSteps ==
  /\ Connector!LoopStep => Conn!LoopStep
  /\ Connector!LoopPoll => Conn!LoopPoll
  /\ Connector!UserStop => Conn!UserStop
<1>1. Connector!ConnectEvent => Conn!ConnectEvent
  BY SameWatcher, SameOutcomes DEF Connector!ConnectEvent, Conn!ConnectEvent
<1>2. Connector!AttemptTimeout => Conn!AttemptTimeout
  BY SameWatcher, SameConnector DEF Connector!AttemptTimeout, Conn!AttemptTimeout
<1>3. Connector!WaitTimeout => Conn!WaitTimeout
  BY SameConnect DEF Connector!WaitTimeout, Conn!WaitTimeout
<1>4. Connector!CallbackReturn => Conn!CallbackReturn
  BY SameConnect DEF Connector!CallbackReturn, Conn!CallbackReturn
<1>5. Connector!LoopPoll => Conn!LoopPoll
  BY SameWatcher DEF Connector!LoopPoll, Conn!LoopPoll, Connector!Poll, Conn!Poll
<1>6. Connector!UserStop => Conn!UserStop
  BY SameConnector DEF Connector!UserStop, Conn!UserStop
<1> QED
  BY <1>1, <1>2, <1>3, <1>4, <1>5, <1>6 DEF Connector!LoopStep, Conn!LoopStep

-----------------------------------------------------------------------------
(* One connection at most *)

(* Beside the connector's invariant: the stream has the connection, or the   *)
(* connector is at work and calls the user back, or neither.                 *)
OwnerInv ==
  /\ Conn!ConnInv
  /\ tcp_state \in {"Not_Connected", "Connecting", "Connected"}
  /\ tcp_state = "Connected" <=> held # {}
  /\ tcp_state = "Connecting" <=> state # "not_started"
  /\ \A fd1, fd2 \in held : fd1 = fd2
  /\ calling # "none" => tcp_state = "Connecting"

(* Outside an attempt the connector holds no descriptor. *)
LEMMA AtRest ==
  ASSUME OwnerInv, tcp_state # "Connecting"
  PROVE  /\ Conn!Resting(c, Conn!None) /\ rtmr = "off" /\ calling = "none" /\ state = "not_started"
         /\ open = held /\ held \subseteq Fds
  BY DEF OwnerInv, Conn!ConnInv, Conn!Conditions, Conn!Descriptors, Conn!Resting, Conn!None

(* What an attempt from rest leaves behind, when the master goes by it. *)
LEMMA ConnectOwner ==
  ASSUME Conn!Resting(c, Conn!None), Connector!Connect("off", {}, {}),
         tcp_state' = IF held' # {} THEN "Connected" ELSE "Connecting"
  PROVE  OwnerInv'
<1>1. Conn!ConnInv' /\ (Conn!HandsOver({}) \/ Conn!KeepsTrying({}))
  BY SameConnect, Conn!ConnectKeeps
<1> QED
  BY <1>1 DEF Conn!HandsOver, Conn!KeepsTrying, OwnerInv

LEMMA OwnerInit == Init => OwnerInv
  BY SameInit, Conn!ConnInit DEF Init, Conn!Init, OwnerInv

LEMMA OwnerStep == OwnerInv /\ [Next]_vars => OwnerInv'
<1> SUFFICES ASSUME OwnerInv, [Next]_vars PROVE OwnerInv'
  OBVIOUS
<1>1. CASE ConnectorStep
  <2>1. Conn!LoopStep \/ Conn!LoopPoll
    BY <1>1, SameSteps DEF ConnectorStep
  <2>2. Conn!ConnInv'
    BY <2>1, Conn!ConnStep DEF Conn!Next, OwnerInv
  <2>3. CASE tcp_state = "Connecting" /\ Conn!LoopStep
    <3>1. held = {} /\ state # "not_started"
      BY <2>3 DEF OwnerInv
    <3>2. Conn!HandsOver({}) \/ Conn!KeepsTrying({})
      BY <2>3, <3>1, Conn!LoopStepHands DEF OwnerInv
    <3> QED
      BY <1>1, <2>2, <2>3, <3>1, <3>2
      DEF ConnectorStep, ConnectorCallback, Connected, Conn!HandsOver, Conn!KeepsTrying, OwnerInv
  <2>4. CASE Conn!LoopPoll
    BY <1>1, <2>2, <2>4
    DEF ConnectorStep, ConnectorCallback, Connected, Conn!LoopPoll, Conn!Poll, OwnerInv
  <2>5. CASE tcp_state # "Connecting" /\ Conn!LoopStep
    BY <2>5, AtRest, Conn!RestIsQuiet
  <2> QED
    BY <2>1, <2>3, <2>4, <2>5
<1>2. CASE MasterStart
  <2>1. Conn!Resting(c, Conn!None) /\ rtmr = "off" /\ open = {} /\ held = {}
    BY <1>2, AtRest DEF MasterStart, OwnerInv
  <2> QED
    BY <1>2, <2>1, ConnectOwner DEF MasterStart, Connected
<1>3. ASSUME tcp_state = "Connected", StartReconnect PROVE OwnerInv'
  <2>1. Conn!Resting(c, Conn!None) /\ open \ held = {}
    BY <1>3, AtRest
  <2> QED
    BY <1>3, <2>1, ConnectOwner DEF StartReconnect
<1>4. CASE MasterStop
  <2>1. CASE tcp_state = "Connecting" /\ Connector!UserStop
    <3>1. Conn!UserStop
      BY <2>1, SameSteps
    <3>2. Conn!ConnInv'
      BY <3>1, Conn!ConnStep DEF Conn!Next, OwnerInv
    <3> QED
      BY <1>4, <2>1, <3>1, <3>2 DEF MasterStop, UserCode, Conn!UserStop, OwnerInv
  <2>2. CASE tcp_state = "Connected" /\ held' = {} /\ open' = open \ held
                                     /\ UNCHANGED <<state, c, rtmr, calling>>
    <3>1. open' = {} /\ held' = {} /\ c' = c /\ Conn!Resting(c, Conn!None)
      BY <2>2, AtRest
    <3>2. Conn!ConnInv'
      BY <2>2, <3>1
      DEF OwnerInv, Conn!ConnInv, Conn!Conditions, Conn!Descriptors, Conn!Resting, Conn!None
    <3> QED
      BY <1>4, <2>2, <3>1, <3>2 DEF MasterStop, OwnerInv
  <2> QED
    BY <1>4, <2>1, <2>2 DEF MasterStop
<1>5. CASE UNCHANGED <<connVars, tcp_state>>
  BY <1>5 DEF connVars, OwnerInv, Conn!ConnInv, Conn!Conditions, Conn!Descriptors
<1>6. ASSUME RequestNotConnected \/ RequestSent \/ StreamRx \/ FeedHeader \/ FeedAnswer
               \/ FeedMismatch \/ AnswerReturn \/ SlaveAnswers \/ SlaveIgnores \/ UNCHANGED vars
      PROVE  OwnerInv'
  BY <1>5, <1>6 DEF RequestNotConnected, RequestSent, StreamRx, FeedHeader, FeedAnswer, FeedMismatch,
                    AnswerReturn, SlaveAnswers, SlaveIgnores, vars
<1> QED
  BY <1>1, <1>2, <1>3, <1>4, <1>6 DEF Next, RequestFails, StreamEnd

(* Whatever the order of lost connections, reconnects and stops, from the    *)
(* loop and from inside callbacks, the master's state tells who is at work,  *)
(* and its old socket is closed before it opens another.                     *)
THEOREM OneConnection == Spec => []OneOwner
<1>1. OwnerInv => OneOwner
  <2> SUFFICES ASSUME OwnerInv PROVE Cardinality(open) <= 1
    BY DEF OwnerInv, OneOwner
  <2>1. \A fd1, fd2 \in open : fd1 = fd2
    BY DEF OwnerInv, Conn!ConnInv, Conn!Conditions, Conn!Descriptors, Conn!Resting, Conn!None
  <2>2. open = {} \/ \E fd : open = {fd}
    BY <2>1
  <2>3. Cardinality(open) \in {0, 1}
    BY <2>2, FS_EmptySet, FS_Singleton
  <2> QED
    BY <2>3
<1> QED
  BY OwnerInit, OwnerStep, <1>1, PTL DEF Spec

-----------------------------------------------------------------------------
(* The order of requests and answers *)

Half == [req : Nat \ {0}, tid : 0 .. (TidMod - 1)]

(* Of the halves that arrive only the ones of request n, the last to be made, *)
(* carry the transaction id before t.                                         *)
TellsLatest(h, n, t) == h.req <= n /\ ((t > 0 /\ h.tid = t - 1) => h.req = n)

(* The line s of halves on their way to the reader, and the requests a still  *)
(* with the slave: each request has two halves at most, answers come in the   *)
(* order of the requests, and what the slave has not seen is newer.           *)
InOrder(s, a, n, t) ==
  /\ \A i \in DOMAIN s : TellsLatest(s[i], n, t)
  /\ \A i \in DOMAIN a : TellsLatest(a[i], n, t)
  /\ \A i, j \in DOMAIN s : i + 2 <= j => s[i].req < s[j].req
  /\ \A i \in DOMAIN s, j \in DOMAIN a : s[i].req < a[j].req
  /\ \A i, j \in DOMAIN a : i < j => a[i].req < a[j].req

LEMMA NothingInOrder == ASSUME NEW n, NEW t PROVE InOrder(<< >>, << >>, n, t)
  BY DEF InOrder

(* The reader uses halves up from the front. *)
LEMMA RestInOrder ==
  ASSUME NEW x \in Seq(Half), NEW s \in Seq(Half), NEW a, NEW n, NEW t, InOrder(x \o s, a, n, t)
  PROVE  InOrder(s, a, n, t)
<1> DEFINE xs == x \o s
<1>1. /\ Len(x) \in Nat /\ DOMAIN s = 1 .. Len(s) /\ Len(s) \in Nat
      /\ \A i \in DOMAIN s : i + Len(x) \in DOMAIN xs /\ xs[i + Len(x)] = s[i]
  OBVIOUS
<1>2. InOrder(xs, a, n, t)
  OBVIOUS
<1> HIDE DEF xs
<1>3. \A i \in DOMAIN s : TellsLatest(s[i], n, t)
  BY <1>1, <1>2 DEF InOrder
<1>4. ASSUME NEW i \in DOMAIN s, NEW j \in DOMAIN s, i + 2 <= j PROVE s[i].req < s[j].req
  BY <1>1, <1>2, <1>4 DEF InOrder
<1>5. \A i \in DOMAIN s, j \in DOMAIN a : s[i].req < a[j].req
  BY <1>1, <1>2 DEF InOrder
<1> QED
  BY <1>2, <1>3, <1>4, <1>5 DEF InOrder

(* The slave drops a request. *)
LEMMA IgnoredInOrder ==
  ASSUME NEW s, NEW a \in Seq(Half), a # << >>, NEW n, NEW t, InOrder(s, a, n, t)
  PROVE  InOrder(s, Tail(a), n, t)
<1>1. \A i \in DOMAIN Tail(a) : i + 1 \in DOMAIN a /\ Tail(a)[i] = a[i + 1] /\ i \in Int
  OBVIOUS
<1> QED
  BY <1>1 DEF InOrder

(* It answers one. *)
LEMMA AnsweredInOrder ==
  ASSUME NEW s \in Seq(Half), NEW a \in Seq(Half), a # << >>, NEW n, NEW t, InOrder(s, a, n, t)
  PROVE  InOrder(s \o <<Head(a), Head(a)>>, Tail(a), n, t)
<1> DEFINE sa == s \o <<Head(a), Head(a)>>
<1>1. /\ Len(s) \in Nat /\ DOMAIN s = 1 .. Len(s) /\ DOMAIN sa = 1 .. (Len(s) + 2)
      /\ \A i \in DOMAIN s : sa[i] = s[i]
      /\ sa[Len(s) + 1] = a[1] /\ sa[Len(s) + 2] = a[1] /\ 1 \in DOMAIN a
  OBVIOUS
<1>2. \A i \in DOMAIN Tail(a) : i + 1 \in DOMAIN a /\ Tail(a)[i] = a[i + 1] /\ i \in Int /\ 1 < i + 1
  OBVIOUS
<1> HIDE DEF sa
<1>3. \A i \in DOMAIN sa : i \in DOMAIN s \/ i = Len(s) + 1 \/ i = Len(s) + 2
  BY <1>1
<1>4. \A i \in DOMAIN sa : TellsLatest(sa[i], n, t)
  BY <1>1, <1>3 DEF InOrder
<1>5. \A i, j \in DOMAIN sa : i + 2 <= j => sa[i].req < sa[j].req
  <2> SUFFICES ASSUME NEW i \in DOMAIN sa, NEW j \in DOMAIN sa, i + 2 <= j
               PROVE  sa[i].req < sa[j].req
    OBVIOUS
  <2>1. i \in DOMAIN s /\ i \in Int /\ j \in Int
    BY <1>1
  <2> QED
    BY <1>1, <1>3, <2>1 DEF InOrder
<1>6. \A i \in DOMAIN sa, j \in DOMAIN Tail(a) : sa[i].req < Tail(a)[j].req
  <2> SUFFICES ASSUME NEW i \in DOMAIN sa, NEW j \in DOMAIN Tail(a)
               PROVE  sa[i].req < Tail(a)[j].req
    OBVIOUS
  <2>1. Tail(a)[j] = a[j + 1] /\ j + 1 \in DOMAIN a /\ 1 < j + 1
    BY <1>2
  <2>2. CASE i \in DOMAIN s
    BY <1>1, <2>1, <2>2 DEF InOrder
  <2>3. CASE i \notin DOMAIN s
    <3>1. sa[i] = a[1]
      BY <1>1, <1>3, <2>3
    <3> QED
      BY <1>1, <2>1, <3>1 DEF InOrder
  <2> QED
    BY <2>2, <2>3
<1>7. InOrder(s, Tail(a), n, t)
  BY IgnoredInOrder
<1>8. InOrder(sa, Tail(a), n, t)
  BY <1>4, <1>5, <1>6, <1>7 DEF InOrder
<1> QED
  BY <1>8 DEF sa

(* 2^16 ids are used in turn. *)
NextTid(t) == (t + 1) % TidMod

LEMMA NextTidFacts ==
  ASSUME NEW t \in 0 .. (TidMod - 1)
  PROVE  NextTid(t) \in 0 .. (TidMod - 1) /\ (NextTid(t) > 0 => NextTid(t) = t + 1)
<1>1. CASE t + 1 < TidMod
  <2>1. NextTid(t) = t + 1
    BY <1>1, TidModAssumption DEF NextTid
  <2> QED
    BY <1>1, <2>1, TidModAssumption
<1>2. CASE t + 1 = TidMod
  <2>1. NextTid(t) = 0
    BY <1>2, TidModAssumption DEF NextTid
  <2> QED
    BY <2>1, TidModAssumption
<1> QED
  BY <1>1, <1>2, TidModAssumption

(* A request is made, with an id that nothing on its way carries. *)
LEMMA AskedInOrder ==
  ASSUME NEW s \in Seq(Half), NEW a \in Seq(Half), NEW n \in Nat, NEW t \in 0 .. (TidMod - 1),
         InOrder(s, a, n, t),
         \A i \in DOMAIN s : s[i].tid # t, \A i \in DOMAIN a : a[i].tid # t
  PROVE  InOrder(s, Append(a, [req |-> n + 1, tid |-> t]), n + 1, NextTid(t))
<1> DEFINE h == [req |-> n + 1, tid |-> t]
           ah == Append(a, h)
           u  == NextTid(t)
<1>1. /\ Len(a) \in Nat /\ DOMAIN a = 1 .. Len(a) /\ DOMAIN ah = 1 .. (Len(a) + 1)
      /\ \A i \in DOMAIN a : ah[i] = a[i] /\ a[i].req \in Nat
      /\ ah[Len(a) + 1] = h /\ h.req = n + 1 /\ h.tid = t
      /\ \A i \in DOMAIN s : s[i].req \in Nat
  <2>1. h \in Half /\ h.req = n + 1 /\ h.tid = t
    BY DEF Half
  <2>2. \A i \in DOMAIN a : a[i] \in Half
    OBVIOUS
  <2>3. \A i \in DOMAIN s : s[i] \in Half
    OBVIOUS
  <2> HIDE DEF h
  <2>4. /\ Len(a) \in Nat /\ DOMAIN a = 1 .. Len(a) /\ DOMAIN ah = 1 .. (Len(a) + 1)
        /\ \A i \in DOMAIN a : ah[i] = a[i]
        /\ ah[Len(a) + 1] = h
    BY <2>1
  <2> QED
    BY <2>1, <2>2, <2>3, <2>4 DEF Half
<1>2. u \in Int /\ (u > 0 => u - 1 = t)
  BY NextTidFacts, TidModAssumption
<1> HIDE DEF ah, h, u
<1>3. \A i \in DOMAIN ah : i \in DOMAIN a \/ i = Len(a) + 1
  BY <1>1
<1>4. \A i \in DOMAIN s : TellsLatest(s[i], n + 1, u)
  BY <1>1, <1>2 DEF InOrder, TellsLatest
<1>5. \A i \in DOMAIN ah : TellsLatest(ah[i], n + 1, u)
  BY <1>1, <1>2, <1>3 DEF InOrder, TellsLatest
<1>6. \A i \in DOMAIN s, j \in DOMAIN ah : s[i].req < ah[j].req
  BY <1>1, <1>3 DEF InOrder, TellsLatest
<1>7. \A i, j \in DOMAIN ah : i < j => ah[i].req < ah[j].req
  BY <1>1, <1>3 DEF InOrder, TellsLatest
<1>8. InOrder(s, ah, n + 1, u)
  BY <1>4, <1>5, <1>6, <1>7 DEF InOrder
<1> QED
  BY <1>8 DEF ah, h, u

-----------------------------------------------------------------------------
(* The answer callback gets the latest answer *)

Line == part \o (chunk \o bytes)

WireTypes ==
  /\ tid \in 0 .. (TidMod - 1) /\ cur \in Nat
  /\ asked \in Seq(Half) /\ bytes \in Seq(Half) /\ chunk \in Seq(Half) /\ part \in Seq(Half)

(* Without a connection nothing is on its way or left to be fed; while the   *)
(* user is called with an answer, nothing is left to be fed either.          *)
WireInv ==
  /\ WireTypes
  /\ tcp_state # "Connected" => asked = << >> /\ bytes = << >> /\ chunk = << >>
  /\ answering # 0 => chunk = << >>
  /\ answering = 0 => Len(part) <= 1
  /\ tcp_state = "Connected" => InOrder(Line, asked, cur, tid)

LEMMA LineFacts ==
  ASSUME WireTypes
  PROVE  /\ Line \in Seq(Half)
         /\ \A i \in DOMAIN Line : \/ \E k \in DOMAIN part : Line[i] = part[k]
                                   \/ \E k \in DOMAIN chunk : Line[i] = chunk[k]
                                   \/ \E k \in DOMAIN bytes : Line[i] = bytes[k]
<1> DEFINE cb == chunk \o bytes
<1>1. cb \in Seq(Half) /\ \A i \in DOMAIN cb : \/ \E k \in DOMAIN chunk : cb[i] = chunk[k]
                                               \/ \E k \in DOMAIN bytes : cb[i] = bytes[k]
  <2>1. ASSUME NEW i \in DOMAIN cb
        PROVE  (i \in DOMAIN chunk /\ cb[i] = chunk[i])
                 \/ (i - Len(chunk) \in DOMAIN bytes /\ cb[i] = bytes[i - Len(chunk)])
    BY DEF WireTypes
  <2> QED
    BY <2>1 DEF WireTypes
<1> HIDE DEF cb
<1>2. ASSUME NEW i \in DOMAIN (part \o cb)
      PROVE  (i \in DOMAIN part /\ (part \o cb)[i] = part[i])
               \/ (i - Len(part) \in DOMAIN cb /\ (part \o cb)[i] = cb[i - Len(part)])
  BY <1>1 DEF WireTypes
<1>3. Line = part \o cb
  BY DEF Line, cb
<1>4. part \o cb \in Seq(Half)
  BY <1>1 DEF WireTypes
<1>5. ASSUME NEW i \in DOMAIN Line
      PROVE  \/ \E k \in DOMAIN part : Line[i] = part[k]
             \/ \E k \in DOMAIN cb : Line[i] = cb[k]
  BY <1>2, <1>3
<1>6. ASSUME NEW i \in DOMAIN Line
      PROVE  \/ \E k \in DOMAIN part : Line[i] = part[k]
             \/ \E k \in DOMAIN chunk : Line[i] = chunk[k]
             \/ \E k \in DOMAIN bytes : Line[i] = bytes[k]
  <2>1. CASE \E k \in DOMAIN part : Line[i] = part[k]
    BY <2>1
  <2>2. CASE \E k \in DOMAIN cb : Line[i] = cb[k]
    BY <1>1, <2>2
  <2> QED
    BY <1>5, <2>1, <2>2
<1>7. Line \in Seq(Half)
  BY <1>3, <1>4
<1> QED
  BY <1>6, <1>7

(* A connection begins with nothing on it. *)
LEMMA FreshWire ==
  ASSUME part' = << >>, chunk' = << >>, bytes' = << >>, asked' = << >>,
         tid' \in 0 .. (TidMod - 1), cur' \in Nat
  PROVE  WireInv'
<1>1. Line' = << >>
  BY DEF Line
<1>2. InOrder(<< >>, << >>, cur', tid')
  BY NothingInOrder
<1> QED
  BY <1>1, <1>2 DEF WireInv, WireTypes

(* The line is as it was: halves went from one buffer to the next. *)
LEMMA SameWire ==
  ASSUME WireInv, Line' = Line, tcp_state = "Connected",
         chunk' \in Seq(Half), part' \in Seq(Half), bytes' \in Seq(Half),
         answering' # 0 => chunk' = << >>, answering' = 0 => Len(part') <= 1,
         UNCHANGED <<tcp_state, tid, cur, asked>>
  PROVE  WireInv'
  BY DEF WireInv, WireTypes

LEMMA ReadWire ==
  ASSUME WireTypes, chunk = << >>, NEW n \in DOMAIN bytes
  PROVE  /\ SubSeq(bytes, 1, n) \in Seq(Half) /\ SubSeq(bytes, n + 1, Len(bytes)) \in Seq(Half)
         /\ SubSeq(bytes, 1, n) \o SubSeq(bytes, n + 1, Len(bytes)) = chunk \o bytes
<1>1. n \in Nat /\ n <= Len(bytes) /\ bytes \in Seq(Half)
  BY DEF WireTypes
<1>2. SubSeq(bytes, 1, n) \in Seq(Half) /\ SubSeq(bytes, n + 1, Len(bytes)) \in Seq(Half)
  BY <1>1
<1>3. SubSeq(bytes, 1, n) \o SubSeq(bytes, n + 1, Len(bytes)) = bytes
  <2>1. 1 \in 1 .. Len(bytes) + 1 /\ n \in 1 - 1 .. Len(bytes) /\ Len(bytes) \in n .. Len(bytes)
    BY <1>1
  <2> QED
    BY <1>1, <2>1, ConcatAdjacentSubSeq, SubSeqFull
<1>4. chunk \o bytes = bytes
  BY <1>1
<1> QED
  BY <1>2, <1>3, <1>4

(* A half moved from the third part of a concatenation to the second. *)
Cat(a, b) == a \o b

LEMMA CatFacts ==
  ASSUME NEW a \in Seq(Half), NEW b \in Seq(Half), NEW d \in Seq(Half)
  PROVE  Cat(a, b) \in Seq(Half) /\ Cat(Cat(a, b), d) = Cat(a, Cat(b, d))
  BY DEF Cat

LEMMA CatMoves ==
  ASSUME NEW a \in Seq(Half), NEW x \in Seq(Half), NEW y \in Seq(Half), NEW b \in Seq(Half)
  PROVE  Cat(Cat(a, x), Cat(y, b)) = Cat(a, Cat(Cat(x, y), b))
<1>1. Cat(y, b) \in Seq(Half) /\ Cat(Cat(a, x), Cat(y, b)) = Cat(a, Cat(x, Cat(y, b)))
  BY CatFacts
<1>2. Cat(x, Cat(y, b)) = Cat(Cat(x, y), b)
  BY CatFacts
<1> QED
  BY <1>1, <1>2

(* Feeding a half takes it from the chunk to the reader. *)
LEMMA FeedWire ==
  ASSUME WireTypes, chunk # << >>
  PROVE  /\ Head(chunk) \in Half /\ Append(part, Head(chunk)) \in Seq(Half) /\ Tail(chunk) \in Seq(Half)
         /\ Len(Append(part, Head(chunk))) = Len(part) + 1
         /\ Append(part, Head(chunk)) \o (Tail(chunk) \o bytes) = Line
<1> DEFINE x == <<Head(chunk)>>
<1>1. /\ part \in Seq(Half) /\ chunk \in Seq(Half) /\ bytes \in Seq(Half)
      /\ Head(chunk) \in Half /\ x \in Seq(Half) /\ Tail(chunk) \in Seq(Half)
      /\ Append(part, Head(chunk)) \in Seq(Half) /\ Len(Append(part, Head(chunk))) = Len(part) + 1
  BY DEF WireTypes
<1>2. Append(part, Head(chunk)) = part \o x
  BY <1>1, AppendIsConcat
<1>3. chunk = x \o Tail(chunk)
  <2>1. Len(chunk) \in Nat \ {0} /\ SubSeq(chunk, 1, Len(chunk)) = chunk /\ chunk[1] = Head(chunk)
    BY <1>1, SubSeqFull
  <2>2. SubSeq(chunk, 1, Len(chunk)) = <<chunk[1]>> \o SubSeq(chunk, 1 + 1, Len(chunk))
    BY <1>1, <2>1, SubSeqRecursiveFirst
  <2>3. Tail(chunk) = SubSeq(chunk, 1 + 1, Len(chunk))
    BY <1>1, TailIsSubSeq
  <2> QED
    BY <2>1, <2>2, <2>3
<1> DEFINE y == Tail(chunk)
<1> HIDE DEF x, y
<1>4. Cat(Cat(part, x), Cat(y, bytes)) = Cat(part, Cat(Cat(x, y), bytes))
  <2>1. y \in Seq(Half)
    BY <1>1 DEF y
  <2> QED
    BY <1>1, <2>1, CatMoves
<1>5. Append(part, Head(chunk)) \o (Tail(chunk) \o bytes) = Cat(Cat(part, x), Cat(y, bytes))
  BY <1>2 DEF Cat, y
<1>6. Line = Cat(part, Cat(Cat(x, y), bytes))
  BY <1>3 DEF Line, Cat, y
<1> QED
  BY <1>1, <1>4, <1>5, <1>6


LEMMA OneAtMost ==
  ASSUME NEW s \in Seq(Half), Len(s) <= 1, s # << >> PROVE Len(s) = 1
<1> DEFINE k == Len(s)
<1>1. k \in Nat /\ k <= 1 /\ (k = 0 => s = << >>)
  OBVIOUS
<1>2. k # 0
  BY <1>1, Zenon
<1> HIDE DEF k
<1>3. k = 1
  BY <1>1, <1>2
<1> QED
  BY <1>3 DEF k

LEMMA WireInit == Init => WireInv
  BY TidModAssumption DEF Init, WireInv, WireTypes

LEMMA WireStep == WireInv /\ [Next]_vars => WireInv'
<1> SUFFICES ASSUME WireInv, [Next]_vars PROVE WireInv'
  OBVIOUS
<1> WireTypes /\ Line \in Seq(Half)
  BY LineFacts DEF WireInv
<1>1. ASSUME part' = << >>, chunk' = << >>, UNCHANGED <<tid, cur, asked, bytes, tcp_state>>,
             chunk = << >>
      PROVE  WireInv'
  (* the reader drops what it holds *)
  <2>1. chunk \o bytes \in Seq(Half) /\ Line' = chunk \o bytes
    BY <1>1 DEF Line, WireTypes
  <2>2. InOrder(Line, asked, cur, tid) => InOrder(Line', asked, cur, tid)
    BY <2>1, RestInOrder DEF Line, WireTypes
  <2> QED
    BY <1>1, <2>1, <2>2 DEF WireInv, WireTypes
<1>2. ASSUME UNCHANGED <<tid, cur, asked, bytes, chunk, part, answering, tcp_state>> PROVE WireInv'
  BY <1>2 DEF WireInv, WireTypes, Line
<1>3. ASSUME tcp_state # "Connected", UNCHANGED <<tid, cur, asked, bytes, chunk, answering>>,
             \/ tcp_state' # "Connected" /\ part' \in {part, << >>}
             \/ tcp_state' = "Connected" /\ part' = << >>
      PROVE  WireInv'
  <2>1. asked' = << >> /\ bytes' = << >> /\ chunk' = << >>
    BY <1>3 DEF WireInv
  <2>2. CASE tcp_state' = "Connected" /\ part' = << >>
    BY <1>3, <2>1, <2>2, FreshWire DEF WireTypes
  <2>3. CASE tcp_state' # "Connected" /\ part' \in {part, << >>}
    <3>1. part' \in Seq(Half) /\ (answering' = 0 => Len(part') <= 1)
      <4>1. CASE part' = part
        BY <1>3, <4>1 DEF WireInv, WireTypes
      <4>2. CASE part' = << >>
        BY <4>2
      <4> QED
        BY <2>3, <4>1, <4>2
    <3>2. answering' # 0 => chunk' = << >>
      BY <2>1
    <3> QED
      BY <1>3, <2>1, <2>3, <3>1, <3>2 DEF WireInv, WireTypes
  <2> QED
    BY <1>3, <2>2, <2>3
<1>4. CASE ConnectorStep
  <2>1. CASE tcp_state # "Connected"
    BY <1>3, <1>4, <2>1 DEF ConnectorStep, ConnectorCallback, wireVars
  <2>2. CASE tcp_state = "Connected" /\ UNCHANGED <<tcp_state, part>>
    BY <1>2, <1>4, <2>2 DEF ConnectorStep, wireVars
  <2>3. CASE tcp_state = "Connected" /\ tcp_state' = "Connected" /\ part' = << >>
    <3>1. UNCHANGED <<tid, cur, asked, bytes, chunk, answering>>
      BY <1>4 DEF ConnectorStep, wireVars
    <3>2. chunk \o bytes \in Seq(Half) /\ Line' = chunk \o bytes
      BY <2>3, <3>1 DEF Line, WireTypes
    <3>3. InOrder(Line, asked, cur, tid) => InOrder(Line', asked, cur, tid)
      BY <3>2, RestInOrder DEF Line, WireTypes
    <3> QED
      BY <2>3, <3>1, <3>3 DEF WireInv, WireTypes
  <2> QED
    BY <1>4, <2>1, <2>2, <2>3 DEF ConnectorStep, ConnectorCallback
<1>5. CASE MasterStart
  BY <1>3, <1>5 DEF MasterStart, wireVars
<1>6. CASE MasterStop
  <2>1. chunk = << >>
    BY <1>6 DEF MasterStop, UserCode, Idle, WireInv
  <2> QED
    BY <1>6, <2>1 DEF MasterStop, readVars, WireInv, WireTypes
<1>7. CASE RequestNotConnected
  <2>1. cur' \in Nat
    BY <1>7 DEF RequestNotConnected, Ask, WireTypes
  <2> QED
    BY <1>7, <2>1 DEF RequestNotConnected, wireVars, readVars, WireInv, WireTypes
<1>8. CASE RequestSent
  <2>1. /\ tcp_state = "Connected" /\ tcp_state' = "Connected" /\ cur' = cur + 1 /\ tid' = NextTid(tid)
        /\ asked' = Append(asked, [req |-> cur + 1, tid |-> tid])
        /\ UNCHANGED <<bytes, chunk, part, answering>>
    BY <1>8 DEF RequestSent, Ask, NextTid, readVars
  <2>2. \A s \in {asked, bytes, chunk, part} : \A i \in DOMAIN s : s[i].tid # tid
    BY <1>8 DEF RequestSent, TidIsFree, Halves
  <2>3. \A i \in DOMAIN Line : Line[i].tid # tid
    BY <2>2, LineFacts
  <2>4. InOrder(Line, asked', cur', tid')
    <3>1. InOrder(Line, asked, cur, tid)
      BY <2>1 DEF WireInv
    <3>2. \A i \in DOMAIN asked : asked[i].tid # tid
      BY <2>2
    <3> QED
      BY <2>1, <2>3, <3>1, <3>2, AskedInOrder DEF WireTypes
  <2>5. tid' \in 0 .. (TidMod - 1) /\ cur' \in Nat
    BY <2>1, NextTidFacts DEF WireTypes
  <2>6. asked' \in Seq(Half)
    <3>1. [req |-> cur + 1, tid |-> tid] \in Half
      BY DEF WireTypes, Half
    <3> QED
      BY <2>1, <3>1 DEF WireTypes
  <2>7. Line' = Line
    BY <2>1 DEF Line
  <2> QED
    BY <2>1, <2>4, <2>5, <2>6, <2>7 DEF WireInv, WireTypes
<1>9. CASE RequestFails \/ StreamEnd
  <2>1. chunk' = << >>
    BY <1>9 DEF RequestFails, StreamEnd, Ask, UserCode, Idle, WireInv
  <2>2. part' = << >> /\ asked' = << >> /\ bytes' = << >>
    BY <1>9 DEF RequestFails, StreamEnd, StartReconnect
  <2>3. tid' \in 0 .. (TidMod - 1) /\ cur' \in Nat
    <3>1. (tid' = tid \/ tid' = NextTid(tid)) /\ (cur' = cur \/ cur' = cur + 1)
      BY <1>9 DEF RequestFails, StreamEnd, Ask, NextTid
    <3> QED
      BY <3>1, NextTidFacts DEF WireTypes
  <2> QED
    BY <2>1, <2>2, <2>3, FreshWire
<1>10. CASE StreamRx
  <2>1. PICK n \in DOMAIN bytes : /\ chunk' = SubSeq(bytes, 1, n)
                                  /\ bytes' = SubSeq(bytes, n + 1, Len(bytes))
    BY <1>10 DEF StreamRx
  <2>2. chunk = << >> /\ answering = 0
    BY <1>10 DEF StreamRx, Idle
  <2>3. chunk' \in Seq(Half) /\ bytes' \in Seq(Half) /\ chunk' \o bytes' = chunk \o bytes
    BY <2>1, <2>2, ReadWire
  <2>4. Line' = Line
    BY <1>10, <2>3 DEF StreamRx, Line
  <2>5. part' \in Seq(Half) /\ answering' = 0 /\ Len(part') <= 1
    BY <1>10, <2>2 DEF StreamRx, WireInv, WireTypes
  <2> QED
    BY <1>10, <2>3, <2>4, <2>5, SameWire DEF StreamRx
<1>11. CASE FeedHeader
  <2>1. chunk # << >> /\ answering = 0 /\ part = << >> /\ tcp_state = "Connected"
    BY <1>11 DEF FeedHeader, Feeding, WireInv
  <2>2. part' = Append(part, Head(chunk)) /\ chunk' = Tail(chunk)
    BY <1>11, <2>1 DEF FeedHeader
  <2>3. Line' = Line
    BY <1>11, <2>1, <2>2, FeedWire DEF FeedHeader, wireVars, Line
  <2>4. Len(part') <= 1 /\ part' \in Seq(Half) /\ chunk' \in Seq(Half) /\ bytes' \in Seq(Half) /\ answering' = 0
    BY <1>11, <2>1, <2>2, FeedWire DEF FeedHeader, wireVars, WireTypes
  <2> QED
    BY <1>11, <2>1, <2>3, <2>4, SameWire DEF FeedHeader, wireVars
<1>12. CASE FeedAnswer
  <2>1. /\ chunk # << >> /\ part # << >> /\ Len(part) = 1 /\ tcp_state = "Connected"
        /\ tid > 0 /\ part[1].tid = tid - 1 /\ part[1] \in Half /\ answering' = part[1].req
    <3>1. /\ chunk # << >> /\ part # << >> /\ answering = 0 /\ tcp_state = "Connected"
          /\ tid > 0 /\ Head(part).tid = tid - 1 /\ answering' = Head(part).req
      BY <1>12 DEF FeedAnswer, Feeding, Accepted, WireInv
    <3>2. part \in Seq(Half) /\ Len(part) <= 1 /\ part # << >>
      BY <3>1 DEF WireInv, WireTypes
    <3>3. Len(part) = 1
      BY <3>2, OneAtMost
    <3>4. part[1] \in Half /\ Head(part) = part[1]
      BY <3>2, <3>3, ElementOfSeq
    <3> QED
      BY <3>1, <3>3, <3>4
  <2>2. part' = Append(part, Head(chunk)) /\ chunk' = Tail(chunk) /\ bytes' = bytes
    BY <1>12 DEF FeedAnswer, wireVars
  <2>3. Line' = Line
    BY <2>1, <2>2, FeedWire DEF Line
  <2>4. Len(part') = 2 /\ part' \in Seq(Half) /\ chunk' \in Seq(Half) /\ bytes' \in Seq(Half)
    BY <2>1, <2>2, FeedWire DEF WireTypes
  <2>5. Line[1] = part[1] /\ 1 \in DOMAIN Line /\ DOMAIN Line = 1 .. Len(Line)
    BY <2>1 DEF Line, WireTypes
  <2>6. InOrder(Line, asked, cur, tid)
    BY <2>1 DEF WireInv
  <2>7. Line[1].req = cur
    BY <2>1, <2>5, <2>6 DEF InOrder, TellsLatest
  <2>8. chunk' = << >>
    <3> SUFFICES ASSUME chunk' # << >> PROVE FALSE
      OBVIOUS
    <3>1. chunk' \o bytes' \in Seq(Half) /\ Len(chunk' \o bytes') >= 1
      BY <2>4
    <3>2. Line = part' \o (chunk' \o bytes')
      BY <2>3 DEF Line
    <3>3. Len(Line) >= 3
      BY <2>4, <3>1, <3>2
    <3>4. 3 \in DOMAIN Line /\ Line[3] \in Half
      BY <2>5, <3>3
    <3>5. Line[1].req < Line[3].req /\ Line[3].req <= cur
      BY <2>5, <2>6, <3>4 DEF InOrder, TellsLatest
    <3> QED
      BY <2>7, <3>4, <3>5 DEF WireTypes, Half
  <2>9. answering' = 0 => Len(part') <= 1
    BY <2>1 DEF Half
  <2> QED
    BY <1>12, <2>1, <2>3, <2>4, <2>8, <2>9, SameWire DEF FeedAnswer, wireVars
<1>13. CASE FeedMismatch
  <2>1. chunk # << >> /\ answering = 0 /\ tcp_state = "Connected"
    BY <1>13 DEF FeedMismatch, Feeding, WireInv
  <2>2. part' = << >> /\ chunk' = Tail(chunk) /\ UNCHANGED <<bytes, asked, tid, cur, tcp_state, answering>>
    BY <1>13 DEF FeedMismatch, wireVars
  <2>3. Tail(chunk) \o bytes \in Seq(Half) /\ chunk' \in Seq(Half) /\ Line' = Tail(chunk) \o bytes
    BY <2>1, <2>2, FeedWire DEF Line, WireTypes
  <2>4. Append(part, Head(chunk)) \in Seq(Half) /\ Append(part, Head(chunk)) \o (Tail(chunk) \o bytes) = Line
    BY <2>1, FeedWire
  <2>5. InOrder(Line', asked', cur', tid')
    <3> DEFINE x == Append(part, Head(chunk))
               s == Tail(chunk) \o bytes
    <3>1. x \in Seq(Half) /\ s \in Seq(Half) /\ x \o s = Line
      BY <2>3, <2>4
    <3>2. InOrder(Line, asked, cur, tid)
      BY <2>1 DEF WireInv
    <3> HIDE DEF x, s
    <3>3. InOrder(s, asked, cur, tid)
      BY <3>1, <3>2, RestInOrder
    <3> QED
      BY <2>2, <2>3, <3>3 DEF s
  <2> QED
    BY <2>1, <2>2, <2>3, <2>5 DEF WireInv, WireTypes
<1>14. CASE AnswerReturn
  <2>1. chunk = << >>
    BY <1>14 DEF AnswerReturn, WireInv
  <2> QED
    BY <1>1, <1>14, <2>1 DEF AnswerReturn, wireVars
<1>15. CASE SlaveAnswers
  <2> DEFINE hh == <<Head(asked), Head(asked)>>
  <2>1. asked # << >> /\ tcp_state = "Connected" /\ hh \in Seq(Half) /\ Tail(asked) \in Seq(Half)
    BY <1>15 DEF SlaveAnswers, WireInv, WireTypes
  <2>2. UNCHANGED <<tid, cur, tcp_state, chunk, part, answering>>
    BY <1>15 DEF SlaveAnswers, readVars
  <2>3. bytes' = bytes \o hh /\ asked' = Tail(asked) /\ bytes' \in Seq(Half)
    BY <1>15, <2>1 DEF SlaveAnswers, WireTypes
  <2>4. Line' = Line \o hh
    <3> HIDE DEF hh
    <3>1. Cat(Cat(chunk, bytes), hh) = Cat(chunk, Cat(bytes, hh)) /\ Cat(chunk, bytes) \in Seq(Half)
      BY <2>1, CatFacts DEF WireTypes
    <3>2. Cat(Cat(part, Cat(chunk, bytes)), hh) = Cat(part, Cat(Cat(chunk, bytes), hh))
      BY <2>1, <3>1, CatFacts DEF WireTypes
    <3>3. Line' = Cat(part, Cat(chunk, Cat(bytes, hh)))
      BY <2>2, <2>3 DEF Line, Cat
    <3>4. Line \o hh = Cat(Cat(part, Cat(chunk, bytes)), hh)
      BY DEF Line, Cat
    <3> QED
      BY <3>1, <3>2, <3>3, <3>4
  <2>5. InOrder(Line', asked', cur', tid')
    BY <2>1, <2>2, <2>3, <2>4, AnsweredInOrder DEF WireInv, WireTypes
  <2> QED
    BY <2>1, <2>2, <2>3, <2>5 DEF WireInv, WireTypes
<1>16. CASE SlaveIgnores
  <2>1. asked # << >> /\ tcp_state = "Connected" /\ asked' = Tail(asked) /\ Tail(asked) \in Seq(Half)
    BY <1>16 DEF SlaveIgnores, WireInv, WireTypes
  <2>2. UNCHANGED <<tid, cur, tcp_state, bytes, chunk, part, answering>>
    BY <1>16 DEF SlaveIgnores, readVars
  <2>3. InOrder(Line, Tail(asked), cur, tid)
    BY <2>1, IgnoredInOrder DEF WireInv, WireTypes
  <2>4. Line' = Line
    BY <2>2 DEF Line
  <2> QED
    BY <2>1, <2>2, <2>3, <2>4 DEF WireInv, WireTypes
<1>17. CASE UNCHANGED vars
  BY <1>2, <1>17 DEF vars, wireVars, readVars
<1> QED
  BY <1>4, <1>5, <1>6, <1>7, <1>8, <1>9, <1>10, <1>11, <1>12, <1>13, <1>14, <1>15, <1>16, <1>17 DEF Next

(* Requests are sent without waiting, late answers come in, connections are  *)
(* lost and made, and the user asks and stops from inside the answer's       *)
(* callback: an answer is delivered only while ctx.req_* describes the very   *)
(* request it answers.                                                       *)
THEOREM AnswerIsLatest == Spec => AnswersLatest
<1>1. WireInv /\ [Next]_vars => [answering' # 0 /\ answering' # answering => answering' = cur]_vars
  <2> SUFFICES ASSUME WireInv, Next, answering' # 0, answering' # answering PROVE answering' = cur
    BY DEF vars, readVars
  <2>1. CASE FeedAnswer
    <3>1. /\ chunk # << >> /\ part # << >> /\ tid > 0 /\ part[1].tid = tid - 1 /\ answering' = part[1].req
      BY <2>1 DEF FeedAnswer, Feeding, Accepted
    <3>2. tcp_state = "Connected"
      BY <3>1 DEF WireInv
    <3>3. Line[1] = part[1] /\ 1 \in DOMAIN Line
      BY <3>1 DEF Line, WireInv, WireTypes
    <3> QED
      BY <3>1, <3>2, <3>3 DEF WireInv, InOrder, TellsLatest
  <2>2. CASE ~FeedAnswer
    BY <2>2 DEF Next, ConnectorStep, MasterStart, MasterStop, RequestNotConnected, RequestSent, RequestFails,
                StreamEnd, StreamRx, FeedHeader, FeedMismatch, AnswerReturn, SlaveAnswers, SlaveIgnores, readVars
  <2> QED
    BY <2>1, <2>2
<1> QED
  BY WireInit, WireStep, <1>1, PTL DEF Spec, AnswersLatest

-----------------------------------------------------------------------------
(* The slave on a serial line *)

Byte == Nat \X Nat

RtuTypes ==
  /\ running \in BOOLEAN /\ t35 \in {"off", "running", "due"}
  /\ line \in Seq(Kinds) /\ pos \in Nat
  /\ data_buffer \in Seq(Byte) /\ unread \in Seq(Byte)
  /\ line # << >> => pos \in 1 .. line[Current].len

(* What is in the buffer and unread is the current frame as far as it was    *)
(* sent, and T35 has not passed before its end.                              *)
Collecting ==
  /\ running
  /\ Len(data_buffer) + Len(unread) = pos
  /\ \A i \in 1 .. Len(data_buffer) : data_buffer[i] = <<Current, i>>
  /\ \A i \in 1 .. Len(unread) : unread[i] = <<Current, Len(data_buffer) + i>>
  /\ t35 = "due" => Complete /\ unread = << >>

(* A frame the loop was in time for is collected, or it is done with. *)
InTime ==
  Current > 0 /\ Current \notin harmed /\ ForMe(Current) => (Settled /\ Complete) \/ Collecting

RtuInv == RtuTypes /\ (t35 = "off" => data_buffer = << >>) /\ InTime

LEMMA KindFields == ASSUME NEW k \in Kinds PROVE k.len \in Nat \ {0}
  BY LensAssumption DEF Kinds

LEMMA SentFacts ==
  ASSUME RtuTypes
  PROVE  /\ Current \in Nat /\ (Current > 0 <=> line # << >>)
         /\ Current > 0 => line[Current].len \in Nat \ {0} /\ pos \in 1 .. line[Current].len
<1>1. line \in Seq(Kinds) /\ Current \in Nat /\ (Current > 0 <=> line # << >>)
  BY DEF RtuTypes, Current
<1>2. Current > 0 => line[Current] \in Kinds
  <2>1. Current > 0 => Current \in 1 .. Len(line)
    BY <1>1 DEF Current
  <2> HIDE DEF Current
  <2> QED
    BY <1>1, <2>1, ElementOfSeq
<1> QED
  BY <1>1, <1>2, KindFields DEF RtuTypes

LEMMA RtuInitially == RtuInit => RtuInv
<1> SUFFICES ASSUME RtuInit PROVE RtuInv
  OBVIOUS
<1>1. /\ running = FALSE /\ data_buffer = << >> /\ t35 = "off"
      /\ line = << >> /\ pos = 0 /\ unread = << >>
  BY DEF RtuInit, ContextInit
<1>2. Current = 0
  BY <1>1 DEF Current
<1>3. RtuTypes
  <2>1. line \in Seq(Kinds)
    BY <1>1
  <2>2. data_buffer \in Seq(Byte) /\ unread \in Seq(Byte)
    BY <1>1
  <2>3. running \in BOOLEAN /\ t35 \in {"off", "running", "due"} /\ pos \in Nat /\ line = << >>
    BY <1>1
  <2> QED
    BY <2>1, <2>2, <2>3 DEF RtuTypes
<1>4. InTime
  BY <1>2 DEF InTime
<1> QED
  BY <1>1, <1>3, <1>4 DEF RtuInv

(* A step that adds to line and unread leaves T35 and the buffer alone. *)
LEMMA BeginsKeeps == ASSUME RtuInv, FrameBegins PROVE RtuInv'
<1> DEFINE n == Current + 1
<1>1. PICK k \in Kinds : line' = Append(line, k)
  BY DEF FrameBegins
<1>2. /\ pos' = 1 /\ unread' = Append(unread, <<n, 1>>)
      /\ harmed' = IF Settled /\ running THEN harmed ELSE harmed \cup {Current, n}
      /\ UNCHANGED <<running, data_buffer, t35>>
  BY DEF FrameBegins, slaveVars
<1>3. RtuTypes /\ (t35 = "off" => data_buffer = << >>)
  BY DEF RtuInv
<1>4. line' \in Seq(Kinds) /\ Current' = n /\ line'[n] = k /\ line' # << >> /\ n \in Nat
  BY <1>1, <1>3 DEF RtuTypes, Current
<1>5. k.len \in Nat \ {0} /\ <<n, 1>> \in Byte
  BY <1>4, KindFields DEF Byte
<1>6. unread' \in Seq(Byte)
  BY <1>2, <1>3, <1>5 DEF RtuTypes
<1>7. RtuTypes'
  BY <1>2, <1>3, <1>4, <1>5, <1>6 DEF RtuTypes
<1>8. ASSUME n \notin harmed' PROVE Collecting'
  <2>1. Settled /\ running
    BY <1>2, <1>8
  <2>2. unread' = <<<<n, 1>>>> /\ data_buffer' = << >> /\ t35' = "off" /\ running'
    BY <1>2, <1>3, <2>1 DEF Settled
  <2> HIDE DEF n
  <2>3. Len(data_buffer') = 0 /\ Len(unread') = 1 /\ unread'[1] = <<n, 1>>
    BY <2>2
  <2>4. Len(data_buffer') + Len(unread') = pos' /\ t35' # "due"
    BY <1>2, <2>2, <2>3
  <2>5. \A i \in 1 .. Len(data_buffer') : data_buffer'[i] = <<Current', i>>
    BY <2>3
  <2>6. \A i \in 1 .. Len(unread') : unread'[i] = <<Current', Len(data_buffer') + i>>
    BY <1>4, <2>3
  <2> QED
    BY <2>2, <2>4, <2>5, <2>6 DEF Collecting
<1>9. InTime'
  BY <1>4, <1>8 DEF InTime
<1> QED
  BY <1>2, <1>3, <1>7, <1>9 DEF RtuInv

LEMMA GoesOnKeeps == ASSUME RtuInv, FrameGoesOn PROVE RtuInv'
<1>1. /\ pos' = pos + 1 /\ unread' = Append(unread, <<Current, pos + 1>>) /\ ~Complete
      /\ UNCHANGED <<running, data_buffer, t35, line, harmed>>
  BY DEF FrameGoesOn, slaveVars, history
<1>2. RtuTypes /\ (t35 = "off" => data_buffer = << >>) /\ InTime
  BY DEF RtuInv
<1>3. line # << >> /\ pos # line[Current].len /\ Current' = Current
  BY <1>1 DEF Complete, Current
<1>4. Current \in Nat /\ pos \in Nat /\ pos + 1 \in 1 .. line[Current].len
  BY <1>2, <1>3, SentFacts DEF RtuTypes
<1>5. <<Current, pos + 1>> \in Byte
  BY <1>4 DEF Byte
<1>6. /\ unread' \in Seq(Byte) /\ Len(unread') = Len(unread) + 1
      /\ unread'[Len(unread) + 1] = <<Current, pos + 1>>
      /\ \A i \in 1 .. Len(unread) : unread'[i] = unread[i]
  BY <1>1, <1>2, <1>5 DEF RtuTypes
<1>7. RtuTypes'
  BY <1>1, <1>2, <1>3, <1>4, <1>6 DEF RtuTypes
<1>8. ASSUME Collecting PROVE Collecting'
  <2> DEFINE a == Len(data_buffer)
             b == Len(unread)
  <2>1. a \in Nat /\ b \in Nat /\ a + b = pos
    BY <1>2, <1>8 DEF RtuTypes, Collecting
  <2>2. \A i \in 1 .. a : data_buffer[i] = <<Current, i>>
    BY <1>8 DEF Collecting
  <2>3. \A i \in 1 .. b : unread[i] = <<Current, a + i>>
    BY <1>8 DEF Collecting
  <2>4. t35 # "due" /\ running
    BY <1>1, <1>8 DEF Collecting
  <2>5. Len(unread') = b + 1 /\ unread'[b + 1] = <<Current, pos + 1>> /\ \A i \in 1 .. b : unread'[i] = unread[i]
    BY <1>6
  <2>6. data_buffer' = data_buffer /\ Len(data_buffer') = a
    BY <1>1
  <2> HIDE DEF a, b
  <2>7. \A i \in 1 .. b + 1 : unread'[i] = <<Current, a + i>>
    <3> SUFFICES ASSUME NEW i \in 1 .. b + 1 PROVE unread'[i] = <<Current, a + i>>
      OBVIOUS
    <3>1. CASE i = b + 1
      <4>1. a + i = pos + 1
        BY <2>1, <3>1
      <4> QED
        BY <2>5, <3>1, <4>1
    <3>2. CASE i # b + 1
      <4>1. i \in 1 .. b
        BY <2>1, <3>2
      <4> QED
        BY <2>3, <2>5, <4>1
    <3> QED
      BY <3>1, <3>2
  <2>8. a + (b + 1) = pos'
    BY <1>1, <2>1
  <2> QED
    BY <1>1, <1>3, <2>2, <2>4, <2>5, <2>6, <2>7, <2>8 DEF Collecting
<1>9. ~(Settled /\ Complete) /\ (ForMe(Current)' <=> ForMe(Current))
  BY <1>1, <1>3 DEF ForMe
<1>10. InTime'
  BY <1>1, <1>2, <1>3, <1>8, <1>9 DEF InTime
<1> QED
  BY <1>1, <1>2, <1>7, <1>10 DEF RtuInv

(* modbus_rtu_rx moves bytes from the line to the buffer. *)
LEMMA RxKeeps == ASSUME RtuInv, Rx PROVE RtuInv'
<1> DEFINE k == IF Len(unread) < Chunk THEN Len(unread) ELSE Chunk
           read == SubSeq(unread, 1, k)
           rest == SubSeq(unread, k + 1, Len(unread))
<1>1. /\ running /\ t35 # "due" /\ unread # << >> /\ t35' = "running"
      /\ data_buffer' = IF Len(data_buffer) + Len(read) >= SizeMax THEN read ELSE data_buffer \o read
      /\ unread' = rest
      /\ UNCHANGED <<running, line, pos, harmed>>
  BY DEF Rx, Store, history
<1>2. RtuTypes /\ InTime
  BY DEF RtuInv
<1> DEFINE a == Len(data_buffer)
           b == Len(unread)
<1>3. a \in Nat /\ b \in Nat /\ Chunk \in Nat /\ SizeMax \in Nat /\ unread \in Seq(Byte) /\ data_buffer \in Seq(Byte)
  BY <1>2, SizesAssumption DEF RtuTypes
<1>4. k \in 0 .. b /\ k \in Nat
  BY <1>3
<1> HIDE DEF k
<1>5. read \in Seq(Byte) /\ Len(read) = k /\ \A i \in 1 .. k : read[i] = unread[i]
  <2>1. \A i \in 1 .. k : unread[i] \in Byte
    BY <1>3, <1>4
  <2>2. 1 \in Int /\ k \in Int
    BY <1>4
  <2>3. read \in Seq(Byte) /\ Len(read) = (IF 1 <= k THEN k - 1 + 1 ELSE 0) /\ \A i \in 1 .. k - 1 + 1 : read[i] = unread[1 + i - 1]
    BY <2>1, <2>2, SubSeqProperties
  <2> HIDE DEF read
  <2> QED
    BY <1>4, <2>3
<1>6. rest \in Seq(Byte) /\ Len(rest) = b - k /\ \A i \in 1 .. b - k : rest[i] = unread[k + i]
  <2>1. \A i \in k + 1 .. b : unread[i] \in Byte
    BY <1>3, <1>4
  <2>2. k + 1 \in Int /\ b \in Int
    BY <1>3, <1>4
  <2>3. /\ rest \in Seq(Byte) /\ Len(rest) = (IF k + 1 <= b THEN b - (k + 1) + 1 ELSE 0)
        /\ \A i \in 1 .. b - (k + 1) + 1 : rest[i] = unread[(k + 1) + i - 1]
    <3> HIDE DEF b
    <3>1. rest = SubSeq(unread, k + 1, b)
      BY DEF b
    <3> QED
      BY <2>1, <2>2, <3>1, SubSeqProperties
  <2> HIDE DEF rest, b
  <2>4. Len(rest) = b - k
    <3>1. CASE k + 1 <= b
      BY <1>3, <1>4, <2>3, <3>1
    <3>2. CASE ~(k + 1 <= b)
      BY <1>3, <1>4, <2>3, <3>2
    <3> QED
      BY <3>1, <3>2
  <2>5. ASSUME NEW i \in 1 .. b - k PROVE rest[i] = unread[k + i]
    <3> HIDE DEF b
    <3>1. b - (k + 1) + 1 = b - k /\ (k + 1) + i - 1 = k + i
      BY <1>3, <1>4
    <3>2. rest[i] = unread[(k + 1) + i - 1]
      BY <2>3, <3>1
    <3> QED
      BY <3>1, <3>2
  <2> QED
    BY <2>3, <2>4, <2>5
<1> HIDE DEF read, rest
<1>7. /\ data_buffer \o read \in Seq(Byte) /\ Len(data_buffer \o read) = a + k
      /\ \A i \in 1 .. a + k : (data_buffer \o read)[i] = IF i <= a THEN data_buffer[i] ELSE read[i - a]
  BY <1>3, <1>5, ConcatProperties
<1>8. Current' = Current
  BY <1>1 DEF Current
<1>9. RtuTypes'
  BY <1>1, <1>2, <1>5, <1>6, <1>7, <1>8 DEF RtuTypes
<1>10. ASSUME Current > 0, Current \notin harmed, ForMe(Current) PROVE Collecting'
  <2>1. Collecting
    BY <1>1, <1>2, <1>10 DEF InTime, Settled
  <2>2. /\ a + b = pos /\ \A i \in 1 .. a : data_buffer[i] = <<Current, i>>
        /\ \A i \in 1 .. b : unread[i] = <<Current, a + i>>
    BY <2>1 DEF Collecting
  <2>3. pos <= line[Current].len /\ line[Current].len <= SizeMax - 1 /\ line[Current].len \in Nat
    BY <1>2, <1>10, SentFacts, SizesAssumption DEF ForMe
  <2>4. pos \in Nat
    BY <1>2 DEF RtuTypes
  <2> HIDE DEF a, b
  <2>5. ~(a + k >= SizeMax)
    BY <1>3, <1>4, <2>2, <2>3, <2>4
  <2>6. data_buffer' = data_buffer \o read
    BY <1>1, <1>5, <2>5 DEF a
  <2>7. Len(data_buffer') = a + k /\ Len(unread') = b - k
    BY <1>1, <1>6, <1>7, <2>6
  <2>8. (a + k) + (b - k) = pos
    BY <1>3, <1>4, <2>2
  <2>9. \A i \in 1 .. a + k : data_buffer'[i] = <<Current, i>>
    <3> SUFFICES ASSUME NEW i \in 1 .. a + k PROVE data_buffer'[i] = <<Current, i>>
      OBVIOUS
    <3>1. CASE i <= a
      <4>1. i \in 1 .. a
        BY <1>3, <1>4, <3>1
      <4> QED
        BY <1>7, <2>2, <2>6, <3>1, <4>1
    <3>2. CASE ~(i <= a)
      <4>1. i - a \in 1 .. k /\ i - a \in 1 .. b /\ a + (i - a) = i
        BY <1>3, <1>4, <3>2
      <4>2. data_buffer'[i] = unread[i - a]
        BY <1>5, <1>7, <2>6, <3>2, <4>1
      <4> QED
        BY <2>2, <4>1, <4>2
    <3> QED
      BY <3>1, <3>2
  <2>10. \A i \in 1 .. b - k : unread'[i] = <<Current, (a + k) + i>>
    <3> SUFFICES ASSUME NEW i \in 1 .. b - k PROVE unread'[i] = <<Current, (a + k) + i>>
      OBVIOUS
    <3>1. k + i \in 1 .. b /\ a + (k + i) = (a + k) + i
      BY <1>3, <1>4
    <3>2. unread'[i] = unread[k + i]
      BY <1>1, <1>6
    <3> QED
      BY <2>2, <3>1, <3>2
  <2> QED
    BY <1>1, <1>8, <2>7, <2>8, <2>9, <2>10 DEF Collecting
<1>11. ForMe(Current)' <=> ForMe(Current)
  BY <1>1, <1>8 DEF ForMe
<1>12. InTime'
  BY <1>1, <1>8, <1>10, <1>11 DEF InTime
<1> QED
  BY <1>1, <1>9, <1>12 DEF RtuInv

LEMMA TimeoutKeeps == ASSUME RtuInv, Timeout PROVE RtuInv'
<1>1. t35 = "due" /\ t35' = "off" /\ data_buffer' = << >> /\ UNCHANGED <<running, line, pos, unread, harmed>>
  BY DEF Timeout, StartHandling, Drop, HandleFrame, EnableRx, lineVars
<1>2. RtuTypes /\ InTime
  BY DEF RtuInv
<1>3. Current' = Current /\ (ForMe(Current)' <=> ForMe(Current)) /\ (Complete' <=> Complete)
  BY <1>1 DEF Current, ForMe, Complete
<1>4. RtuTypes'
  BY <1>1, <1>2, <1>3 DEF RtuTypes
<1>5. InTime'
  BY <1>1, <1>2, <1>3 DEF InTime, Settled, Collecting
<1> QED
  BY <1>1, <1>4, <1>5 DEF RtuInv

(* The other steps move no byte. *)
LEMMA BytesRest ==
  ASSUME RtuInv, UNCHANGED <<line, pos, unread, data_buffer>>, running' \in BOOLEAN,
         \/ UNCHANGED <<running, t35, harmed>>
         \/ Silence
         \/ Start \/ Stop
  PROVE  RtuInv'
<1>1. RtuTypes /\ InTime /\ (t35 = "off" => data_buffer = << >>)
  BY DEF RtuInv
<1>2. Current' = Current /\ (ForMe(Current)' <=> ForMe(Current)) /\ (Complete' <=> Complete)
  BY DEF Current, ForMe, Complete
<1>3. t35' \in {"off", "running", "due"} /\ (t35' = "off" <=> t35 = "off")
  BY <1>1 DEF RtuTypes, Silence, Start, Stop, slaveVars, TimerGoesOn
<1>4. RtuTypes'
  BY <1>1, <1>2, <1>3 DEF RtuTypes
<1>5. CASE UNCHANGED <<running, t35, harmed>>
  <2>1. InTime'
    BY <1>1, <1>2, <1>5 DEF InTime, Settled, Collecting
  <2> QED
    BY <1>1, <1>3, <1>4, <2>1 DEF RtuInv
<1>6. CASE Silence
  <2>1. /\ t35 = "running" /\ t35' = "due" /\ UNCHANGED running
        /\ harmed' = IF Complete /\ unread = << >> THEN harmed ELSE harmed \cup {Current}
    BY <1>6 DEF Silence
  <2>2. InTime'
    BY <1>1, <1>2, <2>1 DEF InTime, Settled, Collecting
  <2> QED
    BY <1>1, <1>3, <1>4, <2>2 DEF RtuInv
<1>7. CASE Start \/ Stop
  <2>1. UNCHANGED t35 /\ harmed' = IF Complete /\ Settled THEN harmed ELSE harmed \cup {Current}
    BY <1>7 DEF Start, Stop, TimerGoesOn, slaveVars
  <2>2. InTime'
    BY <1>1, <1>2, <2>1 DEF InTime, Settled
  <2> QED
    BY <1>1, <1>3, <1>4, <2>2 DEF RtuInv
<1> QED
  BY <1>5, <1>6, <1>7

LEMMA RtuStep == RtuInv /\ [RtuNext]_rtuVars => RtuInv'
<1> SUFFICES ASSUME RtuInv, [RtuNext]_rtuVars PROVE RtuInv'
  OBVIOUS
<1>1. CASE Silence \/ Start \/ Stop
  <2>1. UNCHANGED <<line, pos, unread, data_buffer>> /\ running' \in BOOLEAN
    BY <1>1 DEF Silence, Start, Stop, lineVars, slaveVars, RtuInv, RtuTypes
  <2> QED
    BY <1>1, <2>1, BytesRest
<1>2. CASE UNCHANGED rtuVars
  <2>1. UNCHANGED <<line, pos, unread, data_buffer, running, t35, harmed>> /\ running' \in BOOLEAN
    BY <1>2 DEF rtuVars, slaveVars, lineVars, history, RtuInv, RtuTypes
  <2> QED
    BY <2>1, BytesRest
<1> QED
  BY <1>1, <1>2, BeginsKeeps, GoesOnKeeps, RxKeeps, TimeoutKeeps DEF RtuNext

(* The timeout after a frame the loop was in time for *)
LEMMA TimeoutServes ==
  ASSUME RtuInv, Timeout, Current > 0, Complete, Current \notin harmed, ForMe(Current)
  PROVE  /\ served' = Append(served, Current)
         /\ ~stuck' => answered' = IF line[Current].addr = MyAddress THEN Append(answered, Current) ELSE answered
<1>1. RtuTypes /\ InTime /\ t35 = "due"
  BY DEF RtuInv, Timeout
<1>2. Collecting
  BY <1>1 DEF InTime, Settled
<1>3. /\ pos = line[Current].len /\ Len(data_buffer) + Len(unread) = pos /\ unread = << >>
      /\ \A i \in 1 .. Len(data_buffer) : data_buffer[i] = <<Current, i>>
  BY <1>1, <1>2, SentFacts DEF Collecting, Complete
<1>4. /\ data_buffer \in Seq(Byte) /\ Current \in Nat /\ line[Current].len \in Nat \ {0}
      /\ line[Current].len \in SizeMin .. SizeMax - 1 /\ line[Current].intact
      /\ line[Current].addr \in {MyAddress, Broadcast}
  BY <1>1, SentFacts DEF RtuTypes, ForMe
<1>5. Len(data_buffer) = line[Current].len
  BY <1>3, <1>4
<1>6. data_buffer = Bytes(Current)
  <2>1. data_buffer = [i \in 1 .. Len(data_buffer) |-> data_buffer[i]]
    BY <1>4
  <2> QED
    BY <1>3, <1>5, <2>1 DEF Bytes
<1>7. ~(Len(data_buffer) < SizeMin)
  BY <1>4, <1>5, SizesAssumption
<1>8. CrcFits(data_buffer)
  BY <1>4, <1>6 DEF CrcFits
<1>9. HandleFrame
  BY <1>7, <1>8 DEF Timeout, StartHandling, Drop
<1>10. Head(data_buffer)[1] = Current
  <2>1. 1 \in 1 .. Len(data_buffer)
    BY <1>4, <1>5
  <2>2. data_buffer[1] = <<Current, 1>>
    BY <1>3, <2>1
  <2>3. Head(data_buffer) = data_buffer[1]
    BY <1>4, <2>1
  <2> QED
    BY <2>2, <2>3
<1>11. /\ served' = Append(served, Current)
       /\ IF Answered(line[Current].addr) THEN Respond(Current) ELSE UNCHANGED <<stuck, answered>>
  BY <1>4, <1>9, <1>10 DEF HandleFrame
<1> QED
  BY <1>11 DEF Respond, Answered

(* A proper frame that the loop was in time for is served when the silence   *)
(* after it is noticed, and answered if it is for this slave alone and the   *)
(* stream can: for any frames before it, however long, broken or cut, for    *)
(* any sizes of the buffers, and however late the loop was for the others.   *)
THEOREM ProperFramesServed == RtuSpec => TimelyFramesServed
<1> DEFINE Serves ==
      Timeout /\ Current > 0 /\ Complete /\ Current \notin harmed /\ ForMe(Current) =>
        /\ served' = Append(served, Current)
        /\ ~stuck' => answered' = IF line[Current].addr = MyAddress
                                  THEN Append(answered, Current)
                                  ELSE answered
<1>1. RtuInv /\ [RtuNext]_rtuVars => Serves
  BY TimeoutServes
<1> HIDE DEF Serves
<1>2. RtuSpec => [][Serves]_rtuVars
  BY RtuInitially, RtuStep, <1>1, PTL DEF RtuSpec
<1> QED
  BY <1>2 DEF TimelyFramesServed, Serves
=============================================================================
