------------------------ MODULE AutoConnectorProofs ------------------------
(***************************************************************************)
(* For any number of descriptors, every outcome of socket() and connect(), *)
(* and any calls of the user, neither use of the connector loses a         *)
(* descriptor, its state, its watcher and its timers agree, and a stop is  *)
(* final.                                                                  *)
(*                                                                         *)
(* The connector is in one of two conditions: an attempt is on its way,    *)
(* watched and timed, or it is at rest and nothing of it is on the loop.   *)
(***************************************************************************)
EXTENDS TcpClient, TLAPS

USE FdsAssumption

None == {NoFd, Unset}

Connectors ==
  [sd : Fds \cup None, in_prog : BOOLEAN, w : WatcherType, tmr : TimerStates]

(* All there is to the watcher: writing is watched, once it is started. *)
RestingWatcher(w) ==
  w \in WatcherType /\ w.flags = {"TX"} /\ w.active = {} /\ w.pending = {}
RunningWatcher(w) ==
  w \in WatcherType /\ w.flags = {"TX", "STARTED"} /\ w.active = {"TX"} /\ w.pending \subseteq {"TX"}

Attempting(conn) ==
  /\ conn \in Connectors /\ conn.sd \in Fds /\ conn.in_prog
  /\ RunningWatcher(conn.w) /\ conn.tmr # "off"

Resting(conn, sds) ==
  /\ conn \in Connectors /\ conn.sd \in sds /\ ~conn.in_prog
  /\ RestingWatcher(conn.w) /\ conn.tmr = "off"

States == {"not_started", "connecting", "reconnect_wait"}

(* The callback after a timeout runs without a wait; the one after a failure *)
(* runs with the wait started, unless the user has stopped the connector.    *)
Conditions ==
  /\ state \in States /\ rtmr \in TimerStates /\ calling \in {"none", "failed", "timedout"}
  /\ IF state = "connecting" /\ calling = "none" THEN Attempting(c) ELSE Resting(c, None)
  /\ state = "reconnect_wait" <=> rtmr # "off"
  /\ calling = "timedout" => state # "reconnect_wait"
  /\ calling = "failed" => state # "connecting"

Descriptors ==
  /\ held \subseteq Fds
  /\ open = held \cup ({c.sd} \cap Fds)
  /\ c.sd \notin held

ConnInv == Conditions /\ Descriptors

-----------------------------------------------------------------------------
(* The operators *)

LEMMA StopRests == ASSUME NEW w, RunningWatcher(w) PROVE RestingWatcher(Stop(w))
  BY DEF RunningWatcher, RestingWatcher, Stop, IoStop, WatcherType, Dirs, Flags

LEMMA StartRuns == ASSUME NEW w, RestingWatcher(w) PROVE RunningWatcher(Start(w))
  BY DEF RunningWatcher, RestingWatcher, Start, IoStart, WatcherType, Dirs, Flags

LEMMA DeliverRuns == ASSUME NEW w, RunningWatcher(w) PROVE RunningWatcher(Deliver(w, "TX"))
  BY DEF RunningWatcher, Deliver, WatcherType, Dirs, Flags

LEMMA FeedRuns == ASSUME NEW w, RunningWatcher(w) PROVE RunningWatcher(Feed(w, {"TX"}))
  BY DEF RunningWatcher, Feed, WatcherType, Dirs, Flags

LEMMA FeedRests == ASSUME NEW w, RestingWatcher(w) PROVE RestingWatcher(Feed(w, {"TX"}))
  BY DEF RestingWatcher, Feed, WatcherType, Dirs, Flags

LEMMA FreshRests == ASSUME NEW fd \in Fds PROVE Resting(Fresh(fd), Fds) /\ Fresh(fd).sd = fd
<1>1. RestingWatcher(Watch(WatcherInit, "TX"))
  BY DEF RestingWatcher, Watch, WatcherInit, IoStart, WatcherType, Dirs, Flags
<1> QED
  BY <1>1 DEF Fresh, Resting, Connectors, RestingWatcher, TimerStates

(* An attempt that has ended, with its watcher and its timer stopped. *)
Ended(conn, w) == [conn EXCEPT !.in_prog = FALSE, !.w = w, !.tmr = "off"]

LEMMA EndedRests ==
  ASSUME NEW conn, Attempting(conn), NEW w, RestingWatcher(w)
  PROVE  Resting(Ended(conn, w), Fds) /\ Ended(conn, w).sd = conn.sd
  BY DEF Attempting, Resting, Connectors, RestingWatcher, TimerStates, Ended

(* tcp_connector_deinit leaves a connector at rest without a descriptor. *)
LEMMA DeinitRests ==
  ASSUME NEW conn, NEW sds, Attempting(conn) \/ Resting(conn, sds)
  PROVE  Resting(Deinit(conn), None) /\ Deinit(conn).sd = NoFd
<1> DEFINE rest == IF conn.in_prog THEN Ended(conn, Stop(conn.w)) ELSE conn
<1>1. Resting(rest, Fds \cup None)
  BY StopRests, EndedRests DEF Attempting, Resting, Connectors
<1>2. Deinit(conn) = [rest EXCEPT !.sd = NoFd]
  BY DEF Deinit, Ended
<1> QED
  BY <1>1, <1>2 DEF Resting, Connectors, None

-----------------------------------------------------------------------------
(* Outcomes of an attempt, made by a connector conn at rest, with the        *)
(* descriptors o open and h held.                                            *)

Before(conn, o, h) ==
  /\ Resting(conn, Fds \cup None)
  /\ h \subseteq Fds /\ conn.sd \notin h
  /\ o = h \cup ({conn.sd} \cap Fds)

LEMMA SuccessKeeps ==
  ASSUME NEW conn, NEW o, NEW h, Before(conn, o, h), conn.sd \in Fds,
         Success(conn, o, h), rtmr' = "off"
  PROVE  ConnInv'
<1>1. Resting(c', None) /\ c'.sd = NoFd
  BY DEF Before, Success, tcp_connect_get_sd, Resting, Connectors, None
<1>2. Conditions'
  BY <1>1 DEF Success, Conditions, States, TimerStates
<1> QED
  BY <1>1, <1>2 DEF Before, Success, ConnInv, Descriptors

LEMMA FailureKeeps ==
  ASSUME NEW conn, NEW t \in TimerStates, NEW o, NEW h, Before(conn, o, h), Failure(conn, t, o, h)
  PROVE  ConnInv'
<1>1. Resting(c', None) /\ c'.sd = NoFd
  BY DeinitRests DEF Before, Failure
<1>2. Conditions'
  BY <1>1 DEF Failure, Conditions, States, TimerStates, TimerStart
<1> QED
  BY <1>1, <1>2 DEF Before, Failure, ConnInv, Descriptors

(* tcp_auto_connector_connect, called at rest, with no wait running and the  *)
(* descriptors h with the user.  Either a descriptor more is with the user,  *)
(* and the connector rests, or it does not and the connector is at work.     *)
HandsOver(h) ==
  \E fd \in Fds \ h : held' = h \cup {fd} /\ state' = "not_started" /\ calling' = "none"
KeepsTrying(h) == held' = h /\ state' # "not_started"

LEMMA ConnectKeeps ==
  ASSUME Resting(c, None), NEW h \in SUBSET Fds, Connect("off", h, h)
  PROVE  ConnInv' /\ (HandsOver(h) \/ KeepsTrying(h))
<1>1. CASE Failure([c EXCEPT !.sd = NoFd], "off", h, h)
  <2>1. Before([c EXCEPT !.sd = NoFd], h, h)
    BY DEF Before, Resting, Connectors, None
  <2>2. KeepsTrying(h)
    BY <1>1 DEF Failure, KeepsTrying
  <2> QED
    BY <1>1, <2>1, <2>2, FailureKeeps DEF TimerStates
<1>2. ASSUME NEW fd \in Fds \ h,
             \/ Success(Fresh(fd), h \cup {fd}, h) /\ rtmr' = "off"
             \/ Failure(Fresh(fd), "off", h \cup {fd}, h)
      PROVE  ConnInv' /\ (HandsOver(h) \/ KeepsTrying(h))
  <2>1. Before(Fresh(fd), h \cup {fd}, h)
    BY FreshRests DEF Before, Resting
  <2>2. HandsOver(h) \/ KeepsTrying(h)
    BY <1>2, FreshRests DEF Success, Failure, HandsOver, KeepsTrying
  <2> QED
    BY <1>2, <2>1, <2>2, FreshRests, SuccessKeeps, FailureKeeps DEF TimerStates
<1>3. ASSUME NEW fd \in Fds \ h, rtmr' = "off",
             InProgress([Fresh(fd) EXCEPT !.in_prog = TRUE, !.w = Start(@), !.tmr = "running"],
                        h \cup {fd}, h)
      PROVE  ConnInv' /\ (HandsOver(h) \/ KeepsTrying(h))
  <2>1. Attempting(c') /\ c'.sd = fd
    BY <1>3, FreshRests, StartRuns DEF InProgress, Attempting, Resting, Connectors, RunningWatcher, TimerStates
  <2>2. KeepsTrying(h)
    BY <1>3 DEF InProgress, KeepsTrying
  <2> QED
    BY <1>3, <2>1, <2>2 DEF InProgress, ConnInv, Conditions, Descriptors, States, TimerStates
<1> QED
  BY <1>1, <1>2, <1>3 DEF Connect

-----------------------------------------------------------------------------
LEMMA ConnInit == Init => ConnInv
<1> SUFFICES ASSUME Init PROVE ConnInv
  OBVIOUS
<1>1. RestingWatcher(Watch(WatcherInit, "TX"))
  BY DEF RestingWatcher, Watch, WatcherInit, IoStart, WatcherType, Dirs, Flags
<1>2. Resting(c, None) /\ c.sd = Unset
  BY <1>1 DEF Init, Fresh, Resting, Connectors, RestingWatcher, TimerStates, None
<1> QED
  BY <1>2 DEF Init, ConnInv, Conditions, Descriptors, States, TimerStates

LEMMA ConnStep == ConnInv /\ [Next]_vars => ConnInv'
<1> SUFFICES ASSUME ConnInv, [Next]_vars PROVE ConnInv'
  OBVIOUS
<1>1. CASE ConnectEvent
  <2> DEFINE ended == Ended(c, Stop(Deliver(c.w, "TX")))
  <2>1. Attempting(c) /\ rtmr = "off"
    BY <1>1 DEF ConnectEvent, ConnInv, Conditions, Resting, RestingWatcher, States
  <2>5. RestingWatcher(Stop(Deliver(c.w, "TX")))
    BY <2>1, StopRests, DeliverRuns DEF Attempting
  <2>2. Before(ended, open, held) /\ ended.sd \in Fds
    BY <2>1, <2>5, EndedRests DEF Before, ConnInv, Descriptors, Attempting, Resting
  <2>3. CASE Success(ended, open, held) /\ UNCHANGED rtmr
    BY <2>1, <2>2, <2>3, SuccessKeeps
  <2>4. CASE Failure(ended, rtmr, open, held)
    BY <2>1, <2>2, <2>4, FailureKeeps DEF TimerStates
  <2> QED
    BY <1>1, <2>3, <2>4 DEF ConnectEvent, Ended
<1>2. CASE AttemptTimeout
  <2>1. Attempting(c) /\ state = "connecting" /\ rtmr = "off"
    BY <1>2 DEF AttemptTimeout, ConnInv, Conditions, Resting, States
  <2>2. Resting(c', None) /\ c'.sd = NoFd
    <3>1. Resting(Ended(c, Stop(c.w)), Fds)
      BY <2>1, StopRests, EndedRests DEF Attempting
    <3>2. c' = Deinit(Ended(c, Stop(c.w)))
      BY <1>2 DEF AttemptTimeout, Ended
    <3> QED
      BY <3>1, <3>2, DeinitRests
  <2> QED
    BY <1>2, <2>1, <2>2 DEF AttemptTimeout, ConnInv, Conditions, Descriptors, States, TimerStates
<1>3. CASE WaitTimeout
  <2>1. Resting(c, None) /\ open = held /\ held \in SUBSET Fds
    BY <1>3 DEF WaitTimeout, ConnInv, Conditions, Descriptors, Resting, None, States
  <2> QED
    BY <1>3, <2>1, ConnectKeeps DEF WaitTimeout, ConnInv
<1>4. CASE CallbackReturn
  <2>1. CASE calling = "failed" /\ calling' = "none" /\ UNCHANGED <<state, c, rtmr, open, held>>
    BY <2>1 DEF ConnInv, Conditions, Descriptors, States
  <2>2. CASE calling = "timedout" /\ Connect(rtmr, open, held)
    <3>1. Resting(c, None) /\ rtmr = "off" /\ open = held /\ held \in SUBSET Fds
      BY <2>2 DEF ConnInv, Conditions, Descriptors, Resting, None
    <3> QED
      BY <2>2, <3>1, ConnectKeeps DEF ConnInv
  <2> QED
    BY <1>4, <2>1, <2>2 DEF CallbackReturn
<1>5. ASSUME NEW writable \in BOOLEAN, NEW attempt \in BOOLEAN, NEW wait \in BOOLEAN,
             Poll(writable, attempt, wait)
      PROVE  ConnInv'
  <2>1. c'.sd = c.sd
    BY <1>5 DEF Poll, ConnInv, Conditions, Attempting, Resting, Connectors
  <2>2. Attempting(c) => Attempting(c')
    BY <1>5, FeedRuns DEF Poll, Attempting, Connectors, RunningWatcher, TimerStates
  <2>3. Resting(c, None) => Resting(c', None)
    BY <1>5, FeedRests DEF Poll, Resting, Connectors, RestingWatcher, TimerStates
  <2>4. rtmr' \in TimerStates /\ (rtmr' # "off" <=> rtmr # "off")
    BY <1>5 DEF Poll, ConnInv, Conditions, TimerStates
  <2> QED
    BY <1>5, <2>1, <2>2, <2>3, <2>4 DEF Poll, ConnInv, Conditions, Descriptors
<1>6. CASE UserStart
  <2>1. Resting(c, None) /\ rtmr = "off" /\ open = held /\ held \in SUBSET Fds
    BY <1>6 DEF UserStart, ConnInv, Conditions, Descriptors, Resting, None
  <2> QED
    BY <1>6, <2>1, ConnectKeeps DEF UserStart, ConnInv
<1>7. CASE UserStop
  <2>1. Resting(c', None) /\ c'.sd = NoFd
    BY <1>7, DeinitRests DEF UserStop, ConnInv, Conditions
  <2>2. rtmr' = "off"
    BY <1>7 DEF UserStop, ConnInv, Conditions
  <2> QED
    BY <1>7, <2>1, <2>2 DEF UserStop, ConnInv, Conditions, Descriptors, States, TimerStates
<1>8. CASE UserClose
  BY <1>8 DEF UserClose, ConnInv, Conditions, Descriptors
<1>9. CASE UNCHANGED vars
  BY <1>9 DEF vars, ConnInv, Conditions, Descriptors
<1> QED
  BY <1>1, <1>2, <1>3, <1>4, <1>5, <1>6, <1>7, <1>8, <1>9 DEF Next, LoopStep, LoopPoll

(* At work, the connector hands a descriptor over and rests, or works on. *)
LEMMA LoopStepHands ==
  ASSUME ConnInv, state # "not_started", LoopStep
  PROVE  HandsOver(held) \/ KeepsTrying(held)
<1>1. CASE ConnectEvent
  <2>1. Attempting(c) /\ c.sd \in Fds \ held
    BY <1>1 DEF ConnectEvent, ConnInv, Conditions, Descriptors, Attempting, Resting, RestingWatcher
  <2> QED
    BY <1>1, <2>1 DEF ConnectEvent, Success, Failure, HandsOver, KeepsTrying, Connectors, Attempting
<1>2. CASE AttemptTimeout
  BY <1>2 DEF AttemptTimeout, KeepsTrying
<1>3. CASE WaitTimeout \/ (calling = "timedout" /\ Connect(rtmr, open, held))
  <2>1. Resting(c, None) /\ open = held /\ held \in SUBSET Fds /\ Connect("off", held, held)
    BY <1>3 DEF WaitTimeout, ConnInv, Conditions, Descriptors, Resting, None, States
  <2> QED
    BY <2>1, ConnectKeeps
<1>4. CASE calling = "failed" /\ calling' = "none" /\ UNCHANGED <<state, c, rtmr, open, held>>
  BY <1>4 DEF KeepsTrying
<1>5. CASE CallbackReturn
  BY <1>3, <1>4, <1>5 DEF CallbackReturn
<1> QED
  BY <1>1, <1>2, <1>3, <1>5 DEF LoopStep

(* At rest, nothing of it is queued. *)
LEMMA RestIsQuiet ==
  ASSUME Resting(c, None), rtmr = "off", calling = "none" PROVE ~LoopStep
  BY DEF LoopStep, ConnectEvent, AttemptTimeout, WaitTimeout, CallbackReturn, Resting, RestingWatcher

-----------------------------------------------------------------------------
(* The client.  It is connecting, connected or waiting, and its timer runs    *)
(* except while it connects and before it is started.                        *)

ClientInv ==
  /\ state = "not_started" /\ held = {} /\ calling = "none"
  /\ rtmr \in TimerStates /\ connected \in BOOLEAN
  /\ open = {c.sd} \cap Fds
  /\ \/ Attempting(c) /\ ~connected /\ rtmr = "off"
     \/ Resting(c, Fds) /\ connected /\ rtmr # "off"
     \/ Resting(c, None) /\ ~connected /\ (c.sd = Unset <=> rtmr = "off")

LEMMA ClientSuccessKeeps ==
  ASSUME ClientInv, UNCHANGED autoOnly, NEW conn, Resting(conn, Fds),
         ClientSuccess(conn, "off", {conn.sd})
  PROVE  ClientInv'
  BY DEF ClientInv, autoOnly, ClientSuccess, Resting, Connectors, TimerStart, TimerStates

LEMMA ClientFailureKeeps ==
  ASSUME ClientInv, UNCHANGED autoOnly, NEW conn, Resting(conn, Fds \cup None),
         NEW o \in SUBSET {conn.sd}, ClientFailure(conn, "off", o)
  PROVE  ClientInv'
<1>1. Resting(c', None) /\ c'.sd = NoFd
  BY DeinitRests DEF ClientFailure
<1>2. connected' = FALSE /\ open' = {} /\ rtmr' = "running"
  BY DEF ClientFailure, TimerStart
<1> QED
  BY <1>1, <1>2 DEF ClientInv, autoOnly, TimerStates

(* try_to_connect, called at rest and with neither a wait nor a descriptor. *)
LEMMA TryKeeps ==
  ASSUME ClientInv, UNCHANGED autoOnly, NEW conn, Resting(conn, None),
         try_to_connect(conn, "off", {})
  PROVE  ClientInv'
<1>1. CASE ClientFailure([conn EXCEPT !.sd = NoFd], "off", {})
  <2>1. Resting([conn EXCEPT !.sd = NoFd], Fds \cup None)
    BY DEF Resting, Connectors, None
  <2> QED
    BY <1>1, <2>1, ClientFailureKeeps
<1>2. ASSUME NEW fd \in Fds,
             \/ ClientSuccess(Fresh(fd), "off", {} \cup {fd})
             \/ ClientFailure(Fresh(fd), "off", {} \cup {fd})
      PROVE  ClientInv'
  <2>1. Resting(Fresh(fd), Fds) /\ Fresh(fd).sd = fd /\ Resting(Fresh(fd), Fds \cup None)
    BY FreshRests DEF Resting
  <2>2. {} \cup {fd} = {Fresh(fd).sd} /\ {} \cup {fd} \in SUBSET {Fresh(fd).sd}
    BY <2>1
  <2> QED
    BY <1>2, <2>1, <2>2, ClientSuccessKeeps, ClientFailureKeeps
<1>3. ASSUME NEW fd \in Fds,
             connected' = FALSE, open' = {} \cup {fd}, rtmr' = "off",
             c' = [Fresh(fd) EXCEPT !.in_prog = TRUE, !.w = Start(@), !.tmr = "running"]
      PROVE  ClientInv'
  <2>1. Attempting(c') /\ c'.sd = fd
    BY <1>3, FreshRests, StartRuns DEF Attempting, Resting, Connectors, RunningWatcher, TimerStates
  <2> QED
    BY <1>3, <2>1 DEF ClientInv, autoOnly, TimerStates
<1> QED
  BY <1>1, <1>2, <1>3 DEF try_to_connect

LEMMA ClientInitial == ClientInit => ClientInv
<1> SUFFICES ASSUME ClientInit PROVE ClientInv
  OBVIOUS
<1>1. RestingWatcher(Watch(WatcherInit, "TX"))
  BY DEF RestingWatcher, Watch, WatcherInit, IoStart, WatcherType, Dirs, Flags
<1>2. Resting(c, None) /\ c.sd = Unset
  BY <1>1 DEF ClientInit, Init, Fresh, Resting, Connectors, RestingWatcher, TimerStates, None
<1> QED
  BY <1>2 DEF ClientInit, Init, ClientInv, TimerStates

LEMMA ClientStep == ClientInv /\ ClientNext => ClientInv'
<1> SUFFICES ASSUME ClientInv, ClientNext PROVE ClientInv'
  OBVIOUS
<1>1. CASE ClientStart
  <2>1. Resting(c, None) /\ rtmr = "off" /\ open = {}
    BY <1>1 DEF ClientStart, ClientInv, Attempting, Resting
  <2> QED
    BY <1>1, <2>1, TryKeeps DEF ClientStart
<1>2. CASE ClientConnectEvent
  <2> DEFINE ended == Ended(c, Stop(Deliver(c.w, "TX")))
  <2>1. Attempting(c) /\ rtmr = "off" /\ open = {c.sd}
    BY <1>2 DEF ClientConnectEvent, ClientInv, Attempting, Resting, RestingWatcher
  <2>2. RestingWatcher(Stop(Deliver(c.w, "TX")))
    BY <2>1, StopRests, DeliverRuns DEF Attempting
  <2>3. Resting(ended, Fds) /\ Resting(ended, Fds \cup None) /\ ended.sd = c.sd
    BY <2>1, <2>2, EndedRests DEF Resting
  <2>4. UNCHANGED autoOnly
    BY <1>2 DEF ClientConnectEvent
  <2>5. ClientSuccess(ended, "off", {ended.sd}) \/ ClientFailure(ended, "off", {ended.sd})
    BY <1>2, <2>1, <2>3 DEF ClientConnectEvent, Ended
  <2> HIDE DEF ended
  <2> QED
    BY <2>3, <2>4, <2>5, ClientSuccessKeeps, ClientFailureKeeps
<1>3. CASE ClientAttemptTimeout
  <2>1. Attempting(c) /\ rtmr = "off" /\ open = {c.sd}
    BY <1>3 DEF ClientAttemptTimeout, ClientInv, Attempting, Resting
  <2>2. Resting(Ended(c, Stop(c.w)), Fds)
    BY <2>1, StopRests, EndedRests DEF Attempting
  <2>3. Resting(Deinit(Ended(c, Stop(c.w))), None)
    BY <2>2, DeinitRests
  <2>4. try_to_connect(Deinit(Ended(c, Stop(c.w))), rtmr, open \ {c.sd})
    BY <1>3 DEF ClientAttemptTimeout, Ended
  <2> QED
    BY <1>3, <2>1, <2>3, <2>4, TryKeeps DEF ClientAttemptTimeout
<1>4. CASE retry_timer_expired
  <2>1. CASE connected
    <3>1. Resting(c, Fds) /\ open \ {c.sd} = {}
      BY <2>1 DEF ClientInv
    <3>2. Resting(Deinit(c), None)
      BY <3>1, DeinitRests
    <3> QED
      BY <1>4, <2>1, <3>1, <3>2, TryKeeps DEF retry_timer_expired
  <2>2. CASE ~connected
    <3>1. Resting(c, None) /\ open = {}
      BY <1>4, <2>2 DEF retry_timer_expired, ClientInv, Resting, None
    <3> QED
      BY <1>4, <2>2, <3>1, TryKeeps DEF retry_timer_expired
  <2> QED
    BY <2>1, <2>2
<1>5. ASSUME NEW writable \in BOOLEAN, NEW attempt \in BOOLEAN, NEW wait \in BOOLEAN,
             Poll(writable, attempt, wait), UNCHANGED connected
      PROVE  ClientInv'
  <2>1. c'.sd = c.sd
    BY <1>5 DEF Poll, ClientInv, Attempting, Resting, Connectors
  <2>2. Attempting(c) => Attempting(c')
    BY <1>5, FeedRuns DEF Poll, Attempting, Connectors, RunningWatcher, TimerStates
  <2>3. ASSUME NEW sds, Resting(c, sds) PROVE Resting(c', sds)
    BY <1>5, <2>3, FeedRests DEF Poll, Resting, Connectors, RestingWatcher, TimerStates
  <2>4. rtmr' \in TimerStates /\ (rtmr' # "off" <=> rtmr # "off")
    BY <1>5 DEF Poll, ClientInv, TimerStates
  <2> QED
    BY <1>5, <2>1, <2>2, <2>3, <2>4 DEF Poll, ClientInv
<1> QED
  BY <1>1, <1>2, <1>3, <1>4, <1>5 DEF ClientNext, ClientCallback, LoopPoll

-----------------------------------------------------------------------------
(* Either use *)

UsersInv ==
  /\ use \in {"auto", "client"}
  /\ (use = "auto") => ConnInv
  /\ (use = "client") => ClientInv

LEMMA UsersInit == InitUsers => UsersInv
  BY ConnInit, ClientInitial DEF InitUsers, ClientInit, UsersInv

LEMMA UsersStep == UsersInv /\ [NextUsers]_allVars => UsersInv'
<1> SUFFICES ASSUME UsersInv, [NextUsers]_allVars PROVE UsersInv'
  OBVIOUS
<1>1. CASE use = "auto" /\ Next /\ UNCHANGED use
  BY <1>1, ConnStep DEF UsersInv
<1>2. CASE use = "client" /\ ClientNext /\ UNCHANGED use
  BY <1>2, ClientStep DEF UsersInv
<1>3. CASE UNCHANGED allVars
  BY <1>3 DEF allVars, clientVars, vars, UsersInv, ConnInv, Conditions, Descriptors, ClientInv
<1> QED
  BY <1>1, <1>2, <1>3 DEF NextUsers

(* No attempt leaks its descriptor, and none that was closed or handed over  *)
(* is kept, for any number of descriptors and whoever stops the connector.   *)
THEOREM NoDescriptorLost == SpecUsers => []SocketsAccounted
<1>1. UsersInv => SocketsAccounted
  BY DEF UsersInv, ConnInv, Conditions, Descriptors, ClientInv, SocketsAccounted,
         Attempting, Resting, Connectors, None
<1> QED
  BY UsersInit, UsersStep, <1>1, PTL DEF SpecUsers

(* An attempt in progress is watched and timed, a wait is timed, and nothing *)
(* else of the connector is on the loop, in any order of events and calls.   *)
THEOREM ConnectorAgrees == SpecUsers => []Agreement
<1>1. ConnInv => AutoAgreement
  BY DEF ConnInv, Conditions, AutoAgreement, Attempting, Resting, RunningWatcher, RestingWatcher, None
<1>2. ClientInv => ClientAgreement
  BY DEF ClientInv, ClientAgreement, Attempting, Resting, RunningWatcher, RestingWatcher, None
<1>3. UsersInv => Agreement
  BY <1>1, <1>2 DEF UsersInv, Agreement
<1> QED
  BY UsersInit, UsersStep, <1>3, PTL DEF SpecUsers

(* What is queued on the loop when the user stops the connector starts no    *)
(* attempt: only the user does, or the return of a time-out's callback.      *)
THEOREM StopsAreFinal == SpecUsers => StopIsFinal
<1> DEFINE Final == state = "not_started" /\ state' # "not_started" => UserStart \/ calling = "timedout"
<1>1. UsersInv /\ [NextUsers]_allVars => [Final]_vars
  <2> SUFFICES ASSUME UsersInv, [NextUsers]_allVars, state = "not_started", state' # "not_started"
               PROVE  UserStart \/ calling = "timedout"
    BY DEF Final
  <2>1. CASE use = "auto" /\ Next
    <3>1. ConnInv
      BY <2>1 DEF UsersInv
    <3>2. rtmr = "off" /\ Resting(c, None)
      BY <3>1 DEF ConnInv, Conditions
    <3> QED
      BY <2>1, <3>2 DEF Next, LoopStep, LoopPoll, ConnectEvent, AttemptTimeout, WaitTimeout, CallbackReturn,
                        Poll, UserStop, UserClose, Resting, RestingWatcher
  <2>2. CASE use = "client" /\ ClientNext
    <3>1. UNCHANGED state
      BY <2>2 DEF ClientNext, ClientStart, ClientCallback, ClientConnectEvent, ClientAttemptTimeout,
                  retry_timer_expired, LoopPoll, Poll, autoOnly
    <3> QED
      BY <3>1
  <2> QED
    BY <2>1, <2>2 DEF NextUsers, allVars, clientVars, vars
<1> QED
  BY UsersInit, UsersStep, <1>1, PTL DEF SpecUsers, StopIsFinal
=============================================================================
