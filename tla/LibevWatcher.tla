---------------------------- MODULE LibevWatcher ----------------------------
(***************************************************************************)
(* The watchers of core/watcher.c on libev's own descriptor layer: user    *)
(* code opens and closes descriptors, initialises, starts and stops        *)
(* watchers; the loop polls and runs callbacks.  A closed descriptor's     *)
(* number is the next one given out, so a watcher often takes over the     *)
(* number, and libev's state, of one that is gone.  It is shown to         *)
(* implement WatcherSpec, whose loop has no descriptors.                   *)
(***************************************************************************)
EXTENDS Naturals, FiniteSets, Sequences

CONSTANTS
  Watchers,    (* the watcher_t *)
  MaxFd, Files, Plain, Shared,
  EventMax,    (* epoll_eventmax, in the code 64 and more *)
  MaxCalls     (* per backend, the calls of user code over the whole run *)

W == INSTANCE Watcher

Ios == Watchers \X W!Dirs

(* watcher_init_with_fd gives each direction its event. *)
EventsOf == [i \in Ios |-> CASE i[2] = "RX" -> {"READ"}
                             [] i[2] = "TX" -> {"WRITE"}
                             [] i[2] = "ER" -> {"EXCEPT"}]

INSTANCE LibevIo

ASSUME NumbersAssumption == MaxFd \in Nat /\ MaxFd > 2 /\ EventMax \in Nat
ASSUME FilesAssumption == None \notin Files /\ Plain \subseteq Files
ASSUME PendingAssumption == PendingW \notin Ios

VARIABLES
  ev,          (* struct ev_loop *)
  k,           (* the kernel: open descriptors and the epoll set *)
  flags,       (* watcher_t.flags *)
  fdOf,        (* watcher_t.fd, NoFd while its descriptor is closed *)
  calls        (* calls of user code so far *)

systemVars == <<ev, k, flags, fdOf, calls>>

(* The record of watcher.c: its own flags, and what libev holds of its ev_io. *)
wbar == [x \in Watchers |->
  [flags   |-> flags[x],
   active  |-> {d \in W!Dirs : ev.io[<<x, d>>].active},
   pending |-> {d \in W!Dirs : ev.io[<<x, d>>].pending # 0}]]

(* What the rest of the program may assume of the watchers. *)
INSTANCE WatcherSpec WITH w <- wbar

-----------------------------------------------------------------------------
(* User code *)

SystemInit ==
  /\ \E backend \in Backends : ev = LoopInit(backend)
  /\ k = KernelInit
  /\ flags = [x \in Watchers |-> {}]
  /\ fdOf = [x \in Watchers |-> NoFd]
  /\ calls = 0

UserMayCall == calls < MaxCalls[ev.backend] /\ calls' = calls + 1

Each(op(_, _), l, x, dirs) ==
  LET On(m, d) == IF d \in dirs THEN op(m, <<x, d>>) ELSE m
  IN  On(On(On(l, "RX"), "TX"), "ER")

(* A watcher function takes the record of x to new: it calls ev_io_stop for  *)
(* the directions that leave the loop and ev_io_start for those that join.   *)
Apply(x, new) ==
  LET stopped == Each(ev_io_stop, ev, x, wbar[x].active \ new.active)
  IN  /\ UserMayCall
      /\ ev' = Each(ev_io_start, stopped, x, new.active \ wbar[x].active)
      /\ flags' = [flags EXCEPT ![x] = new.flags]
      /\ UNCHANGED <<k, fdOf>>

(* Once it runs, the program only ever turns the watch for writing on and off. *)
Call(x) ==
  /\ fdOf[x] # NoFd
  /\ \/ Apply(x, Watch(wbar[x], "TX"))
     \/ Apply(x, NoWatch(wbar[x], "TX"))
     \/ Apply(x, Start(wbar[x]))
     \/ Apply(x, Stop(wbar[x]))

(* What the program's modules watch before they start a watcher: a listening *)
(* socket, a connecting one, a stream and a UDP socket.                      *)
StartWith == {{"RX"}, {"TX"}, {"RX", "ER"}, {"RX", "TX", "ER"}}

InitWithFd(x, fd) ==
  /\ ev' = Each(LAMBDA l, i : ev_io_init(l, i, fd), ev, x, W!Dirs)
  /\ \E dirs \in StartWith : flags' = [flags EXCEPT ![x] = WatcherWith(dirs).flags]

Free == {fd \in Fds : k.file[fd] = None}

(* socket, accept or open give the lowest free number. *)
Open(x) ==
  /\ fdOf[x] = NoFd
  /\ UserMayCall
  /\ \E fd \in Free, file \in Files :
       /\ \A other \in Free : fd <= other
       /\ \A other \in Fds : k.file[other] # file
       /\ \A e \in k.kset : e.file # file
       /\ k' = KernelOpen(k, fd, file)
       /\ InitWithFd(x, fd)
       /\ fdOf' = [fdOf EXCEPT ![x] = fd]

(* A connector's descriptor, connected, goes on as that of a stream. *)
TakeOver(x, y) ==
  /\ fdOf[x] = NoFd
  /\ fdOf[y] # NoFd /\ "STARTED" \notin flags[y]
  /\ UserMayCall
  /\ InitWithFd(x, fdOf[y])
  /\ fdOf' = [fdOf EXCEPT ![x] = fdOf[y], ![y] = NoFd]
  /\ UNCHANGED k

(* close, of a watcher that is stopped: every user of the watchers stops     *)
(* them first.                                                               *)
Close(x) ==
  /\ fdOf[x] # NoFd /\ "STARTED" \notin flags[x]
  /\ UserMayCall
  /\ k' = KernelClose(k, fdOf[x])
  /\ fdOf' = [fdOf EXCEPT ![x] = NoFd]
  /\ UNCHANGED <<ev, flags>>

-----------------------------------------------------------------------------
(* The loop *)

(* ev_invoke_pending runs the callback of the newest event. *)
InvokePending ==
  /\ ev.pendings # <<>>
  /\ ev' = ev_invoke_pending(ev)
  /\ UNCHANGED <<k, flags, fdOf, calls>>

Becomes(c) == ev' = c.ev /\ k' = c.k

(* The kernel reports some of the ready descriptors, in any order. *)
AfterEpoll(c) ==
  \E count \in 0 .. EventMax :
    \E items \in [1 .. count -> c.k.kset], got \in [1 .. count -> SUBSET RW] :
      /\ IsInjective(items)
      /\ \A n \in 1 .. count : got[n] \in Reports(items[n])
      /\ Becomes(epoll_poll(c, items, got))

AfterPoll(c) ==
  \E got \in [Fds -> SUBSET (RW \cup {"EXCEPT"})] :
    /\ \A fd \in Fds : \/ got[fd] = {}
                       \/ \E p \in Range(c.ev.poll.polls) : p.fd = fd /\ got[fd] \in PollReports(p)
    /\ Becomes(poll_poll(c, got))

AfterSelect(c) ==
  \E got \in [Fds -> SUBSET RW] :
    /\ \A fd \in Fds : got[fd] \in SelectReports(c.ev.select, fd)
    /\ Becomes(select_poll(c, got))

(* One iteration of ev_run, from the last callback of the one before to the  *)
(* first of this one.                                                        *)
Iterate ==
  LET rebuilt == IF ev.postfork THEN loop_fork([ev |-> ev, k |-> k]) ELSE [ev |-> ev, k |-> k]
      reified == fd_reify(rebuilt)
  IN  /\ ev.pendings = <<>>
      /\ \/ ev.backend = "epoll" /\ AfterEpoll(reified)
         \/ ev.backend = "poll" /\ AfterPoll(reified)
         \/ ev.backend = "select" /\ AfterSelect(reified)
      /\ UNCHANGED <<flags, fdOf, calls>>

SystemNext ==
  \/ \E x \in Watchers : Call(x) \/ Open(x) \/ Close(x) \/ \E y \in Watchers : TakeOver(x, y)
  \/ InvokePending
  \/ Iterate

SystemSpec == SystemInit /\ [][SystemNext]_systemVars

-----------------------------------------------------------------------------
(* Properties *)

(* Libev's approximations hide the descriptors: what the users of watcher.c  *)
(* see is the loop of WatcherSpec, also across closed and reused numbers.    *)
ImplementsWatcherSpec == WatchersSpec

(* A callback never runs for an event of a file that was closed: the event   *)
(* of an earlier open of the same number is told from the present one by its *)
(* generation (ev_epoll.c 179-184) or withdrawn with its watcher.            *)
NoStaleEvent ==
  \A n \in DOMAIN ev.pendings :
    LET p == ev.pendings[n] IN p.w # PendingW => p.src = {k.file[ev.io[p.w].fd]}

(* No watcher is deaf: once the changes of its descriptor are passed on, the *)
(* backend asks for what it watches.  With epoll the kernel keeps the set,   *)
(* under the present generation, though libev guesses at what it still has   *)
(* (ev_epoll.c 71-139, ev.c 2067-2122); the array of poll is packed again    *)
(* each time a descriptor leaves it (ev_poll.c 51-87).                       *)
Armed(i) ==
  LET fd == ev.io[i].fd
      anfd == ev.anfds[fd]
  IN  CASE ev.backend = "epoll" /\ k.file[fd] \in Plain ->
             fd \in ev.epoll.eperms /\ anfd.emask = {"EPERM"}
        [] ev.backend = "epoll" /\ k.file[fd] \notin Plain ->
             \E e \in k.kset : /\ e.fd = fd /\ e.file = k.file[fd] /\ e.gen = anfd.egen
                              /\ EventsOf[i] \cap RW \subseteq e.mask
        [] ev.backend = "poll" ->
             LET idx == ev.poll.pollidxs[fd]
             IN  /\ idx \in DOMAIN ev.poll.polls
                 /\ ev.poll.polls[idx].fd = fd /\ EventsOf[i] \subseteq ev.poll.polls[idx].events
        [] ev.backend = "select" ->
             /\ "READ" \in EventsOf[i] => fd \in ev.select.ri
             /\ "WRITE" \in EventsOf[i] => fd \in ev.select.wi

EveryWatchIsArmed ==
  \A i \in Ios :
    /\ ev.io[i].active /\ ev.anfds[ev.io[i].fd].reify = {} /\ ~ev.postfork
    /\ ev.backend = "epoll" => EventsOf[i] \subseteq RW
    => Armed(i)
=============================================================================
