------------------------------- MODULE LibevIo -------------------------------
(***************************************************************************)
(* The descriptor layer of libev with the backends it has on Linux, as     *)
(* operators on the loop: which ev_io hang on which descriptor (anfds),    *)
(* which descriptors changed since the last poll (fdchanges), which events *)
(* wait for their callbacks (pendings).                                    *)
(*                                                                         *)
(* With epoll it is the kernel that keeps the set of descriptors, and      *)
(* libev only approximates it: it never removes a descriptor, it assumes   *)
(* that a closed one is gone, and it tells the events of an earlier open   *)
(* of the same number from those of the present one by a generation        *)
(* counter.  With poll and select libev passes its own array or bit sets   *)
(* in every call.                                                          *)
(*                                                                         *)
(* Every operator takes the pair c of the loop, c.ev, and the kernel, c.k. *)
(***************************************************************************)
EXTENDS Naturals, FiniteSets, SequencesExt

CONSTANTS
  MaxFd,       (* bound: the highest descriptor number *)
  Files,       (* open file descriptions; each open takes a fresh one *)
  Plain,       (* those epoll refuses with EPERM *)
  Shared,      (* those another process also holds: a close leaves them in the epoll set *)
  Ios,         (* the ev_io *)
  EventsOf     (* per ev_io, the events it asks for: READ, WRITE, EXCEPT *)

None == "none"             (* a closed descriptor's file *)
NoFd == 0                  (* no descriptor at all: 0 to 2 are never given out *)
Fds == 3 .. MaxFd
NoPlace == 0               (* of a descriptor that is not in the poll array *)
PendingW == "pending_w"    (* the dummy watcher that replaces a withdrawn event *)
RW == {"READ", "WRITE"}    (* all that epoll and select are asked for *)
Backends == {"epoll", "poll", "select"}

Anfd == [head |-> <<>>, events |-> {}, emask |-> {}, egen |-> 0, reify |-> {}]

(* The backends' own state: the epoll set is the kernel's, see KernelInit. *)
epoll_init == [eperms |-> {}]
poll_init == [polls |-> <<>>, pollidxs |-> [f \in Fds |-> NoPlace]]
select_init == [ri |-> {}, wi |-> {}]

(* ev_loop_new, and ev_io that were never initialised.  The backend is the   *)
(* one LIBEV_FLAGS names, or else the first that can be had.                 *)
LoopInit(backend) ==
  [backend |-> backend, poll |-> poll_init, select |-> select_init, epoll |-> epoll_init,
   anfds |-> [f \in Fds |-> Anfd], fdchanges |-> <<>>, pendings |-> <<>>,
   postfork |-> FALSE,
   io |-> [i \in Ios |-> [fd |-> NoFd, fdset |-> FALSE, active |-> FALSE, pending |-> 0]]]

KernelInit == [file |-> [f \in Fds |-> None], kset |-> {}]

-----------------------------------------------------------------------------
(* The pending queue *)

(* p.src, the files the event came from, is a history of the model. *)
AlsoFor(p, revents, src) == [p EXCEPT !.events = @ \cup revents, !.src = @ \cup {src}]

ev_feed_event(l, i, revents, src) ==
  IF l.io[i].pending # 0
  THEN [l EXCEPT !.pendings[l.io[i].pending] = AlsoFor(@, revents, src)]
  ELSE [l EXCEPT !.pendings = Append(@, [w |-> i, events |-> revents, src |-> {src}]),
                 !.io[i].pending = Len(l.pendings) + 1]

(* mutant: an event that was fed is not withdrawn *)
clear_pending_not(l, i) == l

(* A fed event that is withdrawn leaves the dummy watcher in its place, so   *)
(* the places of the others stay what they are.                              *)
clear_pending(l, i) ==
  IF l.io[i].pending = 0 THEN l
  ELSE [l EXCEPT !.pendings[l.io[i].pending].w = PendingW, !.io[i].pending = 0]

(* ev_invoke_pending takes the newest event first; its watcher may be fed    *)
(* again from then on.                                                       *)
ev_invoke_pending(l) ==
  LET i == Last(l.pendings).w
      popped == [l EXCEPT !.pendings = Front(@)]
  IN  IF i = PendingW THEN popped ELSE [popped EXCEPT !.io[i].pending = 0]

-----------------------------------------------------------------------------
(* Starting and stopping *)

(* Only the first change of a descriptor since the last poll is listed. *)
fd_change(l, fd, flags) ==
  [l EXCEPT !.anfds[fd].reify = @ \cup flags,
            !.fdchanges = IF l.anfds[fd].reify = {} THEN Append(@, fd) ELSE @]

(* ev_io_init for descriptor fd *)
ev_io_init(l, i, fd) ==
  [l EXCEPT !.io[i] = [fd |-> fd, fdset |-> TRUE, active |-> FALSE, pending |-> 0]]

(* mutant: that the ev_io was given a descriptor anew is not passed on *)
ev_io_start_same_fd(l, i) ==
  LET io == l.io[i]
      started == [l EXCEPT !.io[i].active = TRUE, !.io[i].fdset = FALSE,
                           !.anfds[io.fd].head = <<i>> \o @]
  IN  IF io.active THEN l ELSE fd_change(started, io.fd, {"REIFY"})

(* The new ev_io goes to the front of its descriptor's list. *)
ev_io_start(l, i) ==
  LET io == l.io[i]
      started == [l EXCEPT !.io[i].active = TRUE, !.io[i].fdset = FALSE,
                           !.anfds[io.fd].head = <<i>> \o @]
  IN  IF io.active THEN l
      ELSE fd_change(started, io.fd, {"REIFY"} \cup (IF io.fdset THEN {"IOFDSET"} ELSE {}))

(* mutant: the ev_io stays in its descriptor's list *)
ev_io_stop_linked(l, i) ==
  LET c == clear_pending(l, i)
  IN  IF ~l.io[i].active THEN c
      ELSE fd_change([c EXCEPT !.io[i].active = FALSE], l.io[i].fd, {"REIFY"})

(* ev_io_stop withdraws its pending event even when it is not active. *)
ev_io_stop(l, i) ==
  LET c  == clear_pending(l, i)
      fd == l.io[i].fd
  IN  IF ~l.io[i].active THEN c
      ELSE fd_change([c EXCEPT !.anfds[fd].head = RemoveFirst(@, i),
                               !.io[i].active = FALSE], fd, {"REIFY"})

Kill(l, i) == ev_feed_event(ev_io_stop(l, i), i, RW \cup {"ERROR"}, None)

(* The descriptor is unusable: its watchers are stopped and told. *)
fd_kill(l, fd) == FoldLeft(Kill, l, l.anfds[fd].head)

-----------------------------------------------------------------------------
(* The epoll set of the kernel *)

(* fd is open and its present file is in the set. *)
Registered(k, fd) == \E e \in k.kset : e.fd = fd /\ e.file = k.file[fd]

KernelDel(k, fd) == [k EXCEPT !.kset = {e \in @ : ~(e.fd = fd /\ e.file = k.file[fd])}]

(* EPOLL_CTL_ADD of a new descriptor, EPOLL_CTL_MOD of a registered one *)
KernelSet(k, fd, mask, gen) ==
  [KernelDel(k, fd) EXCEPT
     !.kset = @ \cup {[fd |-> fd, file |-> k.file[fd], mask |-> mask \cap RW, gen |-> gen]}]

(* close takes the file out of the set unless another process holds it too. *)
KernelClose(k, fd) ==
  [IF k.file[fd] \in Shared THEN k ELSE KernelDel(k, fd) EXCEPT !.file[fd] = None]

KernelOpen(k, fd, file) == [k EXCEPT !.file[fd] = file]

-----------------------------------------------------------------------------
(* The epoll backend *)

(* epoll_modify.  It guesses between ADD and MOD and retries with the other  *)
(* when the kernel answers EEXIST or ENOENT, so a descriptor is registered   *)
(* in the end however the guess was; when the kernel still has it with the   *)
(* same mask nothing is done and the generation stays the old one.           *)
epoll_modify(c, fd, oev, nev) ==
  LET oldmask == c.ev.anfds[fd].emask
      masked  == [c EXCEPT !.ev.anfds[fd].emask = nev]
      gen     == c.ev.anfds[fd].egen + 1
      MOD     == oev # {} /\ oldmask # nev
  IN  CASE nev = {} -> c
        [] nev # {} /\ c.k.file[fd] = None -> [masked EXCEPT !.ev = fd_kill(@, fd)]
        [] nev # {} /\ c.k.file[fd] \in Plain ->
             [c EXCEPT !.ev.anfds[fd].emask = {"EPERM"},
                       !.ev.anfds[fd].egen = gen,
                       !.ev.epoll.eperms = IF "EPERM" \in oldmask THEN @ ELSE @ \cup {fd}]
        [] nev # {} /\ c.k.file[fd] \in Files \ Plain ->
             IF ~MOD /\ Registered(c.k, fd) /\ oldmask = nev THEN masked
             ELSE [masked EXCEPT !.ev.anfds[fd].egen = gen,
                                 !.k = KernelSet(@, fd, nev, gen)]

-----------------------------------------------------------------------------
(* The poll backend: an array of descriptors without gaps, and the place of  *)
(* each descriptor in it.                                                    *)

(* The last entry of the array takes the place of one that leaves. *)
RemovePollfd(p, fd, idx) ==
  [polls    |-> Front([p.polls EXCEPT ![idx] = Last(p.polls)]),
   pollidxs |-> [p.pollidxs EXCEPT ![Last(p.polls).fd] = idx, ![fd] = NoPlace]]

poll_modify(c, fd, oev, nev) ==
  LET p   == c.ev.poll
      new == p.pollidxs[fd] = NoPlace
      idx == IF new THEN Len(p.polls) + 1 ELSE p.pollidxs[fd]
      placed == IF ~new THEN p
                ELSE [polls    |-> Append(p.polls, [fd |-> fd, events |-> {}]),
                      pollidxs |-> [p.pollidxs EXCEPT ![fd] = idx]]
  IN  IF oev = nev THEN c
      ELSE [c EXCEPT !.ev.poll = IF nev = {} THEN RemovePollfd(placed, fd, idx)
                                 ELSE [placed EXCEPT !.polls[idx].events = nev]]

-----------------------------------------------------------------------------
(* The select backend: the descriptors to read from and those to write to *)

select_modify(c, fd, oev, nev) ==
  LET With(set, event) == IF event \in nev THEN set \cup {fd} ELSE set \ {fd}
  IN  IF oev = nev THEN c
      ELSE [c EXCEPT !.ev.select = [ri |-> With(@.ri, "READ"), wi |-> With(@.wi, "WRITE")]]

-----------------------------------------------------------------------------
(* Before the poll: the changes are passed on *)

backend_modify(c, fd, oev, nev) ==
  CASE c.ev.backend = "epoll"  -> epoll_modify(c, fd, oev, nev)
    [] c.ev.backend = "poll"   -> poll_modify(c, fd, oev, nev)
    [] c.ev.backend = "select" -> select_modify(c, fd, oev, nev)

(* What the ev_io of a descriptor ask for together *)
Asked(anfd) == UNION {EventsOf[anfd.head[n]] : n \in DOMAIN anfd.head}

(* The change of fd is passed on: from now on its events are new. *)
PassedOn(l, fd, new) == [l EXCEPT !.anfds[fd].reify = {}, !.anfds[fd].events = new]

(* fd_reify, for one descriptor of fdchanges *)
Reify(c, fd) ==
  LET a   == c.ev.anfds[fd]
      new == Asked(a)
      m   == [c EXCEPT !.ev = PassedOn(@, fd, new)]
  IN  IF "IOFDSET" \in a.reify \/ a.events # new THEN backend_modify(m, fd, a.events, new) ELSE m

fd_reify(c) == [FoldLeft(Reify, c, c.ev.fdchanges) EXCEPT !.ev.fdchanges = <<>>]

Rearm(l, fd) ==
  IF l.anfds[fd].events = {} THEN l
  ELSE fd_change([l EXCEPT !.anfds[fd].events = {}, !.anfds[fd].emask = {}],
                 fd, {"IOFDSET", "REIFY"})

Upwards == [n \in 1 .. (MaxFd - 2) |-> n + 2]
Downwards == [n \in 1 .. (MaxFd - 2) |-> MaxFd + 1 - n]

(* Every descriptor that has watchers counts as new again. *)
fd_rearm_all(l) == FoldLeft(Rearm, l, Upwards)

(* The kernel's set is built again from nothing. *)
epoll_fork(c) == [ev |-> fd_rearm_all(c.ev), k |-> [c.k EXCEPT !.kset = {}]]

loop_fork(c) == [(IF c.ev.backend = "epoll" THEN epoll_fork(c) ELSE c) EXCEPT !.ev.postfork = FALSE]

-----------------------------------------------------------------------------
(* The poll *)

(* The events of descriptor fd go to every ev_io that asked for one of them, *)
(* unless the descriptor changed while the kernel was asked.                 *)
fd_event(l, fd, revents, src) ==
  LET Tell(m, i) == IF EventsOf[i] \cap revents = {} THEN m
                    ELSE ev_feed_event(m, i, EventsOf[i] \cap revents, src)
  IN  IF l.anfds[fd].reify # {} THEN l ELSE FoldLeft(Tell, l, l.anfds[fd].head)

(* mutant: the generation is not compared *)
ReportAnyGen(c, e, got) ==
  [c EXCEPT !.ev = fd_event(@, e.fd, got \cap c.ev.anfds[e.fd].events, e.file)]

(* epoll_poll, for one event: item e of the set is ready for got.  A wrong   *)
(* generation, or an event nobody wants that cannot be turned off, has the   *)
(* whole set built again.                                                    *)
Report(c, e, got) ==
  LET want   == c.ev.anfds[e.fd].events
      masked == [c EXCEPT !.ev.anfds[e.fd].emask = want]
      mod    == [masked EXCEPT !.k = IF want = {} THEN KernelDel(@, e.fd)
                                     ELSE KernelSet(@, e.fd, want, e.gen)]
      Feed(d) == [d EXCEPT !.ev = fd_event(@, e.fd, got, e.file)]
  IN  CASE c.ev.anfds[e.fd].egen # e.gen -> [c EXCEPT !.ev.postfork = TRUE]
        [] c.ev.anfds[e.fd].egen = e.gen /\ got \subseteq want -> Feed(c)
        [] c.ev.anfds[e.fd].egen = e.gen /\ ~(got \subseteq want) ->
             IF Registered(c.k, e.fd) THEN Feed(mod)
             ELSE [masked EXCEPT !.ev.postfork = TRUE]

(* epoll_poll, for one descriptor that epoll refuses: it is always ready. *)
AlwaysReady(c, fd) ==
  LET a == c.ev.anfds[fd]
  IN  IF "EPERM" \in a.emask /\ a.events \cap RW # {}
      THEN [c EXCEPT !.ev = fd_event(@, fd, a.events \cap RW, c.k.file[fd])]
      ELSE [c EXCEPT !.ev.epoll.eperms = @ \ {fd}, !.ev.anfds[fd].emask = {}]

(* What the kernel may report of item e: some of what was asked for, or a    *)
(* hang-up, which libev takes for both.                                      *)
Reports(e) == {got \in SUBSET e.mask : got # {}} \cup {RW}

(* The kernel reports items[n] ready for got[n], in the order n. *)
ReportAll(c, items, got) ==
  LET ReportNth(d, n) == Report(d, items[n], got[n])
  IN  FoldLeftDomain(ReportNth, c, items)

PollRefused(c) == FoldLeft(AlwaysReady, c, SetToSeq(c.ev.epoll.eperms))

epoll_poll(c, items, got) == PollRefused(ReportAll(c, items, got))

(* What poll may report of an entry: some of what it asks for; an error or a *)
(* hang-up comes unasked, and libev takes it for both.                       *)
PollReports(p) == {got \in SUBSET p.events : got # {}} \cup {RW, RW \cup p.events}

(* poll_poll, from the first entry of the array to the last *)
poll_poll(c, got) ==
  LET file(p) == c.k.file[p.fd]
      Entry(l, p) ==
        CASE got[p.fd] = {} -> l
          [] got[p.fd] # {} /\ file(p) = None -> fd_kill(l, p.fd)
          [] got[p.fd] # {} /\ file(p) # None -> fd_event(l, p.fd, got[p.fd], file(p))
  IN  [c EXCEPT !.ev = FoldLeft(Entry, @, @.poll.polls)]

(* What select may report of a descriptor *)
SelectReports(s, fd) ==
  SUBSET {event \in RW : \/ event = "READ" /\ fd \in s.ri
                         \/ event = "WRITE" /\ fd \in s.wi}

(* select_poll, from the highest descriptor to the lowest *)
select_poll(c, got) ==
  LET Descriptor(l, fd) == IF got[fd] = {} THEN l ELSE fd_event(l, fd, got[fd], c.k.file[fd])
  IN  [c EXCEPT !.ev = FoldLeft(Descriptor, @, Downwards)]
=============================================================================
