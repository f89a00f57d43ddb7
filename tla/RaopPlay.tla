------------------------------ MODULE RaopPlay ------------------------------
(***************************************************************************)
(* The streaming engine of raop_play: the main loop of main() and          *)
(* main_event_handler() (raop_play.c), the descriptor callbacks, the       *)
(* console commands, and the session operations of raop_client.c that the *)
(* loop drives (raopcl_send_sample, raopcl_set_pause, raopcl_pause_check,  *)
(* raopcl_wait_songdone, fd_event_callback).                               *)
(*                                                                         *)
(* The main thread is sequential; what interleaves with it is the outside  *)
(* world: which descriptors select() reports ready, what the console       *)
(* types, when the audio source has data, how much a non-blocking write()  *)
(* takes, and the SIGINT/SIGTERM handler that registers fd 1.              *)
(* main_event_handler is modelled step by step (select, then one step per  *)
(* callback it invokes, then the tail) because a callback changes the      *)
(* table that the rest of the same sweep reads.                            *)
(***************************************************************************)
EXTENDS FdEvents, Integers

CONSTANTS
    Dfds,        \* descriptor numbers an opened source (pcm->dfd) can get
    NoAuds,      \* raopld->auds == NULL
    NoFrame,     \* raopcld->data before the first send
    UDP,         \* raopcld->udp: RTP over UDP (TRUE) or the legacy TCP frame
    FrameLen     \* write units in one frame (partial writes take 1..remsize)

ASSUME RaopPlayAssumption ==
    /\ UDP \in BOOLEAN
    /\ FrameLen \in Nat \ {0}
    /\ NoAuds \notin Dfds
    /\ NoFd \notin Dfds \cup {"stdin", "stdout", "sfd"}
    /\ Dfds \cap {"stdin", "stdout", "sfd"} = {}

\* raop_play.c:43 defines MAX_NUM_OF_FDS as 4: room for the console, fd 1,
\* sfd and one source.
ASSUME RaopPlayTableAssumption == MAX_NUM_OF_FDS >= 4

\* The descriptors: 0 (console), 1 (stdout, registered by the signal
\* handler), the stream socket raopcld->sfd, and the sources' pcm->dfd.
\* A source is named by its descriptor.  open() and accept() return the
\* lowest free number, so a source opened after another was closed may get
\* the closed one's number back; the model lets it take any free number.
Stdin  == "stdin"
Stdout == "stdout"
Sfd    == "sfd"

PauseStates == {"NO_PAUSE", "OP_PAUSE", "NODATA_PAUSE"}

\* A frame in raopcld->data: its RTP marker bit (UDP), and whose samples it
\* carries: a source's pcm->buffer, or min_sdata.  The sequence number is
\* left out; no property here tells frames apart by it.
Frames == [marker : BOOLEAN, src : Dfds \cup {"silence"}]

\* Console lines console_command tells apart: "play", "play <song>",
\* "pause", "stop", "quit"; "other" is "volume N" and anything unknown.
\* poll()'s revents on pcm->dfd: data, nothing, or an event without data
\* (POLLHUP or POLLERR when the socket or pipe writer has gone).
Revents == {"POLLIN", "NONE", "POLLHUP"}

Commands == {"play", "playnew", "pause", "stop", "quit", "other"}

VARIABLES
    fds,            \* raopld->fds
    pc,             \* where the main thread is
    pos,            \* the entry and direction the callback loop is at
    rdset, wrset,   \* the descriptors select() left set
    ret,            \* the caller main_event_handler returns to: "top" or "drain"
    rval,           \* main()'s rval: 0, or -1 once a handler failed
    pause,          \* raopcld->pause
    auds,           \* raopld->auds
    openDfds,       \* source descriptors that are open (auds_close closes one)
    revents,        \* what poll() reports on the current source's descriptor
    remsize,        \* raopcld->wblk_remsize
    data,           \* the frame in raopcld->data
    begin,          \* the static begin of raopcl_send_sample
    wait_songdone,  \* raopcld->wait_songdone
    sent,           \* flips at every raopcl_send_sample call (a history bit)
    failcmd,        \* the console command that ended the loop, if one did
    signalled       \* SIGINT/SIGTERM has been delivered

loopVars == <<pc, pos, rdset, wrset, ret, rval>>
sendVars == <<remsize, data, begin, sent>>
srcVars  == <<auds, openDfds, revents>>
vars == <<fds, loopVars, pause, sendVars, srcVars, wait_songdone, failcmd, signalled>>

\* The callback loop of main_event_handler checks, for i = 0 .. MAX-1, the
\* read side and then the write side of entry i: position 2i+1 and 2i+2.
Positions == 1 .. 2 * MAX_NUM_OF_FDS
SlotAt(p) == (p + 1) \div 2
IsReadPos(p) == p % 2 = 1

\* pcm_poll_next_sample's result: the descriptor has data.
Readable == revents = "POLLIN"

Fds == {Stdin, Stdout, Sfd} \cup Dfds
Entries == [fd : Fds \cup {NoFd}, cbf : Callbacks, flags : FdFlags]

TypeOK ==
    /\ fds \in [Slots -> Entries]
    /\ pc \in {"top", "play", "select", "sweep", "tail", "exit"}
    /\ pos \in Positions
    /\ rdset \in SUBSET Fds /\ wrset \in SUBSET Fds
    /\ ret \in {"top", "drain"}
    /\ rval \in {0, -1}
    /\ pause \in PauseStates
    /\ auds \in Dfds \cup {NoAuds}
    /\ openDfds \in SUBSET Dfds
    /\ revents \in Revents
    /\ remsize \in 0 .. FrameLen
    /\ data \in Frames \cup {NoFrame}
    /\ begin \in BOOLEAN
    /\ wait_songdone \in BOOLEAN
    /\ sent \in BOOLEAN
    /\ failcmd \in Commands \cup {"none"}
    /\ signalled \in BOOLEAN
-----------------------------------------------------------------------------
(***************************************************************************)
(* main() after raopcl_open, raopcl_connect, the volume and (UDP) the      *)
(* metadata: raopld zeroed, all entries -1, the file given on the command  *)
(* line opened (none in interactive mode), the console registered.  The    *)
(* statics of raopcl_send_sample have their initial values.                *)
(***************************************************************************)
Init ==
    /\ fds = [i \in Slots |-> IF i = 1
                                THEN [fd |-> Stdin, cbf |-> "console_read", flags |-> {RAOP_FD_READ}]
                                ELSE EmptyEntry]
    /\ pc = "top" /\ pos = 1 /\ rdset = {} /\ wrset = {} /\ ret = "top" /\ rval = 0
    /\ pause = "NO_PAUSE"
    /\ auds \in Dfds \cup {NoAuds}
    /\ openDfds = IF auds = NoAuds THEN {} ELSE {auds}
    /\ revents \in Revents
    /\ remsize = 0 /\ data = NoFrame
    /\ begin = TRUE /\ sent = FALSE
    /\ wait_songdone = FALSE
    /\ failcmd = "none"
    /\ signalled = FALSE

-----------------------------------------------------------------------------
(* Session operations of raop_client.c, as operators on the table.        *)

\* raopcl_set_pause's re-registration of sfd: OP_PAUSE falls through to
\* NODATA_PAUSE (read only); NO_PAUSE asks for read and write.  The flush
\* sent to the receiver on OP_PAUSE changes no state kept here.
\* Variants with plausible bugs: a resume that does not ask for write
\* again, and an OP_PAUSE that does not fall through to drop it.
SetPauseFds_resumeReadOnly(tbl, p) ==
    set_fd_event(tbl, Sfd, {RAOP_FD_READ}, "fd_event_callback")
SetPauseFds_opPauseKeepsWrite(tbl, p) ==
    IF p # "NODATA_PAUSE"
      THEN set_fd_event(tbl, Sfd, {RAOP_FD_READ, RAOP_FD_WRITE}, "fd_event_callback")
      ELSE set_fd_event(tbl, Sfd, {RAOP_FD_READ}, "fd_event_callback")

SetPauseFds(tbl, p) ==
    IF p = "NO_PAUSE"
      THEN set_fd_event(tbl, Sfd, {RAOP_FD_READ, RAOP_FD_WRITE}, "fd_event_callback")
      ELSE set_fd_event(tbl, Sfd, {RAOP_FD_READ}, "fd_event_callback")

\* pcm_poll_next_sample's side effect: no event -> register dfd for read
\* with a NULL callback, so that select wakes up; any event (data, or a
\* hang-up without data) -> clear it.  It returns revents & POLLIN.
PollFds(tbl, s, ev) ==
    IF ev = "NONE" THEN set_fd_event(tbl, s, {RAOP_FD_READ}, "NULL")
                   ELSE clear_fd_event(tbl, s)

\* pcm_open (through auds_open) of a file or of socket://: the source gets a
\* free descriptor number, or the open fails and auds_open returns NULL.
\* auds_close (through pcm_close) closes the descriptor and frees the
\* buffer the last sample points into.
pcm_open(open) == (Dfds \ open) \cup {NoAuds}
auds_open(open) == pcm_open(open)
pcm_close(open, s) == open \ {s}
auds_close(open, s) == pcm_close(open, s)

\* raopcl_send_sample(sample) given the table tbl it starts from.  Both
\* transports copy the frame into raopcld->data and reset the cursor
\* (remsize = whole frame, wsize = 0) BEFORE set_fd_event; only when that
\* succeeds does the UDP path advance seq_number and clear begin.
\* A variant with a plausible bug: the cursor counts one unit more than
\* the frame holds.
raopcl_send_sample_overlong(tbl, src) ==
    /\ data' = [marker |-> UDP /\ begin, src |-> src]
    /\ remsize' = FrameLen + 1
    /\ fds' = set_fd_event(tbl, Sfd, {RAOP_FD_READ, RAOP_FD_WRITE}, "fd_event_callback")
    /\ begin' = IF UDP /\ SetFdEventOk(tbl, Sfd) THEN FALSE ELSE begin
    /\ sent' = ~sent

raopcl_send_sample(tbl, src) ==
    LET ok == SetFdEventOk(tbl, Sfd) IN
    /\ data' = [marker |-> UDP /\ begin, src |-> src]
    /\ remsize' = FrameLen
    /\ fds' = set_fd_event(tbl, Sfd, {RAOP_FD_READ, RAOP_FD_WRITE}, "fd_event_callback")
    /\ begin' = IF UDP /\ ok THEN FALSE ELSE begin
    /\ sent' = ~sent

\* raopcl_pause_check: in NODATA_PAUSE, once 3 s have passed since
\* paused_time, raopcl_small_silent sends the small silent frame min_sdata
\* (whether the time has come is the outside world's choice); the RTSP
\* flush of OP_PAUSE changes nothing kept here.
raopcl_pause_check(tbl) ==
    \/ pause = "NODATA_PAUSE" /\ raopcl_send_sample(tbl, "silence")
    \/ fds' = tbl /\ UNCHANGED sendVars

\* main_event_handler(): the caller's continuation is recorded in ret.
CallEventHandler(r) == pc' = "select" /\ ret' = r

\* The entry at position p calls its callback: the fd is set in the
\* direction's result set, the entry asks for that direction, and has a
\* callback (pcm_poll_next_sample's NULL entries only wake select up).
FiresAt(tbl, r, w, p) ==
    LET e == tbl[SlotAt(p)] IN
    /\ e.fd # NoFd /\ e.cbf # "NULL"
    /\ IF IsReadPos(p) THEN RAOP_FD_READ \in e.flags /\ e.fd \in r
                       ELSE RAOP_FD_WRITE \in e.flags /\ e.fd \in w

\* The loop goes on from position p with the table tbl: to the next
\* position whose callback fires, or past the last entry to the tail.
\* The checks in between change nothing and are not separate steps.
GoFrom(tbl, r, w, p) ==
    LET F == {q \in p .. 2 * MAX_NUM_OF_FDS : FiresAt(tbl, r, w, q)} IN
    IF F # {} THEN pc' = "sweep" /\ pos' \in F /\ \A q \in F : pos' =< q
              ELSE pc' = "tail" /\ pos' = 1

\* A failing callback: main_event_handler returns -1; both callers then
\* leave the while loop (directly, or by break out of the do/while).
HandlerFails == rval' = -1 /\ pc' = "top" /\ pos' = 1 /\ rdset' = {} /\ wrset' = {} /\ UNCHANGED ret

\* A callback that returns 0: the loop goes on with the table it left.
Continue == GoFrom(fds', rdset, wrset, pos + 1) /\ UNCHANGED <<rdset, wrset, rval>>
-----------------------------------------------------------------------------
(* The while loop of main(), raop_play.c.                                 *)

\* Top of the loop with rval == 0 and isActivated(host): the switch on the
\* pause state.  NODATA_PAUSE with data falls through into NO_PAUSE
\* after raopcl_set_pause(NO_PAUSE); without data it waits for events.
\* A variant with a plausible bug: NODATA_PAUSE ignores the poll result
\* and keeps waiting even when the source has data.
LoopTop_noResume ==
    /\ pc = "top" /\ rval = 0
    /\ \/ /\ auds = NoAuds \/ (auds # NoAuds /\ pause = "OP_PAUSE")
          /\ CallEventHandler("top")
          /\ UNCHANGED <<fds, pause>>
       \/ /\ auds # NoAuds /\ pause = "NODATA_PAUSE"
          /\ fds' = PollFds(fds, auds, revents)
          /\ CallEventHandler("top")
          /\ UNCHANGED pause
       \/ /\ auds # NoAuds /\ pause = "NO_PAUSE"
          /\ pc' = "play" /\ UNCHANGED <<fds, pause, ret>>
    /\ UNCHANGED <<pos, rdset, wrset, rval, sendVars, srcVars, wait_songdone, failcmd, signalled>>

LoopTop ==
    /\ pc = "top" /\ rval = 0
    /\ \/ /\ auds = NoAuds \/ (auds # NoAuds /\ pause = "OP_PAUSE")
          /\ CallEventHandler("top")
          /\ UNCHANGED <<fds, pause>>
       \/ /\ auds # NoAuds /\ pause = "NODATA_PAUSE" /\ ~Readable
          /\ fds' = PollFds(fds, auds, revents)
          /\ CallEventHandler("top")
          /\ UNCHANGED pause
       \/ /\ auds # NoAuds /\ pause = "NODATA_PAUSE" /\ Readable
          /\ fds' = SetPauseFds(PollFds(fds, auds, revents), "NO_PAUSE")
          /\ pause' = "NO_PAUSE"
          /\ pc' = "play" /\ UNCHANGED ret
       \/ /\ auds # NoAuds /\ pause = "NO_PAUSE"
          /\ pc' = "play" /\ UNCHANGED <<fds, pause, ret>>
    /\ UNCHANGED <<pos, rdset, wrset, rval, sendVars, srcVars, wait_songdone, failcmd, signalled>>

\* case NO_PAUSE: no data -> NODATA_PAUSE and continue; else take the next
\* chunk.  When auds_get_next_sample fails, the source is closed and
\* wait_songdone set, but raopcl_send_sample is still called with buf, which
\* then points into the closed source's freed pcm->buffer.  A failing send
\* breaks out of the switch; otherwise the do/while drains the frame.
Play ==
    /\ pc = "play"
    /\ \/ /\ ~Readable
          /\ fds' = SetPauseFds(PollFds(fds, auds, revents), "NODATA_PAUSE")
          /\ pause' = "NODATA_PAUSE"
          /\ pc' = "top"
          /\ UNCHANGED <<sendVars, srcVars, wait_songdone, ret>>
       \/ /\ Readable
          /\ LET tbl == PollFds(fds, auds, revents) IN
             /\ \E got \in BOOLEAN :
                  IF got
                    THEN /\ revents' \in Revents
                         /\ UNCHANGED <<auds, openDfds, wait_songdone>>
                    ELSE /\ auds' = NoAuds /\ openDfds' = auds_close(openDfds, auds)
                         /\ wait_songdone' = TRUE
                         /\ UNCHANGED revents
             /\ raopcl_send_sample(tbl, auds)
             /\ pc' = IF SetFdEventOk(tbl, Sfd) THEN "select" ELSE "top"
             /\ ret' = "drain"
             /\ UNCHANGED pause
    /\ UNCHANGED <<pos, rdset, wrset, rval, failcmd, signalled>>

\* select(): with every interest set built from the table.  A registered
\* descriptor that has been closed makes select fail with EBADF, which
\* leaves the sets as they were built: every interest then looks ready.
\* Otherwise any subset may be ready, except that stdout is always writable.
Select ==
    /\ pc = "select"
    /\ LET R == ReadInterest(fds)
           W == WriteInterest(fds)
       IN  IF Registered(fds) \cap (Dfds \ openDfds) # {}
             THEN rdset' = R /\ wrset' = W
             ELSE \E r \in SUBSET R, w \in SUBSET W :
                    /\ Stdout \in W => Stdout \in w
                    /\ rdset' = r /\ wrset' = w
    /\ GoFrom(fds, rdset', wrset', 1)
    /\ UNCHANGED <<fds, ret, rval, pause, sendVars, srcVars, wait_songdone, failcmd, signalled>>

\* The callback the sweep is at.
CbfAt == fds[SlotAt(pos)].cbf
-----------------------------------------------------------------------------
(* The callbacks main_event_handler invokes.                              *)

\* console_command(cstr) on the table tbl that console_read left, for the
\* commands it tells apart.  It returns -2 for "quit" and for a "pause"
\* refused while wait_songdone is set; console_read turns -2 into -1,
\* which ends the main loop.  All other results are ignored.
console_command(tbl, cmd) ==
    LET paused == pause # "NO_PAUSE"
        resume == /\ pause' = "NO_PAUSE" /\ fds' = SetPauseFds(tbl, "NO_PAUSE")
    IN
    \/ /\ cmd = "play" \/ (cmd = "playnew" /\ paused)
       /\ IF paused THEN resume ELSE UNCHANGED pause /\ fds' = tbl
       /\ UNCHANGED srcVars /\ Continue
    \/ /\ cmd = "playnew" /\ ~paused
       \* auds_open of the new song; on failure auds becomes NULL.  The
       \* previous source is overwritten without auds_close.
       /\ \E d \in auds_open(openDfds) :
            /\ auds' = d
            /\ openDfds' = IF d = NoAuds THEN openDfds ELSE openDfds \cup {d}
            /\ revents' \in Revents
       /\ fds' = tbl
       /\ UNCHANGED pause /\ Continue
    \/ /\ cmd = "pause" /\ wait_songdone
       /\ fds' = tbl /\ UNCHANGED <<pause, srcVars>>
       /\ HandlerFails
    \/ /\ cmd = "pause" /\ ~wait_songdone
       /\ IF auds # NoAuds
            THEN pause' = "OP_PAUSE" /\ fds' = SetPauseFds(tbl, "OP_PAUSE")
            ELSE UNCHANGED pause /\ fds' = tbl
       /\ UNCHANGED srcVars /\ Continue
    \/ /\ cmd = "stop"
       /\ IF paused THEN resume ELSE UNCHANGED pause /\ fds' = tbl
       /\ auds' = NoAuds
       /\ openDfds' = auds_close(openDfds, auds)
       /\ UNCHANGED revents /\ Continue
    \/ /\ cmd = "quit"
       /\ fds' = tbl /\ UNCHANGED <<pause, srcVars>>
       /\ HandlerFails
    \/ /\ cmd = "other"
       /\ fds' = tbl /\ UNCHANGED <<pause, srcVars>> /\ Continue

\* console_read: read_line; at end of input stdin is cleared from the table
\* and the uninitialized line is still handed to console_command, so any
\* command may follow.
ConsoleRead ==
    /\ pc = "sweep" /\ IsReadPos(pos) /\ CbfAt = "console_read"
    /\ \E eof \in BOOLEAN, cmd \in Commands :
         /\ console_command(IF eof THEN clear_fd_event(fds, Stdin) ELSE fds, cmd)
         /\ failcmd' = IF rval' = -1 THEN cmd ELSE failcmd
    /\ UNCHANGED <<ret, sendVars, wait_songdone, signalled>>

\* fd_event_callback(RAOP_FD_READ): the receiver's status on sfd updates
\* size_in_aex (not kept here); a read error or EOF ends the loop.
AexRead ==
    /\ pc = "sweep" /\ IsReadPos(pos) /\ CbfAt = "fd_event_callback"
    /\ UNCHANGED <<fds, ret, pause, sendVars, srcVars, wait_songdone, failcmd, signalled>>
    /\ Continue \/ HandlerFails

\* fd_event_callback(RAOP_FD_WRITE): an error when there is nothing to write;
\* otherwise write() takes n bytes from the cursor (a UDP datagram goes
\* whole), or fails; at remsize == 0 sfd goes back to read-only interest.
AexWrite ==
    /\ pc = "sweep" /\ ~IsReadPos(pos) /\ CbfAt = "fd_event_callback"
    /\ \/ HandlerFails /\ UNCHANGED <<fds, remsize>>
       \/ /\ remsize > 0
          /\ \E n \in IF UDP THEN {remsize} ELSE 1 .. remsize :
               /\ remsize' = remsize - n
               /\ fds' = IF remsize - n = 0
                           THEN set_fd_event(fds, Sfd, {RAOP_FD_READ}, "fd_event_callback")
                           ELSE fds
          /\ Continue /\ UNCHANGED ret
    /\ UNCHANGED <<pause, data, begin, sent, srcVars, wait_songdone, failcmd, signalled>>

\* terminate_cbf, registered on fd 1 by the signal handler: returns -1.
Terminate ==
    /\ pc = "sweep" /\ CbfAt = "terminate_cbf"
    /\ HandlerFails
    /\ UNCHANGED <<fds, pause, sendVars, srcVars, wait_songdone, failcmd, signalled>>
-----------------------------------------------------------------------------
(* The tail of main_event_handler and the end of the loop.                *)

\* After the callbacks: when the song is waited for and the receiver's
\* buffer has drained (raopcl_aexbuf_time gave 0), wait_songdone is
\* cleared; then raopcl_pause_check (its result is ignored).
\* Back in the caller, the do/while goes on while auds && remsize.
EventHandlerTail ==
    /\ pc = "tail"
    /\ \E drained \in BOOLEAN : wait_songdone' = (wait_songdone /\ ~drained)
    /\ raopcl_pause_check(fds)
    /\ pc' = IF ret = "drain" /\ auds # NoAuds /\ remsize' > 0 THEN "select" ELSE "top"
    /\ rdset' = {} /\ wrset' = {}
    /\ UNCHANGED <<pos, ret, rval, pause, srcVars, failcmd, signalled>>

\* The while condition fails: rval != 0 or isActivated(host) is false;
\* raopcl_close, then auds_close of the current source.
LoopExit ==
    /\ pc = "top"
    /\ rval # 0
    /\ pc' = "exit"
    /\ auds' = NoAuds /\ openDfds' = auds_close(openDfds, auds)
    /\ UNCHANGED <<fds, pos, rdset, wrset, ret, rval, pause, sendVars, revents, wait_songdone, failcmd, signalled>>

Deactivated ==
    /\ pc = "top" /\ rval = 0
    /\ pc' = "exit"
    /\ auds' = NoAuds /\ openDfds' = auds_close(openDfds, auds)
    /\ UNCHANGED <<fds, pos, rdset, wrset, ret, rval, pause, sendVars, revents, wait_songdone, failcmd, signalled>>

\* sig_action for SIGINT/SIGTERM: set_fd_event(1, RAOP_FD_WRITE, terminate_cbf).
\* The handler runs between two steps of the main thread.
SigAction ==
    /\ pc # "exit" /\ ~signalled
    /\ fds' = set_fd_event(fds, Stdout, {RAOP_FD_WRITE}, "terminate_cbf")
    /\ signalled' = TRUE
    /\ UNCHANGED <<loopVars, pause, sendVars, srcVars, wait_songdone, failcmd>>

\* Samples arrive on the current source's descriptor, or its writer hangs up.
DataArrives ==
    /\ pc # "exit" /\ auds # NoAuds /\ revents = "NONE"
    /\ revents' \in {"POLLIN", "POLLHUP"}
    /\ UNCHANGED <<fds, loopVars, pause, sendVars, auds, openDfds, wait_songdone, failcmd, signalled>>

\* main() has returned.
Done == pc = "exit" /\ UNCHANGED vars

\* The steps of the main thread; the rest are the outside world.
MainStep ==
    \/ LoopTop \/ Play \/ Select
    \/ ConsoleRead \/ AexRead \/ AexWrite \/ Terminate \/ EventHandlerTail \/ LoopExit

Next ==
    \/ MainStep
    \/ Deactivated \/ SigAction \/ DataArrives
    \/ Done

\* The main thread is never blocked for long: select() has a timeout of at
\* most MAIN_EVENT_TIMEOUT seconds, and no other call of the loop blocks
\* on the receiver, so it keeps taking steps.
Spec == Init /\ [][Next]_vars /\ WF_vars(MainStep)
-----------------------------------------------------------------------------
(* Properties.                                                            *)

\* Every descriptor is in at most one entry of raopld->fds, whatever
\* set_fd_event and clear_fd_event calls the loop, the callbacks, the
\* source poll and the signal handler make.
TableUnique == FdTableUnique(fds)

\* While the user has paused (OP_PAUSE) no byte of a frame reaches sfd, and
\* while the source has run dry (NODATA_PAUSE) only the small silent frame
\* of raopcl_pause_check does: raopcl_set_pause drops the write interest,
\* and the callback loop of main_event_handler re-reads the flags, so a
\* pause typed earlier in the same sweep already stops the write.
PausedWritesNoAudio ==
    [][remsize' < remsize => pause = "NO_PAUSE" \/ data.src = "silence"]_vars

\* When main_event_handler waits in select while playing with a frame
\* still in flight, sfd is registered for write: the rest of the frame
\* can go out.  (A resume re-arms write; fd_event_callback drops write
\* only once wblk_remsize is 0.)
InFlightArmed ==
    (pc = "select" /\ pause = "NO_PAUSE" /\ remsize > 0)
        => RAOP_FD_WRITE \in FlagsOf(fds, Sfd)

\* Playback that stopped because the source ran dry (NODATA_PAUSE) picks
\* up again once the source has data: pcm_poll_next_sample's NULL entry
\* wakes select, and the next turn of the loop sees the data and calls
\* raopcl_set_pause(NO_PAUSE) - unless the user paused or stopped first,
\* or the session ended.
SourceResumes ==
    (pause = "NODATA_PAUSE" /\ auds # NoAuds /\ Readable)
        ~> (pause # "NODATA_PAUSE" \/ auds = NoAuds \/ pc = "exit")

\* After SIGINT or SIGTERM the main loop ends: the handler's fd 1 entry
\* fires at the next select and terminate_cbf makes it return -1.
SignalEndsLoop == signalled ~> (pc = "exit")

(* Properties the code does not have; each run that checks one of these  *)
(* expects TLC to find the violation.                                    *)

\* spec, section 3: "a new send must not be issued while a previous one is
\* incomplete": a frame of audio in raopcld->data is not replaced while
\* part of it is still to be written.  (raopcl_pause_check re-sending the
\* silent frame over an unsent silent one loses nothing.)
InFlightFrameKept == [][remsize > 0 /\ data.src # "silence" => sent' = sent]_vars

\* fd_event_callback fails with "write is called with remsize=0" when sfd
\* is armed for write with nothing to write.  Whenever the handler waits in
\* select with sfd armed for write, a frame is pending.
WriteArmedOnlyWhenPending ==
    (pc = "select" /\ RAOP_FD_WRITE \in FlagsOf(fds, Sfd)) => remsize > 0

\* Every frame handed to raopcl_send_sample holds samples of a source that
\* is still open, or the silent frame.
NoFreedSamplesSent ==
    [][sent' # sent => data'.src \in {"silence"} \cup openDfds']_vars
=============================================================================
