------------------------- MODULE RaopPlayWriteProofs -------------------------
(***************************************************************************)
(* Proofs about sfd's write interest in the main loop of raop_play, for    *)
(* every table of at least MAX_NUM_OF_FDS = 4 entries, every set of        *)
(* sources and every frame length:                                         *)
(*   - a frame in flight while playing keeps sfd armed for write           *)
(*     (InFlightArmed), and                                                *)
(*   - no byte of audio is written during a pause (PausedWritesNoAudio).   *)
(*                                                                         *)
(* Both rest on raopcl_send_sample and raopcl_set_pause never failing to   *)
(* register sfd, although they ignore set_fd_event's result.  That holds   *)
(* because sfd gets its entry before any source descriptor does: the first *)
(* registration of a source (pcm_poll_next_sample's NULL entry) is         *)
(* followed in the same step by raopcl_set_pause's registration of sfd,    *)
(* with at most the console, fd 1 and that source in the table.  Once in,  *)
(* sfd is never cleared.  With two entries the first frame can find the    *)
(* table full, and TLC shows InFlightArmed violated.                       *)
(***************************************************************************)
EXTENDS RaopPlayProofs

USE FdTableAssumption, RaopPlayAssumption, RaopPlayTableAssumption

\* The callback fd_event_callback is registered only on sfd.
Owned(t) == \A i \in Slots : t[i].cbf = "fd_event_callback" => t[i].fd = Sfd

\* sfd has an entry.
SfdIn(t) == SlotsOf(t, Sfd) # {}

\* sfd gets its entry before any source descriptor does, and before a frame
\* or a pause exists: until then only the console and fd 1 can be in.
SfdFirst ==
    \/ SfdIn(fds)
    \/ Registered(fds) \subseteq {Stdin, Stdout} /\ pause = "NO_PAUSE" /\ remsize = 0

\* While playing, a frame with bytes left keeps sfd armed for write.
WriteArmedWhilePlaying ==
    remsize > 0 /\ pause = "NO_PAUSE" => RAOP_FD_WRITE \in FlagsOf(fds, Sfd)

\* In a pause, sfd is armed for write only for raopcl_pause_check's
\* silent frame.
PausedArmedOnlySilence ==
    pause # "NO_PAUSE" /\ RAOP_FD_WRITE \in FlagsOf(fds, Sfd)
        => data \in Frames /\ data.src = "silence"

\* Only sig_action registers fd 1.
StdoutBySignal == ~signalled => SlotsOf(fds, Stdout) = {}

\* The entry the callback loop is at is one whose callback fires.
SweepFires == pc = "sweep" => FiresAt(fds, rdset, wrset, pos)

\* The NO_PAUSE branch of the loop is taken only when playing.
PlayingUnpaused == pc = "play" => pause = "NO_PAUSE"

\* What is carried besides IInv.
WP ==
    /\ SfdFirst
    /\ WriteArmedWhilePlaying
    /\ PausedArmedOnlySilence
    /\ Owned(fds)
    /\ StdoutBySignal
    /\ SweepFires
    /\ PlayingUnpaused

WInv == IInv /\ WP
-----------------------------------------------------------------------------
(* The descriptors are distinct.                                          *)
LEMMA Distinct ==
    /\ Sfd # Stdin /\ Sfd # Stdout /\ Stdin # Stdout
    /\ Sfd # NoFd /\ Stdout # NoFd /\ Stdin # NoFd
    /\ \A d \in Dfds : d # Sfd /\ d # Stdout /\ d # Stdin /\ d # NoFd
BY DEF Sfd, Stdin, Stdout

(***************************************************************************)
(* raopcl_send_sample and raopcl_set_pause find room for sfd when it has   *)
(* an entry already, or when besides it at most the console, fd 1 and one *)
(* more descriptor are registered: three of the at least four entries.     *)
(***************************************************************************)
LEMMA SfdRoom ==
    ASSUME NEW tbl, TableOK(tbl), NEW x,
           SfdIn(tbl) \/ Registered(tbl) \subseteq {Stdin, Stdout, x}
    PROVE  SetFdEventOk(tbl, Sfd)
<1>1. CASE SfdIn(tbl)
  BY <1>1 DEF SfdIn, SetFdEventOk
<1>2. CASE Registered(tbl) \subseteq {Stdin, Stdout, x}
  <2>1. IsFiniteSet({Stdin, Stdout, x}) /\ Cardinality({Stdin, Stdout, x}) =< 3
    BY CardThree
  <2>2. Cardinality({Stdin, Stdout, x}) < MAX_NUM_OF_FDS
    BY <2>1, FS_CardinalityType
  <2>3. SlotsOf(tbl, NoFd) # {}
    BY <1>2, <2>1, <2>2, RoomBelow DEF TableOK
  <2>. QED
    BY <2>3 DEF SetFdEventOk
<1>. QED
  BY <1>1, <1>2

(***************************************************************************)
(* raopcl_set_pause and raopcl_send_sample on a table with room for sfd:   *)
(* sfd has its entry, with the flags asked for, and no other descriptor's  *)
(* entries change.                                                         *)
(***************************************************************************)
LEMMA SetSfd ==
    ASSUME NEW T, TableOK(T), Owned(T), SetFdEventOk(T, Sfd), NEW F \in FdFlags
    PROVE  LET t2 == set_fd_event(T, Sfd, F, "fd_event_callback") IN
           /\ TableOK(t2) /\ Owned(t2)
           /\ SfdIn(t2) /\ FlagsOf(t2, Sfd) = F
           /\ SlotsOf(t2, Stdout) = SlotsOf(T, Stdout)
<1> DEFINE t2 == set_fd_event(T, Sfd, F, "fd_event_callback")
<1>1. DOMAIN T = Slots
  BY DEF TableOK
<1>2. TableOK(t2)
  BY <1>1, SetOK DEF Fds, Callbacks
<1>3. SfdIn(t2) /\ FlagsOf(t2, Sfd) = F
  BY <1>1, SetFdEventFlags DEF SfdIn
<1>4. Owned(t2)
  BY <1>1, SetFdEventAt DEF Owned
<1>5. SlotsOf(t2, Stdout) = SlotsOf(T, Stdout)
  BY <1>1, Distinct, SetFdEventKeeps, KeepsFlags
<1>. QED
  BY <1>2, <1>3, <1>4, <1>5

LEMMA SetPauseSfd ==
    ASSUME NEW T, TableOK(T), Owned(T), SetFdEventOk(T, Sfd), NEW p
    PROVE  /\ TableOK(SetPauseFds(T, p)) /\ Owned(SetPauseFds(T, p))
           /\ SfdIn(SetPauseFds(T, p))
           /\ FlagsOf(SetPauseFds(T, p), Sfd)
                = IF p = "NO_PAUSE" THEN {RAOP_FD_READ, RAOP_FD_WRITE} ELSE {RAOP_FD_READ}
           /\ SlotsOf(SetPauseFds(T, p), Stdout) = SlotsOf(T, Stdout)
<1>1. CASE p = "NO_PAUSE"
  BY <1>1, SetSfd DEF SetPauseFds, FdFlags
<1>2. CASE p # "NO_PAUSE"
  BY <1>2, SetSfd DEF SetPauseFds, FdFlags
<1>. QED
  BY <1>1, <1>2

(***************************************************************************)
(* Calls on other descriptors leave sfd's and fd 1's entries alone:        *)
(* pcm_poll_next_sample on a source, and console_read's clear_fd_event of  *)
(* the console.                                                            *)
(***************************************************************************)
LEMMA OtherCall ==
    ASSUME NEW tbl, TableOK(tbl), Owned(tbl), NEW T,
           \/ \E s \in Dfds, ev \in Revents : T = PollFds(tbl, s, ev)
           \/ T = clear_fd_event(tbl, Stdin)
    PROVE  /\ TableOK(T) /\ Owned(T)
           /\ SlotsOf(T, Sfd) = SlotsOf(tbl, Sfd) /\ FlagsOf(T, Sfd) = FlagsOf(tbl, Sfd)
           /\ SlotsOf(T, Stdout) = SlotsOf(tbl, Stdout)
           /\ \E s \in Dfds \cup {Stdin} : Registered(T) \subseteq Registered(tbl) \cup {s}
<1>1. DOMAIN tbl = Slots
  BY DEF TableOK
<1>2. CASE \E s \in Dfds, ev \in Revents : T = PollFds(tbl, s, ev)
  <2>1. PICK s \in Dfds, ev \in Revents : T = PollFds(tbl, s, ev)
    BY <1>2
  <2>2. TableOK(T)
    BY <2>1, PollFdsOK
  <2>3. Owned(T)
    BY <1>1, <2>1, SetFdEventAt, ClearFdEventAt DEF Owned, PollFds, EmptyEntry
  <2>4. KeepsFd(tbl, T, Sfd) /\ KeepsFd(tbl, T, Stdout)
    BY <1>1, <2>1, Distinct, SetFdEventKeeps, ClearFdEventKeeps DEF PollFds
  <2>5. Registered(T) \subseteq Registered(tbl) \cup {s}
    BY <1>1, <2>1, SetFdEventRegistered, ClearFdEventRegistered DEF PollFds
  <2>. QED
    BY <1>1, <2>2, <2>3, <2>4, <2>5, KeepsFlags
<1>3. CASE T = clear_fd_event(tbl, Stdin)
  <2>2. TableOK(T)
    BY <1>3, ClearOK
  <2>3. Owned(T)
    BY <1>1, <1>3, ClearFdEventAt DEF Owned, EmptyEntry
  <2>4. KeepsFd(tbl, T, Sfd) /\ KeepsFd(tbl, T, Stdout)
    BY <1>1, <1>3, Distinct, ClearFdEventKeeps
  <2>5. Registered(T) \subseteq Registered(tbl) \cup {Stdin}
    BY <1>1, <1>3, ClearFdEventRegistered
  <2>. QED
    BY <1>1, <2>2, <2>3, <2>4, <2>5, KeepsFlags
<1>. QED
  BY <1>2, <1>3

\* The owner of fd_event_callback stays sfd under any call that does not
\* give the callback to another descriptor.
LEMMA SetOwned ==
    ASSUME NEW T, DOMAIN T = Slots, Owned(T), NEW fd, NEW flags, NEW cbf,
           cbf = "fd_event_callback" => fd = Sfd
    PROVE  Owned(set_fd_event(T, fd, flags, cbf))
BY SetFdEventAt DEF Owned

\* sfd keeps its entry under every call except its own clear_fd_event.
LEMMA SetKeepsSfdIn ==
    ASSUME NEW T, DOMAIN T = Slots, SfdIn(T), NEW fd, NEW flags, NEW cbf
    PROVE  SfdIn(set_fd_event(T, fd, flags, cbf))
<1>1. CASE fd = Sfd
  BY <1>1, SetFdEventFlags DEF SfdIn, SetFdEventOk
<1>2. CASE fd # Sfd
  BY <1>2, Distinct, SetFdEventKeeps, KeepsFlags DEF SfdIn
<1>. QED
  BY <1>1, <1>2

\* The entry at a position of the callback loop is an entry of the table.
LEMMA SlotAtIn ==
    ASSUME NEW p \in Positions
    PROVE  SlotAt(p) \in Slots
BY DEF Positions, SlotAt, Slots

\* Where the loop goes on, the callback fires.
LEMMA GoFromFires ==
    ASSUME NEW tbl, NEW r, NEW w, NEW p, GoFrom(tbl, r, w, p)
    PROVE  pc' \in {"sweep", "tail"} /\ (pc' = "sweep" => FiresAt(tbl, r, w, pos'))
BY DEF GoFrom

\* After a callback: the sweep goes on at an entry that fires in the table
\* the callback left, or main_event_handler returns.
LEMMA CallbackEnd ==
    ASSUME Continue \/ HandlerFails
    PROVE  /\ pc' \in {"sweep", "tail", "top"}
           /\ pc' = "sweep" => FiresAt(fds', rdset', wrset', pos')
<1>1. CASE Continue
  BY <1>1, GoFromFires DEF Continue
<1>2. CASE HandlerFails
  BY <1>2 DEF HandlerFails
<1>. QED
  BY <1>1, <1>2
-----------------------------------------------------------------------------
(***************************************************************************)
(* The steps.  A step that leaves the table, the pause state, the cursor,  *)
(* the frame and the signal alone keeps WP if it goes to play only when    *)
(* unpaused and into the sweep only at an entry that fires.                *)
(***************************************************************************)
LEMMA TableKept ==
    ASSUME WP, UNCHANGED <<fds, pause, remsize, data, signalled>>,
           pc' = "play" => pause' = "NO_PAUSE",
           pc' = "sweep" => FiresAt(fds', rdset', wrset', pos')
    PROVE  WP'
BY DEF WP, SfdFirst, SfdIn, WriteArmedWhilePlaying, PausedArmedOnlySilence, Owned,
       StdoutBySignal, SweepFires, PlayingUnpaused

LEMMA SelectW == WInv /\ Select => WP'
<1> SUFFICES ASSUME WInv, Select PROVE WP'
  OBVIOUS
<1>1. pc' \in {"sweep", "tail"} /\ (pc' = "sweep" => FiresAt(fds, rdset', wrset', pos'))
  BY GoFromFires DEF Select
<1>. QED
  BY <1>1, TableKept DEF Select, WInv, sendVars

LEMMA AexReadW == WInv /\ AexRead => WP'
<1> SUFFICES ASSUME WInv, AexRead PROVE WP'
  OBVIOUS
<1>1. pc' \in {"sweep", "tail", "top"} /\ (pc' = "sweep" => FiresAt(fds', rdset', wrset', pos'))
  BY CallbackEnd DEF AexRead
<1>. QED
  BY <1>1, TableKept DEF AexRead, WInv, sendVars

LEMMA TerminateW == WInv /\ Terminate => WP'
<1> SUFFICES ASSUME WInv, Terminate PROVE WP'
  OBVIOUS
<1>1. pc' \in {"sweep", "tail", "top"} /\ (pc' = "sweep" => FiresAt(fds', rdset', wrset', pos'))
  BY CallbackEnd DEF Terminate
<1>. QED
  BY <1>1, TableKept DEF Terminate, WInv, sendVars

LEMMA ExitW == WInv /\ (LoopExit \/ Deactivated) => WP'
<1> SUFFICES ASSUME WInv, LoopExit \/ Deactivated PROVE WP'
  OBVIOUS
<1>1. pc' = "exit" /\ UNCHANGED <<fds, pause, remsize, data, signalled>>
  BY DEF LoopExit, Deactivated, sendVars
<1>. QED
  BY <1>1, TableKept DEF WInv

LEMMA DataArrivesW == WInv /\ DataArrives => WP'
<1> SUFFICES ASSUME WInv, DataArrives PROVE WP'
  OBVIOUS
<1>1. UNCHANGED <<fds, pc, pos, rdset, wrset, pause, remsize, data, signalled>>
  BY DEF DataArrives, loopVars, sendVars
<1>2. pc' = "play" => pause' = "NO_PAUSE"
  BY <1>1 DEF WInv, WP, PlayingUnpaused
<1>3. pc' = "sweep" => FiresAt(fds', rdset', wrset', pos')
  BY <1>1 DEF WInv, WP, SweepFires
<1>. QED
  BY <1>1, <1>2, <1>3, TableKept DEF WInv

\* sig_action registers fd 1, which has no entry before the first signal:
\* it fills an empty entry, never the one the sweep is at.
LEMMA SigActionW == WInv /\ SigAction => WP'
<1> SUFFICES ASSUME WInv, SigAction PROVE WP'
  OBVIOUS
<1>0. TableOK(fds) /\ RestOK /\ WP /\ ~signalled
  BY DEF WInv, IInv, TypeOK, TableUnique, TableOK, RestOK, SigAction
<1>1. DOMAIN fds = Slots
  BY <1>0 DEF TableOK
<1>2. fds' = set_fd_event(fds, Stdout, {RAOP_FD_WRITE}, "terminate_cbf")
      /\ UNCHANGED <<pc, pos, rdset, wrset, pause, remsize, data>> /\ signalled'
  BY DEF SigAction, loopVars, sendVars
<1>3. KeepsFd(fds, fds', Sfd)
  BY <1>1, <1>2, Distinct, SetFdEventKeeps
<1>4. SlotsOf(fds', Sfd) = SlotsOf(fds, Sfd) /\ FlagsOf(fds', Sfd) = FlagsOf(fds, Sfd)
  BY <1>1, <1>3, KeepsFlags
<1>5. Registered(fds') \subseteq Registered(fds) \cup {Stdout}
  BY <1>1, <1>2, SetFdEventRegistered
<1>6. SfdFirst'
  BY <1>0, <1>2, <1>4, <1>5 DEF WP, SfdFirst, SfdIn
<1>7. Owned(fds')
  BY <1>0, <1>1, <1>2, SetOwned DEF WP
<1>8. SweepFires'
  <2> SUFFICES ASSUME pc = "sweep" PROVE FiresAt(fds', rdset, wrset, pos)
    BY <1>2 DEF SweepFires
  <2>1. FiresAt(fds, rdset, wrset, pos)
    BY <1>0 DEF WP, SweepFires
  <2> DEFINE k == SlotAt(pos)
  <2>2. k \in Slots
    BY <1>0, SlotAtIn DEF RestOK
  <2>3. fds[k].fd # NoFd /\ fds[k].fd # Stdout
    BY <1>0, <2>1, <2>2 DEF WP, StdoutBySignal, FiresAt, SlotsOf
  <2>4. fds'[k] = fds[k]
    <3>1. KeepsFd(fds, fds', fds[k].fd)
      BY <1>1, <1>2, <2>3, SetFdEventKeeps
    <3>. QED
      BY <2>2, <3>1 DEF KeepsFd
  <2>. QED
    BY <2>1, <2>4 DEF FiresAt
<1>. QED
  BY <1>0, <1>2, <1>4, <1>6, <1>7, <1>8
     DEF WP, WriteArmedWhilePlaying, PausedArmedOnlySilence, StdoutBySignal, PlayingUnpaused

\* fd_event_callback's write: a frame in flight means sfd has its entry, so
\* dropping the write interest at remsize == 0 finds it.
LEMMA AexWriteW == WInv /\ AexWrite => WP'
<1> SUFFICES ASSUME WInv, AexWrite PROVE WP'
  OBVIOUS
<1>0. TableOK(fds) /\ RestOK /\ WP
  BY DEF WInv, IInv, TypeOK, TableUnique, TableOK, RestOK
<1>1. UNCHANGED <<pause, data, signalled>>
  BY DEF AexWrite
<1>2. pc' \in {"sweep", "tail", "top"} /\ (pc' = "sweep" => FiresAt(fds', rdset', wrset', pos'))
  BY CallbackEnd DEF AexWrite
<1>3. CASE HandlerFails /\ UNCHANGED <<fds, remsize>>
  BY <1>0, <1>1, <1>2, <1>3, TableKept
<1>4. CASE /\ remsize > 0
           /\ \E n \in IF UDP THEN {remsize} ELSE 1 .. remsize :
                /\ remsize' = remsize - n
                /\ fds' = IF remsize - n = 0
                            THEN set_fd_event(fds, Sfd, {RAOP_FD_READ}, "fd_event_callback")
                            ELSE fds
  <2>1. PICK n \in IF UDP THEN {remsize} ELSE 1 .. remsize :
                /\ remsize' = remsize - n
                /\ fds' = IF remsize - n = 0
                            THEN set_fd_event(fds, Sfd, {RAOP_FD_READ}, "fd_event_callback")
                            ELSE fds
    BY <1>4
  <2>2. remsize' \in Nat /\ remsize' < remsize
    BY <1>0, <1>4, <2>1 DEF RestOK
  <2>3. SfdIn(fds)
    BY <1>0, <1>4 DEF WP, SfdFirst
  <2>4. CASE remsize' = 0
    <3>1. fds' = set_fd_event(fds, Sfd, {RAOP_FD_READ}, "fd_event_callback")
      BY <2>1, <2>4
    <3>2. /\ Owned(fds') /\ SfdIn(fds') /\ FlagsOf(fds', Sfd) = {RAOP_FD_READ}
          /\ SlotsOf(fds', Stdout) = SlotsOf(fds, Stdout)
      BY <1>0, <2>3, <3>1, SetSfd, SfdRoom DEF WP, FdFlags
    <3>. QED
      BY <1>0, <1>1, <1>2, <2>4, <3>2
         DEF WP, SfdFirst, WriteArmedWhilePlaying, PausedArmedOnlySilence,
             StdoutBySignal, SweepFires, PlayingUnpaused, RAOP_FD_READ, RAOP_FD_WRITE
  <2>5. CASE remsize' # 0
    <3>1. fds' = fds
      BY <2>1, <2>5
    <3>. QED
      BY <1>0, <1>1, <1>2, <1>4, <2>2, <2>3, <2>5, <3>1
         DEF WP, SfdFirst, WriteArmedWhilePlaying, PausedArmedOnlySilence, Owned,
             StdoutBySignal, SweepFires, PlayingUnpaused
  <2>. QED
    BY <2>4, <2>5
<1>. QED
  BY <1>3, <1>4 DEF AexWrite

\* raopcl_pause_check's silent frame: sent only in NODATA_PAUSE, when sfd
\* already has its entry; it arms write for the silent frame only.
LEMMA EventHandlerTailW == WInv /\ EventHandlerTail => WP'
<1> SUFFICES ASSUME WInv, EventHandlerTail PROVE WP'
  OBVIOUS
<1>0. TableOK(fds) /\ RestOK /\ WP
  BY DEF WInv, IInv, TypeOK, TableUnique, TableOK, RestOK
<1>1. pc' \in {"select", "top"} /\ UNCHANGED <<pause, signalled>>
  BY DEF EventHandlerTail
<1>2. CASE pause = "NODATA_PAUSE" /\ raopcl_send_sample(fds, "silence")
  <2>1. SfdIn(fds)
    BY <1>0, <1>2 DEF WP, SfdFirst
  <2>2. fds' = set_fd_event(fds, Sfd, {RAOP_FD_READ, RAOP_FD_WRITE}, "fd_event_callback")
    BY <1>2 DEF raopcl_send_sample
  <2>3. /\ Owned(fds') /\ SfdIn(fds')
        /\ SlotsOf(fds', Stdout) = SlotsOf(fds, Stdout)
    BY <1>0, <2>1, <2>2, SetSfd, SfdRoom DEF WP, FdFlags
  <2>4. data' \in Frames /\ data'.src = "silence"
    BY <1>0, <1>2 DEF raopcl_send_sample, Frames, RestOK
  <2>. QED
    BY <1>0, <1>1, <1>2, <2>3, <2>4
       DEF WP, SfdFirst, WriteArmedWhilePlaying, PausedArmedOnlySilence,
           StdoutBySignal, SweepFires, PlayingUnpaused
<1>3. CASE fds' = fds /\ UNCHANGED sendVars
  BY <1>0, <1>1, <1>3, TableKept DEF sendVars
<1>. QED
  BY <1>2, <1>3 DEF EventHandlerTail, raopcl_pause_check

\* The top of the loop: the source poll touches only the source's entry, and
\* a resume from NODATA_PAUSE re-arms sfd for write.
LEMMA LoopTopW == WInv /\ LoopTop => WP'
<1> SUFFICES ASSUME WInv, LoopTop PROVE WP'
  OBVIOUS
<1>0. TableOK(fds) /\ RestOK /\ WP
  BY DEF WInv, IInv, TypeOK, TableUnique, TableOK, RestOK
<1>1. UNCHANGED <<remsize, data, signalled>> /\ pc' \in {"select", "play"}
  BY DEF LoopTop, sendVars, CallEventHandler
<1>2. CASE /\ auds = NoAuds \/ (auds # NoAuds /\ pause = "OP_PAUSE")
           /\ CallEventHandler("top") /\ UNCHANGED <<fds, pause>>
  BY <1>0, <1>1, <1>2, TableKept DEF CallEventHandler
<1>3. CASE /\ auds # NoAuds /\ pause = "NODATA_PAUSE" /\ ~Readable
           /\ fds' = PollFds(fds, auds, revents)
           /\ CallEventHandler("top") /\ UNCHANGED pause
  <2>1. auds \in Dfds /\ revents \in Revents
    BY <1>0, <1>3 DEF RestOK
  <2>2. /\ TableOK(fds') /\ Owned(fds')
        /\ SlotsOf(fds', Sfd) = SlotsOf(fds, Sfd) /\ FlagsOf(fds', Sfd) = FlagsOf(fds, Sfd)
        /\ SlotsOf(fds', Stdout) = SlotsOf(fds, Stdout)
    BY <1>0, <1>3, <2>1, OtherCall DEF WP
  <2>3. SfdIn(fds)
    BY <1>0, <1>3 DEF WP, SfdFirst
  <2>. QED
    BY <1>0, <1>1, <1>3, <2>2, <2>3
       DEF WP, SfdFirst, SfdIn, WriteArmedWhilePlaying, PausedArmedOnlySilence,
           StdoutBySignal, SweepFires, PlayingUnpaused, CallEventHandler
<1>4. CASE /\ auds # NoAuds /\ pause = "NODATA_PAUSE" /\ Readable
           /\ fds' = SetPauseFds(PollFds(fds, auds, revents), "NO_PAUSE")
           /\ pause' = "NO_PAUSE"
           /\ pc' = "play"
  <2> DEFINE T == PollFds(fds, auds, revents)
  <2>1. auds \in Dfds /\ revents \in Revents
    BY <1>0, <1>4 DEF RestOK
  <2>2. /\ TableOK(T) /\ Owned(T)
        /\ SlotsOf(T, Sfd) = SlotsOf(fds, Sfd)
        /\ SlotsOf(T, Stdout) = SlotsOf(fds, Stdout)
    BY <1>0, <2>1, OtherCall DEF WP
  <2>3. SfdIn(T)
    BY <1>0, <1>4, <2>2 DEF WP, SfdFirst, SfdIn
  <2>4. SetFdEventOk(T, Sfd)
    BY <2>3 DEF SfdIn, SetFdEventOk
  <2>5. /\ Owned(fds') /\ SfdIn(fds')
        /\ FlagsOf(fds', Sfd) = {RAOP_FD_READ, RAOP_FD_WRITE}
        /\ SlotsOf(fds', Stdout) = SlotsOf(fds, Stdout)
    BY <1>4, <2>2, <2>4, SetPauseSfd
  <2>. QED
    BY <1>0, <1>1, <1>4, <2>5
       DEF WP, SfdFirst, WriteArmedWhilePlaying, PausedArmedOnlySilence,
           StdoutBySignal, SweepFires, PlayingUnpaused
<1>5. CASE /\ auds # NoAuds /\ pause = "NO_PAUSE"
           /\ pc' = "play" /\ UNCHANGED <<fds, pause, ret>>
  BY <1>0, <1>1, <1>5, TableKept
<1>. QED
  BY <1>2, <1>3, <1>4, <1>5 DEF LoopTop

\* The NO_PAUSE branch: the source poll may register the source before
\* sfd has an entry, and raopcl_set_pause or raopcl_send_sample then still
\* finds room for sfd (console, fd 1 and the source fill three entries).
LEMMA PlayW == WInv /\ Play => WP'
<1> SUFFICES ASSUME WInv, Play PROVE WP'
  OBVIOUS
<1>0. TableOK(fds) /\ RestOK /\ WP /\ auds \in Dfds /\ pause = "NO_PAUSE"
  BY DEF WInv, IInv, TypeOK, TableUnique, TableOK, RestOK, Play, WP, PlayingUnpaused
<1> DEFINE T == PollFds(fds, auds, revents)
<1>1. /\ TableOK(T) /\ Owned(T)
      /\ SlotsOf(T, Sfd) = SlotsOf(fds, Sfd)
      /\ SlotsOf(T, Stdout) = SlotsOf(fds, Stdout)
      /\ \E s \in Dfds \cup {Stdin} : Registered(T) \subseteq Registered(fds) \cup {s}
  BY <1>0, OtherCall DEF WP, RestOK
<1>2. SetFdEventOk(T, Sfd)
  <2>1. PICK s \in Dfds \cup {Stdin} : Registered(T) \subseteq Registered(fds) \cup {s}
    BY <1>1
  <2>2. SfdIn(T) \/ Registered(T) \subseteq {Stdin, Stdout, s}
    BY <1>0, <1>1, <2>1 DEF WP, SfdFirst, SfdIn
  <2>. QED
    BY <1>1, <2>2, SfdRoom
<1>3. UNCHANGED <<signalled>> /\ pc' \in {"top", "select"}
  BY DEF Play
<1>4. CASE ~Readable
  <2>1. fds' = SetPauseFds(T, "NODATA_PAUSE") /\ pause' = "NODATA_PAUSE"
    BY <1>4 DEF Play
  <2>2. /\ Owned(fds') /\ SfdIn(fds')
        /\ FlagsOf(fds', Sfd) = {RAOP_FD_READ}
        /\ SlotsOf(fds', Stdout) = SlotsOf(fds, Stdout)
    BY <1>1, <1>2, <2>1, SetPauseSfd
  <2>. QED
    BY <1>0, <1>3, <2>1, <2>2
       DEF WP, SfdFirst, WriteArmedWhilePlaying, PausedArmedOnlySilence,
           StdoutBySignal, SweepFires, PlayingUnpaused, RAOP_FD_READ, RAOP_FD_WRITE
<1>5. CASE Readable
  <2>1. fds' = set_fd_event(T, Sfd, {RAOP_FD_READ, RAOP_FD_WRITE}, "fd_event_callback")
        /\ pause' = pause
    BY <1>5 DEF Play, raopcl_send_sample
  <2>2. /\ Owned(fds') /\ SfdIn(fds')
        /\ FlagsOf(fds', Sfd) = {RAOP_FD_READ, RAOP_FD_WRITE}
        /\ SlotsOf(fds', Stdout) = SlotsOf(fds, Stdout)
    BY <1>1, <1>2, <2>1, SetSfd DEF FdFlags
  <2>. QED
    BY <1>0, <1>3, <2>1, <2>2
       DEF WP, SfdFirst, WriteArmedWhilePlaying, PausedArmedOnlySilence,
           StdoutBySignal, SweepFires, PlayingUnpaused
<1>. QED
  BY <1>4, <1>5

\* console_read: end of input clears only the console's entry; a command
\* either leaves the table, resumes (sfd has its entry, since only a pause
\* state is left), or pauses (sfd finds room beside the console and fd 1).
LEMMA ConsoleReadW == WInv /\ ConsoleRead => WP'
<1> SUFFICES ASSUME WInv, ConsoleRead PROVE WP'
  OBVIOUS
<1>0. TableOK(fds) /\ RestOK /\ WP
  BY DEF WInv, IInv, TypeOK, TableUnique, TableOK, RestOK
<1>1. PICK eof \in BOOLEAN, cmd \in Commands :
        console_command(IF eof THEN clear_fd_event(fds, Stdin) ELSE fds, cmd)
  BY DEF ConsoleRead
<1> DEFINE T == IF eof THEN clear_fd_event(fds, Stdin) ELSE fds
<1>2. /\ TableOK(T) /\ Owned(T)
      /\ SlotsOf(T, Sfd) = SlotsOf(fds, Sfd) /\ FlagsOf(T, Sfd) = FlagsOf(fds, Sfd)
      /\ SlotsOf(T, Stdout) = SlotsOf(fds, Stdout)
      /\ Registered(T) \subseteq Registered(fds)
  <2>1. CASE eof
    <3>1. Registered(T) \subseteq Registered(fds)
      BY <1>0, <2>1, ClearFdEventRegistered DEF TableOK
    <3>. QED
      BY <1>0, <2>1, <3>1, OtherCall DEF WP
  <2>2. CASE ~eof
    BY <1>0, <2>2 DEF WP
  <2>. QED
    BY <2>1, <2>2
<1>3. SfdIn(T) \/ Registered(T) \subseteq {Stdin, Stdout, Stdin}
  BY <1>0, <1>2 DEF WP, SfdFirst, SfdIn
<1>4. SetFdEventOk(T, Sfd)
  BY <1>2, <1>3, SfdRoom
<1>5. \/ fds' = T /\ pause' = pause
      \/ pause # "NO_PAUSE" /\ fds' = SetPauseFds(T, "NO_PAUSE") /\ pause' = "NO_PAUSE"
      \/ fds' = SetPauseFds(T, "OP_PAUSE") /\ pause' = "OP_PAUSE"
  BY <1>1 DEF console_command
<1>6. /\ UNCHANGED <<remsize, data, signalled>>
      /\ pc' \in {"sweep", "tail", "top"}
      /\ pc' = "sweep" => FiresAt(fds', rdset', wrset', pos')
  <2>1. Continue \/ HandlerFails
    BY <1>1 DEF console_command
  <2>. QED
    BY <2>1, CallbackEnd DEF ConsoleRead, sendVars
<1>7. CASE fds' = T /\ pause' = pause
  <2>1. SfdFirst'
    BY <1>0, <1>2, <1>6, <1>7 DEF WP, SfdFirst, SfdIn
  <2>. QED
    BY <1>0, <1>2, <1>6, <1>7, <2>1
       DEF WP, WriteArmedWhilePlaying, PausedArmedOnlySilence,
           StdoutBySignal, SweepFires, PlayingUnpaused
<1>8. CASE pause # "NO_PAUSE" /\ fds' = SetPauseFds(T, "NO_PAUSE") /\ pause' = "NO_PAUSE"
  <2>1. /\ Owned(fds') /\ SfdIn(fds')
        /\ FlagsOf(fds', Sfd) = {RAOP_FD_READ, RAOP_FD_WRITE}
        /\ SlotsOf(fds', Stdout) = SlotsOf(fds, Stdout)
    BY <1>2, <1>4, <1>8, SetPauseSfd
  <2>. QED
    BY <1>0, <1>6, <1>8, <2>1
       DEF WP, SfdFirst, WriteArmedWhilePlaying, PausedArmedOnlySilence,
           StdoutBySignal, SweepFires, PlayingUnpaused
<1>9. CASE fds' = SetPauseFds(T, "OP_PAUSE") /\ pause' = "OP_PAUSE"
  <2>1. /\ Owned(fds') /\ SfdIn(fds')
        /\ FlagsOf(fds', Sfd) = {RAOP_FD_READ}
        /\ SlotsOf(fds', Stdout) = SlotsOf(fds, Stdout)
    BY <1>2, <1>4, <1>9, SetPauseSfd
  <2>. QED
    BY <1>0, <1>6, <1>9, <2>1
       DEF WP, SfdFirst, WriteArmedWhilePlaying, PausedArmedOnlySilence,
           StdoutBySignal, SweepFires, PlayingUnpaused, RAOP_FD_READ, RAOP_FD_WRITE
<1>. QED
  BY <1>5, <1>7, <1>8, <1>9

LEMMA InitW == Init => WInv
<1> SUFFICES ASSUME Init PROVE WP
  BY InitInv DEF WInv
<1>1. \A i \in Slots : fds[i].fd \in {Stdin, NoFd} /\ fds[i].cbf \in {"console_read", "NULL"}
  BY DEF Init, EmptyEntry
<1>2. Registered(fds) \subseteq {Stdin, Stdout}
  BY <1>1 DEF Registered
<1>3. SlotsOf(fds, Stdout) = {}
  BY <1>1, Distinct DEF SlotsOf
<1>. QED
  BY <1>1, <1>2, <1>3
     DEF Init, WP, SfdFirst, WriteArmedWhilePlaying, PausedArmedOnlySilence, Owned,
         StdoutBySignal, SweepFires, PlayingUnpaused

\* Every step of the program and of its environment keeps WInv.
LEMMA NextW == WInv /\ [Next]_vars => WInv'
<1> SUFFICES ASSUME WInv, [Next]_vars PROVE WP'
  BY NextInv DEF WInv
<1>1. CASE LoopTop      BY <1>1, LoopTopW
<1>2. CASE Play         BY <1>2, PlayW
<1>3. CASE Select       BY <1>3, SelectW
<1>4. CASE ConsoleRead  BY <1>4, ConsoleReadW
<1>5. CASE AexRead      BY <1>5, AexReadW
<1>6. CASE AexWrite     BY <1>6, AexWriteW
<1>7. CASE Terminate    BY <1>7, TerminateW
<1>8. CASE EventHandlerTail         BY <1>8, EventHandlerTailW
<1>9. CASE LoopExit \/ Deactivated BY <1>9, ExitW
<1>10. CASE SigAction   BY <1>10, SigActionW
<1>11. CASE DataArrives BY <1>11, DataArrivesW
<1>12. CASE UNCHANGED vars \/ Done
  <2>1. UNCHANGED <<fds, pc, pos, rdset, wrset, pause, remsize, data, signalled>>
    BY <1>12 DEF Done, vars, loopVars, sendVars
  <2>. QED
    BY <2>1 DEF WInv, WP, SfdFirst, SfdIn, WriteArmedWhilePlaying, PausedArmedOnlySilence,
                Owned, StdoutBySignal, SweepFires, PlayingUnpaused
<1>. QED
  BY <1>1, <1>2, <1>3, <1>4, <1>5, <1>6, <1>7, <1>8, <1>9, <1>10, <1>11, <1>12
     DEF Next, MainStep
-----------------------------------------------------------------------------
(***************************************************************************)
(* For every table of at least four entries, every set of sources and     *)
(* every frame length: whenever main_event_handler waits in select while  *)
(* playing with part of a frame still unwritten, sfd is registered for     *)
(* write, so fd_event_callback can write the rest.  raopcl_send_sample and *)
(* raopcl_set_pause ignore set_fd_event's result; this says they never    *)
(* need to look at it.                                                     *)
(***************************************************************************)
THEOREM InFlightArmedInvariant == Spec => []InFlightArmed
<1>1. WInv => InFlightArmed
  BY DEF WInv, WP, WriteArmedWhilePlaying, InFlightArmed
<1>. QED
  BY <1>1, InitW, NextW, PTL DEF Spec

\* The entry the sweep is at when fd_event_callback is called for write is
\* sfd's (only sfd has that callback), so sfd is armed for write.
LEMMA ArmedAtWrite ==
    ASSUME WInv, pc = "sweep", ~IsReadPos(pos), CbfAt = "fd_event_callback"
    PROVE  RAOP_FD_WRITE \in FlagsOf(fds, Sfd)
<1> DEFINE k == SlotAt(pos)
<1>0. TableOK(fds) /\ RestOK /\ WP
  BY DEF WInv, IInv, TypeOK, TableUnique, TableOK, RestOK
<1>1. k \in Slots
  BY <1>0, SlotAtIn DEF RestOK
<1>2. fds[k].fd = Sfd /\ RAOP_FD_WRITE \in fds[k].flags
  BY <1>0, <1>1 DEF WP, SweepFires, FiresAt, Owned, CbfAt
<1>3. SlotsOf(fds, Sfd) = {k}
  BY <1>0, <1>1, <1>2, Distinct DEF TableOK, FdTableUnique, SlotsOf
<1>4. Least({k}) = k
  BY <1>1, LeastOfSingleton DEF Slots
<1>. QED
  BY <1>2, <1>3, <1>4 DEF FlagsOf

\* Only fd_event_callback's write shortens the frame; the other steps keep
\* the cursor or start a new frame.
LEMMA StepNoAudio ==
    WInv /\ [Next]_vars => [remsize' < remsize => pause = "NO_PAUSE" \/ data.src = "silence"]_vars
<1> SUFFICES ASSUME WInv, [Next]_vars, remsize' < remsize
             PROVE  pause = "NO_PAUSE" \/ data.src = "silence"
  OBVIOUS
<1>0. TableOK(fds) /\ RestOK /\ WP
  BY DEF WInv, IInv, TypeOK, TableUnique, TableOK, RestOK
<1>1. CASE AexWrite
  <2>1. RAOP_FD_WRITE \in FlagsOf(fds, Sfd)
    BY <1>1, ArmedAtWrite DEF AexWrite
  <2>. QED
    BY <1>0, <2>1 DEF WP, PausedArmedOnlySilence
<1>2. CASE ~AexWrite
  <2>1. remsize' = remsize \/ remsize' = FrameLen
    BY <1>2 DEF Next, MainStep, LoopTop, Play, Select, ConsoleRead, AexRead, Terminate,
                EventHandlerTail, raopcl_pause_check, raopcl_send_sample, LoopExit,
                Deactivated, SigAction, DataArrives, Done, vars, sendVars
  <2>. QED
    BY <1>0, <2>1 DEF RestOK
<1>. QED
  BY <1>1, <1>2

(***************************************************************************)
(* For every table of at least four entries: while the user has paused,   *)
(* no byte of a frame reaches sfd, and while the source has run dry only  *)
(* raopcl_pause_check's silent frame does.  raopcl_set_pause drops sfd's  *)
(* write interest, and the callback loop re-reads each entry's flags, so  *)
(* a pause typed earlier in the same sweep already stops the write.       *)
(***************************************************************************)
THEOREM PausedWritesNoAudioProperty == Spec => PausedWritesNoAudio
<1>1. []WInv /\ [][Next]_vars => PausedWritesNoAudio
  <2>1. WInv /\ [Next]_vars => [remsize' < remsize => pause = "NO_PAUSE" \/ data.src = "silence"]_vars
    BY StepNoAudio
  <2>. QED
    BY <2>1, PTL DEF PausedWritesNoAudio
<1>2. Spec => []WInv
  BY InitW, NextW, PTL DEF Spec
<1>. QED
  BY <1>1, <1>2, PTL DEF Spec
=============================================================================
