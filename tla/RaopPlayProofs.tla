--------------------------- MODULE RaopPlayProofs ---------------------------
(***************************************************************************)
(* Proofs about the main loop of raop_play, for every table size, every    *)
(* set of source descriptors and every frame length: the state keeps its   *)
(* type, and no descriptor is ever in two entries of raopld->fds.          *)
(*                                                                         *)
(* Neither is inductive on its own.  The type of data and of the table     *)
(* after Play needs that Play only runs with a source open (main() takes   *)
(* the NO_PAUSE branch only when raopld->auds is set), and the table       *)
(* facts are carried together, because set_fd_event's update of an        *)
(* existing entry keeps the table unique only when it was unique before.   *)
(***************************************************************************)
EXTENDS RaopPlay, FdEventsProofs

\* The table is well formed and holds each descriptor at most once.
TableOK(tbl) == tbl \in [Slots -> Entries] /\ FdTableUnique(tbl)

IInv ==
    /\ TypeOK
    /\ TableUnique
    /\ pc = "play" => auds \in Dfds

USE FdTableAssumption, RaopPlayAssumption

(***************************************************************************)
(* Registering one of the program's descriptors, with flags and a         *)
(* callback it uses, keeps the table well formed and unique.               *)
(***************************************************************************)
LEMMA SetOK ==
    ASSUME NEW tbl, TableOK(tbl), NEW fd \in Fds, NEW flags \in FdFlags,
           NEW cbf \in Callbacks
    PROVE  TableOK(set_fd_event(tbl, fd, flags, cbf))
<1>1. [fd |-> fd, cbf |-> cbf, flags |-> flags] \in Entries
  BY DEF Entries
<1>2. fd # NoFd
  BY DEF Fds, Stdin, Stdout, Sfd
<1>. QED
  BY <1>1, <1>2, SetFdEventType, SetFdEventUnique DEF TableOK

\* Clearing any descriptor keeps the table well formed and unique.
LEMMA ClearOK ==
    ASSUME NEW tbl, TableOK(tbl), NEW fd
    PROVE  TableOK(clear_fd_event(tbl, fd))
<1>1. EmptyEntry \in Entries
  BY DEF EmptyEntry, Entries, FdFlags, Callbacks
<1>. QED
  BY <1>1, ClearFdEventType, ClearFdEventUnique DEF TableOK

\* raopcl_set_pause's re-registration of sfd.
LEMMA SetPauseFdsOK ==
    ASSUME NEW tbl, TableOK(tbl), NEW p
    PROVE  TableOK(SetPauseFds(tbl, p))
<1>1. Sfd \in Fds /\ {RAOP_FD_READ, RAOP_FD_WRITE} \in FdFlags /\ {RAOP_FD_READ} \in FdFlags
      /\ "fd_event_callback" \in Callbacks
  BY DEF Fds, FdFlags, Callbacks
<1>. QED
  BY <1>1, SetOK DEF SetPauseFds

\* pcm_poll_next_sample's registration or removal of an open source.
LEMMA PollFdsOK ==
    ASSUME NEW tbl, TableOK(tbl), NEW s \in Dfds, NEW ev
    PROVE  TableOK(PollFds(tbl, s, ev))
<1>1. s \in Fds /\ {RAOP_FD_READ} \in FdFlags /\ "NULL" \in Callbacks
  BY DEF Fds, FdFlags, Callbacks
<1>. QED
  BY <1>1, SetOK, ClearOK DEF PollFds

(***************************************************************************)
(* raopcl_send_sample of an open source or of the silent frame: the frame  *)
(* and the cursor have their types and the table stays well formed.        *)
(***************************************************************************)
LEMMA SendSampleOK ==
    ASSUME NEW tbl, TableOK(tbl), NEW src \in Dfds \cup {"silence"},
           begin \in BOOLEAN, sent \in BOOLEAN,
           raopcl_send_sample(tbl, src)
    PROVE  /\ TableOK(fds')
           /\ data' \in Frames \cup {NoFrame}
           /\ remsize' \in 0 .. FrameLen
           /\ begin' \in BOOLEAN
           /\ sent' \in BOOLEAN
<1>1. TableOK(fds')
  <2>1. Sfd \in Fds /\ {RAOP_FD_READ, RAOP_FD_WRITE} \in FdFlags
        /\ "fd_event_callback" \in Callbacks
    BY DEF Fds, FdFlags, Callbacks
  <2>. QED
    BY <2>1, SetOK DEF raopcl_send_sample
<1>2. data' \in Frames
  BY DEF raopcl_send_sample, Frames
<1>3. remsize' \in 0 .. FrameLen
  BY DEF raopcl_send_sample
<1>4. begin' \in BOOLEAN
  BY DEF raopcl_send_sample
<1>5. sent' \in BOOLEAN
  BY DEF raopcl_send_sample
<1>. QED
  BY <1>1, <1>2, <1>3, <1>4, <1>5
-----------------------------------------------------------------------------
(***************************************************************************)
(* The step rules.  The invariant's table part is TableOK(fds), its other  *)
(* part the remaining conjuncts of TypeOK and the play guard.              *)
(***************************************************************************)
\* The conjuncts of TypeOK other than the table.
RestOK ==
    /\ pc \in {"top", "play", "select", "sweep", "tail", "exit"}
    /\ pos \in Positions
    /\ rdset \in SUBSET Fds /\ wrset \in SUBSET Fds
    /\ ret \in {"top", "drain"}
    /\ rval \in {0, -1}
    /\ pause \in PauseStates
    /\ auds \in Dfds \cup {NoAuds}
    /\ openDfds \in SUBSET Dfds
    /\ revents \in Revents
    /\ remsize \in 0 .. FrameLen
    /\ data \in Frames \cup {NoFrame}
    /\ begin \in BOOLEAN
    /\ wait_songdone \in BOOLEAN
    /\ sent \in BOOLEAN
    /\ failcmd \in Commands \cup {"none"}
    /\ signalled \in BOOLEAN

\* The loop goes on at a position of the sweep, or at its tail.
LEMMA GoFromType ==
    ASSUME NEW tbl, NEW r, NEW w, NEW p \in Nat \ {0}, GoFrom(tbl, r, w, p)
    PROVE  pc' \in {"sweep", "tail"} /\ pos' \in Positions
BY DEF GoFrom, Positions

LEMMA InitInv == Init => IInv
<1> SUFFICES ASSUME Init PROVE IInv
  OBVIOUS
<1>1. TableOK(fds)
  <2>1. [fd |-> Stdin, cbf |-> "console_read", flags |-> {RAOP_FD_READ}] \in Entries
    BY DEF Entries, Fds, Callbacks, FdFlags
  <2>2. EmptyEntry \in Entries
    BY DEF EmptyEntry, Entries, Callbacks, FdFlags
  <2>3. fds \in [Slots -> Entries]
    BY <2>1, <2>2 DEF Init
  <2>4. FdTableUnique(fds)
    BY DEF Init, FdTableUnique, EmptyEntry, Stdin
  <2>. QED
    BY <2>3, <2>4 DEF TableOK
<1>2. RestOK
  <2>1. pos \in Positions
    BY DEF Init, Positions
  <2>2. openDfds \in SUBSET Dfds
    BY DEF Init
  <2>3. rval \in {0, -1} /\ remsize \in 0 .. FrameLen
    BY DEF Init
  <2>. QED
    BY <2>1, <2>2, <2>3 DEF Init, RestOK, PauseStates
<1>. QED
  BY <1>1, <1>2 DEF Init, IInv, TypeOK, TableUnique, TableOK, RestOK

LEMMA LoopTopInv == IInv /\ LoopTop => IInv'
<1> SUFFICES ASSUME IInv, LoopTop PROVE IInv'
  OBVIOUS
<1>0. TableOK(fds) /\ RestOK
  BY DEF IInv, TypeOK, TableUnique, TableOK, RestOK
<1>1. TableOK(fds')
  <2>1. CASE fds' = fds
    BY <2>1, <1>0
  <2>2. CASE fds' # fds
    <3>1. auds \in Dfds
      BY <2>2, <1>0 DEF LoopTop, RestOK
    <3>2. TableOK(PollFds(fds, auds, revents))
      BY <3>1, <1>0, PollFdsOK
    <3>3. TableOK(SetPauseFds(PollFds(fds, auds, revents), "NO_PAUSE"))
      BY <3>2, SetPauseFdsOK
    <3>. QED
      BY <2>2, <3>2, <3>3 DEF LoopTop
  <2>. QED
    BY <2>1, <2>2
<1>2. UNCHANGED <<pos, rdset, wrset, rval, sendVars, srcVars, wait_songdone, failcmd, signalled>>
  BY DEF LoopTop
<1>3. /\ pc' \in {"select", "play"}
      /\ pause' \in PauseStates
      /\ ret' \in {"top", "drain"}
  BY <1>0 DEF LoopTop, CallEventHandler, RestOK, PauseStates
<1>4. pc' = "play" => auds \in Dfds
  BY <1>0 DEF LoopTop, RestOK, CallEventHandler
<1>. QED
  BY <1>0, <1>1, <1>2, <1>3, <1>4 DEF IInv, TypeOK, TableUnique, TableOK, RestOK, sendVars, srcVars

\* The interest sets select() gets hold only the program's descriptors.
LEMMA InterestType ==
    ASSUME NEW tbl \in [Slots -> Entries]
    PROVE  ReadInterest(tbl) \subseteq Fds /\ WriteInterest(tbl) \subseteq Fds
BY DEF ReadInterest, WriteInterest, Entries

LEMMA PlayInv == IInv /\ Play => IInv'
<1> SUFFICES ASSUME IInv, Play PROVE IInv'
  OBVIOUS
<1>0. TableOK(fds) /\ RestOK /\ auds \in Dfds
  BY DEF IInv, TypeOK, TableUnique, TableOK, RestOK, Play
<1>1. TableOK(PollFds(fds, auds, revents))
  BY <1>0, PollFdsOK
<1>2. UNCHANGED <<pos, rdset, wrset, rval, failcmd, signalled>>
  BY DEF Play
<1>3. CASE ~Readable
  <2>1. TableOK(fds')
    BY <1>1, <1>3, SetPauseFdsOK DEF Play
  <2>2. /\ pc' = "top" /\ pause' = "NODATA_PAUSE"
        /\ UNCHANGED <<sendVars, srcVars, wait_songdone, ret>>
    BY <1>3 DEF Play
  <2>. QED
    BY <1>0, <1>2, <2>1, <2>2 DEF IInv, TypeOK, TableUnique, TableOK, RestOK, sendVars, srcVars, PauseStates
<1>4. CASE Readable
  <2>1. raopcl_send_sample(PollFds(fds, auds, revents), auds)
    BY <1>4 DEF Play
  <2>2. /\ TableOK(fds')
        /\ data' \in Frames \cup {NoFrame}
        /\ remsize' \in 0 .. FrameLen
        /\ begin' \in BOOLEAN
        /\ sent' \in BOOLEAN
    BY <1>0, <1>1, <2>1, SendSampleOK DEF RestOK
  <2>3. /\ auds' \in Dfds \cup {NoAuds}
        /\ openDfds' \in SUBSET Dfds
        /\ revents' \in Revents
        /\ wait_songdone' \in BOOLEAN
    BY <1>0, <1>4 DEF Play, RestOK, auds_close, pcm_close
  <2>4. pc' \in {"select", "top"} /\ ret' = "drain" /\ pause' = pause
    BY <1>4 DEF Play
  <2>. QED
    BY <1>0, <1>2, <2>2, <2>3, <2>4 DEF IInv, TypeOK, TableUnique, TableOK, RestOK
<1>. QED
  BY <1>3, <1>4

LEMMA SelectInv == IInv /\ Select => IInv'
<1> SUFFICES ASSUME IInv, Select PROVE IInv'
  OBVIOUS
<1>0. TableOK(fds) /\ RestOK
  BY DEF IInv, TypeOK, TableUnique, TableOK, RestOK
<1>1. rdset' \subseteq Fds /\ wrset' \subseteq Fds
  BY <1>0, InterestType DEF Select, TableOK
<1>2. pc' \in {"sweep", "tail"} /\ pos' \in Positions
  BY GoFromType DEF Select
<1>3. UNCHANGED <<fds, ret, rval, pause, sendVars, srcVars, wait_songdone, failcmd, signalled>>
  BY DEF Select
<1>. QED
  BY <1>0, <1>1, <1>2, <1>3 DEF IInv, TypeOK, TableUnique, TableOK, RestOK, sendVars, srcVars

\* After a callback the sweep goes on or main_event_handler returns -1.
LEMMA CallbackEndType ==
    ASSUME RestOK, Continue \/ HandlerFails
    PROVE  /\ pc' \in {"sweep", "tail", "top"} /\ pos' \in Positions
           /\ rdset' \in SUBSET Fds /\ wrset' \in SUBSET Fds
           /\ rval' \in {0, -1}
<1>1. CASE Continue
  <2>1. pos + 1 \in Nat \ {0}
    BY DEF RestOK, Positions
  <2>2. pc' \in {"sweep", "tail"} /\ pos' \in Positions
    BY <1>1, <2>1, GoFromType DEF Continue
  <2>. QED
    BY <1>1, <2>2 DEF Continue, RestOK
<1>2. CASE HandlerFails
  BY <1>2 DEF HandlerFails, Positions
<1>. QED
  BY <1>1, <1>2

LEMMA ConsoleReadInv == IInv /\ ConsoleRead => IInv'
<1> SUFFICES ASSUME IInv, ConsoleRead PROVE IInv'
  OBVIOUS
<1>0. TableOK(fds) /\ RestOK
  BY DEF IInv, TypeOK, TableUnique, TableOK, RestOK
<1>1. PICK eof \in BOOLEAN, cmd \in Commands :
        /\ console_command(IF eof THEN clear_fd_event(fds, Stdin) ELSE fds, cmd)
        /\ failcmd' = IF rval' = -1 THEN cmd ELSE failcmd
  BY DEF ConsoleRead
<1> DEFINE T == IF eof THEN clear_fd_event(fds, Stdin) ELSE fds
<1>2. TableOK(T)
  BY <1>0, ClearOK
<1>3. TableOK(fds')
  <2>1. fds' \in {T, SetPauseFds(T, "NO_PAUSE"), SetPauseFds(T, "OP_PAUSE")}
    BY <1>1 DEF console_command
  <2>. QED
    BY <1>2, <2>1, SetPauseFdsOK
<1>4. Continue \/ HandlerFails
  BY <1>1 DEF console_command
<1>5. /\ pc' \in {"sweep", "tail", "top"} /\ pos' \in Positions
      /\ rdset' \in SUBSET Fds /\ wrset' \in SUBSET Fds
      /\ rval' \in {0, -1}
  BY <1>0, <1>4, CallbackEndType
<1>6. /\ pause' \in PauseStates
      /\ auds' \in Dfds \cup {NoAuds}
      /\ openDfds' \in SUBSET Dfds
      /\ revents' \in Revents
  <2>1. pause' \in PauseStates
    BY <1>0, <1>1 DEF console_command, RestOK, PauseStates
  <2>2. auds' \in Dfds \cup {NoAuds}
    BY <1>0, <1>1 DEF console_command, RestOK, srcVars, auds_open, pcm_open
  <2>3. openDfds' \in SUBSET Dfds
    BY <1>0, <1>1 DEF console_command, RestOK, srcVars, auds_open, pcm_open, auds_close, pcm_close
  <2>4. revents' \in Revents
    BY <1>0, <1>1 DEF console_command, RestOK, srcVars
  <2>. QED
    BY <2>1, <2>2, <2>3, <2>4
<1>7. failcmd' \in Commands \cup {"none"}
  BY <1>0, <1>1 DEF RestOK
<1>8. UNCHANGED <<ret, sendVars, wait_songdone, signalled>>
  BY DEF ConsoleRead
<1>. QED
  BY <1>0, <1>3, <1>5, <1>6, <1>7, <1>8 DEF IInv, TypeOK, TableUnique, TableOK, RestOK, sendVars

LEMMA AexReadInv == IInv /\ AexRead => IInv'
<1> SUFFICES ASSUME IInv, AexRead PROVE IInv'
  OBVIOUS
<1>0. TableOK(fds) /\ RestOK
  BY DEF IInv, TypeOK, TableUnique, TableOK, RestOK
<1>1. /\ pc' \in {"sweep", "tail", "top"} /\ pos' \in Positions
      /\ rdset' \in SUBSET Fds /\ wrset' \in SUBSET Fds
      /\ rval' \in {0, -1}
  BY <1>0, CallbackEndType DEF AexRead
<1>2. UNCHANGED <<fds, ret, pause, sendVars, srcVars, wait_songdone, failcmd, signalled>>
  BY DEF AexRead
<1>. QED
  BY <1>0, <1>1, <1>2 DEF IInv, TypeOK, TableUnique, TableOK, RestOK, sendVars, srcVars

LEMMA AexWriteInv == IInv /\ AexWrite => IInv'
<1> SUFFICES ASSUME IInv, AexWrite PROVE IInv'
  OBVIOUS
<1>0. TableOK(fds) /\ RestOK
  BY DEF IInv, TypeOK, TableUnique, TableOK, RestOK
<1>1. TableOK(fds')
  <2>1. TableOK(set_fd_event(fds, Sfd, {RAOP_FD_READ}, "fd_event_callback"))
    <3>1. Sfd \in Fds /\ {RAOP_FD_READ} \in FdFlags /\ "fd_event_callback" \in Callbacks
      BY DEF Fds, FdFlags, Callbacks
    <3>. QED
      BY <1>0, <3>1, SetOK
  <2>. QED
    BY <1>0, <2>1 DEF AexWrite
<1>2. remsize' \in 0 .. FrameLen
  BY <1>0 DEF AexWrite, RestOK
<1>3. /\ pc' \in {"sweep", "tail", "top"} /\ pos' \in Positions
      /\ rdset' \in SUBSET Fds /\ wrset' \in SUBSET Fds
      /\ rval' \in {0, -1}
  <2>1. Continue \/ HandlerFails
    BY DEF AexWrite
  <2>. QED
    BY <1>0, <2>1, CallbackEndType
<1>4. UNCHANGED <<ret, pause, data, begin, sent, srcVars, wait_songdone, failcmd, signalled>>
  BY DEF AexWrite, HandlerFails
<1>. QED
  BY <1>0, <1>1, <1>2, <1>3, <1>4 DEF IInv, TypeOK, TableUnique, TableOK, RestOK, srcVars

LEMMA TerminateInv == IInv /\ Terminate => IInv'
<1> SUFFICES ASSUME IInv, Terminate PROVE IInv'
  OBVIOUS
<1>0. TableOK(fds) /\ RestOK
  BY DEF IInv, TypeOK, TableUnique, TableOK, RestOK
<1>1. /\ pc' \in {"sweep", "tail", "top"} /\ pos' \in Positions
      /\ rdset' \in SUBSET Fds /\ wrset' \in SUBSET Fds
      /\ rval' \in {0, -1}
  BY <1>0, CallbackEndType DEF Terminate
<1>2. UNCHANGED <<fds, ret, pause, sendVars, srcVars, wait_songdone, failcmd, signalled>>
  BY DEF Terminate, HandlerFails
<1>. QED
  BY <1>0, <1>1, <1>2 DEF IInv, TypeOK, TableUnique, TableOK, RestOK, sendVars, srcVars

LEMMA EventHandlerTailInv == IInv /\ EventHandlerTail => IInv'
<1> SUFFICES ASSUME IInv, EventHandlerTail PROVE IInv'
  OBVIOUS
<1>0. TableOK(fds) /\ RestOK
  BY DEF IInv, TypeOK, TableUnique, TableOK, RestOK
<1>1. /\ TableOK(fds')
      /\ data' \in Frames \cup {NoFrame}
      /\ remsize' \in 0 .. FrameLen
      /\ begin' \in BOOLEAN
      /\ sent' \in BOOLEAN
  <2>1. CASE pause = "NODATA_PAUSE" /\ raopcl_send_sample(fds, "silence")
    BY <1>0, <2>1, SendSampleOK DEF RestOK
  <2>2. CASE fds' = fds /\ UNCHANGED sendVars
    BY <1>0, <2>2 DEF RestOK, sendVars
  <2>. QED
    BY <2>1, <2>2 DEF EventHandlerTail, raopcl_pause_check
<1>2. /\ pc' \in {"select", "top"} /\ rdset' = {} /\ wrset' = {}
      /\ wait_songdone' \in BOOLEAN
  BY <1>0 DEF EventHandlerTail, RestOK
<1>3. UNCHANGED <<pos, ret, rval, pause, srcVars, failcmd, signalled>>
  BY DEF EventHandlerTail
<1>. QED
  BY <1>0, <1>1, <1>2, <1>3 DEF IInv, TypeOK, TableUnique, TableOK, RestOK, srcVars

\* The two ways out of the loop close the source the same way.
LEMMA ExitInv == IInv /\ (LoopExit \/ Deactivated) => IInv'
<1> SUFFICES ASSUME IInv, LoopExit \/ Deactivated PROVE IInv'
  OBVIOUS
<1>0. TableOK(fds) /\ RestOK
  BY DEF IInv, TypeOK, TableUnique, TableOK, RestOK
<1>1. /\ pc' = "exit" /\ auds' = NoAuds /\ openDfds' = auds_close(openDfds, auds)
      /\ UNCHANGED <<fds, pos, rdset, wrset, ret, rval, pause, sendVars, revents, wait_songdone, failcmd, signalled>>
  BY DEF LoopExit, Deactivated
<1>2. openDfds' \in SUBSET Dfds
  BY <1>0, <1>1 DEF RestOK, auds_close, pcm_close
<1>. QED
  BY <1>0, <1>1, <1>2 DEF IInv, TypeOK, TableUnique, TableOK, RestOK, sendVars

LEMMA SigActionInv == IInv /\ SigAction => IInv'
<1> SUFFICES ASSUME IInv, SigAction PROVE IInv'
  OBVIOUS
<1>0. TableOK(fds) /\ RestOK
  BY DEF IInv, TypeOK, TableUnique, TableOK, RestOK
<1>1. TableOK(fds')
  <2>1. Stdout \in Fds /\ {RAOP_FD_WRITE} \in FdFlags /\ "terminate_cbf" \in Callbacks
    BY DEF Fds, FdFlags, Callbacks
  <2>. QED
    BY <1>0, <2>1, SetOK DEF SigAction
<1>2. UNCHANGED <<loopVars, pause, sendVars, srcVars, wait_songdone, failcmd>> /\ signalled' = TRUE
  BY DEF SigAction
<1>. QED
  BY <1>0, <1>1, <1>2 DEF IInv, TypeOK, TableUnique, TableOK, RestOK, loopVars, sendVars, srcVars

LEMMA DataArrivesInv == IInv /\ DataArrives => IInv'
<1> SUFFICES ASSUME IInv, DataArrives PROVE IInv'
  OBVIOUS
<1>0. TableOK(fds) /\ RestOK
  BY DEF IInv, TypeOK, TableUnique, TableOK, RestOK
<1>1. revents' \in Revents
  BY DEF DataArrives, Revents
<1>2. UNCHANGED <<fds, loopVars, pause, sendVars, auds, openDfds, wait_songdone, failcmd, signalled>>
  BY DEF DataArrives
<1>. QED
  BY <1>0, <1>1, <1>2 DEF IInv, TypeOK, TableUnique, TableOK, RestOK, loopVars, sendVars

\* Every step of the program and of its environment keeps IInv.
LEMMA NextInv == IInv /\ [Next]_vars => IInv'
<1> SUFFICES ASSUME IInv, [Next]_vars PROVE IInv'
  OBVIOUS
<1>1. CASE LoopTop      BY <1>1, LoopTopInv
<1>2. CASE Play         BY <1>2, PlayInv
<1>3. CASE Select       BY <1>3, SelectInv
<1>4. CASE ConsoleRead  BY <1>4, ConsoleReadInv
<1>5. CASE AexRead      BY <1>5, AexReadInv
<1>6. CASE AexWrite     BY <1>6, AexWriteInv
<1>7. CASE Terminate    BY <1>7, TerminateInv
<1>8. CASE EventHandlerTail         BY <1>8, EventHandlerTailInv
<1>9. CASE LoopExit \/ Deactivated BY <1>9, ExitInv
<1>10. CASE SigAction   BY <1>10, SigActionInv
<1>11. CASE DataArrives BY <1>11, DataArrivesInv
<1>12. CASE UNCHANGED vars \/ Done
  <2>1. UNCHANGED <<fds, loopVars, pause, sendVars, srcVars, wait_songdone, failcmd, signalled>>
    BY <1>12 DEF Done, vars
  <2>2. TableOK(fds) /\ RestOK /\ (pc = "play" => auds \in Dfds)
    BY DEF IInv, TypeOK, TableUnique, TableOK, RestOK
  <2>. QED
    BY <2>1, <2>2 DEF IInv, TypeOK, TableUnique, TableOK, RestOK, loopVars, sendVars, srcVars
<1>. QED
  BY <1>1, <1>2, <1>3, <1>4, <1>5, <1>6, <1>7, <1>8, <1>9, <1>10, <1>11, <1>12
     DEF Next, MainStep

(***************************************************************************)
(* Type correctness of the main loop of raop_play.c, for every table size, *)
(* set of sources and frame length: whatever the console, the receiver,    *)
(* the signal handler and the sources do, every variable keeps its type    *)
(* and the descriptor table holds entries of known descriptors, flags and  *)
(* callbacks.                                                              *)
(***************************************************************************)
THEOREM TypeCorrect == Spec => []TypeOK
<1>1. IInv => TypeOK
  BY DEF IInv
<1>. QED
  BY <1>1, InitInv, NextInv, PTL DEF Spec

(***************************************************************************)
(* For every table size, no sequence of set_fd_event and clear_fd_event    *)
(* calls by the console callback, fd_event_callback, raopcl_send_sample,   *)
(* raopcl_set_pause, pcm_poll_next_sample and sig_action puts one          *)
(* descriptor in two entries of raopld->fds.                               *)
(***************************************************************************)
THEOREM TableUniqueInvariant == Spec => []TableUnique
<1>1. IInv => TableUnique
  BY DEF IInv
<1>. QED
  BY <1>1, InitInv, NextInv, PTL DEF Spec
=============================================================================
