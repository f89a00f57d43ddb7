------------------------------ MODULE FdEvents ------------------------------
(***************************************************************************)
(* The descriptor registry of raop_play.c: raopld->fds, a fixed array of   *)
(* MAX_NUM_OF_FDS entries {fd, dp, cbf, flags}, filled by set_fd_event and *)
(* emptied by clear_fd_event.  An empty entry has fd = -1 (NoFd here).     *)
(* The opaque context dp is left out: every callback of the program gets   *)
(* the one session it was registered with.                                 *)
(***************************************************************************)
EXTENDS Naturals

CONSTANTS
    MAX_NUM_OF_FDS,   \* capacity of the table (4 in raop_play.c)
    NoFd              \* the value -1 of an empty entry's fd

ASSUME FdTableAssumption == MAX_NUM_OF_FDS \in Nat \ {0}

Slots == 1 .. MAX_NUM_OF_FDS

\* RAOP_FD_READ and RAOP_FD_WRITE of raop_play.h; flags are a set of them.
RAOP_FD_READ  == "READ"
RAOP_FD_WRITE == "WRITE"
FdFlags == SUBSET {RAOP_FD_READ, RAOP_FD_WRITE}

\* The callbacks the program registers; "NULL" is the cbf = NULL that
\* pcm_poll_next_sample registers and clear_fd_event leaves behind.
Callbacks == {"console_read", "fd_event_callback", "terminate_cbf", "NULL"}

EmptyEntry == [fd |-> NoFd, cbf |-> "NULL", flags |-> {}]

\* The least element of a nonempty set of indices: the C loops scan from i = 0.
Least(S) == CHOOSE i \in S : \A j \in S : i =< j

SlotsOf(tbl, fd) == {i \in Slots : tbl[i].fd = fd}

\* set_fd_event(fd, flags, cbf, p): update the entry of fd if there is one,
\* else fill the first empty entry, else leave the table as it is (return -1).
SetFdEventOk(tbl, fd) == SlotsOf(tbl, fd) # {} \/ SlotsOf(tbl, NoFd) # {}

\* A variant with a plausible bug: the scan for an existing entry of fd is
\* left out, so every call takes a fresh empty entry.
set_fd_event_noscan(tbl, fd, flags, cbf) ==
    IF SlotsOf(tbl, NoFd) # {}
      THEN [tbl EXCEPT ![Least(SlotsOf(tbl, NoFd))] = [fd |-> fd, cbf |-> cbf, flags |-> flags]]
      ELSE tbl

set_fd_event(tbl, fd, flags, cbf) ==
    LET new == [fd |-> fd, cbf |-> cbf, flags |-> flags]
    IN  IF SlotsOf(tbl, fd) # {}
          THEN [tbl EXCEPT ![Least(SlotsOf(tbl, fd))] = new]
        ELSE IF SlotsOf(tbl, NoFd) # {}
          THEN [tbl EXCEPT ![Least(SlotsOf(tbl, NoFd))] = new]
        ELSE tbl

\* clear_fd_event(fd): empty the first entry of fd; no-op if there is none.
clear_fd_event(tbl, fd) ==
    IF SlotsOf(tbl, fd) # {}
      THEN [tbl EXCEPT ![Least(SlotsOf(tbl, fd))] = EmptyEntry]
      ELSE tbl

\* The descriptors the table holds, and the interest sets main_event_handler
\* builds from it before select().
Registered(tbl) == {tbl[i].fd : i \in Slots} \ {NoFd}
ReadInterest(tbl)  == {tbl[i].fd : i \in {j \in Slots : tbl[j].fd # NoFd /\ RAOP_FD_READ \in tbl[j].flags}}
WriteInterest(tbl) == {tbl[i].fd : i \in {j \in Slots : tbl[j].fd # NoFd /\ RAOP_FD_WRITE \in tbl[j].flags}}

\* The flags an fd is registered with ({} when it is not registered).
FlagsOf(tbl, fd) == IF SlotsOf(tbl, fd) # {} THEN tbl[Least(SlotsOf(tbl, fd))].flags ELSE {}

(***************************************************************************)
(* A descriptor occupies at most one entry.  set_fd_event relies on it: it *)
(* updates only the first entry of fd, and clear_fd_event empties only the *)
(* first, so a second entry would keep firing after it was cleared.        *)
(***************************************************************************)
FdTableUnique(tbl) ==
    \A i, j \in Slots : tbl[i].fd = tbl[j].fd /\ tbl[i].fd # NoFd => i = j
=============================================================================
