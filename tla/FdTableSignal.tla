---------------------------- MODULE FdTableSignal ----------------------------
(***************************************************************************)
(* The descriptor table of raop_play.c with the SIGINT/SIGTERM handler     *)
(* sig_action, which calls set_fd_event(1, RAOP_FD_WRITE, terminate_cbf)   *)
(* on the main thread's stack at any point of the main thread, including   *)
(* the middle of its own set_fd_event or clear_fd_event.                   *)
(*                                                                         *)
(* The main thread's calls are split where the handler can tell: the      *)
(* handler's scans read only the fd field of the entries, and it writes    *)
(* only an entry whose fd is -1 or 1.  So set_fd_event is its two scans    *)
(* (one step: the handler only adds fd 1, which neither scan of another    *)
(* descriptor can match) and then the store into the empty entry it found; *)
(* clear_fd_event is its scan with the store of fd = -1, and then the      *)
(* stores of dp, cbf and flags.  The stores are in program order.          *)
(***************************************************************************)
EXTENDS FdEvents

CONSTANTS
    Fds,     \* the descriptors the main thread registers (stdin, sfd, dfd)
    SigFd    \* descriptor 1, which only sig_action registers; not in Fds

VARIABLES
    tbl,     \* raopld->fds
    mpc,     \* where the main thread is: "idle", "fill" or "clear_rest"
    mslot,   \* the entry index i the main thread's call has found
    marg,    \* the entry {fd, cbf, flags} set_fd_event is storing
    sigOk    \* a call of sig_action's set_fd_event has returned 0

vars == <<tbl, mpc, mslot, marg, sigOk>>

SigEntries == [fd : Fds \cup {SigFd, NoFd}, cbf : Callbacks, flags : FdFlags]

TypeOK ==
    /\ tbl \in [Slots -> SigEntries]
    /\ mpc \in {"idle", "fill", "clear_rest"}
    /\ mslot \in Slots
    /\ marg \in SigEntries
    /\ sigOk \in BOOLEAN

Init ==
    /\ tbl = [i \in Slots |-> EmptyEntry]
    /\ mpc = "idle"
    /\ mslot = 1
    /\ marg = EmptyEntry
    /\ sigOk = FALSE

\* set_fd_event(fd, flags, cbf) on the main thread: the first loop updates
\* the entry of fd and returns 0; the second finds the first entry with
\* fd < 0, and the stores into it come next; with none it returns -1.
SetCall(fd, flags, cbf) ==
    /\ mpc = "idle"
    /\ IF SlotsOf(tbl, fd) # {}
         THEN /\ tbl' = [tbl EXCEPT ![Least(SlotsOf(tbl, fd))].cbf = cbf,
                                    ![Least(SlotsOf(tbl, fd))].flags = flags]
              /\ UNCHANGED <<mpc, mslot, marg>>
       ELSE IF SlotsOf(tbl, NoFd) # {}
         THEN /\ mpc' = "fill"
              /\ mslot' = Least(SlotsOf(tbl, NoFd))
              /\ marg' = [fd |-> fd, cbf |-> cbf, flags |-> flags]
              /\ UNCHANGED tbl
       ELSE UNCHANGED <<tbl, mpc, mslot, marg>>
    /\ UNCHANGED sigOk

\* fds[i].fd = fd; dp, cbf, flags; return 0.  The entry was empty when
\* the scan read it.
Fill ==
    /\ mpc = "fill"
    /\ tbl' = [tbl EXCEPT ![mslot] = marg]
    /\ mpc' = "idle"
    /\ UNCHANGED <<mslot, marg, sigOk>>

\* clear_fd_event(fd): the scan for fd and fds[i].fd = -1 (-1 when fd has
\* no entry).
ClearCall(fd) ==
    /\ mpc = "idle"
    /\ IF SlotsOf(tbl, fd) # {}
         THEN /\ tbl' = [tbl EXCEPT ![Least(SlotsOf(tbl, fd))].fd = NoFd]
              /\ mpc' = "clear_rest"
              /\ mslot' = Least(SlotsOf(tbl, fd))
         ELSE UNCHANGED <<tbl, mpc, mslot>>
    /\ UNCHANGED <<marg, sigOk>>

\* fds[i].dp = NULL; fds[i].cbf = NULL; fds[i].flags = 0; return 0.
ClearRest ==
    /\ mpc = "clear_rest"
    /\ tbl' = [tbl EXCEPT ![mslot].cbf = "NULL", ![mslot].flags = {}]
    /\ mpc' = "idle"
    /\ UNCHANGED <<mslot, marg, sigOk>>

\* SIGINT or SIGTERM: sig_action runs set_fd_event to completion before the
\* main thread goes on.
SigAction ==
    /\ tbl' = set_fd_event(tbl, SigFd, {RAOP_FD_WRITE}, "terminate_cbf")
    /\ sigOk' = (sigOk \/ SetFdEventOk(tbl, SigFd))
    /\ UNCHANGED <<mpc, mslot, marg>>

Next ==
    \/ \E fd \in Fds, flags \in FdFlags, cbf \in Callbacks \ {"terminate_cbf"} :
         SetCall(fd, flags, cbf)
    \/ \E fd \in Fds : ClearCall(fd)
    \/ Fill \/ ClearRest \/ SigAction

Spec == Init /\ [][Next]_vars

\* Once sig_action's set_fd_event has returned 0, the table holds fd 1 for
\* write with terminate_cbf, so the next sweep of main_event_handler ends
\* the loop (nothing of the main thread clears fd 1).
SignalRegistrationKept ==
    sigOk => \E i \in Slots : /\ tbl[i].fd = SigFd
                              /\ tbl[i].cbf = "terminate_cbf"
                              /\ RAOP_FD_WRITE \in tbl[i].flags
=============================================================================
