------------------------------- MODULE FdTable -------------------------------
(***************************************************************************)
(* The descriptor table of raop_play.c under every sequence of             *)
(* set_fd_event and clear_fd_event calls that its callers (main,           *)
(* console_read, raopcl_send_sample, raopcl_set_pause, fd_event_callback,  *)
(* pcm_poll_next_sample, sig_action) can make, one at a time as the single *)
(* main thread makes them.  The array of MAX_NUM_OF_FDS entries, scanned   *)
(* from the first, implements the bounded mapping of FdMap: the mapping of *)
(* a descriptor is its (first) entry.                                      *)
(***************************************************************************)
EXTENDS FdEvents, Integers

CONSTANT Fds    \* the descriptors the program registers (never -1)

ASSUME FdsAssumption == NoFd \notin Fds

VARIABLES
    tbl,    \* raopld->fds
    res     \* the last call and what it returned

\* A call's record: ret is 0, or -1 when it was refused.
Call(op, fd, ok) == [op |-> op, fd |-> fd, ret |-> IF ok THEN 0 ELSE -1]
Calls == {<<>>} \cup [op : {"set", "clear"}, fd : Fds, ret : {0, -1}]

TableEntries == [fd : Fds \cup {NoFd}, cbf : Callbacks, flags : FdFlags]

TypeOK == tbl \in [Slots -> TableEntries] /\ res \in Calls

\* main(): raopld is zeroed and every entry's fd set to -1.
Init == tbl = [i \in Slots |-> EmptyEntry] /\ res = <<>>

\* A call set_fd_event(fd, flags, cbf, p).
SetFdEvent(fd, flags, cbf) ==
    /\ tbl' = set_fd_event(tbl, fd, flags, cbf)
    /\ res' = Call("set", fd, SetFdEventOk(tbl, fd))

\* A call clear_fd_event(fd).
ClearFdEvent(fd) ==
    /\ tbl' = clear_fd_event(tbl, fd)
    /\ res' = Call("clear", fd, SlotsOf(tbl, fd) # {})

Next ==
    \E fd \in Fds :
        \/ \E flags \in FdFlags, cbf \in Callbacks : SetFdEvent(fd, flags, cbf)
        \/ ClearFdEvent(fd)

Spec == Init /\ [][Next]_<<tbl, res>>

\* The refinement mapping: each registered descriptor maps to the flags
\* and callback of the first entry that holds it.
EntryOf(fd) == tbl[Least(SlotsOf(tbl, fd))]
reg_bar == [fd \in Registered(tbl) |-> [cbf |-> EntryOf(fd).cbf, flags |-> EntryOf(fd).flags]]

Abstract == INSTANCE FdMap WITH
    reg <- reg_bar, Capacity <- MAX_NUM_OF_FDS, Flags <- FdFlags, Cbfs <- Callbacks

\* The table behaves as the bounded mapping of spec 4.4: set_fd_event is an
\* upsert that fails only when MAX_NUM_OF_FDS other descriptors are
\* registered, and clear_fd_event removes exactly the mapping of its fd.
FdMapRefined == Abstract!Spec
=============================================================================
