-------------------------------- MODULE FdMap --------------------------------
(***************************************************************************)
(* What the descriptor registry of raop_play.c promises (spec 4.4 and 9):  *)
(* a mapping from descriptors to their interest flags and callback, of at  *)
(* most Capacity descriptors.  Registering a descriptor that is already    *)
(* mapped replaces its flags and callback; registering a new one adds it   *)
(* when there is room and is refused otherwise; unregistering removes it,  *)
(* and is a no-op for a descriptor that is not mapped.                     *)
(***************************************************************************)
EXTENDS Integers, FiniteSets

CONSTANTS
    Capacity,   \* the most descriptors the registry holds
    Fds,        \* the descriptors that can be registered
    Flags,      \* the interest flag sets
    Cbfs        \* the callbacks

VARIABLES
    reg,    \* a function from the registered descriptors to entries
    res     \* the last call: its operation, its descriptor and its result

MapEntries == [cbf : Cbfs, flags : Flags]

\* A call's record: ret is 0, or -1 when it was refused.
Call(op, fd, ok) == [op |-> op, fd |-> fd, ret |-> IF ok THEN 0 ELSE -1]
Calls == {<<>>} \cup [op : {"set", "clear"}, fd : Fds, ret : {0, -1}]

TypeOK ==
    /\ DOMAIN reg \subseteq Fds
    /\ res \in Calls
    /\ \A fd \in DOMAIN reg : reg[fd] \in MapEntries

Init ==
    /\ reg = [fd \in {} |-> [cbf |-> {}, flags |-> {}]]
    /\ res = <<>>

\* register(fd, flags, callback): upsert, or refuse when full.
Register(fd, flags, cbf) ==
    LET e  == [cbf |-> cbf, flags |-> flags]
        ok == fd \in DOMAIN reg \/ Cardinality(DOMAIN reg) < Capacity
    IN  /\ reg' = IF ok THEN [x \in DOMAIN reg \cup {fd} |-> IF x = fd THEN e ELSE reg[x]]
                       ELSE reg
        /\ res' = Call("set", fd, ok)

\* unregister(fd): remove the mapping of fd; -1 when there is none.
Unregister(fd) ==
    /\ reg' = [x \in DOMAIN reg \ {fd} |-> reg[x]]
    /\ res' = Call("clear", fd, fd \in DOMAIN reg)

Next ==
    \E fd \in Fds :
        \/ \E flags \in Flags, cbf \in Cbfs : Register(fd, flags, cbf)
        \/ Unregister(fd)

Spec == Init /\ [][Next]_<<reg, res>>
=============================================================================
