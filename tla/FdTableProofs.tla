---------------------------- MODULE FdTableProofs ----------------------------
(***************************************************************************)
(* The descriptor table of raop_play.c implements the bounded mapping of   *)
(* FdMap, for every table size and every set of descriptors.  The array    *)
(* holds each descriptor in at most one entry (FdTableUnique), so the      *)
(* registered descriptors are as many as the full entries, and the table   *)
(* has an empty entry exactly when fewer than MAX_NUM_OF_FDS descriptors   *)
(* are registered: set_fd_event's "no empty entry" is FdMap's "full".      *)
(***************************************************************************)
EXTENDS FdTable, FdEventsProofs, FiniteSetTheorems, TLAPS

\* The inductive invariant: the table's type, and one entry per descriptor.
Inv == TypeOK /\ FdTableUnique(tbl)

(***************************************************************************)
(* The table is full for a new descriptor exactly when MAX_NUM_OF_FDS      *)
(* descriptors are registered: the full entries and the registered         *)
(* descriptors are in one-to-one correspondence, since no descriptor is in *)
(* two entries.                                                            *)
(***************************************************************************)
LEMMA RoomIffBelowCapacity ==
    ASSUME NEW t \in [Slots -> TableEntries], FdTableUnique(t)
    PROVE  /\ IsFiniteSet(Registered(t))
           /\ Cardinality(Registered(t)) < MAX_NUM_OF_FDS <=> SlotsOf(t, NoFd) # {}
<1> DEFINE U == {i \in Slots : t[i].fd # NoFd}
           f == [i \in U |-> t[i].fd]
<1> HIDE DEF U
<1>1. IsFiniteSet(Slots) /\ Cardinality(Slots) = MAX_NUM_OF_FDS
  BY FS_Interval, FdTableAssumption DEF Slots
<1>2. /\ IsFiniteSet(U)
      /\ Cardinality(U) <= MAX_NUM_OF_FDS
      /\ Cardinality(U) = MAX_NUM_OF_FDS => U = Slots
  BY <1>1, FS_Subset DEF U
<1>3. f \in Surjection(U, Registered(t))
  BY DEF Surjection, Registered, U
<1>4. f \in Injection(U, Registered(t))
  BY <1>3 DEF Surjection, Injection, IsInjective, FdTableUnique, U
<1>5. IsFiniteSet(Registered(t)) /\ Cardinality(Registered(t)) = Cardinality(U)
  BY <1>2, <1>3, <1>4, FS_Surjection
<1>6. Cardinality(U) \in Nat
  BY <1>2, FS_CardinalityType
<1>7. SlotsOf(t, NoFd) # {} <=> U # Slots
  BY DEF SlotsOf, U
<1>8. CASE U = Slots
  BY <1>1, <1>5, <1>7, <1>8, FdTableAssumption, SMTT(30)
<1>9. CASE U # Slots
  BY <1>2, <1>5, <1>6, <1>7, <1>9, FdTableAssumption, SMTT(30)
<1>. QED
  BY <1>8, <1>9
\* The mapping a table stands for: reg_bar, as an operator of the table.
RegOf(t) ==
    [fd \in Registered(t) |->
        [cbf |-> t[Least(SlotsOf(t, fd))].cbf, flags |-> t[Least(SlotsOf(t, fd))].flags]]

LEMMA RegBarIsRegOf == reg_bar = RegOf(tbl)
BY DEF reg_bar, EntryOf, RegOf

(***************************************************************************)
(* In a table without duplicates, the mapping of the descriptor of a full  *)
(* entry is that entry's flags and callback: the scan finds no other.      *)
(***************************************************************************)
LEMMA RegOfAt ==
    ASSUME NEW t, DOMAIN t = Slots, FdTableUnique(t),
           NEW j \in Slots, t[j].fd # NoFd
    PROVE  /\ t[j].fd \in DOMAIN RegOf(t)
           /\ RegOf(t)[t[j].fd] = [cbf |-> t[j].cbf, flags |-> t[j].flags]
<1>1. SlotsOf(t, t[j].fd) = {j}
  BY DEF SlotsOf, FdTableUnique
<1>2. Least(SlotsOf(t, t[j].fd)) = j
  BY <1>1, LeastOfSingleton DEF Slots
<1>3. t[j].fd \in Registered(t)
  BY DEF Registered
<1>. QED
  BY <1>2, <1>3 DEF RegOf

\* A real descriptor is registered exactly when the table has an entry for it.
LEMMA RegisteredIffSlot ==
    ASSUME NEW t, NEW fd, fd # NoFd
    PROVE  fd \in DOMAIN RegOf(t) <=> SlotsOf(t, fd) # {}
BY DEF RegOf, Registered, SlotsOf
(***************************************************************************)
(* A set_fd_event that does not fail is FdMap's upsert: it writes one      *)
(* entry, either the one fd already has or an empty one, and the mapping   *)
(* of every other descriptor keeps its entry.                              *)
(***************************************************************************)
LEMMA SetFdEventReg ==
    ASSUME NEW t \in [Slots -> TableEntries], FdTableUnique(t),
           NEW fd \in Fds, NEW flags \in FdFlags, NEW cbf \in Callbacks,
           SetFdEventOk(t, fd)
    PROVE  RegOf(set_fd_event(t, fd, flags, cbf)) =
             [x \in DOMAIN RegOf(t) \cup {fd} |->
                IF x = fd THEN [cbf |-> cbf, flags |-> flags] ELSE RegOf(t)[x]]
<1> DEFINE new == [fd |-> fd, cbf |-> cbf, flags |-> flags]
           t2 == set_fd_event(t, fd, flags, cbf)
<1>1. fd # NoFd
  BY FdsAssumption
<1>2. PICK k \in Slots : t2 = [t EXCEPT ![k] = new] /\ t[k].fd \in {fd, NoFd}
  <2>1. CASE SlotsOf(t, fd) # {}
    <3>1. Least(SlotsOf(t, fd)) \in SlotsOf(t, fd)
      BY <2>1, LeastIn DEF SlotsOf, Slots
    <3>. QED
      BY <2>1, <3>1 DEF set_fd_event, SlotsOf
  <2>2. CASE SlotsOf(t, fd) = {}
    <3>1. SlotsOf(t, NoFd) # {}
      BY <2>2 DEF SetFdEventOk
    <3>2. Least(SlotsOf(t, NoFd)) \in SlotsOf(t, NoFd)
      <4>1. SlotsOf(t, NoFd) \in SUBSET Nat
        BY DEF SlotsOf, Slots
      <4>. QED
        BY <3>1, <4>1, LeastIn
    <3>. QED
      BY <2>2, <3>1, <3>2 DEF set_fd_event, SlotsOf
  <2>. QED
    BY <2>1, <2>2
<1>3. DOMAIN t2 = Slots /\ FdTableUnique(t2)
  BY <1>1, <1>2, SetFdEventUnique
<1>4. Registered(t2) = Registered(t) \cup {fd}
  BY <1>1, <1>2 DEF Registered
<1>5. ASSUME NEW x \in Registered(t2)
      PROVE  RegOf(t2)[x] = IF x = fd THEN [cbf |-> cbf, flags |-> flags] ELSE RegOf(t)[x]
  <2>1. PICK j \in Slots : t2[j].fd = x /\ x # NoFd
    BY DEF Registered
  <2>2. RegOf(t2)[x] = [cbf |-> t2[j].cbf, flags |-> t2[j].flags]
    BY <1>3, <2>1, RegOfAt
  <2>3. CASE j = k
    BY <1>2, <2>1, <2>2, <2>3
  <2>4. CASE j # k
    <3>1. t2[j] = t[j] /\ t2[k].fd = fd
      BY <1>2, <2>4
    <3>2. x # fd
      BY <1>3, <2>1, <2>4, <3>1 DEF FdTableUnique
    <3>3. RegOf(t)[x] = [cbf |-> t[j].cbf, flags |-> t[j].flags]
      BY <2>1, <3>1, RegOfAt
    <3>. QED
      BY <2>2, <3>1, <3>2, <3>3
  <2>. QED
    BY <2>3, <2>4
<1>. QED
  BY <1>4, <1>5 DEF RegOf

(***************************************************************************)
(* clear_fd_event is FdMap's remove: it empties the one entry of fd, if    *)
(* any, and the mapping of every other descriptor keeps its entry.         *)
(***************************************************************************)
LEMMA ClearFdEventReg ==
    ASSUME NEW t \in [Slots -> TableEntries], FdTableUnique(t), NEW fd \in Fds
    PROVE  RegOf(clear_fd_event(t, fd)) = [x \in DOMAIN RegOf(t) \ {fd} |-> RegOf(t)[x]]
<1> DEFINE t2 == clear_fd_event(t, fd)
<1>1. fd # NoFd
  BY FdsAssumption
<1>2. CASE SlotsOf(t, fd) = {}
  <2>1. t2 = t /\ fd \notin DOMAIN RegOf(t)
    BY <1>1, <1>2, RegisteredIffSlot DEF clear_fd_event
  <2>. QED
    BY <2>1 DEF RegOf
<1>3. CASE SlotsOf(t, fd) # {}
  <2>1. PICK k \in Slots : t[k].fd = fd
    BY <1>3 DEF SlotsOf
  <2>2. Least(SlotsOf(t, fd)) = k
    <3>1. SlotsOf(t, fd) = {k}
      BY <1>1, <2>1 DEF SlotsOf, FdTableUnique
    <3>. QED
      BY <3>1, LeastOfSingleton DEF Slots
  <2>3. t2 = [t EXCEPT ![k] = EmptyEntry]
    BY <1>3, <2>2 DEF clear_fd_event
  <2>4. DOMAIN t2 = Slots /\ FdTableUnique(t2)
    <3>1. DOMAIN t = Slots
      OBVIOUS
    <3>. QED
      BY <3>1, ClearFdEventUnique DEF clear_fd_event
  <2>5. Registered(t2) = Registered(t) \ {fd}
    BY <1>1, <2>1, <2>3 DEF Registered, FdTableUnique, EmptyEntry
  <2>6. ASSUME NEW x \in Registered(t2) PROVE RegOf(t2)[x] = RegOf(t)[x]
    <3>1. PICK j \in Slots : t2[j].fd = x /\ x # NoFd
      BY DEF Registered
    <3>2. j # k /\ t2[j] = t[j]
      BY <2>3, <3>1 DEF EmptyEntry
    <3>3. RegOf(t2)[x] = [cbf |-> t2[j].cbf, flags |-> t2[j].flags]
      BY <2>4, <3>1, RegOfAt
    <3>4. RegOf(t)[x] = [cbf |-> t[j].cbf, flags |-> t[j].flags]
      <4>1. DOMAIN t = Slots /\ t[j].fd = x
        BY <3>1, <3>2
      <4>. QED
        BY <3>1, <4>1, RegOfAt
    <3>. QED
      BY <3>2, <3>3, <3>4
  <2>. QED
    BY <2>5, <2>6 DEF RegOf
<1>. QED
  BY <1>2, <1>3
-----------------------------------------------------------------------------
(***************************************************************************)
(* The invariant: every sequence of calls keeps the table well typed and   *)
(* each descriptor in at most one entry.                                   *)
(***************************************************************************)
LEMMA InitInv == Init => Inv
BY DEF Init, Inv, TypeOK, TableEntries, EmptyEntry, Callbacks, FdFlags,
       Calls, FdTableUnique

LEMMA NextInv == Inv /\ [Next]_<<tbl, res>> => Inv'
<1> SUFFICES ASSUME Inv, [Next]_<<tbl, res>> PROVE Inv'
  OBVIOUS
<1>1. ASSUME NEW fd \in Fds, NEW flags \in FdFlags, NEW cbf \in Callbacks,
             SetFdEvent(fd, flags, cbf)
      PROVE  Inv'
  <2>1. [fd |-> fd, cbf |-> cbf, flags |-> flags] \in TableEntries
    BY DEF TableEntries
  <2>2. tbl' \in [Slots -> TableEntries]
    BY <1>1, <2>1, SetFdEventType DEF SetFdEvent, Inv, TypeOK
  <2>3. FdTableUnique(tbl')
    BY <1>1, FdsAssumption, SetFdEventUnique DEF SetFdEvent, Inv, TypeOK
  <2>4. res' \in Calls
    BY <1>1 DEF SetFdEvent, Call, Calls
  <2>. QED
    BY <2>2, <2>3, <2>4 DEF Inv, TypeOK
<1>2. ASSUME NEW fd \in Fds, ClearFdEvent(fd)
      PROVE  Inv'
  <2>1. EmptyEntry \in TableEntries
    BY DEF EmptyEntry, TableEntries, Callbacks, FdFlags
  <2>2. tbl' \in [Slots -> TableEntries]
    BY <1>2, <2>1, ClearFdEventType DEF ClearFdEvent, Inv, TypeOK
  <2>3. FdTableUnique(tbl')
    BY <1>2, ClearFdEventUnique DEF ClearFdEvent, Inv, TypeOK
  <2>4. res' \in Calls
    BY <1>2 DEF ClearFdEvent, Call, Calls
  <2>. QED
    BY <2>2, <2>3, <2>4 DEF Inv, TypeOK
<1>3. CASE UNCHANGED <<tbl, res>>
  BY <1>3 DEF Inv, TypeOK, FdTableUnique
<1>. QED
  BY <1>1, <1>2, <1>3 DEF Next

\* The table is well typed in every reachable state.
THEOREM TypeCorrect == Spec => []TypeOK
<1>1. Inv => TypeOK
  BY DEF Inv
<1>. QED
  BY InitInv, NextInv, <1>1, PTL DEF Spec
-----------------------------------------------------------------------------
(***************************************************************************)
(* The refinement.  The initial table is the empty mapping, and every call *)
(* is the FdMap operation of the same name on reg_bar, with the same       *)
(* result: a set_fd_event fails exactly when FdMap refuses the register,   *)
(* because the table has no empty entry exactly when MAX_NUM_OF_FDS        *)
(* descriptors are registered (RoomIffBelowCapacity).                      *)
(***************************************************************************)
LEMMA InitRefines == Init => Abstract!Init
<1> SUFFICES ASSUME Init PROVE Abstract!Init
  OBVIOUS
<1>1. Registered(tbl) = {}
  BY DEF Init, Registered, EmptyEntry
<1>. QED
  BY <1>1 DEF Init, Abstract!Init, reg_bar

\* FdMap's Cardinality, seen through the instance, is Cardinality.
LEMMA AbstractCardinality == \A S : Abstract!Cardinality(S) = Cardinality(S)
BY DEF Abstract!Cardinality, Cardinality

\* SetFdEventReg, for the table variable.
LEMMA SetFdEventRegTbl ==
    ASSUME tbl \in [Slots -> TableEntries], FdTableUnique(tbl),
           NEW fd \in Fds, NEW flags \in FdFlags, NEW cbf \in Callbacks,
           SetFdEventOk(tbl, fd)
    PROVE  RegOf(set_fd_event(tbl, fd, flags, cbf)) =
             [x \in DOMAIN RegOf(tbl) \cup {fd} |->
                IF x = fd THEN [cbf |-> cbf, flags |-> flags] ELSE RegOf(tbl)[x]]
BY SetFdEventReg

LEMMA SetFdEventRefines ==
    ASSUME Inv, NEW fd \in Fds, NEW flags \in FdFlags, NEW cbf \in Callbacks,
           SetFdEvent(fd, flags, cbf)
    PROVE  Abstract!Register(fd, flags, cbf)
<1> DEFINE ok == fd \in DOMAIN reg_bar \/ Cardinality(DOMAIN reg_bar) < MAX_NUM_OF_FDS
           e  == [cbf |-> cbf, flags |-> flags]
<1>1. reg_bar = RegOf(tbl) /\ reg_bar' = RegOf(tbl')
  BY DEF reg_bar, EntryOf, RegOf
<1>2. tbl \in [Slots -> TableEntries] /\ FdTableUnique(tbl) /\ fd # NoFd
  BY FdsAssumption DEF Inv, TypeOK
<1>3. DOMAIN RegOf(tbl) = Registered(tbl)
  BY DEF RegOf
<1>4. SetFdEventOk(tbl, fd) <=> ok
  <2>1. CASE SlotsOf(tbl, fd) # {}
    BY <1>1, <1>2, <2>1, RegisteredIffSlot DEF SetFdEventOk
  <2>2. CASE SlotsOf(tbl, fd) = {}
    BY <1>1, <1>2, <1>3, <2>2, RegisteredIffSlot, RoomIffBelowCapacity DEF SetFdEventOk
  <2>. QED
    BY <2>1, <2>2
<1>5. CASE ok
  <2>1. reg_bar' = [x \in DOMAIN reg_bar \cup {fd} |-> IF x = fd THEN e ELSE reg_bar[x]]
    <3>1. RegOf(set_fd_event(tbl, fd, flags, cbf)) =
            [x \in DOMAIN RegOf(tbl) \cup {fd} |->
               IF x = fd THEN [cbf |-> cbf, flags |-> flags] ELSE RegOf(tbl)[x]]
      <4>1. SetFdEventOk(tbl, fd)
        BY <1>4, <1>5
      <4>. QED
        BY <1>2, <4>1, SetFdEventRegTbl
    <3>. QED
      BY <1>1, <3>1 DEF SetFdEvent
  <2>2. res' = Abstract!Call("set", fd, ok)
    BY <1>4, <1>5 DEF SetFdEvent, Call, Abstract!Call
  <2>. QED
    BY <1>5, <2>1, <2>2, AbstractCardinality DEF Abstract!Register
<1>6. CASE ~ok
  <2>1. tbl' = tbl
    BY <1>4, <1>6 DEF SetFdEvent, SetFdEventOk, set_fd_event
  <2>2. reg_bar' = reg_bar
    BY <1>1, <2>1
  <2>3. res' = Abstract!Call("set", fd, ok)
    BY <1>4, <1>6 DEF SetFdEvent, Call, Abstract!Call
  <2>. QED
    BY <1>6, <2>2, <2>3, AbstractCardinality DEF Abstract!Register
<1>. QED
  BY <1>5, <1>6

LEMMA ClearFdEventRefines ==
    ASSUME Inv, NEW fd \in Fds, ClearFdEvent(fd)
    PROVE  Abstract!Unregister(fd)
<1>1. reg_bar = RegOf(tbl) /\ reg_bar' = RegOf(tbl')
  BY DEF reg_bar, EntryOf, RegOf
<1>2. tbl \in [Slots -> TableEntries] /\ FdTableUnique(tbl) /\ fd # NoFd
  BY FdsAssumption DEF Inv, TypeOK
<1>3. reg_bar' = [x \in DOMAIN reg_bar \ {fd} |-> reg_bar[x]]
  BY <1>1, <1>2, ClearFdEventReg DEF ClearFdEvent
<1>4. res' = Abstract!Call("clear", fd, fd \in DOMAIN reg_bar)
  BY <1>1, <1>2, RegisteredIffSlot DEF ClearFdEvent, Call, Abstract!Call
<1>. QED
  BY <1>3, <1>4 DEF Abstract!Unregister

LEMMA NextRefines == Inv /\ [Next]_<<tbl, res>> => [Abstract!Next]_<<reg_bar, res>>
<1> SUFFICES ASSUME Inv, [Next]_<<tbl, res>> PROVE [Abstract!Next]_<<reg_bar, res>>
  OBVIOUS
<1>1. ASSUME NEW fd \in Fds, NEW flags \in FdFlags, NEW cbf \in Callbacks,
             SetFdEvent(fd, flags, cbf)
      PROVE  Abstract!Next
  BY <1>1, SetFdEventRefines DEF Abstract!Next
<1>2. ASSUME NEW fd \in Fds, ClearFdEvent(fd)
      PROVE  Abstract!Next
  BY <1>2, ClearFdEventRefines DEF Abstract!Next
<1>3. CASE UNCHANGED <<tbl, res>>
  BY <1>3 DEF reg_bar, EntryOf
<1>. QED
  BY <1>1, <1>2, <1>3 DEF Next

\* Every behaviour of the table, under every sequence of set_fd_event and
\* clear_fd_event calls, is a behaviour of FdMap's bounded mapping, for
\* every table size and every set of descriptors.
THEOREM FdTableRefinement == Spec => FdMapRefined
BY InitInv, NextInv, InitRefines, NextRefines, PTL DEF Spec, FdMapRefined, Abstract!Spec
=============================================================================
