--------------------------- MODULE FdEventsProofs ---------------------------
(***************************************************************************)
(* Facts about set_fd_event and clear_fd_event of raop_play.c, for every   *)
(* table size: both keep the table a function from the slots into a set of *)
(* entries, and both keep every descriptor in at most one entry.  The      *)
(* proofs of the main loop's invariants cite them at every call.           *)
(***************************************************************************)
EXTENDS FdEvents, FiniteSetTheorems, TLAPS

(***************************************************************************)
(* The scans of set_fd_event and clear_fd_event stop at the first matching *)
(* entry: a nonempty set of indices has a least element.                   *)
(***************************************************************************)
LEMMA LeastIn ==
    ASSUME NEW S \in SUBSET Nat, S # {}
    PROVE  Least(S) \in S /\ \A j \in S : Least(S) =< j
<1>1. \E x \in S : \A y \in S : ~ (<<y, x>> \in OpToRel(<, Nat))
  BY WFMin, NatLessThanWellFounded
<1>2. PICK x \in S : \A y \in S : ~ (<<y, x>> \in OpToRel(<, Nat))
  BY <1>1
<1>3. \A y \in S : y < x => <<y, x>> \in OpToRel(<, Nat)
  BY Zenon DEF OpToRel
<1>4. \A y \in S : ~ (y < x)
  BY <1>2, <1>3, Zenon
<1>5. \A y \in S : x =< y
  BY <1>4
<1>. QED
  BY <1>5 DEF Least


(***************************************************************************)
(* set_fd_event writes at most one slot, and what it writes is the entry   *)
(* it was given: the table keeps its type for any set E of entries.        *)
(***************************************************************************)
LEMMA SetFdEventType ==
    ASSUME NEW E, NEW tbl \in [Slots -> E], NEW fd, NEW flags, NEW cbf,
           [fd |-> fd, cbf |-> cbf, flags |-> flags] \in E
    PROVE  set_fd_event(tbl, fd, flags, cbf) \in [Slots -> E]
BY DEF set_fd_event

(***************************************************************************)
(* clear_fd_event writes at most one slot, with the empty entry.           *)
(***************************************************************************)
LEMMA ClearFdEventType ==
    ASSUME NEW E, NEW tbl \in [Slots -> E], NEW fd, EmptyEntry \in E
    PROVE  clear_fd_event(tbl, fd) \in [Slots -> E]
BY DEF clear_fd_event

(***************************************************************************)
(* When fd has exactly one entry, the scan of set_fd_event and             *)
(* clear_fd_event stops at it.                                             *)
(***************************************************************************)
LEMMA LeastOfSingleton ==
    ASSUME NEW i \in Nat
    PROVE  Least({i}) = i
BY DEF Least

(***************************************************************************)
(* set_fd_event of a real descriptor keeps every descriptor in at most one *)
(* entry: it updates the entry fd already has, or, when fd has none, it    *)
(* fills an empty one (or nothing, when the table is full).                *)
(***************************************************************************)
LEMMA SetFdEventUnique ==
    ASSUME NEW tbl, DOMAIN tbl = Slots, FdTableUnique(tbl),
           NEW fd, fd # NoFd, NEW flags, NEW cbf
    PROVE  FdTableUnique(set_fd_event(tbl, fd, flags, cbf))
<1> DEFINE new == [fd |-> fd, cbf |-> cbf, flags |-> flags]
<1>1. CASE SlotsOf(tbl, fd) # {}
  <2>1. PICK i \in Slots : tbl[i].fd = fd
    BY <1>1 DEF SlotsOf
  <2>2. SlotsOf(tbl, fd) = {i}
    BY <2>1 DEF SlotsOf, FdTableUnique
  <2>3. Least(SlotsOf(tbl, fd)) = i
    BY <2>2, LeastOfSingleton DEF Slots
  <2>4. set_fd_event(tbl, fd, flags, cbf) = [tbl EXCEPT ![i] = new]
    BY <1>1, <2>3 DEF set_fd_event
  <2>. QED
    BY <2>1, <2>4 DEF FdTableUnique
<1>2. CASE SlotsOf(tbl, fd) = {} /\ SlotsOf(tbl, NoFd) # {}
  <2> DEFINE k == Least(SlotsOf(tbl, NoFd))
  <2>1. set_fd_event(tbl, fd, flags, cbf) = [tbl EXCEPT ![k] = new]
    BY <1>2 DEF set_fd_event
  <2>2. \A j \in Slots : tbl[j].fd # fd
    BY <1>2 DEF SlotsOf
  <2>. QED
    BY <2>1, <2>2 DEF FdTableUnique
<1>3. CASE SlotsOf(tbl, fd) = {} /\ SlotsOf(tbl, NoFd) = {}
  BY <1>3 DEF set_fd_event
<1>. QED
  BY <1>1, <1>2, <1>3

(***************************************************************************)
(* clear_fd_event keeps every descriptor in at most one entry: it only     *)
(* empties a slot.                                                         *)
(***************************************************************************)
LEMMA ClearFdEventUnique ==
    ASSUME NEW tbl, DOMAIN tbl = Slots, FdTableUnique(tbl), NEW fd
    PROVE  FdTableUnique(clear_fd_event(tbl, fd))
BY DEF clear_fd_event, FdTableUnique, EmptyEntry
-----------------------------------------------------------------------------
(***************************************************************************)
(* Where the two calls write.  set_fd_event leaves the table as it is (no *)
(* entry of fd and no empty entry), or writes one slot that held fd or was *)
(* empty; clear_fd_event leaves it as it is, or empties one slot of fd.    *)
(***************************************************************************)
LEMMA SetFdEventAt ==
    ASSUME NEW tbl, DOMAIN tbl = Slots, NEW fd, NEW flags, NEW cbf
    PROVE  \/ set_fd_event(tbl, fd, flags, cbf) = tbl
           \/ \E k \in Slots :
                 /\ tbl[k].fd \in {fd, NoFd}
                 /\ set_fd_event(tbl, fd, flags, cbf)
                      = [tbl EXCEPT ![k] = [fd |-> fd, cbf |-> cbf, flags |-> flags]]
<1>1. CASE SlotsOf(tbl, fd) # {}
  <2>1. Least(SlotsOf(tbl, fd)) \in SlotsOf(tbl, fd)
    BY <1>1, LeastIn DEF SlotsOf, Slots
  <2>. QED
    BY <1>1, <2>1 DEF set_fd_event, SlotsOf
<1>2. CASE SlotsOf(tbl, fd) = {} /\ SlotsOf(tbl, NoFd) # {}
  <2>1. Least(SlotsOf(tbl, NoFd)) \in SlotsOf(tbl, NoFd)
    BY <1>2, LeastIn DEF SlotsOf, Slots
  <2>. QED
    BY <1>2, <2>1 DEF set_fd_event, SlotsOf
<1>3. CASE SlotsOf(tbl, fd) = {} /\ SlotsOf(tbl, NoFd) = {}
  BY <1>3 DEF set_fd_event
<1>. QED
  BY <1>1, <1>2, <1>3

LEMMA ClearFdEventAt ==
    ASSUME NEW tbl, DOMAIN tbl = Slots, NEW fd
    PROVE  \/ clear_fd_event(tbl, fd) = tbl
           \/ \E k \in Slots : tbl[k].fd = fd /\ clear_fd_event(tbl, fd) = [tbl EXCEPT ![k] = EmptyEntry]
<1>1. CASE SlotsOf(tbl, fd) # {}
  <2>1. Least(SlotsOf(tbl, fd)) \in SlotsOf(tbl, fd)
    BY <1>1, LeastIn DEF SlotsOf, Slots
  <2>. QED
    BY <1>1, <2>1 DEF clear_fd_event, SlotsOf
<1>. QED
  BY <1>1 DEF clear_fd_event

(***************************************************************************)
(* A call on another descriptor keeps the entries of descriptor g: the     *)
(* same slots hold g, with the same contents.  Then g has the same slots   *)
(* and the same flags for the scans of set_fd_event and main_event_handler.*)
(***************************************************************************)
KeepsFd(t1, t2, g) ==
    /\ DOMAIN t2 = Slots
    /\ \A i \in Slots : (t2[i].fd = g <=> t1[i].fd = g) /\ (t1[i].fd = g => t2[i] = t1[i])

LEMMA SetFdEventKeeps ==
    ASSUME NEW tbl, DOMAIN tbl = Slots, NEW fd, NEW flags, NEW cbf, NEW g, g # fd, g # NoFd
    PROVE  KeepsFd(tbl, set_fd_event(tbl, fd, flags, cbf), g)
BY SetFdEventAt DEF KeepsFd

LEMMA ClearFdEventKeeps ==
    ASSUME NEW tbl, DOMAIN tbl = Slots, NEW fd, NEW g, g # fd, g # NoFd
    PROVE  KeepsFd(tbl, clear_fd_event(tbl, fd), g)
<1>1. EmptyEntry.fd # g
  BY DEF EmptyEntry
<1>. QED
  BY <1>1, ClearFdEventAt DEF KeepsFd

LEMMA KeepsFlags ==
    ASSUME NEW t1, DOMAIN t1 = Slots, NEW t2, NEW g, KeepsFd(t1, t2, g)
    PROVE  SlotsOf(t2, g) = SlotsOf(t1, g) /\ FlagsOf(t2, g) = FlagsOf(t1, g)
<1>1. SlotsOf(t2, g) = SlotsOf(t1, g)
  BY DEF KeepsFd, SlotsOf
<1>2. SlotsOf(t1, g) # {} => Least(SlotsOf(t1, g)) \in SlotsOf(t1, g)
  BY LeastIn DEF SlotsOf, Slots
<1>. QED
  BY <1>1, <1>2 DEF KeepsFd, FlagsOf, SlotsOf

(***************************************************************************)
(* A set_fd_event that finds a slot gives fd an entry with the flags it    *)
(* was asked for, and the scans find that entry.                           *)
(***************************************************************************)
LEMMA SetFdEventFlags ==
    ASSUME NEW tbl, DOMAIN tbl = Slots, NEW fd, NEW flags, NEW cbf, SetFdEventOk(tbl, fd)
    PROVE  /\ SlotsOf(set_fd_event(tbl, fd, flags, cbf), fd) # {}
           /\ FlagsOf(set_fd_event(tbl, fd, flags, cbf), fd) = flags
<1> DEFINE new == [fd |-> fd, cbf |-> cbf, flags |-> flags]
           t2 == set_fd_event(tbl, fd, flags, cbf)
<1>1. CASE SlotsOf(tbl, fd) # {}
  <2> DEFINE k == Least(SlotsOf(tbl, fd))
  <2>1. k \in SlotsOf(tbl, fd)
    BY <1>1, LeastIn DEF SlotsOf, Slots
  <2>2. t2 = [tbl EXCEPT ![k] = new]
    BY <1>1 DEF set_fd_event
  <2>3. SlotsOf(t2, fd) = SlotsOf(tbl, fd)
    BY <2>1, <2>2 DEF SlotsOf
  <2>4. k \in Slots /\ t2[k] = new
    BY <2>1, <2>2 DEF SlotsOf
  <2>. QED
    BY <1>1, <2>3, <2>4 DEF FlagsOf
<1>2. CASE SlotsOf(tbl, fd) = {}
  <2> DEFINE k == Least(SlotsOf(tbl, NoFd))
  <2>1. SlotsOf(tbl, NoFd) # {}
    BY <1>2 DEF SetFdEventOk
  <2>2. k \in SlotsOf(tbl, NoFd)
    BY <2>1, LeastIn DEF SlotsOf, Slots
  <2>3. t2 = [tbl EXCEPT ![k] = new]
    BY <1>2, <2>1 DEF set_fd_event
  <2>4. SlotsOf(t2, fd) = {k}
    BY <1>2, <2>2, <2>3 DEF SlotsOf
  <2>5. k \in Slots /\ t2[k] = new
    BY <2>2, <2>3 DEF SlotsOf
  <2>6. Least({k}) = k
    BY <2>5, LeastOfSingleton, FdTableAssumption DEF Slots
  <2>. QED
    BY <2>4, <2>5, <2>6 DEF FlagsOf
<1>. QED
  BY <1>1, <1>2

\* The descriptors registered after a call.
LEMMA SetFdEventRegistered ==
    ASSUME NEW tbl, DOMAIN tbl = Slots, NEW fd, NEW flags, NEW cbf
    PROVE  Registered(set_fd_event(tbl, fd, flags, cbf)) \subseteq Registered(tbl) \cup {fd}
BY SetFdEventAt DEF Registered

LEMMA ClearFdEventRegistered ==
    ASSUME NEW tbl, DOMAIN tbl = Slots, NEW fd
    PROVE  Registered(clear_fd_event(tbl, fd)) \subseteq Registered(tbl)
BY ClearFdEventAt DEF Registered, EmptyEntry

(***************************************************************************)
(* A table without duplicates whose descriptors all lie in a set smaller  *)
(* than the table has an empty entry: otherwise two of its MAX_NUM_OF_FDS  *)
(* full entries would hold the same descriptor.                            *)
(***************************************************************************)
LEMMA RoomBelow ==
    ASSUME NEW tbl, DOMAIN tbl = Slots, FdTableUnique(tbl),
           NEW S, IsFiniteSet(S), Cardinality(S) < MAX_NUM_OF_FDS,
           Registered(tbl) \subseteq S
    PROVE  SlotsOf(tbl, NoFd) # {}
<1> SUFFICES ASSUME SlotsOf(tbl, NoFd) = {} PROVE FALSE
  OBVIOUS
<1> DEFINE f == [i \in Slots |-> tbl[i].fd]
<1>1. IsFiniteSet(Slots) /\ Cardinality(Slots) = MAX_NUM_OF_FDS
  BY FS_Interval, FdTableAssumption DEF Slots
<1>2. f \in [Slots -> S]
  BY DEF SlotsOf, Registered
<1>3. \E x, y \in Slots : x # y /\ f[x] = f[y]
  <2>1. Cardinality(S) < Cardinality(Slots)
    BY <1>1
  <2> HIDE DEF f
  <2>. QED
    BY <1>1, <1>2, <2>1, FS_PigeonHole
<1>4. PICK x, y \in Slots : x # y /\ tbl[x].fd = tbl[y].fd
  BY <1>3
<1>5. tbl[x].fd # NoFd
  BY DEF SlotsOf
<1>. QED
  BY <1>4, <1>5 DEF FdTableUnique

\* A set of three values has at most three elements.
LEMMA CardThree ==
    ASSUME NEW a, NEW b, NEW c
    PROVE  IsFiniteSet({a, b, c}) /\ Cardinality({a, b, c}) =< 3
<1>1. IsFiniteSet({a}) /\ Cardinality({a}) = 1
  BY FS_Singleton
<1>2. IsFiniteSet({a} \cup {b}) /\ Cardinality({a} \cup {b}) =< 2
  BY <1>1, FS_AddElement
<1>3. IsFiniteSet({a, b} \cup {c}) /\ Cardinality({a, b} \cup {c}) =< 3
  <2>1. IsFiniteSet({a, b}) /\ Cardinality({a, b}) =< 2
    BY <1>2
  <2>2. Cardinality({a, b}) \in Nat
    BY <2>1, FS_CardinalityType
  <2>. QED
    BY <2>1, <2>2, FS_AddElement
<1>. QED
  BY <1>3
=============================================================================
