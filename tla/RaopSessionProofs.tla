-------------------------- MODULE RaopSessionProofs --------------------------
(***************************************************************************)
(* Proof that a sync frame of raopcl_sync never announces a timestamp the *)
(* audio path has not reached (SyncTimestampNotAhead), for every number of *)
(* JNI calls and every set of chunk sizes, in every session whose         *)
(* timestamp stays below 2^32: at most MaxSends frames of at most M bytes, *)
(* MaxSends * M < 2^32.                                                    *)
(*                                                                         *)
(* The thread loads the timestamp one byte at a time, high byte first,     *)
(* while raopcl_send_sample adds to it.  Below 2^32 the timestamp only     *)
(* grows, so after the loads of bytes 3 .. k the value assembled is at     *)
(* most the timestamp with its bytes below k cleared; once byte 0 is in,   *)
(* it is at most the timestamp.  The two resets to 0 (the memset of       *)
(* raopcl_open and raopcl_connect) happen before raopcl_connectcontrol     *)
(* starts the thread, on a raopcld no thread of an earlier call reads.     *)
(***************************************************************************)
EXTENDS RaopSession, TLAPS

USE SessionAssumption

\* Every frame has at most M bytes, and MaxSends of them stay below 2^32.
NoWrap(M) ==
    /\ M \in Nat
    /\ \A b \in ChunkSamples : FrameBytes(b) =< M
    /\ MaxSends * M < TS_MOD

\* The calls to come have no threads.
LaterCallsIdle == \A c \in Calls : c > call => spc[c] = "none"

\* Until raopcl_connectcontrol, the current call has no sync thread.
SetupBeforeSync ==
    /\ mpc # "idle" => call \in Calls
    /\ mpc \in {"open", "connect", "control"} => spc[call] = "none"

\* A call's timestamp counts the bytes of its frames: at most M each.
TsBelowSends(M) == \A c \in Calls : ts[c] =< nsent[c] * M

\* What data[4..7] hold so far is at most the timestamp with the bytes the
\* thread has still to load cleared.
Floor(x, w) == (x \div w) * w
BelowFor(p, v, x) ==
    /\ p = "data5" => v =< Floor(x, 16777216)
    /\ p = "data6" => v =< Floor(x, 65536)
    /\ p = "data7" => v =< Floor(x, 256)
    /\ p \in {"next", "write"} => v =< x
AssembledBelowTs == \A c \in Calls : BelowFor(spc[c], cur[c], ts[c])

SInv(M) ==
    /\ TypeOK
    /\ LaterCallsIdle
    /\ SetupBeforeSync
    /\ TsBelowSends(M)
    /\ AssembledBelowTs

LEMMA TsModValue == TS_MOD = 4294967296
BY SMT DEF TS_MOD

LEMMA FrameBytesNat ==
    ASSUME NEW b \in Nat
    PROVE  FrameBytes(b) \in Nat
BY DEF FrameBytes

\* Clearing the low bytes keeps the order of two values.
LEMMA FloorMono ==
    ASSUME NEW x \in Nat, NEW y \in Nat, x =< y,
           NEW w \in {256, 65536, 16777216}
    PROVE  Floor(x, w) =< Floor(y, w) /\ Floor(x, w) =< x /\ Floor(x, w) \in Nat
<1>1. CASE w = 256        BY <1>1, SMT DEF Floor
<1>2. CASE w = 65536      BY <1>2, SMT DEF Floor
<1>3. CASE w = 16777216   BY <1>3, SMT DEF Floor
<1>. QED  BY <1>1, <1>2, <1>3

\* Byte k of x, added to x with bytes k and below cleared, gives x with the
\* bytes below k cleared.
LEMMA ByteSplit ==
    ASSUME NEW x \in Nat
    PROVE  /\ Floor(x, 16777216) + TsByte(x, 2) * 65536 = Floor(x, 65536)
           /\ Floor(x, 65536) + TsByte(x, 1) * 256 = Floor(x, 256)
           /\ Floor(x, 256) + TsByte(x, 0) * 1 = x
<1>1. Floor(x, 16777216) + TsByte(x, 2) * 65536 = Floor(x, 65536)
  BY SMT DEF Floor, TsByte, ByteWeight
<1>2. Floor(x, 65536) + TsByte(x, 1) * 256 = Floor(x, 256)
  BY SMT DEF Floor, TsByte, ByteWeight
<1>3. Floor(x, 256) + TsByte(x, 0) * 1 = x
  BY SMT DEF Floor, TsByte, ByteWeight
<1>. QED  BY <1>1, <1>2, <1>3

\* Below 2^32, byte 3 alone is the value with bytes 2 .. 0 cleared.
LEMMA TopByte ==
    ASSUME NEW x \in Timestamps
    PROVE  TsByte(x, 3) * 16777216 = Floor(x, 16777216)
<1>1. x \in Nat /\ x < 4294967296
  BY TsModValue, SMT DEF Timestamps
<1>2. x \div 16777216 \in 0 .. 255
  BY <1>1, SMT
<1>3. (x \div 16777216) % 256 = x \div 16777216
  BY <1>2, SMT
<1>. QED
  BY <1>3, SMT DEF Floor, TsByte, ByteWeight

LEMMA ZeroTs == 0 \in Timestamps
BY TsModValue, SMT DEF Timestamps

\* The state the initial predicate sets up.
LEMMA InitS ==
    ASSUME NEW M, NoWrap(M), Init
    PROVE  SInv(M)
<1>1. TypeOK
  <2>1. call \in 0 .. MaxCalls /\ mpc \in MainPcs
    BY DEF Init, MainPcs
  <2>2. /\ mem \in [Calls -> {"none", "live", "freed"}]
        /\ ts \in [Calls -> Timestamps]
        /\ tfd \in [Calls -> {TfdZero, TfdNone, TfdSocket}]
    BY ZeroTs DEF Init
  <2>3. /\ nsent \in [Calls -> 0 .. MaxSends]
        /\ spc \in [Calls -> {"none", "data4", "data5", "data6", "data7", "next", "write"}]
        /\ cur \in [Calls -> Timestamps] /\ nxt \in [Calls -> Timestamps]
        /\ tpc \in [Calls -> {"none", "read", "reply"}]
    BY ZeroTs DEF Init
  <2>. QED
    BY <2>1, <2>2, <2>3 DEF Init, TypeOK
<1>2. TsBelowSends(M)
  BY SMT DEF Init, NoWrap, TsBelowSends
<1>. QED
  BY <1>1, <1>2 DEF Init, SInv, LaterCallsIdle, SetupBeforeSync, AssembledBelowTs, BelowFor

\* A step that leaves the timestamps, the counts of sends and the sync
\* threads alone keeps the two arithmetic conjuncts.
LEMMA KeepArith ==
    ASSUME NEW M, SInv(M),
           ts' = ts, nsent' = nsent, spc' = spc, cur' = cur
    PROVE  TsBelowSends(M)' /\ AssembledBelowTs'
BY DEF SInv, TsBelowSends, AssembledBelowTs

LEMMA JniCallS ==
    ASSUME NEW M, SInv(M), JniCall
    PROVE  SInv(M)'
<1>1. call' \in Calls /\ call' > call /\ spc[call'] = "none"
  BY DEF JniCall, SInv, TypeOK, LaterCallsIdle, Calls
<1>2. /\ mem' = mem /\ ts' = ts /\ tfd' = tfd /\ stdinOpen' = stdinOpen
      /\ begin' = begin /\ nsent' = nsent /\ spc' = spc /\ cur' = cur
      /\ nxt' = nxt /\ tpc' = tpc /\ mpc' = "open"
  BY DEF JniCall, threadVars, sendVars
<1>3. TypeOK'
  <2>1. call' \in 0 .. MaxCalls /\ mpc' \in MainPcs
    BY <1>1, <1>2 DEF Calls, MainPcs
  <2>2. /\ mem' \in [Calls -> {"none", "live", "freed"}]
        /\ ts' \in [Calls -> Timestamps]
        /\ tfd' \in [Calls -> {TfdZero, TfdNone, TfdSocket}]
        /\ stdinOpen' \in BOOLEAN
        /\ begin' \in BOOLEAN
        /\ nsent' \in [Calls -> 0 .. MaxSends]
    BY <1>2 DEF SInv, TypeOK
  <2>3. /\ spc' \in [Calls -> {"none", "data4", "data5", "data6", "data7", "next", "write"}]
        /\ cur' \in [Calls -> Timestamps] /\ nxt' \in [Calls -> Timestamps]
        /\ tpc' \in [Calls -> {"none", "read", "reply"}]
    BY <1>2 DEF SInv, TypeOK
  <2>. QED
    BY <2>1, <2>2, <2>3 DEF TypeOK
<1>4. LaterCallsIdle' /\ SetupBeforeSync'
  BY <1>1, <1>2 DEF SInv, TypeOK, LaterCallsIdle, SetupBeforeSync, Calls
<1>. QED
  BY <1>2, <1>3, <1>4, KeepArith DEF SInv

\* raopcl_open and raopcl_connect reset the timestamp of a call whose sync
\* thread has not started.
LEMMA ResetArith ==
    ASSUME NEW M, NoWrap(M), SInv(M), call \in Calls, spc[call] = "none",
           ts' = [ts EXCEPT ![call] = 0], nsent' = nsent, spc' = spc, cur' = cur
    PROVE  TsBelowSends(M)' /\ AssembledBelowTs'
<1>1. TsBelowSends(M)'
  BY SMT DEF SInv, TypeOK, NoWrap, TsBelowSends
<1>2. AssembledBelowTs'
  BY DEF SInv, TypeOK, AssembledBelowTs, BelowFor
<1>. QED  BY <1>1, <1>2

LEMMA OpenS ==
    ASSUME NEW M, NoWrap(M), SInv(M), raopcl_open
    PROVE  SInv(M)'
<1>1. call \in Calls /\ spc[call] = "none"
  BY DEF raopcl_open, SInv, SetupBeforeSync
<1>2. TsBelowSends(M)' /\ AssembledBelowTs'
  BY <1>1, ResetArith DEF raopcl_open, sendVars, threadVars
<1>3. TypeOK'
  BY <1>1, ZeroTs DEF raopcl_open, SInv, TypeOK, threadVars, sendVars, MainPcs
<1>. QED
  BY <1>1, <1>2, <1>3 DEF raopcl_open, SInv, LaterCallsIdle, SetupBeforeSync,
                          threadVars, sendVars

LEMMA ConnectS ==
    ASSUME NEW M, NoWrap(M), SInv(M), raopcl_connect
    PROVE  SInv(M)'
<1>1. call \in Calls /\ spc[call] = "none"
  BY DEF raopcl_connect, SInv, SetupBeforeSync
<1>2. TsBelowSends(M)' /\ AssembledBelowTs'
  BY <1>1, ResetArith DEF raopcl_connect, sendVars, threadVars
<1>3. TypeOK'
  BY <1>1, ZeroTs DEF raopcl_connect, SInv, TypeOK, threadVars, sendVars, MainPcs
<1>. QED
  BY <1>1, <1>2, <1>3 DEF raopcl_connect, SInv, LaterCallsIdle, SetupBeforeSync,
                          threadVars, sendVars

\* The variables raopcl_connectcontrol does not touch keep their types.
LEMMA ControlFrameType ==
    ASSUME NEW M, SInv(M), raopcl_connectcontrol
    PROVE  /\ call' \in 0 .. MaxCalls /\ mpc' \in MainPcs
           /\ mem' \in [Calls -> {"none", "live", "freed"}] /\ ts' \in [Calls -> Timestamps]
           /\ begin' \in BOOLEAN /\ nsent' \in [Calls -> 0 .. MaxSends]
           /\ cur' \in [Calls -> Timestamps] /\ nxt' \in [Calls -> Timestamps]
           /\ tpc' \in [Calls -> {"none", "read", "reply"}]
<1>1. /\ mpc' = "time" /\ call' = call /\ mem' = mem /\ ts' = ts
      /\ begin' = begin /\ nsent' = nsent /\ cur' = cur /\ nxt' = nxt /\ tpc' = tpc
  BY DEF raopcl_connectcontrol, sendVars
<1>. QED
  BY <1>1 DEF SInv, TypeOK, MainPcs

\* The sync thread starts at its first byte load, which no conjunct
\* constrains.
LEMMA ControlS ==
    ASSUME NEW M, SInv(M), raopcl_connectcontrol
    PROVE  SInv(M)'
<1>1. call \in Calls
  BY DEF raopcl_connectcontrol, SInv, SetupBeforeSync
<1>2. /\ mpc' = "time" /\ call' = call /\ mem' = mem /\ ts' = ts
      /\ begin' = begin /\ nsent' = nsent /\ cur' = cur /\ nxt' = nxt /\ tpc' = tpc
  BY DEF raopcl_connectcontrol, sendVars
<1>3. CASE spc' = spc /\ tfd' \in [Calls -> {TfdZero, TfdNone, TfdSocket}]
                      /\ stdinOpen' \in BOOLEAN
  <2>1. TypeOK'
    BY <1>3, ControlFrameType DEF SInv, TypeOK
  <2>. QED
    BY <1>1, <1>2, <1>3, <2>1, KeepArith DEF SInv, LaterCallsIdle, SetupBeforeSync
<1>4. CASE spc' = [spc EXCEPT ![call] = "data4"] /\ tfd' = tfd /\ stdinOpen' = stdinOpen
  <2>1. TypeOK'
    <3>1. spc' \in [Calls -> {"none", "data4", "data5", "data6", "data7", "next", "write"}]
      BY <1>1, <1>4 DEF SInv, TypeOK
    <3>. QED
      BY <1>4, <3>1, ControlFrameType DEF SInv, TypeOK
  <2>2. LaterCallsIdle' /\ SetupBeforeSync'
    BY <1>1, <1>2, <1>4 DEF SInv, TypeOK, LaterCallsIdle, SetupBeforeSync
  <2>3. TsBelowSends(M)' /\ AssembledBelowTs'
    BY <1>1, <1>2, <1>4 DEF SInv, TypeOK, TsBelowSends, AssembledBelowTs, BelowFor
  <2>. QED
    BY <2>1, <2>2, <2>3 DEF SInv
<1>5. \/ spc' = spc /\ tfd' \in [Calls -> {TfdZero, TfdNone, TfdSocket}] /\ stdinOpen' \in BOOLEAN
      \/ spc' = [spc EXCEPT ![call] = "data4"] /\ tfd' = tfd /\ stdinOpen' = stdinOpen
  <2>1. CASE UNCHANGED <<tfd, stdinOpen, spc>>
    BY <2>1 DEF SInv, TypeOK
  <2>2. CASE /\ tfd' = [tfd EXCEPT ![call] = TfdNone]
             /\ stdinOpen' = (stdinOpen /\ tfd[call] # TfdZero)
             /\ UNCHANGED spc
    <3>1. tfd' \in [Calls -> {TfdZero, TfdNone, TfdSocket}]
      BY <1>1, <2>2 DEF SInv, TypeOK
    <3>2. stdinOpen' \in BOOLEAN
      BY <2>2, Zenon
    <3>. QED
      BY <2>2, <3>1, <3>2
  <2>3. CASE spc' = [spc EXCEPT ![call] = "data4"] /\ UNCHANGED <<tfd, stdinOpen>>
    BY <2>3
  <2>. QED
    BY <2>1, <2>2, <2>3 DEF raopcl_connectcontrol
<1>. QED
  BY <1>3, <1>4, <1>5

LEMMA TimeS ==
    ASSUME NEW M, SInv(M), raopcl_connecttime
    PROVE  SInv(M)'
<1>1. ts' = ts /\ nsent' = nsent /\ spc' = spc /\ cur' = cur
  BY DEF raopcl_connecttime, sendVars
<1>. QED
  BY <1>1, KeepArith DEF raopcl_connecttime, SInv, TypeOK, LaterCallsIdle, SetupBeforeSync,
                         sendVars, MainPcs, TfdSocket, TfdNone, TfdZero

LEMMA StreamS ==
    ASSUME NEW M, SInv(M), StreamSetup
    PROVE  SInv(M)'
<1>1. ts' = ts /\ nsent' = nsent /\ spc' = spc /\ cur' = cur
  BY DEF StreamSetup, sendVars, threadVars
<1>. QED
  BY <1>1, KeepArith DEF StreamSetup, SInv, TypeOK, LaterCallsIdle, SetupBeforeSync,
                         threadVars, sendVars, MainPcs

LEMMA CloseS ==
    ASSUME NEW M, SInv(M), raopcl_close
    PROVE  SInv(M)'
<1>1. ts' = ts /\ nsent' = nsent /\ spc' = spc /\ cur' = cur
  BY DEF raopcl_close, sendVars, threadVars
<1>. QED
  BY <1>1, KeepArith DEF raopcl_close, SInv, TypeOK, LaterCallsIdle, SetupBeforeSync,
                         threadVars, sendVars, MainPcs

\* A growing timestamp keeps what the sync thread has assembled below it.
LEMMA GrowArith ==
    ASSUME NEW p, NEW v \in Nat, NEW x \in Nat, NEW t \in Nat, x =< t, BelowFor(p, v, x)
    PROVE  BelowFor(p, v, t)
<1>1. /\ Floor(x, 16777216) =< Floor(t, 16777216)
      /\ Floor(x, 65536) =< Floor(t, 65536)
      /\ Floor(x, 256) =< Floor(t, 256)
  BY FloorMono
<1>. QED
  BY <1>1, SMT DEF BelowFor, Floor

\* raopcl_send_sample adds a frame's size; below 2^32 the reduction modulo
\* 2^32 leaves the sum as it is, and the timestamp grows.
LEMMA SendS ==
    ASSUME NEW M, NoWrap(M), SInv(M), raopcl_send_sample
    PROVE  SInv(M)'
<1>1. call \in Calls /\ nsent[call] \in Nat /\ nsent[call] < MaxSends
  BY DEF raopcl_send_sample, SInv, SetupBeforeSync, TypeOK
<1>2. PICK bsize \in ChunkSamples :
        ts' = [ts EXCEPT ![call] = (@ + FrameBytes(bsize)) % TS_MOD]
  BY Zenon DEF raopcl_send_sample
<1>3. FrameBytes(bsize) \in Nat /\ FrameBytes(bsize) =< M /\ M \in Nat
  BY FrameBytesNat DEF NoWrap
<1>4. ts[call] \in Nat /\ ts[call] =< nsent[call] * M
  BY <1>1 DEF SInv, TypeOK, Timestamps, TsBelowSends
<1>5. ts[call] + FrameBytes(bsize) =< (nsent[call] + 1) * M
  BY <1>1, <1>3, <1>4, SMT
<1>6. (nsent[call] + 1) * M =< MaxSends * M
  BY <1>1, <1>3, SMT
<1>7. ts[call] + FrameBytes(bsize) < TS_MOD
  BY <1>1, <1>3, <1>4, <1>5, <1>6, TsModValue, SMT DEF NoWrap
<1>8. (ts[call] + FrameBytes(bsize)) % TS_MOD = ts[call] + FrameBytes(bsize)
  BY <1>3, <1>4, <1>7, TsModValue, SMT
<1>9. ts' = [ts EXCEPT ![call] = ts[call] + FrameBytes(bsize)]
  BY <1>1, <1>2, <1>8, Zenon DEF SInv, TypeOK
<1>10. /\ call' = call /\ mpc' = mpc /\ mem' = mem /\ tfd' = tfd /\ stdinOpen' = stdinOpen
       /\ spc' = spc /\ cur' = cur /\ nxt' = nxt /\ tpc' = tpc
       /\ nsent' = [nsent EXCEPT ![call] = @ + 1] /\ begin' = FALSE
  BY DEF raopcl_send_sample, threadVars
<1>11. TypeOK'
  <2>1. ts' \in [Calls -> Timestamps]
    <3>1. ts[call] + FrameBytes(bsize) \in Timestamps
      BY <1>3, <1>4, <1>7 DEF Timestamps
    <3>. QED
      BY <1>1, <1>9, <3>1 DEF SInv, TypeOK
  <2>2. nsent' \in [Calls -> 0 .. MaxSends]
    BY <1>1, <1>10 DEF SInv, TypeOK
  <2>. QED
    BY <1>10, <2>1, <2>2, Zenon DEF SInv, TypeOK
<1>12. TsBelowSends(M)'
  BY <1>1, <1>5, <1>9, <1>10 DEF SInv, TypeOK, TsBelowSends
<1>13. AssembledBelowTs'
  <2> SUFFICES ASSUME NEW c \in Calls
               PROVE  BelowFor(spc[c], cur[c], ts'[c])
    BY <1>10 DEF AssembledBelowTs
  <2>1. /\ ts'[c] \in Nat /\ ts[c] \in Nat /\ ts[c] =< ts'[c] /\ cur[c] \in Nat
        /\ BelowFor(spc[c], cur[c], ts[c])
    BY <1>3, <1>4, <1>9 DEF SInv, TypeOK, Timestamps, AssembledBelowTs
  <2>. QED
    BY <2>1, GrowArith
<1>. QED
  BY <1>10, <1>11, <1>12, <1>13 DEF SInv, LaterCallsIdle, SetupBeforeSync

\* The timestamps of a well-typed state are numbers below 2^32.
LEMMA TsElem ==
    ASSUME TypeOK, NEW c \in Calls
    PROVE  /\ ts[c] \in Nat /\ ts[c] < TS_MOD
           /\ cur[c] \in Nat /\ cur[c] < TS_MOD
BY DEF TypeOK, Timestamps

\* What a thread step leaves alone.
LEMMA ThreadFrame ==
    ASSUME NEW c \in Calls, ThreadStep(c)
    PROVE  /\ call' = call /\ mpc' = mpc /\ mem' = mem /\ ts' = ts /\ tfd' = tfd
           /\ stdinOpen' = stdinOpen /\ begin' = begin /\ nsent' = nsent
BY SMT DEF ThreadStep, sendVars

\* A sync thread step that moves thread c on to p with data[4..7] holding
\* v keeps the invariant when v respects the bound of p.
LEMMA SyncStep ==
    ASSUME NEW M, SInv(M), NEW c \in Calls, spc[c] # "none",
           call' = call, mpc' = mpc, mem' = mem, ts' = ts, tfd' = tfd,
           stdinOpen' = stdinOpen, begin' = begin, nsent' = nsent, tpc' = tpc,
           nxt' \in [Calls -> Timestamps],
           NEW p \in {"data4", "data5", "data6", "data7", "next", "write"},
           NEW v \in Nat, v =< ts[c], BelowFor(p, v, ts[c]),
           cur' = [cur EXCEPT ![c] = v], spc' = [spc EXCEPT ![c] = p]
    PROVE  SInv(M)'
<1>1. v \in Timestamps
  <2>1. ts[c] \in Nat /\ ts[c] < TS_MOD
    BY TsElem DEF SInv
  <2>. QED
    BY <2>1, SMT DEF Timestamps, TS_MOD
<1>2. TypeOK'
  BY <1>1 DEF SInv, TypeOK
<1>3. LaterCallsIdle' /\ SetupBeforeSync'
  BY DEF SInv, LaterCallsIdle, SetupBeforeSync
<1>4. TsBelowSends(M)'
  BY DEF SInv, TsBelowSends
<1>5. AssembledBelowTs'
  BY DEF SInv, TypeOK, AssembledBelowTs
<1>. QED
  BY <1>2, <1>3, <1>4, <1>5 DEF SInv

\* The four byte loads: after the load of byte k, data[4..7] hold at most
\* the timestamp with the bytes below k cleared.
LEMMA ReadTsS ==
    ASSUME NEW M, SInv(M), NEW c \in Calls, ThreadStep(c), SyncReadTs(c)
    PROVE  SInv(M)'
<1>1. PICK i \in 1 .. 4 :
        /\ spc[c] = SyncBytePcs[i]
        /\ cur' = [cur EXCEPT ![c] = (IF i = 1 THEN 0 ELSE cur[c])
                      + TsByte(ts[c], ReadOrder[i]) * ByteWeight[ReadOrder[i] + 1]]
        /\ spc' = [spc EXCEPT ![c] = IF i = 4 THEN "next" ELSE SyncBytePcs[i + 1]]
        /\ nxt' = nxt /\ tpc' = tpc
  BY Zenon DEF SyncReadTs
<1>2. /\ call' = call /\ mpc' = mpc /\ mem' = mem /\ ts' = ts /\ tfd' = tfd
      /\ stdinOpen' = stdinOpen /\ begin' = begin /\ nsent' = nsent
  BY ThreadFrame
<1>3. /\ ts[c] \in Nat /\ cur[c] \in Nat /\ nxt' \in [Calls -> Timestamps]
      /\ BelowFor(spc[c], cur[c], ts[c])
  BY <1>1 DEF SInv, TypeOK, Timestamps, AssembledBelowTs
<1>4. /\ Floor(ts[c], 16777216) + TsByte(ts[c], 2) * 65536 = Floor(ts[c], 65536)
      /\ Floor(ts[c], 65536) + TsByte(ts[c], 1) * 256 = Floor(ts[c], 256)
      /\ Floor(ts[c], 256) + TsByte(ts[c], 0) * 1 = ts[c]
      /\ TsByte(ts[c], 2) \in Nat /\ TsByte(ts[c], 1) \in Nat /\ TsByte(ts[c], 0) \in Nat
  <2>1. TsByte(ts[c], 2) \in Nat /\ TsByte(ts[c], 1) \in Nat /\ TsByte(ts[c], 0) \in Nat
    BY <1>3, SMT DEF TsByte, ByteWeight
  <2>. QED
    BY <1>3, <2>1, ByteSplit
<1>5. /\ Floor(ts[c], 16777216) =< ts[c] /\ Floor(ts[c], 65536) =< ts[c]
      /\ Floor(ts[c], 256) =< ts[c]
      /\ Floor(ts[c], 16777216) \in Nat /\ Floor(ts[c], 65536) \in Nat
      /\ Floor(ts[c], 256) \in Nat
  BY <1>3, FloorMono
\* The value data[4..7] hold after the load, and where the thread goes.
<1> DEFINE v == cur'[c]
           p == spc'[c]
<1>6. /\ cur' = [cur EXCEPT ![c] = v] /\ spc' = [spc EXCEPT ![c] = p]
      /\ p \in {"data4", "data5", "data6", "data7", "next", "write"}
      /\ spc[c] # "none"
  BY <1>1 DEF SInv, TypeOK, SyncBytePcs
<1>8. /\ v = (IF i = 1 THEN 0 ELSE cur[c])
               + TsByte(ts[c], ReadOrder[i]) * ByteWeight[ReadOrder[i] + 1]
      /\ p = IF i = 4 THEN "next" ELSE SyncBytePcs[i + 1]
  BY <1>1 DEF SInv, TypeOK
<1>7. v \in Nat /\ v =< ts[c] /\ BelowFor(p, v, ts[c])
  <2>1. CASE i = 1
    <3>0. TsByte(ts[c], 3) * 16777216 = Floor(ts[c], 16777216)
      BY TopByte DEF SInv, TypeOK
    <3>a. TsByte(ts[c], 3) \in Nat
      BY <1>3, SMT DEF TsByte, ByteWeight
    <3>1. spc[c] = "data4" /\ p = "data5" /\ v = TsByte(ts[c], 3) * 16777216
      BY <1>1, <1>8, <2>1, <3>a DEF SyncBytePcs, ReadOrder, ByteWeight
    <3>2. v = Floor(ts[c], 16777216)
      BY <3>0, <3>1
    <3>. QED
      BY <1>5, <3>1, <3>2 DEF BelowFor
  <2>2. CASE i = 2
    <3>1. spc[c] = "data5" /\ p = "data6" /\ v = cur[c] + TsByte(ts[c], 2) * 65536
      BY <1>1, <1>8, <2>2 DEF SyncBytePcs, ReadOrder, ByteWeight
    <3>2. cur[c] =< Floor(ts[c], 16777216)
      BY <1>3, <3>1 DEF BelowFor
    <3>. QED
      BY <1>3, <1>4, <1>5, <3>1, <3>2, SMT DEF BelowFor
  <2>3. CASE i = 3
    <3>1. spc[c] = "data6" /\ p = "data7" /\ v = cur[c] + TsByte(ts[c], 1) * 256
      BY <1>1, <1>8, <2>3 DEF SyncBytePcs, ReadOrder, ByteWeight
    <3>2. cur[c] =< Floor(ts[c], 65536)
      BY <1>3, <3>1 DEF BelowFor
    <3>. QED
      BY <1>3, <1>4, <1>5, <3>1, <3>2, SMT DEF BelowFor
  <2>4. CASE i = 4
    <3>1. spc[c] = "data7" /\ p = "next" /\ v = cur[c] + TsByte(ts[c], 0) * 1
      BY <1>1, <1>8, <2>4 DEF SyncBytePcs, ReadOrder, ByteWeight
    <3>2. cur[c] =< Floor(ts[c], 256)
      BY <1>3, <3>1 DEF BelowFor
    <3>3. v \in Nat /\ v =< ts[c]
      BY <1>3, <1>4, <1>5, <3>1, <3>2, SMT
    <3>. QED
      BY <3>1, <3>3 DEF BelowFor
  <2>. QED
    BY <2>1, <2>2, <2>3, <2>4
<1>. QED
  BY <1>1, <1>2, <1>3, <1>6, <1>7, SyncStep, Zenon

\* nexttimestamp is reduced modulo 2^32, so it stays a timestamp.
LEMMA NextTsType ==
    ASSUME NEW x \in Timestamps
    PROVE  (x + SYNC_STEP) % TS_MOD \in Timestamps
BY SMT DEF Timestamps, SYNC_STEP, TS_MOD

\* The other steps of the threads keep data[4..7] as they are.
LEMMA ThreadS ==
    ASSUME NEW M, SInv(M), NEW c \in Calls, ThreadStep(c)
    PROVE  SInv(M)'
<1>1. /\ call' = call /\ mpc' = mpc /\ mem' = mem /\ ts' = ts /\ tfd' = tfd
      /\ stdinOpen' = stdinOpen /\ begin' = begin /\ nsent' = nsent
  BY ThreadFrame
<1>2. cur[c] \in Nat /\ BelowFor(spc[c], cur[c], ts[c])
  BY DEF SInv, TypeOK, Timestamps, AssembledBelowTs
<1>3. CASE SyncReadTs(c)
  BY <1>3, ReadTsS
<1>4. CASE SyncReadNext(c)
  <2>1. /\ spc[c] = "next" /\ spc' = [spc EXCEPT ![c] = "write"]
        /\ cur' = [cur EXCEPT ![c] = cur[c]] /\ tpc' = tpc
        /\ nxt' = [nxt EXCEPT ![c] = (ts[c] + SYNC_STEP) % TS_MOD]
    BY <1>4 DEF SyncReadNext, SInv, TypeOK
  <2>2. nxt' \in [Calls -> Timestamps]
    BY <2>1, NextTsType DEF SInv, TypeOK
  <2>3. cur[c] =< ts[c] /\ BelowFor("write", cur[c], ts[c])
    BY <1>2, <2>1 DEF BelowFor
  <2>. QED
    BY <1>1, <1>2, <2>1, <2>2, <2>3, SyncStep, Zenon
<1>5. CASE SyncWrite(c)
  <2>1. /\ spc[c] = "write" /\ spc' = [spc EXCEPT ![c] = "data4"]
        /\ cur' = [cur EXCEPT ![c] = cur[c]] /\ tpc' = tpc /\ nxt' = nxt
    BY <1>5 DEF SyncWrite, SInv, TypeOK
  <2>2. cur[c] =< ts[c] /\ BelowFor("data4", cur[c], ts[c]) /\ nxt' \in [Calls -> Timestamps]
    BY <1>2, <2>1 DEF SInv, TypeOK, BelowFor
  <2>. QED
    BY <1>1, <1>2, <2>1, <2>2, SyncStep, Zenon
<1>6. CASE TimeRead(c) \/ TimeReply(c)
  <2>1. spc' = spc /\ cur' = cur /\ nxt' = nxt
        /\ tpc' \in [Calls -> {"none", "read", "reply"}]
    BY <1>6 DEF TimeRead, TimeReply, SInv, TypeOK
  <2>. QED
    BY <1>1, <2>1, KeepArith DEF SInv, TypeOK, LaterCallsIdle, SetupBeforeSync
<1>. QED
  BY <1>3, <1>4, <1>5, <1>6 DEF ThreadStep

LEMMA NextS ==
    ASSUME NEW M, NoWrap(M), SInv(M), [Next]_vars
    PROVE  SInv(M)'
<1>1. CASE JniCall               BY <1>1, JniCallS
<1>2. CASE raopcl_open           BY <1>2, OpenS
<1>3. CASE raopcl_connect        BY <1>3, ConnectS
<1>4. CASE raopcl_connectcontrol BY <1>4, ControlS
<1>5. CASE raopcl_connecttime    BY <1>5, TimeS
<1>6. CASE StreamSetup           BY <1>6, StreamS
<1>7. CASE raopcl_send_sample    BY <1>7, SendS
<1>8. CASE raopcl_close          BY <1>8, CloseS
<1>9. CASE \E c \in Calls : ThreadStep(c)
  BY <1>9, ThreadS
<1>10. CASE UNCHANGED vars \/ Done
  <2>1. UNCHANGED vars
    BY <1>10 DEF Done
  <2>. QED
    BY <2>1, KeepArith DEF vars, SInv, TypeOK, LaterCallsIdle, SetupBeforeSync
<1>. QED
  BY <1>1, <1>2, <1>3, <1>4, <1>5, <1>6, <1>7, <1>8, <1>9, <1>10 DEF Next

(***************************************************************************)
(* In every session whose timestamp stays below 2^32 (MaxSends frames of  *)
(* at most M bytes, MaxSends * M < 2^32), for every number of JNI calls:   *)
(* each sync frame raopcl_sync writes carries a timestamp at most          *)
(* raopcld->timestamp, although it loads the timestamp one byte at a time *)
(* with no lock while raopcl_send_sample advances it, and although         *)
(* raopcl_open and raopcl_connect reset it.                                *)
(***************************************************************************)
THEOREM SyncTimestampNotAheadProperty ==
    ASSUME NEW M, NoWrap(M)
    PROVE  Spec => SyncTimestampNotAhead
<1>1. Init => SInv(M)
  BY InitS
<1>2. SInv(M) /\ [Next]_vars => SInv(M)'
  BY NextS
<1>3. SInv(M) /\ [Next]_vars =>
        [\A c \in Calls : (spc[c] = "write" /\ spc'[c] = "data4") => cur[c] =< ts[c]]_vars
  BY DEF SInv, AssembledBelowTs, BelowFor
<1>4. Spec => []SInv(M)
  BY <1>1, <1>2, PTL DEF Spec
<1>. QED
  BY <1>3, <1>4, PTL DEF Spec, SyncTimestampNotAhead
=============================================================================
