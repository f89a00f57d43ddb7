---------------------------- MODULE RaopSession -----------------------------
(***************************************************************************)
(* The life of a datagram (UDP) session of raop_client.c, across the JNI   *)
(* calls of main(), together with the two background threads that          *)
(* raopcl_stream_connect starts: the sync loop (raopcl_sync), which reads  *)
(* raopcld->timestamp once a second and writes a sync frame to tfd, and    *)
(* the timing responder (raopcl_time_connect), which answers the           *)
(* receiver's timing requests on tfd.                                      *)
(*                                                                         *)
(* Each JNI call of Java_com_nixus_raop_RaopHelper_raopPlay runs main()    *)
(* once: raopcl_open allocates a fresh raopcld (session c), raopcl_connect *)
(* sets it up, the main loop sends audio frames with raopcl_send_sample,   *)
(* and raopcl_close frees raopcld.  The threads are never joined or told   *)
(* to stop.  The statics seq_number and begin of raopcl_send_sample        *)
(* outlive the call.                                                       *)
(*                                                                         *)
(* What the main loop does between two sends is RaopPlay's subject; here a *)
(* send is one step, and the loop may end after any number of them.       *)
(* The RTSP exchanges with the receiver are one step that succeeds or      *)
(* fails.  Descriptor numbers are abstracted to what tfd can hold.         *)
(***************************************************************************)
EXTENDS Naturals

CONSTANTS
    MaxCalls,       \* JNI calls of main() in a run
    ChunkSamples,   \* sample counts (bsize) of the chunks the source yields
    MaxSends        \* audio frames sent per call

ASSUME SessionAssumption ==
    /\ MaxCalls \in Nat \ {0}
    /\ ChunkSamples \subseteq Nat \ {0}
    /\ MaxSends \in Nat

Calls == 1 .. MaxCalls

\* nexttimestamp = raopcld->timestamp + 352 in raopcl_sync.
SYNC_STEP == 352

\* The frames carry raopcld->timestamp as 32 unsigned bits (data[4..7] of
\* the sync frame, the RTP header of an audio frame): arithmetic on it is
\* modulo 2^32.
TS_MOD == 65536 * 65536
Timestamps == {t \in Nat : t < TS_MOD}

\* Where the sync thread is while it stores data[4] .. data[7], and the
\* byte of raopcld->timestamp each store reads: bits 31..24 first.
SyncBytePcs == <<"data4", "data5", "data6", "data7">>

\* A variant with a plausible bug: the stores are written low byte first.
ReadOrder_lowFirst == <<0, 1, 2, 3>>

ReadOrder == <<3, 2, 1, 0>>

\* 256^k for byte k, and byte k of x.
ByteWeight == <<1, 256, 65536, 16777216>>
TsByte(x, k) == (x \div ByteWeight[k + 1]) % 256

\* The size in bytes of the frame auds_write_pcm builds for bsize samples:
\* 3+4+8+4+1+2+1 header bits, 32 bits of size unless bsize is 4096, 32 bits
\* per stereo sample, rounded up to whole bytes (*size=bp-buffer, +1 if bpos).
FrameBytes(bsize) ==
    LET bits == 23 + (IF bsize # 4096 THEN 32 ELSE 0) + 32 * bsize
    IN  bits \div 8 + (IF bits % 8 # 0 THEN 1 ELSE 0)

\* What raopcld->tfd holds: 0 after the memset of raopcl_open, -1 after a
\* failed open or connect, or the connected timing socket.
TfdZero == "fd0"
TfdNone == "fd-1"
TfdSocket == "timing_socket"

VARIABLES
    call,        \* the JNI call of main() in progress (0: none yet)
    mpc,         \* where main() is
    mem,         \* mem[c]: raopcld of call c is "none", "live" or "freed"
    ts,          \* ts[c]: raopcld->timestamp, modulo 2^32
    tfd,         \* tfd[c]: raopcld->tfd
    stdinOpen,   \* descriptor 0 of the process is still open
    begin,       \* static int begin of raopcl_send_sample
    nsent,       \* nsent[c]: audio frames sent in call c
    spc,         \* spc[c]: where the sync thread of call c is
    cur,         \* cur[c]: the timestamp data[4..7] hold so far
    nxt,         \* nxt[c]: the nexttimestamp it put in data[16..19]
    tpc          \* tpc[c]: where the timing responder of call c is

vars == <<call, mpc, mem, ts, tfd, stdinOpen, begin, nsent,
          spc, cur, nxt, tpc>>

MainPcs == {"idle", "open", "connect", "control", "time", "stream", "play"}

TypeOK ==
    /\ call \in 0 .. MaxCalls
    /\ mpc \in MainPcs
    /\ mem \in [Calls -> {"none", "live", "freed"}]
    /\ ts \in [Calls -> Timestamps]
    /\ tfd \in [Calls -> {TfdZero, TfdNone, TfdSocket}]
    /\ stdinOpen \in BOOLEAN
    /\ begin \in BOOLEAN
    /\ nsent \in [Calls -> 0 .. MaxSends]
    /\ spc \in [Calls -> {"none", "data4", "data5", "data6", "data7", "next", "write"}]
    /\ cur \in [Calls -> Timestamps]
    /\ nxt \in [Calls -> Timestamps]
    /\ tpc \in [Calls -> {"none", "read", "reply"}]

\* The process starts with stdin open; begin = 1 and seq_number = 0.
Init ==
    /\ call = 0 /\ mpc = "idle"
    /\ mem = [c \in Calls |-> "none"]
    /\ ts = [c \in Calls |-> 0]
    /\ tfd = [c \in Calls |-> TfdZero]
    /\ stdinOpen = TRUE
    /\ begin = TRUE
    /\ nsent = [c \in Calls |-> 0]
    /\ spc = [c \in Calls |-> "none"]
    /\ cur = [c \in Calls |-> 0]
    /\ nxt = [c \in Calls |-> 0]
    /\ tpc = [c \in Calls |-> "none"]

threadVars == <<spc, cur, nxt, tpc>>
sendVars == <<begin, nsent>>
-----------------------------------------------------------------------------
(* main(), one JNI call after another.                                    *)

\* Java calls raopPlay again once the previous main() has returned.
JniCall ==
    /\ mpc = "idle" /\ call < MaxCalls
    /\ call' = call + 1 /\ mpc' = "open"
    /\ UNCHANGED <<mem, ts, tfd, stdinOpen, sendVars, threadVars>>

\* raopcl_open: malloc and memset (timestamp 0, tfd 0).  When RAND_bytes
\* fails it returns NULL (raopcld is leaked) and main() goes to erexit.
raopcl_open ==
    /\ mpc = "open"
    /\ mem' = [mem EXCEPT ![call] = "live"]
    /\ ts' = [ts EXCEPT ![call] = 0]
    /\ tfd' = [tfd EXCEPT ![call] = TfdZero]
    /\ mpc' \in {"connect", "idle"}
    /\ UNCHANGED <<call, stdinOpen, sendVars, threadVars>>

\* raopcl_connect up to raopcl_stream_connect: timestamp = 0, then the
\* RTSP handshake; a failure returns -1 and main() goes to erexit, which
\* does not call raopcl_close.
raopcl_connect ==
    /\ mpc = "connect"
    /\ ts' = [ts EXCEPT ![call] = 0]
    /\ mpc' \in {"control", "idle"}
    /\ UNCHANGED <<call, mem, tfd, stdinOpen, sendVars, threadVars>>

\* raopcl_connectcontrol, whose result raopcl_stream_connect ignores: the
\* control socket may fail to open; when its connect fails, the code closes
\* raopcld->tfd (still 0 here) and sets it to -1; otherwise it starts the
\* sync thread, before raopcl_connecttime has assigned tfd.
raopcl_connectcontrol ==
    /\ mpc = "control"
    /\ \/ UNCHANGED <<tfd, stdinOpen, spc>>
       \/ /\ tfd' = [tfd EXCEPT ![call] = TfdNone]
          /\ stdinOpen' = (stdinOpen /\ tfd[call] # TfdZero)
          /\ UNCHANGED spc
       \/ /\ spc' = [spc EXCEPT ![call] = "data4"]
          /\ UNCHANGED <<tfd, stdinOpen>>
    /\ mpc' = "time"
    /\ UNCHANGED <<call, mem, ts, sendVars, cur, nxt, tpc>>

\* raopcl_connecttime, result ignored too: tfd = open_udp_socket (-1 on
\* failure); a failed connect closes it and sets -1; a failed first write
\* returns with tfd connected; otherwise the timing responder starts.
raopcl_connecttime ==
    /\ mpc = "time"
    /\ \/ tfd' = [tfd EXCEPT ![call] = TfdNone] /\ UNCHANGED tpc
       \/ tfd' = [tfd EXCEPT ![call] = TfdSocket] /\ UNCHANGED tpc
       \/ /\ tfd' = [tfd EXCEPT ![call] = TfdSocket]
          /\ tpc' = [tpc EXCEPT ![call] = "read"]
    /\ mpc' = "stream"
    /\ UNCHANGED <<call, mem, ts, stdinOpen, sendVars, spc, cur, nxt>>

\* The rest of setup: the audio socket (raopcl_stream_connect), RTSP
\* RECORD, the volume, the metadata, auds_open and the console entry.  Any
\* failure goes to erexit without raopcl_close.
StreamSetup ==
    /\ mpc = "stream"
    /\ mpc' \in {"play", "idle"}
    /\ UNCHANGED <<call, mem, ts, tfd, stdinOpen, sendVars, threadVars>>

\* raopcl_send_sample, datagram branch, of the frame pcm_get_next_sample
\* built from bsize samples: count is the frame's size in bytes; the
\* header carries the marker bit while begin is set; then timestamp +=
\* count and begin = 0 (set_fd_event of sfd cannot fail: sfd has its entry).
raopcl_send_sample ==
    /\ mpc = "play" /\ nsent[call] < MaxSends
    /\ \E bsize \in ChunkSamples : ts' = [ts EXCEPT ![call] = (@ + FrameBytes(bsize)) % TS_MOD]
    /\ nsent' = [nsent EXCEPT ![call] = @ + 1]
    /\ begin' = FALSE
    /\ UNCHANGED <<call, mpc, mem, tfd, stdinOpen, threadVars>>

\* The loop ends; raopcl_close closes the RTSP client and frees data, addr
\* and raopcld.  It closes neither sfd, cfd nor tfd and stops no thread.
raopcl_close ==
    /\ mpc = "play"
    /\ mem' = [mem EXCEPT ![call] = "freed"]
    /\ mpc' = "idle"
    /\ UNCHANGED <<call, ts, tfd, stdinOpen, sendVars, threadVars>>
-----------------------------------------------------------------------------
(* The threads.  Every step reads raopcld of the call that started them.  *)

\* data[4+i] = (raopcld->timestamp >> 8*(3-i)) & 0xFF for i = 0 .. 3: four
\* loads of the timestamp, in source order, with no lock; audio frames may
\* be sent between them.  (When the compiler merges the four loads into
\* one, no send falls between them: a behaviour this one includes.)
SyncReadTs(c) ==
    \E i \in 1 .. 4 :
        /\ spc[c] = SyncBytePcs[i]
        /\ cur' = [cur EXCEPT ![c] = (IF i = 1 THEN 0 ELSE cur[c])
                      + TsByte(ts[c], ReadOrder[i]) * ByteWeight[ReadOrder[i] + 1]]
        /\ spc' = [spc EXCEPT ![c] = IF i = 4 THEN "next" ELSE SyncBytePcs[i + 1]]
        /\ UNCHANGED <<nxt, tpc>>

\* nexttimestamp = raopcld->timestamp + 352: a second, unsynchronised read.
SyncReadNext(c) ==
    /\ spc[c] = "next"
    /\ nxt' = [nxt EXCEPT ![c] = (ts[c] + SYNC_STEP) % TS_MOD]
    /\ spc' = [spc EXCEPT ![c] = "write"]
    /\ UNCHANGED <<cur, tpc>>

\* write(raopcld->tfd, ...), whose errors are only logged, then sleep(1).
SyncWrite(c) ==
    /\ spc[c] = "write"
    /\ spc' = [spc EXCEPT ![c] = "data4"]
    /\ UNCHANGED <<cur, nxt, tpc>>

\* read(raopcld->tfd) returns a timing request (a failed read loops).
TimeRead(c) ==
    /\ tpc[c] = "read"
    /\ tpc' = [tpc EXCEPT ![c] = "reply"]
    /\ UNCHANGED <<spc, cur, nxt>>

\* write(raopcld->tfd) of the 32-byte timing response.
TimeReply(c) ==
    /\ tpc[c] = "reply"
    /\ tpc' = [tpc EXCEPT ![c] = "read"]
    /\ UNCHANGED <<spc, cur, nxt>>

ThreadStep(c) ==
    /\ \/ SyncReadTs(c) \/ SyncReadNext(c) \/ SyncWrite(c)
       \/ TimeRead(c) \/ TimeReply(c)
    /\ UNCHANGED <<call, mpc, mem, ts, tfd, stdinOpen, sendVars>>

\* Java calls no more; the process may still run the leaked threads.
Done ==
    /\ mpc = "idle" /\ call = MaxCalls
    /\ UNCHANGED vars

Next ==
    \/ JniCall \/ raopcl_open \/ raopcl_connect \/ raopcl_connectcontrol
    \/ raopcl_connecttime \/ StreamSetup \/ raopcl_send_sample \/ raopcl_close
    \/ \E c \in Calls : ThreadStep(c)
    \/ Done

Spec == Init /\ [][Next]_vars
-----------------------------------------------------------------------------
(* Properties.                                                            *)

\* A sync frame never announces a position the audio path has not reached:
\* the timestamp raopcl_sync assembles from its four unlocked byte loads is
\* at most raopcld->timestamp when it writes the frame, whatever frames
\* raopcl_send_sample sent between the loads (it reads the high byte
\* first).
SyncTimestampNotAhead ==
    [][\A c \in Calls :
         (spc[c] = "write" /\ spc'[c] = "data4") => cur[c] =< ts[c]]_vars

\* Spec 4.2: the sync frame's "next timestamp" is the current timestamp
\* plus 352.  raopcl_sync reads raopcld->timestamp twice while the main
\* thread advances it.
SyncFrameConsistent ==
    [][\A c \in Calls :
         (spc[c] = "write" /\ spc'[c] = "data4") => nxt[c] = (cur[c] + SYNC_STEP) % TS_MOD]_vars

\* Spec 5: close stops the background flows before releasing session
\* memory; no thread step reads a raopcld that raopcl_close has freed.
NoUseAfterFree ==
    [][\A c \in Calls :
         (spc'[c] # spc[c] \/ tpc'[c] # tpc[c]) => mem[c] # "freed"]_vars

\* Setup never closes and the sync thread never writes to a descriptor the
\* session did not open: not descriptor 0, which raopcld->tfd holds from
\* the memset of raopcl_open until raopcl_connecttime assigns it.
NoStrayDescriptorUse ==
    [][/\ stdinOpen => stdinOpen'
       /\ \A c \in Calls :
            (spc[c] = "write" /\ spc'[c] = "data4") => tfd[c] # TfdZero]_vars
=============================================================================
