# A TLA+ model of waveplay's RAOP player

This directory holds TLA+ specifications of the native AirPlay (RAOP) streamer
under `src/jni/raop_play/`, with the TLC configurations that model-check them
and the TLAPS proofs of their main invariants.

## The system

The player is one C program (`raop_play.c`) linked into the Android app through
JNI. It uses a session library (`raop_client.c`) and an audio source
(`audio_stream.c` over `pcm_stream.c`). A single main thread does all the work
in an event loop:

- **Reactor.** `raopld->fds` is a table of `MAX_NUM_OF_FDS` (4) entries
  `{fd, cbf, flags}`. `set_fd_event` updates the entry of an fd, or fills the
  first empty one, or fails when the table is full. `clear_fd_event` empties
  an entry. `main_event_handler` builds the read/write interest sets from the
  table, calls `select` with a 3 s timeout, then sweeps the table. For each
  entry it checks the read side, then the write side, re-reading the entry
  every time, and calls the callback of each side that is ready.
- **Main loop** (`main`, lines 286-334). It switches on `raopcl_get_pause`:
  - `OP_PAUSE`: it only runs the handler.
  - `NODATA_PAUSE`: it polls the source; if the source still has no data, it
    waits in the handler.
  - `NO_PAUSE`: it reads a sample, sends it with `raopcl_send_sample`, then
    drains with the handler while a frame is in flight.
  - When the source is exhausted, it is closed.
- **Console.** `console_read`/`console_command` take `play`, `play <song>`,
  `pause`, `stop` and `quit` from stdin. They open and close sources and
  switch the pause state through `raopcl_set_pause`.
- **Session** (`raop_client.c`):
  - `raopcl_send_sample` builds a frame, stores it as the frame in flight
    (`data`, `wblk_wsize`, `wblk_remsize`) and registers sfd for read and
    write.
  - `fd_event_callback` writes part of the frame when sfd is writable, and
    drops the write interest once the frame is sent.
  - `raopcl_set_pause` adds or drops write interest.
  - `raopcl_pause_check` sends a silent frame every 3 s during
    `NODATA_PAUSE`.
- **Source.** `pcm_poll_next_sample` polls the source's descriptor. When
  there is no data it registers the descriptor with a NULL callback (to wake
  `select`). It clears that entry otherwise.
- **Signal handler.** `sig_action` registers fd 1 for write with
  `terminate_cbf`, so that the next sweep ends the loop.

## Modules

| Module | Models | State and actions |
|---|---|---|
| `FdEvents` | the descriptor table of `raop_play.c` | `set_fd_event`, `clear_fd_event`, the interest sets, and `FdTableUnique` |
| `RaopPlay` | `main`, `main_event_handler`, the console, `sig_action`, and the session and source calls they make | see below |
| `MCRaopPlay` | TLC instance: 4 entries, frames of 2 units | |
| `FdEventsProofs` | lemmas on `set_fd_event`/`clear_fd_event` | |
| `RaopPlayProofs` | the inductive invariant and the theorems on types and uniqueness | |
| `RaopPlayWriteProofs` | the proofs about sfd's write interest: `InFlightArmed` and `PausedWritesNoAudio` | |
| `FdMap` | what the table promises (spec 4.4): a mapping of at most `Capacity` descriptors | `Register` (upsert, refused when full), `Unregister`; `res` is the last call and its result |
| `FdTable` | the table under any sequence of `set_fd_event`/`clear_fd_event` calls | `SetFdEvent`, `ClearFdEvent`; `reg_bar` maps the array to an `FdMap` mapping |
| `MCFdTable` | TLC instance: 2 entries, 3 descriptors | |
| `FdTableProofs` | the proof that `FdTable` implements `FdMap` | |
| `FdTableSignal` | the table with `sig_action` interrupting the main thread's calls | see below |
| `MCFdTableSignal` | TLC instance: 3 entries, 3 descriptors | |
| `RaopSessionProofs` | the proof of `SyncTimestampNotAhead` | |
| `RaopSession` | a UDP session across JNI calls of `main()`, with the sync and timing threads | see below |
| `MCRaopSession` | TLC instance: 2 calls, 2 sends per call, chunks of 1 or 62 samples | |

### RaopPlay variables

- `fds`: the table.
- `pc`: where the main thread is:
  - `top`: the head of the while loop;
  - `play`: after a sample was read;
  - `select`;
  - `sweep`, at position `pos`: position 2i+1 is the read check of entry i
    and 2i+2 its write check;
  - `tail`: the end of `main_event_handler`;
  - `exit`.
- `rdset`, `wrset`: the result of `select`.
- `ret`: the caller of the handler (the pause switch, or the drain loop).
- `rval`: the loop's return code.
- `pause`: `raopcld->pause`.
- `auds`: the source, or `NoAuds`.
- `openDfds`: the open source descriptors.
- `revents`: what poll would report on the current source.
- The frame in flight:
  - `data`: the frame, reduced to its source and whether it carries a marker;
  - `remsize`: `wblk_remsize`;
  - `begin`: the marker flag;
  - `sent`: a bit that flips at every send, so that a replaced frame is
    visible.
- `wait_songdone`.
- `failcmd`: the command that ended the loop.
- `signalled`.

### RaopPlay actions

Each action is one whole handler or step of the code:

- `LoopTop`: the pause switch.
- `Play`: the send and the start of the drain.
- `Select`.
- `ConsoleRead`: `console_read` together with the whole of
  `console_command`.
- `AexRead` and `AexWrite`: the two sides of `fd_event_callback`.
- `Terminate`.
- `EventHandlerTail`: the buffer check and `raopcl_pause_check`.
- `LoopExit`, and `Deactivated` (`isActivated` false).
- Environment actions:
  - `SigAction`;
  - `DataArrives`: the source gets data, or hangs up.

`GoFrom` moves the sweep straight to the next position whose callback fires.
The checks in between change nothing.

### FdTable and FdMap

`FdMap` is the registry as spec 4.4 describes it, with no array: a function
from the registered descriptors to `{cbf, flags}` and at most `Capacity`
descriptors. `res` records the last call (`"set"` or `"clear"`, its
descriptor, and 0 or -1). The callers act on the result: `sig_action` and
`raopcl_send_sample` are told whether the registration was made.

`FdTable` makes the same calls on the array of `raop_play.c`. The refinement
mapping `reg_bar` maps each registered descriptor to the flags and callback
of the first entry that holds it, which is the entry the scans of
`set_fd_event` and `clear_fd_event` find. The property `FdMapRefined`
(`Abstract!Spec`) says every step of the array is the `FdMap` operation of
the same name with the same result. In particular, `set_fd_event` fails
exactly when `MAX_NUM_OF_FDS` other descriptors are registered.

Without `res`, a refinement would say nothing about refusals. A call that
fails wrongly changes no mapping, so it would pass as a stutter.

### FdTableSignal

This module splits `set_fd_event` and `clear_fd_event` where `sig_action`
can observe them. The handler's scans read only the `fd` field, and it writes
only an entry whose `fd` is -1 or 1:

- `SetCall`: both scans, and the update of an existing entry.
- `Fill`: the stores into the empty entry the scan found.
- `ClearCall`: the scan, and the store of `fd = -1`.
- `ClearRest`: the stores of `dp`, `cbf` and `flags`.

`SigAction` runs the whole `set_fd_event(1, ...)` at any point between them.

### RaopSession

This module covers one process that Java calls `main()` in again and again,
with a UDP session. Each call `c` has its own `raopcld`:

- `mem[c]`: none, live or freed;
- `ts[c]`: `timestamp`, reduced modulo `TS_MOD` = 2^32: only its low 32
  bits reach the wire, through the masks of lines 221-224;
- `tfd[c]`: 0 after the memset, -1, or the timing socket.

Shared between the calls:

- `begin`: the static of `raopcl_send_sample`;
- `stdinOpen`: descriptor 0.

The main thread's actions:

- `JniCall`.
- `raopcl_open`, `raopcl_connect`, `raopcl_connectcontrol` and
  `raopcl_connecttime`. The control and timing setup may fail, or succeed
  and start a thread, as the code's branches allow.
- `StreamSetup`: the audio socket, RECORD, volume, metadata and
  `auds_open`. It succeeds or goes to `erexit`.
- `raopcl_send_sample`: the UDP branch. The timestamp grows by the frame's
  byte count `FrameBytes(bsize)`, which is `auds_write_pcm`'s size of a frame
  of `bsize` samples.
- `raopcl_close`.

Each thread runs on the `raopcld` of the call that started it:

- `raopcl_sync` is six steps: four loads of `timestamp`, one for each of
  `data[4..7]` (lines 221-224, high byte first, in the order `ReadOrder`),
  one more read for `nexttimestamp`, and the write. `cur[c]` is the value
  assembled from the bytes loaded so far. The loads take no lock, so a send
  can fall between any two of them and the frame carries a torn value.
- `raopcl_time_connect` is a read and a reply.

The threads never stop, because nothing in the code stops them.

### Abstractions

- **Descriptors.** Sources are descriptors from a small set `Dfds`. An open
  may return any free one, because other threads of the app open and close
  descriptors too.
- **Data.** Sample contents, RTP headers, encryption and the sequence number
  are left out. A frame is its source (a descriptor, or `silence`). The
  length is a number in `0..FrameLen`.
- **Short writes.** `write` may send any number of the remaining units. Over
  UDP it sends all of them.
- **EBADF.** A `select` over a closed descriptor fails with `EBADF`. Every
  interest then looks ready, as the code's result sets are left as they were
  built.
- **Signal handler.** It runs atomically between two steps of the main
  thread.
- **Console input.** At end of input, `read_line` leaves the line
  uninitialised, so any command may follow. The model chooses one.

## Runs

The `MCRaopPlay` runs use 4 table entries (the code's `MAX_NUM_OF_FDS`),
TCP, and frames of 2 units. Two units are enough for a partial write to
leave a remainder.

| Run | cfg | Expect | Shows |
|---|---|---|---|
| `tcp_safety` | `MCRaopPlay_tcp.cfg` | pass | See below. About 3M states, about 70 s. |
| `source_resumes` | `MCRaopPlay_live.cfg` | pass | `SourceResumes`: after an underrun, playback resumes once the source has data again, or the source is gone, or the loop ends. One source descriptor keeps the liveness check within minutes. |
| `signal_lost` | `MCRaopPlay_SignalEndsLoop.cfg` | violation | SIGINT can be lost: the table fills up and `sig_action`'s `set_fd_event` fails silently. |
| `frame_overwritten` | `MCRaopPlay_InFlightFrameKept.cfg` | violation | At a song boundary, `play <song>` starts a new frame over the unsent rest of the old one. |
| `stop_while_paused` | `MCRaopPlay_WriteArmedOnlyWhenPending.cfg` | violation | `stop` while paused arms write with nothing to send. `fd_event_callback` then fails and the session ends. |
| `freed_samples_sent` | `MCRaopPlay_NoFreedSamplesSent.cfg` | violation | `raopcl_send_sample` is called on a buffer that `auds_close` has just freed. |

The other modules' runs:

| Run | cfg | Expect | Shows |
|---|---|---|---|
| `fd_table_refines` | `MCFdTable.cfg` | pass | `FdMapRefined`: the array implements the bounded mapping, results included. 6.6k states, under a minute. |
| `signal_torn` | `MCFdTableSignal.cfg` | violation | `SignalRegistrationKept`: SIGINT between `set_fd_event`'s scan and its store (or between `clear_fd_event`'s `fd = -1` and its `cbf = NULL`) is registered, reported done, and overwritten. |
| `session_safety` | `MCRaopSession_safety.cfg` | pass | `SyncTimestampNotAhead`: the timestamp a sync frame carries, assembled from four unlocked byte loads, is never ahead of `raopcld->timestamp`. About 1.4M states. The mutant loads the low byte first and TLC finds a torn value ahead of it. |
| `sync_frame_torn` | `MCRaopSession_SyncFrameConsistent.cfg` | violation | A send between the sync thread's reads of `timestamp` makes `nexttimestamp` differ from `timestamp + 352` in one frame. A send between two byte loads also gives a torn timestamp: never ahead (`session_safety`), but possibly older than the previous frame's. |
| `threads_after_close` | `MCRaopSession_NoUseAfterFree.cfg` | violation | The sync thread reads `raopcld` after `raopcl_close` freed it. |
| `stray_fd0` | `MCRaopSession_NoStrayDescriptorUse.cfg` | violation | A failed control connect closes stdin; a started sync thread writes to descriptor 0 before `tfd` is assigned. |

Three more defects are visible in the modelled code, but no run states them,
because each property would restate a single line:

- a `pause` refused during `wait_songdone` returns -2, and `console_read`
  turns that into the end of the loop. This goes against its comment at
  `raop_play.c:192`;
- `begin` is a static of `raopcl_send_sample`, so from the second JNI call on,
  the first frame has no marker bit;
- the timestamp advances by the frame's byte count, `FrameBytes(bsize)`,
  and not by its sample count.

`tcp_safety` uses two source descriptors, so a stale entry of one source can
coexist with the next. It checks:

- `TypeOK`;
- `TableUnique`: no descriptor is in two entries;
- `InFlightArmed`: while playing with a frame in flight, the loop never waits
  in `select` without write interest on sfd;
- `PausedWritesNoAudio`: no audio byte is written while paused.

`PROJECT.json` gives the finding of each violation: the line of code, and the
spec text or comment that it contradicts. Each property of a passing run has
a mutant there: a plausible bug in a mapped definition that TLC shows the
property catches.

### Bounds

- **Table.** The table has the code's real size of 4 entries. It holds
  stdin, sfd, the signal's fd 1 and the sources, so the full-table case is
  reached.
- **Sources.** Two source descriptors are enough for an old source's entry to
  outlive it while a new source is open.
- **Frames.** `FrameLen = 2` gives both complete and partial writes.

- **FdTable.** Two entries and three descriptors: a third descriptor meets a
  full table, and a re-registration meets an existing entry. The theorem
  covers every size.
- **FdTableSignal.** Three entries: a cleared entry can have taken entries
  before it, so the handler's scan picks it.
- **RaopSession.** Two JNI calls are the fewest in which the statics and
  the threads of a closed session matter. Two sends per call let the sync
  thread's loads straddle a send. Chunks of 1 or 62 samples give frames of
  11 and 255 bytes, so a send between two byte loads can carry the
  timestamp from one byte into the next (255 -> 266, 255 -> 510), the case
  where a torn value differs from both the old and the new timestamp.
  `MCTsMod` (65536) replaces 2^32, which TLC's integers cannot hold; the
  timestamps of the instance stay below it (`MCTsModAssumption`), so the
  reduction never applies, as in the program's first 2^32 bytes.

With these bounds the RaopPlay state space is finite without a constraint:

- the sequence number is left out;
- the send counter is reduced to the `sent` bit.

### Fairness

`Spec` has weak fairness on `MainStep`, the steps of the main thread. Its
only blocking call is `select`, and that has a timeout of at most
`MAIN_EVENT_TIMEOUT` (3 s). The console, signals, the source and the
receiver's deactivation have no fairness: they may never happen.

## Proofs

`RaopPlayProofs` proves, for every value of the constants under the
assumptions `FdTableAssumption` (the table has at least one entry) and
`RaopPlayAssumption` (a positive frame length, and sentinels distinct from
real descriptors):

- `TypeCorrect`: `Spec => []TypeOK`;
- `TableUniqueInvariant`: `Spec => []TableUnique`.

Both rest on the inductive invariant `IInv`:

- `TypeOK`;
- `TableUnique`;
- `pc = "play" => auds \in Dfds`.

The third conjunct is needed because `Play` registers the current source in
the table: without it, a step could register `NoAuds`. Each action has a
lemma `<Action>Inv`, and `NextInv` combines them. The table facts come from
`FdEventsProofs`:

- `set_fd_event` and `clear_fd_event` keep the table's type.
- `set_fd_event` of a real descriptor keeps `FdTableUnique`. It either
  updates the one entry the descriptor already has, or fills an empty entry
  when the descriptor has none.
- `clear_fd_event` only empties an entry.

`FdTableProofs` proves, for every table size and every set of descriptors
under `FdTableAssumption` and `FdsAssumption` (-1 is not a descriptor):

- `TypeCorrect`: `Spec => []TypeOK` for `FdTable`.
- `FdTableRefinement`: `Spec => FdMapRefined`, that the array implements
  `FdMap`.

The invariant `Inv` is `TypeOK /\ FdTableUnique(tbl)`. Uniqueness is what
makes the refinement hold. With each descriptor in one entry, the map `i |->
tbl[i].fd` from the full entries onto the registered descriptors is a
bijection (`FS_Surjection`). So the table has an empty entry exactly when
fewer than `MAX_NUM_OF_FDS` descriptors are registered
(`RoomIffBelowCapacity`), and `set_fd_event`'s "no empty entry" is `FdMap`'s
"full".

The step lemmas are:

- `SetFdEventReg`: a successful `set_fd_event` is the upsert, and every
  other descriptor keeps its entry.
- `ClearFdEventReg`: `clear_fd_event` is the remove.
- `LeastIn`: the scans stop at a least index, from `WFMin` over the naturals.

### Write interest on sfd

`RaopPlayWriteProofs` proves, for every source set and frame length, and
for every table of at least four entries (`RaopPlayTableAssumption`):

- `InFlightArmedInvariant`: `Spec => []InFlightArmed`;
- `PausedWritesNoAudioProperty`: `Spec => PausedWritesNoAudio`, the action
  property.

`raop_play.c:43` defines `MAX_NUM_OF_FDS` as 4, which justifies the
assumption. The bound matters. With a 2-entry table, TLC finds
`InFlightArmed` violated: the first frame finds the table full (console and
source), `set_fd_event` fails silently, and the frame is never armed. With
3 entries TLC finds no violation.

Neither property is inductive. The inductive invariant `WInv` is `IInv`
together with:

- `SfdFirst`: sfd has an entry, or only the console and fd 1 are
  registered, with no frame and no pause. A source is first registered in
  `Play`, by the source poll. `raopcl_set_pause` or `raopcl_send_sample`
  then register sfd in the same step, with at most three descriptors in the
  table (`SfdRoom`, from `RoomBelow` and the pigeonhole principle). Nothing
  clears sfd. So `raopcl_send_sample` and `raopcl_set_pause`, which ignore
  `set_fd_event`'s result, never fail.
- `WriteArmedWhilePlaying`: a frame with bytes left while playing keeps
  write interest, at every point of the loop, not only at `select`.
- `PausedArmedOnlySilence`: in a pause, write interest exists only for
  `raopcl_pause_check`'s silent frame.
- `Owned`: only sfd's entry has `fd_event_callback`.
- `StdoutBySignal`: fd 1 has no entry before the signal. `sig_action` then
  fills an empty entry, never the one the sweep is at.
- `SweepFires`: the entry the sweep is at fires in the current table.
- `PlayingUnpaused`: the `NO_PAUSE` branch runs only unpaused.

TLC checked `WInv` as an invariant before the proof, with TCP and with UDP.
Each action has a lemma `<Action>W`, and `NextW` combines them with
`NextInv`.

The action property follows from `StepNoAudio`:

- only `fd_event_callback`'s write shortens the frame;
- at that write, `SweepFires` and `Owned` put the sweep at sfd's entry,
  with write interest;
- uniqueness makes that entry the one `FlagsOf` reads;
- `PausedArmedOnlySilence` then gives the silent frame or no pause.

The table lemmas behind this are in `FdEventsProofs`:

- where a call writes: `SetFdEventAt` and `ClearFdEventAt`;
- what a call on another descriptor keeps: `SetFdEventKeeps` and `KeepsFlags`;
- which flags a successful call leaves: `SetFdEventFlags`;
- when an empty entry must exist: `RoomBelow`.

### Sync timestamps

`RaopSessionProofs` proves `SyncTimestampNotAheadProperty`:
`Spec => SyncTimestampNotAhead` for every number of JNI calls, sends per call
and chunk sizes, under `SessionAssumption` and the hypothesis `NoWrap(M)`:
no frame is larger than `M` bytes, and `MaxSends * M < 2^32`, so no session
reaches the wrap.

The property is not inductive. A torn value is below `timestamp` only
because of what each load fixed. The inductive invariant `SInv(M)` adds:

- `AssembledBelowTs`: after the load of the byte of weight 2^24, 2^16 or
  2^8, the assembled value is at most `timestamp` with its lower bytes
  cleared (`Floor`); after the last load it is at most `timestamp`. A send
  only raises `timestamp`, and `Floor` is monotone (`FloorMono`); the next
  load adds exactly the next byte (`ByteSplit`, `TopByte`);
- `TsBelowSends(M)`: `timestamp` is at most the bytes sent so far, so with
  `NoWrap(M)` the reduction modulo 2^32 is never taken;
- `SetupBeforeSync` and `LaterCallsIdle`: `raopcl_open` and
  `raopcl_connect` reset `timestamp` to 0 only before the call's sync
  thread starts, and calls to come have no threads (`ZeroTs`).

### What stays with TLC

- **Liveness.** `SourceResumes` depends on fairness and `ENABLED`, which the
  prover does not handle.
- **Signal race.** The signal race of `FdTableSignal` is only
  model-checked, as a violation.
- **RaopSession.** Its violated properties are only model-checked. The
  wrap after 2^32 bytes (hours of playback) is in the model but reached by
  neither TLC, whose instance stays below `MCTsMod`, nor the theorem, whose
  `NoWrap` hypothesis excludes it. A torn read across the wrap can assemble
  a value far ahead of `timestamp`.
- **Compiler reordering.** The loads are taken in source order. A compiler
  that merges them into one load gives a special case of the model's
  behaviours; one that reorders them is not covered.

## Not modelled

- **Packet bytes.** The byte layout of the RTP and sync headers, the sequence
  number, the TCP branch's legacy length field, and `calculate_timestamp`'s
  NTP arithmetic are formatting that no property tells apart. The timestamp
  arithmetic and the marker bit are modelled in `RaopSession`.
- **Crypto context.** `encrypt()` resets the rolling vector to the IV on
  every call, so CBC does not chain across packets. AES and RSA are opaque.
  A block-chaining model of one call would only restate that the vector is
  copied before each call.
- **Pacing.** `raopcl_count_samples`'s threshold `BUFFER *
  MAX_SAMPLES_IN_CHUNK` and `DEFAULT_SAMPLE_RATE` come from headers that are
  not in `src/`. The growth of its static counter, and its overflow, cannot
  be stated from the code.
- **RTSP.** `rtspcl_*` is not in `src/`, so each exchange is a step that
  succeeds or fails.
- **Argument parsing.** `main`'s argument loop reads `argv[7]`, one past
  the JNI glue's array of 7. What it finds there is undefined.
- **Signal before setup or after free.** The handler is installed before
  `raopld` is allocated and stays installed after it is freed. No module has
  a table that is missing or freed.
- **Socket-mode source.** `pcm_open`'s bind/listen/accept errors are ignored;
  every opened source has a descriptor in the model.
