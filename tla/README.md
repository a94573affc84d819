# A verification development for albacore

albacore (a fork of nrsc5) is a receiver for NRSC-5 digital radio: a C library
that turns radio samples into audio and data, a command-line program that plays
them, and Python bindings. This directory holds TLA+ modules that model the
library's and the program's control, TLC configurations that check them on
small instances, and TLAPS proofs of what holds for every value of the
constants. Line numbers refer to `src/src/*.c` unless another path is given.

## 1. The system

```
 rtl-sdr | rtl_tcp | file | samples from the caller
      |  worker thread (nrsc5.c)  or  the caller's thread (nrsc5_pipe_samples_*)
   input.c     fills a window of samples
   acquire.c   symbol timing, carrier offset, keeps samples back to realign
   sync.c      blocks of 32 symbols, sync_state, block counter
   decode.c    interleavers, Viterbi: P1, P3 and PIDS frames
   frame.c     PDUs, HDLC, CCC, AAS               pids.c   station information
   output.c    elastic buffers of packets, LOT files, SIG, PSD, HERE images
      |  callback
   main.c      audio pool -> audio_main -> libao; keyboard; files
```

### Components

| Component | State it keeps | Operations | What makes it correct |
|---|---|---|---|
| **Audio pool and threads** `main.c` | two linked lists (`head`/`tail`, `free`), `program`, `done`, one mutex, one condition | `push_audio_buffer`, `audio_main`, `change_program`, `input_main`, `done_signal`, `reset_audio_buffers`, `cleanup`, `main` | no buffer lost, shared or written while it plays; order kept; threads never wait for each other; the program ends |
| **Session and worker** `nrsc5.c`, `rtltcp.c` | `stopped`, `worker_stopped`, `closed`, `freq`, `gain`, `auto_gain`, the source; one mutex, one condition | `nrsc5_start`, `_stop`, `_close`, `_set_*`, `nrsc5_pipe_samples_*`, `worker_thread`, `worker_cb`, `do_auto_gain` | calls return; a stopped worker is at rest; a start is served; a lost device is reported once; the gain fits the tuning |
| **Synchronisation** `input.c`, `acquire.c`, `sync.c`, `decode.c` | `sync_state`, `cfo_wait`, `psmi`, `bc`, `offset_history`, interleavers, delay lines | `acquire_process`, `sync_process_fm/am`, `decode_push_*`, `decode_reset`, `input_reset` | frames made of one stretch of received blocks; loss noticed; synchronisation found again |
| **Framing** `frame.c` | PDU remainders, CCC detectors of the fixed subchannels, AAS buffers | `frame_push`, `frame_process`, `parse_hdlc`, `process_fixed_data` | packets reassembled across frames; a wrong width is not believed |
| **Elastic buffers** `output.c` 31-168 | a ring of packets per program, read and write offset, halves | `output_align`, `output_push`, `output_advance` | each packet comes out once, in order, whole |
| **AAS: SIG, LOT, PSD** `output.c` 400-930 | services and ports, a cache of files per port | `parse_sig`, `find_lot`, `find_free_lot`, `process_port`, `output_aas_push` | a file is reported when and only when all its fragments are there |
| **HERE images** `here_images.c` | one image under assembly | `here_images_push`, `here_images_reset` | an image is made of its own packets |
| **Station information** `pids.c` | several multi-frame texts, alerts, what was shown | `pids_frame_push` and its decoders | texts are made of frames of one text; reports on change |
| **FEC** `conv_dec.c`, `rs_*.c` | none that outlives a call | Viterbi, Reed-Solomon | numeric |
| **Signal processing** `firdecim_*.c`, parts of `acquire.c`, `sync.c` | filter windows, phases | filters, FFT, equaliser | numeric |
| **Support** `log.c`, `unicode.c`, `strndup.c` | none | conversions | |
| **Python** `support/` | as the C session | wrappers | as their C callees |
| **Laboratory** `lab/` | files | offline scripts that run the receiver | |

### How they interact

* *Threads.* The worker thread runs the whole chain below `nrsc5.c` and calls
  back into `main.c` from inside `input_push_cu8`, without the session's mutex.
  With a file or a pipe (`-r`) there is no worker: `main` itself runs the chain.
  `audio_main` and `input_main` are threads of `main.c`.
* *Locks.* `worker_mutex`/`worker_cond` for the session; `st->mutex`/`st->cond`
  for the pool. Neither thread takes one while it holds the other. Several
  functions read or write session fields without the lock.
* *Upward control.* `frame_process` sets `sync_state` back to none three
  layers above it; a new synchronisation calls `decode_reset` below;
  `nrsc5_set_frequency` resets the chain from another thread.

### Behaviours that are hard

Pointer surgery by three threads on two lists; a condition variable shared by
two waiters and signalled for one; flags read without their mutex; an
asynchronous read that only its own callback can cancel; a gain search under
the mutex; retuning between a stop and a start; devices that vanish in the
middle of anything; frames whose interleavers are never cleared; loss of
synchronisation noticed only by a P1 header; counters that pass zero; ring
buffers realigned at any time; caches that evict what is still incoming.
`PROJECT.json` lists each at its line ("hazards"), with the properties that
would catch it going wrong.

## 2. The modules

| Module | What it is |
|---|---|
| `LinkedLists` | lists threaded through a `next` function, used by the pool |
| `AudioQueue` | the abstract pool: a bounded FIFO that can be emptied |
| `AudioBuffers` | `main.c`: pool, decoder, player, keyboard, shutdown |
| `Worker` | `nrsc5.c`: the session's API and its worker thread |
| `Sync` | `acquire.c`, `sync.c`, `decode.c` and the resync in `frame.c` |
| `ElasticBuffer` | `output.c` 31-168, `frame.c` 602-641: the ring of packets of a program |
| `LotFiles` | `output.c`: the LOT branch of `process_port` and its cache of files |
| `StationInfo` | `pids.c`: station information put together from PIDS frames |
| `FrameChannel` | the abstract subchannel: frames that were sent, in order, some missing |
| `FixedData` | `frame.c`: the fixed data of a logical channel, from PDU to AAS frame |
| `HereImages` | `here_images.c`: traffic and weather images out of a stream of messages |
| `DataPorts` | `output.c`, `nrsc5.c`: the SIG table, the data ports and their records; uses `HereImages` |
| `MC...` | values for the model checker, one for each of the modules that are run |
| `AudioBuffersProofs`, `WorkerProofs`, `SyncProofs`, `ElasticBufferProofs`, `LotFilesProofs`, `StationInfoProofs`, `FixedDataProofs` | theorems about the modules they are named after |
| `DataPortsProofs` | theorems about `DataPorts` and `HereImages` |

### AudioBuffers

The pointers are modelled as pointers: `next[b]`, `head`, `tail` and `free`
are those of `main.c`, `0` is NULL, and each action assigns what the code
assigns. `samples[b]` is the program whose audio a buffer holds, all that is
kept of its contents. A section between lock and unlock, or lock and wait, is
one action:

| Code | Actions |
|---|---|
| `push_audio_buffer` 126-165 | `PushAudio`, `PushWaits`, `PushSkips`, `PushResumes`, all but the guards in `Enqueue` |
| `audio_main` 645-684 | `TakeBuffer`, `WaitForAudio`, `LeaveAudio`, `ReleaseBuffer` |
| `input_main`, `on_key_press` 686-760 | `CheckDone`, `NoKey`, `PollError`, `PressDigit`, `PressQ`, `QuitReset` |
| `change_program` 295-310 | `ChangeProgram` |
| `main` from the read loop to the end | `ReadChunk`, `EndChunk`, `EndOfInput`, `LeaveLoop`, `JoinAudio`, `JoinInput`, `StopLibrary` |
| `cleanup`, `reset_audio_buffers` | `ResetAudioBuffers`, `FreeBuffer`, `Exit` |
| the world | `LoseDevice`, `SpuriousWakeup` (POSIX allows it) |

`mode` says how the program was started: `pipe` (with `-r`, the decoder is the
main thread and waits for a free buffer) or live (the worker decodes and drops
what finds no buffer), with or without a terminal. The pool is filled only by
packets of the selected program. The 'mute' of `q` is the program -1.

`AudioBuffers` implements `AudioQueue` under the mapping that reads `queue`
and `available` off the pointers (`QueueSpec`).

### Worker

`w` is the place of the worker: asleep at `pthread_cond_wait`, woken but
without the mutex, at the head of the loop with the mutex, searching for a gain
(still with it), reading, or inside `input_push_cu8`. `api` is the place of the
application, one thread that calls one function at a time. The three kinds of
source differ where the code does: only a local receiver's callback looks at
`stopped` between two buffers and cancels the read; only the other two have
short reads; a file has neither tuner nor gain. `device` says what is left of the
source: it is `good`; it is `gone` (unplugged, or a connection that is broken: a read
returns an error); it has a `part` of a block left, which makes a short read
(`ReceiveLast`); or it has `ended`. A socket tells an error once or again and again,
and a read or a command may use it up (`Told`, `CommandFails`). `ReadFails` is the worker's
reaction to an error, to a short read and to the end of a file: it stops and reports. An
empty read of a closed rtl_tcp connection is none of these (`ReadNothing`): `rtltcp_read`
returns 0, `err` stays 0, and the worker reads on, which `Silent` names. `nrsc5_stop` is three actions
(call, signal, wait), `nrsc5_set_frequency` two (up to the tuner, the resets),
since the worker moves between them. The gain search is a number of probes
chosen when it starts, each a `set_tuner_gain` and a read; either may fail.
A `set_tuner_gain` that fails is tried again at once, and `rtltcp_reset_buffer` goes on
for as long as `recv` fails (`RetryProbe`).

`GainMayFail` and `StopFirst` name two assumptions on the world: whether
what the gain search asks of a device that is gone keeps failing, and whether the application
closes only stopped sessions, as `main.c` does and `support/nrsc5.py` does not.

### Sync

One step is one run of `acquire_process`, which gives one block to
`sync_process_fm` or `sync_process_am`, and all that follows from it:
`decode_reset`, the collection of blocks into P1 and P3 frames, and
`frame_process` when one is complete. The samples are abstracted to `tx`, the
block the transmitter sends when the receiver's blocks are aligned to it, and
`signal`. With a good signal the reference subcarriers tell the truth, with a
bad one they may tell anything, so false locks happen. `heard` is a history
variable: how many blocks the decoder was given since its last reset, and how
many of the latest were right or wrong. A P1 header is repaired if all the
blocks it was spread over were right, beyond repair if all were wrong, and may
be either otherwise.

| Code | Actions |
|---|---|
| `sync_process_fm` 447-563 | `FineFM`, `Agree`, `Noise`, `DetectCfo`, `WaitCfo` |
| `sync_process_am` 928-1040 | `CoarseAM` with `Realign` and `History`, `FineAM` |
| `decode_push_pm`, `decode_push_px1`, `decode_push_pl_pu_s_t` | `DecodeFM`, `PushPX1`, `DecodeAM` |
| `decode_reset` | `Decoder` |
| `frame_process` 536-540 | the failing outcome of `P1Frame` |
| `input_reset` | `input_reset` |
| the world | `Fade`, `Slip` |

`bc` and the interleavers keep their contents through every reset, as in the
code; the properties say that this does no harm.

### ElasticBuffer

One step is one run of `acquire_process`: `output_advance` plays the next
packets off the ring, and in the last block of a frame `frame_process` then
brings a PDU. Packets are numbered as the station makes them, and places in the
stream are counted in half packets, since a PDU may begin and end within a
packet; what travels is those numbers modulo the ring (`seq`) and modulo 8
(`pdu_seq`). A packet in the ring carries the numbers of its two halves, so that a
property can tell a packet put together from two different ones. `fronts`,
`backs` and `now` are the specification's own account of what was received and
what is due, kept in unbounded numbers; `steady` counts the packets played
since `now` jumped, because a jump leaves packets behind that only a
whole turn of the ring clears. A jump by whole turns counts too, though
`audio_offset` does not show it.

| Code | Definitions |
|---|---|
| `output_advance` 100-168 | `Window`, `Played`, `Advanced`, `NextOffset`, together `Advance` |
| `output_push` 47-91 | `Pushed` |
| `frame_process` 602-609 (`seq`, `output_offset`, `output_align`) | `Seq`, `OutputOffset` |
| `frame_process` 614-640 | `PduPushed`, `Shape` |
| `acquire_process` with a PDU, without one | `Receive`, `Miss`, `Block` |
| `acquire_keep_extra` | `Repeat`: a part of the signal is processed again |
| the world | `Skip`, and in `Receive` the packets with a wrong CRC |

### LotFiles

One step is one message on the port. A file stands for its contents and its
header's metadata. A slot keeps of each fragment whose it was, of the metadata
the file, and its timestamp. The code only compares timestamps, so the model
keeps their ranks (`Ranked`), which makes the counter's growth finite without a
bound. `reports` and `since` (for each slot, the slots used since it was) are
history variables.

| Code | Definitions |
|---|---|
| `find_lot`, `find_free_lot`, `aas_free_lot` | `Kept`, `FreeLot`, `Unused`, together `Found` |
| header, change of metadata 752-823 | `Headed`, `NewHeader`, `ShortHeader` |
| fragment, completion 825-865 | `Stored`, `Complete`, in `NewFragment`, `Duplicate`, `LongFragment` |
| `aas_reset` by `output_reset` | `output_reset` |
| the station | `Air`, `OtherPort`; any message may be lost or repeated, in any order |

### StationInfo

One step is one PIDS frame whose CRC is good, with its one or two payloads. A
frame that is lost is one that is not received, so nothing has to be said about
loss: any part may come at any time, or never. A payload is one part of an
*item*: a text with its number, a location in two halves, a list of services, a
list of parameters. The station changes an item at any time (`Change`), and
`pids_init` runs at any time. `menu` chooses the kinds a station sends, so that
kinds multiply with each other only where the code makes them interact.
`told` and `sis` are what the callback was given last, `started` says that part 0
of the text now sent has arrived, and `quiet` counts frames without an alert.

| Code | Definitions |
|---|---|
| `pids_frame_push`, `sis_decode` 935-1030 | `pids_frame_push`, `Decoded`, `Legible`, `Handled`, `payload_sizes` |
| the decoders 394-933 | one operator each, named as the function |
| start of a new text, storing a part, completeness | `Begun`, `Stored`, `Complete` |
| the checksum of a message, the CRCs of an alert | `Passes` |
| `decode_control_data` and the texts of an alert | one unit with its parts |
| `reset_alert`, the count of frames without an alert | `reset_alert`, `Expired` |
| `report` | `report` |
| a text taken off display, or stored over, without a report | `Awaited`, `Overwritten` |
| `pids_init` | `Cleared`, `Fresh`, in the action `pids_init` |

### FixedData and FrameChannel

One step is one PDU: `frame_push` and `process_fixed_data`. The PDU is put
together from the station's streams, byte by byte, since where a marker, a flag or a
packet is cut is what the code has to cope with; a byte is a kind and a value. It
may be missed, or one byte of it (subchannels, control field or width) may be another
one, or `frame_reset` may run. An FCS is taken to tell a frame from any other bytes.
`FixedData` implements `FrameChannel` on every subchannel (`FramesInOrder`): the
mapping takes `sent` from the station's position and `delivered` as it is.

| Code | Definitions |
|---|---|
| `frame_push`, `has_fixed` | `Receive`, `Damage`, `Miss` |
| `process_fixed_data` 458-514, the width | `Believed` |
| ... the subchannels' places and blocks | `Start`, `Cut`, `process_subchannel` |
| `parse_hdlc` 369-391 | `parse_hdlc` |
| `process_fixed_ccc` | `process_fixed_ccc`, `IsReady` |
| `aas_push` | `aas_push` |
| `frame_reset` | `Reset` |

### HereImages and DataPorts

`DataPorts` extends `HereImages`: a step is a message on a port. The first SIG
message is parsed (`parse_sig`), a new set of records is made and given to every
component (`nrsc5_report_sig`), and every later event of a port points to the
records of its component. What the table calls a port decides whether its messages
reach `here_images_push`. A SIG is a sequence of entries; an unreadable entry stops the
parser and what was read before it stays. Records are numbered by the table they were
made for, so that a property can tell records that were freed.

In `HereImages` a unit of the stream stands for bytes that have one role: the two
halves of a marker, the second with the length, and the parts of a packet. The station
puts packets of its tiles on its line, in any order and renewed or not, and cuts the
line into messages anywhere. `shown`, `due` and `mixed` are history variables.

| Code | Definitions |
|---|---|
| `here_images_push` | `Begun`, `Taken`, `AllTaken`, `here_images_push` |
| `process_packet` | `NewImage`, `process_packet` |
| `here_images_reset` | `here_images_reset` |
| `parse_sig`, `find_component` | `Entry`, `WithService`, `WithComponent`, `find_component`, `parse_sig` |
| `find_port`, `process_port` | `Matches`, `Carrying`, `find_port`, `Reported` |
| `output_aas_push` | `SigMessage`, `PortMessage`, `HereMessage`, `OtherMessage` |
| `nrsc5_report_sig`, `nrsc5_clear_sig` | the same names |
| `aas_reset`, `output_reset` | the same names |
| the station and the channel | `Air`, `Sends`, `Misses`, `Lost` |

## 3. What is checked

Each property is stated in a comment at its definition, and for each property
of a passing run `PROJECT.json` names a mutant of the code (a missing signal, a
missing reset, a dropped guard) that TLC sees break it.

| Run | Instance | What it shows |
|---|---|---|
| `AudioPool` | 3 buffers, 2 programs, 2 packets a read, all four ways to start, fair | types; the pool is a partition at every step (`PoolPartition`); live, the queue holds the selected program only; decoder and player never both sleep without a keyboard; a batch run plays all it queued; memory is returned last and all of it; no buffer is overwritten while queued or played (`AudioIntact`); the pool implements `AudioQueue`; with fair threads queued audio leaves the queue, and once `done` is set the process exits, unless it reads a file and has a terminal (`PoolRunsOn`) |
| `AudioQuit` | 2 buffers, fair; a file and a terminal | **violated**: `q` may leave the decoder asleep for ever |
| `WorkerSession` | three sources, 2 frequencies, 2 probes; stop before close and before a change of mode; fair | types; `nrsc5_stop` returns, to a worker at rest; resets never meet a decoding worker; a searched gain belongs to the tuning; at most one loss report a start; a source that breaks or ends stops the worker (`LossNoticed`); stops return, starts are served, close returns (`CallsServed`). Losses noticed and starts served: all but those of an rtl_tcp connection that the server closes between two blocks (`Silent`, section 5) |
| `WorkerGain` | the same, setting a gain may fail | **violated**: `nrsc5_stop` hangs behind the gain search |
| `SyncResync` | FM and AM, 4 blocks a frame, interleaver of 2 pairs, 2 frames of diversity, wait of 3, 2 upsets; fair | types; P1 and P3 frames are whole (`FramesWhole`); a lost station keeps the receiver synchronised for less than two P1 frames; FM always finds a good station again |
| `SyncAM` | AM with the values of the code, 1 upset | **violated**: AM never finds it again |
| `Elastic` | ring of 8, `pdu_seq` of 4; FM-like PDUs of half the ring in two blocks, AM-like ones of one packet; any PDU unreadable, any one packet of it damaged; one block lost or doubled, or a reset; 16 packets | types, and the ring holds exactly what was received whole and is not past (`RingIsFaithful`); `audio_offset` is the place of the packet the station means (`InStep`); a block plays whole packets that are due (`PlayedOnTime`) |
| `Lot` | 2 slots; 4 files of 3 identifiers in 3 line-ups, 3 changes or resets, bad messages; fair | types, no file is split over slots and no slot mixes identifiers (`SlotsConsistent`); a file is reported when it is complete, and once (`ReportedRight`); the least recently used slot gives way; every file that stays on the air is completed |
| `LotReuse` | two files of one identifier, one after the other | **violated**: a file is reported with a fragment of another |
| `Station` | seven menus of one or two kinds of payload, texts of 2 and 3 parts, an alert timeout of 3, 3 changes or resynchronisations; fair | a text on display is one text and the one that is sent, also when its parts met those of another (`TextsWhole`); the last `NRSC5_EVENT_SIS` says what one made now would say (`ReportCurrent`, exceptions below); an alert ends by the limit and not before it (`AlertHeld`); once the station stays as it is, the events and the report come to say what it sends (`Informed`, its contents below) |
| `FixedData` | subchannels of 5 and 6 bytes in blocks of 2 + 4, 2 frames of 2 bytes, a control field of 2 and packets of 2; 2 faults anywhere | no buffer outgrows its array; the width that is believed is the station's; every frame whose first block begins a payload's length after the last byte its subchannel lost arrives (`CleanDelivers`); a short run of good PDUs opens the channel (`Opens`); only frames that were sent are handed over, in order, once (`FramesInOrder`, the refinement) |
| `DataPorts` | all tables of up to three entries after the first, two tables for retuning; images of three tiles, messages of at most 2 units, sequence numbers modulo 3 | the table is what the station announced last of each component (`TableIsAnnounced`); events point to records that live, and none leak (`RecordsLive`); images are whole and told once, across losses and resets (`ImagesWhole`); a loss costs only the image it falls in (`ImagesCaught`) |

### What the listener is told

`ReportCurrent` compares the last `NRSC5_EVENT_SIS` with `report`, field by field, for what
is known and for what is not. It excepts, by name, what the code does without asking for a
report: part 0 of another long name, message or alert takes the old one off display
(`Awaited`: `pids.c` 452-458, 533-538, 865-870); parts of a text whose part 0 was lost are
stored over the one on display (`Overwritten`); and parts may replace those of a slogan on
display.

`Informed` says of each kind what is told in the end, in the events and in the report:
identifier, short name, location, and sound messages and alerts exactly as sent; a long
name exactly, unless a slogan is on display; of the services, all that the receiver has room
for, in the report; of the parameters, each group that the station sends whole, in its event
(the report has none). A universal short name and a slogan are displayed once, so
they are promised to be in the report only for a station that never changes them
(`SteadyAgrees`). The end of an alert is told, in the event and in the report, unless part 0 of
another has displaced it and nothing more of that one comes (section 5).

### Bounds and why they are enough

* *Pool.* The code has 16 buffers (`main.c` 44). Three tell a queue of no, one and
  several elements apart from an empty and a non-empty free list while one is
  played; the proofs cover every number. Two programs suffice for "same" and
  "other". A read gives at most `ChunkPackets` packets, so that a read can bring
  none, the last or a further one.
* *Session.* Two frequencies are one change and its return; two probes give a
  search that is cut before, between and after probes. A source breaks or ends once, at any step. `lost` is bounded by the
  property itself.
* *Synchronisation.* 4 blocks a frame are the least in which the four counts
  of `offset_history` differ (AM) and pairs of blocks have neighbours (FM); the
  code's interleaver takes 16 pairs and its delay lines 4 frames. `heard`
  saturates at `Enough`, beyond every number a property compares it with.
  `MaxUpsets` bounds the losses of samples and resets, not fading.
  `SyncAM` uses 8 blocks, diversity 4 and wait 8, as in the code.

* *Elastic buffer.* 8 slots keep the code's proportions: an FM PDU stands for
  half the ring, and the 8 (here 4) values of `pdu_seq` span a multiple of half the
  ring in AM, which is what the correction of `output_offset` is for. 16 packets
  are two turns; the numbers start above zero so that the station's past exists.
  A PDU starts 0, 1 or 7 half packets after the packet to play, which gives whole,
  split and, with 7, the furthest packets the correction must tell from those of the
  other half of the ring.
* *LOT files.* Two slots and three identifiers overflow the cache with one file.
  Three changes let a file go, another take its identifier, and the first
  return. Line-ups never exceed the cache: with more files than slots, completion
  cannot be promised. `OldestGoes` also names the tie that a change of metadata
  makes (793), and fails without that exception.

* *Station information.* Texts of two and of three parts let a longer follow a shorter
  one and its reverse; `MAX_FRAMES` is the longest. Three texts of a kind are those
  sent before, now, and one with a wrong checksum. The limit of 3 stands for 16: the
  timeout is reached with payloads of another kind in between. One audio slot and
  two data slots are fewer than the services sent. Two texts of a kind never
  share a number: the numbers wrap at 8 or 4, and a station that comes round
  to a number while its old text is still held is beyond the bound.
* *Fixed data.* A subchannel prime to its block (5 against 6) meets every cut of a
  block by a PDU, and one of exactly a block none; a frame with its flag (3) is cut by a
  payload (4) everywhere. `MAX_AAS_LEN` is a frame, so that
  the longest frame must fit (`CleanDelivers`) and a lost flag, which joins two frames, overflows. Two faults are a damage and a second before its effects are over.
  Idle blocks precede the frames, since the first frames meet a channel not open yet.
* *Data ports.* Three entries contain every pair of repetitions (a component told again,
  a service told again, an entry after an unreadable one). Two sets of records in memory are one
  more than the code should ever have. Images of 2, 3 and 1 units with messages of 1 and 2 cut
  everywhere, markers included; 3 sequence numbers are few enough to wrap, and
  only as many messages as there are numbers less one may be lost in a row: with 65536 lost
  the code cannot tell.

### Fairness

* *AudioBuffers.* Weak fairness for each thread: a thread that can run is run
  and is given the mutex. `poll` times out after 100 ms, so the keyboard thread
  turns without a key. Nothing obliges a live station to send, a user to press,
  a device to vanish, or a wait to return without a signal.
* *Worker.* Weak fairness for the worker (a source that is good delivers),
  strong fairness for the application's pending call: it competes for a mutex
  the worker takes and gives again and again, and POSIX mutexes on the
  platforms the code builds for do not starve a waiter for ever. No call, loss
  or spurious wake-up is obliged to happen.
* *Sync.* Weak fairness of `Block`: samples keep coming. `Fade`, `Slip` and
  resets are never obliged; `ResyncFM` and `ResyncAM` assume that fading ends.
* *LotFiles.* `Carousel`: the station sends a table, and each fragment of what it
  carries again and again together with its header, which is what a carousel of files
  is for. Nothing is asked of fragments sent without a header.
* *StationInfo.* Weak fairness of each payload the station goes on sending, as the sole
  payload of a frame: stations repeat their information, and each part gets through
  some time. Changes and resynchronisations are never obliged.
* *FixedData* and *DataPorts* state no fairness. That the channel opens and that an image is
  not missed are bounded responses (`Opens`, `ImagesCaught`), which are safety.

`CHECK_DEADLOCK FALSE` is set for the runs with a terminal and a file, where the
process really may stop with a sleeping decoder, which is what `AudioQuit` shows; and for `Elastic`, which ends at its bound on packets.

## 4. What is proved

All proofs are checked by TLAPS with no assumption but the named ones on the
constants, which TLC evaluates in the runs.

**AudioBuffers**, for every `AUDIO_BUFFERS > 0`, set of programs, length of
read and way to start. `IInv` has four parts:

* `TypeOK`;
* `PoolInv`, the partition with witnesses: there are sequences `q` and `f` that
  the pointers spell out, without repetition, disjoint, and together with the
  buffer in hand and the freed ones the whole pool. `PoolPartition` draws `q` and
  `f` from sequences no longer than the pool, so a count (`Room`) is carried
  along, and `HeldInv` (a buffer is in hand exactly while it plays) because
  `ReleaseBuffer` would otherwise be free to put NULL on a list;
* `WaitInv`, who may be asleep when: without it nothing excludes that decoder and
  player sleep together, since that depends on how many buffers the pool has
  when the decoder goes to sleep;
* `ShutdownInv`, the order in which threads leave.

`Invariance` shows `Spec => []IInv`; `TypeCorrect`, `PoolCorrect`,
`NoMutualWaitCorrect`, `BatchCorrect` and `CleanupCorrect` draw the checked
properties from it, `LiveQueueCorrect` and the action property `AudioIntactCorrect`
too. `Refinement` shows `Spec => QueueSpec`: with `q` and `f` as witnesses of the
abstract `queue` and `available`, each step is one move of the queue (filled,
taken, emptied, released, returned) or none. The list surgery comes first: a
new head (`ListTail`), an append and the hanging of a list on another
(`ListConcat`), frames (`ListFrame`), and that the pointers determine the list
(`ListUnique`), which needs a least difference and hence `LeastNat`.

**Worker**, for every set of frequencies, sources, length of search and both
assumptions on the world: `Invariance` of types, `FlagInv` (what the flags say of
the worker's place), `LostInv` (a reported loss means the worker was stopped)
and `GainInv`; from it `TypeCorrect`, `ResetCorrect`, `GainCorrect`,
`LostOnceCorrect` and, for steps, `StopCorrect`. `ResetCorrect` is the
interesting one: `nrsc5_set_frequency` looks at `stopped` without the lock, and
is safe only because `nrsc5_stop` waited and nobody else starts. `nrsc5_set_mode` looks
at nothing; it is safe as long as the application calls it for stopped sessions
(`StopFirst`).

**Sync**, for every number of blocks in a frame, depth of the interleaver, diversity
and wait: `TypeCorrect`, `FramesCorrect`, `LossCorrect`. What makes a frame whole is
not in the state of the code, so `IInv` adds to types and `FramesWhole` what a fine
synchronisation stands for (`FineInv`): `started`, `bc`, the fill of the interleaver
and the frames waited for never claim more blocks than were heard since the decoder was
reset (FM, AM), and no more wrong ones have come in a row than the last P1 header allows.

**ElasticBuffer**, for every ring of even length, every channel whose PDUs fit half of
it and whose `pdu_seq` spans a multiple of that half, and every latency below half the
ring: `InStepCorrect`, `RingCorrect`, `PlayedCorrect`. All of the code's numbers are remainders, so the
proof begins with remainders and goes on with congruences. `pdu_seq` and the latency
give the place of a packet up to half a turn, and the half of the ring the packets lie
in decides the rest. `Kept` carries the ring: after a jump each packet played makes one
more slot of the turn from `now` right, until `steady` is a whole turn; then
`RingIsFaithful` follows. `Within` says that what was received
lies less than a turn ahead, `Silent` that nothing was before the first PDU.

**LotFiles**, for every number of slots, of files and of identifiers: `SlotsCorrect`,
`ReportsCorrect`, `OldestCorrect`. The first two are inductive with the types. The third
needs `Recency`: timestamps order the slots as their last uses do (`since`), but for two
used one right after the other, which a change of metadata may leave with one timestamp,
and only the slot used last may have the counter's. Renumbering keeps the order, since a
rank is the cardinality of an initial segment.

**StationInfo**, for texts of any number of parts, any items and menus, and any limit:
`TextsCorrect`, `ReportsCorrect`, `AlertCorrect`. `IInv` is `OnAir`, `Counts` (an alert on
display has been quiet for as long as `alert_timeout` says, less than the limit) and
`Good`, which is about the work of a frame, so that it can be followed through both of its
payloads: once part 0 of the station's text has come, all parts stored are that
text's (`TextIs`), a complete text was composed by the station (`Whole`), and the last
report says what one made now would say, but for texts that are `Pending`, unless a report is
asked for (`Current`). `CurrentKept` reduces that to two things about a handler that asks for
none: it leaves alone what is reported (`Quiet`), and a numbered text is pending afterwards or was
not before and is what it was (`NumberedQuiet`). Each handler is
shown to keep it. That a numbered text fills a frame alone is used, and two
assumptions of the module: no two texts of a kind share a number and no part is empty, and
identifiers have sizes.

**DataPorts**, for any tables, ports, tiles and lengths of packets: `TableCorrect`,
`RecordsCorrect`, `ImagesCorrect`, `CaughtCorrect`. `TableInv` says that records are in memory exactly while
there is a table. It needs `TableRead`, that a table that was read is never empty: a SIG begins with
a service (`SigAssumption`), and no later entry takes services away. `TableSays` compares
the table, which the parser makes entry by entry, with `Announced`, which is told without
reading it from left to right: for the first `m` entries, `Announces` says which services
there are and which entries of components stand, and each entry (`EntryAnnounced`) takes
the claim from `m - 1` to `m`; that nothing overflows is a count of identifiers. `HInv` says that what
is on the line is packets, the first perhaps begun, with timestamps that do not go back for
a tile; that the number of the next message tells whether one was lost, as long as fewer
than `SeqNums` are in a row; that a receiver that is in order holds the beginning of one packet
and goes on where it ended; and that `last_timestamp` is that of the tile's image shown last.

**FixedData**, for any widths, subchannels (of mode 0, in a PDU they fit), blocks, frames and packets: `TypeCorrect`,
`BeliefCorrect`, `WidthCorrect`, `OpensCorrect`, `FramesCorrect`, `CleanCorrect`.
* The buffers. `parse_hdlc` and the cutting of blocks are recursive functions; what they
  keep is shown to be within its array for whatever bytes they are given (`HdlcIs`,
  `CutIs`, `ChannelStep`), so `TypeOK` holds after any PDU of the right length
  (`ProcessInv`), damaged or not.
* The width. A PDU tells a wrong width only if its last byte was damaged, and
  `sync_count` counts how often it was told again: `WidthInv` keeps `errors > sync_count`
  while the width is wrong, so a wrong width that is believed has cost three faults
  (`BeliefCorrect`). `WidthCorrect`, `OpensCorrect`, `FramesCorrect` and `CleanCorrect` assume
  `MaxErrors <= 2`, the bound of the property: with three faults `WidthTrue` is false
  (section 5), and subchannels cut out with a wrong width hold bytes of each other.
* The opening. No state of `frame.c` tells how far the buffer of the control field is
  right, so `OpenInv` counts: once `n` bytes were read in order (`Brought`), the buffer is what
  the station sent since its last flag, if that flag is one of them, and a packet was
  seen, if the flag before it is one too (`Following`). `FollowByte` takes one byte,
  `FollowField` a control field, `FollowPDU` a PDU; `OpenWithin` PDUs are enough for two
  packets, wherever in a packet they begin.
* The frames: `FramesCorrect` shows `Spec => FramesInOrder`, the refinement of `FrameChannel`.
  The bytes of a subchannel's frames are numbered in the order they are sent (`StreamIs`).
  `Orderly` says of those that a subchannel still holds, in the window of `Cut` and in the
  HDLC buffer, that they rise, were sent before the station's place, and lie after the end of
  every frame that was handed over. Only this order is needed: whatever stretches of the
  stream are lost, replaced or merged, a frame that `aas_push` takes for whole holds its
  own last byte, so its number follows the numbers before it, and the station has begun
  it (`BegunIs`). `Drawn` carries the order through `Cut`, `SoFar` through `parse_hdlc`,
  `Pushed` through `aas_push`; `SlicesAre` and `SliceHeard` say that with the
  station's width a subchannel is given what the station sent on it, or nothing.
* The delivery: `CleanCorrect` shows `Spec => []CleanDelivers`. `calm` counts the bytes since
  the last one a subchannel did not get, so the state tells from which place on its window is
  known. `InWindow` is what holds of it: the bytes from there on are those that were sent
  (`Known`); the window stands at a block of the station or before every block that begins
  `Lead` later (`Safe`); and where it stands at such a block in the middle of a frame, the HDLC
  buffer is that frame's beginning (`Midway`). `StopFound`, `SlideFound` and `TakeFound`
  are the three cases of `Cut`: it waits, moves a byte, or takes a block. A block it takes at a place the
  station did not mean had its marker before the calm, so it ends at most a payload's length into it,
  which is why `Lead` is `PAYLOAD`. In the calm a marker is the station's, since a whole marker
  cannot be found elsewhere (`NoMarker`, `MarkerAt`). So what is cut out ends with the
  station's bytes, all of them from its first block on (`CutFound`), `parse_hdlc` makes the
  frame of them (`FrameReads`), and `CalmInv` is kept by each step (`CalmStep`).
  The proof told what the runs had not: `Lead` was first two blocks, which held, but said less.

**Only model-checked.** All liveness. Each invariant and action property that a passing run
checks is stated by a theorem.

**Out of the prover's reach.** Liveness under fairness and ENABLED; modules with RECURSIVE
operators. Induction over data is done without an induction rule: `LeastNat` gives the first place where a
claim fails. It is repeated in each module that needs it.

## 5. Findings

Four runs end in violations, each against a line of the repository's own
documentation (the quotations are in `PROJECT.json`).

1. `AudioQuit`: `change_program` frees the whole queue and signals nobody (303).
   With `-r` and a terminal, `q` first wakes the decoder through `done_signal`, the
   decoder finds no free buffer and sleeps again, then the queue is freed and
   `audio_main` leaves: nobody wakes the decoder.
2. `WorkerGain`: `do_auto_gain` answers a failing `set_tuner_gain` with
   `continue`, for ever, holding the mutex.
3. `SyncAM`: `sync_process_am` lets `cfo_wait` pass below zero and realigns only at
   zero.
4. `LotReuse`: fragments received before any header of their file stay under
   their identifier, and the first header that comes makes them its own (798).

Met while modelling, without a run of their own:

* `push_audio_buffer` compares programs before its wait and not after it
  (`main.c` 131, 136): with `-r`, audio of the old program can be queued after
  a change. `LiveQueueIsCurrent` is therefore about live reception.
* `worker_cb` cancels the read for `stopped` and not for `closed` (`nrsc5.c` 124):
  `nrsc5_close` of a running local receiver never returns. `CallsServed` is checked
  under `StopFirst`.
* `nrsc5_set_frequency` skips the tuner when the frequency equals the initial value
  nobody told the tuner (`nrsc5.c` 536).
* A connection that the rtl_tcp server closes gives `recv` 0: `rtltcp_read` returns 0 bytes
  (`rtltcp.c` 90-96), `worker_thread` takes that for no error (`nrsc5.c` 177-187) and reads on
  for ever, without `LOST_DEVICE`, which `nrsc5.h:375` lists for a disconnected device. A close
  within a block makes a short read and is reported; a close between two blocks, and a start after
  the close, are not. `LossNoticed` and `CallsServed` except this case by name (`Silent`);
  without the exception TLC shows the worker going round between `ReadOn` and `ReadNothing`.
* `rtltcp_reset_buffer` keeps the result of `recv` in a `size_t` (`rtltcp.c` 190): while `recv`
  fails it goes on for ever, with the mutex held, as the failing `set_tuner_gain` of finding 2 does.
* A gain search whose read fails stops the worker without a `LOST_DEVICE` event
  (`nrsc5.c` 152).
* Once part 0 of another alert has displaced an alert, `alert_displayed` is clear and the
  timeout no longer counts (`pids.c` 872, 1021): if the station then stops sending alerts,
  the end of the first is not told until the next resynchronisation.
* Part 0 of another long name, message or alert takes the old one off display and asks for no
  report (`pids.c` 452-458, 533-538, 865-870): the last report goes on saying the old text until
  something else is reported or the new text is complete.
* A slogan that is on display never gives way to another, and a universal short name
  neither, until the next resynchronisation. A data service that finds the list full is dropped
  without a word.
* A width believed after three equal wrong bytes would be kept until the next reset
  (`frame.c` 462); two damaged bytes, the bound of `FixedData`, do not suffice (`BeliefCorrect`
  proves that three are needed). A CCC packet
  that announces new lengths is ignored once one has been taken (`frame.c` 403).

## 6. What is not modelled, and why

* FEC, filters, FFT, equaliser, resampler: numeric; their outcomes are
  nondeterministic in `Sync`.
* Text conversion, logging, option parsing, output files: no protocol.
* `lab/`: offline scripts, the receiver is a child process.
* Python bindings: they call the session API and keep no protocol of their own.
* In `Worker`: `nrsc5_set_bias_tee`, `_set_direct_sampling`,
  `_set_freq_correction`, `_set_callback`, error paths of the open functions, and
  the leftover bytes of the pipes. Failing tuner calls of `set_frequency` and
  `set_gain` change nothing and return an error: stuttering steps. Callbacks that call the
  API back.
* In `Sync`: the second extended channel (the same code as the first), PIDS
  frames, service modes without P3, and the phases of acquisition below a block.
* In `ElasticBuffer`: the enhanced stream, which `output_push` drops, and the AAC
  decoder. In `LotFiles`: the wrap of the 32-bit counter of uses, and the header and
  fragment events, which carry no state.
* In `StationInfo`: the CRC of a frame and the LLDS frames, which change nothing;
  characters and encodings; texts whose number comes round while they are held. `Passes` takes
  the 7-bit checksum of a message and the CRCs of an alert for perfect: parts of two texts
  never pass. `EventsWhole` rests on that.
* In `FixedData`: subchannels of a mode other than 0. `process_fixed_ccc` gives such a
  subchannel the length 0 (`frame.c` 420-434), and `process_fixed_data` passes over it without
  moving `p` (490-493). One that lies before all those of mode 0 changes nothing (it is part of
  `Audio`); one between them and the control field makes those before it be cut out at the wrong
  place. A layout that does not fit its PDU: nothing compares the lengths with what is left of
  the buffer when `p` is moved down by them (493). Escapes, which cost a byte and change no boundary (they are why a whole marker,
  `7D 3A E2 42`, is in no payload: an escaped `7D` is followed by `5D` or `5E`); a wrong frame whose
  FCS is right; the deinterleaving and Reed-Solomon of a block, which are numeric. In
  `frame.c` further the audio header with its location table and the HDLC stream of
  the program data.
* In `DataPorts`: the ID3 tags of the program data; a SIG whose first entry is not a
  service, and one without a service (`nrsc5_report_sig` then leaves `evt.sig.services`
  unassigned).
* In `AudioBuffers`: a second signal of the operating system, and `libao`'s failures
  to open.

## 7. Plan

In order of importance; each with an abstract specification where it has one.

1. `Receiver`: `Worker` composed with `AudioBuffers`, `LOST_DEVICE` and the
   callbacks as their interface, the silent failure of the gain search.
2. `SamplePipes` (`nrsc5_pipe_samples_*` leftovers) and `GainSearch` (the search of
   `do_auto_gain` against the definition of a best gain), as functions checked
   over bounded inputs.
