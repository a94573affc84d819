------------------------------- MODULE Worker -------------------------------
(***************************************************************************)
(* src/nrsc5.c: an nrsc5 session whose samples come from a local RTL-SDR   *)
(* ("dev"), an rtl_tcp server ("rtltcp") or a file ("file"), its worker    *)
(* thread, and the application thread that calls the nrsc5_* functions one *)
(* at a time.  The two share the session through worker_mutex and          *)
(* worker_cond, and some fields without them.                              *)
(*                                                                         *)
(* The worker holds the mutex while it is at "top" (the head of the loop   *)
(* of worker_thread) and during the whole search of do_auto_gain; it       *)
(* sleeps at "wait", has been woken at "woken", reads without the mutex at *)
(* "read" and decodes, in input_push_cu8, at "push" (at "pushLast": what a *)
(* short read gave, after which the source has ended).  The application's  *)
(* sections under the mutex are single actions.                            *)
(***************************************************************************)
EXTENDS Naturals

CONSTANTS
  Sources,      (* the ways the session may have been opened               *)
  Frequencies,  (* frequencies the application may ask for                 *)
  ScanBegin,    (* NRSC5_SCAN_BEGIN, what nrsc5_init puts in freq          *)
  GainSteps,    (* most probes the binary search of do_auto_gain makes     *)
  GainMayFail,  (* what do_auto_gain asks of a tuner that is gone fails    *)
                (* for as long as it is gone                               *)
  StopFirst     (* the application closes a session, and sets its mode,    *)
                (* only while it is stopped, as main.c does                *)

Untuned == "untuned"
Tunings == Frequencies \cup {Untuned}
SourceSet == {"dev", "rtltcp", "file"}

ASSUME SourcesAssumption == Sources \subseteq SourceSet
ASSUME FrequencyAssumption ==
  /\ ScanBegin \in Frequencies
  /\ {"untuned", "unset", "manual", "none"} \cap Frequencies = {}
ASSUME GainAssumption == GainSteps \in Nat /\ GainMayFail \in BOOLEAN
ASSUME StopAssumption == StopFirst \in BOOLEAN

VARIABLES
  source,         (* which of dev, rtltcp, iq_file is set                  *)
  device,         (* "good"; "gone": reads fail; "part": a part of a block
                     is left and then nothing; "ended": nothing is left    *)
  tuned,          (* the frequency the tuner itself is on                  *)
  stopped, workerStopped, closed,
  freq, autoGain,
  gain,           (* "unset" (< 0), "manual", or the tuning it was found at *)
  w,              (* where the worker is                                   *)
  probes,         (* gain probes it may still make                         *)
  lost,           (* NRSC5_EVENT_LOST_DEVICE reports since the last start  *)
  api,            (* where the application is                              *)
  asked           (* the frequency of its latest nrsc5_set_frequency that
                     returned 0 or is about to                             *)

flags == <<stopped, workerStopped, closed>>
tuner == <<tuned, freq, autoGain, gain, asked>>
world == <<source, device>>
vars == <<world, tuner, flags, w, probes, lost, api>>

HasTuner == source \in {"dev", "rtltcp"}

MutexFree == w \notin {"top", "gain", "gainRead"}

(* pthread_cond_broadcast by the application and by the worker.            *)
WakeWorker == w' = IF w = "wait" THEN "woken" ELSE w
WakeCaller == api' = IF api = "stopWait" THEN "stop" ELSE api

-----------------------------------------------------------------------------
(* nrsc5_init: the worker is about to take the mutex for the first time.   *)
Init ==
  /\ source \in Sources /\ device = "good"
  /\ tuned = Untuned /\ freq = ScanBegin /\ asked = "none"
  /\ stopped = TRUE /\ workerStopped = TRUE /\ closed = FALSE
  /\ autoGain = TRUE /\ gain = "unset"
  /\ w = "woken" /\ probes = 0 /\ lost = 0
  /\ api = "idle"

-----------------------------------------------------------------------------
(* The worker.                                                             *)

(* Its first lock, or its return from pthread_cond_wait.                   *)
TakeMutex ==
  /\ w = "woken"
  /\ w' = "top"
  /\ UNCHANGED <<world, tuner, flags, probes, lost, api>>

LeaveThread ==
  /\ w = "top" /\ closed
  /\ w' = "exit"
  /\ UNCHANGED <<world, tuner, flags, probes, lost, api>>

(* Mutant: the acknowledgement wakes nobody (140 missing).                 *)
AckStopQuietly ==
  /\ w = "top" /\ ~closed
  /\ stopped /\ ~workerStopped
  /\ workerStopped' = TRUE
  /\ w' = "wait"
  /\ UNCHANGED <<world, tuner, stopped, closed, probes, lost, api>>

(* A stop is acknowledged; then the worker waits.                          *)
AckStop ==
  /\ w = "top" /\ ~closed
  /\ stopped /\ ~workerStopped
  /\ workerStopped' = TRUE
  /\ WakeCaller
  /\ w' = "wait"
  /\ UNCHANGED <<world, tuner, stopped, closed, probes, lost>>

(* Nothing new: wait for a signal, or go on reading.                       *)
Sleep ==
  /\ w = "top" /\ ~closed
  /\ stopped /\ workerStopped
  /\ w' = "wait"
  /\ UNCHANGED <<world, tuner, flags, probes, lost, api>>

ReadOn ==
  /\ w = "top" /\ ~closed
  /\ ~stopped /\ ~workerStopped
  /\ w' = "read"
  /\ UNCHANGED <<world, tuner, flags, probes, lost, api>>

(* Mutant: high starts one past the last gain (36).                        *)
AckStartOneMore ==
  /\ w = "top" /\ ~closed
  /\ ~stopped /\ workerStopped
  /\ workerStopped' = FALSE
  /\ WakeCaller
  /\ IF HasTuner /\ autoGain /\ gain = "unset"
     THEN w' = "gain" /\ probes' \in 0..(GainSteps + 1)
     ELSE w' = "read" /\ UNCHANGED probes
  /\ UNCHANGED <<world, tuner, stopped, closed, lost>>

(* A start is acknowledged; without a gain, one is searched for first.     *)
AckStart ==
  /\ w = "top" /\ ~closed
  /\ ~stopped /\ workerStopped
  /\ workerStopped' = FALSE
  /\ WakeCaller
  /\ IF HasTuner /\ autoGain /\ gain = "unset"
     THEN w' = "gain" /\ probes' \in 0..GainSteps
     ELSE w' = "read" /\ UNCHANGED probes
  /\ UNCHANGED <<world, tuner, stopped, closed, lost>>

(* What is left of a source when a read or a command has failed on it: a   *)
(* socket may tell an error once, or again and again, and the end of a     *)
(* connection is there to stay.                                            *)
Told ==
  IF source # "rtltcp" THEN {device}
  ELSE IF device = "gone" THEN {"gone", "ended"} ELSE {"ended"}

(* One probe of do_auto_gain: set_tuner_gain, then a read.                 *)
SetProbe ==
  /\ w = "gain" /\ probes > 0
  /\ device # "good" => ~GainMayFail
  /\ probes' = probes - 1
  /\ w' = "gainRead"
  /\ UNCHANGED <<world, tuner, flags, lost, api>>

(* Under the mutex, a set_tuner_gain that fails is tried again at once for *)
(* as long as it fails, and rtltcp_reset_buffer, which keeps the result of *)
(* recv in a size_t, goes on for as long as recv fails.                    *)
RetryProbe ==
  /\ \/ w = "gain" /\ probes > 0
     \/ w = "gainRead" /\ source = "rtltcp" /\ device \in {"good", "gone"}
  /\ device # "good" => GainMayFail
  /\ UNCHANGED vars

ReadProbe ==
  /\ w = "gainRead"
  /\ device = "good"
  /\ w' = "gain"
  /\ UNCHANGED <<world, tuner, flags, probes, lost, api>>

(* The read fails or is short: the worker stops, and reports nothing.      *)
ProbeFails ==
  /\ w = "gainRead"
  /\ device # "good"
  /\ source = "rtltcp" /\ device = "gone" => ~GainMayFail
  /\ device' \in Told
  /\ stopped' = TRUE
  /\ w' = "top"
  /\ UNCHANGED <<source, tuner, workerStopped, closed, probes, lost, api>>

GainFound ==
  /\ w = "gain" /\ probes = 0
  /\ gain' = tuned
  /\ w' = "read"
  /\ UNCHANGED <<world, tuned, freq, autoGain, asked, flags, probes, lost, api>>

(* Samples arrive.  The callback of a local receiver looks at stopped,     *)
(* without the mutex, before it decodes them; the other sources do not.    *)
Receive ==
  /\ w = "read"
  /\ device = "good"
  /\ ~(source = "dev" /\ stopped)
  /\ w' = "push"
  /\ UNCHANGED <<world, tuner, flags, probes, lost, api>>

(* ... and cancels the asynchronous read, which then returns 0.            *)
CancelRead ==
  /\ w = "read"
  /\ device = "good"
  /\ source = "dev" /\ stopped
  /\ w' = "top"
  /\ UNCHANGED <<world, tuner, flags, probes, lost, api>>

(* Back from the decoder: rtlsdr_read_async calls again, the other sources *)
(* return to the loop.                                                     *)
Decoded ==
  /\ w = "push"
  /\ w' = IF source = "dev" THEN "read" ELSE "top"
  /\ UNCHANGED <<world, tuner, flags, probes, lost, api>>

(* The last samples of a connection or of a file: a read that is short but *)
(* not empty.                                                              *)
ReceiveLast ==
  /\ w = "read"
  /\ device = "part"
  /\ device' = "ended"
  /\ w' = "pushLast"
  /\ UNCHANGED <<source, tuner, flags, probes, lost, api>>

(* The read ended with an error, was short, or met the end of a file.      *)
ReadFailed ==
  \/ w = "pushLast"
  \/ w = "read" /\ device = "gone"
  \/ w = "read" /\ device = "ended" /\ source = "file"

(* Mutant: the report is made, the worker goes on (199 missing).           *)
ReportOnly ==
  /\ ReadFailed
  /\ device' \in Told
  /\ lost' = lost + 1
  /\ w' = "top"
  /\ UNCHANGED <<source, tuner, flags, probes, api>>

(* Mutant: the result of the read is not looked at (197 missing).          *)
IgnoreError ==
  /\ ReadFailed
  /\ device' \in Told
  /\ w' = "top"
  /\ UNCHANGED <<source, tuner, flags, probes, lost, api>>

(* The worker stops and reports the loss.                                  *)
ReadFails ==
  /\ ReadFailed
  /\ device' \in Told
  /\ stopped' = TRUE
  /\ lost' = lost + 1
  /\ w' = "top"
  /\ UNCHANGED <<source, tuner, workerStopped, closed, probes, api>>

(* A connection the server has closed gives 0 bytes and no error: nothing  *)
(* is decoded, and the worker neither stops nor reports.                   *)
ReadNothing ==
  /\ w = "read"
  /\ device = "ended" /\ source = "rtltcp"
  /\ w' = "top"
  /\ UNCHANGED <<world, tuner, flags, probes, lost, api>>

-----------------------------------------------------------------------------
(* The application.                                                        *)

nrsc5_start ==
  /\ api = "idle" /\ MutexFree
  /\ stopped' = FALSE
  /\ WakeWorker
  /\ lost' = 0
  /\ UNCHANGED <<world, tuner, workerStopped, closed, probes, api>>

(* nrsc5_stop is called and asks for the mutex ...                         *)
nrsc5_stop ==
  /\ api = "idle"
  /\ api' = "stopCall"
  /\ UNCHANGED <<world, tuner, flags, w, probes, lost>>

(* ... gets it, signals the worker and gives it back ...                   *)
StopSignal ==
  /\ api = "stopCall" /\ MutexFree
  /\ stopped' = TRUE
  /\ WakeWorker
  /\ api' = "stop"
  /\ UNCHANGED <<world, tuner, workerStopped, closed, probes, lost>>

(* Mutant: no wait for the acknowledgement (458-459 missing).              *)
StopReturnsAtOnce ==
  /\ api = "stop" /\ MutexFree
  /\ api' = "idle"
  /\ UNCHANGED <<world, tuner, flags, w, probes, lost>>

(* ... and takes it again to wait for the acknowledgement.                 *)
StopReturn ==
  /\ api = "stop" /\ MutexFree
  /\ stopped = workerStopped
  /\ api' = "idle"
  /\ UNCHANGED <<world, tuner, flags, w, probes, lost>>

StopWait ==
  /\ api = "stop" /\ MutexFree
  /\ stopped # workerStopped
  /\ api' = "stopWait"
  /\ UNCHANGED <<world, tuner, flags, w, probes, lost>>

(* A tuner takes a command if it is there; a server's answer is not waited *)
(* for, so a command is also "taken" when nobody reads it any more.        *)
CommandTaken == source = "dev" => device = "good"

(* A command to a server fails on a broken connection, and the error is    *)
(* told; the call returns 1 and changes nothing else.                      *)
CommandFails ==
  /\ api = "idle"
  /\ stopped
  /\ source = "rtltcp" /\ device = "gone"
  /\ device' = "ended"
  /\ UNCHANGED <<source, tuner, flags, w, probes, lost, api>>

(* nrsc5_set_frequency, which takes no mutex, up to the resets.            *)
SameFrequency ==
  /\ api = "idle"
  /\ asked' = freq
  /\ UNCHANGED <<world, tuned, freq, autoGain, gain, flags, w, probes, lost, api>>

(* Mutant: the session need not be stopped (537-538 missing).              *)
TuneRunning(f) ==
  /\ api = "idle"
  /\ f # freq
  /\ CommandTaken
  /\ tuned' = IF HasTuner THEN f ELSE tuned
  /\ asked' = f
  /\ api' = "reset"
  /\ UNCHANGED <<world, freq, autoGain, gain, flags, w, probes, lost>>

Tune(f) ==
  /\ api = "idle"
  /\ f # freq
  /\ stopped
  /\ CommandTaken
  /\ tuned' = IF HasTuner THEN f ELSE tuned
  /\ asked' = f
  /\ api' = "reset"
  /\ UNCHANGED <<world, freq, autoGain, gain, flags, w, probes, lost>>

(* Mutant: the searched gain survives (545-546 missing).                   *)
ResetKeepsGain ==
  /\ api = "reset"
  /\ freq' = asked
  /\ api' = "idle"
  /\ UNCHANGED <<world, tuned, autoGain, gain, asked, flags, w, probes, lost>>

(* ... and the resets of the gain, of input and of output.                 *)
ResetTuned ==
  /\ api = "reset"
  /\ gain' = IF autoGain THEN "unset" ELSE gain
  /\ freq' = asked
  /\ api' = "idle"
  /\ UNCHANGED <<world, tuned, autoGain, asked, flags, w, probes, lost>>

nrsc5_set_gain ==
  /\ api = "idle"
  /\ stopped
  /\ CommandTaken
  /\ gain' = "manual"
  /\ UNCHANGED <<world, tuned, freq, autoGain, asked, flags, w, probes, lost, api>>

nrsc5_set_auto_gain(enabled) ==
  /\ api = "idle"
  /\ autoGain' = enabled
  /\ gain' = "unset"
  /\ UNCHANGED <<world, tuned, freq, asked, flags, w, probes, lost, api>>

(* nrsc5_set_mode looks at nothing and resets the whole input chain.       *)
nrsc5_set_mode ==
  /\ api = "idle"
  /\ StopFirst => stopped
  /\ api' = "setMode"
  /\ UNCHANGED <<world, tuner, flags, w, probes, lost>>

ModeSet ==
  /\ api = "setMode"
  /\ api' = "idle"
  /\ UNCHANGED <<world, tuner, flags, w, probes, lost>>

(* nrsc5_close signals the worker and joins it.                            *)
nrsc5_close ==
  /\ api = "idle" /\ MutexFree
  /\ StopFirst => stopped
  /\ closed' = TRUE
  /\ WakeWorker
  /\ api' = "join"
  /\ UNCHANGED <<world, tuner, stopped, workerStopped, probes, lost>>

Join ==
  /\ api = "join" /\ w = "exit"
  /\ api' = "closed"
  /\ UNCHANGED <<world, tuner, flags, w, probes, lost>>

-----------------------------------------------------------------------------
(* The world.  A local receiver is unplugged, a file ends, with a part of  *)
(* a block or without, and a connection breaks or is closed.               *)
Lose ==
  /\ device = "good"
  /\ \/ source # "file" /\ device' = "gone"
     \/ source # "dev" /\ device' \in {"part", "ended"}
  /\ UNCHANGED <<source, tuner, flags, w, probes, lost, api>>

(* POSIX lets a wait return without a signal.                              *)
SpuriousWakeup ==
  \/ w = "wait" /\ w' = "woken" /\ UNCHANGED api
     /\ UNCHANGED <<world, tuner, flags, probes, lost>>
  \/ api = "stopWait" /\ api' = "stop" /\ UNCHANGED w
     /\ UNCHANGED <<world, tuner, flags, probes, lost>>

Closed == api = "closed" /\ UNCHANGED vars

Loop == TakeMutex \/ LeaveThread \/ AckStop \/ Sleep \/ ReadOn \/ AckStart

Search == SetProbe \/ RetryProbe \/ ReadProbe \/ ProbeFails \/ GainFound

Read ==
  Receive \/ CancelRead \/ Decoded \/ ReceiveLast \/ ReadFails \/ ReadNothing

WorkerStep == Loop \/ Search \/ Read

(* A call that has begun goes on.                                          *)
Return == StopSignal \/ StopReturn \/ StopWait \/ ResetTuned \/ ModeSet \/ Join

Call ==
  \/ nrsc5_start \/ nrsc5_stop \/ SameFrequency \/ CommandFails \/ nrsc5_set_gain
  \/ nrsc5_set_mode \/ nrsc5_close
  \/ \E f \in Frequencies : Tune(f)
  \/ \E enabled \in BOOLEAN : nrsc5_set_auto_gain(enabled)

Next == WorkerStep \/ Return \/ Call \/ Lose \/ SpuriousWakeup \/ Closed

Spec == Init /\ [][Next]_vars

(* The scheduler runs the worker and a source that is good delivers.       *)
(* A call that has begun goes on; strong fairness says that a caller who   *)
(* finds the mutex free again and again gets it at last.  Nobody has to    *)
(* make a call, and nothing has to fail.                                   *)
FairSpec == Spec /\ WF_vars(WorkerStep) /\ SF_vars(Return)

-----------------------------------------------------------------------------
(* Properties.                                                             *)

Busy == {"gain", "gainRead", "read", "push", "pushLast"}

(* The types of the session's fields and of where the two threads are.     *)
TypeOK ==
  /\ source \in SourceSet /\ device \in {"good", "gone", "part", "ended"}
  /\ tuned \in Tunings /\ freq \in Frequencies
  /\ asked \in Frequencies \cup {"none"}
  /\ stopped \in BOOLEAN /\ workerStopped \in BOOLEAN /\ closed \in BOOLEAN
  /\ autoGain \in BOOLEAN
  /\ gain \in Tunings \cup {"unset", "manual"}
  /\ w \in Busy \cup {"woken", "top", "wait", "exit"}
  /\ probes \in 0..GainSteps
  /\ lost \in Nat
  /\ api \in {"idle", "stopCall", "stop", "stopWait", "reset", "setMode", "join", "closed"}
  /\ api = "reset" => asked \in Frequencies

(* "This function will block until the worker is stopped" (nrsc5.h 745):   *)
(* nrsc5_stop returns when the worker reads, decodes and searches no more  *)
(* (nrsc5.c 456-460 against 137-141).                                      *)
StopReturnsQuiet == [][api = "stop" /\ api' = "idle" => w' \notin Busy]_vars

(* nrsc5_set_frequency checks stopped without the mutex (537) and then     *)
(* resets input and output, and nrsc5_set_mode resets the input without a  *)
(* check (464-470): the worker never decodes at that time, if only the     *)
(* application sets no mode while it runs.                                 *)
NoResetUnderDecoder ==
  api = "reset" \/ (StopFirst /\ api = "setMode") => w \notin Busy

(* With auto gain on, a searched gain the worker decodes with was searched *)
(* for on the frequency the tuner is on, whatever was retuned, stopped,    *)
(* restarted or switched off and on in between, during a search included   *)
(* (nrsc5.c 106, 153, 545-546, 582).                                       *)
GainFitsTuning ==
  (autoGain /\ HasTuner /\ w \in {"read", "push", "pushLast"} /\ gain \in Tunings) =>
     gain = tuned

(* A start is followed by at most one NRSC5_EVENT_LOST_DEVICE (196-200).   *)
LostOnce == lost <= 1

(* "Signals the worker to *stop* demodulation ... will block until the     *)
(* worker is stopped" (nrsc5.h 742-745): nrsc5_stop returns.               *)
StopReturns == api = "stopCall" ~> api = "idle"

(* The server has closed the connection and its last samples are read:     *)
(* rtltcp_read breaks with 0 (rtltcp.c 90-96), err stays 0 (nrsc5.c        *)
(* 177-187), and the worker reads on for ever.                             *)
Silent == source = "rtltcp" /\ device = "ended"

(* A start is served: samples are decoded, or the worker stops again,      *)
(* except on a Silent connection.                                          *)
StartServed == ~stopped ~> (w \in {"push", "pushLast"} \/ stopped \/ Silent)

(* A source that breaks or ends under a running session stops the worker   *)
(* (nrsc5.c 62-72, 149-157, 173-201): an unplugged receiver, a file that   *)
(* ends anywhere, a connection that breaks or ends within a block.  Not a  *)
(* connection that ends between two blocks or ended before the start: that *)
(* is Silent, and then nobody is told.                                     *)
LossNoticed == (device # "good" /\ ~Silent /\ ~stopped) ~> (stopped \/ closed)

(* "Any worker thread is signalled to exit, files and sockets are closed,  *)
(* and I/O buffers are freed" (nrsc5.h 729-730): nrsc5_close returns.      *)
CloseReturns == api = "join" ~> api = "closed"

(* Every call is served: the three handshakes of the flags stopped,        *)
(* workerStopped and closed come to an end (nrsc5.c 135-164, 418-461).     *)
CallsServed == StopReturns /\ StartServed /\ CloseReturns
=============================================================================
