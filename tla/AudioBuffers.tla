---------------------------- MODULE AudioBuffers ----------------------------
(***************************************************************************)
(* The command-line receiver of src/main.c: the pool of AUDIO_BUFFERS      *)
(* audio buffers (two singly linked lists protected by one mutex and one   *)
(* condition variable) and the threads that share it.                      *)
(*                                                                         *)
(*   producer  the thread that decodes and whose callback calls            *)
(*             push_audio_buffer: the library's worker thread when the     *)
(*             samples come from a receiver ("live"), the main thread      *)
(*             itself when they come from a file or a pipe ("pipe")        *)
(*   consumer  audio_main, which plays the buffers                         *)
(*   keys      input_main, which reads the keyboard                        *)
(*   main      main after its loop: joins the threads, stops the library,  *)
(*             returns the memory                                          *)
(*                                                                         *)
(* A section between pthread_mutex_lock and the next unlock or wait is one *)
(* action.  cond_signal wakes at most one of the threads asleep.           *)
(***************************************************************************)
EXTENDS Integers, FiniteSets, LinkedLists

CONSTANTS
  AUDIO_BUFFERS,  (* number of buffers in the pool                         *)
  Programs,       (* programs the station carries, as numbers              *)
  ChunkPackets,   (* audio packets one read of the input can give          *)
  Modes           (* the ways the program may have been started            *)

MUTE == -1
Buffers == 1..AUDIO_BUFFERS
ModeSet == [pipe : BOOLEAN, tty : BOOLEAN]

ASSUME PoolAssumption == AUDIO_BUFFERS \in Nat \ {0}
ASSUME ProgramsAssumption == Programs \subseteq Nat /\ Programs # {}
ASSUME ChunkAssumption == ChunkPackets \in Nat
ASSUME ModesAssumption == Modes \subseteq ModeSet

VARIABLES
  mode,     (* input_name is set; standard input is a terminal             *)
  next,     (* the next pointer of each buffer                             *)
  head,     (* first buffer waiting to be played                           *)
  tail,     (* last buffer waiting to be played                            *)
  free,     (* first buffer of the free list                               *)
  samples,  (* the program whose audio a buffer holds                      *)
  program,  (* the selected program, MUTE after 'q'                        *)
  done,     (* the flag that ends every loop                               *)
  asleep,   (* threads inside pthread_cond_wait                            *)
  prod, pushing, left,  (* producer: where it is, the program of the packet
                           it pushes, packets left in the chunk it decodes *)
  cons, held,           (* consumer: where it is, the buffer it plays      *)
  keys,                 (* keyboard thread: where it is                    *)
  main, freed           (* main: where it is, buffers returned to malloc   *)

lists == <<next, head, tail, free>>
producer == <<prod, pushing, left>>
consumer == <<cons, held>>
vars == <<mode, lists, samples, program, done, asleep, producer, consumer,
          keys, main, freed>>

-----------------------------------------------------------------------------
(* The lists that start at a given buffer.                                 *)

Lists == UNION {[1..n -> Buffers] : n \in 0..AUDIO_BUFFERS}

ListFrom(s) == CHOOSE q \in Lists : IsList(next, s, q)

-----------------------------------------------------------------------------
(* The condition variable.                                                 *)

Signal ==
  \/ asleep = {} /\ UNCHANGED asleep
  \/ \E t \in asleep : asleep' = asleep \ {t}

Sleep(t) == asleep' = asleep \cup {t}

Awake(t) == t \notin asleep

(* Mutant: done is set and nobody is told (280 missing).                   *)
DoneQuietly == done' = TRUE /\ UNCHANGED asleep

(* done_signal                                                             *)
DoneSignal == done' = TRUE /\ Signal

-----------------------------------------------------------------------------
Init ==
  /\ mode \in Modes
  /\ next = [b \in Buffers |-> b - 1]
  /\ head = NULL /\ tail = NULL /\ free = AUDIO_BUFFERS
  /\ samples = [b \in Buffers |-> MUTE]
  /\ program \in Programs
  /\ done = FALSE
  /\ asleep = {}
  /\ prod = IF mode.pipe THEN "check" ELSE "decode"
  /\ pushing = MUTE /\ left = 0
  /\ cons = "take" /\ held = NULL
  /\ keys = IF mode.tty THEN "check" ELSE "exit"
  /\ main = "joinAudio" /\ freed = {}

-----------------------------------------------------------------------------
(* The producer.                                                           *)

(* Mutant: the new buffer goes to the front of the queue.                  *)
EnqueueFirst(p) ==
  /\ free # NULL
  /\ free' = next[free]
  /\ next' = [next EXCEPT ![free] = head]
  /\ head' = free
  /\ tail' = IF tail = NULL THEN free ELSE tail
  /\ samples' = [samples EXCEPT ![free] = p]
  /\ Signal

(* The part of push_audio_buffer after its guards: unlink the first free   *)
(* buffer, fill it, append it to the queue, signal.                        *)
Enqueue(p) ==
  /\ free # NULL
  /\ free' = next[free]
  /\ LET unlinked == [next EXCEPT ![free] = NULL]
     IN  next' = IF tail = NULL THEN unlinked
                 ELSE [unlinked EXCEPT ![tail] = free]
  /\ head' = IF tail = NULL THEN free ELSE head
  /\ tail' = free
  /\ samples' = [samples EXCEPT ![free] = p]
  /\ Signal

(* A packet of the selected program finds a free buffer.                   *)
PushAudio(p) ==
  /\ prod = "decode"
  /\ mode.pipe => left > 0
  /\ p = program
  /\ Enqueue(p)
  /\ left' = IF mode.pipe THEN left - 1 ELSE left
  /\ UNCHANGED <<mode, program, done, prod, pushing, consumer, keys, main, freed>>

(* A packet of the selected program finds none: a file waits for one.      *)
PushWaits(p) ==
  /\ prod = "decode"
  /\ mode.pipe /\ left > 0
  /\ p = program
  /\ free = NULL
  /\ Sleep("producer")
  /\ prod' = "push" /\ pushing' = p /\ left' = left - 1
  /\ UNCHANGED <<mode, lists, samples, program, done, consumer, keys, main, freed>>

(* A packet of another program.  Live, such a packet and one that finds no *)
(* free buffer are dropped and leave no trace: a stuttering step.          *)
PushSkips(p) ==
  /\ prod = "decode"
  /\ mode.pipe /\ left > 0
  /\ p # program
  /\ left' = left - 1
  /\ UNCHANGED <<mode, lists, samples, program, done, asleep, prod, pushing,
                 consumer, keys, main, freed>>

(* The wait in push_audio_buffer returns; its loop looks at free only.     *)
PushResumes ==
  /\ prod = "push"
  /\ Awake("producer")
  /\ \/ /\ free = NULL
        /\ Sleep("producer")
        /\ UNCHANGED <<lists, samples, prod, pushing>>
     \/ /\ Enqueue(pushing)
        /\ prod' = "decode" /\ pushing' = MUTE
  /\ UNCHANGED <<mode, program, done, left, consumer, keys, main, freed>>

(* Mutant: a read that gives more than the buffer holds.                   *)
ReadTooMuch ==
  /\ prod = "check"
  /\ ~done
  /\ left' \in 0..(ChunkPackets + 1)
  /\ prod' = "decode"
  /\ UNCHANGED <<mode, lists, samples, program, done, asleep, pushing,
                 consumer, keys, main, freed>>

(* One turn of main's loop over a file: is_done, fread, nrsc5_pipe_samples *)
ReadChunk ==
  /\ prod = "check"
  /\ ~done
  /\ left' \in 0..ChunkPackets
  /\ prod' = "decode"
  /\ UNCHANGED <<mode, lists, samples, program, done, asleep, pushing,
                 consumer, keys, main, freed>>

EndChunk ==
  /\ prod = "decode"
  /\ mode.pipe /\ left = 0
  /\ prod' = "check"
  /\ UNCHANGED <<mode, lists, samples, program, done, asleep, pushing, left,
                 consumer, keys, main, freed>>

(* fread gives nothing.                                                    *)
EndOfInput ==
  /\ prod = "check"
  /\ ~done
  /\ DoneSignal
  /\ prod' = "exit"
  /\ UNCHANGED <<mode, lists, samples, program, pushing, left,
                 consumer, keys, main, freed>>

LeaveLoop ==
  /\ prod = "check"
  /\ done
  /\ prod' = "exit"
  /\ UNCHANGED <<mode, lists, samples, program, done, asleep, pushing, left,
                 consumer, keys, main, freed>>

(* The worker loses its device, reports NRSC5_EVENT_LOST_DEVICE and stops. *)
LoseDevice ==
  /\ prod = "decode"
  /\ ~mode.pipe
  /\ DoneSignal
  /\ prod' = "exit"
  /\ UNCHANGED <<mode, lists, samples, program, pushing, left,
                 consumer, keys, main, freed>>

-----------------------------------------------------------------------------
(* The consumer: audio_main.                                               *)

(* Mutant: the tail is not cleared with the last buffer (668-669 missing). *)
TakeKeepsTail ==
  /\ cons = "take" /\ Awake("consumer")
  /\ head # NULL
  /\ held' = head
  /\ head' = next[head]
  /\ cons' = "play"
  /\ UNCHANGED <<mode, next, tail, free, samples, program, done, asleep,
                 producer, keys, main, freed>>

TakeBuffer ==
  /\ cons = "take" /\ Awake("consumer")
  /\ head # NULL
  /\ held' = head
  /\ head' = next[head]
  /\ tail' = IF next[head] = NULL THEN NULL ELSE tail
  /\ cons' = "play"
  /\ UNCHANGED <<mode, next, free, samples, program, done, asleep, producer,
                 keys, main, freed>>

WaitForAudio ==
  /\ cons = "take" /\ Awake("consumer")
  /\ head = NULL /\ ~done
  /\ Sleep("consumer")
  /\ UNCHANGED <<mode, lists, samples, program, done, producer, consumer,
                 keys, main, freed>>

(* Mutant: audio_main leaves as soon as done is set.                       *)
LeaveEarly ==
  /\ cons = "take" /\ Awake("consumer")
  /\ done
  /\ cons' = "exit"
  /\ UNCHANGED <<mode, lists, samples, program, done, asleep, producer, held,
                 keys, main, freed>>

LeaveAudio ==
  /\ cons = "take" /\ Awake("consumer")
  /\ head = NULL /\ done
  /\ cons' = "exit"
  /\ UNCHANGED <<mode, lists, samples, program, done, asleep, producer, held,
                 keys, main, freed>>

(* Mutant: nobody is told of the free buffer (678 missing).                *)
ReleaseQuietly ==
  /\ cons = "play"
  /\ next' = [next EXCEPT ![held] = free]
  /\ free' = held
  /\ held' = NULL
  /\ cons' = "take"
  /\ UNCHANGED <<mode, head, tail, samples, program, done, asleep, producer,
                 keys, main, freed>>

(* ao_play has returned: the buffer goes to the front of the free list.    *)
ReleaseBuffer ==
  /\ cons = "play"
  /\ next' = [next EXCEPT ![held] = free]
  /\ free' = held
  /\ held' = NULL
  /\ cons' = "take"
  /\ Signal
  /\ UNCHANGED <<mode, head, tail, samples, program, done, producer,
                 keys, main, freed>>

-----------------------------------------------------------------------------
(* The keyboard: input_main and on_key_press.                              *)

(* Mutant: the program changes and the queue stays.                        *)
ChangeOnly(p) == program' = p /\ UNCHANGED lists

(* Mutant: the queue becomes free and keeps its head (303 missing).        *)
ChangeKeepsHead(p) ==
  /\ next' = IF tail = NULL THEN next ELSE [next EXCEPT ![tail] = free]
  /\ free' = IF tail = NULL THEN free ELSE head
  /\ tail' = NULL
  /\ program' = p
  /\ UNCHANGED head

(* change_program: the whole queue goes to the front of the free list.     *)
ChangeProgram(p) ==
  /\ next' = IF tail = NULL THEN next ELSE [next EXCEPT ![tail] = free]
  /\ free' = IF tail = NULL THEN free ELSE head
  /\ head' = IF tail = NULL THEN head ELSE NULL
  /\ tail' = NULL
  /\ program' = p

CheckDone ==
  /\ keys = "check"
  /\ keys' = IF done THEN "exit" ELSE "poll"
  /\ UNCHANGED <<mode, lists, samples, program, done, asleep, producer,
                 consumer, main, freed>>

(* poll times out, or the key is not one of on_key_press's.                *)
NoKey ==
  /\ keys = "poll"
  /\ keys' = "check"
  /\ UNCHANGED <<mode, lists, samples, program, done, asleep, producer,
                 consumer, main, freed>>

PollError ==
  /\ keys = "poll"
  /\ keys' = "exit"
  /\ UNCHANGED <<mode, lists, samples, program, done, asleep, producer,
                 consumer, main, freed>>

PressDigit(p) ==
  /\ keys = "poll"
  /\ ChangeProgram(p)
  /\ keys' = "check"
  /\ UNCHANGED <<mode, samples, done, asleep, producer, consumer, main, freed>>

PressQ ==
  /\ keys = "poll"
  /\ DoneSignal
  /\ keys' = "quit"
  /\ UNCHANGED <<mode, lists, samples, program, producer, consumer, main, freed>>

(* 'q' takes the mutex a second time to empty the queue.                   *)
QuitReset ==
  /\ keys = "quit"
  /\ ChangeProgram(MUTE)
  /\ keys' = "check"
  /\ UNCHANGED <<mode, samples, done, asleep, producer, consumer, main, freed>>

-----------------------------------------------------------------------------
(* main after its loop.                                                    *)

JoinAudio ==
  /\ main = "joinAudio"
  /\ mode.pipe => prod = "exit"
  /\ cons = "exit"
  /\ main' = "joinInput"
  /\ UNCHANGED <<mode, lists, samples, program, done, asleep, producer,
                 consumer, keys, freed>>

JoinInput ==
  /\ main = "joinInput"
  /\ keys = "exit"
  /\ main' = "stop"
  /\ UNCHANGED <<mode, lists, samples, program, done, asleep, producer,
                 consumer, keys, freed>>

(* nrsc5_stop and nrsc5_close: the worker thread, if any, decodes no more. *)
StopLibrary ==
  /\ main = "stop"
  /\ prod' = "exit"
  /\ main' = "cleanup"
  /\ UNCHANGED <<mode, lists, samples, program, done, asleep, pushing, left,
                 consumer, keys, freed>>

(* Mutant: the queue replaces the free list it should be hung on (120).    *)
ResetForgets ==
  /\ main = "cleanup"
  /\ free' = IF head = NULL THEN free ELSE head
  /\ head' = NULL /\ tail' = NULL
  /\ main' = "free"
  /\ UNCHANGED <<mode, next, samples, program, done, asleep, producer, consumer,
                 keys, freed>>

(* cleanup calls reset_audio_buffers, which walks to the end of the queue. *)
ResetAudioBuffers ==
  /\ main = "cleanup"
  /\ LET q == ListFrom(head)
     IN  IF q = <<>>
         THEN UNCHANGED <<next, free>>
         ELSE /\ next' = [next EXCEPT ![q[Len(q)]] = free]
              /\ free' = head
  /\ head' = NULL /\ tail' = NULL
  /\ main' = "free"
  /\ UNCHANGED <<mode, samples, program, done, asleep, producer, consumer,
                 keys, freed>>

FreeBuffer ==
  /\ main = "free"
  /\ free # NULL
  /\ free' = next[free]
  /\ freed' = freed \cup {free}
  /\ UNCHANGED <<mode, next, head, tail, samples, program, done, asleep,
                 producer, consumer, keys, main>>

Exit ==
  /\ main = "free"
  /\ free = NULL
  /\ main' = "end"
  /\ UNCHANGED <<mode, lists, samples, program, done, asleep, producer,
                 consumer, keys, freed>>

-----------------------------------------------------------------------------
(* POSIX lets pthread_cond_wait return without a signal.                   *)
SpuriousWakeup ==
  /\ \E t \in asleep : asleep' = asleep \ {t}
  /\ UNCHANGED <<mode, lists, samples, program, done, producer, consumer,
                 keys, main, freed>>

(* The process has exited: the only state in which nothing is left to do.  *)
Terminated == main = "end" /\ UNCHANGED vars

Produce ==
  \/ \E p \in Programs : PushAudio(p) \/ PushWaits(p) \/ PushSkips(p)
  \/ PushResumes \/ ReadChunk \/ EndChunk \/ LeaveLoop

Consume == TakeBuffer \/ WaitForAudio \/ LeaveAudio \/ ReleaseBuffer

Keyboard == CheckDone \/ NoKey \/ QuitReset

Main ==
  JoinAudio \/ JoinInput \/ StopLibrary \/ ResetAudioBuffers \/ FreeBuffer \/ Exit

(* What the outside world may do, and need not.                            *)
Environment ==
  \/ EndOfInput \/ LoseDevice \/ PollError \/ PressQ \/ SpuriousWakeup
  \/ \E p \in Programs : PressDigit(p)

Next == Produce \/ Consume \/ Keyboard \/ Main \/ Environment \/ Terminated

Spec == Init /\ [][Next]_vars

(* Every thread that can take a step eventually takes one: the scheduler   *)
(* runs it and the mutex is granted to it.  poll times out after 100 ms,   *)
(* so the keyboard thread turns without a key.  Nothing makes a live       *)
(* station send audio.                                                     *)
Fairness ==
  /\ WF_vars(mode.pipe /\ Produce)
  /\ WF_vars(Consume)
  /\ WF_vars(Keyboard)
  /\ WF_vars(Main)

FairSpec == Spec /\ Fairness

-----------------------------------------------------------------------------
(* Properties.                                                             *)

PoolTypeOK ==
  /\ next \in [Buffers -> Buffers \cup {NULL}]
  /\ head \in Buffers \cup {NULL}
  /\ tail \in Buffers \cup {NULL}
  /\ free \in Buffers \cup {NULL}
  /\ samples \in [Buffers -> Programs \cup {MUTE}]
  /\ held \in Buffers \cup {NULL}
  /\ freed \in SUBSET Buffers

ThreadTypeOK ==
  /\ mode \in ModeSet
  /\ program \in Programs \cup {MUTE}
  /\ done \in BOOLEAN
  /\ asleep \in SUBSET {"producer", "consumer"}
  /\ prod \in {"check", "decode", "push", "exit"}
  /\ pushing \in Programs \cup {MUTE}
  /\ left \in 0..ChunkPackets
  /\ cons \in {"take", "play", "exit"}
  /\ keys \in {"check", "poll", "quit", "exit"}
  /\ main \in {"joinAudio", "joinInput", "stop", "cleanup", "free", "end"}

(* The types of main.c's state_t and of where its threads are.             *)
TypeOK == PoolTypeOK /\ ThreadTypeOK

(* q is the queue and f the free list, and with the buffer being played    *)
(* and those already freed they account for every buffer exactly once.     *)
Partition(q, f) ==
  /\ IsList(next, head, q) /\ NoRepeats(q)
  /\ tail = At(q, Len(q))
  /\ IsList(next, free, f) /\ NoRepeats(f)
  /\ Elements(q) \cap Elements(f) = {}
  /\ held \notin Elements(q) \cup Elements(f) \cup freed
  /\ freed \cap (Elements(q) \cup Elements(f)) = {}
  /\ Buffers \subseteq Elements(q) \cup Elements(f) \cup freed \cup {held}

(* No buffer is leaked, shared between the two lists, or played while it   *)
(* is on a list, whatever the interleaving of the three threads' pointer   *)
(* surgery (main.c 108-165, 295-310, 665-679); tail is the end of the      *)
(* queue, so the next packet is appended where audio_main will find it.    *)
PoolPartition == \E q \in Lists : \E f \in Lists : Partition(q, f)

(* push_audio_buffer's memcpy never touches a buffer that is queued or     *)
(* that ao_play is still reading outside the lock (main.c 148-152, 672).   *)
AudioIntact ==
  [][\A b \in Buffers : samples'[b] # samples[b] =>
       b # held /\ b \notin Elements(ListFrom(head))]_vars

(* Live, a change of program leaves no audio of the old program in the     *)
(* queue, and none is added later: push_audio_buffer compares the programs *)
(* and appends under one lock (main.c 131-159, 299-307).                   *)
LiveQueueIsCurrent ==
  ~mode.pipe =>
     \A b \in Elements(ListFrom(head)) : samples[b] = program

(* A decoder waiting for a buffer and a player waiting for audio never     *)
(* wait for each other as long as nobody presses a key (main.c 134-138,    *)
(* 654-656).                                                               *)
NoMutualWait == ~mode.tty => asleep # {"producer", "consumer"}

(* Decoding a file without a terminal plays all of it: audio_main leaves   *)
(* only after the decoder has left and the queue is empty (main.c 658-663  *)
(* against 1134-1138).                                                     *)
BatchPlaysAll ==
  (mode.pipe /\ ~mode.tty /\ cons = "exit") => (prod = "exit" /\ head = NULL)

(* cleanup runs when no thread can touch a buffer any more and returns     *)
(* every one of them (main.c 1004-1012, 1150-1162).                        *)
CleanupIsLast ==
  main \in {"free", "end"} =>
    /\ prod = "exit" /\ cons = "exit" /\ keys = "exit"
    /\ held = NULL /\ head = NULL
    /\ main = "end" => freed = Buffers

(* Once done is set, the threads are joined and the process exits, unless  *)
(* a key can meet a decoder that waits for a buffer (see QuitExits).       *)
ShutdownCompletes == done /\ ~(mode.pipe /\ mode.tty) ~> main = "end"

(* Audio that was queued does not stay there: it is played or discarded.   *)
QueueDrains == \A b \in Buffers : b = head ~> b # head

(* The pool runs on to its end: its threads neither sit on audio nor keep  *)
(* the process from leaving (main.c 276-293, 654-663, 1134-1160).          *)
PoolRunsOn == ShutdownCompletes /\ QueueDrains

(* "user wants to immediately exit, so reset audio buffer" (main.c 691):   *)
(* after 'q' the process exits.  A decoder that sleeps on an exhausted     *)
(* pool while audio_main is between two locks is not woken by              *)
(* change_program, which frees every buffer and signals nobody.            *)
QuitExits == keys = "quit" ~> main = "end"

(* The pool implements the bounded queue that AudioQueue describes: first  *)
(* filled, first played, and emptied by a change of program.               *)
Queue == INSTANCE AudioQueue WITH
  NoProgram <- MUTE,
  NoBuffer  <- NULL,
  available <- Elements(ListFrom(free)),
  queue     <- ListFrom(head),
  playing   <- held

QueueSpec == Queue!ASpec
=============================================================================
