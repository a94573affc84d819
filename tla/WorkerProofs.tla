---------------------------- MODULE WorkerProofs ----------------------------
(***************************************************************************)
(* Theorems about Worker, for every kind of source, every set of           *)
(* frequencies and every length of the gain search.                        *)
(***************************************************************************)
EXTENDS Worker, TLAPS

(* How the flags say what the worker is doing.  A worker that reads,       *)
(* searches or decodes has acknowledged its start; outside nrsc5_stop, a   *)
(* session that is stopped has a worker that does none of these: either    *)
(* nrsc5_stop has waited for it, or it stopped by itself at the loop's     *)
(* head.                                                                   *)
FlagInv ==
  /\ w \in Busy => ~workerStopped
  /\ stopped /\ api \notin {"stop", "stopWait"} => w \notin Busy
  /\ api \in {"stop", "stopWait", "reset"} => stopped
  /\ StopFirst /\ api = "setMode" => stopped

(* A device can be lost only from a worker that has lost none yet.         *)
LostInv ==
  /\ w \in Busy \/ ~stopped => lost = 0
  /\ lost <= 1

(* With auto gain on, a searched gain fits the tuner except between the    *)
(* retuning and the resets of nrsc5_set_frequency.                         *)
GainInv ==
  autoGain /\ HasTuner /\ gain \in Tunings /\ api # "reset" => gain = tuned

IInv == TypeOK /\ FlagInv /\ LostInv /\ GainInv

LEMMA InitInv == Init => IInv
<1> SUFFICES ASSUME Init PROVE IInv OBVIOUS
<1>1. TypeOK
  <2>1. source \in SourceSet BY SourcesAssumption DEF Init
  <2>2. tuned \in Tunings /\ freq \in Frequencies
    BY FrequencyAssumption DEF Init, Tunings
  <2>3. probes \in 0..GainSteps /\ lost \in Nat BY GainAssumption DEF Init
  <2> QED BY <2>1, <2>2, <2>3 DEF Init, TypeOK, Busy
<1>2. FlagInv /\ LostInv BY DEF Init, FlagInv, LostInv, Busy
<1>3. GainInv BY FrequencyAssumption DEF Init, GainInv, Tunings, Untuned
<1> QED BY <1>1, <1>2, <1>3 DEF IInv

LEMMA TypeStep == TypeOK /\ [Next]_vars => TypeOK'
<1> SUFFICES ASSUME TypeOK, [Next]_vars PROVE TypeOK' OBVIOUS
<1> USE GainAssumption, FrequencyAssumption
    DEF TypeOK, Busy, Tunings, Untuned, flags, tuner, world, WakeWorker, WakeCaller
<1>1. CASE TakeMutex BY <1>1 DEF TakeMutex
<1>2. CASE LeaveThread BY <1>2 DEF LeaveThread
<1>3. CASE AckStop BY <1>3 DEF AckStop
<1>4. CASE Sleep BY <1>4 DEF Sleep
<1>5. CASE ReadOn BY <1>5 DEF ReadOn
<1>6. CASE AckStart
  <2>1. /\ w' \in {"gain", "read"} /\ probes' \in 0..GainSteps
        /\ api' \in {api, "stop"}
    BY <1>6 DEF AckStart
  <2>2. source' = source /\ device' = device BY <1>6 DEF AckStart
  <2>3. /\ tuned' = tuned /\ freq' = freq /\ autoGain' = autoGain
        /\ gain' = gain /\ asked' = asked
    BY <1>6 DEF AckStart
  <2>4. stopped' \in BOOLEAN /\ workerStopped' \in BOOLEAN /\ closed' \in BOOLEAN
    BY <1>6 DEF AckStart
  <2>5. lost' \in Nat BY <1>6 DEF AckStart
  <2> QED BY <2>1, <2>2, <2>3, <2>4, <2>5
<1>7. CASE SetProbe BY <1>7 DEF SetProbe
<1>8. CASE RetryProbe
  <2>1. UNCHANGED vars BY <1>8 DEF RetryProbe
  <2> QED BY <2>1 DEF vars
<1>9. CASE ReadProbe BY <1>9 DEF ReadProbe
<1>10. CASE ProbeFails BY <1>10 DEF ProbeFails, Told
<1>11. CASE GainFound BY <1>11 DEF GainFound
<1>12. CASE Receive BY <1>12 DEF Receive
<1>13. CASE CancelRead BY <1>13 DEF CancelRead
<1>14. CASE Decoded BY <1>14 DEF Decoded
<1>15. CASE ReceiveLast BY <1>15 DEF ReceiveLast
<1>16. CASE ReadFails BY <1>16 DEF ReadFails, ReadFailed, Told
<1>17. CASE nrsc5_start BY <1>17 DEF nrsc5_start
<1>18. CASE nrsc5_stop BY <1>18 DEF nrsc5_stop
<1>19. CASE StopSignal BY <1>19 DEF StopSignal
<1>20. CASE StopReturn BY <1>20 DEF StopReturn
<1>21. CASE StopWait BY <1>21 DEF StopWait
<1>22. CASE SameFrequency BY <1>22 DEF SameFrequency
<1>23. CASE ResetTuned BY <1>23 DEF ResetTuned
<1>24. CASE nrsc5_set_gain BY <1>24 DEF nrsc5_set_gain
<1>25. CASE nrsc5_close BY <1>25 DEF nrsc5_close
<1>26. CASE Join BY <1>26 DEF Join
<1>27. CASE Lose BY <1>27 DEF Lose
<1>28. CASE SpuriousWakeup
  <2>1. w' \in {w, "woken"} /\ api' \in {api, "stop"} BY <1>28 DEF SpuriousWakeup
  <2>2. UNCHANGED <<world, tuner, flags, probes, lost>> BY <1>28 DEF SpuriousWakeup
  <2> QED BY <2>1, <2>2
<1>29. ASSUME NEW f \in Frequencies, Tune(f) PROVE TypeOK' BY <1>29 DEF Tune
<1>30. ASSUME NEW e \in BOOLEAN, nrsc5_set_auto_gain(e) PROVE TypeOK'
  BY <1>30 DEF nrsc5_set_auto_gain
<1>31. CASE UNCHANGED vars BY <1>31 DEF vars
<1>32. CASE nrsc5_set_mode BY <1>32 DEF nrsc5_set_mode
<1>33. CASE ModeSet BY <1>33 DEF ModeSet
<1>34. CASE ReadNothing BY <1>34 DEF ReadNothing
<1>35. CASE CommandFails BY <1>35 DEF CommandFails
<1> HIDE DEF TypeOK
<1> QED
  BY <1>1, <1>2, <1>3, <1>4, <1>5, <1>6, <1>7, <1>8, <1>9, <1>10,
     <1>11, <1>12, <1>13, <1>14, <1>15, <1>16, <1>17, <1>18, <1>19, <1>20,
     <1>21, <1>22, <1>23, <1>24, <1>25, <1>26, <1>27, <1>28, <1>29, <1>30,
     <1>31, <1>32, <1>33, <1>34, <1>35
  DEF Next, WorkerStep, Loop, Search, Read, Return, Call, Closed

LEMMA InvStep ==
  ASSUME TypeOK, FlagInv, LostInv, GainInv, [Next]_vars
  PROVE  FlagInv' /\ LostInv' /\ GainInv'
<1> USE FrequencyAssumption
    DEF TypeOK, FlagInv, LostInv, GainInv, Busy, Tunings, Untuned, HasTuner,
        flags, tuner, world, WakeWorker, WakeCaller, MutexFree
<1>1. CASE TakeMutex BY <1>1 DEF TakeMutex
<1>2. CASE LeaveThread BY <1>2 DEF LeaveThread
<1>3. CASE AckStop BY <1>3 DEF AckStop
<1>4. CASE Sleep BY <1>4 DEF Sleep
<1>5. CASE ReadOn BY <1>5 DEF ReadOn
<1>6. CASE AckStart
  <2>1. w' \in {"gain", "read"} /\ (api' = api \/ (api = "stopWait" /\ api' = "stop"))
    BY <1>6 DEF AckStart
  <2>2. /\ UNCHANGED <<source, tuned, autoGain, gain, stopped, lost>>
        /\ ~stopped /\ workerStopped' = FALSE
    BY <1>6 DEF AckStart
  <2>3. FlagInv' BY <2>1, <2>2
  <2>4. LostInv' BY <2>1, <2>2
  <2>5. GainInv' BY <2>1, <2>2
  <2> QED BY <2>3, <2>4, <2>5
<1>7. CASE SetProbe BY <1>7 DEF SetProbe
<1>8. CASE RetryProbe
  <2>1. UNCHANGED vars BY <1>8 DEF RetryProbe
  <2> QED BY <2>1 DEF vars
<1>9. CASE ReadProbe BY <1>9 DEF ReadProbe
<1>10. CASE ProbeFails BY <1>10 DEF ProbeFails, Told
<1>11. CASE GainFound BY <1>11 DEF GainFound
<1>12. CASE Receive BY <1>12 DEF Receive
<1>13. CASE CancelRead BY <1>13 DEF CancelRead
<1>14. CASE Decoded BY <1>14 DEF Decoded
<1>15. CASE ReceiveLast BY <1>15 DEF ReceiveLast
<1>16. CASE ReadFails BY <1>16 DEF ReadFails, ReadFailed, Told
<1>17. CASE nrsc5_start BY <1>17 DEF nrsc5_start
<1>18. CASE nrsc5_stop BY <1>18 DEF nrsc5_stop
<1>19. CASE StopSignal BY <1>19 DEF StopSignal
<1>20. CASE StopReturn BY <1>20 DEF StopReturn
<1>21. CASE StopWait BY <1>21 DEF StopWait
<1>22. CASE SameFrequency BY <1>22 DEF SameFrequency
<1>23. CASE ResetTuned BY <1>23 DEF ResetTuned
<1>24. CASE nrsc5_set_gain BY <1>24 DEF nrsc5_set_gain
<1>25. CASE nrsc5_close BY <1>25 DEF nrsc5_close
<1>26. CASE Join BY <1>26 DEF Join
<1>27. CASE Lose BY <1>27 DEF Lose
<1>28. CASE SpuriousWakeup BY <1>28 DEF SpuriousWakeup
<1>29. ASSUME NEW f \in Frequencies, Tune(f) PROVE FlagInv' /\ LostInv' /\ GainInv'
  BY <1>29 DEF Tune
<1>30. ASSUME NEW e \in BOOLEAN, nrsc5_set_auto_gain(e) PROVE FlagInv' /\ LostInv' /\ GainInv'
  BY <1>30 DEF nrsc5_set_auto_gain
<1>31. CASE UNCHANGED vars BY <1>31 DEF vars
<1>32. CASE nrsc5_set_mode BY <1>32 DEF nrsc5_set_mode
<1>33. CASE ModeSet BY <1>33 DEF ModeSet
<1>34. CASE ReadNothing BY <1>34 DEF ReadNothing
<1>35. CASE CommandFails BY <1>35 DEF CommandFails
<1> HIDE DEF TypeOK, FlagInv, LostInv, GainInv
<1> QED
  BY <1>1, <1>2, <1>3, <1>4, <1>5, <1>6, <1>7, <1>8, <1>9, <1>10,
     <1>11, <1>12, <1>13, <1>14, <1>15, <1>16, <1>17, <1>18, <1>19, <1>20,
     <1>21, <1>22, <1>23, <1>24, <1>25, <1>26, <1>27, <1>28, <1>29, <1>30,
     <1>31, <1>32, <1>33, <1>34, <1>35
  DEF Next, WorkerStep, Loop, Search, Read, Return, Call, Closed

(* The inductive invariant of a session.                                   *)
THEOREM Invariance == Spec => []IInv
<1>1. IInv /\ [Next]_vars => IInv'
  BY TypeStep, InvStep DEF IInv
<1> QED BY InitInv, <1>1, PTL DEF Spec

(* The session's fields keep their types.                                  *)
THEOREM TypeCorrect == Spec => []TypeOK
<1>1. IInv => TypeOK BY DEF IInv
<1> QED BY <1>1, Invariance, PTL

(* nrsc5_set_frequency, and nrsc5_set_mode if it is called only while the  *)
(* session is stopped, reset input and output only while the worker        *)
(* neither reads, searches nor decodes, though they take no mutex.         *)
THEOREM ResetCorrect == Spec => []NoResetUnderDecoder
<1>1. IInv => NoResetUnderDecoder BY DEF IInv, FlagInv, NoResetUnderDecoder
<1> QED BY <1>1, Invariance, PTL

(* A searched gain is used on the tuning it was searched for.              *)
THEOREM GainCorrect == Spec => []GainFitsTuning
<1>1. IInv => GainFitsTuning
  BY DEF IInv, FlagInv, GainInv, GainFitsTuning, Busy
<1> QED BY <1>1, Invariance, PTL

(* A start leads to at most one NRSC5_EVENT_LOST_DEVICE.                   *)
THEOREM LostOnceCorrect == Spec => []LostOnce
<1>1. IInv => LostOnce BY DEF IInv, LostInv, LostOnce
<1> QED BY <1>1, Invariance, PTL

(* nrsc5_stop returns only when the worker has come to rest.               *)
THEOREM StopCorrect == Spec => StopReturnsQuiet
<1>1. IInv /\ [Next]_vars => (api = "stop" /\ api' = "idle" => w' \notin Busy)
  <2> SUFFICES ASSUME IInv, [Next]_vars, api = "stop", api' = "idle"
               PROVE  w' \notin Busy
    OBVIOUS
  <2>1. StopReturn
    BY DEF Next, WorkerStep, Loop, Search, Read, Return, Call, Closed,
           TakeMutex, LeaveThread, AckStop, Sleep, ReadOn, AckStart, SetProbe,
           RetryProbe, ReadProbe, ProbeFails, GainFound, Receive, CancelRead,
           Decoded, ReceiveLast, ReadFails, ReadNothing, CommandFails,
           nrsc5_start, nrsc5_stop, StopSignal, StopReturn, StopWait, SameFrequency,
           ResetTuned, nrsc5_set_gain, nrsc5_set_mode, ModeSet, nrsc5_close, Join,
           Lose, SpuriousWakeup,
           Tune, nrsc5_set_auto_gain, WakeCaller, vars
  <2> QED BY <2>1 DEF StopReturn, IInv, TypeOK, FlagInv
<1> QED BY <1>1, Invariance, PTL DEF Spec, StopReturnsQuiet
=============================================================================
