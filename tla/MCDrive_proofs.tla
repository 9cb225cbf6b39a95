----------------------------- MODULE MCDrive_proofs -----------------------------
(***************************************************************************)
(* Proofs about the calls MCDrive composes, for any drive, handle and      *)
(* request: what READ CD learns of a drive and hands over, the windows and *)
(* the ladder of the speed probe, the C2 lag that is reported, the speeds  *)
(* a read asks for, and what is concluded from the drive's answers: write  *)
(* parameters, subcodes, offsets and verdicts.  A register holds what the  *)
(* component that runs keeps in it, so each invariant is of the states its *)
(* own component runs in.                                                  *)
(***************************************************************************)
EXTENDS MCDrive, FiniteSetsExt, FiniteSetTheorems, WellFoundedInduction, TLAPS

------------------------------------------------------------------------------
(* A device handle, for any directory of drivers and however long its loops: what *)
(* a call leaves loaded, what it leaves running, and what is known and put back   *)
(* of the drive's settings, whichever of its commands are refused or lost.        *)

Searching == {"identify", "locate"}
Selftests == {"st_get", "st_set", "st_reget", "cx_arm", "cx_read", "cx_end", "cx_abort"}
Scanning == {"sample", "disarm", "page2a", "set_streaming", "select_speed"}

\* The type invariant, apart in what is Boolean and what is not.
Flags ==
  /\ open \in BOOLEAN /\ id_valid \in BOOLEAN /\ spd \in BOOLEAN /\ armed \in BOOLEAN
  /\ arg \in BOOLEAN /\ saved \in BOOLEAN /\ before \in BOOLEAN /\ doubt \in BOOLEAN
  /\ owed \in BOOLEAN /\ lost \in BOOLEAN
Sorts ==
  /\ drv \in Files \cup {"none"}
  /\ uncap_set \in -1 .. 1 /\ streaming \in -1 .. 1 /\ prior \in -1 .. 1
  /\ wspeed \in {"chosen", "max"} /\ rc \in {"ok", "err"}
  /\ at \in Place /\ answer \in {"on", "off", "unknown"}
  /\ left \in 0 .. Samples \cup 0 .. Queries \cup 0 .. EjectPolls
  /\ at = "query" => left # 0

\* What is loaded while a driver is looked for and tried, and otherwise.
Loading ==
  /\ at \in Searching => drv = "none" /\ loaded = {}
  /\ at \in Selftests => op \in Candidates /\ drv = "none" /\ loaded = {op}
  /\ at \notin Searching \cup Selftests =>
       loaded = {drv} \ {"none"} /\ loaded \subseteq Candidates
  /\ ~open => Idle /\ drv = "none"

\* For whom the counters run.
Counting ==
  /\ armed => \/ owed \/ lost
              \/ at \in {"cx_read", "cx_end", "cx_abort"}
              \/ op = "census" /\ at \in Scanning
  /\ at = "arm" => op \in {"counters", "census"}

\* What of SpeedRead is known, and by whom: the selftest, this handle, a push's caller,
\* the caller of a probe.
Knowing ==
  /\ at = "st_set" => saved = spd
  /\ ~doubt => /\ uncap_set = 1 => spd
               /\ uncap_set = -1 => ~spd
               /\ answer = "on" => spd
               /\ answer = "off" => ~spd
  /\ prior = 1 => before
  /\ prior = 0 => ~before
  /\ at = "uncap_get" => op \in {"push", "probe"}
  /\ at = "uncap_get" /\ op = "push" => (before <=> spd)
  /\ at = "uncap_set" => op \in {"set", "push", "pop"}
  /\ at = "uncap_set" /\ op = "push" => prior # -1
  /\ at = "uncap_set" /\ op = "pop" => (arg <=> before)
  /\ ~Idle => answer = "unknown"

HandleInv == Flags /\ Sorts /\ Loading /\ Counting /\ Knowing

USE DEF Searching, Selftests, Scanning, Place, handle, drive, call, hist

\* A drive nobody has opened satisfies the invariant.
LEMMA HandleInit == ASSUME HandleAssumption, Init PROVE HandleInv
<1>1. Flags
  BY DEF Init, Flags
<1>2. Sorts
  BY DEF Init, Sorts, HandleAssumption
<1>3. Loading /\ Counting /\ Knowing
  BY DEF Init, Loading, Counting, Knowing, Idle
<1>  QED
  BY <1>1, <1>2, <1>3 DEF HandleInv

\* No step makes a Boolean anything else.
LEMMA FlagsStep ==
  ASSUME Flags, Next
  PROVE  Flags'
<1>1. CASE Identify
  BY <1>1 DEF Identify, GoTo, Return, Verdict, Code, Flags
<1>2. CASE Locate
  BY <1>2 DEF Locate, GoTo, Return, Verdict, Code, LeftOpen, Flags
<1>3. CASE SelftestGet
  BY <1>3, ZenonT(40) DEF SelftestGet, GoTo, SelftestFailed, Return, Verdict, Code, Flags
<1>4. CASE SelftestSet
  <2>1. PICK r \in Result :
          /\ spd' \in Outcomes(r, saved, spd)
          /\ IF r = "ok" /\ spd' = saved THEN GoTo("st_reget") /\ UNCHANGED handle
                                        ELSE SelftestFailed
    BY <1>4 DEF SelftestSet, SelftestValue
  <2>2. spd' \in BOOLEAN
    BY <2>1 DEF Outcomes, Flags
  <2>3. UNCHANGED <<armed, before, doubt, owed, lost>>
    BY <1>4 DEF SelftestSet
  <2>4. CASE GoTo("st_reget") /\ UNCHANGED handle
    BY <2>2, <2>3, <2>4 DEF GoTo, Flags
  <2>5. CASE SelftestFailed
    BY <2>2, <2>3, <2>5 DEF SelftestFailed, Return, Verdict, Flags
  <2>  QED
    BY <2>1, <2>4, <2>5
<1>5. CASE SelftestReget
  BY <1>5 DEF SelftestReget, Attached, SelftestFailed, SelftestValue, Return, Verdict,
     Code, Flags
<1>6. CASE SelftestArm
  BY <1>6, ZenonT(40) DEF SelftestArm, GoTo, Arm, SelftestFailed, Result, Failure, Return, Verdict,
     Code, Flags
<1>7. CASE SelftestCounters
  BY <1>7 DEF SelftestCounters, GoTo, Flags
<1>8. CASE SelftestDisarm
  BY <1>8 DEF SelftestDisarm, Disarm, Attached, SelftestFailed, Result, Failure, Return,
     Verdict, Code, Flags
<1>9. CASE UncapGet
  BY <1>9 DEF UncapGet, GoTo, Return, Verdict, Code, Flags
<1>10. CASE UncapSet
  BY <1>10 DEF UncapSet, Return, Verdict, Code, Outcomes, Result, Failure, MemoAfter,
     PriorWhenSetFails, Flags
<1>11. CASE CountersArm
  BY <1>11 DEF CountersArm, GoTo, Return, Verdict, Code, Arm, SpeedPlace, Result,
     Failure, Flags
<1>12. CASE CensusBreaks
  BY <1>12 DEF CensusBreaks, AfterBrokenLoop, Flags
<1>13. CASE CensusSample
  BY <1>13 DEF CensusSample, Flags
<1>14. CASE CensusDone
  BY <1>14 DEF CensusDone, GoTo, Flags
<1>15. CASE CountersDisarm
  BY <1>15 DEF CountersDisarm, Return, Verdict, Code, Disarm, Result, Failure, Flags
<1>16. CASE Query
  BY <1>16 DEF Query, Return, Verdict, Code, Result, Failure, Flags
<1>17. CASE Page2A
  BY <1>17 DEF Page2A, Flags
<1>18. CASE SetStreaming
  <2>1. UNCHANGED <<open, id_valid, spd, armed, before, doubt, owed, lost>>
    BY <1>18 DEF SetStreaming
  <2>2. (\E ok \in BOOLEAN : SpeedReturns(ok)) \/ GoTo("select_speed")
    BY <1>18 DEF SetStreaming
  <2>3. arg' \in BOOLEAN /\ saved' \in BOOLEAN
    BY <2>2 DEF SpeedReturns, Return, Verdict, GoTo, Flags
  <2>  QED
    BY <2>1, <2>3 DEF Flags
<1>19. CASE SelectSpeed
  BY <1>19 DEF SelectSpeed, Return, Verdict, Code, SpeedReturns, Flags
<1>20. CASE EjectIoctl
  BY <1>20 DEF EjectIoctl, Return, Verdict, Code, TrayMoves, Flags
<1>21. CASE EjectVerify
  BY <1>21 DEF EjectVerify, Return, Verdict, Code, TrayMoves, Flags
<1>22. CASE Open
  BY <1>22 DEF Open, Return, Verdict, Code, Flags
<1>23. CASE Close
  BY <1>23 DEF Close, Return, Verdict, Code, Detached, Flags
<1>24. CASE Attach
  BY <1>24 DEF Attach, Begin, Detached, Flags
<1>25. CASE Detach
  BY <1>25 DEF Detach, Return, Verdict, Code, Detached, Flags
<1>26. CASE CallPop
  BY <1>26 DEF CallPop, Begin, Return, Verdict, Code, Flags
<1>27. CASE CallProbe
  BY <1>27 DEF CallProbe, Begin, Return, Verdict, Code, Flags
<1>28. CASE CallCounterBegin
  BY <1>28 DEF CallCounterBegin, Begin, Flags
<1>29. CASE CallCounterEnd
  BY <1>29 DEF CallCounterEnd, Begin, Flags
<1>30. CASE CallCensus
  BY <1>30 DEF CallCensus, Begin, Flags
<1>31. CASE CallSettings
  BY <1>31 DEF CallSettings, Begin, Refuse, Return, Verdict, Code, Flags
<1>32. CASE CallSetSpeed
  BY <1>32 DEF CallSetSpeed, Begin, SpeedPlace, Flags
<1>33. CASE CallSetSpeedRange
  BY <1>33 DEF CallSetSpeedRange, Begin, Flags
<1>34. CASE CallEject
  BY <1>34 DEF CallEject, Begin, Flags
<1>35. CASE NoDriver
  BY <1>35 DEF NoDriver, Refuse, Return, Verdict, Code, Flags
<1>36. CASE ChooseWriteSpeed
  BY <1>36 DEF ChooseWriteSpeed, Flags
<1>37. ASSUME NEW on \in BOOLEAN, CallUncapSet(on) PROVE Flags'
  BY <1>37 DEF CallUncapSet, Begin, Flags
<1>38. ASSUME NEW on \in BOOLEAN, CallPush(on) PROVE Flags'
  BY <1>38 DEF CallPush, Begin, Flags
<1>  QED
  BY <1>1, <1>2, <1>3, <1>4, <1>5, <1>6, <1>7, <1>8, <1>9, <1>10, <1>11, <1>12, <1>13,
     <1>14, <1>15, <1>16, <1>17, <1>18, <1>19, <1>20, <1>21, <1>22, <1>23, <1>24, <1>25,
     <1>26, <1>27, <1>28, <1>29, <1>30, <1>31, <1>32, <1>33, <1>34, <1>35, <1>36, <1>37,
     <1>38 DEF Next, Step

\* No step takes anything else out of its range; a loop counts down from where it began.
LEMMA SortsStep ==
  ASSUME HandleAssumption, Flags, Sorts, Loading, Next
  PROVE  Sorts'
<1>0. /\ Samples \in Nat /\ Queries \in Nat \ {0} /\ EjectPolls \in Nat
      /\ Candidates \subseteq Files
  BY DEF HandleAssumption, Candidates
<1>a. left > 0 => left - 1 \in 0 .. Samples \cup 0 .. Queries \cup 0 .. EjectPolls
  BY <1>0 DEF Sorts
<1>1. CASE Identify
  BY <1>0, <1>a, <1>1 DEF Identify, GoTo, Return, Verdict, Code, Sorts
<1>2. CASE Locate
  BY <1>0, <1>a, <1>2 DEF Locate, GoTo, Return, Verdict, Code, LeftOpen, Sorts
<1>3. CASE SelftestGet
  BY <1>0, <1>a, <1>3 DEF SelftestGet, GoTo, SelftestFailed, Return, Verdict, Code,
     Sorts
<1>4. CASE SelftestSet
  BY <1>0, <1>a, <1>4 DEF SelftestSet, GoTo, SelftestFailed, SelftestValue, Outcomes,
     Result, Failure, Return, Verdict, Code, Sorts
<1>5. CASE SelftestReget
  <2>1. op \in Files
    BY <1>0, <1>5 DEF SelftestReget, Loading
  <2>  QED
    BY <1>0, <1>5, <2>1 DEF SelftestReget, Attached, SelftestFailed, SelftestValue,
       Return, Verdict, Code, Sorts
<1>6. CASE SelftestArm
  BY <1>0, <1>a, <1>6 DEF SelftestArm, GoTo, Arm, SelftestFailed, Result, Failure,
     Return, Verdict, Code, Sorts
<1>7. CASE SelftestCounters
  BY <1>0, <1>a, <1>7 DEF SelftestCounters, GoTo, Sorts
<1>8. CASE SelftestDisarm
  <2>1. op \in Files
    BY <1>0, <1>8 DEF SelftestDisarm, Loading
  <2>  QED
    BY <1>0, <1>8, <2>1 DEF SelftestDisarm, Disarm, Attached, SelftestFailed, Result,
       Failure, Return, Verdict, Code, Sorts
<1>9. CASE UncapGet
  BY <1>0, <1>a, <1>9 DEF UncapGet, GoTo, Return, Verdict, Code, Sorts
<1>10. CASE UncapSet
  BY <1>0, <1>a, <1>10 DEF UncapSet, Return, Verdict, Code, Outcomes, Result, Failure,
     MemoAfter, PriorWhenSetFails, Sorts
<1>11. CASE CountersArm
  BY <1>0, <1>a, <1>11 DEF CountersArm, GoTo, Return, Verdict, Code, Arm, SpeedPlace,
     Result, Failure, Sorts
<1>12. CASE CensusBreaks
  BY <1>0, <1>a, <1>12 DEF CensusBreaks, AfterBrokenLoop, Sorts
<1>13. CASE CensusSample
  BY <1>0, <1>a, <1>13 DEF CensusSample, Sorts
<1>14. CASE CensusDone
  BY <1>0, <1>a, <1>14 DEF CensusDone, GoTo, Sorts
<1>15. CASE CountersDisarm
  BY <1>0, <1>a, <1>15 DEF CountersDisarm, Return, Verdict, Code, Disarm, Result,
     Failure, Sorts
<1>16. CASE Query
  BY <1>0, <1>a, <1>16 DEF Query, Return, Verdict, Code, Result, Failure, Sorts
<1>17. CASE Page2A
  BY <1>0, <1>a, <1>17 DEF Page2A, Sorts
<1>18. CASE SetStreaming
  BY <1>0, <1>a, <1>18 DEF SetStreaming, GoTo, Return, Verdict, Code, SpeedReturns,
     Outcomes, WriteSpeedSent, StreamingAfter, Result, Failure, Sorts
<1>19. CASE SelectSpeed
  BY <1>0, <1>a, <1>19 DEF SelectSpeed, Return, Verdict, Code, SpeedReturns, Sorts
<1>20. CASE EjectIoctl
  BY <1>0, <1>a, <1>20 DEF EjectIoctl, Return, Verdict, Code, TrayMoves, Sorts
<1>21. CASE EjectVerify
  BY <1>0, <1>a, <1>21 DEF EjectVerify, Return, Verdict, Code, TrayMoves, Sorts
<1>22. CASE Open
  BY <1>0, <1>a, <1>22 DEF Open, Return, Verdict, Code, Sorts
<1>23. CASE Close
  BY <1>0, <1>a, <1>23 DEF Close, Return, Verdict, Code, Detached, Sorts
<1>24. CASE Attach
  BY <1>0, <1>a, <1>24 DEF Attach, Begin, Detached, Sorts
<1>25. CASE Detach
  BY <1>0, <1>a, <1>25 DEF Detach, Return, Verdict, Code, Detached, Sorts
<1>26. CASE CallPop
  BY <1>0, <1>a, <1>26 DEF CallPop, Begin, Return, Verdict, Code, Sorts
<1>27. CASE CallProbe
  BY <1>0, <1>a, <1>27 DEF CallProbe, Begin, Return, Verdict, Code, Sorts
<1>28. CASE CallCounterBegin
  BY <1>0, <1>a, <1>28 DEF CallCounterBegin, Begin, Sorts
<1>29. CASE CallCounterEnd
  BY <1>0, <1>a, <1>29 DEF CallCounterEnd, Begin, Sorts
<1>30. CASE CallCensus
  BY <1>0, <1>a, <1>30 DEF CallCensus, Begin, Sorts
<1>31. CASE CallSettings
  BY <1>0, <1>a, <1>31 DEF CallSettings, Begin, Refuse, Return, Verdict, Code, Sorts
<1>32. CASE CallSetSpeed
  BY <1>0, <1>a, <1>32 DEF CallSetSpeed, Begin, SpeedPlace, Sorts
<1>33. CASE CallSetSpeedRange
  BY <1>0, <1>a, <1>33 DEF CallSetSpeedRange, Begin, Sorts
<1>34. CASE CallEject
  BY <1>0, <1>a, <1>34 DEF CallEject, Begin, Sorts
<1>35. CASE NoDriver
  BY <1>0, <1>a, <1>35 DEF NoDriver, Refuse, Return, Verdict, Code, Sorts
<1>36. CASE ChooseWriteSpeed
  BY <1>0, <1>a, <1>36 DEF ChooseWriteSpeed, Sorts
<1>37. ASSUME NEW on \in BOOLEAN, CallUncapSet(on) PROVE Sorts'
  BY <1>0, <1>a, <1>37 DEF CallUncapSet, Begin, Sorts
<1>38. ASSUME NEW on \in BOOLEAN, CallPush(on) PROVE Sorts'
  BY <1>0, <1>a, <1>38 DEF CallPush, Begin, Sorts
<1>  QED
  BY <1>1, <1>2, <1>3, <1>4, <1>5, <1>6, <1>7, <1>8, <1>9, <1>10, <1>11, <1>12, <1>13,
     <1>14, <1>15, <1>16, <1>17, <1>18, <1>19, <1>20, <1>21, <1>22, <1>23, <1>24, <1>25,
     <1>26, <1>27, <1>28, <1>29, <1>30, <1>31, <1>32, <1>33, <1>34, <1>35, <1>36, <1>37,
     <1>38 DEF Next, Step

\* Every step accounts for the shared object it opens or closes.
LEMMA LoadingStep ==
  ASSUME HandleAssumption, Loading, Next
  PROVE  Loading'
<1>0. "none" \notin Files /\ Candidates \subseteq Files
  BY DEF HandleAssumption, Candidates
<1>1. CASE Identify
  BY <1>0, <1>1 DEF Identify, GoTo, Return, Verdict, Code, Loading, Idle
<1>2. CASE Locate
  BY <1>0, <1>2 DEF Locate, GoTo, Return, Verdict, Code, LeftOpen, Loading, Idle
<1>3. CASE SelftestGet
  BY <1>0, <1>3 DEF SelftestGet, GoTo, SelftestFailed, Return, Verdict, Code, Loading,
     Idle
<1>4. CASE SelftestSet
  BY <1>0, <1>4 DEF SelftestSet, GoTo, SelftestFailed, SelftestValue, Outcomes, Result,
     Failure, Return, Verdict, Code, Loading, Idle
<1>5. CASE SelftestReget
  BY <1>0, <1>5 DEF SelftestReget, Attached, SelftestFailed, SelftestValue, Return,
     Verdict, Code, Loading, Idle
<1>6. CASE SelftestArm
  BY <1>0, <1>6 DEF SelftestArm, GoTo, Arm, SelftestFailed, Result, Failure, Return,
     Verdict, Code, Loading, Idle
<1>7. CASE SelftestCounters
  BY <1>0, <1>7 DEF SelftestCounters, GoTo, Loading, Idle
<1>8. CASE SelftestDisarm
  BY <1>0, <1>8 DEF SelftestDisarm, Disarm, Attached, SelftestFailed, Result, Failure,
     Return, Verdict, Code, Loading, Idle
<1>9. CASE UncapGet
  BY <1>0, <1>9 DEF UncapGet, GoTo, Return, Verdict, Code, Loading, Idle
<1>10. CASE UncapSet
  BY <1>0, <1>10 DEF UncapSet, Return, Verdict, Code, Outcomes, Result, Failure,
     MemoAfter, PriorWhenSetFails, Loading, Idle
<1>11. CASE CountersArm
  BY <1>0, <1>11 DEF CountersArm, GoTo, Return, Verdict, Code, Arm, SpeedPlace, Result,
     Failure, Loading, Idle
<1>12. CASE CensusBreaks
  BY <1>0, <1>12 DEF CensusBreaks, AfterBrokenLoop, Loading, Idle
<1>13. CASE CensusSample
  BY <1>0, <1>13 DEF CensusSample, Loading, Idle
<1>14. CASE CensusDone
  BY <1>0, <1>14 DEF CensusDone, GoTo, Loading, Idle
<1>15. CASE CountersDisarm
  BY <1>0, <1>15 DEF CountersDisarm, Return, Verdict, Code, Disarm, Result, Failure,
     Loading, Idle
<1>16. CASE Query
  BY <1>0, <1>16 DEF Query, Return, Verdict, Code, Result, Failure, Loading, Idle
<1>17. CASE Page2A
  BY <1>0, <1>17 DEF Page2A, Loading, Idle
<1>18. CASE SetStreaming
  BY <1>0, <1>18 DEF SetStreaming, GoTo, Return, Verdict, Code, SpeedReturns, Outcomes,
     WriteSpeedSent, StreamingAfter, Result, Failure, Loading, Idle
<1>19. CASE SelectSpeed
  BY <1>0, <1>19 DEF SelectSpeed, Return, Verdict, Code, SpeedReturns, Loading, Idle
<1>20. CASE EjectIoctl
  BY <1>0, <1>20 DEF EjectIoctl, Return, Verdict, Code, TrayMoves, Loading, Idle
<1>21. CASE EjectVerify
  BY <1>0, <1>21 DEF EjectVerify, Return, Verdict, Code, TrayMoves, Loading, Idle
<1>22. CASE Open
  BY <1>0, <1>22 DEF Open, Return, Verdict, Code, Loading, Idle
<1>23. CASE Close
  BY <1>0, <1>23 DEF Close, Return, Verdict, Code, Detached, Loading, Idle
<1>24. CASE Attach
  BY <1>0, <1>24 DEF Attach, Begin, Detached, Loading, Idle
<1>25. CASE Detach
  BY <1>0, <1>25 DEF Detach, Return, Verdict, Code, Detached, Loading, Idle
<1>26. CASE CallPop
  BY <1>0, <1>26 DEF CallPop, Begin, Return, Verdict, Code, Loading, Idle
<1>27. CASE CallProbe
  BY <1>0, <1>27 DEF CallProbe, Begin, Return, Verdict, Code, Loading, Idle
<1>28. CASE CallCounterBegin
  BY <1>0, <1>28 DEF CallCounterBegin, Begin, Loading, Idle
<1>29. CASE CallCounterEnd
  BY <1>0, <1>29 DEF CallCounterEnd, Begin, Loading, Idle
<1>30. CASE CallCensus
  BY <1>0, <1>30 DEF CallCensus, Begin, Loading, Idle
<1>31. CASE CallSettings
  BY <1>0, <1>31 DEF CallSettings, Begin, Refuse, Return, Verdict, Code, Loading, Idle
<1>32. CASE CallSetSpeed
  BY <1>0, <1>32 DEF CallSetSpeed, Begin, SpeedPlace, Loading, Idle
<1>33. CASE CallSetSpeedRange
  BY <1>0, <1>33 DEF CallSetSpeedRange, Begin, Loading, Idle
<1>34. CASE CallEject
  BY <1>0, <1>34 DEF CallEject, Begin, Loading, Idle
<1>35. CASE NoDriver
  BY <1>0, <1>35 DEF NoDriver, Refuse, Return, Verdict, Code, Loading, Idle
<1>36. CASE ChooseWriteSpeed
  BY <1>0, <1>36 DEF ChooseWriteSpeed, Loading, Idle
<1>37. ASSUME NEW on \in BOOLEAN, CallUncapSet(on) PROVE Loading'
  BY <1>0, <1>37 DEF CallUncapSet, Begin, Loading, Idle
<1>38. ASSUME NEW on \in BOOLEAN, CallPush(on) PROVE Loading'
  BY <1>0, <1>38 DEF CallPush, Begin, Loading, Idle
<1>  QED
  BY <1>1, <1>2, <1>3, <1>4, <1>5, <1>6, <1>7, <1>8, <1>9, <1>10, <1>11, <1>12, <1>13,
     <1>14, <1>15, <1>16, <1>17, <1>18, <1>19, <1>20, <1>21, <1>22, <1>23, <1>24, <1>25,
     <1>26, <1>27, <1>28, <1>29, <1>30, <1>31, <1>32, <1>33, <1>34, <1>35, <1>36, <1>37,
     <1>38 DEF Next, Step

\* Every step accounts for counters it leaves running.
LEMMA CountingStep ==
  ASSUME Flags, Counting, Next
  PROVE  Counting'
<1>1. CASE Identify
  BY <1>1 DEF Identify, GoTo, Return, Verdict, Code, Counting, Idle
<1>2. CASE Locate
  BY <1>2 DEF Locate, GoTo, Return, Verdict, Code, LeftOpen, Counting, Idle
<1>3. CASE SelftestGet
  BY <1>3 DEF SelftestGet, GoTo, SelftestFailed, Return, Verdict, Code, Counting, Idle
<1>4. CASE SelftestSet
  BY <1>4 DEF SelftestSet, GoTo, SelftestFailed, SelftestValue, Outcomes, Result,
     Failure, Return, Verdict, Code, Counting, Idle
<1>5. CASE SelftestReget
  BY <1>5 DEF SelftestReget, Attached, SelftestFailed, SelftestValue, Return, Verdict,
     Code, Counting, Idle
<1>6. CASE SelftestArm
  BY <1>6 DEF SelftestArm, GoTo, Arm, SelftestFailed, Result, Failure, Return, Verdict,
     Code, Counting, Idle
<1>7. CASE SelftestCounters
  BY <1>7 DEF SelftestCounters, GoTo, Counting, Idle
<1>8. CASE SelftestDisarm
  BY <1>8 DEF SelftestDisarm, Disarm, Attached, SelftestFailed, Result, Failure, Return,
     Verdict, Code, Counting, Idle
<1>9. CASE UncapGet
  BY <1>9 DEF UncapGet, GoTo, Return, Verdict, Code, Counting, Idle
<1>10. CASE UncapSet
  BY <1>10 DEF UncapSet, Return, Verdict, Code, Outcomes, Result, Failure, MemoAfter,
     PriorWhenSetFails, Counting, Idle
<1>11. CASE CountersArm
  BY <1>11 DEF CountersArm, GoTo, Return, Verdict, Code, Arm, SpeedPlace, Result,
     Failure, Counting, Idle
<1>12. CASE CensusBreaks
  BY <1>12 DEF CensusBreaks, AfterBrokenLoop, Counting, Idle
<1>13. CASE CensusSample
  BY <1>13 DEF CensusSample, Counting, Idle
<1>14. CASE CensusDone
  BY <1>14 DEF CensusDone, GoTo, Counting, Idle
<1>15. CASE CountersDisarm
  BY <1>15 DEF CountersDisarm, Return, Verdict, Code, Disarm, Result, Failure, Counting,
     Idle
<1>16. CASE Query
  BY <1>16 DEF Query, Return, Verdict, Code, Result, Failure, Counting, Idle
<1>17. CASE Page2A
  BY <1>17 DEF Page2A, Counting, Idle
<1>18. CASE SetStreaming
  BY <1>18 DEF SetStreaming, GoTo, Return, Verdict, Code, SpeedReturns, Outcomes,
     WriteSpeedSent, StreamingAfter, Result, Failure, Counting, Idle
<1>19. CASE SelectSpeed
  BY <1>19 DEF SelectSpeed, Return, Verdict, Code, SpeedReturns, Counting, Idle
<1>20. CASE EjectIoctl
  BY <1>20 DEF EjectIoctl, Return, Verdict, Code, TrayMoves, Counting, Idle
<1>21. CASE EjectVerify
  BY <1>21 DEF EjectVerify, Return, Verdict, Code, TrayMoves, Counting, Idle
<1>22. CASE Open
  BY <1>22 DEF Open, Return, Verdict, Code, Counting, Idle
<1>23. CASE Close
  BY <1>23 DEF Close, Return, Verdict, Code, Detached, Counting, Idle
<1>24. CASE Attach
  BY <1>24 DEF Attach, Begin, Detached, Counting, Idle
<1>25. CASE Detach
  BY <1>25 DEF Detach, Return, Verdict, Code, Detached, Counting, Idle
<1>26. CASE CallPop
  BY <1>26 DEF CallPop, Begin, Return, Verdict, Code, Counting, Idle
<1>27. CASE CallProbe
  BY <1>27 DEF CallProbe, Begin, Return, Verdict, Code, Counting, Idle
<1>28. CASE CallCounterBegin
  BY <1>28 DEF CallCounterBegin, Begin, Counting, Idle
<1>29. CASE CallCounterEnd
  BY <1>29 DEF CallCounterEnd, Begin, Counting, Idle
<1>30. CASE CallCensus
  BY <1>30 DEF CallCensus, Begin, Counting, Idle
<1>31. CASE CallSettings
  BY <1>31 DEF CallSettings, Begin, Refuse, Return, Verdict, Code, Counting, Idle
<1>32. CASE CallSetSpeed
  BY <1>32 DEF CallSetSpeed, Begin, SpeedPlace, Counting, Idle
<1>33. CASE CallSetSpeedRange
  BY <1>33 DEF CallSetSpeedRange, Begin, Counting, Idle
<1>34. CASE CallEject
  BY <1>34 DEF CallEject, Begin, Counting, Idle
<1>35. CASE NoDriver
  BY <1>35 DEF NoDriver, Refuse, Return, Verdict, Code, Counting, Idle
<1>36. CASE ChooseWriteSpeed
  BY <1>36 DEF ChooseWriteSpeed, Counting, Idle
<1>37. ASSUME NEW on \in BOOLEAN, CallUncapSet(on) PROVE Counting'
  BY <1>37 DEF CallUncapSet, Begin, Counting, Idle
<1>38. ASSUME NEW on \in BOOLEAN, CallPush(on) PROVE Counting'
  BY <1>38 DEF CallPush, Begin, Counting, Idle
<1>  QED
  BY <1>1, <1>2, <1>3, <1>4, <1>5, <1>6, <1>7, <1>8, <1>9, <1>10, <1>11, <1>12, <1>13,
     <1>14, <1>15, <1>16, <1>17, <1>18, <1>19, <1>20, <1>21, <1>22, <1>23, <1>24, <1>25,
     <1>26, <1>27, <1>28, <1>29, <1>30, <1>31, <1>32, <1>33, <1>34, <1>35, <1>36, <1>37,
     <1>38 DEF Next, Step

\* Every step keeps what is remembered of SpeedRead true.
LEMMA KnowingStep ==
  ASSUME Flags, Sorts, Knowing, Next
  PROVE  Knowing'
<1>1. CASE Identify
  BY <1>1 DEF Identify, GoTo, Return, Verdict, Code, Knowing, Idle, Flags, Sorts
<1>2. CASE Locate
  BY <1>2 DEF Locate, GoTo, Return, Verdict, Code, LeftOpen, Knowing, Idle, Flags, Sorts
<1>3. CASE SelftestGet
  BY <1>3 DEF SelftestGet, GoTo, SelftestFailed, Return, Verdict, Code, Knowing, Idle,
     Flags, Sorts
<1>4. CASE SelftestSet
  BY <1>4 DEF SelftestSet, GoTo, SelftestFailed, SelftestValue, Outcomes, Result,
     Failure, Return, Verdict, Code, Knowing, Idle, Flags, Sorts
<1>5. CASE SelftestReget
  BY <1>5 DEF SelftestReget, Attached, SelftestFailed, SelftestValue, Return, Verdict,
     Code, Knowing, Idle, Flags, Sorts
<1>6. CASE SelftestArm
  BY <1>6 DEF SelftestArm, GoTo, Arm, SelftestFailed, Result, Failure, Return, Verdict,
     Code, Knowing, Idle, Flags, Sorts
<1>7. CASE SelftestCounters
  BY <1>7 DEF SelftestCounters, GoTo, Knowing, Idle, Flags, Sorts
<1>8. CASE SelftestDisarm
  BY <1>8 DEF SelftestDisarm, Disarm, Attached, SelftestFailed, Result, Failure, Return,
     Verdict, Code, Knowing, Idle, Flags, Sorts
<1>9. CASE UncapGet
  BY <1>9 DEF UncapGet, GoTo, Return, Verdict, Code, Knowing, Idle, Flags, Sorts
<1>10. CASE UncapSet
  BY <1>10 DEF UncapSet, Return, Verdict, Code, Outcomes, Result, Failure, MemoAfter,
     PriorWhenSetFails, Knowing, Idle, Flags, Sorts
<1>11. CASE CountersArm
  BY <1>11 DEF CountersArm, GoTo, Return, Verdict, Code, Arm, SpeedPlace, Result,
     Failure, Knowing, Idle, Flags, Sorts
<1>12. CASE CensusBreaks
  BY <1>12 DEF CensusBreaks, AfterBrokenLoop, Knowing, Idle, Flags, Sorts
<1>13. CASE CensusSample
  BY <1>13 DEF CensusSample, Knowing, Idle, Flags, Sorts
<1>14. CASE CensusDone
  BY <1>14 DEF CensusDone, GoTo, Knowing, Idle, Flags, Sorts
<1>15. CASE CountersDisarm
  BY <1>15 DEF CountersDisarm, Return, Verdict, Code, Disarm, Result, Failure, Knowing,
     Idle, Flags, Sorts
<1>16. CASE Query
  BY <1>16 DEF Query, Return, Verdict, Code, Result, Failure, Knowing, Idle, Flags,
     Sorts
<1>17. CASE Page2A
  BY <1>17 DEF Page2A, Knowing, Idle, Flags, Sorts
<1>18. CASE SetStreaming
  BY <1>18 DEF SetStreaming, GoTo, Return, Verdict, Code, SpeedReturns, Outcomes,
     WriteSpeedSent, StreamingAfter, Result, Failure, Knowing, Idle, Flags, Sorts
<1>19. CASE SelectSpeed
  BY <1>19 DEF SelectSpeed, Return, Verdict, Code, SpeedReturns, Knowing, Idle, Flags,
     Sorts
<1>20. CASE EjectIoctl
  BY <1>20 DEF EjectIoctl, Return, Verdict, Code, TrayMoves, Knowing, Idle, Flags, Sorts
<1>21. CASE EjectVerify
  BY <1>21 DEF EjectVerify, Return, Verdict, Code, TrayMoves, Knowing, Idle, Flags,
     Sorts
<1>22. CASE Open
  BY <1>22 DEF Open, Return, Verdict, Code, Knowing, Idle, Flags, Sorts
<1>23. CASE Close
  BY <1>23 DEF Close, Return, Verdict, Code, Detached, Knowing, Idle, Flags, Sorts
<1>24. CASE Attach
  BY <1>24 DEF Attach, Begin, Detached, Knowing, Idle, Flags, Sorts
<1>25. CASE Detach
  BY <1>25 DEF Detach, Return, Verdict, Code, Detached, Knowing, Idle, Flags, Sorts
<1>26. CASE CallPop
  BY <1>26 DEF CallPop, Begin, Return, Verdict, Code, Knowing, Idle, Flags, Sorts
<1>27. CASE CallProbe
  BY <1>27 DEF CallProbe, Begin, Return, Verdict, Code, Knowing, Idle, Flags, Sorts
<1>28. CASE CallCounterBegin
  BY <1>28 DEF CallCounterBegin, Begin, Knowing, Idle, Flags, Sorts
<1>29. CASE CallCounterEnd
  BY <1>29 DEF CallCounterEnd, Begin, Knowing, Idle, Flags, Sorts
<1>30. CASE CallCensus
  BY <1>30 DEF CallCensus, Begin, Knowing, Idle, Flags, Sorts
<1>31. CASE CallSettings
  BY <1>31 DEF CallSettings, Begin, Refuse, Return, Verdict, Code, Knowing, Idle, Flags,
     Sorts
<1>32. CASE CallSetSpeed
  BY <1>32 DEF CallSetSpeed, Begin, SpeedPlace, Knowing, Idle, Flags, Sorts
<1>33. CASE CallSetSpeedRange
  BY <1>33 DEF CallSetSpeedRange, Begin, Knowing, Idle, Flags, Sorts
<1>34. CASE CallEject
  BY <1>34 DEF CallEject, Begin, Knowing, Idle, Flags, Sorts
<1>35. CASE NoDriver
  BY <1>35 DEF NoDriver, Refuse, Return, Verdict, Code, Knowing, Idle, Flags, Sorts
<1>36. CASE ChooseWriteSpeed
  BY <1>36 DEF ChooseWriteSpeed, Knowing, Idle, Flags, Sorts
<1>37. ASSUME NEW on \in BOOLEAN, CallUncapSet(on) PROVE Knowing'
  BY <1>37 DEF CallUncapSet, Begin, Knowing, Idle, Flags, Sorts
<1>38. ASSUME NEW on \in BOOLEAN, CallPush(on) PROVE Knowing'
  BY <1>38 DEF CallPush, Begin, Knowing, Idle, Flags, Sorts
<1>  QED
  BY <1>1, <1>2, <1>3, <1>4, <1>5, <1>6, <1>7, <1>8, <1>9, <1>10, <1>11, <1>12, <1>13,
     <1>14, <1>15, <1>16, <1>17, <1>18, <1>19, <1>20, <1>21, <1>22, <1>23, <1>24, <1>25,
     <1>26, <1>27, <1>28, <1>29, <1>30, <1>31, <1>32, <1>33, <1>34, <1>35, <1>36, <1>37,
     <1>38 DEF Next, Step

------------------------------------------------------------------------------

\* The invariant is inductive.
LEMMA HandleNext == ASSUME HandleAssumption, HandleInv, [Next]_vars PROVE HandleInv'
<1>1. CASE Next
  BY <1>1, FlagsStep, SortsStep, LoadingStep, CountingStep, KnowingStep DEF HandleInv
<1>2. CASE UNCHANGED vars
  <2>1. Flags' /\ Sorts'
    BY <1>2 DEF vars, HandleInv, Flags, Sorts
  <2>2. Loading' /\ Counting' /\ Knowing'
    BY <1>2 DEF vars, HandleInv, Loading, Counting, Knowing, Idle
  <2>  QED
    BY <2>1, <2>2 DEF HandleInv
<1>  QED
  BY <1>1, <1>2

\* The invariant holds throughout.
LEMMA SpecHandleInv == Spec => []HandleInv
<1>1. Init => HandleInv
  BY HandleAssumption, HandleInit
<1>2. HandleInv /\ [Next]_vars => HandleInv'
  BY HandleAssumption, HandleNext
<1>  QED
  BY <1>1, <1>2, PTL DEF Spec

------------------------------------------------------------------------------
\* A handle keeps to its types; closed, it has no driver and nothing loaded.
THEOREM SpecTypeOK == Spec => []TypeOK
<1>1. HandleInv => TypeOK
  <2>  SUFFICES ASSUME HandleInv PROVE TypeOK
    OBVIOUS
  <2>1. {spd, armed, arg, saved, before, doubt, owed, lost} \subseteq BOOLEAN
    BY DEF HandleInv, Flags
  <2>2. loaded \subseteq Files
    BY HandleAssumption DEF HandleInv, Loading, Candidates, HandleAssumption
  <2>3. open \in BOOLEAN /\ id_valid \in BOOLEAN
    BY DEF HandleInv, Flags
  <2>4. ~open => Idle /\ drv = "none" /\ loaded = {}
    BY DEF HandleInv, Loading, Idle
  <2>  QED
    BY <2>1, <2>2, <2>3, <2>4 DEF HandleInv, Sorts, TypeOK
<1>  QED
  BY <1>1, SpecHandleInv, PTL

\* Between calls exactly the attached driver is loaded (driver.c), and the counters run
\* for a caller that began them or because a failed command hid what it did (census.c,
\* plextor.c).
THEOREM SpecNothingLeftBehind == Spec => []NothingLeftBehind
<1>1. HandleInv => NothingLeftBehind
  BY DEF HandleInv, Loading, Counting, Idle, NothingLeftBehind, LoadedIsAttached, NeverLeftArmed
<1>  QED
  BY <1>1, SpecHandleInv, PTL

\* accudisc_speed_uncap_probe claims to know the setting only when it does, as long as
\* no later set has failed (uncap.c).
THEOREM SpecProbeTrueUntilSetFails == Spec => []ProbeTrueUntilSetFails
<1>1. HandleInv => ProbeTrueUntilSetFails
  BY DEF HandleInv, Flags, Sorts, Knowing, ProbeTrueUntilSetFails, ProbeIsTrue
<1>  QED
  BY <1>1, SpecHandleInv, PTL

\* The selftest and the read-speed calls leave the other settings alone, and a pop puts
\* back what its push found (plextor.c, device.c, uncap.c).
THEOREM SpecSettingsRestored == Spec => SettingsRestored
<1>  DEFINE Restores == KeepsSettings /\ PopsWhatItPushed
<1>1. HandleInv /\ [Next]_vars => Restores
  <2>  SUFFICES ASSUME HandleInv, [Next]_vars PROVE Restores
    OBVIOUS
  <2>1. CASE UncapSet
    <3>1. PICK r \in Result :
            /\ spd' \in Outcomes(r, arg, spd)
            /\ prior' = prior
            /\ Return(r = "ok" /\ spd' = arg)
      BY <2>1 DEF UncapSet, PriorWhenSetFails
    <3>2. at = "uncap_set" /\ op \in {"set", "push", "pop"} /\ wspeed' = wspeed
      BY <2>1 DEF UncapSet, HandleInv, Knowing
    <3>3. KeepsSettings
      BY <3>2, HandleAssumption DEF HandleAssumption, KeepsSettings
    <3>4. op = "push" => prior' # -1
      BY <3>1, <3>2 DEF HandleInv, Knowing
    <3>5. op = "pop" /\ rc' = "ok" => spd' = before
      <4>1. op = "pop" => (arg <=> before) /\ arg \in BOOLEAN /\ before \in BOOLEAN
        BY <3>2 DEF HandleInv, Knowing, Flags
      <4>2. rc' = "ok" => spd' = arg
        BY <3>1 DEF Return, Verdict, Code
      <4>  QED
        BY <4>1, <4>2
    <3>  QED
      BY <3>3, <3>4, <3>5 DEF PopsWhatItPushed
  <2>2. CASE SelftestSet
    BY <2>2 DEF HandleInv, Knowing, SelftestSet, SelftestValue, Outcomes, KeepsSettings,
       PopsWhatItPushed
  <2>3. CASE SetStreaming
    <3>1. PICK r \in Result : wspeed' \in Outcomes(r, WriteSpeedSent(saved, wspeed), wspeed)
      BY <2>3 DEF SetStreaming
    <3>2. saved => wspeed' = wspeed
      BY <3>1 DEF Outcomes, WriteSpeedSent
    <3>3. at # "uncap_set" /\ spd' = spd
      BY <2>3 DEF SetStreaming
    <3>  QED
      BY <3>2, <3>3 DEF KeepsSettings, PopsWhatItPushed
  <2>4. CASE ChooseWriteSpeed
    BY <2>4 DEF ChooseWriteSpeed, KeepsSettings, PopsWhatItPushed, Idle
  <2>5. CASE UNCHANGED vars
    BY <2>5 DEF vars, KeepsSettings, PopsWhatItPushed, Idle
  <2>6. CASE /\ Next
             /\ ~(UncapSet \/ SelftestSet \/ SetStreaming \/ ChooseWriteSpeed)
    <3>1. spd' = spd /\ wspeed' = wspeed /\ at # "uncap_set"
      <4>1. Step \/ Open \/ Close \/ Attach \/ Detach \/ CallPop \/ CallProbe \/ CallCounterBegin
            \/ CallCounterEnd \/ CallCensus \/ CallSettings \/ CallSetSpeed \/ CallSetSpeedRange
            \/ CallEject \/ NoDriver \/ \E on \in BOOLEAN : CallUncapSet(on) \/ CallPush(on)
        BY <2>6 DEF Next
      <4>2. CASE Step
        BY <2>6, <4>2 DEF Step, Identify, Locate, SelftestGet, SelftestReget,
           SelftestArm, SelftestCounters, SelftestDisarm, UncapGet, CountersArm,
           CensusBreaks, CensusSample, CensusDone, CountersDisarm, Query, Page2A,
           SelectSpeed, EjectIoctl, EjectVerify
      <4>3. CASE ~Step
        BY <4>1, <4>3 DEF Open, Close, Attach, Detach, CallPop, CallProbe,
           CallCounterBegin, CallCounterEnd, CallCensus, CallSettings, CallSetSpeed,
           CallSetSpeedRange, CallEject, NoDriver, CallUncapSet, CallPush, Begin,
           Refuse, Idle
      <4>  QED
        BY <4>2, <4>3
    <3>  QED
      BY <3>1 DEF KeepsSettings, PopsWhatItPushed
  <2>  QED
    BY <2>1, <2>2, <2>3, <2>4, <2>5, <2>6
<1>2. SettingsRestored <=> [][Restores]_vars
  BY DEF SettingsRestored
<1>  QED
  BY <1>1, <1>2, SpecHandleInv, PTL DEF Spec

------------------------------------------------------------------------------
(* Least and greatest, and what Append makes of a sequence.                *)

\* The order the library's well-founded induction is about.
LEMMA LessThan == \A k, m \in Nat : k < m => <<k, m>> \in OpToRel(<, Nat)
  BY DEF OpToRel

\* A set of natural numbers has a least.
LEMMA LeastNatural ==
  ASSUME NEW I \in SUBSET Nat, I # {}
  PROVE  \E m \in I : \A k \in I : m <= k
<1>1. PICK m \in I : \A k \in I : ~ (<<k, m>> \in OpToRel(<, Nat))
  BY NatLessThanWellFounded, WFMin
<1>2. \A k \in I : ~ (k < m)
  BY <1>1, LessThan
<1>  QED
  BY <1>2

\* A set of natural numbers that is bounded has a greatest.
LEMMA GreatestNatural ==
  ASSUME NEW R \in SUBSET Nat, R # {}, NEW b \in Nat, \A x \in R : x <= b
  PROVE  \E m \in R : \A x \in R : x <= m
<1>  DEFINE D == {b - x : x \in R}
<1>1. D \in SUBSET Nat /\ D # {}
  <2>1. \A x \in R : b - x \in Nat
    OBVIOUS
  <2>  QED
    BY <2>1, Zenon
<1>2. PICK d \in D : \A e \in D : d <= e
  <2>  HIDE DEF D
  <2>  QED
    BY <1>1, LeastNatural
<1>3. PICK m \in R : d = b - m
  BY <1>2
<1>4. ASSUME NEW x \in R PROVE x <= m
  <2>1. b - x \in D
    BY <1>4
  <2>2. b - m <= b - x
    BY <1>2, <1>3, <2>1
  <2>  QED
    BY <2>2
<1>  QED
  BY <1>4

\* A set of integers bounded below has a least, and it is Min.
LEMMA LeastInteger ==
  ASSUME NEW I \in SUBSET Int, NEW low \in Int, \A k \in I : low <= k, I # {}
  PROVE  Min(I) \in I /\ \A k \in I : Min(I) <= k
<1>  DEFINE D == {k - low : k \in I}
<1>1. D \in SUBSET Nat /\ D # {}
  <2>1. \A k \in I : k - low \in Nat
    OBVIOUS
  <2>  QED
    BY <2>1, Zenon
<1>2. PICK d \in D : \A e \in D : d <= e
  BY <1>1, LeastNatural
<1>3. PICK m \in I : d = m - low
  BY <1>2
<1>4. \A k \in I : m <= k
  <2>1. ASSUME NEW k \in I PROVE m <= k
    <3>1. k - low \in D
      BY <2>1
    <3>2. d <= k - low
      BY <1>2, <3>1
    <3>  QED
      BY <1>3, <3>2
  <2>  QED
    BY <2>1
<1>  QED
  BY <1>4, Zenon DEF Min

\* A set of integers bounded above has a greatest, and it is Max.
LEMMA GreatestInteger ==
  ASSUME NEW I \in SUBSET Int, NEW high \in Int, \A k \in I : k <= high, I # {}
  PROVE  Max(I) \in I /\ \A k \in I : Max(I) >= k
<1>  DEFINE D == {high - k : k \in I}
<1>1. D \in SUBSET Nat /\ D # {}
  <2>1. \A k \in I : high - k \in Nat
    OBVIOUS
  <2>  QED
    BY <2>1, Zenon
<1>2. PICK d \in D : \A e \in D : d <= e
  BY <1>1, LeastNatural
<1>3. PICK m \in I : d = high - m
  BY <1>2
<1>4. \A k \in I : m >= k
  <2>1. ASSUME NEW k \in I PROVE m >= k
    <3>1. high - k \in D
      BY <2>1
    <3>2. d <= high - k
      BY <1>2, <3>1
    <3>  QED
      BY <1>3, <3>2
  <2>  QED
    BY <2>1
<1>  QED
  BY <1>4, Zenon DEF Max

\* A sequence, whatever its elements are.
IsSeq(s) == \E V : s \in Seq(V)

\* What is appended comes last, and the rest stays.
LEMMA Appended ==
  ASSUME NEW s, IsSeq(s), NEW e
  PROVE  /\ IsSeq(Append(s, e))
         /\ Len(s) \in Nat /\ Len(Append(s, e)) = Len(s) + 1
         /\ Append(s, e)[Len(s) + 1] = e
         /\ \A i \in 1 .. Len(s) : Append(s, e)[i] = s[i]
<1>1. PICK V : s \in Seq(V)
  BY DEF IsSeq
<1>2. s \in Seq(V \cup {e}) /\ e \in V \cup {e}
  BY <1>1
<1>3. Append(s, e) \in Seq(V \cup {e})
  BY <1>2
<1>  QED
  BY <1>2, <1>3 DEF IsSeq

------------------------------------------------------------------------------
(* READ CD (ReadCd): what a handle has learnt, and where records are.      *)

\* ReadCd's variables by name.
order == r1
pads == r2
refuses == r3
xfer_exact == r4
layout == r5
cap == r6
step == r7
c2 == r8
sub == r9
nsec == r10
xfer == r11
cd_rc == r12
transients == r13
timed_out == r14
fault == r15
got == r16

\* What the invariant needs of the variables' types.
CdSorts ==
  /\ order \in {"mmc", "sub_first"} /\ pads \in BOOLEAN /\ refuses \in {"no", "io", "illegal"}
  /\ xfer_exact \in -1 .. 1 /\ layout \in [C2s \X Subs -> {"mmc", "sub_first", "unknown"}]
  /\ nsec \in Nat \ {0} /\ {transients, fault, timed_out} \subseteq BOOLEAN
  /\ step # "idle" => c2 \in C2s /\ sub \in Subs

\* What the handle has learnt is so: that rounding works only from a drive that does
\* not refuse it, and that it does not from one that does, unless errors pass.
CdLearnt ==
  /\ \A c \in C2s, s \in Subs : layout[<<c, s>>] \in {"unknown", order}
  /\ xfer_exact = 1 => refuses # "no" \/ transients
  /\ xfer_exact = -1 => refuses = "no"

\* A rounded length is asked for by a handle that does not know better; and where
\* rounding is not refused and errors do not pass, the failure a second attempt follows
\* is a time-out or an illegal request of another cause.
CdAsked ==
  /\ step = "first" /\ xfer # Rcd!Exact => xfer_exact # 1
  /\ step = "retry" =>
       /\ xfer # Rcd!Exact
       /\ refuses = "no" /\ ~transients => fault /\ (timed_out \/ cd_rc = "illegal")

\* What a transfer t holds: at most one collision, and of a displaced one at most one
\* record at its place.
CdTransfer ==
  [displaced : BOOLEAN, right : Nat, wrong : 0 .. 1, tail : Nat, order : Rcd!Orders]
CdHolds(t) ==
  /\ t \in CdTransfer
  /\ t.order = order
  /\ t.displaced => nsec > 1 /\ t.right <= 1

\* What is known when both attempts are over.
CdHeard ==
  step = "after" =>
    /\ ~fault => cd_rc = "ok"
    /\ cd_rc = "ok" => CdHolds(got) /\ (xfer # Rcd!Exact => refuses = "no")

CdIInv ==
  /\ CdSorts /\ CdLearnt /\ CdAsked /\ CdHeard
  /\ Rcd!RecordsInPlace /\ Rcd!OneSectorReadWorks

USE DEF order, pads, refuses, xfer_exact, layout, cap, step, c2, sub, nsec, xfer, cd_rc,
        transients, timed_out, fault, got
USE DEF Rcd!drive, Rcd!handle, Rcd!args, Rcd!vars

\* Whatever length is asked for, and whatever the drive does with it.
LEMMA CdTransferHolds ==
  ASSUME CdSorts, NEW len, NEW t \in Rcd!Transfer(len)
  PROVE  CdHolds(t)
<1>  DEFINE displaced == pads /\ len % 16 # 0 /\ nsec > 1
<1>1. displaced \in BOOLEAN
  OBVIOUS
<1>2. CASE ~Rcd!Combined
  <2>  HIDE DEF displaced
  <2>1. t = [displaced |-> displaced, right |-> 0, wrong |-> 0, tail |-> 0, order |-> order]
    BY <1>2 DEF Rcd!Transfer, Rcd!NoTransfer, displaced
  <2>2. t.right = 0 /\ t.order = order /\ (t.displaced <=> displaced)
    BY <2>1
  <2>3. t.displaced => nsec > 1 /\ t.right <= 1
    BY <2>2 DEF displaced
  <2>4. t \in CdTransfer
    <3>1. order \in Rcd!Orders
      BY DEF CdSorts, Rcd!Orders
    <3>2. 0 \in Nat /\ 0 \in 0 .. 1
      OBVIOUS
    <3>  QED
      BY <1>1, <2>1, <3>1, <3>2, Zenon DEF CdTransfer
  <2>  QED
    BY <2>2, <2>3, <2>4 DEF CdHolds
<1>3. CASE Rcd!Combined
  <2>  DEFINE seen == IF displaced THEN 1 ELSE nsec
              after == IF ~displaced THEN 0 ELSE IF order = "mmc" THEN nsec - 2 ELSE nsec - 1
  <2>1. t \in [displaced : {displaced}, right : 0 .. seen, wrong : 0 .. 1,
               tail : 0 .. after, order : {order}]
    BY <1>3 DEF Rcd!Transfer
  <2>2. seen \in Nat /\ after \in Int
    BY DEF CdSorts
  <2>  HIDE DEF displaced
  <2>3. (t.displaced <=> displaced) /\ t.order = order /\ t.right \in 0 .. seen
    BY <2>1
  <2>4. t \in CdTransfer
    <3>1. {displaced} \subseteq BOOLEAN /\ {order} \subseteq Rcd!Orders
      BY <1>1 DEF CdSorts, Rcd!Orders
    <3>2. 0 .. seen \subseteq Nat /\ 0 .. after \subseteq Nat
      BY <2>2
    <3>  HIDE DEF seen, after
    <3>  QED
      BY <2>1, <3>1, <3>2, Zenon DEF CdTransfer
  <2>5. ASSUME t.displaced PROVE nsec > 1 /\ t.right <= 1
    <3>1. displaced
      BY <2>3, <2>5
    <3>2. nsec > 1
      BY <3>1 DEF displaced
    <3>3. seen = 1
      BY <3>1
    <3>  QED
      BY <2>3, <3>2, <3>3
  <2>  QED
    BY <2>3, <2>4, <2>5 DEF CdHolds, CdTransfer
<1>  QED
  BY <1>2, <1>3

\* A handle just opened has learnt nothing.
LEMMA CdInitInv == ASSUME Rcd!ReadCdAssumption, Rcd!Init PROVE CdIInv
<1>1. CdSorts
  <2>1. {transients, fault, timed_out} \subseteq BOOLEAN
    BY DEF Rcd!Init, Rcd!DriveInit
  <2>2. layout \in [C2s \X Subs -> {"mmc", "sub_first", "unknown"}]
    BY DEF Rcd!Init
  <2>3. /\ order \in {"mmc", "sub_first"} /\ pads \in BOOLEAN
        /\ refuses \in {"no", "io", "illegal"}
    BY DEF Rcd!Init, Rcd!DriveInit, Rcd!Orders
  <2>4. xfer_exact \in -1 .. 1 /\ nsec \in Nat \ {0} /\ step = "idle"
    BY DEF Rcd!Init
  <2>  QED
    BY <2>1, <2>2, <2>3, <2>4 DEF CdSorts
<1>2. CdLearnt
  <2>1. xfer_exact = 0
    BY DEF Rcd!Init
  <2>2. \A c \in C2s, s \in Subs : layout[<<c, s>>] = "unknown"
    BY DEF Rcd!Init
  <2>  QED
    BY <2>1, <2>2 DEF CdLearnt
<1>3. CdAsked /\ CdHeard /\ Rcd!RecordsInPlace /\ Rcd!OneSectorReadWorks
  BY DEF Rcd!Init, CdAsked, CdHeard, Rcd!RecordsInPlace, Rcd!OneSectorReadWorks
<1>  QED
  BY <1>1, <1>2, <1>3 DEF CdIInv

\* A step that leaves the drive and what has been learnt of it alone.
LEMMA CdStillLearnt ==
  ASSUME CdLearnt, UNCHANGED <<order, refuses, transients, layout, xfer_exact>> PROVE CdLearnt'
  BY DEF CdLearnt

\* A call that is not over promises nothing.
LEMMA CdNotOver ==
  ASSUME step' # "done" PROVE (Rcd!RecordsInPlace /\ Rcd!OneSectorReadWorks)'
  BY DEF Rcd!RecordsInPlace, Rcd!OneSectorReadWorks

\* The first attempt: either over, or to be made again exactly.
LEMMA CdFirstInv == ASSUME Rcd!ReadCdAssumption, CdIInv, Rcd!First PROVE CdIInv'
<1>1. PICK r \in Rcd!Answers :
        /\ cd_rc' = r /\ timed_out' = (r = "timeout")
        /\ IF r = "ok" THEN got' \in Rcd!Transfer(xfer) ELSE UNCHANGED got
        /\ step' = IF r # "ok" /\ xfer # Rcd!Exact /\ xfer_exact = 0 /\ Rcd!Suspects(r)
                   THEN "retry" ELSE "after"
  BY DEF Rcd!First
<1>2. step = "first" /\ UNCHANGED <<Rcd!drive, Rcd!handle, Rcd!args, xfer, fault>>
  BY DEF Rcd!First
<1>3. Rcd!Exact' = Rcd!Exact
  BY <1>2 DEF Rcd!Exact, Rcd!SectorLen
<1>4. CdSorts'
  <2>1. timed_out' \in BOOLEAN
    BY <1>1
  <2>  QED
    BY <1>2, <2>1 DEF CdIInv, CdSorts
<1>5. CdLearnt'
  BY <1>2, CdStillLearnt DEF CdIInv
<1>6. step' \in {"retry", "after"}
  BY <1>1
<1>7. CdAsked'
  <2>  SUFFICES ASSUME step' = "retry"
                PROVE  /\ xfer # Rcd!Exact
                       /\ refuses = "no" /\ ~transients
                            => fault /\ (timed_out' \/ cd_rc' = "illegal")
    BY <1>2, <1>3, <1>6 DEF CdAsked
  <2>1. r # "ok" /\ xfer # Rcd!Exact /\ Rcd!Suspects(r)
    BY <1>1
  <2>2. r \in {"io", "timeout", "illegal"}
    BY <2>1 DEF Rcd!Suspects
  <2>3. ASSUME refuses = "no", ~transients PROVE fault /\ r \in {"timeout", "illegal"}
    BY <2>1, <2>2, <2>3 DEF Rcd!Answers, Rcd!Faults, Rcd!Refused, CdIInv, CdSorts
  <2>  QED
    BY <1>1, <2>1, <2>3
<1>8. CdHeard'
  <2>  SUFFICES ASSUME step' = "after"
                PROVE  /\ ~fault => r = "ok"
                       /\ r = "ok" => CdHolds(got)' /\ (xfer # Rcd!Exact => refuses = "no")
    BY <1>1, <1>2, <1>3 DEF CdHeard
  <2>1. ASSUME ~fault PROVE r = "ok"
    <3>1. r = IF Rcd!Refused THEN refuses ELSE "ok"
      BY <2>1 DEF Rcd!Answers, Rcd!Faults
    <3>2. CASE Rcd!Refused
      <4>1. r \in {"io", "illegal"} /\ xfer # Rcd!Exact
        BY <3>1, <3>2 DEF Rcd!Refused, CdIInv, CdSorts
      <4>2. xfer_exact # 1 /\ xfer_exact # -1
        BY <1>2, <3>2, <4>1 DEF Rcd!Refused, CdIInv, CdLearnt, CdAsked
      <4>3. xfer_exact \in -1 .. 1
        BY DEF CdIInv, CdSorts
      <4>4. xfer_exact = 0
        BY <4>2, <4>3
      <4>  QED
        BY <1>1, <4>1, <4>4 DEF Rcd!Suspects
    <3>  QED
      BY <3>1, <3>2
  <2>2. ASSUME r = "ok" PROVE CdHolds(got)' /\ (xfer # Rcd!Exact => refuses = "no")
    <3>1. got' \in Rcd!Transfer(xfer)
      BY <1>1, <2>2
    <3>2. CdHolds(got')
      BY <3>1, CdTransferHolds DEF CdIInv
    <3>3. CdHolds(got)'
      BY <1>2, <3>2 DEF CdHolds, CdTransfer
    <3>4. ~Rcd!Refused
      BY <2>2 DEF Rcd!Answers, Rcd!Faults, Rcd!Refused, CdIInv, CdSorts
    <3>  QED
      BY <3>3, <3>4 DEF Rcd!Refused
  <2>  QED
    BY <2>1, <2>2
<1>  QED
  BY <1>4, <1>5, <1>6, <1>7, <1>8, CdNotOver DEF CdIInv

\* The second attempt, of the exact length: it says something of rounding only if the
\* first one was no time-out and would not have passed by itself.
LEMMA CdRetryInv == ASSUME Rcd!ReadCdAssumption, CdIInv, Rcd!Retry PROVE CdIInv'
<1>1. PICK r \in Rcd!ExactAnswers :
        /\ cd_rc' = r
        /\ xfer_exact' = IF Rcd!Condemned(r) THEN 1 ELSE xfer_exact
        /\ IF r = "ok" THEN got' \in Rcd!Transfer(Rcd!Exact) ELSE UNCHANGED got
  BY DEF Rcd!Retry
<1>2. /\ step = "retry" /\ step' = "after" /\ xfer' = Rcd!Exact
      /\ UNCHANGED <<Rcd!drive, layout, cap, Rcd!args, timed_out, fault>>
  BY DEF Rcd!Retry
<1>3. Rcd!Exact' = Rcd!Exact
  BY <1>2 DEF Rcd!Exact, Rcd!SectorLen
<1>4. xfer_exact' \in -1 .. 1 /\ CdSorts'
  BY <1>1, <1>2 DEF CdIInv, CdSorts
<1>5. CdLearnt'
  <2>1. ASSUME refuses = "no", ~transients PROVE xfer_exact' = xfer_exact
    <3>1. fault /\ (timed_out \/ cd_rc = "illegal") /\ ~Rcd!Refused
      BY <1>2, <2>1 DEF CdIInv, CdAsked, Rcd!Refused
    <3>2. ~Rcd!Condemned(r)
      BY <1>1, <2>1, <3>1 DEF Rcd!Condemned, Rcd!ExactAnswers
    <3>  QED
      BY <1>1, <3>2
  <2>2. ASSUME xfer_exact' = -1 PROVE xfer_exact = -1
    BY <1>1, <2>2
  <2>  QED
    BY <1>1, <1>2, <2>1, <2>2 DEF CdIInv, CdLearnt
<1>6. CdAsked'
  BY <1>2 DEF CdAsked
<1>7. CdHeard'
  <2>1. ASSUME ~fault PROVE r = "ok"
    BY <1>1, <2>1 DEF Rcd!ExactAnswers, Rcd!Faults
  <2>2. ASSUME r = "ok" PROVE CdHolds(got)'
    <3>1. CdHolds(got')
      BY <1>1, <2>2, CdTransferHolds DEF CdIInv
    <3>  QED
      BY <1>2, <3>1 DEF CdHolds, CdTransfer
  <2>  QED
    BY <1>1, <1>2, <1>3, <2>1, <2>2 DEF CdHeard
<1>  QED
  BY <1>2, <1>4, <1>5, <1>6, <1>7, CdNotOver DEF CdIInv

\* A collision is a single hit, and a single hit is not latched.
LEMMA CdLatchesOrder ==
  ASSUME CdSorts, CdHolds(got), Rcd!Latches(got) PROVE Rcd!Winner(got) = order
<1>1. CASE got.right > 0 /\ got.wrong * 3 <= got.right
  BY <1>1 DEF Rcd!Winner, CdHolds, CdTransfer
<1>2. CASE ~(got.right > 0 /\ got.wrong * 3 <= got.right)
  <2>1. got.wrong > 0 /\ got.right * 3 <= got.wrong
    BY <1>2 DEF Rcd!Latches, Rcd!Winner
  <2>2. got.right = 0 /\ got.wrong = 1
    BY <2>1 DEF CdHolds, CdTransfer
  <2>  QED
    BY <2>2 DEF Rcd!Latches, Rcd!Votes
<1>  QED
  BY <1>1, <1>2

\* Who wins is the drive's order, unless all there is is one collision.
LEMMA CdWinner ==
  ASSUME CdHolds(got)
  PROVE  Rcd!Winner(got) \in {order, "unknown"} \/ (got.right = 0 /\ got.wrong = 1)
<1>1. CASE got.right > 0 /\ got.wrong * 3 <= got.right
  BY <1>1 DEF Rcd!Winner, CdHolds, CdTransfer
<1>2. CASE ~(got.right > 0 /\ got.wrong * 3 <= got.right)
  <2>1. CASE got.wrong > 0 /\ got.right * 3 <= got.wrong
    BY <2>1 DEF CdHolds, CdTransfer
  <2>2. CASE ~(got.wrong > 0 /\ got.right * 3 <= got.wrong)
    BY <1>2, <2>2 DEF Rcd!Winner
  <2>  QED
    BY <2>1, <2>2
<1>  QED
  BY <1>1, <1>2

\* What is handed over, and what is learnt from it.
LEMMA CdAfterInv == ASSUME Rcd!ReadCdAssumption, CdIInv, Rcd!After PROVE CdIInv'
<1>1. /\ step = "after" /\ step' = "done" /\ c2 \in C2s /\ sub \in Subs
      /\ UNCHANGED <<Rcd!drive, Rcd!args, xfer, timed_out, fault>>
  BY DEF Rcd!After, CdIInv, CdSorts
<1>2. Rcd!Exact' = Rcd!Exact /\ Rcd!Combined' = Rcd!Combined
  BY <1>1 DEF Rcd!Exact, Rcd!SectorLen, Rcd!Combined
<1>3. CdAsked' /\ CdHeard'
  BY <1>1 DEF CdAsked, CdHeard
<1>4. CASE cd_rc # "ok"
  <2>1. UNCHANGED <<xfer_exact, layout, cap, cd_rc, got>>
    BY <1>4 DEF Rcd!After
  <2>2. fault /\ cd_rc' # "ok" /\ fault'
    BY <1>1, <1>4, <2>1 DEF CdIInv, CdHeard, CdSorts
  <2>3. CdSorts' /\ CdLearnt'
    BY <1>1, <2>1, CdStillLearnt DEF CdIInv, CdSorts
  <2>4. Rcd!RecordsInPlace' /\ Rcd!OneSectorReadWorks'
    BY <2>2 DEF Rcd!RecordsInPlace, Rcd!OneSectorReadWorks
  <2>  QED
    BY <1>3, <2>3, <2>4 DEF CdIInv
<1>5. CASE cd_rc = "ok"
  <2>1. CdHolds(got) /\ (xfer # Rcd!Exact => refuses = "no")
    BY <1>1, <1>5 DEF CdIInv, CdHeard
  <2>2. xfer_exact' = IF xfer # Rcd!Exact THEN -1 ELSE xfer_exact
    BY <1>5 DEF Rcd!After
  <2>3. xfer_exact' \in -1 .. 1 /\ (xfer_exact' = 1 => refuses # "no" \/ transients)
        /\ (xfer_exact' = -1 => refuses = "no")
    <3>1. /\ xfer_exact \in -1 .. 1 /\ (xfer_exact = 1 => refuses # "no" \/ transients)
          /\ (xfer_exact = -1 => refuses = "no")
      BY DEF CdIInv, CdSorts, CdLearnt
    <3>2. CASE xfer # Rcd!Exact
      BY <2>1, <2>2, <3>2
    <3>3. CASE xfer = Rcd!Exact
      BY <2>2, <3>1, <3>3
    <3>  QED
      BY <3>2, <3>3
  <2>4. CASE ~Rcd!Combined
    <3>1. UNCHANGED <<layout, cd_rc, got>>
      BY <1>5, <2>4 DEF Rcd!After
    <3>2. CdSorts' /\ CdLearnt'
      BY <1>1, <2>3, <3>1 DEF CdIInv, CdSorts, CdLearnt
    <3>3. nsec = 1 => ~got.displaced
      BY <2>1 DEF CdHolds
    <3>4. Rcd!OneSectorReadWorks'
      BY <1>1, <1>5, <3>1, <3>3 DEF Rcd!OneSectorReadWorks
    <3>5. Rcd!RecordsInPlace'
      BY <1>2, <2>4 DEF Rcd!RecordsInPlace
    <3>  QED
      BY <1>3, <3>2, <3>4, <3>5 DEF CdIInv
  <2>5. CASE Rcd!Combined /\ Rcd!Misframed(got)
    <3>1. cd_rc' = "misframed" /\ UNCHANGED <<layout, got>>
      BY <1>5, <2>5 DEF Rcd!After
    <3>2. CdSorts' /\ CdLearnt'
      BY <1>1, <2>3, <3>1 DEF CdIInv, CdSorts, CdLearnt
    <3>3. nsec' # 1
      BY <1>1, <2>5 DEF Rcd!Misframed, CdIInv, CdSorts
    <3>4. Rcd!RecordsInPlace' /\ Rcd!OneSectorReadWorks'
      BY <3>1, <3>3 DEF Rcd!RecordsInPlace, Rcd!OneSectorReadWorks
    <3>  QED
      BY <1>3, <3>2, <3>4 DEF CdIInv
  <2>6. CASE Rcd!Combined /\ ~Rcd!Misframed(got)
    <3>1. /\ layout' = IF Rcd!Latches(got)
                       THEN [layout EXCEPT ![<<c2, sub>>] = Rcd!Winner(got)] ELSE layout
          /\ got' = [got EXCEPT !.order = IF Rcd!Use(got) = "sub_first"
                                          THEN Rcd!Opposite(@) ELSE @]
          /\ UNCHANGED cd_rc
      BY <1>5, <2>6 DEF Rcd!After
    <3>2. /\ layout' \in [C2s \X Subs -> {"mmc", "sub_first", "unknown"}]
          /\ \A c \in C2s, s \in Subs : layout'[<<c, s>>] \in {"unknown", order}
      <4>1. CASE Rcd!Latches(got)
        <5>1. layout' = [layout EXCEPT ![<<c2, sub>>] = order]
          BY <2>1, <3>1, <4>1, CdLatchesOrder DEF CdIInv
        <5>2. \A p \in C2s \X Subs : layout'[p] = IF p = <<c2, sub>> THEN order ELSE layout[p]
          BY <5>1 DEF CdIInv, CdSorts
        <5>  QED
          BY <5>1, <5>2 DEF CdIInv, CdSorts, CdLearnt
      <4>2. CASE ~Rcd!Latches(got)
        BY <3>1, <4>2 DEF CdIInv, CdSorts, CdLearnt
      <4>  QED
        BY <4>1, <4>2
    <3>3. CdSorts' /\ CdLearnt'
      BY <1>1, <2>3, <3>2 DEF CdIInv, CdSorts, CdLearnt
    <3>4. /\ got'.displaced = got.displaced /\ got'.right = got.right
          /\ got'.wrong = got.wrong /\ got'.tail = got.tail
      BY <3>1 DEF Rcd!Opposite
    <3>5. Rcd!OneSectorReadWorks'
      BY <1>1, <1>5, <2>1, <3>1, <3>4 DEF Rcd!OneSectorReadWorks, CdHolds, CdTransfer
    <3>6. ASSUME got'.order # "mmc"
          PROVE  layout'[<<c2, sub>>] = "unknown" \/ (got'.right = 0 /\ got'.wrong = 1)
      <4>1. got'.order = IF Rcd!Use(got) = "sub_first" THEN Rcd!Opposite(order) ELSE order
        BY <2>1, <3>1 DEF CdHolds, CdTransfer
      <4>2. Rcd!Use(got) # order
        BY <3>6, <4>1 DEF Rcd!Opposite, CdIInv, CdSorts
      <4>3. CASE Rcd!Winner(got) = "unknown"
        <5>1. layout' = layout /\ Rcd!Use(got) = layout[<<c2, sub>>]
          BY <3>1, <4>3 DEF Rcd!Latches, Rcd!Use
        <5>  QED
          BY <1>1, <4>2, <5>1 DEF CdIInv, CdLearnt
      <4>4. CASE Rcd!Winner(got) # "unknown"
        <5>1. Rcd!Winner(got) # order
          BY <4>2, <4>4 DEF Rcd!Use
        <5>  QED
          BY <2>1, <3>4, <4>4, <5>1, CdWinner
      <4>  QED
        BY <4>3, <4>4
    <3>7. ASSUME got'.displaced
          PROVE  nsec < 4 \/ got'.tail * 2 < nsec - 1 \/ got'.tail < 2
      <4>1. got.right <= 1 /\ got.right \in Nat /\ got.wrong \in 0 .. 1 /\ got.tail \in Nat
        BY <2>1, <3>4, <3>7 DEF CdHolds, CdTransfer
      <4>2. Rcd!Votes(got) \in {0, 1}
        BY <4>1 DEF Rcd!Votes
      <4>3. nsec \in Nat
        BY DEF CdIInv, CdSorts
      <4>  QED
        BY <2>6, <3>4, <4>1, <4>2, <4>3 DEF Rcd!Misframed
    <3>8. Rcd!RecordsInPlace'
      BY <1>1, <1>2, <3>6, <3>7 DEF Rcd!RecordsInPlace
    <3>  QED
      BY <1>3, <3>3, <3>5, <3>8 DEF CdIInv
  <2>  QED
    BY <2>4, <2>5, <2>6
<1>  QED
  BY <1>4, <1>5

\* Every step of a call keeps the invariant.
LEMMA CdNextInv == ASSUME Rcd!ReadCdAssumption, CdIInv, [Rcd!Next]_(Rcd!vars) PROVE CdIInv'
<1>1. CASE Rcd!Call
  <2>1. nsec' \in Nat \ {0} /\ c2' \in C2s /\ sub' \in Subs /\ fault' \in BOOLEAN
        /\ step' = "bounce"
    BY <1>1 DEF Rcd!Call, Rcd!ReadCdAssumption
  <2>2. UNCHANGED <<Rcd!drive, Rcd!handle, timed_out>>
    BY <1>1 DEF Rcd!Call
  <2>3. CdSorts' /\ CdLearnt'
    BY <2>1, <2>2, CdStillLearnt DEF CdIInv, CdSorts
  <2>4. CdAsked' /\ CdHeard'
    BY <2>1 DEF CdAsked, CdHeard
  <2>  QED
    BY <2>1, <2>3, <2>4, CdNotOver DEF CdIInv
<1>2. CASE Rcd!BadArgs
  <2>1. step = "idle" /\ UNCHANGED <<Rcd!drive, Rcd!handle, step, Rcd!args, timed_out, fault>>
    BY <1>2 DEF Rcd!BadArgs
  <2>2. CdSorts' /\ CdLearnt' /\ CdAsked' /\ CdHeard'
    BY <2>1, CdStillLearnt DEF CdIInv, CdSorts, CdAsked, CdHeard
  <2>  QED
    BY <2>1, <2>2, CdNotOver DEF CdIInv
<1>3. CASE Rcd!Bounce
  <2>1. /\ step = "bounce" /\ step' = "first"
        /\ UNCHANGED <<Rcd!drive, xfer_exact, layout, Rcd!args, timed_out, fault>>
    BY <1>3 DEF Rcd!Bounce
  <2>2. xfer' # Rcd!Exact => xfer_exact # 1
    BY <1>3 DEF Rcd!Bounce, Rcd!NeedsRounding
  <2>3. Rcd!Exact' = Rcd!Exact
    BY <2>1 DEF Rcd!Exact, Rcd!SectorLen
  <2>4. CdSorts' /\ CdLearnt'
    BY <2>1, CdStillLearnt DEF CdIInv, CdSorts
  <2>5. CdAsked' /\ CdHeard'
    BY <2>1, <2>2, <2>3 DEF CdAsked, CdHeard
  <2>  QED
    BY <2>1, <2>4, <2>5, CdNotOver DEF CdIInv
<1>4. CASE Rcd!Return
  <2>1. /\ step' = "idle" /\ nsec' = 1 /\ timed_out' = FALSE /\ fault' = FALSE
        /\ UNCHANGED <<Rcd!drive, Rcd!handle>>
    BY <1>4 DEF Rcd!Return
  <2>2. timed_out' \in BOOLEAN /\ fault' \in BOOLEAN
    BY <2>1
  <2>3. CdSorts' /\ CdLearnt'
    BY <2>1, <2>2, CdStillLearnt DEF CdIInv, CdSorts
  <2>4. CdAsked' /\ CdHeard'
    BY <2>1 DEF CdAsked, CdHeard
  <2>  QED
    BY <2>1, <2>3, <2>4, CdNotOver DEF CdIInv
<1>5. CASE UNCHANGED Rcd!vars
  <2>1. Rcd!Exact' = Rcd!Exact /\ Rcd!Combined' = Rcd!Combined
    BY <1>5 DEF Rcd!Exact, Rcd!SectorLen, Rcd!Combined
  <2>2. CdSorts' /\ CdLearnt'
    BY <1>5 DEF CdIInv, CdSorts, CdLearnt
  <2>3. CdAsked' /\ CdHeard'
    BY <1>5, <2>1 DEF CdIInv, CdAsked, CdHeard, CdHolds, CdTransfer
  <2>4. Rcd!RecordsInPlace' /\ Rcd!OneSectorReadWorks'
    BY <1>5, <2>1 DEF CdIInv, Rcd!RecordsInPlace, Rcd!OneSectorReadWorks
  <2>  QED
    BY <2>2, <2>3, <2>4 DEF CdIInv
<1>  QED
  BY <1>1, <1>2, <1>3, <1>4, <1>5, CdFirstInv, CdRetryInv, CdAfterInv DEF Rcd!Next

------------------------------------------------------------------------------
(* The speeds a read asks for (ReadSpeed).                                 *)

\* ReadSpeed's variables by name.
req == r1
rs_at == r2
rs_left == r3
attempt == r4
may_anchor == r5
cur_speed == r6
speed_dirty == r7
rs_drive == r8
asked == r9
noop == r10
last == r11
rs_rc == r12

USE DEF req, rs_at, rs_left, attempt, may_anchor, cur_speed, speed_dirty, rs_drive,
        asked, noop, last, rs_rc

\* What has been asked of the drive, and what struct rd remembers of it: cur_speed is
\* right once it is set, and only speed_dirty stands between the drive and the pass
\* speed.
PaceTyped ==
  /\ req \in [speed : Nat, ladder : Seq(Nat)]
  /\ asked \in Nat \cup {Pace!Before} /\ cur_speed \in Nat \cup {Pace!Unknown}
  /\ speed_dirty \in BOOLEAN
PaceRemembered == cur_speed # Pace!Unknown => cur_speed = asked
PaceOwing ==
  /\ rs_at = "start" => asked = Pace!Before /\ ~speed_dirty
  /\ rs_at # "start" /\ ~speed_dirty => Pace!AtPassSpeed(asked)

PaceIInv == PaceTyped /\ PaceRemembered /\ PaceOwing /\ Pace!PassSpeedKept

\* Before the first transfer nothing is owed.
LEMMA PaceInitInv == ASSUME Pace!SpeedAssumption, Pace!Init PROVE PaceIInv
<1>1. PaceTyped
  <2>1. speed_dirty \in BOOLEAN
    BY DEF Pace!Init
  <2>  QED
    BY <2>1 DEF Pace!Init, PaceTyped, Pace!SpeedAssumption, Pace!Before, Pace!Unknown
<1>2. PaceRemembered /\ PaceOwing
  BY DEF Pace!Init, PaceRemembered, PaceOwing
<1>3. Pace!PassSpeedKept
  BY DEF Pace!Init, Pace!PassSpeedKept, Pace!StreamsAtPassSpeed, Pace!LeftAtPassSpeed
<1>  QED
  BY <1>1, <1>2, <1>3 DEF PaceIInv

\* set_speed_once: afterwards s has been asked for, and is remembered.
LEMMA PaceOnceAsked ==
  ASSUME PaceTyped, PaceRemembered, NEW s \in Nat, Pace!SetSpeedOnce(s)
  PROVE  asked' = s /\ cur_speed' = s
  BY DEF PaceTyped, PaceRemembered, Pace!SetSpeedOnce, Pace!SetSpeed, Pace!Unknown

\* ladder_restore: afterwards nothing is owed.
LEMMA PaceRestored ==
  ASSUME PaceTyped, PaceRemembered, PaceOwing, rs_at # "start", Pace!Restore, UNCHANGED req
  PROVE  /\ asked' \in Nat \cup {Pace!Before} /\ cur_speed' \in Nat \cup {Pace!Unknown}
         /\ PaceRemembered' /\ speed_dirty' = FALSE /\ Pace!AtPassSpeed(asked')
<1>1. CASE ~speed_dirty
  BY <1>1 DEF Pace!Restore, Pace!speed, PaceTyped, PaceRemembered, PaceOwing,
              Pace!AtPassSpeed
<1>2. CASE speed_dirty
  <2>1. req.speed \in Nat
    BY DEF PaceTyped
  <2>2. Pace!SetSpeedOnce(req.speed) /\ speed_dirty' = FALSE
    BY <1>2 DEF Pace!Restore
  <2>3. asked' = req.speed /\ cur_speed' = req.speed
    BY <2>1, <2>2, PaceOnceAsked
  <2>  QED
    BY <2>1, <2>2, <2>3 DEF PaceRemembered, Pace!AtPassSpeed
<1>  QED
  BY <1>1, <1>2

\* ladder_speed: afterwards the rung has been asked for, and the pass speed is owed.
LEMMA PaceOnTheRung ==
  ASSUME PaceTyped, PaceRemembered, NEW a \in Nat \ {0}, req.ladder # << >>,
  Pace!LadderSpeed(a)
  PROVE  asked' = Pace!Rung(a) /\ cur_speed' = Pace!Rung(a) /\ Pace!Rung(a) \in Nat
  /\ speed_dirty' = TRUE
<1>1. Pace!Rung(a) \in Nat
  <2>1. req.ladder \in Seq(Nat) /\ Len(req.ladder) \in Nat \ {0}
    BY DEF PaceTyped
  <2>  QED
    BY <2>1 DEF Pace!Rung
<1>2. Pace!SetSpeedOnce(Pace!Rung(a)) /\ speed_dirty' = TRUE
  BY DEF Pace!LadderSpeed
<1>  QED
  BY <1>1, <1>2, PaceOnceAsked

\* A transfer of a stream, begun with a restore.
LEMMA PaceStreamed ==
  ASSUME PaceIInv, rs_at \notin {"start", "done"}, rs_at' \notin {"start", "done"},
  UNCHANGED req, Pace!Restore,
         NEW kind \in {"stream", "anchor", "witness"}, Pace!Transfer(kind, 0)
  PROVE  PaceIInv'
<1>1. /\ asked' \in Nat \cup {Pace!Before} /\ cur_speed' \in Nat \cup {Pace!Unknown}
      /\ PaceRemembered' /\ speed_dirty' = FALSE /\ Pace!AtPassSpeed(asked')
  BY PaceRestored DEF PaceIInv
<1>2. Pace!AtPassSpeed(asked)'
  BY <1>1 DEF Pace!AtPassSpeed
<1>3. PaceTyped' /\ PaceOwing'
  BY <1>1, <1>2 DEF PaceIInv, PaceTyped, PaceOwing
<1>4. last'.kind = kind /\ last'.asked = asked'
  BY DEF Pace!Transfer
<1>5. Pace!PassSpeedKept'
  BY <1>1, <1>4 DEF Pace!PassSpeedKept, Pace!StreamsAtPassSpeed, Pace!LeftAtPassSpeed,
                    Pace!AtPassSpeed
<1>  QED
  BY <1>1, <1>3, <1>5 DEF PaceIInv

\* A step that asks nothing and transfers nothing; a read it ends, it cancels.
LEMMA PaceQuiet ==
  ASSUME PaceIInv, rs_at # "start", rs_at' # "start", UNCHANGED <<req, Pace!speed, last>>,
         rs_at' = "done" => rs_rc' = "cancelled" \/ (rs_at = "done" /\ UNCHANGED rs_rc)
  PROVE  PaceIInv'
<1>1. UNCHANGED <<asked, cur_speed, speed_dirty>>
  BY DEF Pace!speed
<1>2. PaceTyped' /\ PaceRemembered' /\ PaceOwing'
  BY <1>1 DEF PaceIInv, PaceTyped, PaceRemembered, PaceOwing, Pace!AtPassSpeed
<1>3. Pace!PassSpeedKept'
  BY <1>1 DEF PaceIInv, Pace!PassSpeedKept, Pace!StreamsAtPassSpeed, Pace!LeftAtPassSpeed,
              Pace!AtPassSpeed, Pace!Rung
<1>  QED
  BY <1>2, <1>3 DEF PaceIInv

\* The read is begun at the pass speed, or refused.
LEMMA PaceStartInv == ASSUME PaceIInv, Pace!Start PROVE PaceIInv'
<1>1. rs_at = "start" /\ rs_at' = "loop" /\ UNCHANGED <<req, cur_speed, speed_dirty, last>>
  BY DEF Pace!Start
<1>2. asked = Pace!Before /\ speed_dirty = FALSE /\ cur_speed = Pace!Unknown
      /\ req.speed \in Nat
  BY <1>1 DEF PaceIInv, PaceOwing, PaceTyped, PaceRemembered, Pace!Before, Pace!Unknown
<1>3. asked' \in Nat \cup {Pace!Before} /\ Pace!AtPassSpeed(asked')
  <2>1. CASE req.speed = 0
    BY <1>2, <2>1 DEF Pace!Start, Pace!AtPassSpeed
  <2>2. CASE req.speed # 0
    BY <1>2, <2>2 DEF Pace!Start, Pace!SetSpeed, Pace!AtPassSpeed
  <2>  QED
    BY <2>1, <2>2
<1>4. PaceTyped' /\ PaceRemembered' /\ PaceOwing'
  BY <1>1, <1>2, <1>3 DEF PaceIInv, PaceTyped, PaceRemembered, PaceOwing, Pace!AtPassSpeed
<1>5. Pace!PassSpeedKept'
  BY <1>1 DEF PaceIInv, Pace!PassSpeedKept, Pace!StreamsAtPassSpeed, Pace!LeftAtPassSpeed,
              Pace!AtPassSpeed, Pace!Rung
<1>  QED
  BY <1>4, <1>5 DEF PaceIInv

\* A reread leaves the pass speed owed before anything else is streamed.
LEMMA PaceRereadInv == ASSUME PaceIInv, attempt \in Nat \ {0}, Pace!Reread PROVE PaceIInv'
<1>1. /\ rs_at = "reread" /\ rs_at' \in {"reread", "checks", "shifted"} /\ UNCHANGED req
      /\ Pace!LadderSpeed(attempt) /\ Pace!Transfer("reread", attempt)
  BY DEF Pace!Reread
<1>2. last'.kind = "reread" /\ last'.attempt = attempt /\ last'.asked = asked'
  BY <1>1 DEF Pace!Transfer
<1>3. CASE req.ladder = << >>
  <2>1. UNCHANGED <<asked, cur_speed, speed_dirty>>
    BY <1>1, <1>3 DEF Pace!LadderSpeed, Pace!speed
  <2>2. PaceTyped' /\ PaceRemembered' /\ PaceOwing'
    BY <1>1, <2>1 DEF PaceIInv, PaceTyped, PaceRemembered, PaceOwing, Pace!AtPassSpeed
  <2>3. Pace!PassSpeedKept'
    BY <1>1, <1>2, <1>3 DEF Pace!PassSpeedKept, Pace!StreamsAtPassSpeed,
                            Pace!LeftAtPassSpeed
  <2>  QED
    BY <2>2, <2>3 DEF PaceIInv
<1>4. CASE req.ladder # << >>
  <2>1. asked' = Pace!Rung(attempt) /\ cur_speed' = Pace!Rung(attempt)
        /\ Pace!Rung(attempt) \in Nat /\ speed_dirty' = TRUE
    BY <1>1, <1>4, PaceOnTheRung DEF PaceIInv
  <2>2. PaceTyped' /\ PaceRemembered' /\ PaceOwing'
    BY <1>1, <2>1 DEF PaceIInv, PaceTyped, PaceRemembered, PaceOwing
  <2>3. Pace!PassSpeedKept'
    BY <1>1, <1>2, <2>1 DEF Pace!PassSpeedKept, Pace!StreamsAtPassSpeed,
                            Pace!LeftAtPassSpeed, Pace!Rung
  <2>  QED
    BY <2>2, <2>3 DEF PaceIInv
<1>  QED
  BY <1>3, <1>4

\* A read that ends of itself ends owing nothing.
LEMMA PaceFinishInv == ASSUME PaceIInv, Pace!Finish PROVE PaceIInv'
<1>1. rs_at = "loop" /\ rs_at' = "done" /\ UNCHANGED <<req, last>> /\ Pace!Restore
  BY DEF Pace!Finish
<1>2. /\ asked' \in Nat \cup {Pace!Before} /\ cur_speed' \in Nat \cup {Pace!Unknown}
      /\ PaceRemembered' /\ speed_dirty' = FALSE /\ Pace!AtPassSpeed(asked')
  BY <1>1, PaceRestored DEF PaceIInv
<1>3. Pace!AtPassSpeed(asked)'
  BY <1>1, <1>2 DEF Pace!AtPassSpeed
<1>4. PaceTyped' /\ PaceOwing'
  BY <1>1, <1>2, <1>3 DEF PaceIInv, PaceTyped, PaceOwing
<1>5. Pace!PassSpeedKept'
  BY <1>1, <1>3 DEF PaceIInv, Pace!PassSpeedKept, Pace!StreamsAtPassSpeed,
                    Pace!LeftAtPassSpeed, Pace!AtPassSpeed, Pace!Rung
<1>  QED
  BY <1>2, <1>4, <1>5 DEF PaceIInv

\* Rereads are counted from one while there are any.
PaceCounted == rs_at = "reread" => attempt \in Nat \ {0}

\* The attempts at one chunk are counted from nought.
LEMMA PaceCountedStep == PaceCounted /\ [Pace!Next]_(Pace!vars) => PaceCounted'
<1>  SUFFICES ASSUME PaceCounted, [Pace!Next]_(Pace!vars) PROVE PaceCounted'
  OBVIOUS
<1>1. CASE Pace!Reread
  BY <1>1 DEF Pace!Reread, PaceCounted
<1>2. CASE Pace!Settle
  BY <1>2 DEF Pace!Settle, PaceCounted
<1>  QED
  BY <1>1, <1>2
  DEF Pace!Next, Pace!vars, PaceCounted, Pace!Start, Pace!Cancel, Pace!ReadChunk,
      Pace!Anchor, Pace!Witness, Pace!Publish, Pace!SinkRefuses,
      Pace!Finish, Pace!Done, Pace!place

\* The invariant is inductive.
LEMMA PaceNextInv == PaceIInv /\ PaceCounted /\ [Pace!Next]_(Pace!vars) => PaceIInv'
<1>  SUFFICES ASSUME PaceIInv, PaceCounted, [Pace!Next]_(Pace!vars) PROVE PaceIInv'
  OBVIOUS
<1>1. CASE Pace!Start
  BY <1>1, PaceStartInv
<1>2. CASE Pace!ReadChunk
  BY <1>2, PaceStreamed DEF Pace!ReadChunk
<1>3. CASE Pace!Anchor
  BY <1>3, PaceStreamed DEF Pace!Anchor
<1>4. CASE Pace!Witness
  BY <1>4, PaceStreamed DEF Pace!Witness, Pace!place
<1>5. CASE Pace!Reread
  BY <1>5, PaceRereadInv DEF Pace!Reread, PaceCounted
<1>6. CASE Pace!Finish
  BY <1>6, PaceFinishInv
<1>7. CASE Pace!Cancel \/ Pace!Settle \/ Pace!Publish \/ Pace!SinkRefuses
  BY <1>7, PaceQuiet DEF Pace!Cancel, Pace!Settle, Pace!Publish, Pace!SinkRefuses
<1>8. CASE Pace!Done
  BY <1>8, PaceQuiet DEF Pace!Done, Pace!vars, Pace!speed
<1>9. CASE UNCHANGED Pace!vars
  BY <1>9 DEF Pace!vars, PaceIInv, PaceTyped, PaceRemembered, PaceOwing,
              Pace!PassSpeedKept, Pace!StreamsAtPassSpeed,
             Pace!LeftAtPassSpeed, Pace!AtPassSpeed, Pace!Rung
<1>  QED
  BY <1>1, <1>2, <1>3, <1>4, <1>5, <1>6, <1>7, <1>8, <1>9 DEF Pace!Next

------------------------------------------------------------------------------
(* The speed ladder (SpeedLadder): its windows.                            *)

\* SpeedLadder's variables by name.
probe == r1
sp_step == r2
rung == r3
bands == r4
timed == r5
rungs == r6
sp_result == r7

USE DEF probe, sp_step, rung, bands, timed, rungs, sp_result

\* Three numbers have a least, and two a greatest.
LEMMA SpBestOfThree ==
  ASSUME NEW a \in Int, NEW b \in Int, NEW c \in Int
  PROVE  /\ Spd!Best({a, b, c}) \in {a, b, c}
         /\ Spd!Best({a, b, c}) <= a /\ Spd!Best({a, b, c}) <= b /\ Spd!Best({a, b, c}) <= c
<1>1. \E m \in {a, b, c} : m <= a /\ m <= b /\ m <= c
  <2>1. CASE a <= b /\ a <= c
    BY <2>1
  <2>2. CASE b <= a /\ b <= c
    BY <2>2
  <2>3. CASE c <= a /\ c <= b
    BY <2>3
  <2>  QED
    BY <2>1, <2>2, <2>3
<1>2. \E m \in {a, b, c} : \A y \in {a, b, c} : m <= y
  BY <1>1
<1>  QED
  BY <1>2 DEF Spd!Best

\* The worst of two spreads is one of them and no less than either.
LEMMA SpWorstOfTwo ==
  ASSUME NEW a \in Int, NEW b \in Int
  PROVE  /\ Spd!Worst({a, b}) \in {a, b}
         /\ a <= Spd!Worst({a, b}) /\ b <= Spd!Worst({a, b})
<1>1. \E m \in {a, b} : \A y \in {a, b} : y <= m
  <2>1. CASE a <= b
    BY <2>1
  <2>2. CASE b <= a
    BY <2>2
  <2>  QED
    BY <2>1, <2>2
<1>  QED
  BY <1>1 DEF Spd!Worst

\* The worst of three spreads is one of them.
LEMMA SpWorstOfThree ==
  ASSUME NEW a \in Int, NEW b \in Int, NEW c \in Int
  PROVE  Spd!Worst({a, b, c}) \in {a, b, c}
<1>1. \E m \in {a, b, c} : a <= m /\ b <= m /\ c <= m
  <2>1. CASE a <= b /\ c <= b
    BY <2>1
  <2>2. CASE b <= a /\ c <= a
    BY <2>2
  <2>3. CASE a <= c /\ b <= c
    BY <2>3
  <2>  QED
    BY <2>1, <2>2, <2>3
<1>2. \E m \in {a, b, c} : \A y \in {a, b, c} : y <= m
  BY <1>1
<1>  QED
  BY <1>2 DEF Spd!Worst

\* Slots of equal length, one after the other: those of different numbers do not meet,
\* and the last ends where they all do.
LEMMA SpSlotsApart ==
  ASSUME NEW slot \in Nat, NEW p \in Nat, NEW q \in Nat, p < q
  PROVE  p * slot + slot <= q * slot
<1>1. PICK d \in Nat : q = p + 1 + d
  <2>1. (q - p) - 1 \in Nat /\ q = p + 1 + ((q - p) - 1)
    OBVIOUS
  <2>  QED
    BY <2>1
<1>2. q * slot = p * slot + slot + d * slot
  BY <1>1
<1>3. d * slot \in Nat /\ p * slot \in Nat
  OBVIOUS
<1>  QED
  BY <1>2, <1>3

\* The number of the slot of candidate i in band b.
SlotOf(i, b) == b * Spd!N + (i - 1)
SpPlaces == (1 .. Spd!N) \X (0 .. probe.points - 1)

\* What a layout that fits is made of.
LEMMA SpFits ==
  ASSUME Spd!LadderAssumption, probe \in Probes, Spd!Fits
  PROVE  /\ Spd!N \in Nat \ {0} /\ probe.points \in {1, 3} /\ Spd!Slot \in Nat
         /\ Spd!Slot * (probe.points * Spd!N) <= probe.count
         /\ probe.count \in Nat /\ SlotChunk \in Nat
         /\ \A i \in 1 .. Spd!N : /\ Spd!Want(i) \in Nat
                                  /\ SlotChunk + Spd!Want(i) <= Spd!Slot
<1>1. Spd!N \in Nat \ {0} /\ probe.points \in {1, 3} /\ probe.count \in Nat /\ SlotChunk \in Nat
      /\ MinSectors \in Nat /\ MaxSectors \in Nat /\ PerSecond \in Nat
      /\ probe.candidates \in Seq(Nat)
  BY DEF Spd!Fits, Spd!LadderAssumption, Spd!N
<1>2. probe.points * Spd!N \in Nat \ {0}
  BY <1>1
<1>3. Spd!Slot \in Nat /\ Spd!Slot * (probe.points * Spd!N) <= probe.count
  <2>  DEFINE d == probe.points * Spd!N
              c == probe.count
  <2>1. d \in Nat \ {0} /\ c \in Nat
    BY <1>1, <1>2
  <2>  HIDE DEF d, c
  <2>2. c \div d \in Nat /\ (c \div d) * d <= c
    BY <2>1
  <2>  QED
    BY <2>2 DEF Spd!Slot, d, c
<1>4. Spd!Room \in Nat /\ Spd!Room = Spd!Slot - SlotChunk
  BY <1>1, <1>3 DEF Spd!Fits, Spd!Room
<1>5. ASSUME NEW i \in 1 .. Spd!N
      PROVE  Spd!Want(i) \in Nat /\ SlotChunk + Spd!Want(i) <= Spd!Slot
  <2>  DEFINE second == probe.candidates[i] * PerSecond
              least == Spd!Worst({second, MinSectors})
  <2>1. second \in Nat
    <3>1. probe.candidates[i] \in Nat
      BY <1>1 DEF Spd!N
    <3>  QED
      BY <1>1, <3>1
  <2>  HIDE DEF second
  <2>2. least \in Nat
    <3>1. second \in Int /\ MinSectors \in Int
      BY <1>1, <2>1
    <3>2. Spd!Worst({second, MinSectors}) \in {second, MinSectors}
      BY <3>1, SpWorstOfTwo, Zenon
    <3>  QED
      BY <1>1, <2>1, <3>2
  <2>  HIDE DEF least
  <2>3. /\ Spd!Best({Spd!Room, MaxSectors, least}) \in Nat
        /\ Spd!Best({Spd!Room, MaxSectors, least}) <= Spd!Room
    <3>1. Spd!Room \in Int /\ MaxSectors \in Int /\ least \in Int
      BY <1>1, <1>4, <2>2
    <3>2. /\ Spd!Best({Spd!Room, MaxSectors, least}) \in {Spd!Room, MaxSectors, least}
          /\ Spd!Best({Spd!Room, MaxSectors, least}) <= Spd!Room
      BY <3>1, SpBestOfThree, Zenon
    <3>  QED
      BY <1>1, <1>4, <2>2, <3>2
  <2>4. Spd!Want(i) = Spd!Best({Spd!Room, MaxSectors, least})
    BY DEF Spd!Want, least, second
  <2>  QED
    BY <1>1, <1>3, <1>4, <2>3, <2>4
<1>  QED
  BY <1>1, <1>3, <1>5

\* Where a window lies: inside its slot.
LEMMA SpWindowInSlot ==
  ASSUME Spd!LadderAssumption, probe \in Probes, Spd!Fits,
         NEW i \in 1 .. Spd!N, NEW b \in 0 .. probe.points - 1
  PROVE  /\ SlotOf(i, b) \in 0 .. probe.points * Spd!N - 1
         /\ \A x \in Spd!Window(i, b) :
              x \in Int /\ SlotOf(i, b) * Spd!Slot <= x /\ x < SlotOf(i, b) * Spd!Slot + Spd!Slot
<1>  DEFINE n == Spd!N
            slot == Spd!Slot
            from == b * Spd!Band + (i - 1) * slot
<1>1. n \in Nat \ {0} /\ probe.points \in {1, 3} /\ slot \in Nat /\ SlotChunk \in Nat
      /\ Spd!Want(i) \in Nat /\ SlotChunk + Spd!Want(i) <= slot
  BY SpFits
<1>2. SlotOf(i, b) \in 0 .. probe.points * n - 1
  <2>1. SlotOf(i, b) = b * n + (i - 1) /\ i \in 1 .. n
    BY DEF SlotOf
  <2>  HIDE DEF n
  <2>2. CASE probe.points = 1
    <3>1. b = 0
      BY <2>2
    <3>  QED
      BY <1>1, <2>1, <2>2, <3>1
  <2>3. CASE probe.points = 3
    <3>1. b = 0 \/ b = 1 \/ b = 2
      BY <2>3
    <3>  QED
      BY <1>1, <2>1, <2>3, <3>1
  <2>  QED
    BY <1>1, <2>2, <2>3
<1>3. from = SlotOf(i, b) * slot
  <2>1. from = b * (slot * n) + (i - 1) * slot /\ SlotOf(i, b) = b * n + (i - 1)
    BY DEF Spd!Band, SlotOf
  <2>2. b \in Int /\ i \in Int
    BY <1>1
  <2>  HIDE DEF n, slot, from
  <2>  QED
    BY <1>1, <2>1, <2>2
<1>4. Spd!Window(i, b) = from .. from + SlotChunk + Spd!Want(i) - 1
  BY DEF Spd!Window
<1>5. from \in Int
  BY <1>1, <1>2, <1>3
<1>6. ASSUME NEW x \in Spd!Window(i, b) PROVE x \in Int /\ from <= x /\ x < from + slot
  <2>  HIDE DEF from, slot
  <2>  QED
    BY <1>1, <1>4, <1>5, <1>6
<1>  QED
  BY <1>2, <1>3, <1>6

\* internal.h: the windows are disjoint, and none leaves the span.
LEMMA SpWindowsApart ==
  ASSUME Spd!LadderAssumption, probe \in Probes, Spd!Fits,
         NEW i \in 1 .. Spd!N, NEW b \in 0 .. probe.points - 1,
         NEW j \in 1 .. Spd!N, NEW c \in 0 .. probe.points - 1, i # j \/ b # c
  PROVE  Spd!Window(i, b) \cap Spd!Window(j, c) = {}
<1>  DEFINE slot == Spd!Slot
            p == SlotOf(i, b)
            q == SlotOf(j, c)
<1>1. slot \in Nat /\ p \in Nat /\ q \in Nat
  BY SpFits, SpWindowInSlot
<1>2. p # q
  <2>1. Spd!N \in Nat \ {0} /\ probe.points \in {1, 3}
    BY SpFits
  <2>2. b \in {0, 1, 2} /\ c \in {0, 1, 2}
    BY <2>1
  <2>  DEFINE n == Spd!N
  <2>3. p = b * n + (i - 1) /\ q = c * n + (j - 1)
    BY DEF SlotOf
  <2>  HIDE DEF n, p, q
  <2>4. n \in Nat \ {0} /\ i \in 1 .. n /\ j \in 1 .. n
    BY <2>1 DEF n
  <2>5. CASE b = c
    <3>1. p - q = i - j
      BY <2>2, <2>3, <2>4, <2>5
    <3>  QED
      BY <1>1, <2>4, <2>5, <3>1
  <2>6. CASE b # c
    <3>1. CASE b = 0
      BY <2>2, <2>3, <2>4, <2>6, <3>1
    <3>2. CASE b = 1
      BY <2>2, <2>3, <2>4, <2>6, <3>2
    <3>3. CASE b = 2
      BY <2>2, <2>3, <2>4, <2>6, <3>3
    <3>  QED
      BY <2>2, <3>1, <3>2, <3>3
  <2>  QED
    BY <2>5, <2>6
<1>3. \A x \in Spd!Window(i, b) : x \in Int /\ p * slot <= x /\ x < p * slot + slot
  BY SpWindowInSlot
<1>4. \A x \in Spd!Window(j, c) : x \in Int /\ q * slot <= x /\ x < q * slot + slot
  BY SpWindowInSlot
<1>5. p * slot \in Int /\ q * slot \in Int
  BY <1>1
<1>6. p * slot + slot <= q * slot \/ q * slot + slot <= p * slot
  <2>  HIDE DEF p, q, slot
  <2>1. CASE p < q
    BY <1>1, <2>1, SpSlotsApart
  <2>2. CASE q < p
    BY <1>1, <2>2, SpSlotsApart
  <2>  QED
    BY <1>1, <1>2, <2>1, <2>2
<1>  DEFINE u == p * slot
            v == q * slot
<1>  HIDE DEF p, q, slot
<1>7. u \in Int /\ v \in Int /\ (u + slot <= v \/ v + slot <= u)
  BY <1>5, <1>6
<1>8. /\ \A x \in Spd!Window(i, b) : x \in Int /\ u <= x /\ x < u + slot
      /\ \A x \in Spd!Window(j, c) : x \in Int /\ v <= x /\ x < v + slot
  BY <1>3, <1>4
<1>  HIDE DEF u, v
<1>  QED
  BY <1>1, <1>7, <1>8

\* No window leaves the span.
LEMMA SpWindowInSpan ==
  ASSUME Spd!LadderAssumption, probe \in Probes, Spd!Fits,
         NEW i \in 1 .. Spd!N, NEW b \in 0 .. probe.points - 1
  PROVE  Spd!Window(i, b) \subseteq 0 .. probe.count - 1
<1>  DEFINE slot == Spd!Slot
            q == SlotOf(i, b)
            m == probe.points * Spd!N
<1>1. slot \in Nat /\ m \in Nat /\ slot * m <= probe.count /\ probe.count \in Nat
  <2>1. Spd!N \in Nat /\ probe.points \in Nat
    BY SpFits
  <2>  QED
    BY <2>1, SpFits
<1>2. q \in 0 .. m - 1
      /\ \A x \in Spd!Window(i, b) : x \in Int /\ q * slot <= x /\ x < q * slot + slot
  BY SpWindowInSlot
<1>  HIDE DEF q, m, slot
<1>3. q \in Nat /\ q < m
  BY <1>1, <1>2
<1>4. q * slot + slot <= m * slot
  BY <1>1, <1>3, SpSlotsApart
<1>5. q * slot \in Nat /\ m * slot = slot * m
  BY <1>1, <1>3
<1>  DEFINE u == q * slot
            v == m * slot
<1>6. u \in Nat /\ u + slot <= v /\ v <= probe.count
  BY <1>1, <1>4, <1>5
<1>7. \A x \in Spd!Window(i, b) : x \in Int /\ u <= x /\ x < u + slot
  BY <1>2
<1>  HIDE DEF u, v
<1>8. v \in Int
  BY <1>1 DEF v
<1>  QED
  BY <1>1, <1>6, <1>7, <1>8

------------------------------------------------------------------------------
(* The speed ladder: its verdicts.                                         *)

SpVerdicts == {"unknown", "admitted", "duplicate", "quantized"}
SpRung ==
  [requested : Nat, reported : Nat, measured : Nat, min : Nat, max : Nat,
   verdict : SpVerdicts, equiv : Nat]

\* What judging leaves of a rung.
SpSame(q, r) ==
  q.requested = r.requested /\ q.measured = r.measured /\ q.min = r.min /\ q.max = r.max

\* The margin is a number, no less than the noise.
LEMMA SpMargin ==
  ASSUME Spd!LadderAssumption, Spd!N \in Nat \ {0}, probe.points = 3,
         NEW q \in SpRung, NEW r \in SpRung
  PROVE  Spd!Margin(q, r) \in Nat /\ Noise <= Spd!Margin(q, r)
<1>1. ASSUME NEW x \in SpRung PROVE Spd!RadiusStep(x) \in Nat
  <2>1. x.min \in Nat /\ x.max \in Nat
    BY DEF SpRung
  <2>2. (probe.points - 1) * Spd!N \in Nat \ {0}
    OBVIOUS
  <2>  DEFINE n == (probe.points - 1) * Spd!N
              lo == x.min
              hi == x.max
  <2>3. n \in Nat \ {0} /\ lo \in Nat /\ hi \in Nat
    BY <2>1, <2>2
  <2>4. Spd!RadiusStep(x) = IF hi <= lo THEN 0 ELSE (hi - lo) \div n
    BY DEF Spd!RadiusStep
  <2>  HIDE DEF n, lo, hi
  <2>  QED
    BY <2>3, <2>4
<1>2. K \in Nat /\ Noise \in Nat
  BY DEF Spd!LadderAssumption
<1>  DEFINE a == Spd!RadiusStep(q)
            b == Spd!RadiusStep(r)
            m == Spd!Worst({a, b})
<1>3. a \in Nat /\ b \in Nat
  BY <1>1
<1>  HIDE DEF a, b
<1>4. m \in {a, b}
  BY <1>3, SpWorstOfTwo
<1>5. m \in Nat
  BY <1>3, <1>4
<1>  HIDE DEF m
<1>6. K * m \in Int /\ Noise \in Int /\ K * m \in Nat
  BY <1>2, <1>5
<1>7. Spd!Worst({K * m, Noise}) \in {K * m, Noise} /\ Noise <= Spd!Worst({K * m, Noise})
  BY <1>6, SpWorstOfTwo, Zenon
<1>8. Spd!Margin(q, r) = Spd!Worst({K * m, Noise})
  BY DEF Spd!Margin, m, a, b
<1>  QED
  BY <1>2, <1>6, <1>7, <1>8

\* The margin depends only on the spreads and rates of its two rungs.
LEMMA SpMarginSame ==
  ASSUME NEW q, NEW r, NEW p, NEW s, SpSame(q, p), SpSame(r, s)
  PROVE  Spd!Margin(q, r) = Spd!Margin(p, s)
  BY DEF SpSame, Spd!Margin, Spd!RadiusStep

\* adsc_speeds_admit, on one rung.
LEMMA SpJudged ==
  ASSUME NEW r \in SpRung, NEW best \in SpRung, r.verdict = "unknown",
         Spd!Margin(r, best) \in Nat
  PROVE  LET j == Spd!Judged(r, best) IN
         /\ j \in SpRung /\ SpSame(j, r)
         /\ j.verdict = "admitted" =>
              best.verdict # "admitted" \/ r.measured > best.measured + Spd!Margin(r, best)
         /\ j.verdict = "duplicate" =>
              /\ best.verdict = "admitted" /\ j.equiv = best.requested
              /\ r.measured <= best.measured + Spd!Margin(r, best)
<1>  DEFINE j == Spd!Judged(r, best)
            margin == Spd!Margin(r, best)
<1>1. /\ r.requested \in Nat /\ r.reported \in Nat /\ r.measured \in Nat /\ r.min \in Nat
      /\ r.max \in Nat /\ r.equiv \in Nat /\ best.measured \in Nat /\ best.requested \in Nat
      /\ margin \in Nat
  BY DEF SpRung
<1>2. CASE r.measured = 0
  <2>1. j = [r EXCEPT !.verdict = "unknown"]
    BY <1>2 DEF Spd!Judged
  <2>  QED
    BY <2>1 DEF SpRung, SpVerdicts, SpSame
<1>3. CASE r.measured # 0 /\ r.reported # 0 /\ r.reported < r.requested
  <2>1. j = [r EXCEPT !.verdict = "quantized", !.equiv = r.reported]
    BY <1>3 DEF Spd!Judged
  <2>2. j \in SpRung /\ SpSame(j, r) /\ j.verdict = "quantized"
    BY <1>1, <2>1 DEF SpRung, SpVerdicts, SpSame
  <2>  QED
    BY <2>2
<1>4. CASE r.measured # 0 /\ ~ (r.reported # 0 /\ r.reported < r.requested)
  <2>1. j = IF best.verdict # "admitted" \/ r.measured - best.measured > margin
            THEN [r EXCEPT !.verdict = "admitted"]
            ELSE [r EXCEPT !.verdict = "duplicate", !.equiv = best.requested]
    BY <1>4 DEF Spd!Judged
  <2>  HIDE DEF margin
  <2>2. CASE best.verdict # "admitted" \/ r.measured - best.measured > margin
    <3>1. j = [r EXCEPT !.verdict = "admitted"]
      BY <2>1, <2>2
    <3>  HIDE DEF j
    <3>2. j \in SpRung /\ SpSame(j, r) /\ j.verdict = "admitted"
      BY <3>1 DEF SpRung, SpVerdicts, SpSame
    <3>3. best.verdict # "admitted" \/ r.measured > best.measured + margin
      BY <1>1, <2>2
    <3>  QED
      BY <3>2, <3>3 DEF margin, j
  <2>3. CASE best.verdict = "admitted" /\ ~ (r.measured - best.measured > margin)
    <3>1. j = [r EXCEPT !.verdict = "duplicate", !.equiv = best.requested]
      BY <2>1, <2>3
    <3>  HIDE DEF j
    <3>2. j \in SpRung /\ SpSame(j, r) /\ j.verdict = "duplicate" /\ j.equiv = best.requested
      BY <1>1, <3>1 DEF SpRung, SpVerdicts, SpSame
    <3>3. r.measured <= best.measured + margin
      BY <1>1, <2>3
    <3>  QED
      BY <2>3, <3>2, <3>3 DEF margin, j
  <2>  QED
    BY <2>2, <2>3
<1>  QED
  BY <1>2, <1>3, <1>4

\* There is a slowest of what is left.
LEMMA SpSlowest ==
  ASSUME NEW rs, NEW todo \in SUBSET Nat, todo # {}, \A i \in todo : rs[i].requested \in Nat
  PROVE  /\ Spd!Slowest(rs, todo) \in todo
         /\ \A j \in todo : rs[Spd!Slowest(rs, todo)].requested <= rs[j].requested
<1>  DEFINE R == {rs[i].requested : i \in todo}
<1>1. R \in SUBSET Nat /\ R # {}
  BY Zenon
<1>2. PICK m \in R : \A x \in R : m <= x
  <2>  HIDE DEF R
  <2>  QED
    BY <1>1, LeastNatural
<1>  DEFINE I == {i \in todo : rs[i].requested = m}
<1>3. I \in SUBSET Nat /\ I # {}
  BY Zenon
<1>4. PICK i \in I : \A k \in I : i <= k
  <2>  HIDE DEF I
  <2>  QED
    BY <1>3, LeastNatural
<1>5. \A j \in todo : rs[i].requested < rs[j].requested
                      \/ (rs[i].requested = rs[j].requested /\ i <= j)
  <2>1. ASSUME NEW j \in todo
        PROVE  rs[i].requested < rs[j].requested
               \/ (rs[i].requested = rs[j].requested /\ i <= j)
    <3>1. rs[i].requested = m /\ i \in todo /\ rs[j].requested \in R
      OBVIOUS
    <3>2. m <= rs[j].requested /\ m \in Nat /\ rs[j].requested \in Nat
      BY <1>1, <1>2, <3>1
    <3>3. rs[j].requested = m => i <= j
      BY <1>4
    <3>  HIDE DEF R, I
    <3>  QED
      BY <3>1, <3>2, <3>3
  <2>  QED
    BY <2>1
<1>6. i \in todo
  OBVIOUS
<1>  DEFINE s == Spd!Slowest(rs, todo)
<1>7. s \in todo /\ \A j \in todo : rs[s].requested < rs[j].requested
                      \/ (rs[s].requested = rs[j].requested /\ s <= j)
  <2>  HIDE DEF I, R
  <2>  QED
    BY <1>5, <1>6, Zenon DEF Spd!Slowest
<1>  HIDE DEF s
<1>8. \A j \in todo : rs[s].requested <= rs[j].requested
  BY <1>7
<1>  QED
  BY <1>7, <1>8 DEF s

\* What LadderIsDistinct asks of the rungs.
SpDistinct(f) ==
  /\ \A i, j \in DOMAIN f :
       f[i].verdict = "admitted" /\ f[j].verdict = "admitted" /\ f[i].requested < f[j].requested =>
         f[j].measured > f[i].measured + Noise
  /\ \A d \in DOMAIN f : f[d].verdict = "duplicate" =>
       \E i \in DOMAIN f : /\ f[i].verdict = "admitted" /\ f[i].requested = f[d].equiv
                           /\ f[i].requested <= f[d].requested
                           /\ f[d].measured <= f[i].measured + Spd!Margin(f[d], f[i])

\* The walk over the rungs rs, when k of them have been judged: what is left is no
\* slower than what is judged, and the best is the fastest admitted.
SpJudgedSoFar(rs, a, k) ==
  /\ a.left \in SUBSET (1 .. Len(rs)) /\ Cardinality(a.left) = Len(rs) - k
  /\ a.best \in SpRung
  /\ a.rungs \in [1 .. Len(rs) -> SpRung]
  /\ \A i \in 1 .. Len(rs) : SpSame(a.rungs[i], rs[i])
  /\ \A i \in a.left : a.rungs[i].verdict = "unknown"
  /\ \A i \in (1 .. Len(rs)) \ a.left, j \in a.left : rs[i].requested <= rs[j].requested
  /\ a.best.verdict = "admitted" => \E i \in (1 .. Len(rs)) \ a.left : a.rungs[i] = a.best
  /\ \A i \in 1 .. Len(rs) : a.rungs[i].verdict = "admitted" =>
       a.best.verdict = "admitted" /\ a.rungs[i].measured <= a.best.measured
  /\ SpDistinct(a.rungs)

\* One rung more.
LEMMA SpJudgeOne ==
  ASSUME Spd!LadderAssumption, Spd!N \in Nat \ {0}, probe.points = 3,
         NEW rs \in Seq(SpRung), NEW a, NEW k \in Nat, k < Len(rs), SpJudgedSoFar(rs, a, k)
  PROVE  SpJudgedSoFar(rs, Spd!Judge(a, Spd!Slowest(rs, a.left)), k + 1)
<1>  DEFINE L == 1 .. Len(rs)
            todo == a.left
            best == a.best
            g == a.rungs
            i == Spd!Slowest(rs, todo)
            r == Spd!Judged(g[i], best)
            f == [g EXCEPT ![i] = r]
            top == IF r.verdict = "admitted" THEN r ELSE best
            b == Spd!Judge(a, i)
<1>1. b = [rungs |-> f, best |-> top, left |-> todo \ {i}]
  BY DEF Spd!Judge
<1>2. Len(rs) \in Nat /\ \A j \in L : rs[j] \in SpRung
  OBVIOUS
<1>3. /\ todo \in SUBSET L /\ Cardinality(todo) = Len(rs) - k /\ best \in SpRung
      /\ g \in [L -> SpRung] /\ \A j \in L : SpSame(g[j], rs[j])
      /\ \A j \in todo : g[j].verdict = "unknown"
  BY DEF SpJudgedSoFar
<1>4. IsFiniteSet(todo)
  <2>1. IsFiniteSet(L)
    BY <1>2, FS_Interval
  <2>  HIDE DEF L, todo
  <2>  QED
    BY <1>3, <2>1, FS_Subset
<1>5. i \in todo /\ \A j \in todo : rs[i].requested <= rs[j].requested
  <2>1. todo # {}
    <3>1. Cardinality(todo) # 0
      BY <1>2, <1>3
    <3>  HIDE DEF todo
    <3>  QED
      BY <1>4, <3>1, FS_EmptySet
  <2>2. todo \in SUBSET Nat
    BY <1>3
  <2>3. \A j \in todo : rs[j].requested \in Nat
    BY <1>2, <1>3 DEF SpRung
  <2>  HIDE DEF todo
  <2>  QED
    BY <2>1, <2>2, <2>3, SpSlowest
<1>6. i \in L /\ g[i] \in SpRung /\ g[i].verdict = "unknown" /\ SpSame(g[i], rs[i])
  <2>  HIDE DEF L, todo, g, i
  <2>  QED
    BY <1>3, <1>5
<1>7. Spd!Margin(g[i], best) \in Nat /\ Noise <= Spd!Margin(g[i], best)
  BY <1>3, <1>6, SpMargin
<1>8. /\ r \in SpRung /\ SpSame(r, g[i])
      /\ r.verdict = "admitted" =>
           best.verdict # "admitted" \/ g[i].measured > best.measured + Spd!Margin(g[i], best)
      /\ r.verdict = "duplicate" =>
           /\ best.verdict = "admitted" /\ r.equiv = best.requested
           /\ g[i].measured <= best.measured + Spd!Margin(g[i], best)
  BY <1>3, <1>6, <1>7, SpJudged
<1>  HIDE DEF i, r, todo, best, g
<1>9. f \in [L -> SpRung] /\ f[i] = r /\ \A j \in L \ {i} : f[j] = g[j]
  BY <1>3, <1>6, <1>8
<1>10. \A j \in L : SpSame(f[j], rs[j])
  <2>1. SpSame(r, rs[i])
    BY <1>6, <1>8 DEF SpSame
  <2>  QED
    BY <1>3, <1>9, <2>1
<1>11. /\ \A x \in L \ todo, j \in todo : rs[x].requested <= rs[j].requested
       /\ best.verdict = "admitted" => \E x \in L \ todo : g[x] = best
       /\ \A x \in L : g[x].verdict = "admitted" =>
            best.verdict = "admitted" /\ g[x].measured <= best.measured
       /\ SpDistinct(g)
  BY DEF SpJudgedSoFar, todo, best, g
<1>  HIDE DEF f, b
<1>12. todo \ {i} \in SUBSET L /\ Cardinality(todo \ {i}) = Len(rs) - (k + 1)
  <2>1. Cardinality(todo \ {i}) = Cardinality(todo) - 1
    BY <1>4, <1>5, FS_RemoveElement
  <2>2. Cardinality(todo) = Len(rs) - k /\ Len(rs) \in Nat
    BY <1>3
  <2>3. Cardinality(todo \ {i}) = Len(rs) - (k + 1)
    BY <2>1, <2>2
  <2>4. todo \ {i} \in SUBSET L
    BY <1>3, Zenon
  <2>  QED
    BY <2>3, <2>4
<1>13. top \in SpRung
  BY <1>3, <1>8
<1>14. \A j \in todo \ {i} : f[j].verdict = "unknown"
  BY <1>3, <1>9
<1>15. \A x \in L \ (todo \ {i}), j \in todo \ {i} : rs[x].requested <= rs[j].requested
  BY <1>5, <1>11
<1>16. top.verdict = "admitted" => \E x \in L \ (todo \ {i}) : f[x] = top
  <2>1. CASE r.verdict = "admitted"
    BY <1>6, <1>9, <2>1
  <2>2. CASE r.verdict # "admitted"
    <3>  SUFFICES ASSUME best.verdict = "admitted" PROVE \E x \in L \ (todo \ {i}) : f[x] = best
      BY <2>2
    <3>1. PICK x \in L \ todo : g[x] = best
      BY <1>11
    <3>  QED
      BY <1>5, <1>9, <3>1
  <2>  QED
    BY <2>1, <2>2
\* The measures are numbers.
<1>17. /\ \A x \in L : /\ f[x].measured \in Nat /\ g[x].measured \in Nat
                       /\ rs[x].requested \in Nat /\ rs[x].measured \in Nat
                       /\ f[x].requested = rs[x].requested /\ g[x].requested = rs[x].requested
                       /\ f[x].measured = rs[x].measured /\ g[x].measured = rs[x].measured
       /\ best.measured \in Nat /\ Noise \in Nat /\ r.measured = g[i].measured
  <2>1. \A x \in SpRung : x.measured \in Nat /\ x.requested \in Nat
    BY DEF SpRung
  <2>2. \A x \in L : SpSame(f[x], rs[x]) /\ SpSame(g[x], rs[x])
    BY <1>3, <1>10
  <2>3. \A x \in L : f[x] \in SpRung /\ g[x] \in SpRung /\ rs[x] \in SpRung
    BY <1>2, <1>3, <1>9
  <2>4. best \in SpRung /\ Noise \in Nat /\ SpSame(r, g[i])
    BY <1>3, <1>8 DEF Spd!LadderAssumption
  <2>  QED
    BY <2>1, <2>2, <2>3, <2>4 DEF SpSame
<1>18. \A x \in L : f[x].verdict = "admitted" =>
          top.verdict = "admitted" /\ f[x].measured <= top.measured
  <2>1. CASE r.verdict = "admitted"
    <3>1. top = r
      BY <2>1
    <3>2. ASSUME NEW x \in L, f[x].verdict = "admitted" PROVE f[x].measured <= r.measured
      <4>1. CASE x = i
        BY <1>9, <1>17, <3>2, <4>1
      <4>2. CASE x # i
        <5>1. g[x].verdict = "admitted" /\ f[x] = g[x]
          BY <1>9, <3>2, <4>2
        <5>2. best.verdict = "admitted" /\ g[x].measured <= best.measured
          BY <1>11, <5>1
        <5>3. g[i].measured > best.measured + Spd!Margin(g[i], best)
          BY <1>8, <2>1, <5>2
        <5>  DEFINE m == Spd!Margin(g[i], best)
        <5>4. m \in Nat /\ g[i].measured > best.measured + m
          BY <1>7, <5>3
        <5>  HIDE DEF m
        <5>  QED
          BY <1>6, <1>17, <5>1, <5>2, <5>4
      <4>  QED
        BY <4>1, <4>2
    <3>  QED
      BY <2>1, <3>1, <3>2
  <2>2. CASE r.verdict # "admitted"
    BY <1>9, <1>11, <2>2
  <2>  QED
    BY <2>1, <2>2
<1>19. SpDistinct(f)
  <2>0. DOMAIN f = L /\ DOMAIN g = L
    BY <1>3, <1>9
  <2>1. ASSUME NEW x \in L, NEW y \in L, f[x].verdict = "admitted", f[y].verdict = "admitted",
               f[x].requested < f[y].requested
        PROVE  f[y].measured > f[x].measured + Noise
    <3>1. CASE x # i /\ y # i
      BY <1>9, <1>11, <2>0, <2>1, <3>1 DEF SpDistinct
    <3>2. CASE x = i
      <4>1. y # i
        BY <1>17, <2>1, <3>2
      <4>2. g[y].verdict = "admitted"
        BY <1>9, <2>1, <4>1
      <4>3. y \notin todo
        BY <1>3, <4>2
      <4>4. rs[y].requested <= rs[i].requested
        BY <1>5, <1>11, <4>3
      <4>  QED
        BY <1>6, <1>17, <2>1, <3>2, <4>4
    <3>3. CASE x # i /\ y = i
      <4>1. r.verdict = "admitted" /\ g[x].verdict = "admitted"
        BY <1>9, <2>1, <3>3
      <4>2. best.verdict = "admitted" /\ g[x].measured <= best.measured
        BY <1>11, <4>1
      <4>  DEFINE m == Spd!Margin(g[i], best)
      <4>3. m \in Nat /\ Noise <= m /\ g[i].measured > best.measured + m
        BY <1>7, <1>8, <4>1, <4>2
      <4>  HIDE DEF m
      <4>  QED
        BY <1>6, <1>17, <3>3, <4>2, <4>3
    <3>  QED
      BY <3>1, <3>2, <3>3
  <2>2. ASSUME NEW d \in L, f[d].verdict = "duplicate"
        PROVE  \E x \in L : /\ f[x].verdict = "admitted" /\ f[x].requested = f[d].equiv
                            /\ f[x].requested <= f[d].requested
                            /\ f[d].measured <= f[x].measured + Spd!Margin(f[d], f[x])
    <3>1. CASE d = i
      <4>1. /\ best.verdict = "admitted" /\ r.equiv = best.requested /\ f[d] = r
            /\ g[i].measured <= best.measured + Spd!Margin(g[i], best)
        BY <1>8, <1>9, <2>2, <3>1
      <4>2. PICK x \in L \ todo : g[x] = best
        BY <1>11, <4>1
      <4>3. f[x] = best
        BY <1>5, <1>9, <4>2
      <4>4. f[x].requested <= f[d].requested
        BY <1>5, <1>11, <1>17, <3>1, <4>2
      <4>5. Spd!Margin(r, best) = Spd!Margin(g[i], best)
        BY <1>8, SpMarginSame DEF SpSame
      <4>  QED
        BY <1>17, <4>1, <4>2, <4>3, <4>4, <4>5
    <3>2. CASE d # i
      <4>1. f[d] = g[d] /\ g[d].verdict = "duplicate"
        BY <1>9, <2>2, <3>2
      <4>2. PICK x \in L : /\ g[x].verdict = "admitted" /\ g[x].requested = g[d].equiv
                           /\ g[x].requested <= g[d].requested
                           /\ g[d].measured <= g[x].measured + Spd!Margin(g[d], g[x])
        BY <1>11, <2>0, <4>1 DEF SpDistinct
      <4>3. x # i
        BY <1>6, <4>2
      <4>  QED
        BY <1>9, <4>1, <4>2, <4>3
    <3>  QED
      BY <3>1, <3>2
  <2>  QED
    BY <2>0, <2>1, <2>2 DEF SpDistinct
<1>20. b.left = todo \ {i} /\ b.best = top /\ b.rungs = f
  BY <1>1
<1>  HIDE DEF top
<1>21. SpJudgedSoFar(rs, b, k + 1)
  BY <1>9, <1>10, <1>12, <1>13, <1>14, <1>15, <1>16, <1>18, <1>19, <1>20 DEF SpJudgedSoFar
<1>  QED
  BY <1>21 DEF b, i, todo

\* The walk, one state for each rung judged.
SpStart(rs) == [rungs |-> rs, best |-> Spd!NoRung, left |-> DOMAIN rs]
SpWalk(rs, g, n) ==
  g = [k \in 0 .. n |->
         IF k = 0 THEN SpStart(rs) ELSE Spd!Judge(g[k - 1], Spd!Slowest(rs, g[k - 1].left))]

\* The walk has a state after every number of rungs.
LEMMA SpWalkExists ==
  ASSUME NEW rs, NEW n \in Nat
  PROVE  \E g : SpWalk(rs, g, n)
<1>  DEFINE D == {k \in Nat : ~ \E g : SpWalk(rs, g, k)}
            next(a) == Spd!Judge(a, Spd!Slowest(rs, a.left))
<1>1. SUFFICES ASSUME D # {} PROVE FALSE
  OBVIOUS
<1>2. PICK m \in D : \A k \in D : m <= k
  BY <1>1, LeastNatural
<1>3. m # 0
  <2>1. SpWalk(rs, [k \in 0 .. 0 |-> SpStart(rs)], 0)
    BY DEF SpWalk
  <2>  QED
    BY <1>2, <2>1
<1>4. PICK g : SpWalk(rs, g, m - 1)
  BY <1>2, <1>3
<1>  DEFINE h == [k \in 0 .. m |-> IF k = m THEN next(g[m - 1]) ELSE g[k]]
<1>5. SpWalk(rs, h, m)
  <2>  DEFINE e(k) == IF k = 0 THEN SpStart(rs) ELSE next(h[k - 1])
  <2>1. ASSUME NEW k \in 0 .. m PROVE h[k] = e(k)
    <3>1. CASE k = m
      BY <1>3, <3>1
    <3>2. CASE k # m
      BY <1>4, <3>2, SMTT(40) DEF SpWalk
    <3>  QED
      BY <3>1, <3>2
  <2>2. h = [k \in 0 .. m |-> e(k)]
    BY <2>1
  <2>  QED
    BY <2>2 DEF SpWalk
<1>  QED
  BY <1>2, <1>5

\* Admit's recursion is such a walk.
LEMMA SpAdmitWalks ==
  ASSUME NEW rs, Len(rs) \in Nat, probe.points = 3
  PROVE  \E g : SpWalk(rs, g, Len(rs)) /\ Spd!Admit(rs) = g[Len(rs)].rungs
<1>  DEFINE f == CHOOSE g : g = [k \in 0 .. Len(rs) |->
                   IF k = 0 THEN [rungs |-> rs, best |-> Spd!NoRung, left |-> DOMAIN rs]
                   ELSE Spd!Judge(g[k - 1], Spd!Slowest(rs, g[k - 1].left))]
<1>1. \E g : SpWalk(rs, g, Len(rs))
  BY SpWalkExists
<1>2. Spd!Admit(rs) = f[Len(rs)].rungs
  BY DEF Spd!Admit
<1>3. SpWalk(rs, f, Len(rs))
  BY <1>1, Zenon DEF SpWalk, SpStart
<1>  QED
  BY <1>2, <1>3

\* Before a rung is judged.
LEMMA SpNoneJudged ==
  ASSUME NEW rs \in Seq(SpRung), \A i \in 1 .. Len(rs) : rs[i].verdict = "unknown"
  PROVE  SpJudgedSoFar(rs, SpStart(rs), 0)
<1>  DEFINE a == SpStart(rs)
<1>1. a.left = 1 .. Len(rs) /\ a.rungs = rs /\ a.best = Spd!NoRung /\ Len(rs) \in Nat
  BY DEF SpStart
<1>2. Cardinality(1 .. Len(rs)) = Len(rs) - 0
  BY <1>1, FS_Interval
<1>3. Spd!NoRung \in SpRung /\ Spd!NoRung.verdict = "unknown"
  BY DEF Spd!NoRung, SpRung, SpVerdicts
<1>4. rs \in [1 .. Len(rs) -> SpRung]
  OBVIOUS
<1>5. SpDistinct(rs)
  <2>1. DOMAIN rs = 1 .. Len(rs)
    OBVIOUS
  <2>  QED
    BY <2>1 DEF SpDistinct
<1>  HIDE DEF a
<1>6. SpJudgedSoFar(rs, a, 0)
  BY <1>1, <1>2, <1>3, <1>4, <1>5 DEF SpJudgedSoFar, SpSame
<1>  QED
  BY <1>6 DEF a

\* adsc_speeds_admit: what is admitted is of distinct speeds, the lowest of each.
LEMMA SpAdmitDistinct ==
  ASSUME Spd!LadderAssumption, Spd!N \in Nat \ {0}, probe.points = 3,
         NEW rs \in Seq(SpRung), \A i \in 1 .. Len(rs) : rs[i].verdict = "unknown"
  PROVE  Spd!Admit(rs) \in Seq(SpRung) /\ SpDistinct(Spd!Admit(rs))
<1>1. Len(rs) \in Nat
  OBVIOUS
<1>2. PICK g : SpWalk(rs, g, Len(rs)) /\ Spd!Admit(rs) = g[Len(rs)].rungs
  BY <1>1, SpAdmitWalks
<1>3. /\ g[0] = SpStart(rs)
      /\ \A k \in 0 .. Len(rs) : k # 0 =>
           g[k] = Spd!Judge(g[k - 1], Spd!Slowest(rs, g[k - 1].left))
  <2>1. \A k \in 0 .. Len(rs) :
           g[k] = IF k = 0 THEN SpStart(rs) ELSE Spd!Judge(g[k - 1], Spd!Slowest(rs, g[k - 1].left))
    BY <1>2, Zenon DEF SpWalk
  <2>  QED
    BY <1>1, <2>1
<1>  DEFINE D == {k \in 0 .. Len(rs) : ~ SpJudgedSoFar(rs, g[k], k)}
<1>4. D = {}
  <2>1. SUFFICES ASSUME D # {} PROVE FALSE
    OBVIOUS
  <2>2. D \in SUBSET Nat
    BY <1>1
  <2>3. PICK m \in D : \A k \in D : m <= k
    <3>  HIDE DEF D
    <3>  QED
      BY <2>1, <2>2, LeastNatural
  <2>4. m # 0
    BY <1>3, <2>3, SpNoneJudged
  <2>5. m - 1 \in 0 .. Len(rs) /\ m - 1 \in Nat /\ m - 1 < Len(rs) /\ (m - 1) + 1 = m /\ m \in 0 .. Len(rs)
    BY <1>1, <2>2, <2>4
  <2>6. SpJudgedSoFar(rs, g[m - 1], m - 1)
    BY <2>3, <2>5
  <2>  DEFINE p == m - 1
  <2>7. SpJudgedSoFar(rs, Spd!Judge(g[p], Spd!Slowest(rs, g[p].left)), p + 1)
    BY <2>5, <2>6, SpJudgeOne
  <2>8. SpJudgedSoFar(rs, g[m], m)
    BY <1>3, <2>4, <2>5, <2>7
  <2>  QED
    BY <2>3, <2>8
<1>5. SpJudgedSoFar(rs, g[Len(rs)], Len(rs))
  BY <1>1, <1>4
<1>6. SpDistinct(g[Len(rs)].rungs) /\ g[Len(rs)].rungs \in [1 .. Len(rs) -> SpRung]
  BY <1>5 DEF SpJudgedSoFar
<1>7. Spd!Admit(rs) \in Seq(SpRung)
  BY <1>1, <1>2, <1>6
<1>  QED
  BY <1>2, <1>6, <1>7

------------------------------------------------------------------------------
(* The speed ladder: the probe.                                            *)

\* Where the probe is: it has timed the bands before this one, in a layout that fits.
SpAt ==
  /\ probe \in Probes /\ rung \in Nat \ {0}
  /\ bands \in Seq(Nat) /\ timed \in Seq(SUBSET Int) /\ rungs \in Seq(SpRung)
  /\ sp_step = "start" => timed = << >> /\ rungs = << >> /\ rung = 1 /\ bands = << >>
  /\ sp_step = "time" => Spd!Fits
  /\ timed # << >> \/ rungs # << >> => Spd!Fits

\* Each window timed is one of a rung before, or of a band before of this one.
SpTimed(k) ==
  \E i \in 1 .. Spd!N, b \in 0 .. probe.points - 1 :
    timed[k] = Spd!Window(i, b) /\ (i < rung \/ (i = rung /\ b < Len(bands)))

SpIInv ==
  /\ SpAt
  /\ \A k \in 1 .. Len(timed) : SpTimed(k)
  /\ Spd!WindowsAreFresh
  /\ sp_step # "done" => \A i \in 1 .. Len(rungs) : rungs[i].verdict = "unknown"
  /\ SpDistinct(rungs)

\* Of rungs not yet judged the ladder asks nothing.
LEMMA SpUnknownDistinct ==
  ASSUME NEW rs \in Seq(SpRung), \A i \in 1 .. Len(rs) : rs[i].verdict = "unknown"
  PROVE  SpDistinct(rs)
<1>1. DOMAIN rs = 1 .. Len(rs)
  OBVIOUS
<1>  QED
  BY <1>1 DEF SpDistinct

\* The invariant of the speed probe holds at the start.
LEMMA SpInitInv == ASSUME Spd!LadderAssumption, Spd!Init PROVE SpIInv
<1>1. probe \in Probes /\ rung = 1 /\ bands = << >> /\ timed = << >> /\ rungs = << >>
      /\ sp_step = "start"
  BY DEF Spd!Init
<1>2. SpAt
  BY <1>1 DEF SpAt
<1>3. SpDistinct(rungs)
  BY <1>1 DEF SpDistinct
<1>4. Spd!WindowsAreFresh
  BY <1>1 DEF Spd!WindowsAreFresh
<1>5. /\ \A k \in 1 .. Len(timed) : SpTimed(k)
      /\ \A i \in 1 .. Len(rungs) : rungs[i].verdict = "unknown"
  <2>1. Len(timed) = 0 /\ Len(rungs) = 0
    BY <1>1
  <2>  QED
    BY <2>1
<1>  QED
  BY <1>2, <1>3, <1>4, <1>5, Zenon DEF SpIInv

\* The ladder stays distinct while no rung changes.
LEMMA SpDistinctKept ==
  ASSUME SpDistinct(rungs), UNCHANGED <<probe, rungs>> PROVE SpDistinct(rungs)'
<1>1. \A q, r : Spd!Margin(q, r)' = Spd!Margin(q, r)
  BY DEF Spd!Margin, Spd!RadiusStep, Spd!N, Spd!Worst
<1>2. rungs' = rungs
  OBVIOUS
<1>  QED
  BY <1>1, <1>2 DEF SpDistinct

\* A window more is one of its own.
LEMMA SpTimeBandInv == ASSUME Spd!LadderAssumption, SpIInv, Spd!TimeBand PROVE SpIInv'
<1>1. /\ sp_step = "time" /\ rung <= Spd!N /\ Len(bands) < probe.points
      /\ timed' = Append(timed, Spd!Window(rung, Len(bands)))
      /\ UNCHANGED <<probe, sp_step, rung, rungs, sp_result>>
  BY DEF Spd!TimeBand
<1>2. PICK rate \in Rates : bands' = Append(bands, rate)
  BY DEF Spd!TimeBand
<1>3. /\ probe \in Probes /\ rung \in Nat \ {0} /\ bands \in Seq(Nat) /\ timed \in Seq(SUBSET Int)
      /\ rungs \in Seq(SpRung) /\ Spd!Fits
  BY <1>1 DEF SpIInv, SpAt
<1>4. Spd!N \in Nat \ {0} /\ probe.points \in {1, 3} /\ probe.count \in Nat
  BY <1>3, SpFits
<1>5. rung \in 1 .. Spd!N /\ Len(bands) \in 0 .. probe.points - 1
  BY <1>1, <1>3, <1>4
<1>0. PICK n \in Nat, c \in Nat : n = Len(timed) /\ c = Len(bands)
  BY <1>3
<1>  DEFINE w == Spd!Window(rung, c)
<1>6. w \subseteq 0 .. probe.count - 1
  BY <1>0, <1>3, <1>5, SpWindowInSpan
<1>7. rate \in Nat
  BY DEF Spd!LadderAssumption
<1>8. bands' \in Seq(Nat) /\ Len(bands') = Len(bands) + 1 /\ Len(bands) \in Nat
  BY <1>2, <1>3, <1>7
<1>9. w \in SUBSET Int
  BY <1>6
<1>  HIDE DEF w
<1>10. /\ timed' \in Seq(SUBSET Int) /\ n \in Nat /\ Len(timed') = n + 1 /\ timed'[n + 1] = w
       /\ \A k \in 1 .. n : timed'[k] = timed[k]
  BY <1>0, <1>1, <1>3, <1>9 DEF w
<1>11. Spd!N' = Spd!N /\ Spd!Fits'
  BY <1>1, <1>3 DEF Spd!N, Spd!Fits, Spd!Slot
<1>12. \A i, b : Spd!Window(i, b)' = Spd!Window(i, b)
  BY <1>1 DEF Spd!Window, Spd!Band, Spd!Slot, Spd!Want, Spd!Room, Spd!N
<1>13. SpAt'
  BY <1>1, <1>3, <1>8, <1>10, <1>11 DEF SpAt
<1>14. \A k \in 1 .. n : SpTimed(k)
  BY <1>0 DEF SpIInv
<1>15. ASSUME NEW k \in 1 .. n PROVE timed'[k] \cap w = {} /\ SpTimed(k)'
  <2>1. PICK i \in 1 .. Spd!N, b \in 0 .. probe.points - 1 :
          timed[k] = Spd!Window(i, b) /\ (i < rung \/ (i = rung /\ b < Len(bands)))
    BY <1>14, <1>15 DEF SpTimed
  <2>2. i # rung \/ b # Len(bands)
    BY <1>3, <1>8, <2>1
  <2>3. Spd!Window(i, b) \cap w = {}
    BY <1>0, <1>3, <1>5, <2>2, SpWindowsApart DEF w
  <2>4. i < rung \/ (i = rung /\ b < Len(bands'))
    BY <1>3, <1>4, <1>8, <2>1
  <2>5. timed'[k] = Spd!Window(i, b)'
    BY <1>10, <1>12, <1>15, <2>1
  <2>6. i \in 1 .. Spd!N' /\ b \in 0 .. probe'.points - 1 /\ rung' = rung
    BY <1>1, <1>11
  <2>  QED
    BY <1>12, <2>3, <2>4, <2>5, <2>6 DEF SpTimed
<1>16. SpTimed(n + 1)'
  <2>1. timed'[n + 1] = Spd!Window(rung, c)'
    <3>1. PICK i \in 1 .. Spd!N : i = rung
      BY <1>5
    <3>2. timed'[n + 1] = Spd!Window(i, c)
      BY <1>10, <3>1 DEF w
    <3>3. Spd!Window(i, c)' = Spd!Window(i, c) /\ i = rung'
      BY <1>1, <1>12, <3>1
    <3>  QED
      BY <3>2, <3>3
  <2>2. rung' \in 1 .. Spd!N' /\ c \in 0 .. probe'.points - 1 /\ c < Len(bands')
    BY <1>0, <1>1, <1>5, <1>8, <1>11
  <2>  QED
    BY <2>1, <2>2 DEF SpTimed
<1>17. \A k \in 1 .. Len(timed') : SpTimed(k)'
  <2>1. ASSUME NEW k \in 1 .. n + 1 PROVE SpTimed(k)'
    <3>1. k \in 1 .. n \/ k = n + 1
      BY <1>10
    <3>  QED
      BY <1>15, <1>16, <3>1
  <2>  QED
    BY <1>10, <2>1
<1>18. Spd!WindowsAreFresh'
  <2>1. DOMAIN timed = 1 .. n /\ DOMAIN timed' = 1 .. n + 1
    BY <1>0, <1>3, <1>10
  <2>2. /\ \A i, j \in 1 .. n : i # j => timed[i] \cap timed[j] = {}
        /\ \A i \in 1 .. n : timed[i] \subseteq 0 .. probe.count - 1
    BY <2>1 DEF SpIInv, Spd!WindowsAreFresh
  <2>3. ASSUME NEW i \in 1 .. n + 1, NEW j \in 1 .. n + 1, i # j
        PROVE  timed'[i] \cap timed'[j] = {}
    <3>1. CASE i \in 1 .. n /\ j \in 1 .. n
      BY <1>10, <2>2, <2>3, <3>1
    <3>2. CASE i = n + 1 /\ j \in 1 .. n
      BY <1>10, <1>15, <3>2
    <3>3. CASE j = n + 1 /\ i \in 1 .. n
      BY <1>10, <1>15, <3>3
    <3>  QED
      BY <1>10, <2>3, <3>1, <3>2, <3>3
  <2>4. ASSUME NEW i \in 1 .. n + 1 PROVE timed'[i] \subseteq 0 .. probe'.count - 1
    <3>1. i \in 1 .. n \/ i = n + 1
      BY <1>10
    <3>  QED
      BY <1>1, <1>6, <1>10, <2>2, <3>1
  <2>  QED
    BY <2>1, <2>3, <2>4 DEF Spd!WindowsAreFresh
<1>19. SpDistinct(rungs)'
  BY <1>1, SpDistinctKept DEF SpIInv
<1>  QED
  BY <1>1, <1>13, <1>17, <1>18, <1>19 DEF SpIInv

\* What stays when no window is timed.
LEMMA SpTimedKept ==
  ASSUME SpIInv, UNCHANGED <<probe, timed>>,
         (rung' = rung /\ bands' = bands) \/ (rung \in Nat /\ rung' = rung + 1)
  PROVE  (\A k \in 1 .. Len(timed') : SpTimed(k)') /\ Spd!WindowsAreFresh'
<1>1. ASSUME NEW k \in 1 .. Len(timed) PROVE SpTimed(k)'
  <2>1. PICK i \in 1 .. Spd!N, b \in 0 .. probe.points - 1 :
          timed[k] = Spd!Window(i, b) /\ (i < rung \/ (i = rung /\ b < Len(bands)))
    BY <1>1 DEF SpIInv, SpTimed
  <2>2. Spd!Window(i, b)' = Spd!Window(i, b) /\ Spd!N' = Spd!N
    BY DEF Spd!Window, Spd!Band, Spd!Slot, Spd!Want, Spd!Room, Spd!N
  <2>3. i < rung' \/ (i = rung' /\ b < Len(bands'))
    BY <2>1
  <2>  QED
    BY <2>1, <2>2, <2>3 DEF SpTimed
<1>2. Spd!WindowsAreFresh'
  BY DEF SpIInv, Spd!WindowsAreFresh
<1>  QED
  BY <1>1, <1>2

\* A rung is what its bands were timed at.
LEMMA SpEndRungInv == ASSUME Spd!LadderAssumption, SpIInv, Spd!EndRung PROVE SpIInv'
<1>1. /\ sp_step = "time" /\ rung <= Spd!N /\ Len(bands) = probe.points
      /\ rung' = rung + 1 /\ bands' = << >> /\ UNCHANGED <<probe, sp_step, timed>>
  BY DEF Spd!EndRung
<1>  DEFINE rates == {bands[b] : b \in DOMAIN bands}
            whole == probe.points > 1 /\ 0 \notin rates
<1>2. PICK said \in {0, 1, probe.candidates[rung]} :
        rungs' = Append(rungs,
             [Spd!NoRung EXCEPT !.requested = probe.candidates[rung], !.reported = said,
                            !.measured = bands[(probe.points \div 2) + 1],
                            !.min = IF whole THEN Spd!Best(rates) ELSE 0,
                            !.max = IF whole THEN Spd!Worst(rates) ELSE 0])
  BY DEF Spd!EndRung
<1>3. /\ probe \in Probes /\ rung \in Nat \ {0} /\ bands \in Seq(Nat) /\ timed \in Seq(SUBSET Int)
      /\ rungs \in Seq(SpRung) /\ Spd!Fits
  BY <1>1 DEF SpIInv, SpAt
<1>4. Spd!N \in Nat \ {0} /\ probe.points \in {1, 3} /\ probe.candidates \in Seq(Nat)
  BY <1>3, SpFits DEF Spd!LadderAssumption
<1>5. probe.candidates[rung] \in Nat
  BY <1>1, <1>3, <1>4 DEF Spd!N
<1>6. bands[(probe.points \div 2) + 1] \in Nat
  BY <1>1, <1>3, <1>4
<1>7. ASSUME whole PROVE Spd!Best(rates) \in Nat /\ Spd!Worst(rates) \in Nat
  <2>1. probe.points = 3 /\ DOMAIN bands = {1, 2, 3}
    <3>1. probe.points = 3
      BY <1>4, <1>7
    <3>2. Len(bands) = 3 /\ DOMAIN bands = 1 .. Len(bands)
      <4>1. DOMAIN bands = 1 .. Len(bands)
        BY <1>3
      <4>2. Len(bands) = 3
        BY <1>1, <3>1
      <4>  QED
        BY <4>1, <4>2
    <3>3. 1 .. 3 = {1, 2, 3}
      OBVIOUS
    <3>  HIDE DEF rates
    <3>  QED
      BY <3>1, <3>2, <3>3
  <2>2. bands[1] \in Nat /\ bands[2] \in Nat /\ bands[3] \in Nat
    <3>  HIDE DEF rates
    <3>1. 1 \in DOMAIN bands /\ 2 \in DOMAIN bands /\ 3 \in DOMAIN bands
      BY <2>1
    <3>  QED
      BY <1>3, <3>1
  <2>3. rates = {bands[1], bands[2], bands[3]}
    BY <2>1
  <2>  HIDE DEF rates
  <2>4. bands[1] \in Int /\ bands[2] \in Int /\ bands[3] \in Int
    BY <2>2
  <2>5. Spd!Best(rates) \in {bands[1], bands[2], bands[3]}
    BY <2>3, <2>4, SpBestOfThree, Zenon
  <2>6. Spd!Worst(rates) \in {bands[1], bands[2], bands[3]}
    BY <2>3, <2>4, SpWorstOfThree, Zenon
  <2>  QED
    BY <2>2, <2>5, <2>6
<1>  DEFINE lo == IF whole THEN Spd!Best(rates) ELSE 0
            hi == IF whole THEN Spd!Worst(rates) ELSE 0
            mid == bands[(probe.points \div 2) + 1]
            r == [Spd!NoRung EXCEPT !.requested = probe.candidates[rung], !.reported = said,
                            !.measured = mid, !.min = lo, !.max = hi]
<1>8. lo \in Nat /\ hi \in Nat /\ mid \in Nat /\ said \in Nat
  <2>  HIDE DEF whole
  <2>  QED
    BY <1>5, <1>6, <1>7
<1>9. rungs' = Append(rungs, r)
  BY <1>2
<1>  HIDE DEF lo, hi, mid
<1>10. r \in SpRung /\ r.verdict = "unknown"
  BY <1>5, <1>8 DEF Spd!NoRung, SpRung, SpVerdicts
<1>  HIDE DEF r
<1>11. rungs' \in Seq(SpRung) /\ \A i \in 1 .. Len(rungs') : rungs'[i].verdict = "unknown"
  <2>1. \A i \in 1 .. Len(rungs) : rungs[i].verdict = "unknown"
    BY <1>1 DEF SpIInv
  <2>2. /\ rungs' \in Seq(SpRung) /\ Len(rungs') = Len(rungs) + 1 /\ Len(rungs) \in Nat
        /\ rungs'[Len(rungs) + 1] = r /\ \A i \in 1 .. Len(rungs) : rungs'[i] = rungs[i]
    BY <1>3, <1>9, <1>10
  <2>  QED
    BY <1>10, <2>1, <2>2
<1>12. Spd!Fits'
  BY <1>1, <1>3 DEF Spd!Fits, Spd!N, Spd!Slot
<1>13. SpAt'
  BY <1>1, <1>3, <1>11, <1>12 DEF SpAt
<1>14. SpDistinct(rungs)'
  <2>1. DOMAIN rungs' = 1 .. Len(rungs')
    BY <1>11
  <2>  QED
    BY <1>11, <2>1 DEF SpDistinct
<1>  QED
  BY <1>1, <1>3, <1>11, <1>13, <1>14, SpTimedKept DEF SpIInv

\* The verdicts.
LEMMA SpFinishInv == ASSUME Spd!LadderAssumption, SpIInv, Spd!Finish PROVE SpIInv'
<1>1. sp_step = "time" /\ sp_step' = "done" /\ UNCHANGED <<probe, rung, bands, timed>>
      /\ (rungs' = Spd!Admit(rungs) \/ rungs' = rungs)
  BY DEF Spd!Finish
<1>2. /\ probe \in Probes /\ rungs \in Seq(SpRung) /\ Spd!Fits /\ SpAt
      /\ \A i \in 1 .. Len(rungs) : rungs[i].verdict = "unknown"
  BY <1>1 DEF SpIInv, SpAt
<1>3. Spd!N \in Nat \ {0} /\ probe.points \in {1, 3}
  BY <1>2, SpFits
<1>4. rungs' \in Seq(SpRung) /\ SpDistinct(rungs')
  <2>1. CASE rungs' = rungs
    BY <1>2, <2>1, SpUnknownDistinct
  <2>2. CASE rungs' = Spd!Admit(rungs) /\ probe.points = 1
    <3>1. Spd!Admit(rungs) = rungs
      BY <2>2 DEF Spd!Admit
    <3>  QED
      BY <1>2, <2>2, <3>1, SpUnknownDistinct
  <2>3. CASE rungs' = Spd!Admit(rungs) /\ probe.points = 3
    BY <1>2, <1>3, <2>3, SpAdmitDistinct
  <2>  QED
    BY <1>1, <1>3, <2>1, <2>2, <2>3
<1>5. Spd!Fits'
  BY <1>1, <1>2 DEF Spd!Fits, Spd!N, Spd!Slot
<1>6. SpAt'
  BY <1>1, <1>2, <1>4, <1>5 DEF SpAt
<1>7. SpDistinct(rungs)'
  BY <1>1, <1>4 DEF SpDistinct, Spd!Margin, Spd!RadiusStep, Spd!N
<1>  QED
  BY <1>1, <1>6, <1>7, SpTimedKept DEF SpIInv

\* Every other step leaves windows and rungs alone.
LEMMA SpStepInv ==
  ASSUME Spd!LadderAssumption, SpIInv, [Spd!Next]_(Spd!ladder) PROVE SpIInv'
<1>1. CASE Spd!TimeBand
  BY <1>1, SpTimeBandInv
<1>2. CASE Spd!EndRung
  BY <1>2, SpEndRungInv
<1>3. CASE Spd!Finish
  BY <1>3, SpFinishInv
<1>4. CASE UNCHANGED <<probe, rung, bands, timed, rungs>>
           /\ (sp_step' = sp_step \/ sp_step' = "done" \/ (sp_step' = "time" /\ sp_step = "start" /\ Spd!Fits))
  <2>1. Spd!Fits' = Spd!Fits
    BY <1>4 DEF Spd!Fits, Spd!N, Spd!Slot
  <2>2. SpAt'
    BY <1>4, <2>1 DEF SpIInv, SpAt
  <2>3. SpDistinct(rungs)'
    BY <1>4, SpDistinctKept DEF SpIInv
  <2>4. sp_step' # "done" => sp_step # "done"
    BY <1>4
  <2>  QED
    BY <1>4, <2>2, <2>3, <2>4, SpTimedKept DEF SpIInv
<1>  QED
  BY <1>1, <1>2, <1>3, <1>4 DEF Spd!Next, Spd!Layout, Spd!Probed, Spd!ladder

\* The invariant implies the properties.
LEMMA SpIInvProperties ==
  ASSUME SpIInv PROVE Spd!WindowsAreFresh /\ Spd!LadderIsDistinct
  BY DEF SpIInv, SpDistinct, Spd!LadderIsDistinct, Spd!Admitted

------------------------------------------------------------------------------
(* C2 lag (C2Lag): what two reads of a sector add.                          *)

\* C2Lag's variables by name.
cl_drive == r1
phase == r2
pos == r3
windows == r4
reads == r5
acc == r6
verdict == r7

USE DEF cl_drive, phase, pos, windows, reads, acc, verdict

\* The instance counts as the library does.
LEMMA ClCardinality == \A I : Lag!Cardinality(I) = Cardinality(I)
  BY Zenon DEF Lag!Cardinality, Cardinality

\* A set is no larger than one it is shifted into.
LEMMA ClShifted ==
  ASSUME NEW A \in SUBSET Int, NEW B \in SUBSET Int, IsFiniteSet(B), NEW d \in Int,
         \A x \in A : x + d \in B
  PROVE  IsFiniteSet(A) /\ Cardinality(A) <= Cardinality(B)
<1>  DEFINE f == [x \in A |-> x + d]
<1>1. f \in Injection(A, B)
  <2>1. f \in [A -> B]
    OBVIOUS
  <2>2. \A x, y \in A : f[x] = f[y] => x = y
    OBVIOUS
  <2>  HIDE DEF f
  <2>  QED
    BY <2>1, <2>2 DEF Injection, IsInjective
<1>  HIDE DEF f
<1>  QED
  BY <1>1, FS_Injection

\* The pairs no shift moves off the sector.
ClInner == 2 * MaxShift .. SectorPairs - 1 - 2 * MaxShift

\* A read of a sector whose damage is within them.
ClRead(x) == x.failed \in SUBSET ClInner /\ x.flags = Lag!Bitmap(x.failed)

\* What a read adds at shift s to the flags and to the hits.
ClFlags(fl, s) == Lag!Cardinality({f \in fl : Lag!Target(f, s) \in Lag!Pairs})
ClHits(fl, s, diff) == Lag!Cardinality({f \in fl : Lag!Target(f, s) \in diff})

ClConstants ==
  /\ Lag!LagAssumption
  /\ cl_drive.lag \in Lag!Shifts

\* The constants as integers, and the sets that are finite.
LEMMA ClNumbers ==
  ASSUME ClConstants
  PROVE  /\ SectorPairs \in Nat /\ MaxShift \in Nat /\ cl_drive.lag \in Int
         /\ -MaxShift <= cl_drive.lag /\ cl_drive.lag <= MaxShift
         /\ Lag!Shifts = -MaxShift .. MaxShift /\ Lag!Pairs = 0 .. SectorPairs - 1
         /\ IsFiniteSet(ClInner) /\ IsFiniteSet(Lag!Pairs)
         /\ \A p \in ClInner : p \in Int /\ 2 * MaxShift <= p /\ p <= SectorPairs - 1 - 2 * MaxShift
<1>1. SectorPairs \in Nat /\ MaxShift \in Nat
  BY DEF ClConstants, Lag!LagAssumption
<1>2. Lag!Shifts = -MaxShift .. MaxShift /\ Lag!Pairs = 0 .. SectorPairs - 1
  BY DEF Lag!Shifts, Lag!Pairs
<1>3. cl_drive.lag \in Int /\ -MaxShift <= cl_drive.lag /\ cl_drive.lag <= MaxShift
  BY <1>1, <1>2 DEF ClConstants
<1>4. IsFiniteSet(Lag!Pairs)
  BY <1>1, <1>2, FS_Interval
<1>5. IsFiniteSet(ClInner)
  <2>1. 2 * MaxShift \in Int /\ SectorPairs - 1 - 2 * MaxShift \in Int
    BY <1>1
  <2>  QED
    BY <2>1, FS_Interval DEF ClInner
<1>6. \A p \in ClInner : p \in Int /\ 2 * MaxShift <= p /\ p <= SectorPairs - 1 - 2 * MaxShift
  BY <1>1 DEF ClInner
<1>  QED
  BY <1>1, <1>2, <1>3, <1>4, <1>5, <1>6

\* The flags of a read are its failed pairs, moved by the lag; at every shift they
\* describe pairs of the sector.
LEMMA ClMoved ==
  ASSUME ClConstants, NEW x, ClRead(x)
  PROVE  /\ \A f \in x.flags : f \in Int /\ f - cl_drive.lag \in x.failed
         /\ \A p \in x.failed : p \in Int /\ p + cl_drive.lag \in x.flags
         /\ IsFiniteSet(x.flags) /\ x.flags \in SUBSET Int
         /\ \A s \in Lag!Shifts, f \in x.flags : Lag!Target(f, s) \in Lag!Pairs
<1>  DEFINE lag == cl_drive.lag
<1>1. /\ SectorPairs \in Nat /\ MaxShift \in Nat /\ lag \in Int
      /\ -MaxShift <= lag /\ lag <= MaxShift
      /\ Lag!Shifts = -MaxShift .. MaxShift /\ Lag!Pairs = 0 .. SectorPairs - 1
      /\ \A p \in x.failed : p \in Int /\ 2 * MaxShift <= p /\ p <= SectorPairs - 1 - 2 * MaxShift
  BY ClNumbers DEF ClRead
<1>2. x.flags = {p + lag : p \in x.failed} \cap Lag!Pairs
  BY DEF ClRead, Lag!Bitmap
<1>  HIDE DEF lag
<1>3. \A f \in x.flags : f \in Int /\ f - lag \in x.failed
  <2>1. ASSUME NEW f \in x.flags PROVE f \in Int /\ f - lag \in x.failed
    <3>1. PICK p \in x.failed : f = p + lag
      BY <1>2
    <3>2. p \in Int /\ f - lag = p
      BY <1>1, <3>1
    <3>  QED
      BY <1>1, <3>1, <3>2
  <2>  QED
    BY <2>1
<1>4. \A p \in x.failed : p + lag \in x.flags
  BY <1>1, <1>2
<1>5. IsFiniteSet(x.flags)
  <2>1. x.flags \in SUBSET Lag!Pairs
    BY <1>2
  <2>  QED
    BY <2>1, ClNumbers, FS_Subset
<1>6. ASSUME NEW s \in Lag!Shifts, NEW f \in x.flags PROVE Lag!Target(f, s) \in Lag!Pairs
  <2>1. f \in Int /\ f - lag \in x.failed
    BY <1>3
  <2>  DEFINE p == f - lag
  <2>2. p \in Int /\ 2 * MaxShift <= p /\ p <= SectorPairs - 1 - 2 * MaxShift /\ f = p + lag
    BY <1>1, <2>1
  <2>3. Lag!Target(f, s) = f - s
    BY DEF Lag!Target
  <2>  HIDE DEF p
  <2>  QED
    BY <1>1, <2>1, <2>2, <2>3
<1>  QED
  BY <1>1, <1>3, <1>4, <1>5, <1>6 DEF lag

\* So a read adds the same number of flags at every shift.
LEMMA ClFlagsAlike ==
  ASSUME ClConstants, NEW x, ClRead(x), NEW s \in Lag!Shifts
  PROVE  ClFlags(x.flags, s) \in Nat /\ ClFlags(x.flags, s) = Cardinality(x.flags)
<1>1. {f \in x.flags : Lag!Target(f, s) \in Lag!Pairs} = x.flags
  BY ClMoved
<1>2. IsFiniteSet(x.flags)
  BY ClMoved
<1>3. Cardinality(x.flags) \in Nat
  BY <1>2, FS_CardinalityType
<1>4. ClFlags(x.flags, s) = Cardinality(x.flags)
  BY <1>1, ClCardinality DEF ClFlags
<1>  QED
  BY <1>3, <1>4

\* No shift hits more than there are differences.
LEMMA ClHitsBounded ==
  ASSUME ClConstants, NEW x, ClRead(x), NEW s \in Lag!Shifts, NEW diff \in SUBSET ClInner
  PROVE  ClHits(x.flags, s, diff) \in Nat /\ ClHits(x.flags, s, diff) <= Cardinality(diff)
<1>  DEFINE B == {f \in x.flags : Lag!Target(f, s) \in diff}
<1>1. s \in Int /\ B \in SUBSET Int /\ diff \in SUBSET Int
  BY ClNumbers, ClMoved
<1>2. IsFiniteSet(diff)
  BY ClNumbers, FS_Subset
<1>3. -s \in Int /\ \A f \in B : f + (-s) \in diff
  BY <1>1 DEF Lag!Target
<1>4. ClHits(x.flags, s, diff) = Cardinality(B)
  BY ClCardinality DEF ClHits
<1>  HIDE DEF B
<1>5. IsFiniteSet(B) /\ Cardinality(B) <= Cardinality(diff)
  BY <1>1, <1>2, <1>3, ClShifted
<1>6. Cardinality(B) \in Nat
  BY <1>5, FS_CardinalityType
<1>  QED
  BY <1>4, <1>5, <1>6

\* The drive's own lag hits every difference that failed in the read.
LEMMA ClHitsAll ==
  ASSUME ClConstants, NEW x, ClRead(x), NEW diff \in SUBSET ClInner
  PROVE  Cardinality(x.failed \cap diff) <= ClHits(x.flags, cl_drive.lag, diff)
<1>  DEFINE lag == cl_drive.lag
            B == {f \in x.flags : Lag!Target(f, lag) \in diff}
            A == x.failed \cap diff
<1>1. lag \in Int /\ B \in SUBSET Int /\ A \in SUBSET Int
  BY ClNumbers, ClMoved
<1>2. IsFiniteSet(B)
  BY ClMoved, FS_Subset
<1>3. \A p \in A : p + lag \in B
  <2>1. ASSUME NEW p \in A PROVE p + lag \in B
    <3>1. p \in Int /\ p + lag \in x.flags
      BY <2>1, ClMoved
    <3>2. Lag!Target(p + lag, lag) = p
      BY <1>1, <3>1 DEF Lag!Target
    <3>  QED
      BY <3>1, <3>2
  <2>  QED
    BY <2>1
<1>4. ClHits(x.flags, lag, diff) = Cardinality(B)
  BY ClCardinality DEF ClHits
<1>  HIDE DEF A, B, lag
<1>5. Cardinality(A) <= Cardinality(B)
  BY <1>1, <1>2, <1>3, ClShifted
<1>  QED
  BY <1>4, <1>5 DEF A, lag

\* What has been counted: as many flags at every shift, and nowhere more than twice
\* the hits of the drive's own lag.
ClAcc == [flags : [Lag!Shifts -> Nat], tp : [Lag!Shifts -> Nat], diffs : Nat]
ClCounts(c) ==
  /\ c \in ClAcc
  /\ \A s \in Lag!Shifts :
       c.flags[s] = c.flags[cl_drive.lag] /\ c.tp[s] <= 2 * c.tp[cl_drive.lag]

\* What one read of a sector adds to the evidence.
LEMMA ClScore ==
  ASSUME NEW c \in ClAcc, NEW fl, NEW diff,
         \A s \in Lag!Shifts : ClFlags(fl, s) \in Nat /\ ClHits(fl, s, diff) \in Nat
  PROVE  /\ Lag!Score(c, fl, diff) \in ClAcc
         /\ \A s \in Lag!Shifts :
              /\ Lag!Score(c, fl, diff).flags[s] = c.flags[s] + ClFlags(fl, s)
              /\ Lag!Score(c, fl, diff).tp[s] = c.tp[s] + ClHits(fl, s, diff)
<1>  DEFINE S == Lag!Shifts
            p == [s \in S |-> c.flags[s] + ClFlags(fl, s)]
            q == [s \in S |-> c.tp[s] + ClHits(fl, s, diff)]
<1>1. Lag!Score(c, fl, diff) = [c EXCEPT !.flags = p, !.tp = q]
  BY DEF Lag!Score, ClFlags, ClHits
<1>2. c.flags \in [S -> Nat] /\ c.tp \in [S -> Nat] /\ c.diffs \in Nat
  BY DEF ClAcc
<1>3. p \in [S -> Nat] /\ q \in [S -> Nat]
  BY <1>2
<1>  HIDE DEF p, q
<1>4. [c EXCEPT !.flags = p, !.tp = q] \in ClAcc
      /\ [c EXCEPT !.flags = p, !.tp = q].flags = p /\ [c EXCEPT !.flags = p, !.tp = q].tp = q
  BY <1>3 DEF ClAcc
<1>5. /\ Lag!Score(c, fl, diff) \in ClAcc
      /\ Lag!Score(c, fl, diff).flags = p /\ Lag!Score(c, fl, diff).tp = q
  BY <1>1, <1>4
<1>  QED
  BY <1>5 DEF p, q

\* Two reads more.
LEMMA ClAdd ==
  ASSUME ClConstants, NEW c, ClCounts(c), NEW a, ClRead(a), NEW b, ClRead(b)
  PROVE  ClCounts(Lag!Add(c, a, b))
<1>  DEFINE lag == cl_drive.lag
            S == Lag!Shifts
            diff == (a.failed \ b.failed) \cup (b.failed \ a.failed)
                    \cup ((a.failed \cap b.failed) \ a.steady)
            one == Lag!Score(c, a.flags, diff)
            both == Lag!Score(one, b.flags, diff)
            n == Lag!Cardinality(diff)
<1>1. Lag!Add(c, a, b) = [both EXCEPT !.diffs = @ + n]
  BY DEF Lag!Add
<1>2. diff \in SUBSET ClInner /\ diff = (a.failed \cap diff) \cup (b.failed \cap diff)
  BY DEF ClRead
<1>  HIDE DEF diff
<1>3. IsFiniteSet(diff)
  BY <1>2, ClNumbers, FS_Subset
<1>4. n = Cardinality(diff) /\ Cardinality(diff) \in Nat
  BY <1>3, ClCardinality, FS_CardinalityType
<1>5. /\ c \in ClAcc /\ lag \in S
      /\ \A s \in S : c.flags[s] = c.flags[lag] /\ c.tp[s] <= 2 * c.tp[lag]
  BY DEF ClCounts, ClConstants
<1>6. /\ \A s \in S : ClFlags(a.flags, s) \in Nat /\ ClFlags(a.flags, s) = Cardinality(a.flags)
      /\ \A s \in S : ClFlags(b.flags, s) \in Nat /\ ClFlags(b.flags, s) = Cardinality(b.flags)
  BY ClFlagsAlike
<1>7. /\ \A s \in S : ClHits(a.flags, s, diff) \in Nat /\ ClHits(a.flags, s, diff) <= n
      /\ \A s \in S : ClHits(b.flags, s, diff) \in Nat /\ ClHits(b.flags, s, diff) <= n
  BY <1>2, <1>4, ClHitsBounded
<1>8. n <= ClHits(a.flags, lag, diff) + ClHits(b.flags, lag, diff)
  <2>  DEFINE A == a.failed \cap diff
              B == b.failed \cap diff
  <2>1. Cardinality(A) <= ClHits(a.flags, lag, diff) /\ Cardinality(B) <= ClHits(b.flags, lag, diff)
    BY <1>2, ClHitsAll
  <2>2. IsFiniteSet(A) /\ IsFiniteSet(B)
    BY <1>3, FS_Intersection
  <2>  HIDE DEF A, B
  <2>3. Cardinality(A \cup B) = Cardinality(A) + Cardinality(B) - Cardinality(A \cap B)
    BY <2>2, FS_Union
  <2>4. IsFiniteSet(A \cap B)
    BY <2>2, FS_Intersection
  <2>5. Cardinality(A) \in Nat /\ Cardinality(B) \in Nat /\ Cardinality(A \cap B) \in Nat
    BY <2>2, <2>4, FS_CardinalityType
  <2>6. diff = A \cup B
    BY <1>2 DEF A, B
  <2>7. Cardinality(diff) <= Cardinality(A) + Cardinality(B)
    BY <2>3, <2>5, <2>6
  <2>  DEFINE h == ClHits(a.flags, lag, diff)
              k == ClHits(b.flags, lag, diff)
  <2>8. h \in Nat /\ k \in Nat
    BY <1>5, <1>7
  <2>  HIDE DEF h, k
  <2>9. Cardinality(A) <= h /\ Cardinality(B) <= k
    BY <2>1 DEF h, k
  <2>10. n <= h + k
    BY <1>4, <2>5, <2>7, <2>8, <2>9
  <2>  QED
    BY <2>10 DEF h, k
<1>9. /\ one \in ClAcc
      /\ \A s \in S : /\ one.flags[s] = c.flags[s] + ClFlags(a.flags, s)
                      /\ one.tp[s] = c.tp[s] + ClHits(a.flags, s, diff)
  BY <1>5, <1>6, <1>7, ClScore
<1>  HIDE DEF one
<1>10. /\ both \in ClAcc
       /\ \A s \in S : /\ both.flags[s] = one.flags[s] + ClFlags(b.flags, s)
                       /\ both.tp[s] = one.tp[s] + ClHits(b.flags, s, diff)
  BY <1>6, <1>7, <1>9, ClScore
<1>  HIDE DEF both, n
<1>  DEFINE sum == [both EXCEPT !.diffs = @ + n]
<1>11. sum \in ClAcc /\ sum.flags = both.flags /\ sum.tp = both.tp
  BY <1>4, <1>10 DEF ClAcc
<1>  HIDE DEF sum
<1>12. ASSUME NEW s \in S
       PROVE  both.flags[s] = both.flags[lag] /\ both.tp[s] <= 2 * both.tp[lag]
  <2>1. c.flags[s] \in Nat /\ c.tp[s] \in Nat /\ c.flags[lag] \in Nat /\ c.tp[lag] \in Nat
    BY <1>5 DEF ClAcc
  <2>2. both.flags[s] = both.flags[lag]
    BY <1>5, <1>6, <1>9, <1>10, <2>1
  <2>  DEFINE ha == ClHits(a.flags, s, diff)
              hb == ClHits(b.flags, s, diff)
              la == ClHits(a.flags, lag, diff)
              lb == ClHits(b.flags, lag, diff)
  <2>3. /\ ha \in Nat /\ hb \in Nat /\ la \in Nat /\ lb \in Nat /\ n \in Nat
        /\ ha <= n /\ hb <= n /\ n <= la + lb
    BY <1>4, <1>5, <1>7, <1>8
  <2>4. both.tp[s] = (c.tp[s] + ha) + hb /\ both.tp[lag] = (c.tp[lag] + la) + lb
    BY <1>5, <1>9, <1>10
  <2>5. c.tp[s] <= 2 * c.tp[lag]
    BY <1>5
  <2>  DEFINE u == c.tp[s]
              v == c.tp[lag]
  <2>6. u \in Nat /\ v \in Nat /\ u <= 2 * v
    BY <2>1, <2>5
  <2>7. both.tp[s] = (u + ha) + hb /\ both.tp[lag] = (v + la) + lb
    BY <2>4
  <2>  HIDE DEF ha, hb, la, lb, u, v
  <2>8. (u + ha) + hb <= 2 * ((v + la) + lb)
    <3>1. \A x, y, p, q, w, z, m \in Nat :
            x <= 2 * w /\ y <= m /\ z <= m /\ m <= p + q => (x + y) + z <= 2 * ((w + p) + q)
      OBVIOUS
    <3>  QED
      BY <2>3, <2>6, <3>1
  <2>9. both.tp[s] <= 2 * both.tp[lag]
    BY <2>7, <2>8
  <2>  QED
    BY <2>2, <2>9
<1>13. ClCounts(sum)
  BY <1>11, <1>12 DEF ClCounts
<1>  QED
  BY <1>1, <1>13 DEF sum

------------------------------------------------------------------------------
(* C2 lag: a window scored, pair of reads by pair of reads.                 *)

\* The score of a set of pairs, from that of the set without one of them.
ClEntry(g, S) ==
  IF S = {} THEN acc
  ELSE LET t == CHOOSE t \in S : TRUE
       IN  Lag!Add(g[S \ {t}], reads[t[1]][t[3]], reads[t[2]][t[3]])
ClFold(D, g) == g = [S \in D |-> ClEntry(g, S)]

\* The fold over a finite set of pairs of reads has a value for each of its subsets.
LEMMA ClFoldExists ==
  ASSUME NEW P, IsFiniteSet(P)
  PROVE  \E g : ClFold(SUBSET P, g)
<1>  DEFINE D(n) == {S \in SUBSET P : Cardinality(S) <= n}
            I == {n \in Nat : ~ \E g : ClFold(D(n), g)}
<1>1. \A S \in SUBSET P : IsFiniteSet(S) /\ Cardinality(S) \in Nat /\ Cardinality(S) <= Cardinality(P)
  BY FS_Subset, FS_CardinalityType
<1>2. ASSUME I # {} PROVE FALSE
  <2>1. PICK m \in I : \A k \in I : m <= k
    BY <1>2, LeastNatural
  <2>2. m # 0
    <3>  DEFINE z == [S \in D(0) |-> acc]
    <3>1. ASSUME NEW S \in D(0) PROVE S = {}
      <4>1. IsFiniteSet(S) /\ Cardinality(S) = 0
        BY <1>1, <3>1
      <4>  QED
        BY <4>1, FS_EmptySet
    <3>2. ClFold(D(0), z)
      <4>  HIDE DEF D
      <4>1. z = [S \in D(0) |-> ClEntry(z, S)]
        BY <3>1 DEF ClEntry
      <4>  QED
        BY <4>1 DEF ClFold
    <3>  QED
      BY <2>1, <3>2
  <2>3. m - 1 \in Nat /\ m \in Nat
    BY <2>1, <2>2
  <2>4. PICK g : ClFold(D(m - 1), g)
    <3>1. ~ (m - 1 \in I)
      <4>  HIDE DEF I
      <4>  QED
        BY <2>1, <2>3
    <3>  HIDE DEF D
    <3>  QED
      BY <2>3, <3>1
  <2>  DEFINE h == [S \in D(m) |-> IF S \in D(m - 1) THEN g[S] ELSE ClEntry(g, S)]
  <2>5. ASSUME NEW S \in D(m) PROVE h[S] = ClEntry(h, S)
    <3>1. CASE S = {}
      <4>1. h[S] = acc
        <5>1. S \in D(m - 1) => g[S] = ClEntry(g, S)
          <6>  HIDE DEF D
          <6>  QED
            BY <2>4 DEF ClFold
        <5>  HIDE DEF D
        <5>  QED
          BY <3>1, <5>1 DEF ClEntry
      <4>  QED
        BY <3>1, <4>1 DEF ClEntry
    <3>2. CASE S # {}
      <4>  DEFINE t == CHOOSE t \in S : TRUE
                  R == S \ {t}
      <4>1. t \in S
        BY <3>2
      <4>  HIDE DEF t
      <4>2. R \in SUBSET P /\ Cardinality(R) = Cardinality(S) - 1
        BY <1>1, <4>1, FS_RemoveElement
      <4>3. R \in D(m - 1)
        BY <1>1, <2>3, <4>2
      <4>4. R \in D(m)
        BY <1>1, <2>3, <4>3
      <4>  HIDE DEF R, D
      <4>5. h[R] = g[R]
        BY <4>3, <4>4
      <4>6. h[S] = ClEntry(g, S)
        <5>1. S \in D(m - 1) => g[S] = ClEntry(g, S)
          BY <2>4 DEF ClFold
        <5>  QED
          BY <5>1
      <4>  HIDE DEF h
      <4>7. \A k : ClEntry(k, S) = Lag!Add(k[R], reads[t[1]][t[3]], reads[t[2]][t[3]])
        BY <3>2 DEF ClEntry, t, R
      <4>  QED
        BY <4>5, <4>6, <4>7
    <3>  QED
      BY <3>1, <3>2
  <2>6. ClFold(D(m), h)
    <3>1. h = [S \in D(m) |-> h[S]]
      OBVIOUS
    <3>  HIDE DEF h, D
    <3>2. [S \in D(m) |-> h[S]] = [S \in D(m) |-> ClEntry(h, S)]
      BY <2>5
    <3>  QED
      BY <3>1, <3>2 DEF ClFold
  <2>  QED
    BY <2>1, <2>6
<1>3. Cardinality(P) \in Nat
  BY <1>1
<1>4. PICK g : ClFold(D(Cardinality(P)), g)
  BY <1>2, <1>3
<1>5. D(Cardinality(P)) = SUBSET P
  BY <1>1
<1>  QED
  BY <1>4, <1>5

\* Whatever the order, what is counted keeps its shape.
LEMMA ClFolded ==
  ASSUME ClConstants, ClCounts(acc), NEW P, IsFiniteSet(P), NEW g, ClFold(SUBSET P, g),
         \A t \in P : ClRead(reads[t[1]][t[3]]) /\ ClRead(reads[t[2]][t[3]])
  PROVE  ClCounts(g[P])
<1>1. \A S \in SUBSET P : IsFiniteSet(S) /\ Cardinality(S) \in Nat
  BY FS_Subset, FS_CardinalityType
<1>2. \A S \in SUBSET P : g[S] = ClEntry(g, S)
  BY DEF ClFold
<1>  DEFINE Bad == {S \in SUBSET P : ~ ClCounts(g[S])}
            I == {Cardinality(S) : S \in Bad}
<1>3. ASSUME Bad # {} PROVE FALSE
  <2>1. I \in SUBSET Nat /\ I # {}
    BY <1>1, <1>3
  <2>2. PICK n \in I : \A k \in I : n <= k
    <3>  HIDE DEF I
    <3>  QED
      BY <2>1, LeastNatural
  <2>3. PICK S \in Bad : n = Cardinality(S)
    BY <2>2
  <2>4. S # {}
    <3>1. g[{}] = acc
      BY <1>2 DEF ClEntry
    <3>  QED
      BY <2>3, <3>1
  <2>  DEFINE t == CHOOSE t \in S : TRUE
              R == S \ {t}
  <2>5. t \in S /\ t \in P
    BY <2>3, <2>4
  <2>6. g[S] = Lag!Add(g[R], reads[t[1]][t[3]], reads[t[2]][t[3]])
    BY <1>2, <2>3, <2>4 DEF ClEntry
  <2>  HIDE DEF t
  <2>7. R \in SUBSET P /\ Cardinality(R) = n - 1 /\ n \in Nat
    BY <1>1, <2>3, <2>5, FS_RemoveElement
  <2>8. ~ (Cardinality(R) \in I)
    <3>  HIDE DEF R, I
    <3>  QED
      BY <2>2, <2>7
  <2>9. ClCounts(g[R])
    BY <2>7, <2>8
  <2>10. ClCounts(g[S])
    BY <2>5, <2>6, <2>9, ClAdd
  <2>  QED
    BY <2>3, <2>10
<1>4. P \in SUBSET P
  OBVIOUS
<1>  QED
  BY <1>3, <1>4

------------------------------------------------------------------------------
(* C2 lag: the verdict.                                                    *)

\* What is no more than twice as much is, rounded down, at most one more than that.
LEMMA ClRounded ==
  ASSUME NEW x \in Nat, NEW y \in Nat, NEW n \in Nat \ {0}, x <= 2 * y
  PROVE  x \div n \in Nat /\ y \div n \in Nat /\ x \div n <= 2 * (y \div n) + 1
<1>  DEFINE q == x \div n
            r == y \div n
<1>1. q \in Nat /\ r \in Nat /\ q * n <= x /\ y < r * n + n
  <2>1. x = (x \div n) * n + (x % n) /\ x % n \in 0 .. n - 1 /\ x \div n \in Nat
    OBVIOUS
  <2>2. y = (y \div n) * n + (y % n) /\ y % n \in 0 .. n - 1 /\ y \div n \in Nat
    OBVIOUS
  <2>3. x % n \in Nat /\ y % n \in Nat /\ y % n < n
    BY <2>1, <2>2
  <2>  DEFINE u == q * n
              v == r * n
  <2>4. u \in Nat /\ v \in Nat /\ x = u + (x % n) /\ y = v + (y % n)
    BY <2>1, <2>2
  <2>  DEFINE e == x % n
              d == y % n
  <2>5. x = u + e /\ y = v + d /\ e \in Nat /\ d \in Nat /\ d < n
    BY <2>3, <2>4
  <2>  HIDE DEF u, v, e, d
  <2>6. u <= x /\ y < v + n
    BY <2>4, <2>5
  <2>  QED
    BY <2>1, <2>2, <2>6 DEF u, v
<1>  HIDE DEF q, r
<1>2. ASSUME q >= 2 * r + 2 PROVE FALSE
  <2>1. PICK k \in Nat : q = 2 * r + 2 + k
    <3>1. q - (2 * r + 2) \in Nat /\ q = 2 * r + 2 + (q - (2 * r + 2))
      BY <1>1, <1>2
    <3>  QED
      BY <3>1
  <2>2. q * n = 2 * (r * n) + 2 * n + k * n
    BY <1>1, <2>1
  <2>3. k * n \in Nat /\ r * n \in Nat /\ q * n \in Nat
    BY <1>1, <2>1
  <2>  DEFINE u == q * n
              v == r * n
              w == k * n
  <2>4. /\ u = 2 * v + 2 * n + w /\ u \in Nat /\ v \in Nat /\ w \in Nat
        /\ u <= x /\ y < v + n
    BY <1>1, <2>2, <2>3
  <2>  HIDE DEF u, v, w
  <2>  QED
    BY <2>4
<1>3. q <= 2 * r + 1
  BY <1>1, <1>2
<1>  QED
  BY <1>1, <1>3 DEF q, r

\* No shift is more than about twice as precise as the drive's own lag.
LEMMA ClPrecision ==
  ASSUME ClConstants, NEW c, ClCounts(c), NEW s \in Lag!Shifts
  PROVE  /\ Lag!Precision(c, s) \in Nat /\ Lag!Precision(c, cl_drive.lag) \in Nat
         /\ Lag!Precision(c, s) <= 2 * Lag!Precision(c, cl_drive.lag) + 1
<1>  DEFINE lag == cl_drive.lag
            n == c.flags[s]
            x == c.tp[s]
            y == c.tp[lag]
<1>1. /\ n \in Nat /\ x \in Nat /\ y \in Nat /\ x <= 2 * y /\ c.flags[lag] = n
  BY DEF ClCounts, ClAcc, ClConstants
<1>2. /\ Lag!Precision(c, s) = IF n = 0 THEN 0 ELSE (x * 1000) \div n
      /\ Lag!Precision(c, lag) = IF n = 0 THEN 0 ELSE (y * 1000) \div n
  BY <1>1 DEF Lag!Precision
<1>  HIDE DEF n, x, y
<1>3. CASE n = 0
  <2>1. Lag!Precision(c, s) = 0 /\ Lag!Precision(c, lag) = 0
    BY <1>2, <1>3
  <2>  QED
    BY <2>1
<1>4. CASE n # 0
  <2>1. x * 1000 \in Nat /\ y * 1000 \in Nat /\ x * 1000 <= 2 * (y * 1000) /\ n \in Nat \ {0}
    BY <1>1, <1>4
  <2>2. /\ (x * 1000) \div n \in Nat /\ (y * 1000) \div n \in Nat
        /\ (x * 1000) \div n <= 2 * ((y * 1000) \div n) + 1
    BY <2>1, ClRounded
  <2>  QED
    BY <1>2, <1>4, <2>2
<1>  QED
  BY <1>3, <1>4

\* There is a best shift.
LEMMA ClPeak ==
  ASSUME ClConstants, NEW c, ClCounts(c)
  PROVE  Lag!Peak(c) \in Lag!Shifts
<1>  DEFINE S == Lag!Shifts
            p(s) == Lag!Precision(c, s)
            R == {p(s) : s \in S}
            b == 2 * p(cl_drive.lag) + 1
<1>1. /\ \A s \in S : p(s) \in Nat /\ p(s) <= b
      /\ cl_drive.lag \in S /\ p(cl_drive.lag) \in Nat
  BY ClPrecision DEF ClConstants
<1>2. MaxShift \in Nat /\ S = -MaxShift .. MaxShift
  BY ClNumbers
<1>3. b \in Nat
  BY <1>1
<1>  HIDE DEF p, S, b
<1>4. R \in SUBSET Nat /\ R # {} /\ \A x \in R : x <= b
  BY <1>1
<1>5. PICK m \in R : \A x \in R : x <= m
  <2>  HIDE DEF R
  <2>  QED
    BY <1>3, <1>4, GreatestNatural
<1>  DEFINE I == {s + MaxShift : s \in {t \in S : p(t) = m}}
<1>6. I \in SUBSET Nat /\ I # {}
  <2>1. \A s \in S : s + MaxShift \in Nat
    BY <1>2
  <2>2. \E s \in S : p(s) = m
    BY <1>5
  <2>  QED
    BY <2>1, <2>2
<1>7. PICK i \in I : \A k \in I : i <= k
  <2>  HIDE DEF I
  <2>  QED
    BY <1>6, LeastNatural
<1>8. PICK s \in S : p(s) = m /\ i = s + MaxShift
  BY <1>7
<1>9. \A t \in S : \/ p(t) < p(s)
                   \/ p(t) = p(s) /\ s <= t
  <2>1. ASSUME NEW t \in S PROVE p(t) < p(s) \/ (p(t) = p(s) /\ s <= t)
    <3>1. p(t) <= m /\ p(t) \in Nat /\ m \in Nat
      BY <1>1, <1>4, <1>5
    <3>2. ASSUME p(t) = m PROVE s <= t
      <4>1. t + MaxShift \in I
        BY <3>2
      <4>2. s + MaxShift <= t + MaxShift
        BY <1>7, <1>8, <4>1
      <4>3. s \in Int /\ t \in Int
        BY <1>2
      <4>  QED
        BY <1>2, <4>2, <4>3
    <3>  HIDE DEF I, R
    <3>  QED
      BY <1>8, <3>1, <3>2
  <2>  QED
    BY <2>1
<1>10. \E t \in Lag!Shifts : \A u \in Lag!Shifts :
          \/ Lag!Precision(c, u) < Lag!Precision(c, t)
          \/ Lag!Precision(c, u) = Lag!Precision(c, t) /\ t <= u
  BY <1>9, Zenon DEF p, S
<1>  QED
  BY <1>10, Zenon DEF Lag!Peak

\* A peak that is not the drive's lag is not high enough above it.
LEMMA ClConclusive ==
  ASSUME ClConstants, NEW c, ClCounts(c), Lag!Conclusive(c)
  PROVE  Lag!Peak(c) = cl_drive.lag
<1>  DEFINE best == Lag!Peak(c)
            lag == cl_drive.lag
            p(s) == Lag!Precision(c, s)
            R == {p(s) : s \in Lag!Shifts \ {best}} \cup {0}
            next == Lag!RunnerUp(c)
<1>1. best \in Lag!Shifts /\ lag \in Lag!Shifts
  BY ClPeak DEF ClConstants
<1>2. \A s \in Lag!Shifts : p(s) \in Nat /\ p(lag) \in Nat /\ p(s) <= 2 * p(lag) + 1
  BY ClPrecision
<1>3. p(best) >= MinPeak /\ p(best) >= MinContrast * next
  BY DEF Lag!Conclusive
<1>4. MinPeak \in Nat /\ MinPeak >= 4 /\ MinContrast \in Nat /\ MinContrast >= 3
  BY DEF ClConstants, Lag!LagAssumption
<1>5. next = CHOOSE m \in R : \A x \in R : x <= m
  BY DEF Lag!RunnerUp
<1>6. SUFFICES ASSUME best # lag PROVE FALSE
  OBVIOUS
<1>  HIDE DEF p, best, next
<1>7. R \in SUBSET Nat /\ R # {} /\ p(lag) \in R
  BY <1>1, <1>2, <1>6
<1>8. 2 * p(lag) + 1 \in Nat /\ \A x \in R : x <= 2 * p(lag) + 1
  BY <1>1, <1>2
<1>  DEFINE b == 2 * p(lag) + 1
<1>9. next \in R /\ \A x \in R : x <= next
  <2>  HIDE DEF R, b
  <2>1. b \in Nat /\ \A x \in R : x <= b
    BY <1>8 DEF b
  <2>2. \E m \in R : \A x \in R : x <= m
    BY <1>7, <2>1, GreatestNatural
  <2>  QED
    BY <1>5, <2>2, Zenon
<1>10. next \in Nat /\ p(lag) <= next
  <2>  HIDE DEF R
  <2>  QED
    BY <1>7, <1>9
<1>11. MinContrast * next >= 3 * next
  <2>1. PICK k \in Nat : MinContrast = 3 + k
    <3>1. MinContrast - 3 \in Nat /\ MinContrast = 3 + (MinContrast - 3)
      BY <1>4
    <3>  QED
      BY <3>1
  <2>2. MinContrast * next = 3 * next + k * next /\ k * next \in Nat
    BY <1>10, <2>1
  <2>  DEFINE u == k * next
              v == MinContrast * next
  <2>3. v = 3 * next + u /\ u \in Nat
    BY <2>2
  <2>  HIDE DEF u, v
  <2>4. v >= 3 * next
    BY <1>10, <2>3
  <2>  QED
    BY <2>4 DEF v
<1>  DEFINE x == p(best)
            y == p(lag)
            z == MinContrast * next
<1>12. x \in Nat /\ y \in Nat /\ x <= 2 * y + 1 /\ x >= MinPeak /\ x >= z /\ z >= 3 * next /\ y <= next
  BY <1>1, <1>2, <1>3, <1>10, <1>11
<1>13. z \in Int
  BY <1>4, <1>10
<1>  HIDE DEF x, y, z
<1>  QED
  BY <1>4, <1>10, <1>12, <1>13

------------------------------------------------------------------------------
(* C2 lag: the probe.                                                      *)

\* The damage is out of reach of the sector's edges.
ClInterior == \A s \in DOMAIN cl_drive.damage : cl_drive.damage[s] \subseteq ClInner

ClWindow == [lba : Nat, n : Int]
ClAt ==
  /\ cl_drive \in LagDrives /\ phase \in {"scan", "reread", "done"}
  /\ pos \in Nat /\ windows \in Seq(ClWindow) /\ IsSeq(reads)
  /\ phase = "scan" => reads = << >>
  /\ phase = "reread" => pos > 0

\* Of such damage, every read that is kept tells its shift, and so does what is counted.
ClEvidence ==
  /\ ClCounts(acc)
  /\ phase = "reread" /\ pos <= Len(windows) =>
       \A k \in 1 .. Len(reads) : reads[k] # << >> =>
         \A s \in Lag!Sectors(windows[pos]) : ClRead(reads[k][s])
  /\ verdict.rc = "ok" => verdict.lag = cl_drive.lag

ClIInv == ClAt /\ (ClInterior => ClEvidence)

\* What the module assumes of its constants is what these proofs need.
LEMMA ClConstantsHold == ASSUME Lag!LagAssumption, cl_drive \in LagDrives PROVE ClConstants
  BY DEF Lag!LagAssumption, Lag!IsDrive, Lag!Shifts, ClConstants

\* The invariant of the lag search holds at the start.
LEMMA ClInitInv == ASSUME Lag!LagAssumption, Lag!Init PROVE ClIInv
<1>1. /\ cl_drive \in LagDrives /\ phase = "scan" /\ pos = 0 /\ windows = << >> /\ reads = << >>
      /\ acc = Lag!NoEvidence /\ verdict = [rc |-> "none", lag |-> 0]
  BY DEF Lag!Init
<1>2. IsSeq(<< >>)
  <2>1. << >> \in Seq(Nat)
    OBVIOUS
  <2>  QED
    BY <2>1 DEF IsSeq
<1>3. ClAt
  BY <1>1, <1>2 DEF ClAt
<1>4. ClConstants
  BY <1>1, ClConstantsHold
<1>5. ClCounts(acc)
  <2>1. cl_drive.lag \in Lag!Shifts
    BY <1>4 DEF ClConstants
  <2>2. acc = [flags |-> [s \in Lag!Shifts |-> 0], tp |-> [s \in Lag!Shifts |-> 0], diffs |-> 0]
    BY <1>1 DEF Lag!NoEvidence
  <2>  QED
    BY <2>1, <2>2 DEF ClCounts, ClAcc
<1>6. ClEvidence
  BY <1>1, <1>5 DEF ClEvidence
<1>  QED
  BY <1>3, <1>6 DEF ClIInv

\* A chunk scanned is a window, or not.
LEMMA ClScanInv == ASSUME Lag!LagAssumption, ClIInv, Lag!Scan PROVE ClIInv'
<1>1. /\ phase = "scan" /\ pos' = pos + LagChunk
      /\ UNCHANGED <<cl_drive, phase, reads, acc, verdict>>
      /\ \/ windows' = Append(windows, [lba |-> pos, n |-> Lag!Length(pos)])
         \/ windows' = windows
  BY DEF Lag!Scan
<1>2. cl_drive \in LagDrives /\ pos \in Nat /\ windows \in Seq(ClWindow) /\ IsSeq(reads) /\ reads = << >>
  BY <1>1 DEF ClIInv, ClAt
<1>3. LagChunk \in Nat /\ cl_drive.span \in Nat
  BY <1>2 DEF Lag!LagAssumption, Lag!IsDrive
<1>4. Lag!Length(pos) \in Int
  BY <1>2, <1>3 DEF Lag!Length
<1>5. [lba |-> pos, n |-> Lag!Length(pos)] \in ClWindow
  BY <1>2, <1>4 DEF ClWindow
<1>6. windows' \in Seq(ClWindow)
  BY <1>1, <1>2, <1>5
<1>7. ClAt'
  BY <1>1, <1>2, <1>3, <1>6 DEF ClAt
<1>8. ClInterior' => ClEvidence'
  BY <1>1 DEF ClIInv, ClInterior, ClEvidence, ClCounts
<1>  QED
  BY <1>7, <1>8 DEF ClIInv

\* The end of the scan keeps the invariant.
LEMMA ClEndScanInv == ASSUME Lag!LagAssumption, ClIInv, Lag!EndScan PROVE ClIInv'
<1>1. /\ phase = "scan" /\ phase' \in {"reread", "done"} /\ pos' = 1
      /\ UNCHANGED <<cl_drive, windows, reads, acc>>
      /\ verdict' = verdict \/ verdict' = [rc |-> "notfound", lag |-> 0]
  BY DEF Lag!EndScan
<1>2. reads = << >> /\ cl_drive \in LagDrives /\ windows \in Seq(ClWindow) /\ IsSeq(reads)
  BY <1>1 DEF ClIInv, ClAt
<1>3. ClAt'
  BY <1>1, <1>2 DEF ClAt
<1>4. verdict'.rc = "ok" => verdict' = verdict
  BY <1>1
<1>5. \A k \in 1 .. Len(reads') : FALSE
  <2>1. Len(reads') = 0
    BY <1>1, <1>2
  <2>  QED
    BY <2>1
<1>6. ClInterior' => ClEvidence'
  BY <1>1, <1>4, <1>5 DEF ClIInv, ClInterior, ClEvidence, ClCounts
<1>  QED
  BY <1>3, <1>6 DEF ClIInv

\* What comes back of a window: its damage, or what of it is steady.
LEMMA ClRereadInv == ASSUME Lag!LagAssumption, ClIInv, Lag!Reread PROVE ClIInv'
<1>  DEFINE some(all, s) == IF all THEN Lag!Failing(s) ELSE Lag!Failing(s) \cap cl_drive.steady
            read(all) == [s \in Lag!Sectors(windows[pos]) |->
                            [failed |-> some(all, s), flags |-> Lag!Bitmap(some(all, s)),
                             steady |-> cl_drive.steady]]
<1>1. /\ phase = "reread" /\ pos <= Len(windows)
      /\ UNCHANGED <<cl_drive, phase, pos, windows, acc, verdict>>
  BY DEF Lag!Reread
<1>2. PICK ok \in BOOLEAN, all \in BOOLEAN : reads' = Append(reads, IF ~ok THEN << >> ELSE read(all))
  BY DEF Lag!Reread
<1>3. IsSeq(reads)
  BY DEF ClIInv, ClAt
<1>  DEFINE x == IF ~ok THEN << >> ELSE read(all)
<1>4. PICK n \in Nat : n = Len(reads)
  BY <1>3, Appended
<1>5. /\ IsSeq(reads') /\ Len(reads') = n + 1 /\ reads'[n + 1] = x
      /\ \A k \in 1 .. n : reads'[k] = reads[k]
  BY <1>2, <1>3, <1>4, Appended
<1>6. ClAt'
  BY <1>1, <1>5 DEF ClIInv, ClAt
<1>7. ASSUME ClInterior, x # << >>, NEW s \in Lag!Sectors(windows[pos]) PROVE ClRead(x[s])
  <2>1. some(all, s) \in SUBSET ClInner
    BY <1>7 DEF ClInterior, Lag!Failing
  <2>2. x = read(all)
    BY <1>7
  <2>  HIDE DEF x
  <2>3. x[s].failed = some(all, s) /\ x[s].flags = Lag!Bitmap(some(all, s))
    BY <2>2
  <2>  QED
    BY <2>1, <2>3 DEF ClRead
<1>  HIDE DEF x
<1>8. ASSUME ClInterior' PROVE ClEvidence'
  <2>1. ClInterior
    BY <1>1, <1>8 DEF ClInterior
  <2>2. ClEvidence
    BY <2>1 DEF ClIInv
  <2>3. ASSUME NEW k \in 1 .. n + 1, reads'[k] # << >>, NEW s \in Lag!Sectors(windows[pos])
        PROVE  ClRead(reads'[k][s])
    <3>1. CASE k = n + 1
      BY <1>5, <1>7, <2>1, <2>3, <3>1
    <3>2. CASE k # n + 1
      <4>1. k \in 1 .. Len(reads) /\ reads'[k] = reads[k]
        BY <1>4, <1>5, <3>2
      <4>  QED
        BY <1>1, <2>2, <2>3, <4>1 DEF ClEvidence
    <3>  QED
      BY <3>1, <3>2
  <2>5. Lag!Sectors(windows[pos])' = Lag!Sectors(windows[pos])
    BY <1>1 DEF Lag!Sectors, Lag!From
  <2>6. ClCounts(acc)' /\ (verdict'.rc = "ok" => verdict'.lag = cl_drive'.lag)
    BY <1>1, <2>2 DEF ClEvidence, ClCounts
  <2>7. \A k \in 1 .. Len(reads') : reads'[k] # << >> =>
           \A s \in Lag!Sectors(windows[pos])' : ClRead(reads'[k][s])
    BY <1>5, <2>3, <2>5
  <2>8. \A k \in 1 .. Len(reads') : reads'[k] # << >> =>
           \A s \in Lag!Sectors(windows[pos])' : ClRead(reads[k][s])'
    BY <1>1, <2>7 DEF ClRead, Lag!Bitmap
  <2>  QED
    BY <2>6, <2>8 DEF ClEvidence
<1>  QED
  BY <1>6, <1>8 DEF ClIInv

\* The pairs of reads of a window are finitely many.
LEMMA ClPairsFinite ==
  ASSUME NEW A, IsFiniteSet(A), NEW B, IsFiniteSet(B), NEW P \in SUBSET (A \X A \X B)
  PROVE  IsFiniteSet(P)
<1>  DEFINE T == (A \X A) \X B
            f == [t \in P |-> <<<<t[1], t[2]>>, t[3]>>]
<1>1. IsFiniteSet(T)
  <2>1. IsFiniteSet(A \X A)
    BY FS_Product
  <2>  QED
    BY <2>1, FS_Product
<1>2. f \in Injection(P, T)
  <2>1. f \in [P -> T]
    OBVIOUS
  <2>2. \A s, t \in P : f[s] = f[t] => s = t
    OBVIOUS
  <2>  HIDE DEF f, T
  <2>  QED
    BY <2>1, <2>2 DEF Injection, IsInjective
<1>  HIDE DEF f, T
<1>  QED
  BY <1>1, <1>2, FS_Injection

\* A window scored, and the next one begun.
LEMMA ClScoreWindowInv == ASSUME Lag!LagAssumption, ClIInv, Lag!ScoreWindow PROVE ClIInv'
<1>  DEFINE kept == {k \in DOMAIN reads : reads[k] # << >>}
            sect == Lag!Sectors(windows[pos])
            P == {t \in kept \X kept \X sect : t[1] < t[2]}
            f == CHOOSE g : g = [S \in SUBSET P |->
                   IF S = {} THEN acc
                   ELSE LET t == CHOOSE t \in S : TRUE
                        IN  Lag!Add(g[S \ {t}], reads[t[1]][t[3]], reads[t[2]][t[3]])]
<1>1. /\ phase = "reread" /\ pos <= Len(windows) /\ pos' = pos + 1 /\ reads' = << >>
      /\ UNCHANGED <<cl_drive, phase, windows, verdict>>
  BY DEF Lag!ScoreWindow
<1>2. acc' = f[P]
  BY DEF Lag!ScoreWindow
<1>3. /\ cl_drive \in LagDrives /\ pos \in Nat \ {0} /\ windows \in Seq(ClWindow) /\ IsSeq(reads)
  BY <1>1 DEF ClIInv, ClAt
<1>4. IsSeq(reads') /\ Len(reads') = 0
  <2>1. << >> \in Seq(Nat) /\ Len(<< >>) = 0
    OBVIOUS
  <2>  QED
    BY <1>1, <2>1 DEF IsSeq
<1>5. ClAt'
  BY <1>1, <1>3, <1>4 DEF ClAt
<1>6. DOMAIN reads = 1 .. Len(reads) /\ Len(reads) \in Nat
  BY <1>3 DEF IsSeq
<1>7. IsFiniteSet(P)
  <2>1. IsFiniteSet(1 .. Len(reads))
    BY <1>6, FS_Interval
  <2>2. IsFiniteSet(kept)
    <3>1. kept \in SUBSET (1 .. Len(reads))
      BY <1>6
    <3>  HIDE DEF kept
    <3>  QED
      BY <2>1, <3>1, FS_Subset
  <2>3. IsFiniteSet(sect)
    <3>1. windows[pos] \in ClWindow
      BY <1>1, <1>3
    <3>  DEFINE w == windows[pos]
                a == Lag!From(w)
                b == w.lba + w.n - 1
    <3>2. w.lba \in Nat /\ w.n \in Int /\ RunUp \in Nat
      BY <3>1 DEF ClWindow, Lag!LagAssumption
    <3>3. a \in Int /\ b \in Int
      BY <3>2 DEF Lag!From
    <3>4. sect = a .. b
      BY DEF Lag!Sectors
    <3>  HIDE DEF a, b, sect
    <3>  QED
      BY <3>3, <3>4, FS_Interval
  <2>4. P \in SUBSET (kept \X kept \X sect)
    OBVIOUS
  <2>  HIDE DEF P, kept, sect
  <2>  QED
    BY <2>2, <2>3, <2>4, ClPairsFinite
<1>8. ClFold(SUBSET P, f)
  <2>1. \E g : ClFold(SUBSET P, g)
    BY <1>7, ClFoldExists
  <2>  HIDE DEF P
  <2>  QED
    BY <2>1, Zenon DEF ClFold, ClEntry
<1>  HIDE DEF f
<1>9. ASSUME ClInterior' PROVE ClEvidence'
  <2>1. ClInterior
    BY <1>1, <1>9 DEF ClInterior
  <2>2. ClEvidence
    BY <2>1 DEF ClIInv
  <2>3. ASSUME NEW t \in P PROVE ClRead(reads[t[1]][t[3]]) /\ ClRead(reads[t[2]][t[3]])
    <3>1. t[1] \in kept /\ t[2] \in kept /\ t[3] \in sect
      OBVIOUS
    <3>2. \A k \in kept : k \in 1 .. Len(reads) /\ reads[k] # << >>
      BY <1>6
    <3>3. \A k \in 1 .. Len(reads) : reads[k] # << >> => \A s \in sect : ClRead(reads[k][s])
      BY <1>1, <2>2 DEF ClEvidence
    <3>  HIDE DEF kept, sect, P
    <3>  QED
      BY <3>1, <3>2, <3>3
  <2>4. ClConstants
    BY <1>3, ClConstantsHold
  <2>5. ClCounts(f[P])
    <3>  HIDE DEF P
    <3>1. ClCounts(acc)
      BY <2>2 DEF ClEvidence
    <3>  QED
      BY <1>7, <1>8, <2>3, <2>4, <3>1, ClFolded
  <2>  HIDE DEF P
  <2>6. ClCounts(acc)'
    BY <1>1, <1>2, <2>5 DEF ClCounts
  <2>7. verdict'.rc = "ok" => verdict'.lag = cl_drive'.lag
    BY <1>1, <2>2 DEF ClEvidence
  <2>8. \A k \in 1 .. Len(reads') : FALSE
    BY <1>4
  <2>  QED
    BY <2>6, <2>7, <2>8 DEF ClEvidence
<1>  QED
  BY <1>5, <1>9 DEF ClIInv

\* What is reported.
LEMMA ClConcludeInv == ASSUME Lag!LagAssumption, ClIInv, Lag!Conclude PROVE ClIInv'
<1>1. /\ phase = "reread" /\ phase' = "done" /\ UNCHANGED <<cl_drive, pos, windows, reads, acc>>
      /\ verdict' = [rc |-> IF Lag!Conclusive(acc) THEN "ok" ELSE "notfound", lag |-> Lag!Peak(acc)]
  BY DEF Lag!Conclude
<1>2. ClAt'
  BY <1>1 DEF ClIInv, ClAt
<1>3. ASSUME ClInterior' PROVE ClEvidence'
  <2>1. ClInterior
    BY <1>1, <1>3 DEF ClInterior
  <2>2. ClCounts(acc) /\ ClConstants
    BY <2>1, ClConstantsHold DEF ClIInv, ClEvidence, ClAt
  <2>3. verdict'.rc = "ok" => Lag!Conclusive(acc) /\ verdict'.lag = Lag!Peak(acc)
    BY <1>1
  <2>4. verdict'.rc = "ok" => verdict'.lag = cl_drive'.lag
    BY <1>1, <2>2, <2>3, ClConclusive
  <2>5. ClCounts(acc)'
    BY <1>1, <2>2 DEF ClCounts
  <2>  QED
    BY <1>1, <2>4, <2>5 DEF ClEvidence
<1>  QED
  BY <1>2, <1>3 DEF ClIInv

\* Every step of the lag search keeps the invariant.
LEMMA ClStepInv ==
  ASSUME Lag!LagAssumption, ClIInv, [Lag!Next]_(Lag!c2lag) PROVE ClIInv'
<1>1. CASE Lag!Scan
  BY <1>1, ClScanInv
<1>2. CASE Lag!EndScan
  BY <1>2, ClEndScanInv
<1>3. CASE Lag!Reread
  BY <1>3, ClRereadInv
<1>4. CASE Lag!ScoreWindow
  BY <1>4, ClScoreWindowInv
<1>5. CASE Lag!Conclude
  BY <1>5, ClConcludeInv
<1>6. CASE UNCHANGED Lag!c2lag
  <2>1. UNCHANGED <<cl_drive, phase, pos, windows, reads, acc, verdict>>
    BY <1>6 DEF Lag!c2lag
  <2>2. Lag!Sectors(windows[pos])' = Lag!Sectors(windows[pos])
    BY <2>1 DEF Lag!Sectors, Lag!From
  <2>  QED
    BY <2>1, <2>2 DEF ClIInv, ClAt, ClInterior, ClEvidence, ClCounts, ClRead, Lag!Bitmap
<1>  QED
  BY <1>1, <1>2, <1>3, <1>4, <1>5, <1>6 DEF Lag!Next, Lag!Concluded

\* The invariant implies the property, for damage away from the edges.
LEMMA ClIInvProperty == ASSUME ClIInv PROVE Lag!LagIsTrue
<1>1. (\A s \in DOMAIN cl_drive.damage :
         cl_drive.damage[s] \subseteq 2 * MaxShift .. SectorPairs - 1 - 2 * MaxShift) => ClInterior
  BY DEF ClInterior, ClInner
<1>  QED
  BY <1>1 DEF ClIInv, ClEvidence, Lag!LagIsTrue

------------------------------------------------------------------------------
(* The composition.                                                        *)

\* While one of the four runs, a step is one of its own.
LEMMA OwnStep ==
  ASSUME [MCNext]_<<subject, vars, regs>>
  PROVE  /\ subject' = subject
         /\ subject = "read_cd" => [Rcd!Next]_(Rcd!vars)
         /\ subject = "speeds" => [Spd!Next]_(Spd!ladder)
         /\ subject = "c2lag" => [Lag!Next]_(Lag!c2lag)
         /\ subject = "read_speed" => [Pace!Next]_(Pace!vars)
<1>1. CASE HandleStep(Next)
  BY <1>1 DEF HandleStep, regs, Spd!ladder, Lag!c2lag, Pace!vars
<1>2. CASE Turn("read_cd", Rcd!Next)
  BY <1>2 DEF Turn
<1>3. CASE Turn("speeds", Spd!Next)
  BY <1>3 DEF Turn
<1>4. CASE Turn("c2lag", Lag!Next)
  BY <1>4 DEF Turn
<1>5. CASE Turn("read_speed", Pace!Next)
  BY <1>5 DEF Turn
<1>6. CASE \E name \in {"verify", "params", "subchannel", "offset"} :
             subject = name /\ UNCHANGED subject
  BY <1>6
<1>7. CASE UNCHANGED <<subject, vars, regs>>
  BY <1>7 DEF regs, Spd!ladder, Lag!c2lag, Pace!vars
<1>  QED
  BY <1>1, <1>2, <1>3, <1>4, <1>5, <1>6, <1>7 DEF MCNext, Turn, Over

\* The invariants of the four, each of its own component's states.
DriveInv ==
  /\ subject = "read_cd" => CdIInv
  /\ subject = "speeds" => SpIInv
  /\ subject = "c2lag" => ClIInv
  /\ subject = "read_speed" => PaceIInv /\ PaceCounted

\* They hold throughout.
LEMMA SpecDriveInv == MCSpec => []DriveInv
<1>1. MCInit => DriveInv
  <2>1. ASSUME MCInit, subject = "read_cd" PROVE CdIInv
    BY <2>1, CdInitInv, DriveAssumption DEF MCInit
  <2>2. ASSUME MCInit, subject = "read_speed" PROVE PaceIInv /\ PaceCounted
    <3>1. Pace!Init
      BY <2>2 DEF MCInit
    <3>  QED
      BY <3>1, PaceInitInv, DriveAssumption DEF Pace!Init, PaceCounted
  <2>3. ASSUME MCInit, subject = "speeds" PROVE SpIInv
    <3>1. Spd!Init
      BY <2>3 DEF MCInit
    <3>  QED
      BY <3>1, SpInitInv, DriveAssumption
  <2>4. ASSUME MCInit, subject = "c2lag" PROVE ClIInv
    <3>1. Lag!Init
      BY <2>4 DEF MCInit
    <3>  QED
      BY <3>1, ClInitInv, DriveAssumption
  <2>  QED
    BY <2>1, <2>2, <2>3, <2>4 DEF DriveInv
<1>2. DriveInv /\ [MCNext]_<<subject, vars, regs>> => DriveInv'
  BY OwnStep, CdNextInv, SpStepInv, ClStepInv, PaceNextInv, PaceCountedStep, DriveAssumption
  DEF DriveInv
<1>  QED
  BY <1>1, <1>2, PTL DEF MCSpec

\* mmc.c: whatever collides or fails meanwhile, the order of combined records a handle
\* latches is the drive's, and it takes rounding to work only with a drive that does
\* not refuse it.  It gives rounding up only with one that does, unless errors other
\* than time-outs and the disc's may pass.
THEOREM SpecLearntIsTrue == MCSpec => []LearntIsTrue
<1>1. DriveInv => LearntIsTrue
  BY DEF DriveInv, CdIInv, CdLearnt, LearntIsTrue, Rcd!LatchIsTrue, Rcd!ProvenIsTrue,
         Rcd!TimeoutIsForgotten
<1>  QED
  BY <1>1, SpecDriveInv, PTL

\* mmc.c, layout.c: records are handed over in the standard's order and in place, as
\* far as the buffer shows, and one sector that nothing is wrong with is always read.
THEOREM SpecRecordsInPlace == MCSpec => []RecordsInPlace
<1>1. DriveInv => RecordsInPlace
  BY DEF DriveInv, CdIInv, RecordsInPlace
<1>  QED
  BY <1>1, SpecDriveInv, PTL

\* speeds.c: the windows of a probe lie apart and within its span, so that none is timed
\* from the drive's cache, and the ladder admits distinct speeds, the lowest of each.
THEOREM SpecWindowsAreFresh == MCSpec => []WindowsAreFresh
<1>1. DriveInv => WindowsAreFresh
  BY SpIInvProperties DEF DriveInv, WindowsAreFresh
<1>  QED
  BY <1>1, SpecDriveInv, PTL

\* c2lag.c: where damage lies inside its sectors, a lag that is reported is the drive's,
\* whatever flags stay on, wherever the damage is and however the two reads differ.
THEOREM SpecLagIsTrue == MCSpec => []LagIsTrue
<1>1. DriveInv => LagIsTrue
  BY ClIInvProperty DEF DriveInv, LagIsTrue
<1>  QED
  BY <1>1, SpecDriveInv, PTL

\* engine.c's pairing of ladder_speed and ladder_restore: chunks, anchors and witnesses
\* stream at the pass speed, every reread runs at its rung, and a read that is not cut
\* short leaves the drive as accudisc.h says.
THEOREM SpecPassSpeedKept == MCSpec => []PassSpeedKept
<1>1. DriveInv => PassSpeedKept
  BY DEF DriveInv, PaceIInv, PassSpeedKept
<1>  QED
  BY <1>1, SpecDriveInv, PTL

------------------------------------------------------------------------------
(* Whose step it is.                                                       *)

\* The component that runs never changes, and what steps is that component.
LEMMA WhoseStep ==
  ASSUME [MCNext]_<<subject, vars, regs>>
  PROVE  /\ subject' = subject
         /\ subject = "params" => [Wpr!Next]_(Wpr!vars)
         /\ subject = "verify" => [Vfy!Next]_(Vfy!vars)
         /\ subject = "subchannel" => [Sub!Next]_(Sub!vars)
         /\ subject = "offset" => [Wof!Next]_(Wof!vars)
<1>1. CASE UNCHANGED <<subject, vars, regs>>
  BY <1>1 DEF regs, Wpr!vars, Vfy!vars, Vfy!disc, Sub!vars, Wof!vars
<1>2. CASE MCNext
  <2>1. CASE HandleStep(Next)
    BY <2>1 DEF HandleStep
  <2>2. CASE \E name \in {"read_cd", "speeds", "c2lag", "read_speed"} :
               subject = name /\ UNCHANGED subject
    BY <2>2
  <2>3. CASE Turn("params", Wpr!Next)
    BY <2>3 DEF Turn
  <2>4. CASE Turn("verify", Vfy!Next)
    BY <2>4 DEF Turn
  <2>5. CASE Turn("subchannel", Sub!Next)
    BY <2>5 DEF Turn
  <2>6. CASE Turn("offset", Wof!Next)
    BY <2>6 DEF Turn
  <2>7. CASE Over
    BY <1>1, <2>7 DEF Over
  <2>  QED
    BY <1>2, <2>1, <2>2, <2>3, <2>4, <2>5, <2>6, <2>7 DEF MCNext, Turn
<1>  QED
  BY <1>1, <1>2

------------------------------------------------------------------------------
(* Write parameters (WriteParams): what the drive was sent, and what it did. *)

\* WriteParams' variables by name.
held == r1
claim == r2
use == r3
want == r4
wp_pc == r5
rt == r6
first == r7
answers == r8
bad == r9
history == r10

\* What the invariant needs of the variables' types.
WpSorts ==
  /\ held = [f \in Wpr!PageFields |-> held[f]]
  /\ rt = [before |-> rt.before, sent |-> rt.sent, after |-> rt.after]
  /\ IsSeq(history) /\ IsSeq(answers) /\ \A i \in 1 .. Len(answers) : answers[i] \in 0 .. 2
  /\ use \in {"probe", "burn"}
  /\ wp_pc \in {"program", "selected", "failed", "trip_done", "restored", "not_restored",
                "drifted", "checked"}
  /\ use = "burn" => answers = << >> /\ wp_pc \in {"program", "selected", "failed", "drifted", "checked"}
  /\ use = "probe" => wp_pc \notin {"drifted", "checked"}

\* The probe: a round trip that answers 0 leaves one entry in the drive's history,
\* of a page applied as it was sent and other than what was held.
AllHeld == \A i \in 1 .. Len(answers) : answers[i] = 0
WpApplied ==
  use = "probe" /\ AllHeld =>
    /\ Len(history) = Len(answers) + IF wp_pc \in {"selected", "restored"} THEN 1 ELSE 0
    /\ \A i \in 1 .. Len(answers) :
         history[i].to = history[i].sent /\ history[i].to # history[i].from

\* The last entry is of the select being read back.
WpLast ==
  use = "probe" /\ wp_pc = "selected" =>
    /\ Len(history) >= 1
    /\ history[Len(history)].from = rt.before
    /\ history[Len(history)].to = held
    /\ history[Len(history)].sent = rt.sent

\* The page found is what the probe's first capture is, wherever there is one, and
\* what is put back is that page.
Origin == IF Len(history) = 0 THEN held ELSE history[1].from
WpOrigin ==
  use = "probe" =>
    /\ Len(answers) = 0 /\ wp_pc # "selected" => Len(history) = 0 /\ wp_pc \in {"program", "failed"}
    /\ Len(answers) = 0 /\ wp_pc \in {"selected", "failed"} /\ rt.before # Wpr!None => rt.before = Origin
    /\ Len(answers) > 0 /\ first.before # Wpr!None => first.before = Origin
    /\ wp_pc = "restored" =>
         Len(history) >= 1 /\ first.before = Origin /\ history[Len(history)].sent = first.before

\* The burn: what was sent is what was asked, until it is compared.
WpSent ==
  use = "burn" /\ wp_pc \in {"selected", "drifted", "checked"} =>
    /\ rt.sent.type = Wpr!SAO /\ rt.sent.multi = 0 /\ rt.sent.format = 0
    /\ rt.sent.test = want.simulate
    /\ wp_pc = "checked" => bad = {f \in Wpr!BurnFields : rt.sent[f] # held[f]}

WpIInv == WpSorts /\ WpApplied /\ WpLast /\ WpOrigin /\ WpSent

USE DEF held, claim, use, want, wp_pc, rt, first, answers, bad, history
USE DEF Wpr!vars

\* Before the first select nothing has been done.
LEMMA WpInitInv == ASSUME Wpr!PagesAssumption, Wpr!Init PROVE WpIInv
<1>1. answers = << >> /\ history = << >> /\ wp_pc = "program" /\ rt = Wpr!NoTrip
  BY DEF Wpr!Init
<1>2. Len(answers) = 0 /\ Len(history) = 0 /\ IsSeq(answers) /\ IsSeq(history)
  <2>1. << >> \in Seq({})
    OBVIOUS
  <2>  QED
    BY <1>1, <2>1 DEF IsSeq
<1>3. WpSorts
  <2>1. held = [f \in Wpr!PageFields |-> held[f]]
    BY DEF Wpr!Init, Wpr!PagesAssumption
  <2>2. use \in {"probe", "burn"}
    BY DEF Wpr!Init
  <2>3. rt = [before |-> rt.before, sent |-> rt.sent, after |-> rt.after]
    BY <1>1 DEF Wpr!NoTrip
  <2>  QED
    BY <1>1, <1>2, <2>1, <2>2, <2>3 DEF WpSorts
<1>4. WpApplied /\ WpLast /\ WpSent /\ WpOrigin
  BY <1>1, <1>2 DEF WpApplied, WpLast, WpSent, WpOrigin, Origin
<1>  QED
  BY <1>3, <1>4 DEF WpIInv

\* What is sent has the burn's fields, whatever is held.
LEMMA WpSentPage ==
  ASSUME WpSorts, NEW page, page = Wpr!Programmed(held, want) \/ page = Wpr!WithoutPW
  PROVE  page.type = Wpr!SAO /\ page.multi = 0 /\ page.format = 0 /\ page.test = want.simulate
<1>1. DOMAIN held = Wpr!PageFields
  BY DEF WpSorts
<1>2. {"type", "test", "bufe", "multi", "block", "format", "rest"} = DOMAIN held
  BY <1>1 DEF Wpr!PageFields
<1>  DEFINE p == Wpr!Programmed(held, want)
<1>3. /\ p.type = Wpr!SAO /\ p.multi = 0 /\ p.format = 0 /\ p.test = want.simulate
      /\ DOMAIN p = DOMAIN held
  BY <1>2 DEF Wpr!Programmed
<1>4. CASE page = p
  BY <1>3, <1>4
<1>5. CASE page = Wpr!WithoutPW
  <2>1. page = [p EXCEPT !.block = 0]
    BY <1>5 DEF Wpr!WithoutPW
  <2>  HIDE DEF p
  <2>  QED
    BY <1>2, <1>3, <2>1
<1>  QED
  BY <1>4, <1>5

\* A page is a mix of two, field by field.
LEMMA WpMixed ==
  ASSUME WpSorts, NEW page, held' \in Wpr!Mixed(held, page)
  PROVE  held' = [f \in Wpr!PageFields |-> held'[f]]
<1>1. DOMAIN held = Wpr!PageFields
  BY DEF WpSorts
<1>2. PICK taken \in SUBSET DOMAIN held :
        held' = [f \in DOMAIN held |-> IF f \in taken THEN page[f] ELSE held[f]]
  BY DEF Wpr!Mixed
<1>  QED
  BY <1>1, <1>2

\* A select that the drive accepts.
LEMMA WpSelectInv ==
  ASSUME WpIInv, wp_pc = "program", NEW page,
         page = Wpr!Programmed(held, want) \/ page = Wpr!WithoutPW,
         Wpr!Accepted(page), rt' = Wpr!Trip(page), wp_pc' = "selected",
         UNCHANGED <<claim, use, want, first, answers, bad>>
  PROVE  WpIInv'
<1>  USE DEF WpIInv
<1>  DEFINE entry == [from |-> held, to |-> held', sent |-> page]
            n     == Len(history)
<1>1. history' = Append(history, entry) /\ held' = [f \in Wpr!PageFields |-> held'[f]]
  BY WpMixed DEF Wpr!Accepted
<1>2. /\ IsSeq(history') /\ n \in Nat /\ Len(history') = n + 1 /\ history'[n + 1] = entry
      /\ \A i \in 1 .. n : history'[i] = history[i]
  BY <1>1, Appended DEF WpSorts
<1>3. Len(answers) \in Nat
  BY Appended DEF WpSorts
<1>4. rt'.before = held /\ rt'.sent = page /\ rt' = [before |-> held, sent |-> page, after |-> Wpr!None]
  BY DEF Wpr!Trip
<1>5. entry.from = held /\ entry.to = held' /\ entry.sent = page
  OBVIOUS
<1>  HIDE DEF entry, n
<1>6. WpSorts'
  BY <1>1, <1>2, <1>4 DEF WpSorts
<1>7. WpApplied'
  <2>  SUFFICES ASSUME use = "probe", AllHeld
                PROVE  /\ Len(history') = Len(answers) + 1
                       /\ \A i \in 1 .. Len(answers) :
                            history'[i].to = history'[i].sent /\ history'[i].to # history'[i].from
    BY DEF WpApplied, AllHeld
  <2>1. n = Len(answers)
    BY <1>3 DEF WpApplied, n
  <2>  QED
    BY <1>2, <2>1 DEF WpApplied
<1>8. WpLast'
  BY <1>2, <1>4, <1>5 DEF WpLast
<1>9. WpOrigin'
  <2>  SUFFICES ASSUME use = "probe" PROVE WpOrigin'
    BY DEF WpOrigin
  <2>1. Origin' = Origin
    <3>1. Origin' = history'[1].from
      BY <1>2 DEF Origin
    <3>2. CASE n = 0
      BY <1>2, <1>5, <3>1, <3>2 DEF Origin, n
    <3>3. CASE n # 0
      <4>1. 1 \in 1 .. n
        BY <1>2, <3>3
      <4>  QED
        BY <1>2, <3>1, <3>3, <4>1 DEF Origin, n
    <3>  QED
      BY <3>2, <3>3
  <2>2. Len(answers) = 0 => rt'.before = Origin
    BY <1>4 DEF WpOrigin, Origin
  <2>  QED
    BY <2>1, <2>2 DEF WpOrigin
<1>10. WpSent'
  BY <1>4, WpSentPage DEF WpSent
<1>  QED
  BY <1>6, <1>7, <1>8, <1>9, <1>10

\* A select that fails, or is not tried, changes nothing.
LEMMA WpRefusedInv ==
  ASSUME WpIInv, Wpr!ProgramRefused \/ Wpr!SenseFails
  PROVE  WpIInv'
<1>  USE DEF WpIInv
<1>1. /\ wp_pc = "program" /\ wp_pc' = "failed"
      /\ UNCHANGED <<held, claim, use, want, first, answers, bad, history>>
  BY DEF Wpr!ProgramRefused, Wpr!SenseFails, Wpr!Programmable
<1>2. /\ rt' = [before |-> rt'.before, sent |-> rt'.sent, after |-> rt'.after]
      /\ rt'.before = held \/ rt'.before = Wpr!None
  <2>1. CASE Wpr!SenseFails
    BY <2>1 DEF Wpr!SenseFails, Wpr!NoTrip
  <2>2. CASE Wpr!ProgramRefused
    <3>1. PICK page : rt' = Wpr!Trip(page)
      BY <2>2 DEF Wpr!ProgramRefused
    <3>  QED
      BY <3>1 DEF Wpr!Trip
  <2>  QED
    BY <2>1, <2>2
<1>3. WpSorts'
  BY <1>1, <1>2 DEF WpSorts
<1>4. WpApplied' /\ WpLast' /\ WpSent'
  BY <1>1 DEF WpApplied, AllHeld, WpLast, WpSent
<1>5. WpOrigin'
  BY <1>1, <1>2 DEF WpOrigin, Origin
<1>  QED
  BY <1>3, <1>4, <1>5

\* The end of a round trip: an answer of 0 is of a select applied as it was sent.
LEMMA WpReadInv ==
  ASSUME WpIInv, Wpr!ReadBack \/ Wpr!ReadBackFails
  PROVE  WpIInv'
<1>  USE DEF WpIInv
<1>1. /\ use = "probe" /\ wp_pc \in {"selected", "failed"} /\ wp_pc' = "trip_done"
      /\ UNCHANGED <<held, claim, use, want, bad, history>>
  BY DEF Wpr!ReadBack, Wpr!ReadBackFails, Wpr!EndTrip
<1>2. PICK code \in 0 .. 2 :
        /\ answers' = Append(answers, code)
        /\ code = 0 => wp_pc = "selected" /\ rt.sent = held /\ rt.before # rt.sent
  <2>1. CASE Wpr!ReadBackFails
    BY <2>1 DEF Wpr!ReadBackFails, Wpr!EndTrip
  <2>2. CASE Wpr!ReadBack
    <3>1. rt' = [rt EXCEPT !.after = held] /\ answers' = Append(answers, Wpr!Verdict(rt')) /\ wp_pc = "selected"
      BY <2>2 DEF Wpr!ReadBack, Wpr!EndTrip
    <3>2. rt'.after = held /\ rt'.sent = rt.sent /\ rt'.before = rt.before
      BY <3>1 DEF WpSorts
    <3>3. Wpr!Verdict(rt') \in 0 .. 2
      BY DEF Wpr!Verdict
    <3>4. Wpr!Verdict(rt') = 0 => rt'.after = rt'.sent /\ rt'.before # rt'.sent
      BY DEF Wpr!Verdict, Wpr!Changed
    <3>  QED
      BY <3>1, <3>2, <3>3, <3>4
  <2>  QED
    BY <2>1, <2>2
<1>3. /\ rt' = [before |-> rt'.before, sent |-> rt'.sent, after |-> rt'.after]
      /\ rt'.before = rt.before /\ rt'.sent = rt.sent
  <2>1. rt' = rt \/ rt' = [rt EXCEPT !.after = held]
    BY DEF Wpr!ReadBack, Wpr!ReadBackFails
  <2>  QED
    BY <2>1 DEF WpSorts
<1>4. first' = IF answers = << >> THEN rt' ELSE first
  BY DEF Wpr!ReadBack, Wpr!ReadBackFails, Wpr!EndTrip
<1>  DEFINE n == Len(answers)
<1>5. /\ IsSeq(answers') /\ n \in Nat /\ Len(answers') = n + 1 /\ answers'[n + 1] = code
      /\ \A i \in 1 .. n : answers'[i] = answers[i]
  BY <1>2, Appended DEF WpSorts
<1>6. Len(history) \in Nat /\ (n = 0 <=> answers = << >>)
  <2>1. Len(history) \in Nat
    BY Appended DEF WpSorts
  <2>2. PICK V : answers \in Seq(V)
    BY DEF WpSorts, IsSeq
  <2>  QED
    BY <2>1, <2>2
<1>  HIDE DEF n
<1>7. WpSorts'
  <2>1. \A i \in 1 .. n + 1 : answers'[i] \in 0 .. 2
    BY <1>2, <1>5 DEF WpSorts, n
  <2>  QED
    BY <1>1, <1>3, <1>5, <2>1 DEF WpSorts
<1>8. WpApplied'
  <2>  SUFFICES ASSUME AllHeld'
                PROVE  /\ Len(history) = n + 1
                       /\ \A i \in 1 .. n + 1 :
                            history[i].to = history[i].sent /\ history[i].to # history[i].from
    BY <1>1, <1>5 DEF WpApplied
  <2>1. AllHeld /\ code = 0
    BY <1>5 DEF AllHeld, n
  <2>2. Len(history) = n + 1
    BY <1>1, <1>2, <2>1 DEF WpApplied, n
  <2>3. history[n + 1].to = history[n + 1].sent /\ history[n + 1].to # history[n + 1].from
    BY <1>1, <1>2, <2>1, <2>2 DEF WpLast
  <2>4. \A i \in 1 .. n : history[i].to = history[i].sent /\ history[i].to # history[i].from
    BY <1>1, <2>1 DEF WpApplied, n
  <2>  QED
    BY <1>5, <2>2, <2>3, <2>4
<1>9. WpLast' /\ WpSent'
  BY <1>1 DEF WpLast, WpSent
<1>10. WpOrigin'
  <2>1. Origin' = Origin
    BY <1>1 DEF Origin
  <2>2. CASE n = 0
    <3>1. first'.before = rt.before
      BY <1>3, <1>4, <1>6, <2>2
    <3>  QED
      BY <1>1, <1>5, <2>1, <2>2, <3>1 DEF WpOrigin, n
  <2>3. CASE n # 0
    <3>1. first' = first /\ n > 0
      BY <1>4, <1>5, <1>6, <2>3
    <3>  QED
      BY <1>1, <1>5, <2>1, <3>1 DEF WpOrigin, n
  <2>  QED
    BY <2>2, <2>3
<1>  QED
  BY <1>7, <1>8, <1>9, <1>10

\* What follows the round trips: the second, and putting back what was found.
LEMMA WpAfterInv ==
  ASSUME WpIInv, Wpr!SecondTrip \/ Wpr!Restore \/ Wpr!RestoreFails
  PROVE  WpIInv'
<1>  USE DEF WpIInv
<1>1. wp_pc = "trip_done" /\ use = "probe" /\ Len(answers) \in {1, 2}
  BY DEF Wpr!SecondTrip, Wpr!Restore, Wpr!RestoreFails, Wpr!RestoreNeeded, WpSorts
<1>2. CASE Wpr!SecondTrip
  <2>1. wp_pc' = "program" /\ UNCHANGED <<held, claim, use, rt, first, answers, bad, history>>
    BY <1>2 DEF Wpr!SecondTrip
  <2>  QED
    BY <1>1, <2>1 DEF WpSorts, WpApplied, AllHeld, WpLast, WpOrigin, Origin, WpSent
<1>3. CASE Wpr!RestoreFails
  <2>1. wp_pc' = "not_restored" /\ UNCHANGED <<held, claim, use, want, rt, first, answers, bad, history>>
    BY <1>3 DEF Wpr!RestoreFails
  <2>  QED
    BY <1>1, <2>1 DEF WpSorts, WpApplied, AllHeld, WpLast, WpOrigin, Origin, WpSent
<1>4. CASE Wpr!Restore
  <2>  DEFINE page  == Wpr!Returned
              entry == [from |-> held, to |-> held', sent |-> page]
              n     == Len(history)
  <2>1. /\ first.before # Wpr!None /\ page = first.before /\ wp_pc' = "restored"
        /\ UNCHANGED <<claim, use, want, rt, first, answers, bad>>
    BY <1>4 DEF Wpr!Restore, Wpr!RestoreNeeded, Wpr!Returned
  <2>2. history' = Append(history, entry) /\ held' = [f \in Wpr!PageFields |-> held'[f]]
    BY <1>4, WpMixed DEF Wpr!Restore, Wpr!Accepted
  <2>3. /\ IsSeq(history') /\ n \in Nat /\ Len(history') = n + 1 /\ history'[n + 1] = entry
        /\ \A i \in 1 .. n : history'[i] = history[i]
    BY <2>2, Appended DEF WpSorts
  <2>4. entry.from = held /\ entry.sent = page
    OBVIOUS
  <2>  HIDE DEF page, entry, n
  <2>5. WpSorts'
    BY <1>1, <2>1, <2>2, <2>3 DEF WpSorts
  <2>6. WpApplied'
    <3>  SUFFICES ASSUME AllHeld
                  PROVE  /\ Len(history') = Len(answers) + 1
                         /\ \A i \in 1 .. Len(answers) :
                              history'[i].to = history'[i].sent /\ history'[i].to # history'[i].from
      BY <1>1, <2>1 DEF WpApplied, AllHeld
    <3>1. n = Len(answers)
      BY <1>1 DEF WpApplied, n
    <3>  QED
      BY <1>1, <2>3, <3>1 DEF WpApplied
  <2>7. WpLast' /\ WpSent'
    BY <1>1, <2>1 DEF WpLast, WpSent
  <2>8. Origin' = Origin
    <3>1. Origin' = history'[1].from
      BY <2>3 DEF Origin
    <3>2. CASE n = 0
      BY <2>3, <2>4, <3>1, <3>2 DEF Origin, n
    <3>3. CASE n # 0
      <4>1. 1 \in 1 .. n
        BY <2>3, <3>3
      <4>  QED
        BY <2>3, <3>1, <3>3, <4>1 DEF Origin, n
    <3>  QED
      BY <3>2, <3>3
  <2>9. WpOrigin'
    BY <1>1, <2>1, <2>3, <2>4, <2>8 DEF WpOrigin
  <2>  QED
    BY <2>5, <2>6, <2>7, <2>9
<1>  QED
  BY <1>2, <1>3, <1>4

\* The burn: whatever the drive does with the page, the check looks at what it holds.
LEMMA WpBurnInv ==
  ASSUME Wpr!PagesAssumption, WpIInv, Wpr!Drift \/ Wpr!CheckParams
  PROVE  WpIInv'
<1>  USE DEF WpIInv
<1>1. CASE Wpr!Drift
  <2>1. /\ use = "burn" /\ wp_pc' = "drifted" /\ wp_pc = "selected"
        /\ UNCHANGED <<claim, use, want, rt, first, answers, bad, history>>
        /\ held' = [f \in Wpr!PageFields |-> held'[f]]
    BY <1>1, WpMixed DEF Wpr!Drift
  <2>  QED
    BY <2>1 DEF WpSorts, WpApplied, WpLast, WpOrigin, WpSent
<1>2. CASE Wpr!CheckParams
  <2>1. /\ use = "burn" /\ wp_pc' = "checked" /\ wp_pc \in {"selected", "drifted"}
        /\ bad' = {f \in Wpr!BurnFields : rt.sent[f] # held[f]}
        /\ UNCHANGED <<held, claim, use, want, rt, first, answers, history>>
    BY <1>2 DEF Wpr!CheckParams
  <2>  QED
    BY <2>1 DEF WpSorts, WpApplied, WpLast, WpOrigin, WpSent
<1>  QED
  BY <1>1, <1>2

\* Every step of a round trip keeps the invariant.
LEMMA WpStepInv ==
  ASSUME Wpr!PagesAssumption, WpIInv, [Wpr!Next]_(Wpr!vars)
  PROVE  WpIInv'
<1>1. CASE UNCHANGED Wpr!vars
  BY <1>1 DEF WpIInv, WpSorts, WpApplied, AllHeld, WpLast, WpOrigin, Origin, WpSent
<1>2. CASE Wpr!Program
  BY <1>2, WpSelectInv DEF Wpr!Program, Wpr!Programmable
<1>3. CASE Wpr!ProgramWithoutPW
  BY <1>3, WpSelectInv DEF Wpr!ProgramWithoutPW, Wpr!Programmable
<1>4. CASE Wpr!ProgramRefused \/ Wpr!SenseFails
  BY <1>4, WpRefusedInv
<1>5. CASE Wpr!ReadBack \/ Wpr!ReadBackFails
  BY <1>5, WpReadInv
<1>6. CASE Wpr!SecondTrip \/ Wpr!Restore \/ Wpr!RestoreFails
  BY <1>6, WpAfterInv
<1>7. CASE Wpr!Drift \/ Wpr!CheckParams
  BY <1>7, WpBurnInv
<1>  QED
  BY <1>1, <1>2, <1>3, <1>4, <1>5, <1>6, <1>7 DEF Wpr!Next

\* The invariant says what the properties say.
LEMMA WpIInvProperties ==
  ASSUME WpIInv
  PROVE  Wpr!HeldMeansApplied /\ Wpr!RestoreIsPop /\ Wpr!CheckedIsTheBurn
<1>  USE DEF WpIInv
<1>1. Wpr!HeldMeansApplied
  <2>  SUFFICES ASSUME Len(answers) = 2, Wpr!Probed = 0, NEW i \in 1 .. 2
                PROVE  history[i].to = history[i].sent /\ history[i].to # history[i].from
    BY DEF Wpr!HeldMeansApplied
  <2>1. use = "probe"
    BY DEF WpSorts
  <2>2. DOMAIN answers = 1 .. 2
    <3>1. PICK V : answers \in Seq(V)
      BY DEF WpSorts, IsSeq
    <3>  QED
      BY <3>1
  <2>3. ASSUME NEW j \in 1 .. 2 PROVE answers[j] = 0
    <3>1. answers[j] \notin {1, 2}
      BY <2>2 DEF Wpr!Probed
    <3>2. answers[j] \in 0 .. 2
      BY DEF WpSorts
    <3>  QED
      BY <3>1, <3>2
  <2>  QED
    BY <2>1, <2>3 DEF WpApplied, AllHeld
<1>2. Wpr!RestoreIsPop
  <2>  SUFFICES ASSUME wp_pc = "restored", held = history[Len(history)].sent
                PROVE  held = history[1].from
    BY DEF Wpr!RestoreIsPop
  <2>1. use = "probe"
    BY DEF WpSorts
  <2>2. Len(history) >= 1 /\ Len(history) \in Nat
    BY <2>1, Appended DEF WpOrigin, WpSorts
  <2>  QED
    BY <2>1, <2>2 DEF WpOrigin, Origin
<1>3. Wpr!CheckedIsTheBurn
  <2>  SUFFICES ASSUME wp_pc = "checked", bad = {}
                PROVE  /\ held.test = want.simulate /\ held.type = Wpr!SAO
                       /\ held.multi = 0 /\ held.format = 0
    BY DEF Wpr!CheckedIsTheBurn
  <2>1. use = "burn"
    BY DEF WpSorts
  <2>2. \A f \in Wpr!BurnFields : rt.sent[f] = held[f]
    BY <2>1 DEF WpSent
  <2>3. {"type", "test", "multi", "format"} \subseteq Wpr!BurnFields
    BY DEF Wpr!BurnFields
  <2>  QED
    BY <2>1, <2>2, <2>3 DEF WpSent
<1>  QED
  BY <1>1, <1>2, <1>3

\* WriteParams: a page said to be held is the page the drive applied, the probe puts
\* back what it found, and a burn that passes the check is the burn asked for: for
\* every page, and a drive that applies any fields of what it is sent.
THEOREM SpecPageIsWhatWasAsked == MCSpec => []PageIsWhatWasAsked
<1>  DEFINE Inv == subject = "params" => WpIInv
<1>1. MCInit => Inv
  BY DriveAssumption, WpInitInv DEF MCInit, DriveAssumption
<1>2. Inv /\ [MCNext]_<<subject, vars, regs>> => Inv'
  BY DriveAssumption, WhoseStep, WpStepInv DEF DriveAssumption
<1>3. Inv => PageIsWhatWasAsked
  BY WpIInvProperties DEF PageIsWhatWasAsked
<1>  QED
  BY <1>1, <1>2, <1>3, PTL DEF MCSpec

------------------------------------------------------------------------------
(* Pregaps (Subchannel): what a scan says of a boundary.                   *)

\* Subchannel's variables by name.
disc == r1
opts == r2
speed == r3
q_prior == r4
track == r5
maps == r6
q_pc == r7
code == r8

USE DEF disc, opts, speed, q_prior, track, maps, q_pc, code
USE DEF Sub!vars

\* The instance's least and greatest are the ones above.
LEMMA SubMinMax == \A I : Sub!Min(I) = Min(I) /\ Sub!Max(I) = Max(I)
  BY Zenon DEF Sub!Min, Sub!Max, Min, Max

\* Of two integers.
LEMMA TwoIntegers ==
  ASSUME NEW a \in Int, NEW b \in Int
  PROVE  /\ Sub!Max({a, b}) = IF a < b THEN b ELSE a
         /\ Sub!Min({a, b}) = IF a < b THEN a ELSE b
<1>  DEFINE I    == {a, b}
            high == IF a < b THEN b ELSE a
            low  == IF a < b THEN a ELSE b
<1>1. I \in SUBSET Int /\ I # {} /\ \A k \in I : low <= k /\ k <= high
  OBVIOUS
<1>2. high \in I /\ low \in I /\ high \in Int /\ low \in Int
  OBVIOUS
<1>  HIDE DEF I, high, low
<1>3. Min(I) \in I /\ \A k \in I : Min(I) <= k
  BY <1>1, <1>2, LeastInteger
<1>4. Max(I) \in I /\ \A k \in I : Max(I) >= k
  BY <1>1, <1>2, GreatestInteger
<1>5. Min(I) \in Int /\ Max(I) \in Int
  BY <1>1, <1>3, <1>4, Zenon
<1>6. low <= Min(I) /\ Min(I) <= low /\ Max(I) <= high
  BY <1>1, <1>2, <1>3, <1>4, Zenon
<1>7. Max(I) >= high
  BY <1>2, <1>4, Zenon
<1>8. Min(I) = low /\ Max(I) = high
  <2>  HIDE DEF I
  <2>  QED
    BY <1>2, <1>5, <1>6, <1>7
<1>  QED
  BY <1>8, SubMinMax DEF I, high, low

\* The disc's tracks, and where each begins.
LEMMA SubTracks ==
  ASSUME Sub!IsDisc(disc), NEW k \in DOMAIN disc.starts
  PROVE  /\ disc.starts[k] \in Nat /\ disc.gaps[k] \in Nat /\ disc.gaps[k] <= disc.starts[k]
         /\ k \in Nat \ {0} /\ DOMAIN disc.starts = 1 .. Len(disc.starts) /\ Len(disc.starts) \in Nat
<1>1. disc.starts \in Seq(Nat) /\ disc.gaps \in [DOMAIN disc.starts -> Nat]
  BY DEF Sub!IsDisc
<1>2. DOMAIN disc.starts = 1 .. Len(disc.starts) /\ Len(disc.starts) \in Nat /\ disc.starts[k] \in Nat
  BY <1>1
<1>3. disc.gaps[k] \in Nat
  BY <1>1
<1>4. disc.gaps[k] <= disc.starts[k]
  BY DEF Sub!IsDisc
<1>  QED
  BY <1>2, <1>3, <1>4

\* A track owns its pregap and its first sector, and nothing before them.
LEMMA SubOwner ==
  ASSUME Sub!IsDisc(disc), NEW k \in DOMAIN disc.starts, NEW p \in Int
  PROVE  /\ Sub!Owner(p) = k => disc.starts[k] - disc.gaps[k] <= p
         /\ disc.starts[k] - disc.gaps[k] <= p /\ p <= disc.starts[k] => Sub!Owner(p) = k
<1>  DEFINE own == {i \in DOMAIN disc.starts : disc.starts[i] - disc.gaps[i] <= p}
            I   == {0} \cup own
            n   == Len(disc.starts)
<1>1. DOMAIN disc.starts = 1 .. n /\ n \in Nat /\ k \in Nat \ {0}
  BY SubTracks
<1>2. I \in SUBSET Int /\ I # {} /\ (\A i \in I : i <= n) /\ n \in Int
  BY <1>1
<1>3. Max(I) \in I /\ \A i \in I : Max(I) >= i
  <2>  HIDE DEF I, n
  <2>  QED
    BY <1>2, GreatestInteger
<1>4. Sub!Owner(p) = Max(I)
  BY SubMinMax DEF Sub!Owner
<1>5. ASSUME Sub!Owner(p) = k PROVE disc.starts[k] - disc.gaps[k] <= p
  <2>1. k \in own
    BY <1>1, <1>3, <1>4, <1>5
  <2>  QED
    BY <2>1
<1>6. ASSUME disc.starts[k] - disc.gaps[k] <= p, p <= disc.starts[k] PROVE Sub!Owner(p) = k
  <2>1. k \in I
    BY <1>6
  <2>2. ASSUME NEW i \in own PROVE i <= k
    <3>1. disc.starts[i] - disc.gaps[i] <= p /\ i \in DOMAIN disc.starts
      BY <2>2
    <3>2. k < i => disc.starts[k] < disc.starts[i] - disc.gaps[i]
      BY <3>1 DEF Sub!IsDisc
    <3>3. i \in Int /\ disc.starts[i] \in Int /\ disc.gaps[i] \in Int /\ disc.starts[k] \in Int
      BY <3>1, SubTracks
    <3>  QED
      BY <1>1, <1>6, <3>1, <3>2, <3>3
  <2>3. \A i \in I : i <= k
    BY <1>1, <2>2
  <2>  HIDE DEF I
  <2>4. Max(I) >= k /\ Max(I) <= k /\ Max(I) \in Int
    BY <1>2, <1>3, <2>1, <2>3
  <2>  QED
    BY <1>1, <1>4, <2>4
<1>  QED
  BY <1>5, <1>6

\* What a frame tells: nothing of a condemned one, no position of a code.
LEMMA SubFrame ==
  ASSUME NEW p \in Int
  PROVE  /\ Sub!Q(p).crc_ok <=> p \notin disc.bad
         /\ p \notin disc.bad => Sub!Q(p).at = Sub!Position(p)
         /\ p \notin disc.bad => (Sub!Q(p).adr = "code" <=> p \in disc.codes)
         /\ p \notin disc.bad => (Sub!Q(p).adr = "position" <=> p \notin disc.codes)
<1>1. CASE p \in disc.bad
  BY <1>1 DEF Sub!Q
<1>2. CASE p \notin disc.bad
  BY <1>2 DEF Sub!Q
<1>  QED
  BY <1>1, <1>2

\* Where it says it is.
LEMMA SubPosition ==
  ASSUME Sub!IsDisc(disc), NEW k \in DOMAIN disc.starts, NEW p \in Int
  PROVE  /\ Sub!Position(p).tno = Sub!Owner(p)
         /\ Sub!Owner(p) = k => /\ Sub!Position(p).index = IF p < disc.starts[k] THEN 0 ELSE 1
                                /\ p < disc.starts[k] => Sub!Position(p).rel = disc.starts[k] - p
<1>1. k > 0
  BY SubTracks
<1>2. Sub!Position(p).tno = Sub!Owner(p)
  BY DEF Sub!Position
<1>3. CASE Sub!Owner(p) = k
  BY <1>1, <1>2, <1>3 DEF Sub!Position
<1>  QED
  BY <1>2, <1>3

\* What is known of one boundary.
Honest(m, k) ==
  LET L == disc.starts[k]
      g == disc.gaps[k]
  IN  /\ m.state = "none" => g <= Sub!Codes(L)
      /\ m.state = "present" =>
           /\ m.frames \in 1 .. g
           /\ L - g \notin disc.bad \cup disc.codes /\ g <= opts.window /\ g <= ScanFrames => m.frames = g
      /\ m.q_index1 \in {-1, L}

\* Q of the frames right before a boundary: no pregap is hidden behind more codes than
\* stand there.
LEMMA SubCodes ==
  ASSUME Sub!IsDisc(disc), NEW k \in DOMAIN disc.starts, NEW t \in Int,
         t < disc.starts[k], 0 <= t, t \notin disc.codes \ disc.bad,
         \A p \in t + 1 .. disc.starts[k] - 1 : p \in disc.codes \ disc.bad
  PROVE  Sub!Codes(disc.starts[k]) = disc.starts[k] - 1 - t
<1>  DEFINE L == disc.starts[k]
            I == {c \in 0 .. L : L - 1 - c \notin disc.codes \ disc.bad}
            c == L - 1 - t
<1>1. L \in Nat
  BY SubTracks
<1>2. c \in 0 .. L /\ L - 1 - c = t
  BY <1>1
<1>3. c \in I
  BY <1>2
<1>4. \A d \in I : c <= d
  <2>1. ASSUME NEW d \in I, d < c PROVE FALSE
    <3>1. d \in 0 .. L /\ L - 1 - d \notin disc.codes \ disc.bad
      BY <2>1
    <3>2. L - 1 - d \in t + 1 .. L - 1
      BY <1>1, <2>1, <3>1
    <3>  QED
      BY <3>1, <3>2
  <2>2. \A d \in I : d \in Int
    BY <1>1
  <2>  QED
    BY <1>1, <1>2, <2>1, <2>2
<1>5. I \in SUBSET Int /\ \A d \in I : 0 <= d
  BY <1>1
<1>6. Sub!Codes(L) = Min(I)
  BY SubMinMax DEF Sub!Codes
<1>  HIDE DEF I, c
<1>7. Min(I) \in I /\ \A d \in I : Min(I) <= d
  BY <1>3, <1>5, LeastInteger
<1>8. Min(I) <= c /\ c <= Min(I) /\ Min(I) \in Int /\ c \in Int
  BY <1>3, <1>4, <1>5, <1>7, Zenon
<1>9. Min(I) = c
  BY <1>8
<1>  QED
  BY <1>6, <1>9 DEF c

\* The frames a boundary's map is decoded from.
LEMMA SubSeen ==
  ASSUME Sub!IsDisc(disc), NEW k \in DOMAIN disc.starts, NEW lo \in Int, NEW hi \in Int,
         hi <= disc.starts[k], NEW p
  PROVE  /\ p \in Sub!Seen(k, lo, hi) =>
              /\ p \in lo .. hi /\ p \notin disc.bad \cup disc.codes
              /\ disc.starts[k] - disc.gaps[k] <= p
              /\ Sub!Q(p).at.index = IF p < disc.starts[k] THEN 0 ELSE 1
              /\ p < disc.starts[k] => Sub!Q(p).at.rel = disc.starts[k] - p
         /\ /\ p \in lo .. hi /\ p \notin disc.bad \cup disc.codes
            /\ disc.starts[k] - disc.gaps[k] <= p
            => p \in Sub!Seen(k, lo, hi)
<1>1. disc.starts[k] \in Int
  BY SubTracks
<1>2. ASSUME p \in Sub!Seen(k, lo, hi)
      PROVE  /\ p \in lo .. hi /\ p \notin disc.bad \cup disc.codes
             /\ disc.starts[k] - disc.gaps[k] <= p
             /\ Sub!Q(p).at.index = IF p < disc.starts[k] THEN 0 ELSE 1
             /\ p < disc.starts[k] => Sub!Q(p).at.rel = disc.starts[k] - p
  <2>1. p \in lo .. hi /\ Sub!Q(p).crc_ok /\ Sub!Q(p).adr = "position" /\ Sub!Q(p).at.tno = k
    BY <1>2 DEF Sub!Seen
  <2>2. p \in Int
    BY <2>1
  <2>3. p \notin disc.bad \cup disc.codes /\ Sub!Q(p).at = Sub!Position(p)
    BY <2>1, <2>2, SubFrame
  <2>4. Sub!Owner(p) = k
    BY <2>1, <2>2, <2>3, SubPosition
  <2>  QED
    BY <2>1, <2>2, <2>3, <2>4, SubOwner, SubPosition
<1>3. ASSUME p \in lo .. hi, p \notin disc.bad \cup disc.codes,
             disc.starts[k] - disc.gaps[k] <= p
      PROVE  p \in Sub!Seen(k, lo, hi)
  <2>1. p \in Int /\ p <= disc.starts[k]
    BY <1>1, <1>3
  <2>2. Sub!Owner(p) = k
    BY <1>3, <2>1, SubOwner
  <2>3. Sub!Q(p).crc_ok /\ Sub!Q(p).adr = "position" /\ Sub!Q(p).at = Sub!Position(p)
    BY <1>3, <2>1, SubFrame
  <2>4. Sub!Position(p).tno = k
    BY <2>1, <2>2, SubPosition
  <2>  QED
    BY <1>3, <2>3, <2>4 DEF Sub!Seen
<1>  QED
  BY <1>2, <1>3

\* What is decoded of a boundary is honest: the frames of the pregap that were read
\* decide, and where there are none the frame that damage would have hidden.
LEMMA SubDecodeHonest ==
  ASSUME Sub!IsDisc(disc), opts.window \in Nat, opts.tail \in Nat, ScanFrames \in Nat,
         NEW k \in DOMAIN disc.starts, NEW base,
         base = IF disc.starts[k] > opts.window THEN disc.starts[k] - opts.window ELSE 0
  PROVE  Honest(Sub!Decode(k, base, disc.starts[k] + opts.tail), k)
<1>  DEFINE L      == disc.starts[k]
            g      == disc.gaps[k]
            end    == L + opts.tail
            lo     == Sub!Max({base, L - ScanFrames})
            hi     == Sub!Min({L, end - 1})
            seen   == Sub!Seen(k, lo, hi)
            index0 == {p \in seen : p < L /\ Sub!Q(p).at.index = 0}
            index1 == {p \in seen : Sub!Q(p).at.index = 1}
            rels   == {0} \cup {Sub!Q(p).at.rel : p \in index0}
            rel    == Sub!Max(rels)
            first1 == IF index1 = {} THEN -1 ELSE Sub!Min(index1)
            dirty  == Sub!Cardinality({p \in Sub!Max({lo, L - CleanFrames}) .. L - 1 : ~Sub!Q(p).crc_ok})
            found  == [Sub!NoMap(k) EXCEPT !.q_index1 = first1, !.crc_bad = dirty]
            told   == {p \in lo .. L - 1 : ~(Sub!Q(p).crc_ok /\ Sub!Q(p).adr = "code")}
            m      == Sub!Decode(k, base, end)
<1>1. m = IF base > L - 1 \/ end <= L - 1 THEN Sub!NoMap(k)
          ELSE IF rel > 0 THEN [found EXCEPT !.state = "present", !.frames = rel]
          ELSE [found EXCEPT !.state = Sub!Verdict(lo, L)]
  BY DEF Sub!Decode
<1>2. L \in Nat /\ g \in Nat /\ g <= L
  BY SubTracks
<1>3. base \in Nat /\ base <= L /\ end \in Nat /\ (base = 0 \/ base = L - opts.window)
  BY <1>2
<1>4. /\ lo \in Int /\ hi \in Int /\ hi <= L /\ 0 <= lo
      /\ lo = base \/ lo = L - ScanFrames
      /\ ~(end <= L - 1) => L - 1 <= hi
  <2>1. L - ScanFrames \in Int /\ end - 1 \in Int
    BY <1>2, <1>3
  <2>2. lo = IF base < L - ScanFrames THEN L - ScanFrames ELSE base
    BY <1>3, <2>1, TwoIntegers
  <2>3. hi = IF L < end - 1 THEN L ELSE end - 1
    <3>1. L \in Int
      BY <1>2
    <3>  HIDE DEF L, end
    <3>  QED
      BY <2>1, <3>1, TwoIntegers
  <2>  HIDE DEF lo, hi, end
  <2>  QED
    BY <1>2, <1>3, <2>1, <2>2, <2>3
<1>  HIDE DEF lo, hi, m, dirty
<1>5. \A p : p \in seen =>
        /\ p \in lo .. hi /\ p \notin disc.bad \cup disc.codes /\ L - g <= p
        /\ Sub!Q(p).at.index = IF p < L THEN 0 ELSE 1
        /\ p < L => Sub!Q(p).at.rel = L - p
  BY <1>4, SubSeen
<1>6. \A p : p \in lo .. hi /\ p \notin disc.bad \cup disc.codes /\ L - g <= p => p \in seen
  BY <1>4, SubSeen
<1>7. first1 \in {-1, L}
  <2>1. \A p \in index1 : p = L
    <3>1. ASSUME NEW p \in index1 PROVE p = L
      <4>1. p \in seen /\ Sub!Q(p).at.index = 1
        BY <3>1
      <4>2. p \in Int /\ p <= hi /\ ~(p < L)
        BY <1>4, <1>5, <4>1
      <4>  HIDE DEF L
      <4>  QED
        BY <1>2, <1>4, <4>2
    <3>  QED
      BY <3>1
  <2>2. CASE index1 = {}
    BY <2>2
  <2>3. CASE index1 # {}
    <3>1. index1 \in SUBSET Int /\ \A p \in index1 : 0 <= p
      <4>  HIDE DEF index1
      <4>  QED
        BY <1>2, <2>1
    <3>  HIDE DEF index1
    <3>2. Min(index1) \in index1
      BY <2>3, <3>1, LeastInteger
    <3>3. Min(index1) = L
      BY <2>1, <3>2
    <3>  QED
      BY <2>3, <3>3, SubMinMax
  <2>  QED
    BY <2>2, <2>3
<1>8. /\ rel \in Nat
      /\ \A p \in index0 : L - p <= rel
      /\ rel > 0 => \E p \in index0 : rel = L - p
  <2>1. \A p \in index0 : p \in Int /\ L - g <= p /\ p < L /\ Sub!Q(p).at.rel = L - p
    BY <1>4, <1>5
  <2>2. rels \in SUBSET Nat /\ rels # {} /\ \A r \in rels : r <= g
    <3>1. \A p \in index0 : Sub!Q(p).at.rel \in Nat /\ Sub!Q(p).at.rel <= g
      BY <1>2, <2>1
    <3>  HIDE DEF index0, g
    <3>2. 0 \in rels
      OBVIOUS
    <3>3. \A r \in rels : r \in Nat /\ r <= g
      BY <1>2, <3>1
    <3>  QED
      BY <3>2, <3>3
  <2>3. Max(rels) \in rels /\ \A r \in rels : Max(rels) >= r
    <3>1. rels \in SUBSET Int /\ g \in Int
      BY <1>2, <2>2
    <3>  HIDE DEF rels, g
    <3>  QED
      BY <2>2, <3>1, GreatestInteger
  <2>4. rel = Max(rels)
    BY SubMinMax
  <2>5. rel \in rels /\ rel \in Nat
    BY <2>2, <2>3, <2>4
  <2>6. \A p \in index0 : L - p <= rel
    <3>1. ASSUME NEW p \in index0 PROVE L - p <= rel
      <4>1. Sub!Q(p).at.rel \in rels /\ Sub!Q(p).at.rel = L - p /\ L - p \in Int
        BY <1>2, <2>1
      <4>2. Max(rels) >= L - p
        BY <2>3, <4>1
      <4>  HIDE DEF rel, rels, L
      <4>  QED
        BY <2>4, <2>5, <4>1, <4>2
    <3>  QED
      BY <3>1
  <2>7. ASSUME rel > 0 PROVE \E p \in index0 : rel = L - p
    <3>1. rel # 0
      <4>  HIDE DEF rel
      <4>  QED
        BY <2>5, <2>7
    <3>2. PICK p \in index0 : rel = Sub!Q(p).at.rel
      BY <2>5, <3>1
    <3>  QED
      BY <2>1, <3>2
  <2>  QED
    BY <2>5, <2>6, <2>7
<1>  HIDE DEF seen, index0, index1, rel, rels, first1
<1>9. CASE base > L - 1 \/ end <= L - 1
  <2>1. m.state = "no_data" /\ m.q_index1 = -1
    BY <1>1, <1>9 DEF Sub!NoMap
  <2>  QED
    BY <2>1 DEF Honest, m, end, L
<1>10. CASE ~(base > L - 1 \/ end <= L - 1) /\ rel > 0
  <2>1. m.state = "present" /\ m.frames = rel /\ m.q_index1 = first1
    BY <1>1, <1>10 DEF Sub!NoMap
  <2>2. rel \in 1 .. g
    <3>1. PICK p \in index0 : rel = L - p
      BY <1>8, <1>10
    <3>2. p \in seen
      BY <3>1 DEF index0
    <3>3. p \in Int /\ L - g <= p
      BY <1>4, <1>5, <3>2
    <3>  HIDE DEF L, g
    <3>  QED
      BY <1>2, <1>8, <1>10, <3>1, <3>3
  <2>3. ASSUME L - g \notin disc.bad \cup disc.codes, g <= opts.window, g <= ScanFrames
        PROVE  rel = g
    <3>1. 0 < g
      <4>  HIDE DEF g
      <4>  QED
        BY <1>2, <2>2
    <3>2. L - g \in lo .. hi /\ L - g < L /\ L - g <= L - g /\ L - g \in Int
      <4>1. lo <= L - g
        <5>1. L - opts.window <= L - g /\ L - ScanFrames <= L - g /\ 0 <= L - g
          BY <1>2, <2>3
        <5>  QED
          BY <1>3, <1>4, <5>1
      <4>  HIDE DEF L, g, end
      <4>  QED
        BY <1>2, <1>4, <1>10, <3>1, <4>1
    <3>3. L - g \in seen
      BY <1>6, <2>3, <3>2
    <3>4. L - g \in index0
      BY <1>5, <3>2, <3>3 DEF index0
    <3>5. L - (L - g) <= rel
      BY <1>8, <3>4
    <3>  HIDE DEF L, g
    <3>  QED
      BY <1>2, <2>2, <3>5
  <2>  QED
    BY <1>7, <2>1, <2>2, <2>3 DEF Honest, m, end, L, g
<1>11. CASE ~(base > L - 1 \/ end <= L - 1) /\ ~(rel > 0)
  <2>1. m.state = Sub!Verdict(lo, L) /\ m.q_index1 = first1
    BY <1>1, <1>11 DEF Sub!NoMap
  <2>2. ASSUME m.state = "none" PROVE g <= Sub!Codes(L)
    <3>1. told # {} /\ Sub!Q(Sub!Max(told)).crc_ok
      BY <2>1, <2>2 DEF Sub!Verdict
    <3>  DEFINE t == Max(told)
    <3>2. told \in SUBSET Int /\ (\A p \in told : p <= L) /\ L \in Int
      BY <1>2, <1>4
    <3>3. t \in told /\ \A p \in told : t >= p
      <4>  HIDE DEF told, L
      <4>  QED
        BY <3>1, <3>2, GreatestInteger
    <3>4. t \in lo .. L - 1 /\ t \in Int /\ Sub!Q(t).crc_ok /\ Sub!Q(t).adr # "code"
      BY <1>2, <1>4, <3>1, <3>3, SubMinMax
    <3>5. t \notin disc.bad /\ t \notin disc.codes
      BY <3>4, SubFrame
    <3>6. \A p \in t + 1 .. L - 1 : p \in disc.codes \ disc.bad
      <4>1. ASSUME NEW p \in t + 1 .. L - 1 PROVE p \in disc.codes \ disc.bad
        <5>  HIDE DEF t
        <5>1. p \in lo .. L - 1 /\ p \in Int /\ ~(t >= p)
          BY <1>2, <1>4, <3>4, <4>1
        <5>2. Sub!Q(p).crc_ok /\ Sub!Q(p).adr = "code"
          BY <3>3, <5>1
        <5>  QED
          BY <5>1, <5>2, SubFrame
      <4>  QED
        BY <4>1
    <3>  HIDE DEF t, told
    <3>7. t < L /\ 0 <= t
      BY <1>2, <1>4, <3>4
    <3>8. Sub!Codes(L) = L - 1 - t
      BY <3>4, <3>5, <3>6, <3>7, SubCodes
    <3>9. ASSUME L - g <= t PROVE FALSE
      <4>1. t \in lo .. hi
        <5>  HIDE DEF L, end
        <5>  QED
          BY <1>2, <1>4, <1>11, <3>4
      <4>2. t \in seen
        BY <1>6, <3>5, <3>9, <4>1
      <4>3. t \in index0
        BY <1>5, <3>7, <4>2 DEF index0
      <4>4. L - t <= rel
        BY <1>8, <4>3
      <4>  HIDE DEF L
      <4>  QED
        BY <1>2, <1>8, <1>11, <3>4, <3>7, <4>4
    <3>  HIDE DEF L, g
    <3>  QED
      BY <1>2, <3>4, <3>8, <3>9
  <2>3. m.state # "present"
    BY <2>1 DEF Sub!Verdict
  <2>  QED
    BY <1>7, <2>1, <2>2, <2>3 DEF Honest, m, end, L, g
<1>  QED
  BY <1>9, <1>10, <1>11

\* Every boundary read so far, in order.
SubIInv ==
  /\ Sub!IsDisc(disc) /\ opts.window \in Nat /\ opts.tail \in Nat
  /\ IsSeq(maps) /\ Len(maps) <= Len(disc.starts)
  /\ q_pc = "called" => maps = << >>
  /\ q_pc = "scan" => track = Len(maps) + 1
  /\ \A k \in 1 .. Len(maps) : Honest(maps[k], k)

\* The invariant of the pregap scan holds at the start.
LEMMA SubInitInv == ASSUME Sub!ScanAssumption, Sub!Init PROVE SubIInv
<1>1. Sub!IsDisc(disc) /\ opts.window \in Nat /\ opts.tail \in Nat
  BY DEF Sub!Init, Sub!ScanAssumption
<1>2. maps = << >> /\ q_pc = "called"
  BY DEF Sub!Init
<1>3. << >> \in Seq({}) /\ Len(disc.starts) \in Nat
  BY <1>1 DEF Sub!IsDisc
<1>  QED
  BY <1>1, <1>2, <1>3 DEF SubIInv, IsSeq

\* Every step of the pregap scan keeps the invariant.
LEMMA SubStepInv ==
  ASSUME Sub!ScanAssumption, SubIInv, [Sub!Next]_(Sub!vars)
  PROVE  SubIInv'
<1>  USE DEF SubIInv
<1>1. Len(maps) \in Nat /\ DOMAIN disc.starts = 1 .. Len(disc.starts) /\ Len(disc.starts) \in Nat
  BY Appended DEF Sub!IsDisc
<1>2. ASSUME UNCHANGED <<disc, opts, maps>>, q_pc' = "called" => q_pc = "called",
             q_pc' = "scan" => track' = Len(maps) + 1
      PROVE  SubIInv'
  BY <1>2 DEF Sub!IsDisc, Honest, Sub!Codes
<1>3. CASE UNCHANGED Sub!vars
  BY <1>2, <1>3
<1>4. CASE Sub!Begin
  BY <1>2, <1>4 DEF Sub!Begin
<1>5. CASE Sub!Leave \/ Sub!ScanCode
  BY <1>2, <1>5 DEF Sub!Leave, Sub!ScanCode
<1>6. CASE Sub!ReadBoundary
  <2>  DEFINE L    == disc.starts[track]
              base == IF L > opts.window THEN L - opts.window ELSE 0
              m    == Sub!Decode(track, base, L + opts.tail)
  <2>1. /\ q_pc = "scan" /\ track <= Len(disc.starts) /\ maps' = Append(maps, m)
        /\ track' = track + 1 /\ UNCHANGED <<disc, opts, speed, q_prior, q_pc, code>>
    BY <1>6 DEF Sub!ReadBoundary
  <2>2. track = Len(maps) + 1 /\ track \in DOMAIN disc.starts
    BY <1>1, <2>1
  <2>3. Honest(m, track)
    BY <2>2, SubDecodeHonest DEF Sub!ScanAssumption
  <2>  HIDE DEF m
  <2>4. /\ IsSeq(maps') /\ Len(maps') = Len(maps) + 1 /\ maps'[Len(maps) + 1] = m
        /\ \A i \in 1 .. Len(maps) : maps'[i] = maps[i]
    BY <2>1, Appended
  <2>5. \A k \in 1 .. Len(maps') : Honest(maps'[k], k)
    BY <1>1, <2>2, <2>3, <2>4
  <2>6. (\A k \in 1 .. Len(maps) : Honest(maps[k], k))'
    BY <2>1, <2>5 DEF Honest, Sub!Codes
  <2>  QED
    BY <1>1, <2>1, <2>2, <2>4, <2>6 DEF Sub!IsDisc
<1>  QED
  BY <1>3, <1>4, <1>5, <1>6 DEF Sub!Next

\* The invariant implies the property.
LEMMA SubIInvProperty == SubIInv => Sub!NothingGuessed
<1>1. ASSUME SubIInv PROVE DOMAIN maps = 1 .. Len(maps)
  BY <1>1 DEF SubIInv, IsSeq
<1>  QED
  BY <1>1 DEF SubIInv, Honest, Sub!NothingGuessed

\* Subchannel: no pregap is guessed into or out of existence at a damaged boundary, on
\* every disc and for every window.
THEOREM SpecNothingGuessed == MCSpec => []NothingGuessed
<1>  DEFINE Inv == subject = "subchannel" => SubIInv
<1>1. MCInit => Inv
  BY DriveAssumption, SubInitInv DEF MCInit, DriveAssumption
<1>2. Inv /\ [MCNext]_<<subject, vars, regs>> => Inv'
  BY DriveAssumption, WhoseStep, SubStepInv DEF DriveAssumption
<1>3. Inv => NothingGuessed
  BY SubIInvProperty DEF NothingGuessed
<1>  QED
  BY <1>1, <1>2, <1>3, PTL DEF MCSpec

------------------------------------------------------------------------------
(* The write offset (WriteOffset): two bursts, found by their loudness.    *)

\* WriteOffset's variables by name.
truth    == r1
wo_early == r2
quiet    == r3
clicks   == r4
given    == r5
signal   == r6
pcm      == r7
length   == r8
wo_answer == r9

USE DEF truth, wo_early, quiet, clicks, given, signal, pcm, length, wo_answer
USE DEF Wof!vars

\* How late a sample is heard, against where it was burnt.
Delay == truth + wo_early

\* The measurement, once the signal was burnt and read back.
WofTypes ==
  /\ truth \in Int /\ -SearchReach <= truth /\ truth <= SearchReach /\ wo_early \in Early /\ given \in Early
  /\ quiet = {} \/ \E q \in Int : quiet = {q}
  /\ clicks = {} \/ \E c \in Int : clicks = {c}
WofRead ==
  /\ signal = Wof!Signal(quiet) /\ length \in {Total - 1, Total}
  /\ pcm = {j \in 0 .. length - 1 : j - wo_early - truth \in signal \/ j \in clicks}

\* The instance's least, greatest and number are the library's.
LEMMA WofLibrary ==
  \A I : Wof!Min(I) = Min(I) /\ Wof!Max(I) = Max(I) /\ Wof!Cardinality(I) = Cardinality(I)
  BY Zenon DEF Wof!Min, Wof!Max, Min, Max, Wof!Cardinality, Cardinality

\* Of two integers.
LEMMA WofTwoIntegers ==
  ASSUME NEW a \in Int, NEW b \in Int
  PROVE  /\ Wof!Max({a, b}) = IF a < b THEN b ELSE a
         /\ Wof!Min({a, b}) = IF a < b THEN a ELSE b
  BY TwoIntegers, WofLibrary, SubMinMax

\* The constants and the displacement as integers.
LEMMA WofNumbers ==
  ASSUME Wof!SignalAssumption, WofTypes
  PROVE  /\ PulseA \in Nat /\ PulseB \in Nat /\ PulseLen \in Nat /\ Total \in Nat /\ SearchReach \in Nat
         /\ RunLen \in Nat /\ RunMin \in Nat /\ wo_early \in Int /\ given \in Int
         /\ Delay \in Int /\ Delay = truth + wo_early
  BY DEF Wof!SignalAssumption, WofTypes, Delay

\* Where the signal is loud.
LEMMA WofSignal ==
  ASSUME Wof!SignalAssumption, WofTypes, NEW n \in Int
  PROVE  /\ n \in Wof!Signal(quiet) => \/ PulseA <= n /\ n <= PulseA + PulseLen - 1
                                       \/ PulseB <= n /\ n <= PulseB + PulseLen - 1
         /\ \A p \in {PulseA, PulseB} :
              n - p \in Wof!Burst(quiet) => n \in Wof!Signal(quiet)
<1>1. /\ PulseA \in Nat /\ PulseB \in Nat /\ PulseLen \in Nat /\ 0 < PulseLen
  BY DEF Wof!SignalAssumption
<1>2. Wof!Burst(quiet) \subseteq 0 .. PulseLen - 1
  BY <1>1 DEF Wof!Burst
<1>3. ASSUME n \in Wof!Signal(quiet)
      PROVE  \E p \in {PulseA, PulseB}, k \in Wof!Burst(quiet) : n = p + k
  BY <1>3 DEF Wof!Signal, Wof!Pulses
<1>4. ASSUME NEW p \in {PulseA, PulseB}, n - p \in Wof!Burst(quiet) PROVE n \in Wof!Signal(quiet)
  <2>1. n = p + (n - p)
    BY <1>1
  <2>  QED
    BY <1>4, <2>1 DEF Wof!Signal, Wof!Pulses
<1>  QED
  BY <1>1, <1>2, <1>3, <1>4

\* Of the samples of a run at most one is quiet.
LEMMA WofBurst ==
  ASSUME Wof!SignalAssumption, WofTypes
  PROVE  \E q \in Int : \A k \in 0 .. RunLen - 1 : k # q => k \in Wof!Burst(quiet)
<1>1. RunLen \in Nat /\ PulseLen \in Nat /\ RunLen <= PulseLen
  BY DEF Wof!SignalAssumption
<1>2. PICK q \in Int : quiet \subseteq {q}
  BY DEF WofTypes
<1>3. \A k \in 0 .. RunLen - 1 : k # q => k \in Wof!Burst(quiet)
  BY <1>1, <1>2 DEF Wof!Burst
<1>  QED
  BY <1>3

\* What is heard is the signal, late, or a click.
LEMMA WofLoud ==
  ASSUME Wof!SignalAssumption, WofTypes, WofRead, NEW n \in Int
  PROVE  /\ Wof!Loud(n) => n \in clicks \/ n - Delay \in Wof!Signal(quiet)
         /\ n \in 0 .. length - 1 /\ n - Delay \in Wof!Signal(quiet) => Wof!Loud(n)
<1>1. n - wo_early - truth = n - Delay
  <2>1. wo_early \in Int /\ truth \in Int
    BY WofNumbers DEF WofTypes
  <2>  QED
    BY <2>1 DEF Delay
<1>2. Wof!Loud(n) <=> n \in 0 .. length - 1 /\ (n - wo_early - truth \in signal \/ n \in clicks)
  BY DEF Wof!Loud, WofRead
<1>3. signal = Wof!Signal(quiet)
  BY DEF WofRead
<1>  QED
  BY <1>1, <1>2, <1>3, Zenon

\* A burst within the recording starts a run: one quiet sample does not end it.
LEMMA WofRun ==
  ASSUME Wof!SignalAssumption, WofTypes, WofRead, NEW p \in {PulseA, PulseB},
         \A k \in 0 .. RunLen - 1 : k \in Wof!Burst(quiet) => p + Delay + k \in 0 .. length - 1
  PROVE  Wof!StartsRun(p + Delay)
<1>  DEFINE raw  == p + Delay
            end  == Wof!Min({raw + RunLen, length}) - 1
            loud == {j \in raw .. end : Wof!Loud(j)}
<1>1. PICK q \in Int : \A k \in 0 .. RunLen - 1 : k # q => k \in Wof!Burst(quiet)
  BY WofBurst
<1>2. /\ PulseLen \in Nat /\ RunLen \in Nat /\ RunMin \in Nat /\ length \in Int
      /\ 2 <= RunMin /\ RunMin < RunLen /\ RunLen <= PulseLen /\ p \in Int
  BY WofNumbers DEF Wof!SignalAssumption, WofRead
<1>3. raw \in Int
  BY <1>2, WofNumbers
<1>  DEFINE heard == (raw .. raw + RunLen - 1) \ {raw + q}
<1>4. ASSUME NEW j \in Int, raw <= j, j <= raw + RunLen - 1, j - raw \in Wof!Burst(quiet)
      PROVE  j \in 0 .. length - 1 /\ Wof!Loud(j)
  <2>1. j - raw \in 0 .. RunLen - 1 /\ raw + (j - raw) = j
    BY <1>2, <1>3, <1>4
  <2>2. j \in 0 .. length - 1
    <3>  HIDE DEF raw
    <3>1. p + Delay = raw
      BY DEF raw
    <3>  QED
      BY <1>4, <2>1, <3>1
  <2>3. j - Delay - p = j - raw /\ j - Delay \in Int
    <3>1. Delay \in Int
      BY WofNumbers
    <3>  HIDE DEF Delay
    <3>  QED
      BY <1>2, <3>1
  <2>4. j - Delay \in Wof!Signal(quiet)
    BY <1>4, <2>3, WofSignal
  <2>  QED
    BY <2>2, <2>4, WofLoud
<1>5. end \in Int /\ (end = raw + RunLen - 1 \/ end = length - 1)
  <2>  DEFINE all == raw + RunLen
  <2>1. all \in Int
    BY <1>2, <1>3
  <2>2. end = (IF all < length THEN all ELSE length) - 1
    <3>  HIDE DEF all
    <3>1. Wof!Min({all, length}) = IF all < length THEN all ELSE length
      BY <1>2, <2>1, WofTwoIntegers
    <3>  QED
      BY <3>1 DEF all
  <2>  HIDE DEF end
  <2>  QED
    BY <1>2, <1>3, <2>1, <2>2
<1>  HIDE DEF end
<1>6. heard \subseteq loud
  <2>1. ASSUME NEW j \in heard PROVE j \in loud
    <3>1. j \in Int /\ raw <= j /\ j <= raw + RunLen - 1 /\ j - raw # q /\ j - raw \in 0 .. RunLen - 1
      BY <1>2, <1>3, <2>1
    <3>2. j \in 0 .. length - 1 /\ Wof!Loud(j)
      BY <1>1, <1>4, <3>1
    <3>3. j <= end
      BY <1>2, <1>5, <3>1, <3>2
    <3>  QED
      BY <1>3, <1>5, <3>1, <3>2, <3>3
  <2>  QED
    BY <2>1
<1>7. raw \in 0 .. length - 1 /\ Wof!Loud(raw)
  <2>1. 0 \in Wof!Burst(quiet) /\ raw - raw = 0
    BY <1>3 DEF Wof!Burst
  <2>  QED
    BY <1>2, <1>3, <1>4, <2>1
<1>8. Cardinality(loud) >= RunMin
  <2>1. IsFiniteSet(raw .. raw + RunLen - 1) /\ Cardinality(raw .. raw + RunLen - 1) = RunLen
    <3>1. raw + RunLen - 1 \in Int /\ ~ (raw > raw + RunLen - 1) /\ (raw + RunLen - 1) - raw + 1 = RunLen
      BY <1>2, <1>3
    <3>  QED
      BY <1>3, <3>1, FS_Interval
  <2>2. IsFiniteSet(heard) /\ Cardinality(heard) \in {RunLen, RunLen - 1}
    BY <2>1, FS_RemoveElement
  <2>3. IsFiniteSet(raw .. end)
    BY <1>3, <1>5, FS_Interval
  <2>4. IsFiniteSet(loud)
    BY <2>3, FS_Subset
  <2>5. Cardinality(heard) <= Cardinality(loud) /\ Cardinality(loud) \in Nat
    BY <1>6, <2>4, FS_Subset, FS_CardinalityType
  <2>  HIDE DEF heard, loud
  <2>  QED
    BY <1>2, <2>2, <2>5
<1>9. Wof!Cardinality(loud) >= RunMin
  BY <1>8, WofLibrary
<1>  QED
  BY <1>7, <1>9 DEF Wof!StartsRun, end

\* What starts a run is loud, and so is another sample of the run.
LEMMA WofNotAlone ==
  ASSUME Wof!SignalAssumption, WofTypes, WofRead, NEW raw \in Int, Wof!StartsRun(raw)
  PROVE  /\ raw \in 0 .. length - 1 /\ Wof!Loud(raw)
         /\ \E j \in Int : raw < j /\ j < raw + RunLen /\ Wof!Loud(j)
<1>  DEFINE end  == Wof!Min({raw + RunLen, length}) - 1
            loud == {j \in raw .. end : Wof!Loud(j)}
<1>1. raw \in 0 .. length - 1 /\ Wof!Loud(raw) /\ Cardinality(loud) >= RunMin
  BY WofLibrary DEF Wof!StartsRun
<1>2. RunLen \in Nat /\ RunMin \in Nat /\ length \in Int /\ 2 <= RunMin
  BY WofNumbers DEF Wof!SignalAssumption, WofRead
<1>3. end \in Int /\ end <= raw + RunLen - 1
  <2>  DEFINE all == raw + RunLen
  <2>1. all \in Int
    BY <1>2
  <2>2. end = (IF all < length THEN all ELSE length) - 1
    <3>  HIDE DEF all
    <3>1. Wof!Min({all, length}) = IF all < length THEN all ELSE length
      BY <1>2, <2>1, WofTwoIntegers
    <3>  QED
      BY <3>1 DEF all
  <2>  HIDE DEF end
  <2>  QED
    BY <1>2, <2>1, <2>2
<1>  HIDE DEF end
<1>4. ASSUME ~ \E j \in Int : raw < j /\ j < raw + RunLen /\ Wof!Loud(j) PROVE FALSE
  <2>1. loud \subseteq {raw}
    BY <1>2, <1>3, <1>4
  <2>2. IsFiniteSet({raw}) /\ Cardinality({raw}) = 1
    BY FS_Singleton
  <2>3. IsFiniteSet(loud) /\ Cardinality(loud) <= 1
    <3>  HIDE DEF loud
    <3>  QED
      BY <2>1, <2>2, FS_Subset
  <2>4. Cardinality(loud) \in Nat
    BY <2>3, FS_CardinalityType
  <2>  HIDE DEF loud
  <2>  QED
    BY <1>1, <1>2, <2>3, <2>4
<1>  QED
  BY <1>1, <1>4

\* Of the runs near a pulse the first is found.
LEMMA WofFound ==
  ASSUME Wof!SignalAssumption, WofTypes, WofRead, NEW p \in {PulseA, PulseB}
  PROVE  /\ Wof!Found(p) \in Int
         /\ 0 <= Wof!Found(p) => /\ Wof!StartsRun(Wof!Found(p) + given)
                                /\ p - SearchReach <= Wof!Found(p) /\ Wof!Found(p) <= p + SearchReach - 1
         /\ \A i \in Int : p - SearchReach <= i /\ i <= p + SearchReach - 1 /\ Wof!StartsRun(i + given)
                           => 0 <= Wof!Found(p) /\ Wof!Found(p) <= i
<1>  DEFINE low  == Wof!Max({0, p - SearchReach})
            hits == {i \in low .. p + SearchReach - 1 : Wof!StartsRun(i + given)}
<1>1. p \in Nat /\ SearchReach \in Nat /\ given \in Int /\ SearchReach <= p
  BY WofNumbers DEF Wof!SignalAssumption
<1>2. low = p - SearchReach
  BY <1>1, WofTwoIntegers
<1>3. Wof!Found(p) = IF hits = {} THEN -1 ELSE Min(hits)
  BY WofLibrary DEF Wof!Found
<1>  HIDE DEF low
<1>4. CASE hits = {}
  BY <1>1, <1>2, <1>3, <1>4
<1>5. CASE hits # {}
  <2>1. hits \in SUBSET Int /\ \A i \in hits : low <= i
    BY <1>1, <1>2
  <2>2. low \in Int /\ 0 <= low
    BY <1>1, <1>2
  <2>3. Min(hits) \in hits /\ \A i \in hits : Min(hits) <= i
    <3>  HIDE DEF hits
    <3>  QED
      BY <1>5, <2>1, <2>2, LeastInteger
  <2>4. Wof!Found(p) = Min(hits)
    BY <1>3, <1>5, Zenon
  <2>5. \A i \in Int : p - SearchReach <= i /\ i <= p + SearchReach - 1 /\ Wof!StartsRun(i + given) => i \in hits
    BY <1>1, <1>2
  <2>6. /\ Wof!Found(p) \in low .. p + SearchReach - 1 /\ Wof!StartsRun(Wof!Found(p) + given)
        /\ \A i \in hits : Wof!Found(p) <= i
    BY <2>3, <2>4
  <2>  HIDE DEF hits
  <2>  QED
    BY <1>1, <1>2, <2>5, <2>6
<1>  QED
  BY <1>4, <1>5

\* The numbers of the arguments below.
WofSizes ==
  /\ PulseA \in Int /\ PulseB \in Int /\ PulseLen \in Int /\ Total \in Int
  /\ SearchReach \in Int /\ RunLen \in Int /\ RunMin \in Int
  /\ 2 < RunLen /\ RunLen <= PulseLen /\ RunLen <= 2 * SearchReach /\ 0 <= SearchReach /\ SearchReach <= PulseA
  /\ PulseA + PulseLen + 2 * SearchReach <= PulseB /\ PulseB + PulseLen <= Total
  /\ given \in Int /\ Delay \in Int /\ 0 <= PulseA + Delay

\* What the module assumes gives the numbers of the arguments below.
LEMMA WofSizesHold == ASSUME Wof!SignalAssumption, WofTypes PROVE WofSizes
<1>1. /\ PulseA \in Nat /\ PulseB \in Nat /\ PulseLen \in Nat /\ Total \in Nat /\ SearchReach \in Nat
      /\ RunLen \in Nat /\ RunMin \in Nat /\ wo_early \in Int /\ given \in Int
      /\ Delay \in Int /\ Delay = truth + wo_early
  BY WofNumbers
<1>2. SearchReach <= PulseA + wo_early /\ truth \in Int /\ -SearchReach <= truth
  BY DEF WofTypes, Wof!SignalAssumption
<1>3. 2 < RunLen
  BY <1>1 DEF Wof!SignalAssumption
<1>4. 0 <= PulseA + Delay
  BY <1>1, <1>2
<1>  QED
  BY <1>1, <1>3, <1>4 DEF Wof!SignalAssumption, WofSizes

\* Two measurements that agree are not of a click before the first burst.
LEMMA WofNotEarlier ==
  ASSUME Wof!SignalAssumption, WofTypes, WofRead, NEW d \in Int,
         Wof!StartsRun(PulseA + d + given), Wof!StartsRun(PulseB + d + given)
  PROVE  Delay - given <= d
<1>  DEFINE a == PulseA + d + given
            b == PulseB + d + given
<1>1. WofSizes
  BY WofSizesHold
<1>2. a \in Int /\ b \in Int
  BY <1>1 DEF WofSizes
<1>3. a # b /\ (d < Delay - given => a - Delay < PulseA /\ b - Delay < PulseB)
  BY <1>1 DEF WofSizes
<1>4. a \in clicks \/ a - Delay \in Wof!Signal(quiet)
  BY <1>2, WofNotAlone, WofLoud
<1>5. b \in clicks \/ b - Delay \in Wof!Signal(quiet)
  BY <1>2, WofNotAlone, WofLoud
<1>6. PICK j \in Int : a < j /\ j < a + RunLen /\ Wof!Loud(j)
  BY <1>2, WofNotAlone
<1>7. j \in clicks \/ j - Delay \in Wof!Signal(quiet)
  BY <1>6, WofLoud
<1>8. \A x \in Int : x - Delay \in Wof!Signal(quiet) =>
        \/ PulseA <= x - Delay /\ x - Delay <= PulseA + PulseLen - 1
        \/ PulseB <= x - Delay /\ x - Delay <= PulseB + PulseLen - 1
  <2>1. ASSUME NEW x \in Int PROVE x - Delay \in Int
    BY <1>1 DEF WofSizes
  <2>  QED
    BY <2>1, WofSignal
<1>9. \A x, y \in clicks : x = y
  BY DEF WofTypes
<1>10. ASSUME d < Delay - given PROVE FALSE
  <2>  HIDE DEF a, b
  <2>1. a \in clicks
    <3>1. ~ (a - Delay \in Wof!Signal(quiet))
      BY <1>1, <1>2, <1>3, <1>8, <1>10 DEF WofSizes
    <3>  QED
      BY <1>4, <3>1
  <2>2. b - Delay <= PulseA + PulseLen - 1
    <3>1. b - Delay \in Wof!Signal(quiet)
      BY <1>3, <1>5, <1>9, <2>1
    <3>  QED
      BY <1>1, <1>2, <1>3, <1>8, <1>10, <3>1 DEF WofSizes
  <2>3. PulseA <= j - Delay
    <3>1. j # a
      BY <1>2, <1>6
    <3>2. j - Delay \in Wof!Signal(quiet)
      BY <1>7, <1>9, <2>1, <3>1
    <3>  QED
      BY <1>1, <1>6, <1>8, <3>2 DEF WofSizes
  <2>4. b = a + PulseB - PulseA
    BY <1>1 DEF WofSizes, a, b
  <2>  QED
    BY <1>1, <1>2, <1>6, <2>2, <2>3, <2>4 DEF WofSizes
<1>  QED
  BY <1>1, <1>10 DEF WofSizes

\* Nor of anything within the bursts: the first burst starts a run where it is heard.
LEMMA WofNotLater ==
  ASSUME Wof!SignalAssumption, WofTypes, WofRead, NEW d \in Int, Delay - given < d,
         Wof!StartsRun(PulseB + d + given)
  PROVE  Wof!StartsRun(PulseA + Delay)
<1>1. WofSizes
  BY WofSizesHold
<1>2. PulseB + d + given \in Int
  BY <1>1 DEF WofSizes
<1>3. PulseB + d + given \in 0 .. length - 1
  BY <1>2, WofNotAlone
<1>4. length \in Int
  BY <1>1 DEF WofRead, WofSizes
<1>5. \A k \in 0 .. RunLen - 1 : PulseA + Delay + k \in 0 .. length - 1
  BY <1>1, <1>3, <1>4 DEF WofSizes
<1>  QED
  BY <1>5, WofRun

\* What locate returns.
LEMMA WofLocated ==
  ASSUME NEW a, NEW b, a = Wof!Found(PulseA), b = Wof!Found(PulseB)
  PROVE  /\ length < Total => Wof!Locate.rc = "inval"
         /\ Wof!Locate.rc = "ok" =>
              ~ (a < 0) /\ ~ (b < 0) /\ a - PulseA = b - PulseB /\ Wof!Locate.offset = a - PulseA
         /\ ~ (length < Total) /\ ~ (a < 0) /\ ~ (b < 0) /\ a - PulseA = b - PulseB =>
              Wof!Locate.rc = "ok"
<1>1. Wof!Locate = IF length < Total THEN [rc |-> "inval", offset |-> 0]
                   ELSE IF a < 0 \/ b < 0 THEN [rc |-> "notfound", offset |-> 0]
                   ELSE IF ~ (a - PulseA = b - PulseB) THEN [rc |-> "ambiguous", offset |-> 0]
                   ELSE [rc |-> "ok", offset |-> a - PulseA]
  BY Zenon DEF Wof!Locate, Wof!Agree
<1>2. CASE length < Total
  BY <1>1, <1>2
<1>3. CASE ~ (length < Total) /\ (a < 0 \/ b < 0)
  BY <1>1, <1>3
<1>4. CASE ~ (length < Total) /\ ~ (a < 0) /\ ~ (b < 0) /\ ~ (a - PulseA = b - PulseB)
  BY <1>1, <1>4
<1>5. CASE ~ (length < Total) /\ ~ (a < 0) /\ ~ (b < 0) /\ a - PulseA = b - PulseB
  <2>1. Wof!Locate = [rc |-> "ok", offset |-> a - PulseA]
    BY <1>1, <1>5, Zenon
  <2>  QED
    BY <1>5, <2>1
<1>  QED
  BY <1>2, <1>3, <1>4, <1>5

\* An offset that is reported is the drive's.
LEMMA WofTrue ==
  ASSUME Wof!SignalAssumption, WofTypes, WofRead, Wof!Locate.rc = "ok",
         Delay - given >= -SearchReach
  PROVE  Wof!Locate.offset = Delay - given
<1>  DEFINE a == Wof!Found(PulseA)
            b == Wof!Found(PulseB)
            d == a - PulseA
<1>1. WofSizes
  BY WofSizesHold
<1>2. a \in Int /\ b \in Int
  BY WofFound
<1>3. ~ (a < 0) /\ ~ (b < 0) /\ a - PulseA = b - PulseB /\ Wof!Locate.offset = d
  BY WofLocated, Zenon
<1>4. /\ 0 <= a => Wof!StartsRun(a + given) /\ PulseA - SearchReach <= a /\ a <= PulseA + SearchReach - 1
      /\ 0 <= b => Wof!StartsRun(b + given)
      /\ \A i \in Int : PulseA - SearchReach <= i /\ i <= PulseA + SearchReach - 1 /\ Wof!StartsRun(i + given) => a <= i
  BY WofFound
<1>  HIDE DEF a, b
<1>5. d \in Int /\ PulseA + d = a /\ PulseB + d = b /\ 0 <= a /\ 0 <= b
  BY <1>1, <1>2, <1>3 DEF WofSizes
<1>6. Wof!StartsRun(PulseA + d + given) /\ Wof!StartsRun(PulseB + d + given)
  BY <1>4, <1>5
<1>7. Delay - given <= d
  <2>  HIDE DEF d
  <2>  QED
    BY <1>5, <1>6, WofNotEarlier
<1>8. ASSUME Delay - given < d PROVE FALSE
  <2>1. Wof!StartsRun(PulseA + Delay)
    <3>  HIDE DEF d
    <3>  QED
      BY <1>5, <1>6, <1>8, WofNotLater
  <2>  DEFINE i == PulseA + (Delay - given)
  <2>2. i \in Int /\ i + given = PulseA + Delay /\ PulseA - SearchReach <= i /\ i < PulseA + d
    BY <1>1, <1>5, <1>8 DEF WofSizes
  <2>  HIDE DEF i, d
  <2>3. i <= PulseA + SearchReach - 1 /\ i < a
    BY <1>1, <1>2, <1>4, <1>5, <2>2 DEF WofSizes
  <2>4. a <= i
    BY <1>4, <2>1, <2>2, <2>3
  <2>  QED
    BY <1>2, <2>2, <2>3, <2>4
<1>  QED
  <2>  HIDE DEF d
  <2>  QED
    BY <1>1, <1>3, <1>5, <1>7, <1>8 DEF WofSizes

\* With nothing in the way a burst is found where it is heard.
LEMMA WofCleanFound ==
  ASSUME Wof!SignalAssumption, WofTypes, WofRead, length = Total,
         clicks = {}, wo_early = given, truth < SearchReach,
         \A i \in signal : i + truth + wo_early \in 0 .. Total - 1,
         NEW p \in {PulseA, PulseB}
  PROVE  Wof!Found(p) = p + truth
<1>  DEFINE f == Wof!Found(p)
<1>1. WofSizes /\ truth \in Int /\ -SearchReach <= truth /\ Delay = truth + given
  BY WofSizesHold DEF WofTypes, Delay
<1>2. p \in Int /\ f \in Int
  BY <1>1, WofFound DEF WofSizes
<1>3. Wof!StartsRun(p + Delay)
  <2>1. ASSUME NEW k \in 0 .. RunLen - 1, k \in Wof!Burst(quiet) PROVE p + Delay + k \in 0 .. length - 1
    <3>1. p + k \in Int /\ (p + k) - p = k
      BY <1>1, <1>2 DEF WofSizes
    <3>2. p + k \in signal
      BY <2>1, <3>1, WofSignal DEF WofRead
    <3>3. p + k + truth + given \in 0 .. Total - 1
      BY <3>2
    <3>4. k \in Int
      BY <1>1 DEF WofSizes
    <3>  QED
      BY <1>1, <1>2, <3>3, <3>4 DEF WofSizes
  <2>  QED
    BY <2>1, WofRun
<1>4. p + truth \in Int /\ (p + truth) + given = p + Delay
  BY <1>1, <1>2 DEF WofSizes
<1>5. p - SearchReach <= p + truth /\ p + truth <= p + SearchReach - 1
  BY <1>1, <1>2 DEF WofSizes
<1>6. 0 <= f /\ f <= p + truth
  BY <1>3, <1>4, <1>5, WofFound
<1>7. Wof!StartsRun(f + given) /\ p - SearchReach <= f
  BY <1>6, WofFound
<1>8. f - truth \in Int /\ f + given \in Int /\ (f + given) - Delay = f - truth
  BY <1>1, <1>2 DEF WofSizes
<1>9. f - truth \in Wof!Signal(quiet)
  BY <1>7, <1>8, WofNotAlone, WofLoud
<1>10. \/ PulseA <= f - truth /\ f - truth <= PulseA + PulseLen - 1
       \/ PulseB <= f - truth /\ f - truth <= PulseB + PulseLen - 1
  BY <1>8, <1>9, WofSignal
<1>  HIDE DEF f
<1>11. p <= f - truth
  BY <1>1, <1>2, <1>7, <1>10 DEF WofSizes
<1>12. f = p + truth
  BY <1>1, <1>2, <1>6, <1>11
<1>  QED
  BY <1>12 DEF f

\* And so it is reported.
LEMMA WofClean ==
  ASSUME Wof!SignalAssumption, WofTypes, WofRead, Wof!Locate.rc # "inval",
         clicks = {}, wo_early = given, truth < SearchReach,
         \A i \in signal : i + truth + wo_early \in 0 .. Total - 1
  PROVE  Wof!Locate.rc = "ok"
<1>  DEFINE a == Wof!Found(PulseA)
            b == Wof!Found(PulseB)
<1>1. WofSizes /\ truth \in Int /\ -SearchReach <= truth
  BY WofSizesHold DEF WofTypes
<1>2. ~ (length < Total)
  BY WofLocated, Zenon
<1>3. length = Total
  BY <1>1, <1>2 DEF WofRead, WofSizes
<1>4. a = PulseA + truth /\ b = PulseB + truth
  BY <1>3, WofCleanFound
<1>5. ~ (a < 0) /\ ~ (b < 0) /\ a - PulseA = b - PulseB
  <2>  HIDE DEF a, b
  <2>  QED
    BY <1>1, <1>4 DEF WofSizes
<1>  QED
  BY <1>2, <1>5, WofLocated, Zenon

\* The invariant: what is heard is what was burnt, and what is answered is true of it.
WofIInv ==
  /\ WofTypes /\ length \in {0, Total - 1, Total}
  /\ length = 0 => wo_answer = Wof!NoAnswer /\ signal \in {{}, Wof!Signal(quiet)}
  /\ length # 0 => WofRead
  /\ Wof!OffsetIsTrue /\ Wof!CleanIsFound

\* The invariant of the measurement holds at the start.
LEMMA WofInitInv == ASSUME Wof!SignalAssumption, Wof!Init PROVE WofIInv
<1>1. SearchReach \in Int /\ PulseLen \in Int /\ Total \in Int
  BY DEF Wof!SignalAssumption
<1>2. WofTypes
  BY <1>1 DEF Wof!Init, WofTypes
<1>  QED
  BY <1>2 DEF Wof!Init, Wof!NoAnswer, WofIInv, Wof!OffsetIsTrue, Wof!CleanIsFound

\* Every step of the measurement keeps the invariant.
LEMMA WofStepInv ==
  ASSUME Wof!SignalAssumption, WofIInv, [Wof!Next]_(Wof!vars)
  PROVE  WofIInv'
<1>1. CASE UNCHANGED Wof!vars
  BY <1>1 DEF WofIInv, WofTypes, WofRead, Wof!OffsetIsTrue, Wof!CleanIsFound, Wof!Signal, Wof!Burst, Wof!Pulses, Wof!NoAnswer
<1>2. WofSizes /\ length \in Int
  BY WofSizesHold DEF WofIInv, WofSizes
<1>3. ASSUME UNCHANGED <<truth, wo_early, quiet, clicks, given>>
      PROVE  WofTypes' /\ Wof!Signal(quiet)' = Wof!Signal(quiet)
  BY <1>3 DEF WofIInv, WofTypes, Wof!Signal, Wof!Burst, Wof!Pulses
<1>4. ASSUME wo_answer' = Wof!NoAnswer PROVE (Wof!OffsetIsTrue /\ Wof!CleanIsFound)'
  BY <1>4 DEF Wof!OffsetIsTrue, Wof!CleanIsFound, Wof!NoAnswer
<1>5. CASE Wof!MakeSignal
  <2>1. /\ signal = {} /\ signal' = Wof!Signal(quiet)
        /\ UNCHANGED <<truth, wo_early, quiet, clicks, given, pcm, length, wo_answer>>
    BY <1>5 DEF Wof!MakeSignal
  <2>2. length = 0
    <3>1. 0 \in Wof!Burst(quiet) /\ PulseA - PulseA = 0 /\ PulseA \in Int
      BY <1>2 DEF Wof!Burst, WofSizes
    <3>2. PulseA \in Wof!Signal(quiet)
      BY <3>1, WofSignal DEF WofIInv
    <3>  QED
      BY <2>1, <3>2 DEF WofIInv, WofRead
  <2>3. wo_answer' = Wof!NoAnswer /\ length' = 0 /\ wo_answer' = Wof!NoAnswer'
    BY <2>1, <2>2 DEF WofIInv, Wof!NoAnswer
  <2>  QED
    BY <1>3, <1>4, <2>1, <2>3 DEF WofIInv
<1>6. CASE Wof!BurnAndRead
  <2>1. /\ signal # {} /\ length = 0 /\ length' \in {Total - 1, Total}
        /\ pcm' = {j \in 0 .. length' - 1 : j - wo_early - truth \in signal \/ j \in clicks}
        /\ UNCHANGED <<truth, wo_early, quiet, clicks, given, signal, wo_answer>>
    BY <1>6 DEF Wof!BurnAndRead
  <2>2. wo_answer' = Wof!NoAnswer /\ length' # 0 /\ signal' = Wof!Signal(quiet)'
    BY <1>2, <1>3, <2>1 DEF WofIInv, WofSizes
  <2>3. WofRead'
    BY <2>1, <2>2 DEF WofRead
  <2>  QED
    BY <1>3, <1>4, <2>1, <2>2, <2>3 DEF WofIInv
<1>7. CASE Wof!Measure
  <2>1. /\ length > 0 /\ wo_answer' = Wof!Locate
        /\ UNCHANGED <<truth, wo_early, quiet, clicks, given, signal, pcm, length>>
    BY <1>7 DEF Wof!Measure
  <2>2. WofTypes /\ WofRead /\ length # 0 /\ length' # 0
    BY <2>1 DEF WofIInv
  <2>3. WofRead'
    BY <1>3, <2>1, <2>2 DEF WofRead
  <2>4. (Wof!OffsetIsTrue)'
    <3>1. ASSUME wo_answer'.rc = "ok", Delay - given >= -SearchReach PROVE wo_answer'.offset = Delay - given
      BY <2>1, <2>2, <3>1, WofTrue, Zenon
    <3>2. truth' = truth /\ wo_early' = wo_early /\ given' = given
      BY <2>1
    <3>3. Delay - given = truth' + wo_early' - given'
      <4>1. truth \in Int /\ wo_early \in Int /\ given \in Int
        BY <2>2, WofNumbers DEF WofTypes
      <4>  QED
        BY <3>2, <4>1 DEF Delay
    <3>  QED
      BY <3>1, <3>3 DEF Wof!OffsetIsTrue
  <2>5. (Wof!CleanIsFound)'
    <3>1. ASSUME wo_answer'.rc # "inval", clicks = {}, wo_early = given, truth < SearchReach,
                 \A i \in signal : i + truth + wo_early \in 0 .. Total - 1
          PROVE  wo_answer'.rc = "ok"
      BY <2>1, <2>2, <3>1, WofClean, Zenon
    <3>  QED
      BY <2>1, <3>1 DEF Wof!CleanIsFound
  <2>  QED
    BY <1>3, <2>1, <2>2, <2>3, <2>4, <2>5 DEF WofIInv
<1>  QED
  BY <1>1, <1>5, <1>6, <1>7 DEF Wof!Next

\* WriteOffset: an offset that is reported is the drive's, whatever one click and one
\* quiet sample do, and with nothing in the way one is reported.
THEOREM SpecOffsetIsTrue == MCSpec => []OffsetIsTrue
<1>  DEFINE Inv == subject = "offset" => WofIInv
<1>1. MCInit => Inv
  BY DriveAssumption, WofInitInv DEF MCInit, DriveAssumption
<1>2. Inv /\ [MCNext]_<<subject, vars, regs>> => Inv'
  BY DriveAssumption, WhoseStep, WofStepInv DEF DriveAssumption
<1>3. Inv => OffsetIsTrue
  BY DEF WofIInv, OffsetIsTrue
<1>  QED
  BY <1>1, <1>2, <1>3, PTL DEF MCSpec

------------------------------------------------------------------------------
(* Verification (Verify): its variables and its constants.                 *)

\* Verify's variables by name.
vf_source == r1
vf_truth  == r2
vf_wrong  == r3
vf_unread == r4
vf_want   == r5
vf_req    == r6
vf_at     == r7
vf_tier   == r8
vf_c2     == r9
vf_anchor == r10
vf_next   == r11
vf_res    == r12
vf_rc     == r13

USE DEF vf_source, vf_truth, vf_wrong, vf_unread, vf_want, vf_req, vf_at, vf_tier, vf_c2,
        vf_anchor, vf_next, vf_res, vf_rc
USE DEF Vfy!vars, Vfy!disc

\* The instance counts as the library does.
LEMMA VfCardinality == \A I : Vfy!Cardinality(I) = Cardinality(I)
  BY Zenon DEF Vfy!Cardinality, Cardinality

\* The constants as integers.
VfSizes ==
  /\ Spb \in Nat /\ Spb > 0 /\ Count \in Nat /\ Count > 0 /\ AnchorLen \in Nat
  /\ ShiftMax \in Nat /\ ShiftMax > 0 /\ Extra \in Nat /\ SepDiv \in Nat /\ SepDiv > 0
  /\ Vfy!N \in Nat /\ Count * Spb \in Nat /\ Vfy!N = Count * Spb + Extra
  /\ Vfy!AnchorSamples \in Nat /\ Vfy!Unset = Vfy!AnchorSamples + 1
  /\ \A p \in 1 .. 3 : Vfy!Base(p) \in Int

\* What the module assumes of its constants makes them integers in range.
LEMMA VfSizesHold == ASSUME Vfy!VerifyAssumption PROVE VfSizes
<1>1. /\ Spb \in Nat /\ Spb > 0 /\ Count \in Nat /\ Count > 0 /\ AnchorLen \in Nat /\ AnchorLen > 0
      /\ ShiftMax \in Nat /\ ShiftMax > 0 /\ Extra \in Nat /\ SepDiv \in Nat /\ SepDiv > 0
  BY DEF Vfy!VerifyAssumption
<1>2. Count * Spb \in Nat
  BY <1>1
<1>3. Vfy!AnchorSectors \in Nat
  BY <1>1 DEF Vfy!AnchorSectors, Vfy!Lower
<1>4. Vfy!AnchorSamples \in Nat
  BY <1>1, <1>3 DEF Vfy!AnchorSamples
<1>5. ASSUME NEW p \in 1 .. 3 PROVE Vfy!Base(p) \in Int
  <2>1. Vfy!Positions[p] \in Int
    <3>1. CASE p = 1
      BY <1>1, <3>1 DEF Vfy!Positions
    <3>2. CASE p = 2
      BY <1>1, <3>2 DEF Vfy!Positions
    <3>3. CASE p = 3
      BY <1>1, <3>3 DEF Vfy!Positions
    <3>  QED
      BY <3>1, <3>2, <3>3
  <2>  QED
    BY <1>1, <2>1 DEF Vfy!Base
<1>  QED
  BY <1>1, <1>2, <1>4, <1>5 DEF VfSizes, Vfy!N, Vfy!Unset

------------------------------------------------------------------------------
(* Verify: the search for the displacement.                                *)

\* The scores of the shifts, as the search leaves them one after the other.
VfWalk(p, g, n) ==
  g = [k \in 0 .. n |->
         IF k = 0 THEN [best |-> Vfy!Unset, second |-> Vfy!Unset, shift |-> 0]
         ELSE Vfy!Score(p, g[k - 1], k - 1 - ShiftMax)]

\* The search has scores after every number of shifts.
LEMMA VfWalkExists ==
  ASSUME NEW p, NEW n \in Nat
  PROVE  \E g : VfWalk(p, g, n)
<1>  DEFINE D == {k \in Nat : ~ \E g : VfWalk(p, g, k)}
            z == [best |-> Vfy!Unset, second |-> Vfy!Unset, shift |-> 0]
<1>1. SUFFICES ASSUME D # {} PROVE FALSE
  OBVIOUS
<1>2. PICK m \in D : \A k \in D : m <= k
  BY <1>1, LeastNatural
<1>3. m # 0
  <2>1. VfWalk(p, [k \in 0 .. 0 |-> z], 0)
    BY DEF VfWalk
  <2>  QED
    BY <1>2, <2>1
<1>4. PICK g : VfWalk(p, g, m - 1)
  BY <1>2, <1>3
<1>  DEFINE h == [k \in 0 .. m |-> IF k = m THEN Vfy!Score(p, g[m - 1], m - 1 - ShiftMax) ELSE g[k]]
<1>5. VfWalk(p, h, m)
  <2>  DEFINE e(k) == IF k = 0 THEN z ELSE Vfy!Score(p, h[k - 1], k - 1 - ShiftMax)
  <2>1. ASSUME NEW k \in 0 .. m PROVE h[k] = e(k)
    <3>1. CASE k = m
      BY <1>3, <3>1
    <3>2. CASE k # m
      BY <1>4, <3>2 DEF VfWalk
    <3>  QED
      BY <3>1, <3>2
  <2>2. h = [k \in 0 .. m |-> e(k)]
    BY <2>1
  <2>  QED
    BY <2>2 DEF VfWalk
<1>  QED
  BY <1>2, <1>5

\* Scores's fold is such a search, over all the shifts.
LEMMA VfScores ==
  ASSUME NEW p, VfSizes
  PROVE  \E g : VfWalk(p, g, 2 * ShiftMax + 1) /\ Vfy!Scores(p) = g[2 * ShiftMax + 1]
<1>  DEFINE n == 2 * ShiftMax + 1
            f == CHOOSE g : g = [k \in 0 .. n |->
                   IF k = 0 THEN [best |-> Vfy!Unset, second |-> Vfy!Unset, shift |-> 0]
                   ELSE Vfy!Score(p, g[k - 1], k - 1 - ShiftMax)]
<1>1. \E g : VfWalk(p, g, n)
  BY VfWalkExists DEF VfSizes
<1>2. Vfy!Scores(p) = f[n]
  BY DEF Vfy!Scores
<1>3. VfWalk(p, f, n)
  BY <1>1, Zenon DEF VfWalk
<1>  QED
  BY <1>2, <1>3

\* What the scores say of the first n shifts.
VfScored(p, a, n) ==
  /\ a = [best |-> a.best, second |-> a.second, shift |-> a.shift]
  /\ a.best \in Int /\ a.second \in Int /\ a.shift \in Int
  /\ 0 <= a.best /\ a.best <= a.second /\ a.second <= Vfy!Unset
  /\ a.best # Vfy!Unset => Vfy!Mismatches(p, a.shift) >= a.best
  /\ \A t \in Int : -ShiftMax <= t /\ t < n - ShiftMax /\ Vfy!Evaluable(p, t) =>
       a.best # Vfy!Unset /\ (t # a.shift => Vfy!Mismatches(p, t) >= a.second)

\* A shift's mismatches are a number below the one that stands for none.
LEMMA VfMismatches ==
  ASSUME VfSizes, NEW p \in 1 .. 3, NEW s
  PROVE  Vfy!Mismatches(p, s) \in Int /\ 0 <= Vfy!Mismatches(p, s) /\ Vfy!Mismatches(p, s) < Vfy!Unset
<1>  DEFINE W == Vfy!Window(p)
            B == {i \in W : Vfy!Delivered(i) # vf_source[i + s]}
            n == Vfy!AnchorSamples
            b == Vfy!Base(p)
<1>1. n \in Nat /\ b \in Int /\ W = b .. b + n - 1 /\ Vfy!Unset = n + 1
  BY DEF VfSizes, Vfy!Window
<1>2. IsFiniteSet(W) /\ Cardinality(W) <= n
  <2>  HIDE DEF n, b
  <2>1. b + n - 1 \in Int /\ (~ (b > b + n - 1) => (b + n - 1) - b + 1 = n)
    BY <1>1
  <2>2. IsFiniteSet(b .. b + n - 1)
        /\ Cardinality(b .. b + n - 1) = IF b > b + n - 1 THEN 0 ELSE (b + n - 1) - b + 1
    BY <1>1, <2>1, FS_Interval
  <2>  QED
    BY <1>1, <2>1, <2>2
<1>3. IsFiniteSet(B) /\ Cardinality(B) <= Cardinality(W) /\ Cardinality(B) \in Nat
  BY <1>2, FS_Subset, FS_CardinalityType
<1>4. Cardinality(W) \in Nat
  BY <1>2, FS_CardinalityType
<1>5. Vfy!Mismatches(p, s) = Cardinality(B)
  BY VfCardinality DEF Vfy!Mismatches
<1>  HIDE DEF W, B, n
<1>  QED
  BY <1>1, <1>2, <1>3, <1>4, <1>5

\* One more shift scored: what the scores say holds of it too.
LEMMA VfScoreStep ==
  ASSUME VfSizes, NEW p \in 1 .. 3, NEW a, NEW n \in Nat, VfScored(p, a, n),
         NEW s \in Int, s = n - ShiftMax, NEW z, z = Vfy!Score(p, a, s)
  PROVE  VfScored(p, z, n + 1)
<1>  DEFINE mis == Vfy!Mismatches(p, s)
            runner == Vfy!Lower(mis, a.second)
<1>1. ShiftMax \in Int /\ Vfy!Unset \in Int
  BY DEF VfSizes
<1>2. mis \in Int /\ 0 <= mis /\ mis < Vfy!Unset
  BY VfMismatches
<1>3. /\ a = [best |-> a.best, second |-> a.second, shift |-> a.shift]
      /\ a.best \in Int /\ a.second \in Int /\ a.shift \in Int
      /\ 0 <= a.best /\ a.best <= a.second /\ a.second <= Vfy!Unset
      /\ a.best # Vfy!Unset => Vfy!Mismatches(p, a.shift) >= a.best
  BY DEF VfScored
<1>4. ASSUME NEW t \in Int, -ShiftMax <= t, t < (n + 1) - ShiftMax, t # s, Vfy!Evaluable(p, t)
      PROVE  a.best # Vfy!Unset /\ (t # a.shift => Vfy!Mismatches(p, t) >= a.second)
  <2>1. t < n - ShiftMax
    BY <1>1, <1>4
  <2>  QED
    BY <1>4, <2>1 DEF VfScored
<1>5. runner \in Int /\ runner <= mis /\ runner <= a.second /\ (runner = mis \/ runner = a.second) /\ 0 <= runner
  <2>  HIDE DEF mis
  <2>  QED
    BY <1>2, <1>3 DEF Vfy!Lower
<1>6. \A t \in Int : Vfy!Mismatches(p, t) \in Int
  BY VfMismatches
<1>7. CASE ~ Vfy!Evaluable(p, s)
  <2>1. z = a
    BY <1>7 DEF Vfy!Score
  <2>2. \A t \in Int : -ShiftMax <= t /\ t < (n + 1) - ShiftMax /\ Vfy!Evaluable(p, t) =>
          a.best # Vfy!Unset /\ (t # a.shift => Vfy!Mismatches(p, t) >= a.second)
    BY <1>4, <1>7
  <2>3. VfScored(p, a, n + 1)
    BY <1>1, <1>3, <2>2 DEF VfScored
  <2>  QED
    BY <2>1, <2>3
<1>8. CASE Vfy!Evaluable(p, s) /\ runner < a.best
  <2>1. z = [best |-> runner, second |-> a.best, shift |-> s]
    <3>1. ~ (runner >= a.best)
      <4>  HIDE DEF runner, mis
      <4>  QED
        BY <1>3, <1>5, <1>8
    <3>  QED
      BY <1>8, <3>1, Zenon DEF Vfy!Score
  <2>  HIDE DEF runner, mis
  <2>2. runner = Vfy!Mismatches(p, s) /\ runner < Vfy!Unset
    <3>1. runner = mis /\ runner < Vfy!Unset
      BY <1>1, <1>2, <1>3, <1>5, <1>8
    <3>  QED
      BY <3>1 DEF mis
  <2>3. ASSUME NEW t \in Int, -ShiftMax <= t, t < (n + 1) - ShiftMax, t # s, Vfy!Evaluable(p, t)
        PROVE  Vfy!Mismatches(p, t) >= a.best
    <3>1. a.best # Vfy!Unset /\ (t # a.shift => Vfy!Mismatches(p, t) >= a.second)
      BY <1>4, <2>3
    <3>2. Vfy!Mismatches(p, t) \in Int
      BY <1>6
    <3>  QED
      BY <1>3, <3>1, <3>2
  <2>4. z.best = runner /\ z.second = a.best /\ z.shift = s
    BY <2>1
  <2>5. /\ z.best \in Int /\ z.second \in Int /\ z.shift \in Int /\ z.best # Vfy!Unset
        /\ 0 <= z.best /\ z.best <= z.second /\ z.second <= Vfy!Unset
        /\ Vfy!Mismatches(p, z.shift) >= z.best
    BY <1>1, <1>3, <1>5, <1>8, <2>2, <2>4
  <2>6. z = [best |-> z.best, second |-> z.second, shift |-> z.shift]
    BY <2>1, <2>4
  <2>7. \A t \in Int : -ShiftMax <= t /\ t < (n + 1) - ShiftMax /\ Vfy!Evaluable(p, t) =>
          z.best # Vfy!Unset /\ (t # z.shift => Vfy!Mismatches(p, t) >= z.second)
    BY <2>3, <2>4, <2>5
  <2>  QED
    BY <2>5, <2>6, <2>7, Zenon DEF VfScored
<1>9. CASE Vfy!Evaluable(p, s) /\ runner >= a.best
  <2>1. a.best # Vfy!Unset
    <3>  HIDE DEF runner, mis
    <3>  QED
      BY <1>1, <1>2, <1>3, <1>5, <1>9
  <2>2. z = [a EXCEPT !.second = runner] \/ (z = a /\ runner = a.second)
    <3>1. runner < a.second \/ runner = a.second
      <4>  HIDE DEF runner, mis
      <4>  QED
        BY <1>3, <1>5
    <3>2. ~ (runner < a.best)
      <4>  HIDE DEF runner, mis
      <4>  QED
        BY <1>3, <1>5, <1>9
    <3>3. CASE runner < a.second
      BY <1>9, <3>2, <3>3, Zenon DEF Vfy!Score
    <3>4. CASE ~ (runner < a.second)
      BY <1>9, <3>1, <3>2, <3>4, Zenon DEF Vfy!Score
    <3>  QED
      BY <3>3, <3>4
  <2>  HIDE DEF runner, mis
  <2>3. z = [best |-> a.best, second |-> runner, shift |-> a.shift]
    BY <1>3, <2>2
  <2>4. z.best = a.best /\ z.second = runner /\ z.shift = a.shift
    BY <2>3
  <2>5. ASSUME NEW t \in Int, -ShiftMax <= t, t < (n + 1) - ShiftMax, Vfy!Evaluable(p, t), t # a.shift
        PROVE  Vfy!Mismatches(p, t) >= runner
    <3>1. CASE t = s
      BY <1>2, <1>5, <3>1 DEF mis
    <3>2. CASE t # s
      <4>1. Vfy!Mismatches(p, t) >= a.second
        BY <1>4, <2>5, <3>2
      <4>  QED
        BY <1>3, <1>5, <1>6, <4>1
    <3>  QED
      BY <3>1, <3>2
  <2>6. /\ z.best \in Int /\ z.second \in Int /\ z.shift \in Int /\ z.best # Vfy!Unset
        /\ 0 <= z.best /\ z.best <= z.second /\ z.second <= Vfy!Unset
        /\ Vfy!Mismatches(p, z.shift) >= z.best
    BY <1>1, <1>3, <1>5, <1>9, <2>1, <2>4
  <2>7. z = [best |-> z.best, second |-> z.second, shift |-> z.shift]
    BY <2>3, <2>4
  <2>8. \A t \in Int : -ShiftMax <= t /\ t < (n + 1) - ShiftMax /\ Vfy!Evaluable(p, t) =>
          z.best # Vfy!Unset /\ (t # z.shift => Vfy!Mismatches(p, t) >= z.second)
    BY <2>4, <2>5, <2>6
  <2>  QED
    BY <2>6, <2>7, <2>8, Zenon DEF VfScored
<1>  QED
  <2>  HIDE DEF runner
  <2>  QED
    BY <1>3, <1>5, <1>7, <1>8, <1>9

\* So it holds after every number of shifts.
LEMMA VfWalkScored ==
  ASSUME VfSizes, NEW p \in 1 .. 3, NEW n \in Nat, NEW g, VfWalk(p, g, n)
  PROVE  \A k \in 0 .. n : VfScored(p, g[k], k)
<1>  DEFINE D == {k \in 0 .. n : ~ VfScored(p, g[k], k)}
<1>1. SUFFICES ASSUME D # {} PROVE FALSE
  OBVIOUS
<1>2. D \in SUBSET Nat
  OBVIOUS
<1>3. PICK m \in D : \A k \in D : m <= k
  BY <1>1, <1>2, LeastNatural
<1>4. CASE m = 0
  <2>1. g[0] = [best |-> Vfy!Unset, second |-> Vfy!Unset, shift |-> 0]
    BY DEF VfWalk
  <2>2. g[0].best = Vfy!Unset /\ g[0].second = Vfy!Unset /\ g[0].shift = 0
    BY <2>1
  <2>3. Vfy!Unset \in Int /\ 0 <= Vfy!Unset /\ \A t \in Int : ~ (-ShiftMax <= t /\ t < 0 - ShiftMax)
    BY DEF VfSizes
  <2>4. VfScored(p, g[0], 0)
    BY <2>1, <2>2, <2>3 DEF VfScored
  <2>  QED
    BY <1>3, <1>4, <2>4
<1>5. CASE m # 0
  <2>1. m - 1 \in 0 .. n /\ m \in 0 .. n /\ m - 1 \in Nat /\ (m - 1) + 1 = m /\ m - 1 < m
    BY <1>3, <1>5
  <2>2. VfScored(p, g[m - 1], m - 1)
    <3>1. ~ (m - 1 \in D)
      BY <1>3, <2>1
    <3>  QED
      BY <2>1, <3>1
  <2>3. g[m] = Vfy!Score(p, g[m - 1], m - 1 - ShiftMax)
    BY <1>5, <2>1 DEF VfWalk
  <2>4. m - 1 - ShiftMax \in Int
    BY <2>1 DEF VfSizes
  <2>5. VfScored(p, g[m], (m - 1) + 1)
    BY <2>1, <2>2, <2>3, <2>4, VfScoreStep
  <2>  QED
    BY <1>3, <2>1, <2>5
<1>  QED
  BY <1>4, <1>5

\* And of what the search leaves when it has seen them all.
LEMMA VfScoresHold ==
  ASSUME VfSizes, NEW p \in 1 .. 3
  PROVE  VfScored(p, Vfy!Scores(p), 2 * ShiftMax + 1)
<1>1. 2 * ShiftMax + 1 \in Nat
  BY DEF VfSizes
<1>2. PICK g : VfWalk(p, g, 2 * ShiftMax + 1) /\ Vfy!Scores(p) = g[2 * ShiftMax + 1]
  BY VfScores
<1>3. 2 * ShiftMax + 1 \in 0 .. 2 * ShiftMax + 1
  BY <1>1
<1>  QED
  BY <1>1, <1>2, <1>3, VfWalkScored

\* What is spoilt is all that can differ at the true displacement.
VfSpoilt(p) == {i \in Vfy!Window(p) : i \in vf_wrong \/ i \div Spb \in vf_unread}

\* At the true displacement no more samples mismatch than were spoilt.
LEMMA VfTrueShift ==
  ASSUME VfSizes, vf_truth \in Int, NEW p \in 1 .. 3, Vfy!Evaluable(p, vf_truth)
  PROVE  Vfy!Mismatches(p, vf_truth) <= Cardinality(VfSpoilt(p)) /\ Cardinality(VfSpoilt(p)) \in Nat
<1>  DEFINE W == Vfy!Window(p)
            B == {i \in W : Vfy!Delivered(i) # vf_source[i + vf_truth]}
            b == Vfy!Base(p)
            n == Vfy!AnchorSamples
<1>1. b \in Int /\ n \in Nat /\ W = b .. b + n - 1 /\ Vfy!N \in Int
  BY DEF VfSizes, Vfy!Window
<1>2. IsFiniteSet(W)
  BY <1>1, FS_Interval
<1>3. IsFiniteSet(VfSpoilt(p))
  BY <1>2, FS_Subset DEF VfSpoilt
<1>4. B \subseteq VfSpoilt(p)
  <2>1. ASSUME NEW i \in W, ~ (i \in vf_wrong), ~ (i \div Spb \in vf_unread)
        PROVE  Vfy!Delivered(i) = vf_source[i + vf_truth]
    <3>1. i + vf_truth \in 0 .. Vfy!N - 1
      BY <1>1, <2>1 DEF Vfy!Evaluable
    <3>  QED
      BY <2>1, <3>1, Zenon DEF Vfy!Delivered
  <2>  QED
    BY <2>1 DEF VfSpoilt
<1>5. Vfy!Mismatches(p, vf_truth) = Cardinality(B)
  BY VfCardinality DEF Vfy!Mismatches
<1>  HIDE DEF B
<1>  QED
  BY <1>3, <1>4, <1>5, FS_Subset, FS_CardinalityType

\* A displacement that is accepted is the true one, unless more is spoilt than a
\* runner-up must be worse by.
LEMMA VfAccepted ==
  ASSUME VfSizes, vf_truth \in Int, -ShiftMax <= vf_truth, vf_truth <= ShiftMax,
         NEW p \in 1 .. 3, Vfy!Accepted(Vfy!Scores(p))
  PROVE  /\ Vfy!Scores(p).shift \in Int
         /\ Vfy!Evaluable(p, vf_truth)
              /\ Cardinality(VfSpoilt(p)) < Vfy!AnchorSamples \div SepDiv
              => Vfy!Scores(p).shift = vf_truth
<1>  DEFINE a == Vfy!Scores(p)
            far == Vfy!AnchorSamples \div SepDiv
<1>1. VfScored(p, a, 2 * ShiftMax + 1)
  BY VfScoresHold
<1>2. a.best \in Int /\ a.second \in Int /\ a.shift \in Int /\ 0 <= a.best
  BY <1>1 DEF VfScored
<1>3. a.second = Vfy!Unset \/ a.second >= a.best + far
  BY DEF Vfy!Accepted
<1>4. ASSUME Vfy!Evaluable(p, vf_truth), Cardinality(VfSpoilt(p)) < far, a.shift # vf_truth
      PROVE  FALSE
  <2>1. vf_truth < (2 * ShiftMax + 1) - ShiftMax
    BY DEF VfSizes
  <2>2. Vfy!Mismatches(p, vf_truth) >= a.second
    BY <1>1, <1>4, <2>1 DEF VfScored
  <2>3. /\ Vfy!Mismatches(p, vf_truth) <= Cardinality(VfSpoilt(p))
        /\ Cardinality(VfSpoilt(p)) \in Nat
    BY <1>4, VfTrueShift
  <2>4. /\ Vfy!Mismatches(p, vf_truth) \in Int /\ Vfy!Mismatches(p, vf_truth) < Vfy!Unset
        /\ Vfy!Unset \in Int
    BY VfMismatches DEF VfSizes
  <2>5. far \in Int
    BY DEF VfSizes
  <2>  HIDE DEF a, far
  <2>  QED
    BY <1>2, <1>3, <1>4, <2>2, <2>3, <2>4, <2>5
<1>  QED
  BY <1>2, <1>4

------------------------------------------------------------------------------
(* Verify: the comparison.                                                 *)

\* Where the sectors begin.
LEMMA VfSector ==
  ASSUME VfSizes, NEW k \in Nat
  PROVE  /\ k * Spb \in Nat /\ (k + 1) * Spb = k * Spb + Spb
         /\ \A i \in Int : k * Spb <= i /\ i < k * Spb + Spb => i \div Spb = k
         /\ \A m \in Nat : k < m => k * Spb + Spb <= m * Spb
<1>1. Spb \in Nat /\ Spb > 0
  BY DEF VfSizes
<1>2. k * Spb \in Nat /\ (k + 1) * Spb = k * Spb + Spb
  BY <1>1
<1>3. ASSUME NEW i \in Int, k * Spb <= i, i < k * Spb + Spb PROVE i \div Spb = k
  BY <1>1, <1>3
<1>4. ASSUME NEW m \in Nat, k < m PROVE k * Spb + Spb <= m * Spb
  BY <1>1, <1>4
<1>  QED
  BY <1>2, <1>3, <1>4

\* What the source reaches of the first n samples, at displacement d.
VfReached(d, n) == {i \in 0 .. n - 1 : i + d \in 0 .. Vfy!N - 1}
VfDiffer(d, n) == {i \in VfReached(d, n) : Vfy!Delivered(i) # vf_source[i + d]}

\* A result counts what it has compared.
VfTally(r, n) ==
  /\ r.shift \in Int
  /\ r.compared = Cardinality(VfReached(r.shift, n))
  /\ r.differing = Cardinality(VfDiffer(r.shift, n))
  /\ r.first \in Int
  /\ IF VfDiffer(r.shift, n) = {} THEN r.first = -1
     ELSE \E i \in VfDiffer(r.shift, n) :
            r.first = i \div Spb /\ \A j \in VfDiffer(r.shift, n) : i <= j \/ j \div Spb = i \div Spb

\* The samples of sector k that the code looks at are those the source reaches.
VfSeen(k, d) ==
  LET c == Vfy!Clip(k * Spb + d)
  IN  IF c.n > 0 THEN k * Spb + c.skip .. k * Spb + c.skip + c.n - 1 ELSE {}

\* A sector is compared exactly where, displaced, it meets the source.
LEMMA VfClip ==
  ASSUME VfSizes, NEW k \in 0 .. Count - 1, NEW d \in Int
  PROVE  /\ VfSeen(k, d) = {i \in k * Spb .. k * Spb + Spb - 1 : i + d \in 0 .. Vfy!N - 1}
         /\ VfSeen(k, d) \subseteq 0 .. Count * Spb - 1
<1>  DEFINE seen == VfSeen(k, d)
<1>1. k \in Nat /\ k < Count /\ Count \in Nat /\ Spb \in Nat /\ Spb > 0
  BY DEF VfSizes
<1>2. PICK b : b = k * Spb
  OBVIOUS
<1>3. b \in Int /\ 0 <= b /\ b + Spb <= Count * Spb /\ Count * Spb \in Int
  BY <1>1, <1>2, VfSector
<1>4. PICK n : n = Vfy!N
  OBVIOUS
<1>5. n \in Int
  BY <1>4 DEF VfSizes
<1>6. PICK skip : skip = IF b + d < 0 THEN -(b + d) ELSE 0
  OBVIOUS
<1>7. PICK len : len = (IF (b + d) + Spb > n THEN n - (b + d) ELSE Spb) - skip
  OBVIOUS
<1>8. Vfy!Clip(k * Spb + d).skip = skip /\ Vfy!Clip(k * Spb + d).n = len
  BY <1>2, <1>4, <1>6, <1>7 DEF Vfy!Clip
<1>9. seen = IF len > 0 THEN b + skip .. b + skip + len - 1 ELSE {}
  BY <1>2, <1>8 DEF VfSeen
<1>  HIDE DEF seen
<1>10. skip \in Int /\ skip >= 0 /\ skip >= -(b + d) /\ (skip = 0 \/ skip = -(b + d))
  BY <1>3, <1>6
<1>11. /\ len \in Int /\ len <= Spb - skip /\ len <= n - (b + d) - skip
       /\ len = Spb - skip \/ len = n - (b + d) - skip
  <2>1. CASE (b + d) + Spb > n
    BY <1>1, <1>3, <1>5, <1>7, <1>10, <2>1
  <2>2. CASE ~ ((b + d) + Spb > n)
    BY <1>1, <1>3, <1>5, <1>7, <1>10, <2>2
  <2>  QED
    BY <2>1, <2>2
<1>12. ASSUME NEW i \in seen PROVE i \in Int /\ b + skip <= i /\ i <= b + skip + len - 1
  <2>1. i \in b + skip .. b + skip + len - 1
    BY <1>9, <1>12
  <2>  QED
    BY <1>3, <1>10, <1>11, <2>1
<1>13. ASSUME NEW i \in Int, b + skip <= i, i <= b + skip + len - 1 PROVE i \in seen
  <2>1. len > 0
    BY <1>3, <1>10, <1>11, <1>13
  <2>2. i \in b + skip .. b + skip + len - 1
    BY <1>3, <1>10, <1>11, <1>13
  <2>  QED
    BY <1>9, <2>1, <2>2
<1>14. \A i \in seen : i \in b .. b + Spb - 1 /\ i + d \in 0 .. n - 1
  BY <1>1, <1>3, <1>5, <1>10, <1>11, <1>12
<1>15. \A i \in b .. b + Spb - 1 : i + d \in 0 .. n - 1 => i \in seen
  BY <1>1, <1>3, <1>5, <1>10, <1>11, <1>13
<1>16. seen = {i \in b .. b + Spb - 1 : i + d \in 0 .. n - 1}
  BY <1>14, <1>15
<1>17. seen \subseteq 0 .. Count * Spb - 1
  BY <1>1, <1>3, <1>14
<1>  QED
  BY <1>2, <1>4, <1>16, <1>17 DEF seen

\* What a sector adds.
LEMMA VfCounted ==
  ASSUME NEW A, NEW B, IsFiniteSet(A), IsFiniteSet(B), A \cap B = {}
  PROVE  Cardinality(A \cup B) = Cardinality(A) + Cardinality(B)
<1>1. Cardinality(A \cap B) = 0
  BY FS_EmptySet
<1>2. Cardinality(A \cup B) = Cardinality(A) + Cardinality(B) - Cardinality(A \cap B)
  BY FS_Union
<1>3. Cardinality(A) \in Nat /\ Cardinality(B) \in Nat
  BY FS_CardinalityType
<1>  QED
  BY <1>1, <1>2, <1>3

\* A result has its fields, whatever is set.
VfFields == {"tier", "degraded", "aligned", "shift", "compared", "differing", "first", "hard", "census"}

\* Comparing one more sector extends the tally by its samples.
LEMMA VfCompareStep ==
  ASSUME VfSizes, NEW k \in 0 .. Count - 1, DOMAIN vf_res = VfFields, VfTally(vf_res, k * Spb),
         NEW q, q = Vfy!CompareSector(k)
  PROVE  /\ VfTally(q, (k + 1) * Spb) /\ DOMAIN q = VfFields
         /\ q.shift = vf_res.shift /\ q.tier = vf_res.tier /\ q.degraded = vf_res.degraded
         /\ q.aligned = vf_res.aligned /\ q.census = vf_res.census
<1>  DEFINE d    == vf_res.shift
            seen == VfSeen(k, d)
            diff == {i \in seen : LET j == i + d IN
                       IF i \in Vfy!SourceSamples /\ j \in 0 .. Vfy!N - 1 THEN Vfy!Delivered(i) # vf_source[j] ELSE TRUE}
            x    == vf_res.compared + Cardinality(seen)
            y    == vf_res.differing + Cardinality(diff)
            w    == IF vf_res.first < 0 /\ diff # {} THEN k ELSE vf_res.first
            old  == VfReached(d, k * Spb)
            oldd == VfDiffer(d, k * Spb)
<1>1. d \in Int /\ vf_res.first \in Int
  BY DEF VfTally
<1>2. q = [vf_res EXCEPT !.compared = x, !.differing = y, !.first = w]
  BY VfCardinality, Zenon DEF Vfy!CompareSector, VfSeen
<1>3. /\ DOMAIN q = VfFields /\ q.compared = x /\ q.differing = y /\ q.first = w
      /\ q.shift = d /\ q.tier = vf_res.tier /\ q.degraded = vf_res.degraded
      /\ q.aligned = vf_res.aligned /\ q.census = vf_res.census
  <2>  HIDE DEF x, y, w
  <2>  QED
    BY <1>2 DEF VfFields
<1>4. /\ seen = {i \in k * Spb .. k * Spb + Spb - 1 : i + d \in 0 .. Vfy!N - 1}
      /\ seen \subseteq 0 .. Count * Spb - 1
  BY <1>1, VfClip
<1>  HIDE DEF seen
<1>5. PICK b : b = k * Spb
  OBVIOUS
<1>6. /\ b \in Nat /\ (k + 1) * Spb = b + Spb /\ Spb \in Nat /\ Spb > 0 /\ k \in Nat
      /\ \A i \in Int : b <= i /\ i < b + Spb => i \div Spb = k
  BY <1>5, VfSector DEF VfSizes
<1>7. diff = {i \in seen : Vfy!Delivered(i) # vf_source[i + d]}
  <2>1. \A i \in seen : i \in Vfy!SourceSamples /\ i + d \in 0 .. Vfy!N - 1
    BY <1>4 DEF Vfy!SourceSamples
  <2>  QED
    BY <2>1
<1>8. Vfy!N \in Nat
  BY DEF VfSizes
<1>9. VfReached(d, b + Spb) = old \cup seen
  <2>1. ASSUME NEW i \in Int PROVE i \in 0 .. b + Spb - 1 <=> i \in 0 .. b - 1 \/ i \in b .. b + Spb - 1
    BY <1>6
  <2>2. b + Spb \in Nat
    BY <1>6
  <2>  QED
    BY <1>4, <1>5, <1>6, <1>8, <2>1 DEF VfReached
<1>10. VfDiffer(d, b + Spb) = oldd \cup diff
  BY <1>5, <1>7, <1>9 DEF VfDiffer
<1>11. old \subseteq 0 .. b - 1 /\ seen \subseteq b .. b + Spb - 1
  BY <1>4, <1>5 DEF VfReached
<1>12. oldd \subseteq 0 .. b - 1 /\ diff \subseteq b .. b + Spb - 1
  BY <1>5, <1>7, <1>11 DEF VfDiffer
<1>  HIDE DEF old, oldd, diff
<1>13. /\ vf_res.compared = Cardinality(old) /\ vf_res.differing = Cardinality(oldd)
       /\ IF oldd = {} THEN vf_res.first = -1
          ELSE \E i \in oldd : vf_res.first = i \div Spb /\ \A j \in oldd : i <= j \/ j \div Spb = i \div Spb
  BY DEF VfTally, old, oldd
<1>14. b + Spb \in Nat
  BY <1>6
<1>15. x = Cardinality(old \cup seen) /\ y = Cardinality(oldd \cup diff)
  <2>1. IsFiniteSet(0 .. b - 1) /\ IsFiniteSet(b .. b + Spb - 1)
    BY <1>6, FS_Interval
  <2>2. IsFiniteSet(old) /\ IsFiniteSet(oldd) /\ IsFiniteSet(seen) /\ IsFiniteSet(diff)
    BY <1>11, <1>12, <2>1, FS_Subset
  <2>3. old \cap seen = {} /\ oldd \cap diff = {}
    BY <1>6, <1>11, <1>12
  <2>  QED
    BY <1>13, <2>2, <2>3, VfCounted
<1>17. /\ w \in Int
       /\ IF oldd \cup diff = {} THEN w = -1
          ELSE \E i \in oldd \cup diff :
                 w = i \div Spb /\ \A j \in oldd \cup diff : i <= j \/ j \div Spb = i \div Spb
  <2>1. CASE oldd = {} /\ diff = {}
    BY <1>13, <2>1
  <2>2. CASE oldd = {} /\ diff # {}
    <3>1. w = k
      BY <1>13, <2>2
    <3>2. \A i \in diff : i \div Spb = k
      BY <1>6, <1>12
    <3>  HIDE DEF w
    <3>  QED
      BY <1>6, <2>2, <3>1, <3>2
  <2>3. CASE oldd # {}
    <3>1. PICK i \in oldd : vf_res.first = i \div Spb /\ \A j \in oldd : i <= j \/ j \div Spb = i \div Spb
      BY <1>13, <2>3
    <3>2. i \in Nat /\ i <= b - 1 /\ \A j \in diff : j \in Int /\ b <= j
      BY <1>6, <1>12
    <3>3. i \div Spb \in Nat
      BY <1>6, <3>2
    <3>4. w = i \div Spb
      BY <3>1, <3>3
    <3>5. \A j \in diff : i <= j
      BY <1>6, <3>2
    <3>  HIDE DEF w
    <3>  QED
      BY <2>3, <3>1, <3>3, <3>4, <3>5
  <2>  QED
    BY <2>1, <2>2, <2>3
<1>  HIDE DEF x, y, w, d
<1>18. VfTally(q, b + Spb)
  <2>1. q.shift = d /\ q.compared = x /\ q.differing = y /\ q.first = w
    BY <1>3
  <2>  QED
    BY <1>1, <1>9, <1>10, <1>15, <1>17, <2>1, Zenon DEF VfTally
<1>  QED
  BY <1>3, <1>5, <1>6, <1>18 DEF d

------------------------------------------------------------------------------
(* Verify: the call.                                                       *)

VfTallied == VfTally(vf_res, vf_next * Spb)

VfIInv ==
  /\ vf_truth \in Int /\ -ShiftMax <= vf_truth /\ vf_truth <= ShiftMax /\ vf_want \in Int
  /\ vf_next \in 0 .. Count /\ vf_anchor \in 1 .. 3 /\ vf_tier \in 0 .. vf_want
  /\ DOMAIN vf_res = VfFields
  /\ vf_at \in {"counters", "c2", "align"} =>
       /\ vf_next = 0 /\ ~ vf_res.aligned
       /\ vf_res.compared = 0 /\ vf_res.differing = 0 /\ vf_res.first = -1
  /\ vf_at \in {"compare", "census"} \/ (vf_at = "done" /\ vf_rc = "ok" /\ vf_res.aligned) => VfTallied
  /\ vf_at = "census" \/ (vf_at = "done" /\ vf_rc = "ok" /\ vf_res.aligned) => vf_next = Count
  /\ vf_at = "census" => vf_tier = 2
  /\ vf_at \in {"counters", "c2"} => vf_res.tier = 0
  /\ vf_at \in {"align", "compare", "census"} =>
       /\ vf_res.tier = vf_tier /\ (vf_res.degraded <=> vf_tier < vf_want)
       /\ vf_tier > 0 => vf_c2
  /\ Vfy!AlignedIsTrue /\ Vfy!TierIsAnswered

\* What is delivered is the disc's, and no call changes that.
LEMMA VfTallyKept ==
  ASSUME NEW q, NEW n, VfTally(q, n), UNCHANGED Vfy!disc, n = vf_next' * Spb,
         vf_res'.shift = q.shift, vf_res'.compared = q.compared,
         vf_res'.differing = q.differing, vf_res'.first = q.first
  PROVE  VfTallied'
<1>1. \A i : Vfy!Delivered(i)' = Vfy!Delivered(i)
  BY DEF Vfy!Delivered
<1>2. VfReached(vf_res.shift, vf_next * Spb)' = VfReached(q.shift, n)
  BY DEF VfReached
<1>3. VfDiffer(vf_res.shift, vf_next * Spb)' = VfDiffer(q.shift, n)
  BY <1>1, <1>2 DEF VfDiffer
<1>  QED
  BY <1>2, <1>3 DEF VfTallied, VfTally

\* The alignment stays true while neither it nor the recording changes.
LEMMA VfAlignedKept ==
  ASSUME Vfy!AlignedIsTrue, UNCHANGED Vfy!disc, vf_anchor' = vf_anchor,
         vf_res'.aligned = vf_res.aligned, vf_res'.shift = vf_res.shift
  PROVE  (Vfy!AlignedIsTrue)'
  BY DEF Vfy!AlignedIsTrue, Vfy!Window, Vfy!Base, Vfy!Evaluable

\* Of a result that is not aligned nothing is claimed.
LEMMA VfAlignedNot ==
  ASSUME ~ vf_res'.aligned
  PROVE  (Vfy!AlignedIsTrue)'
  BY DEF Vfy!AlignedIsTrue

\* Before anything is compared nothing is counted.
LEMMA VfNothingYet ==
  ASSUME VfSizes, NEW q, q.shift \in Int, q.compared = 0, q.differing = 0, q.first = -1
  PROVE  VfTally(q, 0)
<1>1. VfReached(q.shift, 0) = {} /\ VfDiffer(q.shift, 0) = {}
  BY DEF VfReached, VfDiffer
<1>2. Cardinality({}) = 0
  BY FS_EmptySet
<1>  QED
  BY <1>1, <1>2 DEF VfTally

\* The invariant of a verification holds at the start.
LEMMA VfInitInv ==
  ASSUME Vfy!VerifyAssumption, \A b \in Burns : Vfy!IsBurn(b), VerifyInit
  PROVE  VfIInv
<1>1. PICK b \in Burns : /\ vf_source = b.source /\ vf_truth = b.truth /\ vf_wrong = b.wrong
                         /\ vf_unread = b.unreadable /\ vf_want = b.want /\ vf_req = b.require
  BY DEF VerifyInit
<1>2. VfSizes
  BY VfSizesHold
<1>3. vf_truth \in Int /\ -ShiftMax <= vf_truth /\ vf_truth <= ShiftMax /\ vf_want \in 0 .. 2
  BY <1>1, <1>2, SMTT(40) DEF Vfy!IsBurn, VfSizes
<1>4. /\ vf_at = "counters" /\ vf_tier = vf_want /\ vf_c2 = FALSE /\ vf_anchor = 1 /\ vf_next = 0
      /\ vf_res = Vfy!NoResult
  BY DEF VerifyInit, Vfy!CallInit
<1>5. /\ DOMAIN vf_res = VfFields /\ vf_res.tier = 0 /\ vf_res.compared = 0 /\ vf_res.differing = 0
      /\ vf_res.first = -1
  BY <1>4 DEF Vfy!NoResult, VfFields
<1>6. ~ vf_res.aligned
  BY <1>4 DEF Vfy!NoResult
<1>7. Vfy!AlignedIsTrue /\ Vfy!TierIsAnswered
  BY <1>4, <1>6 DEF Vfy!AlignedIsTrue, Vfy!TierIsAnswered
<1>8. vf_next \in 0 .. Count /\ vf_anchor \in 1 .. 3 /\ vf_tier \in 0 .. vf_want
  BY <1>2, <1>3, <1>4 DEF VfSizes
<1>  QED
  BY <1>3, <1>4, <1>5, <1>6, <1>7, <1>8 DEF VfIInv

\* Every step of a verification keeps the invariant.
LEMMA VfStepInv ==
  ASSUME Vfy!VerifyAssumption, VfIInv, [Vfy!Next]_(Vfy!vars)
  PROVE  VfIInv'
<1>1. VfSizes
  BY VfSizesHold
<1>2. CASE UNCHANGED Vfy!vars
  <2>1. VfTallied => VfTallied'
    BY <1>2, VfTallyKept DEF VfTallied
  <2>2. (Vfy!AlignedIsTrue)'
    BY <1>2, VfAlignedKept DEF VfIInv
  <2>3. (Vfy!TierIsAnswered)'
    BY <1>2 DEF VfIInv, Vfy!TierIsAnswered
  <2>  QED
    BY <1>2, <2>1, <2>2, <2>3 DEF VfIInv
<1>3. CASE Vfy!ResolveCounters
  <2>1. /\ vf_at = "counters" /\ vf_at' = "c2" /\ UNCHANGED <<Vfy!disc, vf_c2, vf_anchor, vf_next, vf_res, vf_rc>>
        /\ vf_tier' \in 0 .. vf_want
    BY <1>3 DEF Vfy!ResolveCounters, VfIInv
  <2>2. (Vfy!AlignedIsTrue)' /\ (Vfy!TierIsAnswered)'
    BY <2>1, VfAlignedKept DEF VfIInv, Vfy!TierIsAnswered
  <2>  QED
    BY <2>1, <2>2 DEF VfIInv
<1>4. CASE Vfy!ResolveC2
  <2>1. /\ vf_at = "c2" /\ UNCHANGED <<Vfy!disc, vf_anchor, vf_next>>
        /\ vf_tier' \in {0, vf_tier} /\ (vf_tier' > 0 => vf_c2')
    BY <1>4 DEF Vfy!ResolveC2, VfIInv
  <2>2. \/ vf_at' = "done" /\ vf_rc' = "unsupported" /\ vf_res' = vf_res
        \/ vf_at' = "align" /\ vf_res' = [vf_res EXCEPT !.tier = vf_tier', !.degraded = vf_tier' < vf_want]
    BY <1>4 DEF Vfy!ResolveC2, Vfy!Return
  <2>3. vf_tier' \in 0 .. vf_want
    BY <2>1 DEF VfIInv
  <2>4. CASE vf_at' = "done" /\ vf_rc' = "unsupported" /\ vf_res' = vf_res
    <3>1. (Vfy!AlignedIsTrue)' /\ (Vfy!TierIsAnswered)'
      BY <2>1, <2>4, VfAlignedKept DEF VfIInv, Vfy!TierIsAnswered
    <3>  QED
      BY <2>1, <2>3, <2>4, <3>1 DEF VfIInv
  <2>5. CASE vf_at' = "align" /\ vf_res' = [vf_res EXCEPT !.tier = vf_tier', !.degraded = vf_tier' < vf_want]
    <3>1. /\ DOMAIN vf_res' = VfFields /\ vf_res'.tier = vf_tier' /\ vf_res'.compared = vf_res.compared
          /\ vf_res'.differing = vf_res.differing /\ vf_res'.first = vf_res.first
          /\ vf_res'.aligned = vf_res.aligned
      BY <2>5 DEF VfIInv, VfFields
    <3>2. vf_res'.degraded <=> vf_tier' < vf_want
      BY <2>5 DEF VfIInv, VfFields
    <3>3. ~ vf_res'.aligned
      BY <2>1, <3>1 DEF VfIInv
    <3>4. (Vfy!AlignedIsTrue)' /\ (Vfy!TierIsAnswered)'
      BY <2>5, <3>3, VfAlignedNot DEF Vfy!TierIsAnswered
    <3>  QED
      BY <2>1, <2>3, <2>5, <3>1, <3>2, <3>3, <3>4 DEF VfIInv
  <2>  QED
    BY <2>2, <2>4, <2>5
<1>5. CASE Vfy!TryAnchor
  <2>1. vf_at = "align" /\ UNCHANGED <<Vfy!disc, vf_tier, vf_c2, vf_next>>
    BY <1>5 DEF Vfy!TryAnchor
  <2>2. CASE vf_res' = vf_res /\ vf_at' \in {"align", "done"} /\ vf_anchor' \in 1 .. 3
    <3>1. ~ vf_res'.aligned
      BY <2>1, <2>2 DEF VfIInv
    <3>2. (Vfy!AlignedIsTrue)'
      BY <3>1, VfAlignedNot
    <3>3. (Vfy!TierIsAnswered)'
      BY <2>1, <2>2, <3>1 DEF VfIInv, Vfy!TierIsAnswered
    <3>  QED
      BY <2>1, <2>2, <3>1, <3>2, <3>3 DEF VfIInv
  <2>3. ASSUME Vfy!NextAnchor PROVE vf_res' = vf_res /\ vf_at' \in {"align", "done"} /\ vf_anchor' \in 1 .. 3
    BY <2>1, <2>3 DEF Vfy!NextAnchor, Vfy!Return, VfIInv
  <2>4. ASSUME Vfy!Return("io"), UNCHANGED <<vf_anchor, vf_res>>
        PROVE  vf_res' = vf_res /\ vf_at' \in {"align", "done"} /\ vf_anchor' \in 1 .. 3
    BY <2>4 DEF Vfy!Return, VfIInv
  <2>  DEFINE shift == Vfy!Scores(vf_anchor).shift
  <2>5. CASE /\ Vfy!Accepted(Vfy!Scores(vf_anchor)) /\ vf_at' = "compare" /\ UNCHANGED <<vf_anchor, vf_rc>>
             /\ vf_res' = [vf_res EXCEPT !.aligned = TRUE, !.shift = shift]
    <3>1. /\ shift \in Int
          /\ Vfy!Evaluable(vf_anchor, vf_truth)
               /\ Cardinality(VfSpoilt(vf_anchor)) < Vfy!AnchorSamples \div SepDiv
               => shift = vf_truth
      BY <1>1, <2>5, VfAccepted DEF VfIInv
    <3>  HIDE DEF shift
    <3>2. /\ DOMAIN vf_res' = VfFields /\ vf_res'.tier = vf_res.tier /\ vf_res'.compared = 0
          /\ vf_res'.differing = 0 /\ vf_res'.first = -1 /\ vf_res'.shift = shift
      BY <2>1, <2>5 DEF VfIInv, VfFields
    <3>3. vf_res'.degraded <=> vf_res.degraded
      BY <2>5 DEF VfIInv, VfFields
    <3>4. VfTally(vf_res', 0)
      BY <1>1, <3>1, <3>2, VfNothingYet
    <3>5. VfTallied'
      <4>1. 0 = vf_next' * Spb
        BY <1>1, <2>1 DEF VfIInv, VfSizes
      <4>  QED
        BY <2>1, <3>4, <4>1, VfTallyKept
    <3>6. (Vfy!AlignedIsTrue)'
      <4>1. VfSpoilt(vf_anchor) = {i \in Vfy!Window(vf_anchor) : i \in vf_wrong \/ i \div Spb \in vf_unread}
        BY DEF VfSpoilt
      <4>2. UNCHANGED <<vf_anchor, vf_truth, vf_wrong, vf_unread>>
        BY <2>1, <2>5
      <4>  QED
        BY <3>1, <3>2, <4>1, <4>2, VfCardinality DEF Vfy!AlignedIsTrue, Vfy!Window, Vfy!Base, Vfy!Evaluable
    <3>7. (Vfy!TierIsAnswered)'
      BY <2>5 DEF Vfy!TierIsAnswered
    <3>  QED
      BY <2>1, <2>5, <3>2, <3>3, <3>5, <3>6, <3>7 DEF VfIInv
  <2>  QED
    BY <1>5, <2>2, <2>3, <2>4, <2>5 DEF Vfy!TryAnchor
<1>6. CASE Vfy!Compare
  <2>1. /\ vf_at = "compare" /\ vf_next < Count /\ UNCHANGED <<Vfy!disc, vf_tier, vf_c2, vf_anchor>>
    BY <1>6 DEF Vfy!Compare
  <2>2. \/ vf_res' = Vfy!CompareSector(vf_next) /\ vf_next' = vf_next + 1 /\ vf_at' = vf_at
        \/ vf_at' = "done" /\ vf_rc' = "canceled" /\ vf_res' = vf_res /\ vf_next' = vf_next
    BY <1>6 DEF Vfy!Compare, Vfy!Return
  <2>3. CASE vf_res' = Vfy!CompareSector(vf_next) /\ vf_next' = vf_next + 1 /\ vf_at' = vf_at
    <3>1. vf_next \in 0 .. Count - 1 /\ DOMAIN vf_res = VfFields /\ VfTally(vf_res, vf_next * Spb)
          /\ vf_next' \in 0 .. Count
      BY <1>1, <2>1, <2>3 DEF VfIInv, VfTallied, VfSizes
    <3>2. /\ VfTally(vf_res', (vf_next + 1) * Spb) /\ DOMAIN vf_res' = VfFields
          /\ vf_res'.shift = vf_res.shift /\ vf_res'.tier = vf_res.tier
          /\ vf_res'.degraded = vf_res.degraded /\ vf_res'.aligned = vf_res.aligned
      BY <1>1, <2>3, <3>1, VfCompareStep
    <3>3. VfTallied'
      BY <2>1, <2>3, <3>2, VfTallyKept
    <3>4. (Vfy!AlignedIsTrue)'
      BY <2>1, <3>2, VfAlignedKept DEF VfIInv
    <3>5. (Vfy!TierIsAnswered)'
      BY <2>1, <2>3 DEF Vfy!TierIsAnswered
    <3>  QED
      BY <2>1, <2>3, <3>1, <3>2, <3>3, <3>4, <3>5 DEF VfIInv
  <2>4. CASE vf_at' = "done" /\ vf_rc' = "canceled" /\ vf_res' = vf_res /\ vf_next' = vf_next
    <3>1. (Vfy!AlignedIsTrue)' /\ (Vfy!TierIsAnswered)'
      BY <2>1, <2>4, VfAlignedKept DEF VfIInv, Vfy!TierIsAnswered
    <3>  QED
      BY <2>1, <2>4, <3>1 DEF VfIInv
  <2>  QED
    BY <2>2, <2>3, <2>4
<1>7. CASE Vfy!Compared
  <2>1. /\ vf_at = "compare" /\ vf_next = Count /\ UNCHANGED <<Vfy!disc, vf_tier, vf_c2, vf_anchor, vf_next>>
        /\ \/ vf_tier = 2 /\ vf_at' = "census"
           \/ vf_tier # 2 /\ vf_at' = "done" /\ vf_rc' = "ok"
    BY <1>7 DEF Vfy!Compared, Vfy!Return
  <2>2. \/ vf_res' = vf_res
        \/ vf_res' = [vf_res EXCEPT !.hard = Vfy!Cardinality(vf_unread)]
    BY <1>7 DEF Vfy!Compared
  <2>3. /\ DOMAIN vf_res' = VfFields /\ vf_res'.shift = vf_res.shift /\ vf_res'.compared = vf_res.compared
        /\ vf_res'.differing = vf_res.differing /\ vf_res'.first = vf_res.first
        /\ vf_res'.tier = vf_res.tier /\ vf_res'.degraded = vf_res.degraded
        /\ vf_res'.aligned = vf_res.aligned
    BY <2>2 DEF VfIInv, VfFields
  <2>4. VfTallied'
    BY <2>1, <2>3, VfTallyKept DEF VfIInv, VfTallied
  <2>5. (Vfy!AlignedIsTrue)'
    BY <2>1, <2>3, VfAlignedKept DEF VfIInv
  <2>6. (Vfy!TierIsAnswered)'
    BY <2>1, <2>3 DEF VfIInv, Vfy!TierIsAnswered
  <2>  QED
    BY <2>1, <2>3, <2>4, <2>5, <2>6 DEF VfIInv
<1>8. CASE Vfy!Census
  <2>1. /\ vf_at = "census" /\ vf_at' = "done" /\ vf_rc' = "ok"
        /\ UNCHANGED <<Vfy!disc, vf_tier, vf_c2, vf_anchor, vf_next>>
    BY <1>8 DEF Vfy!Census, Vfy!Return
  <2>2. \/ vf_res' = [vf_res EXCEPT !.census = TRUE]
        \/ vf_res' = [vf_res EXCEPT !.tier = 1, !.degraded = TRUE]
    BY <1>8 DEF Vfy!Census, Vfy!AfterFailedCensus
  <2>3. /\ DOMAIN vf_res' = VfFields /\ vf_res'.shift = vf_res.shift /\ vf_res'.compared = vf_res.compared
        /\ vf_res'.differing = vf_res.differing /\ vf_res'.first = vf_res.first
        /\ vf_res'.aligned = vf_res.aligned
    BY <2>2 DEF VfIInv, VfFields
  <2>4. \/ vf_res'.tier = vf_res.tier /\ (vf_res'.degraded <=> vf_res.degraded) /\ vf_res'.census
        \/ vf_res'.tier = 1 /\ vf_res'.degraded
    <3>1. ASSUME vf_res' = [vf_res EXCEPT !.census = TRUE]
          PROVE  vf_res'.tier = vf_res.tier /\ (vf_res'.degraded <=> vf_res.degraded) /\ vf_res'.census
      BY <3>1 DEF VfIInv, VfFields
    <3>2. ASSUME vf_res' = [vf_res EXCEPT !.tier = 1, !.degraded = TRUE]
          PROVE  vf_res'.tier = 1 /\ vf_res'.degraded
      BY <3>2 DEF VfIInv, VfFields
    <3>  QED
      BY <2>2, <3>1, <3>2
  <2>5. vf_tier = 2 /\ vf_res.tier = 2 /\ vf_want \in Int /\ 2 <= vf_want /\ vf_c2 /\ (vf_res.degraded <=> 2 < vf_want)
    BY <2>1 DEF VfIInv
  <2>6. VfTallied'
    BY <2>1, <2>3, VfTallyKept DEF VfIInv, VfTallied
  <2>7. (Vfy!AlignedIsTrue)'
    BY <2>1, <2>3, VfAlignedKept DEF VfIInv
  <2>8. (Vfy!TierIsAnswered)'
    <3>1. CASE vf_res'.tier = vf_res.tier /\ (vf_res'.degraded <=> vf_res.degraded) /\ vf_res'.census
      BY <2>1, <2>5, <3>1 DEF Vfy!TierIsAnswered
    <3>2. CASE vf_res'.tier = 1 /\ vf_res'.degraded
      BY <2>1, <2>5, <3>2 DEF Vfy!TierIsAnswered
    <3>  QED
      BY <2>4, <3>1, <3>2
  <2>  QED
    BY <2>1, <2>3, <2>6, <2>7, <2>8 DEF VfIInv
<1>  QED
  BY <1>2, <1>3, <1>4, <1>5, <1>6, <1>7, <1>8 DEF Vfy!Next, Vfy!Step

\* The invariant implies the properties.
LEMMA VfIInvProperties ==
  ASSUME Vfy!VerifyAssumption, VfIInv
  PROVE  Vfy!AlignedIsTrue /\ Vfy!ComparedExactly /\ Vfy!TierIsAnswered
<1>1. ASSUME vf_at = "done", vf_rc = "ok", vf_res.aligned PROVE VfTally(vf_res, Count * Spb)
  BY <1>1 DEF VfIInv, VfTallied
<1>2. Vfy!ComparedExactly
  BY <1>1, VfCardinality DEF Vfy!ComparedExactly, VfTally, VfReached, VfDiffer, Vfy!SourceSamples
<1>  QED
  BY <1>2 DEF VfIInv

\* Verify: the displacement found is the true one, every sample the source reaches is
\* compared once, and the tier named is the question answered, on every disc and for
\* every source.
THEOREM SpecVerdictIsTrue == MCSpec => []VerdictIsTrue
<1>  DEFINE Inv == subject = "verify" => VfIInv
<1>1. MCInit => Inv
  BY DriveAssumption, VfInitInv DEF MCInit, DriveAssumption
<1>2. Inv /\ [MCNext]_<<subject, vars, regs>> => Inv'
  BY DriveAssumption, WhoseStep, VfStepInv DEF DriveAssumption
<1>3. Inv => VerdictIsTrue
  BY DriveAssumption, VfIInvProperties DEF VerdictIsTrue, DriveAssumption
<1>  QED
  BY <1>1, <1>2, <1>3, PTL DEF MCSpec
==============================================================================
