------------------------------- MODULE Handle -------------------------------
(***************************************************************************)
(* A device handle and the settings of the drive behind it: open, close,   *)
(* set_speed and eject (src/device.c, src/transport/sgio.c), the vendor    *)
(* driver (src/drive/driver.c), the read-speed uncap (src/drive/uncap.c),  *)
(* the counter census (src/drive/census.c) and the Plextor driver          *)
(* (src/drivers/plextor/plextor.c).                                        *)
(*                                                                         *)
(* A handle is used by one thread; a call is a series of commands, and any *)
(* of them may be refused, or fail with its effect done or not.  What a    *)
(* call changes in the drive stays changed when the handle is closed.      *)
(***************************************************************************)
EXTENDS Integers, FiniteSets

CONSTANTS
  Files,      \* the shared objects in the driver directory
  Loadable,   \* those load_driver accepts (entry symbol, ABI range, mandatory slots)
  Reporting,  \* those of ABI 6, with settings_get
  Matching,   \* those that match the drive's identity
  Samples,    \* the census span, in cadences
  Queries,    \* commands of one settings report
  EjectPolls  \* ADSC_EJECT_VERIFY_MS / ADSC_EJECT_POLL_MS

ASSUME HandleAssumption ==
  /\ Files \cap {"none", "set", "push", "pop"} = {}   \* op holds calls and files
  /\ Loadable \subseteq Files /\ Reporting \subseteq Files /\ Matching \subseteq Files
  /\ Samples \in Nat \ {0} /\ Queries \in Nat \ {0} /\ EjectPolls \in Nat \ {0}

\* (Definitions whose names end in _Bug restate the one that follows them with a
\* plausible mistake; nothing uses them but the checks that the properties bite.)

VARIABLES
  open, drv, loaded, id_valid, uncap_set, streaming,  \* the handle
  spd, armed, wspeed,  \* the drive: SpeedRead, the counters, the write speed
  op, at, arg, \* the call, the command it is about to send, its argument
  saved,       \* what the call found out first: see the calls
  left,        \* loop turns left
  rc,          \* "ok" or "err": what the last call returned
  prior,       \* accudisc_speed_uncap_push's *prior_out, kept by its caller
  answer,      \* the verdict, when the last call was accudisc_speed_uncap_probe
  before, doubt, owed, lost  \* history, see the properties

handle == <<open, drv, loaded, id_valid, uncap_set, streaming>>
drive  == <<spd, armed, wspeed>>
call   == <<op, at, arg, saved, left, rc, answer>>
hist   == <<before, doubt, owed, lost>>
vars   == <<handle, drive, call, prior, hist>>

Init ==
  /\ open = FALSE /\ drv = "none" /\ loaded = {} /\ id_valid = FALSE
  /\ uncap_set = 0 /\ streaming = 0
  /\ spd \in BOOLEAN /\ armed = FALSE /\ wspeed = "chosen"
  /\ op = "none" /\ at = "idle" /\ arg = FALSE /\ saved = FALSE /\ left = 0
  /\ rc = "ok" /\ answer = "unknown"
  /\ prior = -1
  /\ before = FALSE /\ doubt = FALSE /\ owed = FALSE /\ lost = FALSE

Idle == at = "idle"

\* What a command comes back with: done, refused by the drive (ERR_SENSE,
\* "illegal" with key 5), or not answered (ERR_IO).
Failure == {"sense", "illegal", "io"}
Result == {"ok"} \cup Failure

\* The values a setting asked to become w may have afterwards: what was asked or,
\* when the drive ignores the request, what it was; either when the answer is lost.
Outcomes(r, w, was) == IF r \in {"ok", "io"} THEN {w, was} ELSE {was}

Begin(c, place, a, n) ==
  /\ Idle /\ open
  /\ op' = c /\ at' = place /\ arg' = a /\ left' = n
  /\ saved' = FALSE /\ rc' = "ok" /\ answer' = "unknown"

GoTo(place) == at' = place /\ UNCHANGED <<op, arg, saved, left, rc, answer>>

Code(ok) == IF ok THEN "ok" ELSE "err"

Verdict(ok, a) ==
  /\ at' = "idle" /\ op' = "none" /\ arg' = FALSE /\ saved' = FALSE /\ left' = 0
  /\ rc' = Code(ok) /\ answer' = a

Return(ok) == Verdict(ok, "unknown")

\* A call that is over without having sent anything.
Refuse == Idle /\ open /\ Return(FALSE)

------------------------------------------------------------------------------
(* Open and close.                                                         *)

Open ==
  /\ Idle /\ ~open
  /\ open' = TRUE
  /\ id_valid' = FALSE /\ uncap_set' = 0 /\ streaming' = 0
  /\ prior' = -1 /\ before' = FALSE /\ doubt' = FALSE
  /\ Return(TRUE)
  /\ UNCHANGED <<drv, loaded, drive, owed, lost>>

\* accudisc_driver_detach: an uncap set through this handle stays remembered.
Detached ==
  /\ drv' = "none"
  /\ loaded' = loaded \ {drv}

Detach ==
  /\ Idle /\ open /\ drv # "none"
  /\ Detached
  /\ Return(TRUE)
  /\ UNCHANGED <<open, id_valid, uncap_set, streaming, drive, prior, hist>>

Close ==
  /\ Idle /\ open
  /\ Detached
  /\ open' = FALSE
  /\ Return(TRUE)
  /\ UNCHANGED <<id_valid, uncap_set, streaming, drive, prior, hist>>

------------------------------------------------------------------------------
(* accudisc_driver_attach: identify, locate, attach, selftest.             *)

Attach ==
  /\ Begin("attach", IF id_valid THEN "locate" ELSE "identify", FALSE, 0)
  /\ Detached
  /\ UNCHANGED <<open, id_valid, uncap_set, streaming, drive, prior, hist>>

Identify ==
  /\ at = "identify"
  /\ \/ id_valid' = TRUE /\ GoTo("locate")
     \/ id_valid' = FALSE /\ Return(FALSE)
  /\ UNCHANGED <<open, drv, loaded, uncap_set, streaming, drive, prior, hist>>

\* A named file, or the first of the directory, in whatever order it is read,
\* that load_driver accepts and that matches; every other one is closed again.
Candidates == Loadable \cap Matching
LeftOpen_Bug(f) == Loadable \ Matching
LeftOpen(f) == {}

Locate ==
  /\ at = "locate"
  /\ \/ \E f \in Candidates :
          /\ loaded' = loaded \cup {f} \cup LeftOpen(f)
          /\ at' = "st_get" /\ op' = f
          /\ UNCHANGED <<arg, saved, left, rc, answer>>
     \/ \* no such name, none that matches, no directory
        /\ loaded' = loaded \cup LeftOpen("none")
        /\ Return(FALSE)
  /\ UNCHANGED <<open, drv, id_valid, uncap_set, streaming, drive, prior, hist>>

\* attach_verified: the driver in op is kept when its selftest returns OK.
Attached ==
  /\ drv' = op
  /\ Return(TRUE)
  /\ UNCHANGED <<open, loaded, id_valid, uncap_set, streaming>>

SelftestFailed ==
  /\ loaded' = loaded \ {op}
  /\ Return(FALSE)
  /\ UNCHANGED <<open, drv, id_valid, uncap_set, streaming>>

\* px_selftest: read SpeedRead, set it to what was read, read it again.  Only a
\* refusal of the page falls back to the counter scan.
SelftestGet ==
  /\ at = "st_get"
  /\ \/ /\ saved' = spd /\ at' = "st_set"
        /\ UNCHANGED <<handle, op, arg, left, rc, answer>>
     \/ GoTo("cx_arm") /\ UNCHANGED handle
     \/ SelftestFailed
  /\ UNCHANGED <<drive, prior, hist>>

SelftestValue_Bug(cur) == TRUE
SelftestValue(cur) == cur

SelftestSet ==
  /\ at = "st_set"
  /\ \E r \in Result :
       /\ spd' \in Outcomes(r, SelftestValue(saved), spd)
       /\ IF r = "ok" /\ spd' = SelftestValue(saved)
          THEN GoTo("st_reget") /\ UNCHANGED handle
          ELSE SelftestFailed
  /\ UNCHANGED <<armed, wspeed, prior, hist>>

SelftestReget ==
  /\ at = "st_reget"
  /\ \/ spd = SelftestValue(saved) /\ Attached
     \/ SelftestFailed
  /\ UNCHANGED <<drive, prior, hist>>

\* The commands of 0xEA that change something, for whoever sends them.  One that
\* comes back as a failure may have been done all the same.
Arm(r) ==
  /\ armed' \in IF r = "ok" THEN {TRUE} ELSE IF r = "io" THEN {armed, TRUE} ELSE {armed}
  /\ lost' = (lost \/ (armed' /\ r = "io"))
Disarm(r) ==
  /\ armed' \in IF r = "ok" THEN {FALSE} ELSE IF r = "io" THEN {armed, FALSE} ELSE {armed}
  /\ lost' = armed'
  /\ owed' = FALSE

\* px_selftest_cx: arm, read the counters, disarm.
SelftestArm ==
  /\ at = "cx_arm"
  /\ \E r \in Result :
       /\ Arm(r)
       /\ IF r = "ok" THEN GoTo("cx_read") /\ UNCHANGED handle ELSE SelftestFailed
  /\ UNCHANGED <<spd, wspeed, prior, before, doubt, owed>>

SelftestCounters ==
  /\ at = "cx_read"
  /\ GoTo("cx_end") \/ GoTo("cx_abort")
  /\ UNCHANGED <<handle, drive, prior, hist>>

SelftestDisarm ==
  /\ at \in {"cx_end", "cx_abort"}
  /\ \E r \in Result :
       /\ Disarm(r)
       /\ IF r = "ok" /\ at = "cx_end" THEN Attached ELSE SelftestFailed
  /\ UNCHANGED <<spd, wspeed, prior, before, doubt>>

------------------------------------------------------------------------------
(* The read-speed uncap.                                                   *)

CallUncapSet(on) ==
  /\ drv # "none" /\ Begin("set", "uncap_set", on, 0)
  /\ UNCHANGED <<handle, drive, prior, hist>>

\* Push reads the setting before it sets it, and reports what it read whether
\* or not the set works; without an answer there is nothing to put back.
CallPush(on) ==
  /\ drv # "none" /\ Begin("push", "uncap_get", on, 0)
  /\ prior' = -1 /\ before' = spd
  /\ UNCHANGED <<handle, drive, doubt, owed, lost>>

CallPop ==
  /\ \/ prior = -1 /\ Idle /\ open /\ Return(TRUE)
     \/ prior # -1 /\ drv # "none" /\ Begin("pop", "uncap_set", prior = 1, 0)
  /\ UNCHANGED <<handle, drive, prior, hist>>

\* Without a driver every vendor call is refused; a push has its caller pop nothing.
NoDriver ==
  /\ drv = "none" /\ Refuse
  /\ prior' \in {prior, -1}
  /\ UNCHANGED <<handle, drive, hist>>

UncapGet ==
  /\ at = "uncap_get"
  /\ \/ /\ op = "push"
        /\ prior' = IF spd THEN 1 ELSE 0
        /\ GoTo("uncap_set")
     \/ /\ op = "probe"
        /\ Verdict(TRUE, IF spd THEN "on" ELSE "off")
        /\ UNCHANGED prior
     \/ /\ Return(op = "probe")     \* no answer: the probe says unknown
        /\ UNCHANGED prior
  /\ UNCHANGED <<handle, drive, hist>>

PriorWhenSetFails_Bug(p) == -1
PriorWhenSetFails(p) == p

\* Only what the drive accepted is remembered.
MemoAfter_Bug(ok, on, old) == IF on THEN 1 ELSE -1
MemoAfter(ok, on, old) == IF ok THEN IF on THEN 1 ELSE -1 ELSE old

\* accudisc_speed_uncap_set: the SET echoes the page, so it verifies itself.
UncapSet ==
  /\ at = "uncap_set"
  /\ \E r \in Result :
       /\ spd' \in Outcomes(r, arg, spd)
       /\ LET ok == r = "ok" /\ spd' = arg IN
          /\ uncap_set' = MemoAfter(ok, arg, uncap_set)
          /\ prior' = IF op = "push" /\ ~ok THEN PriorWhenSetFails(prior) ELSE prior
          /\ doubt' = (~ok /\ uncap_set # 0)
          /\ Return(ok)
  /\ UNCHANGED <<open, drv, loaded, id_valid, streaming, armed, wspeed, before, owed, lost>>

\* accudisc_speed_uncap_probe: what this handle set, else what a driver says,
\* else unknown.  (The page 2A figure it also reports decides nothing.)
CallProbe ==
  /\ \/ /\ uncap_set # 0 /\ Idle /\ open
        /\ Verdict(TRUE, IF uncap_set > 0 THEN "on" ELSE "off")
     \/ /\ uncap_set = 0 /\ drv = "none" /\ Idle /\ open
        /\ Verdict(TRUE, "unknown")
     \/ /\ uncap_set = 0 /\ drv # "none"
        /\ Begin("probe", "uncap_get", FALSE, 0)
  /\ UNCHANGED <<handle, drive, prior, hist>>

------------------------------------------------------------------------------
(* Counters: the three calls, and accudisc_counter_census, which arms after *)
(* every argument check and disarms on every way out of its loop.          *)

CallCounterBegin ==
  /\ drv # "none" /\ Begin("counters", "arm", FALSE, 0)
  /\ UNCHANGED <<handle, drive, prior, hist>>

CallCounterEnd ==
  /\ drv # "none" /\ Begin("counters", "disarm", FALSE, 0)
  /\ UNCHANGED <<handle, drive, prior, hist>>

CallCensus ==
  /\ drv # "none" /\ Begin("census", "arm", FALSE, Samples)
  /\ UNCHANGED <<handle, drive, prior, hist>>

\* Where accudisc_set_speed begins.
SpeedPlace == IF streaming >= 0 THEN "page2a" ELSE "select_speed"

CountersArm ==
  /\ at = "arm"
  /\ \E r \in Result :
       /\ Arm(r)
       /\ owed' = (owed \/ (op = "counters" /\ r = "ok"))
       /\ IF r = "ok" /\ op = "census"
          THEN GoTo("sample") \/ GoTo(SpeedPlace)   \* with opts->speed_x
          ELSE Return(r = "ok")
  /\ UNCHANGED <<handle, spd, wspeed, prior, before, doubt>>

AfterBrokenLoop_Bug == "idle"
AfterBrokenLoop == "disarm"

\* The caller cancels before a sample, the counters cannot be read, or the
\* callback refuses the sample: the loop is over.
CensusBreaks ==
  /\ at = "sample" /\ left > 0
  /\ at' = AfterBrokenLoop
  /\ rc' = "err"
  /\ UNCHANGED <<op, arg, saved, left, answer, handle, drive, prior, hist>>

\* A span is read, failing or not, and its counters are.
CensusSample ==
  /\ at = "sample" /\ left > 0
  /\ left' = left - 1
  /\ UNCHANGED <<op, at, arg, saved, rc, answer, handle, drive, prior, hist>>

CensusDone ==
  /\ at = "sample" /\ left = 0
  /\ GoTo("disarm")
  /\ UNCHANGED <<handle, drive, prior, hist>>

\* The census ignores what its disarm returns.
CountersDisarm ==
  /\ at = "disarm"
  /\ \E r \in Result :
       /\ Disarm(r)
       /\ Return(IF op = "census" THEN rc = "ok" ELSE r = "ok")
  /\ UNCHANGED <<handle, spd, wspeed, prior, before, doubt>>

------------------------------------------------------------------------------
(* accudisc_vendor_settings: a report made of GETs, which an ABI 4 driver   *)
(* does not have, and which sends nothing more after a transport failure.  *)

CallSettings ==
  /\ drv # "none"
  /\ \/ drv \in Reporting /\ Begin("settings", "query", FALSE, Queries)
     \/ drv \notin Reporting /\ Refuse
  /\ UNCHANGED <<handle, drive, prior, hist>>

Query ==
  /\ at = "query"
  /\ \E r \in Result :
       IF left = 1 \/ r = "io"
       THEN Return(TRUE)
       ELSE left' = left - 1 /\ UNCHANGED <<op, at, arg, saved, rc, answer>>
  /\ UNCHANGED <<handle, drive, prior, hist>>

------------------------------------------------------------------------------
(* accudisc_set_speed and accudisc_set_speed_range.  SET STREAMING has no   *)
(* "leave the write speed alone", so the current one is read and sent back. *)

CallSetSpeed ==
  /\ Begin("speed", SpeedPlace, FALSE, 0)
  /\ UNCHANGED <<handle, drive, prior, hist>>

CallSetSpeedRange ==
  /\ Begin("range", "page2a", FALSE, 0)
  /\ UNCHANGED <<handle, drive, prior, hist>>

\* The speed has been set, or not: a census goes on without looking.
SpeedReturns(ok) ==
  IF op = "census" THEN at' = "sample" /\ saved' = FALSE /\ UNCHANGED <<op, arg, left, rc, answer>>
                   ELSE Return(ok)

\* adsc_dev_cur_write_kbps; a drive that does not say leaves 0, which the
\* descriptor reads as the maximum.
Page2A ==
  /\ at = "page2a"
  /\ saved' \in BOOLEAN       \* did it say
  /\ at' = "set_streaming"
  /\ UNCHANGED <<op, arg, left, rc, answer, handle, drive, prior, hist>>

WriteSpeedSent_Bug(said, cur) == "max"
WriteSpeedSent(said, cur) == IF said THEN cur ELSE "max"

\* An illegal request, or no answer at all, rules SET STREAMING out for this
\* handle; another refusal only for this call.
StreamingAfter(r) ==
  CASE r = "ok"               -> 1
    [] r \in {"io", "illegal"} -> -1
    [] OTHER                  -> streaming

SetStreaming ==
  /\ at = "set_streaming"
  /\ \E r \in Result :
       /\ wspeed' \in Outcomes(r, WriteSpeedSent(saved, wspeed), wspeed)
       /\ IF op = "range" THEN UNCHANGED streaming ELSE streaming' = StreamingAfter(r)
       /\ IF r = "ok" \/ op = "range" THEN SpeedReturns(r = "ok") ELSE GoTo("select_speed")
  /\ UNCHANGED <<open, drv, loaded, id_valid, uncap_set, spd, armed, prior, hist>>

SelectSpeed ==
  /\ at = "select_speed"
  /\ SpeedReturns(TRUE) \/ SpeedReturns(FALSE)
  /\ UNCHANGED <<handle, drive, prior, hist>>

\* A burn chooses a write speed.
ChooseWriteSpeed ==
  /\ Idle /\ wspeed = "max"
  /\ wspeed' = "chosen"
  /\ UNCHANGED <<handle, spd, armed, call, prior, hist>>

------------------------------------------------------------------------------
(* accudisc_eject: the ioctl's return value is not believed; the drive is   *)
(* asked until the disc is gone.  saved: it has gone; arg: another process  *)
(* has the device open, and the door stays locked.                         *)

CallEject ==
  /\ \E locked \in BOOLEAN : Begin("eject", "eject", locked, EjectPolls)
  /\ UNCHANGED <<handle, drive, prior, hist>>

TrayMoves == saved' \in {saved, ~arg}

\* Refused outright, or accepted: the tray moves at once, later or never.
EjectIoctl ==
  /\ at = "eject"
  /\ \/ Return(FALSE)
     \/ /\ at' = "verify" /\ TrayMoves
        /\ UNCHANGED <<op, arg, left, rc, answer>>
  /\ UNCHANGED <<handle, drive, prior, hist>>

\* A look every ADSC_EJECT_POLL_MS, and a last one after the last wait.
EjectVerify ==
  /\ at = "verify"
  /\ IF saved \/ left = 0 THEN Return(saved)
     ELSE left' = left - 1 /\ TrayMoves /\ UNCHANGED <<op, at, arg, rc, answer>>
  /\ UNCHANGED <<handle, drive, prior, hist>>

------------------------------------------------------------------------------
Step ==
  \/ Identify \/ Locate \/ SelftestGet \/ SelftestSet \/ SelftestReget
  \/ SelftestArm \/ SelftestCounters \/ SelftestDisarm
  \/ UncapGet \/ UncapSet
  \/ CountersArm \/ CensusBreaks \/ CensusSample \/ CensusDone \/ CountersDisarm
  \/ Query \/ Page2A \/ SetStreaming \/ SelectSpeed \/ EjectIoctl \/ EjectVerify

Next ==
  \/ Open \/ Close \/ Attach \/ Detach
  \/ \E on \in BOOLEAN : CallUncapSet(on) \/ CallPush(on)
  \/ CallPop \/ CallProbe \/ CallCounterBegin \/ CallCounterEnd \/ CallCensus
  \/ CallSettings \/ CallSetSpeed \/ CallSetSpeedRange \/ CallEject \/ NoDriver
  \/ ChooseWriteSpeed
  \/ Step

Spec == Init /\ [][Next]_vars

------------------------------------------------------------------------------
(* Properties.                                                             *)

Place == {"idle", "identify", "locate", "st_get", "st_set", "st_reget", "cx_arm",
          "cx_read", "cx_end", "cx_abort", "uncap_get", "uncap_set", "arm", "sample",
          "disarm", "query", "page2a", "set_streaming", "select_speed", "eject", "verify"}

\* Every variable has its type, and a handle that is closed is bare.
TypeOK ==
  /\ open \in BOOLEAN /\ drv \in Files \cup {"none"} /\ loaded \subseteq Files
  /\ id_valid \in BOOLEAN /\ uncap_set \in -1 .. 1 /\ streaming \in -1 .. 1
  /\ {spd, armed, arg, saved, before, doubt, owed, lost} \subseteq BOOLEAN
  /\ wspeed \in {"chosen", "max"} /\ rc \in {"ok", "err"}
  /\ at \in Place /\ prior \in -1 .. 1 /\ answer \in {"on", "off", "unknown"}
  /\ left \in 0 .. Samples \cup 0 .. Queries \cup 0 .. EjectPolls
  /\ ~open => Idle /\ drv = "none" /\ loaded = {}

\* driver.c: every way out of attach and of detach closes what it opened, so
\* between calls exactly the attached driver is loaded, and it matches the drive.
LoadedIsAttached ==
  Idle => loaded = {drv} \ {"none"} /\ loaded \subseteq Candidates

\* plextor.c on its selftest: "NO net change: the value written is the value
\* found"; device.c: "THE WRITE SPEED MUST BE CARRIED THROUGH BY HAND".  The selftest
\* never moves SpeedRead, answers lost half way included, and a read-speed call
\* changes the write speed only when the drive would not say what it was.
KeepsSettings ==
  /\ spd' # spd => op \notin Files
  /\ wspeed' # wspeed /\ ~Idle => ~saved

\* uncap.c: "failing to restore costs the user's drive state".  A push that may
\* have changed something gives its caller what to pop, also when its set failed
\* half way, and a pop that succeeds puts back what the push found.
PopsWhatItPushed ==
  at = "uncap_set" /\ Idle' =>
    /\ op = "push" /\ spd' # before => prior' # -1
    /\ op = "pop" /\ rc' = "ok" => spd' = before

\* No call leaves the drive's settings other than it found them, but for the one its
\* caller asked it to change (uncap.c, plextor.c, device.c, as above).
SettingsRestored == [][KeepsSettings /\ PopsWhatItPushed]_vars

\* census.c: "Every path out of the scan has to disarm them".  Between calls the
\* counters run only for a caller that began them itself, or where an arm or a
\* disarm was sent whose failure hides what it did.
NeverLeftArmed == Idle /\ armed => owed \/ lost

\* What is over has left nothing behind: neither a driver that is not the attached one,
\* nor counters running for nobody.
NothingLeftBehind == LoadedIsAttached /\ NeverLeftArmed

\* uncap.c, on what this handle set: "whatever the drive was doing before, we
\* know what we did"; driver.c, on a failed set: "exactly the case the probe must
\* not claim to know".
ProbeIsTrue == Idle /\ answer # "unknown" => (answer = "on") = spd

\* What does hold: the probe is right unless a later set failed.
ProbeTrueUntilSetFails == doubt \/ ProbeIsTrue
=============================================================================
