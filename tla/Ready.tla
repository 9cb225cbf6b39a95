-------------------------------- MODULE Ready --------------------------------
(***************************************************************************)
(* The readiness layer every command of a handle goes through:             *)
(* adsc_dev_exec (src/device.c), adsc_dev_wait_ready (src/drive/ready.c)   *)
(* and accudisc_load, its one caller.  A command the drive answers with a  *)
(* unit attention or "becoming ready" did not execute; dev_exec re-issues  *)
(* it, within two quotas, when its opcode is on the allowlist.             *)
(*                                                                         *)
(* The drive is external: it may give any answer to any command.  Time is  *)
(* counted in polls of ADSC_READY_POLL_MS.                                 *)
(***************************************************************************)
EXTENDS Integers

CONSTANTS
  UARetries,     \* ADSC_UA_RETRIES
  TimeoutPolls   \* ADSC_READY_TIMEOUT_MS / ADSC_READY_POLL_MS

\* What the constants must satisfy; an instance assumes it.
QuotaAssumption == UARetries \in Nat /\ TimeoutPolls \in Nat

\* (Definitions whose names end in _Bug restate the one that follows them with a
\* plausible mistake; nothing uses them but the checks that the properties bite.)

\* A command, as far as this layer tells them apart: TEST UNIT READY, another
\* interrogation, or one that changes the disc or the drive.
Command == {"tur", "query", "write"}
Repeatable_Bug(c) == TRUE
Repeatable(c) == c \in {"tur", "query"}

\* What exec_once returns, with the sense classified: GOOD, 6/28 or 6/29, 2/04,
\* 2/3A, any other sense, and no answer at all.
Answer == {"ok", "ua", "becoming", "nomedium", "sense", "io"}

\* The drive has refused the command unexecuted.
NotExecuted(a) == a \in {"ua", "becoming", "nomedium"}
\* The answers that are ACCUDISC_ERR_SENSE.
IsSense(a) == a \in {"ua", "becoming", "nomedium", "sense"}

VARIABLES
  at,              \* "idle", "issue" or "decide" in dev_exec, then "judge" in wait_ready
  caller,          \* who called dev_exec: the library at large, or load
  cmd, rc,         \* the command, and the drive's last answer to it
  ua, waited,      \* dev_exec's quotas
  ready_wait_off,  \* set for the length of a burn's open session
  polls,           \* wait_ready's own clock
  result,          \* what the last accudisc_load returned
  issued, executed \* how often this call has issued cmd, and the drive done it

vars == <<at, caller, cmd, rc, ua, waited, ready_wait_off, polls, result,
          issued, executed>>
call == <<caller, cmd, ready_wait_off, result>>

Init ==
  /\ at = "idle" /\ caller = "library"
  /\ cmd = "tur" /\ rc = "ok" /\ ua = 0 /\ waited = 0
  /\ ready_wait_off = FALSE /\ polls = 0 /\ result = "none"
  /\ issued = 0 /\ executed = 0

\* A fresh adsc_dev_exec of c.
Enter(c) ==
  /\ cmd' = c
  /\ ua' = 0 /\ waited' = 0 /\ issued' = 0 /\ executed' = 0
  /\ at' = "issue"

Exec(c) ==
  /\ at = "idle"
  /\ Enter(c)
  /\ UNCHANGED <<caller, rc, ready_wait_off, polls, result>>

\* The burn engine opens a session in the drive, or is done with it.
SetWaitOff ==
  /\ at = "idle"
  /\ ready_wait_off' = ~ready_wait_off
  /\ UNCHANGED <<at, caller, cmd, rc, ua, waited, polls, result, issued, executed>>

\* accudisc_load: the tray has closed; ask until the disc is usable.
Load ==
  /\ at = "idle"
  /\ ~ready_wait_off
  /\ caller' = "load"
  /\ polls' = 0
  /\ result' = "none"
  /\ Enter("tur")
  /\ UNCHANGED <<rc, ready_wait_off>>

LoadFails ==
  /\ at = "idle"
  /\ ~ready_wait_off
  /\ result' = "io"
  /\ UNCHANGED <<at, caller, cmd, rc, ua, waited, ready_wait_off, polls, issued, executed>>

------------------------------------------------------------------------------
(* adsc_dev_exec.                                                          *)

Issue ==
  /\ at = "issue"
  /\ \E a \in Answer :
       /\ rc' = a
       /\ executed' = IF NotExecuted(a) THEN executed ELSE executed + 1
  /\ issued' = issued + 1
  /\ at' = "decide"
  /\ UNCHANGED <<call, ua, waited, polls>>

UAQuotaLeft == ua < UARetries

\* One more unit of a quota used.
Spend_Bug(n) == n
Spend(n) == n + 1

\* Which answers are re-issued at once: the classes of adsc_ready_classify.
RetryNow(a) == a = "ua"

\* A unit attention: at once, a few times.
Reissue ==
  /\ at = "decide"
  /\ RetryNow(rc) /\ Repeatable(cmd) /\ UAQuotaLeft
  /\ ua' = Spend(ua)
  /\ at' = "issue"
  /\ UNCHANGED <<call, rc, waited, polls, issued, executed>>

\* May this call sleep for the drive?
MayWait == ~ready_wait_off /\ cmd # "tur"

\* Becoming ready: one poll interval later, until the time is up.
WaitAndReissue ==
  /\ at = "decide"
  /\ rc = "becoming" /\ Repeatable(cmd) /\ MayWait
  /\ waited < TimeoutPolls
  /\ waited' = Spend(waited)
  /\ at' = "issue"
  /\ UNCHANGED <<call, rc, ua, polls, issued, executed>>

\* Nothing (more) to be done about the answer: hand it back.
ExecReturns ==
  /\ at = "decide"
  /\ ~(Repeatable(cmd) /\ RetryNow(rc) /\ UAQuotaLeft)
  /\ ~(Repeatable(cmd) /\ rc = "becoming" /\ MayWait /\ waited < TimeoutPolls)
  /\ at' = IF caller = "load" THEN "judge" ELSE "idle"
  /\ UNCHANGED <<call, rc, ua, waited, polls, issued, executed>>

------------------------------------------------------------------------------
(* adsc_dev_wait_ready, and accudisc_load's reading of what it returns.    *)

\* load answers OK for a drive that says something terminal.
LoadResult_Bug(r) == IF r \in {"ok", "io"} THEN "ok" ELSE r
LoadResult(r) == IF r = "ok" \/ IsSense(r) THEN "ok" ELSE r

LoadReturns(r) ==
  /\ result' = LoadResult(r)
  /\ caller' = "library"
  /\ at' = "idle"
  /\ UNCHANGED <<cmd, rc, ua, waited, ready_wait_off, polls, issued, executed>>

Settled == at = "judge" /\ rc \in {"ok", "nomedium", "sense", "io"} /\ LoadReturns(rc)

\* A unit attention outlasted dev_exec's quota: ask again, with a fresh one.
AskAgain ==
  /\ at = "judge"
  /\ rc = "ua"
  /\ Enter("tur")
  /\ UNCHANGED <<caller, rc, ready_wait_off, polls, result>>

PollsLeft == polls < TimeoutPolls

SleepAndAsk ==
  /\ at = "judge"
  /\ rc = "becoming" /\ PollsLeft
  /\ polls' = Spend(polls)
  /\ Enter("tur")
  /\ UNCHANGED <<caller, rc, ready_wait_off, result>>

TimedOut ==
  /\ at = "judge"
  /\ rc = "becoming" /\ ~PollsLeft
  /\ LoadReturns("io")

------------------------------------------------------------------------------
Step ==
  \/ Issue \/ Reissue \/ WaitAndReissue \/ ExecReturns
  \/ Settled \/ AskAgain \/ SleepAndAsk \/ TimedOut

Next == (\E c \in Command : Exec(c)) \/ SetWaitOff \/ Load \/ LoadFails \/ Step

Spec == Init /\ [][Next]_vars
\* A call that has begun keeps running: it is one thread, and every command
\* comes back with an answer or the transport's timeout.
FairSpec == Spec /\ WF_vars(Step)

------------------------------------------------------------------------------
(* Properties.                                                             *)

\* Every variable has its type.
TypeOK ==
  /\ at \in {"idle", "issue", "decide", "judge"} /\ caller \in {"library", "load"}
  /\ cmd \in Command /\ rc \in Answer
  /\ ua \in 0 .. UARetries /\ waited \in 0 .. TimeoutPolls
  /\ ready_wait_off \in BOOLEAN
  /\ polls \in 0 .. TimeoutPolls /\ result \in {"none", "ok", "io"}
  /\ issued \in Nat /\ executed \in Nat

\* "Both retried classes mean THE COMMAND DID NOT EXECUTE" (device.c): one call
\* never makes the drive do a thing twice, and "a WRITE must never be repeated"
\* (tests/test_ready.c) even where it was refused.
NeverDoneTwice ==
  /\ executed <= 1
  /\ cmd = "write" => issued <= 1

\* The two quotas bound the call together, in whatever order the drive mixes
\* unit attentions with "becoming ready" and however often it goes back.
IssuesBounded == issued <= 1 + UARetries + TimeoutPolls

\* Both: what may be sent again is, as often as the quotas say and no oftener.
RetriedSafely == NeverDoneTwice /\ IssuesBounded

\* load reports success only for a drive that was ready, or that gave an answer
\* waiting cannot change; one that was still becoming ready is a failure.
LoadMeansSettled ==
  [][result' # result /\ result' = "ok" => rc \in {"ok", "nomedium", "sense"}]_vars

\* load returns, unless the drive answers with unit attentions for ever.
LoadEnds == []<>(rc = "ua") \/ (caller = "load" ~> caller = "library")

\* internal.h on unit attentions: "an unbounded loop against a drive stuck in UA
\* is a hang", and on wait_ready: "ACCUDISC_ERR_IO on timeout".
LoadAlwaysEnds == caller = "load" ~> caller = "library"
==============================================================================
