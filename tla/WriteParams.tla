---------------------------- MODULE WriteParams ----------------------------
(***************************************************************************)
(* Mode page 05, the write parameters (src/write/wparams.c), and its two   *)
(* users: a burn, which selects the page and later asks what the drive     *)
(* holds, and the round trip probe (tools/wparamsprobe.c), which selects   *)
(* it twice, reads it back each time, and puts back what it found.         *)
(*                                                                         *)
(* A drive answers MODE SELECT by refusing, or by accepting and applying   *)
(* the page, some of its fields, or nothing.                               *)
(***************************************************************************)
EXTENDS Integers, Sequences, FiniteSets

CONSTANTS
  Pages,   \* pages a drive may hold: [type, test, bufe, multi, block, format, rest]
  Claims   \* page lengths: "short" of its fields, "whole", "long" for the capture

\* What the constants must satisfy; an instance assumes it: a page has the burn's
\* fields and a rest.
PageFields == {"type", "test", "bufe", "multi", "block", "format", "rest"}
PagesAssumption == \A p \in Pages : p = [f \in PageFields |-> p[f]]

SAO == 2  \* write type: session at once
PW  == 3  \* data block type: raw audio with P-W subchannel

VARIABLES
  held,     \* the page the drive holds
  claim,    \* how long it says the page is
  use,      \* "probe", or "burn"
  want,     \* struct adsc_write_params: [simulate, burnproof, cdtext]
  pc,
  rt,       \* struct adsc_wparams_roundtrip: the captures of this round trip
  first,    \* the probe's first round trip
  answers,  \* of the probe's round trips: 0 held, 1 not held, 2 no verdict
  bad,      \* struct adsc_wparams_check: the burn fields that differ
  history   \* what the drive did: [from, to, sent] of every select it accepted

vars == <<held, claim, use, want, pc, rt, first, answers, bad, history>>

BurnFields == {"type", "test", "bufe", "multi", "block", "format"}
None == [type |-> -1]
NoTrip == [before |-> None, sent |-> None, after |-> None]

------------------------------------------------------------------------------
(* wp_program: the one MODE SELECT sequence.                               *)

\* What is sent is what is held with the burn's fields put in; BURN-Proof is set
\* when asked for and otherwise kept.
Programmed_Bug(page, wp) ==
  [page EXCEPT !.type = SAO, !.test = @ \/ wp.simulate, !.bufe = @ \/ wp.burnproof, !.multi = 0,
               !.block = IF wp.cdtext THEN PW ELSE 0, !.format = 0]
Programmed(page, wp) ==
  [page EXCEPT !.type = SAO, !.test = wp.simulate, !.bufe = @ \/ wp.burnproof, !.multi = 0,
               !.block = IF wp.cdtext THEN PW ELSE 0, !.format = 0]

\* The drive: two pages, mixed field by field.
Mixed(old, new) ==
  {[f \in DOMAIN old |-> IF f \in taken THEN new[f] ELSE old[f]] : taken \in SUBSET DOMAIN old}

Accepted(page) ==
  /\ held' \in Mixed(held, page)
  /\ history' = Append(history, [from |-> held, to |-> held', sent |-> page])

Programmable == pc = "program" /\ claim # "short"
Trip(page) == [before |-> held, sent |-> page, after |-> None]

Program ==
  /\ Programmable
  /\ Accepted(Programmed(held, want))
  /\ rt' = Trip(Programmed(held, want))
  /\ pc' = "selected"
  /\ UNCHANGED <<claim, use, want, first, answers, bad>>

\* Refused: with CD-Text once more without the block type, and that is the answer.
WithoutPW == [Programmed(held, want) EXCEPT !.block = 0]

ProgramWithoutPW ==
  /\ Programmable /\ want.cdtext
  /\ Accepted(WithoutPW)
  /\ rt' = Trip(WithoutPW)
  /\ pc' = "selected"
  /\ UNCHANGED <<claim, use, want, first, answers, bad>>

ProgramRefused ==
  /\ Programmable
  /\ rt' = Trip(IF want.cdtext THEN WithoutPW ELSE Programmed(held, want))
  /\ pc' = "failed"
  /\ UNCHANGED <<held, claim, use, want, first, answers, bad, history>>

\* MODE SENSE fails, or shows less than the fields: nothing is captured.
SenseFails ==
  /\ pc = "program"
  /\ rt' = NoTrip /\ pc' = "failed"
  /\ UNCHANGED <<held, claim, use, want, first, answers, bad, history>>

------------------------------------------------------------------------------
(* adsc_write_params_roundtrip's verdicts, on what is read back.           *)

FieldsOk(a, b) == \A f \in BurnFields : a[f] = b[f]

Changed_Bug(t) == TRUE
Changed(t) == t.before # t.sent

Ignored(t) == Changed(t) /\ t.after # t.sent /\ t.before = t.after

\* The probe's run(): 1 unless the whole page came back as sent.
Verdict(t) ==
  IF Ignored(t) \/ ~FieldsOk(t.sent, t.after) \/ t.after # t.sent THEN 1
  ELSE IF ~Changed(t) THEN 2 ELSE 0

EndTrip(t, verdict) ==
  /\ first' = IF answers = << >> THEN t ELSE first
  /\ answers' = Append(answers, verdict)
  /\ pc' = "trip_done"
  /\ UNCHANGED <<held, claim, use, want, bad, history>>

ReadBack ==
  /\ use = "probe" /\ pc = "selected"
  /\ rt' = [rt EXCEPT !.after = held]
  /\ EndTrip(rt', Verdict(rt'))

\* A command failed: the captures so far are kept, and there is no verdict.
ReadBackFails ==
  /\ use = "probe" /\ pc \in {"selected", "failed"}
  /\ EndTrip(rt, 2)
  /\ UNCHANGED rt

\* The second round trip asks for Test Write off.
SecondTrip ==
  /\ pc = "trip_done" /\ Len(answers) = 1
  /\ want' = [want EXCEPT !.simulate = FALSE]
  /\ pc' = "program"
  /\ UNCHANGED <<held, claim, use, rt, first, answers, bad, history>>

\* adsc_write_params_restore, of the first capture: a page longer than the capture
\* is not sent back truncated.
Returned_Bug == rt.before
Returned == first.before

RestoreNeeded == Len(answers) = 2 /\ first.before # None

Restore ==
  /\ pc = "trip_done" /\ RestoreNeeded /\ claim = "whole"
  /\ Accepted(Returned)
  /\ pc' = "restored"
  /\ UNCHANGED <<claim, use, want, rt, first, answers, bad>>

RestoreFails ==
  /\ pc = "trip_done" /\ Len(answers) = 2
  /\ pc' = "not_restored"
  /\ UNCHANGED <<held, claim, use, want, rt, first, answers, bad, history>>

\* main()'s verdict.
Probed ==
  IF 1 \in {answers[i] : i \in DOMAIN answers} THEN 1
  ELSE IF 2 \in {answers[i] : i \in DOMAIN answers} THEN 2 ELSE 0

------------------------------------------------------------------------------
(* A burn: between the select and the cue sheet the drive is sent a speed   *)
(* and calibrates, either of which may cost it the page.                   *)

Drift ==
  /\ use = "burn" /\ pc = "selected"
  /\ \E page \in Pages : held' \in Mixed(held, page)
  /\ pc' = "drifted"
  /\ UNCHANGED <<claim, use, want, rt, first, answers, bad, history>>

\* adsc_write_params_check.
CheckParams ==
  /\ use = "burn" /\ pc \in {"selected", "drifted"}
  /\ bad' = {f \in BurnFields : rt.sent[f] # held[f]}
  /\ pc' = "checked"
  /\ UNCHANGED <<held, claim, use, want, rt, first, answers, history>>

Init ==
  /\ held \in Pages /\ claim \in Claims
  /\ use \in {"probe", "burn"}
  /\ want \in [simulate : BOOLEAN, burnproof : BOOLEAN, cdtext : BOOLEAN]
  /\ use = "probe" => want.simulate
  /\ pc = "program"
  /\ rt = NoTrip /\ first = NoTrip /\ answers = << >> /\ bad = {} /\ history = << >>

Next ==
  \/ Program \/ ProgramWithoutPW \/ ProgramRefused \/ SenseFails
  \/ ReadBack \/ ReadBackFails \/ SecondTrip \/ Restore \/ RestoreFails
  \/ Drift \/ CheckParams

Spec == Init /\ [][Next]_vars

------------------------------------------------------------------------------
(* Properties.                                                             *)

TypeOK ==
  /\ DOMAIN held = BurnFields \cup {"rest"} /\ held.test \in BOOLEAN /\ held.bufe \in BOOLEAN
  /\ Len(answers) <= 2 /\ Len(history) <= 3
  /\ bad \subseteq BurnFields

\* wparamsprobe.c: "the bit has to be seen to move both ways before 'it reads back
\* as sent' means anything".  Where the probe ends saying that the drive holds the
\* page, the drive applied both pages it was sent, whole, and each changed what it
\* held.
HeldMeansApplied ==
  Len(answers) = 2 /\ Probed = 0 =>
    \A i \in 1 .. 2 :
      /\ history[i].to = history[i].sent
      /\ history[i].to # history[i].from

\* wparamsprobe.c: "Pop what we pushed: the page as it was found".  A restore that
\* the drive applies leaves it with the page it held before the probe's first select.
RestoreIsPop ==
  pc = "restored" /\ held = history[Len(history)].sent => held = history[1].from

\* burn.c, "simulate": "run the whole path with the laser off".  A check that finds
\* no burn field differing means the drive will fire the laser exactly when the
\* burn is not a simulation, and records a closed audio session.
CheckedIsTheBurn ==
  pc = "checked" /\ bad = {} =>
    held.test = want.simulate /\ held.type = SAO /\ held.multi = 0 /\ held.format = 0

\* accudisc.h: "ACCUDISC_BURNPROOF_OFF 1 /* never - the caller wants the raw
\* pipeline */".
OffMeansOff ==
  pc = "checked" /\ bad = {} /\ ~want.burnproof => ~held.bufe
=============================================================================
