----------------------------- MODULE DaoLayout -----------------------------
(***************************************************************************)
(* From a .toc file to the cue sheet of a burn (src/write/tocparse.c,      *)
(* src/write/cuesheet.c): the lines become tracks, the tracks are laid end *)
(* to end from sector 0, and the drive is told where each of them starts.  *)
(*                                                                         *)
(* A line is [kw, what, unit, start, len]: its keyword, the word after it, *)
(* and its numbers, -1 for one that does not parse.  Lines are shorter     *)
(* than the 64 characters from which on a TRACK is not audio.              *)
(***************************************************************************)
EXTENDS Integers, SequencesExt, FiniteSetsExt

CONSTANTS
  Files,        \* the .toc files: sequences of lines
  LeadIns,      \* where discs have their lead-in, in frames: 0 for nonsense
  SectorBytes,  \* 2352
  MaxTracks,    \* 99, or fewer
  Cap           \* entries a cue sheet has room for

Line == [kw : STRING, what : STRING, unit : STRING, start : Int, len : Int]

\* What the constants must satisfy; an instance assumes it.
SizesAssumption ==
  /\ Files \subseteq Seq(Line) /\ LeadIns \subseteq Nat
  /\ SectorBytes \in Nat \ {0} /\ MaxTracks \in 1 .. 99 /\ Cap \in Nat

VARIABLES
  file,    \* the .toc file
  model,   \* struct adsc_write_toc, with the parser's verdict
  leadin,  \* the disc's lead-in start
  cdtext,  \* whether the burn has CD-Text
  cue      \* the cue sheet, with the builder's verdict

vars == <<file, model, leadin, cdtext, cue>>

------------------------------------------------------------------------------
(* adsc_toc_parse_cue, first pass: one turn of its loop for each line.     *)

NewTrack == [audio |-> FALSE, pre |-> FALSE, copy |-> FALSE, isrc |-> FALSE, file |-> FALSE,
             offset |-> 0, sectors |-> 0, pregap |-> 0, index1 |-> 0]

\* strstr() looks from the line on to the end of the text, not of the line.
Mentions(f, i, word) == \E j \in i .. Len(f) : f[j].what = word

\* parse_file_start: a bare number counts bytes, MM:SS:FF counts frames.
FileStart_Bug(line) == line.start * SectorBytes
FileStart(line) == IF line.unit = "bytes" THEN line.start ELSE line.start * SectorBytes

\* "NO x": the first of the two flags that is mentioned.
NoFlag(f, i, t) ==
  IF Mentions(f, i, "PRE_EMPHASIS") THEN [t EXCEPT !.pre = FALSE]
  ELSE IF Mentions(f, i, "COPY") THEN [t EXCEPT !.copy = FALSE]
  ELSE t

TrackLine(f, i, t) ==
  LET line == f[i] IN
  CASE line.kw = "ISRC"         -> [t EXCEPT !.isrc = @ \/ line.len = 12]
    [] line.kw = "NO"           -> NoFlag(f, i, t)
    [] line.kw = "PRE_EMPHASIS" -> [t EXCEPT !.pre = TRUE]
    [] line.kw = "COPY"         -> [t EXCEPT !.copy = TRUE]
    [] line.kw \in {"FILE", "AUDIOFILE"} ->
         [t EXCEPT !.offset = FileStart(line), !.sectors = line.len, !.file = TRUE]
    [] line.kw = "START"        -> [t EXCEPT !.pregap = IF line.len > 0 THEN line.len ELSE 0]
    [] OTHER                    -> t

NoLayout == [ok |-> TRUE, mcn |-> FALSE, tracks |-> << >>, leadout |-> 0]
Rejected(m) == [m EXCEPT !.ok = FALSE]

\* A quote left open, a track too many, or a FILE without both numbers ends it.
Bad(m, line) ==
  \/ line.kw = "OPEN_QUOTE"
  \/ line.kw = "TRACK" /\ Len(m.tracks) >= MaxTracks
  \/ line.kw \in {"FILE", "AUDIOFILE"} /\ m.tracks # << >> /\ (line.start < 0 \/ line.len < 0)

ParseLine(f, m, i) ==
  LET line == f[i]
      n    == Len(m.tracks)
  IN  CASE ~m.ok               -> m
        [] m.ok /\ Bad(m, line) -> Rejected(m)
        [] OTHER ->
           CASE line.kw = "CATALOG" -> [m EXCEPT !.mcn = line.len = 13]
             [] line.kw = "TRACK"   ->
                  [m EXCEPT !.tracks = Append(@, [NewTrack EXCEPT !.audio = Mentions(f, i, "AUDIO")])]
             [] line.kw \notin {"CATALOG", "TRACK"} /\ n > 0 ->
                  [m EXCEPT !.tracks[n] = TrackLine(f, i, @)]
             [] OTHER -> m

\* Second pass: the tracks tile the disc from sector 0.  (Lengths and their sums are
\* taken to fit the uint32_t they are kept in: a disc has some 2^19 sectors, and only
\* minutes near a million reach 2^32.)
Before_Bug(tracks, i) == FoldLeft(LAMBDA sum, t : sum + t.sectors, 0, SubSeq(tracks, 1, i))
Before(tracks, i) == FoldLeft(LAMBDA sum, t : sum + t.sectors, 0, SubSeq(tracks, 1, i - 1))

Writable(t) == t.audio /\ t.file /\ t.pregap <= t.sectors

ParseCue(f) ==
  LET m == FoldLeft(LAMBDA acc, i : ParseLine(f, acc, i), NoLayout, [i \in 1 .. Len(f) |-> i])
  IN  IF ~m.ok \/ m.tracks = << >> \/ \E i \in DOMAIN m.tracks : ~Writable(m.tracks[i])
      THEN Rejected(m)
      ELSE [m EXCEPT !.tracks = [i \in DOMAIN @ |->
                                   [@[i] EXCEPT !.index1 = Before(m.tracks, i) + m.tracks[i].pregap]],
                     !.leadout = FoldLeft(LAMBDA sum, t : sum + t.sectors, 0, m.tracks)]

------------------------------------------------------------------------------
(* adsc_cuesheet_build.  An entry is [adr, tno, index, form, msf]; msf in  *)
(* frames, as its three bytes have it.                                     *)

Generated == 1   \* 0x01: the drive makes the frames itself
WithPW    == 65  \* 0x41: and the host sends the subchannel, which is CD-Text

Second == 75
Minute == 60 * Second

\* put_msf: the minute is a byte.
Msf(frames) == IF frames < 0 THEN 0 ELSE frames % (256 * Minute)

Entry(adr, tno, index, form, frames) ==
  [adr |-> adr, tno |-> tno, index |-> index, form |-> form, msf |-> Msf(frames)]

Pregap == 150  \* sector 0 is at 00:02:00
LeadOutTrack == 170

LeadInEntry(text, start) ==
  IF text THEN Entry(1, 0, 0, WithPW, start) ELSE Entry(1, 0, 0, Generated, 0)

TrackEntries(m, i) ==
  LET t == m.tracks[i]
      index0 == Entry(1, i, 0, 0, IF i = 1 THEN 0 ELSE t.index1 - t.pregap + Pregap)
  IN  (IF t.isrc THEN <<Entry(3, i, 0, 0, 0), Entry(3, i, 0, 0, 0)>> ELSE << >>)
      \o (IF i = 1 \/ t.pregap > 0 THEN <<index0>> ELSE << >>)
      \o <<Entry(1, i, 1, 0, t.index1 + Pregap)>>

Entries(m, text, start) ==
  (IF m.mcn THEN <<Entry(2, 0, 0, 0, 0), Entry(2, 0, 0, 0, 0)>> ELSE << >>)
  \o <<LeadInEntry(text, start)>>
  \o FlattenSeq([i \in DOMAIN m.tracks |-> TrackEntries(m, i)])
  \o <<Entry(1, LeadOutTrack, 1, Generated, m.leadout + Pregap)>>

NoCue == [ok |-> FALSE, entries |-> << >>, leadin_len |-> 0]

\* adsc_leadin_len_from_msf: from its start to 100:00:00, or a minute.
LeadInLen(start) ==
  IF 80 * Minute <= start /\ start < 100 * Minute THEN 100 * Minute - start ELSE Minute

------------------------------------------------------------------------------
Init ==
  /\ file \in Files /\ leadin \in LeadIns /\ cdtext \in BOOLEAN
  /\ model = [NoLayout EXCEPT !.ok = FALSE] /\ cue = NoCue

\* adsc_write_load_model parses; the burn then asks for the cue sheet.
LoadModel ==
  /\ model.tracks = << >>
  /\ model' = ParseCue(file)
  /\ UNCHANGED <<file, leadin, cdtext, cue>>

BuildCueSheet ==
  /\ model.ok /\ cue.entries = << >>
  /\ LET e == Entries(model, cdtext, leadin) IN
     cue' = [ok |-> Len(e) <= Cap, entries |-> e, leadin_len |-> LeadInLen(leadin)]
  /\ UNCHANGED <<file, model, leadin, cdtext>>

Next == LoadModel \/ BuildCueSheet
Spec == Init /\ [][Next]_vars

------------------------------------------------------------------------------
(* Properties.                                                             *)

TypeOK ==
  /\ file \in Files /\ leadin \in LeadIns /\ cdtext \in BOOLEAN
  /\ model.ok \in BOOLEAN /\ model.leadout \in Nat
  /\ \A i \in DOMAIN cue.entries : cue.entries[i].msf \in 0 .. 256 * Minute - 1

\* What the payload loop of burn.c puts at a frame of the disc: the track and the
\* byte of the source file.
Heard(frame) ==
  {<<i, model.tracks[i].offset + (frame - Pregap - Before(model.tracks, i)) * SectorBytes>> :
     i \in {i \in DOMAIN model.tracks :
              /\ Before(model.tracks, i) + Pregap <= frame
              /\ frame < Before(model.tracks, i) + Pregap + model.tracks[i].sectors}}

\* The lines of a track, which say where in its file it starts and how long its
\* pregap is; the last of a kind counts.
LinesOf(i) ==
  LET heads == {j \in DOMAIN file : file[j].kw = "TRACK"}
  IN  {j \in DOMAIN file : Cardinality({h \in heads : h <= j}) = i}

Said(i, kws) ==
  LET said == {j \in LinesOf(i) : file[j].kw \in kws}
  IN  IF said = {} THEN {} ELSE {file[Max(said)]}

\* tocparse.c, on FILE's two units: "a bare count read as frames is off by 2352x -
\* on the burn path, silently".  The cue sheet and the payload loop are two
\* accounts of one disc: where the cue sheet has INDEX 1 of a track, the drive hears
\* the byte its FILE and START lines name; the entries are in ascending order, and
\* the last frame written is the last before the lead-out.
CueIsWhatIsWritten ==
  cue.ok /\ model.leadout + Pregap < 100 * Minute =>
    /\ \A e \in Range(cue.entries) : e.adr = 1 /\ e.index = 1 /\ e.tno \in DOMAIN model.tracks =>
         \A f \in Said(e.tno, {"FILE", "AUDIOFILE"}) :
           LET g == {l.len : l \in Said(e.tno, {"START"})}
               pregap == IF g = {} THEN 0 ELSE Max(g \cup {0})
               start  == IF f.unit = "bytes" THEN f.start ELSE f.start * SectorBytes
           IN  f.len > pregap => Heard(e.msf) = {<<e.tno, start + pregap * SectorBytes>>}
    /\ LET timed == {k \in DOMAIN cue.entries : cue.entries[k].adr = 1 /\ cue.entries[k].tno # 0}
           last  == cue.entries[Max(timed)]
       IN  /\ \A j, k \in timed : j < k => cue.entries[j].msf <= cue.entries[k].msf
           /\ Heard(last.msf) = {}
           /\ model.leadout > 0 => Heard(last.msf - 1) # {}

\* The parser's own words, for a track that is not: "track is not TRACK AUDIO
\* (this is an audio-only writer)".
AudioOnly ==
  model.ok => \A i \in DOMAIN model.tracks : \A l \in Said(i, {"TRACK"}) : l.what = "AUDIO"
=============================================================================
