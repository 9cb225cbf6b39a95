----------------------------- MODULE ReadRange -----------------------------
(***************************************************************************)
(* Which sectors a read covers (src/toc/session.c, src/toc/plan.c): from a *)
(* track map and what the caller named - sectors, tracks, a session, or    *)
(* nothing - to a range, vetted against the map before the drive is asked. *)
(***************************************************************************)
EXTENDS Toc

CONSTANTS
  Top,    \* sectors of an honest disc are below Top
  Discs,  \* the discs and what a drive may say of them, see below
  Specs   \* what callers name: [start, count, session, first, last, force]

(***************************************************************************)
(* A disc is a record:                                                     *)
(*   tracks   what is on it: track number -> [session, audio, lba]         *)
(*   ends     session number -> its lead-out                               *)
(*   full     the answers to READ TOC format 2: sequences of entries, << >> *)
(*            when the lead-in does not read                               *)
(*   leadout  the one of format 0, which lists the tracks without sessions *)
(*   counts   the answers to READ DISC INFORMATION: 0 when there is none   *)
(*   honest   whether the lead-in tells the truth                          *)
(***************************************************************************)

\* What the lead-in of an honest disc has to say.
Accounts(d) ==
  {TrackEntry(d, n) : n \in DOMAIN d.tracks}
  \cup {Entry(s, A0, TRUE, Lowest(TracksOf(d, s))) : s \in DOMAIN d.ends}
  \cup {Entry(s, A1, TRUE, Highest(TracksOf(d, s))) : s \in DOMAIN d.ends}
  \cup {Entry(s, A2, TRUE, d.ends[s]) : s \in DOMAIN d.ends}

\* It may be said in any order and more than once, and A0, A1 or both left out.
IsLeadIn(d, full) ==
  /\ full \in Seq(Accounts(d))
  /\ \E left_out \in SUBSET {A0, A1} :
       {full[i] : i \in DOMAIN full} = {e \in Accounts(d) : e.point \notin left_out}

\* Tracks and sessions are numbered on end, in the order of their addresses, no track
\* or session is empty, and a session lies before the next.
IsHonest(d) ==
  LET T == d.tracks
      D == DOMAIN d.tracks
      K == DOMAIN d.ends
  IN  /\ \E f, l \in 1 .. 99 : f <= l /\ D = f .. l
      /\ \E k \in 1 .. 99 : K = 1 .. k
      /\ T \in [D -> [session : K, audio : BOOLEAN, lba : Nat]] /\ d.ends \in [K -> 1 .. Top]
      /\ \A s \in K : TracksOf(d, s) # {}
      /\ \A n \in D : T[n].lba < d.ends[T[n].session]
      /\ \A i, j \in D : i < j =>
           /\ T[i].lba < T[j].lba /\ T[i].session <= T[j].session
           /\ T[i].session < T[j].session => d.ends[T[i].session] <= T[j].lba
      /\ \A full \in d.full : full = << >> \/ IsLeadIn(d, full)
      /\ d.leadout = d.ends[Highest(K)]
      /\ d.counts \subseteq {0, Highest(K)}

\* A lead-in that lies names the tracks, no two at the same address, and is free in
\* all else: what session a track is in, in what order they come, and every pointer.
IsLying(d) ==
  LET T == d.tracks
      D == DOMAIN d.tracks
  IN  /\ D \subseteq 1 .. 99 /\ D # {}
      /\ T \in [D -> [session : 0 .. 255, audio : BOOLEAN, lba : Nat]]
      /\ \A i, j \in D : T[i].lba = T[j].lba => i = j
      /\ \A full \in d.full :
           /\ full \in Seq([session : 0 .. 255, point : 0 .. 255, audio : BOOLEAN, addr : Int])
           /\ \A i \in DOMAIN full : IsTrack(full[i].point) /\ full[i].addr >= 0 =>
                full[i].point \in D /\ full[i] = TrackEntry(d, full[i].point)
           /\ full # << >> => \A n \in D : \E i \in DOMAIN full : full[i] = TrackEntry(d, n)
      /\ d.leadout \in Nat /\ d.counts \subseteq 0 .. 255

\* What the constants must satisfy; an instance assumes it.
DiscsAssumption ==
  /\ Top \in Nat
  /\ \A d \in Discs : IF d.honest THEN IsHonest(d) ELSE IsLying(d)
  /\ Specs \subseteq [start : Int, count : Int, session : Int, first : Int, last : Int,
                       force : BOOLEAN]

VARIABLES disc, map, spec, plan
vars == <<disc, map, spec, plan>>

InSession(m, s) == {n \in DOMAIN m.tracks : m.tracks[n].session = s}

Extent(lba, count) == [err |-> "ok", lba |-> lba, count |-> count]
NoRange(err) == [err |-> err, lba |-> 0, count |-> 0]

\* accudisc_toc_default_audio_session: the only one with audio.
DefaultAudioSession(m) ==
  LET found == {s \in DOMAIN m.sessions : m.sessions[s].audio > 0} IN
  CASE DOMAIN m.sessions = {}  -> -1             \* no structure: not an answer
    [] found = {}              -> -2
    [] Cardinality(found) > 1  -> -3
    [] OTHER                   -> Lowest(found)

\* accudisc_toc_session_audio_range: tracks in number order; a data track after
\* the first audio track splits the session.
SessionAudioRange(m, s) ==
  LET audio == {n \in InSession(m, s) : m.tracks[n].audio} IN
  IF s \notin DOMAIN m.sessions \/ audio = {} THEN NoRange("notfound")
  ELSE LET a == m.tracks[Lowest(audio)]
           b == m.tracks[Highest(audio)]
       IN  IF \E n \in InSession(m, s) : ~m.tracks[n].audio /\ n > Lowest(audio)
           THEN NoRange("unsupported")
           ELSE IF b.sectors = 0 THEN NoRange("short")
           ELSE Extent(Starts(a), Ends(b) - Starts(a))

\* accudisc_toc_session_range: the whole of a session.
SessionRange(m, s) ==
  IF s \notin DOMAIN m.sessions \/ InSession(m, s) = {} THEN NoRange("notfound")
  ELSE LET start == Lowest({m.tracks[n].lba : n \in InSession(m, s)})
           end   == m.sessions[s].leadout
       IN  IF end <= start THEN NoRange("short") ELSE Extent(start, end - start)

\* accudisc_toc_track_range.
TrackRange(m, first, last) ==
  IF last < first THEN NoRange("inval")
  ELSE IF {first, last} \ DOMAIN m.tracks # {} THEN NoRange("notfound")
  ELSE LET a == m.tracks[first]
           b == m.tracks[last]
       IN  IF a.session # b.session THEN NoRange("unsupported")
           ELSE IF b.sectors = 0 \/ Ends(b) <= a.lba THEN NoRange("short")
           ELSE Extent(Starts(a), Ends(b) - Starts(a))

Owners(m, p) == {n \in DOMAIN m.tracks : Starts(m.tracks[n]) <= p /\ p < Ends(m.tracks[n])}

\* The guard's walk, a whole track at a time; s is the session so far.
Stride_Bug(t) == Ends(t) + 1
Stride(t) == Ends(t)

Walk(m, end) ==
  LET from[at \in Nat \X Nat] ==
        LET p == at[1]
            s == at[2]
            t == m.tracks[Lowest(Owners(m, p))]
        IN  IF p >= end THEN "ok"
            ELSE IF Owners(m, p) = {} THEN "not_in_track"
            ELSE IF ~t.audio THEN "data_track"
            ELSE IF s # 0 /\ t.session # s THEN "crosses_session"
            ELSE from[<<Stride(t), IF s = 0 THEN t.session ELSE s>>]
  IN  from

\* accudisc_check_audio_range.
CheckAudioRange(m, lba, count) ==
  CASE count = 0                                     -> "empty"
    [] m.anomalies \cap Untrusted # {}               -> "toc_untrusted"
    [] lba >= m.leadout \/ count > m.leadout - lba   -> "beyond_leadout"
    [] DOMAIN m.sessions = {} /\ m.total > 1         -> "session_unmapped"
    [] DOMAIN m.sessions = {} /\ (\E n \in DOMAIN m.tracks : ~m.tracks[n].audio)
                                                     -> "no_session_info"
    [] OTHER                                         -> Walk(m, lba + count)[<<lba, 0>>]

\* What a spec leaves open is taken from the range of what it names.
Within(sp, r) ==
  LET start == IF sp.start >= 0 THEN sp.start ELSE r.lba
  IN  [start |-> start, count |-> IF sp.count < 0 THEN r.lba + r.count - start ELSE sp.count]

Refused(why) == [reason |-> why, lba |-> 0, count |-> 0]

\* The end of accudisc_plan_read_range: the count is known to be positive before
\* anything is narrowed, and the guard has the last word unless it is overridden.
Vetted(m, sp, w) ==
  IF w.count <= 0 THEN Refused("empty_range")
  ELSE IF ~sp.force /\ CheckAudioRange(m, w.start, w.count) # "ok" THEN Refused("guard_refused")
  ELSE [reason |-> "ok", lba |-> w.start, count |-> w.count]

PlanTracks(m, sp) ==
  LET r == TrackRange(m, sp.first, sp.last) IN
  CASE r.err = "notfound"    -> Refused("tracks_not_found")
    [] r.err = "unsupported" -> Refused("tracks_cross_session")
    [] r.err \in {"short", "inval"} -> Refused("tracks_no_extent")
    [] r.err = "ok"          -> Vetted(m, sp, Within(sp, r))

PlanSession(m, sp, s) ==
  LET r == SessionAudioRange(m, s) IN
  CASE r.err = "unsupported" -> Refused("session_split_by_data")
    [] r.err \in {"notfound", "short"} -> Refused("session_not_found")
    [] r.err = "ok"          -> Vetted(m, sp, Within(sp, r))

\* No session to work from: to the lead-out.
PlanSectors(m, sp) ==
  LET start == IF sp.start >= 0 THEN sp.start ELSE 0 IN
  IF sp.count < 0 /\ start >= m.leadout THEN Refused("start_past_leadout")
  ELSE Vetted(m, sp, [start |-> start,
                        count |-> IF sp.count < 0 THEN m.leadout - start ELSE sp.count])

\* A spec is [start, count, session, first, last, force]; -1 (and first = 0) is
\* "unspecified".  What follows from what it names: the number of a session is
\* narrowed to a byte on its way to accudisc_toc_session_audio_range.
PlanNamed(m, sp) ==
  LET nothing == sp.session < 0 /\ sp.start < 0 /\ sp.count < 0
      default == DefaultAudioSession(m)
      s       == IF nothing /\ default > 0 THEN default ELSE sp.session
  IN  CASE sp.first > 0                  -> PlanTracks(m, sp)
        [] sp.first = 0 /\ nothing /\ default = -3 -> Refused("multiple_audio_sessions")
        [] sp.first = 0 /\ nothing /\ default = -2 -> Refused("no_audio_session")
        [] OTHER -> IF s > 0 THEN PlanSession(m, sp, s % 256) ELSE PlanSectors(m, sp)

\* Less than -1 is not a second way of leaving it open, and tracks are 1 to 99.
BadSpec(sp) ==
  \/ sp.start < -1 \/ sp.count < -1
  \/ sp.first > 0 /\ ~ {sp.first, sp.last} \subseteq 1 .. 99

\* accudisc_plan_read_range.  (Sector numbers are taken to fit 32 bits; a range that
\* ends beyond them is refused there too.)
PlanReadRange(m, sp) == IF BadSpec(sp) THEN Refused("inval") ELSE PlanNamed(m, sp)

------------------------------------------------------------------------------
(* A disc is read, then ranges of it are planned.                          *)

NoPlan == [reason |-> "none", lba |-> 0, count |-> 0]
NoSpec == [start |-> -1, count |-> -1, session |-> -1, first |-> 0, last |-> 0, force |-> FALSE]

Init == disc \in Discs /\ map = NoMap /\ spec = NoSpec /\ plan = NoPlan

ReadToc ==
  /\ ~map.ok
  /\ \E full \in disc.full, count \in disc.counts :
       map' = ReadTocSrc(full, disc.tracks, disc.leadout, count)
  /\ UNCHANGED <<disc, spec, plan>>

PlanRead ==
  /\ map.ok /\ disc.honest
  /\ spec' \in Specs
  /\ plan' = PlanReadRange(map, spec')
  /\ UNCHANGED <<disc, map>>

Next == ReadToc \/ PlanRead
Spec == Init /\ [][Next]_vars

------------------------------------------------------------------------------
(* Properties.                                                             *)

TypeOK ==
  /\ spec \in Specs \cup {NoSpec}
  /\ map.ok => \A n \in DOMAIN map.tracks : IsTrack(n) /\ map.tracks[n].sectors \in Nat
  /\ plan.lba \in 0 .. Top /\ plan.count \in 0 .. Top

\* A track of an honest disc runs to the next of its session or to the session's
\* lead-out, and the first from the start of the disc; the rest is nobody's.
TracksAt(d, p) ==
  LET T == d.tracks
      begin(n) == IF n = Lowest(DOMAIN T) THEN 0 ELSE T[n].lba
      end(n)   == IF n + 1 \in TracksOf(d, T[n].session) THEN T[n + 1].lba ELSE d.ends[T[n].session]
  IN  {n \in DOMAIN T : begin(n) <= p /\ p < end(n)}

\* toc.c, on the entries: "the lead-in may list points in any order".  From an
\* honest lead-in, in whatever order it comes, the map has every sector in its own
\* track and session, nothing in a gap, and no anomaly.
MapIsTheDisc ==
  map.ok /\ disc.honest /\ DOMAIN map.sessions # {} =>
    /\ map.anomalies = {}
    /\ \A p \in 0 .. Top - 1 : Owners(map, p) = TracksAt(disc, p)
    /\ \A n \in DOMAIN map.tracks : map.tracks[n].session = disc.tracks[n].session

\* The one case the map cannot know about, see FlatListIsSafe.
SeamsUnknown == DOMAIN map.sessions = {} /\ map.total = 0

\* toc.c: "A data track hidden that way would be handed to the CD-DA read path as
\* audio".  A range that is planned and not forced is audio of one session, sector
\* by sector, however the lead-in came to be read or not.
RangeIsAudio ==
  plan.reason = "ok" /\ ~spec.force /\ ~SeamsUnknown =>
    \E s \in DOMAIN disc.ends : \A p \in plan.lba .. plan.lba + plan.count - 1 :
      \E n \in TracksAt(disc, p) : disc.tracks[n].audio /\ disc.tracks[n].session = s

\* The guard accepts no sector that lies behind the start of a data track and before
\* the next start, no two of them the same.
NothingHidden ==
  \A p \in 0 .. Top - 1, count \in 1 .. Top :
    CheckAudioRange(map, p, count) = "ok" =>
      \A n \in DOMAIN disc.tracks, q \in p .. p + count - 1 :
        LET started == {k \in DOMAIN disc.tracks : disc.tracks[k].lba <= q} IN
        n \in started /\ (\A k \in started : disc.tracks[k].lba <= disc.tracks[n].lba)
          => disc.tracks[n].audio

\* A track that has no sector and yet the disc's pregap.
OnlyAPregap(m) == \E n \in DOMAIN m.tracks : m.tracks[n].sectors = 0 /\ m.tracks[n].pregap > 0

\* toc.c, of a lead-in that lies: a data track is not hidden behind an audio one,
\* whatever numbers, sessions and lead-outs the tracks are given.  There is one
\* exception, see AnomaliesAreHarmless.
NoHiddenDataTrack == map.ok /\ ~disc.honest /\ ~OnlyAPregap(map) => NothingHidden

\* session.c: "Start at the track's true beginning, not at INDEX 01 ... Every other
\* ripper reads from 0 here".  Where one session has audio, and no data track comes
\* after it there, a caller that names nothing gets all of that audio.
DefaultIsTheAudio ==
  plan.reason # "none" /\ spec = NoSpec /\ DOMAIN map.sessions # {} =>
    LET T     == disc.tracks
        audio == {n \in DOMAIN T : T[n].audio}
    IN  audio # {} /\ (\A n, k \in audio : T[n].session = T[k].session)
        /\ (\A n \in audio : \A k \in TracksOf(disc, T[n].session) : k > n => T[k].audio)
        => /\ plan.reason = "ok"
           /\ plan.lba .. plan.lba + plan.count - 1 =
                {p \in 0 .. Top - 1 : \E n \in TracksAt(disc, p) : n \in audio}

\* accudisc.h, on the anomalies the guard does not refuse: "reported and otherwise
\* harmless - the map still describes the disc".  A map without the others has
\* every track end before its session's lead-out.
TrustedExtentsEnd ==
  map.ok /\ map.anomalies \cap Untrusted = {} =>
    \A n \in DOMAIN map.tracks :
      LET t == map.tracks[n] IN t.sectors > 0 => Ends(t) <= SessionLeadout(map, t.session)

\* accudisc.h, on the same: "the map still describes the disc".  It need not: where
\* the lowest track of the first session begins past the disc's lead-out and the
\* session has no lead-out of its own, the track has no sector, and its pregap is
\* all of the disc, over tracks it is not compared with, having no sector.
AnomaliesAreHarmless == map.ok /\ ~disc.honest => NothingHidden

\* session.c, where nobody could say how many sessions there are: "A flat
\* all-audio list is still safe to walk (no seam to fall into)".
FlatListIsSafe ==
  plan.reason = "ok" /\ ~spec.force /\ SeamsUnknown =>
    \A p \in plan.lba .. plan.lba + plan.count - 1 : TracksAt(disc, p) # {}
=============================================================================
