-------------------------------- MODULE Toc --------------------------------
(***************************************************************************)
(* From what a drive says about a disc to the map of its tracks            *)
(* (src/toc/toc.c, src/toc/fulltoc.c): the entries of the lead-in or, when *)
(* they do not read, the flat list of format 0 and the number of sessions. *)
(*                                                                         *)
(* Operators over records; numbers are small.  A track map is              *)
(*   tracks    a function from track numbers to                            *)
(*             [session, audio, lba, sectors, pregap]                      *)
(*   sessions  a function from session numbers to [leadout, audio, data]   *)
(* with the disc's lead-out, the track range it claims, how many sessions  *)
(* there are (0: nobody said), and its anomalies.                          *)
(***************************************************************************)
EXTENDS Integers, FiniteSets, Sequences

A0 == 160  \* points of the lead-in that name no track: the session's first track,
A1 == 161  \* its last track,
A2 == 162  \* its lead-out

IsTrack(n) == n \in 1 .. 99
Untrusted == {"lba_order", "overlap", "leadout_before"}

Lowest(S)  == CHOOSE x \in S : \A y \in S : x <= y
Highest(S) == CHOOSE x \in S : \A y \in S : y <= x

------------------------------------------------------------------------------
(* The lead-in: one turn of adsc_toc_from_fulltoc's loop for each entry, in *)
(* the order the drive gives them.  An entry is [session, point, audio,     *)
(* addr]; addr is a sector for a track and A2, a track number for A0, A1.   *)

Entry(session, point, audio, addr) ==
  [session |-> session, point |-> point, audio |-> audio, addr |-> addr]

\* On a disc: the tracks of a session, and a track's entry.
TracksOf(d, s) == {n \in DOMAIN d.tracks : d.tracks[n].session = s}
TrackEntry(d, n) == Entry(d.tracks[n].session, n, d.tracks[n].audio, d.tracks[n].lba)

NoEntries ==
  [first_session |-> 0, last_session |-> 0, seen |-> {}, slot |-> << >>,
   first_track |-> 0, last_track |-> 0, leadout |-> -1, ends |-> << >>, anomalies |-> {}]

\* What every entry says about its session.
NoteSession(acc, e) ==
  [acc EXCEPT
    !.first_session = IF @ = 0 \/ e.session < @ THEN e.session ELSE @,
    !.last_session  = IF e.session > @ THEN e.session ELSE @,
    !.seen          = IF e.session \in 1 .. 99 THEN @ \cup {e.session} ELSE @,
    !.anomalies     = IF e.session \in 1 .. 99 THEN @ ELSE @ \cup {"bad_session"}]

\* f, and x at n.
With(f, n, x) == [k \in DOMAIN f \cup {n} |-> IF k = n THEN x ELSE f[k]]

Flag(acc, a) == [acc EXCEPT !.anomalies = @ \cup {a}]

\* A track is slotted by its number, the first account of it kept.
TakeTrack(acc, e) ==
  IF e.addr < 0 THEN Flag(acc, "negative_lba")
  ELSE IF e.point \in DOMAIN acc.slot THEN acc
  ELSE [acc EXCEPT !.slot =
          With(@, e.point, [session |-> e.session, audio |-> e.audio, lba |-> e.addr])]

\* A0 and A1 are per session: the disc's first track is the lowest session's, its
\* last the highest's, whatever the order of the entries.
FirstTrack_Bug(acc, e) == e.addr
FirstTrack(acc, e) ==
  IF acc.first_track = 0 \/ e.session <= acc.first_session THEN e.addr ELSE acc.first_track

TakeRange(acc, e) ==
  IF ~IsTrack(e.addr) THEN Flag(acc, "bad_track_num")
  ELSE IF e.session \notin 1 .. 99 THEN acc
  ELSE IF e.point = A0 THEN [acc EXCEPT !.first_track = FirstTrack(acc, e)]
  ELSE [acc EXCEPT !.last_track =
          IF @ = 0 \/ e.session >= acc.last_session THEN e.addr ELSE @]

TakeLeadout(acc, e) ==
  [acc EXCEPT
    !.ends    = IF e.session \in 1 .. 99 THEN With(@, e.session, e.addr) ELSE @,
    !.leadout = IF @ < 0 \/ e.session >= acc.last_session THEN e.addr ELSE @]

TakeEntry(a, e) ==
  LET acc == NoteSession(a, e) IN
  CASE IsTrack(e.point)              -> TakeTrack(acc, e)
    [] e.point \in {A0, A1}          -> TakeRange(acc, e)
    [] e.point = A2 /\ e.addr >= 0   -> TakeLeadout(acc, e)
    [] OTHER                         -> acc

TakeEntries(entries) ==
  LET after[i \in 0 .. Len(entries)] ==
        IF i = 0 THEN NoEntries ELSE TakeEntry(after[i - 1], entries[i])
  IN  after[Len(entries)]

------------------------------------------------------------------------------
(* Extents and anomalies: toc_fill_extents().                              *)

SessionLeadout(m, s) == IF s \in DOMAIN m.sessions THEN m.sessions[s].leadout ELSE m.leadout

\* A track runs to whatever comes next on the disc in its session: a fact about
\* addresses, not about numbers.
NextStarts_Bug(tracks, n) ==
  {tracks[k].lba : k \in {k \in DOMAIN tracks : k = n + 1 /\ tracks[k].session = tracks[n].session}}
NextStarts(tracks, n) ==
  {tracks[k].lba : k \in {k \in DOMAIN tracks \ {n} :
                            /\ tracks[k].session = tracks[n].session
                            /\ tracks[k].lba > tracks[n].lba}}

\* Nothing, when the end is no further than the start.
Sized_Bug(from, to) == to - from
Sized(from, to) == IF to > from THEN to - from ELSE 0

Sectors(m, n) ==
  LET starts == NextStarts(m.tracks, n)
      end    == IF starts # {} THEN Lowest(starts) ELSE SessionLeadout(m, m.tracks[n].session)
  IN  Sized(m.tracks[n].lba, end)

\* The one pregap a TOC knows: what precedes the first track of the first session.
HasPregap(tracks, n) ==
  /\ tracks[n].session <= 1
  /\ \A k \in DOMAIN tracks \ {n} : tracks[k].session <= 1 =>
        tracks[n].lba < tracks[k].lba \/ (tracks[n].lba = tracks[k].lba /\ n < k)

Starts_Bug(t) == t.lba
Starts(t) == t.lba - t.pregap
Ends(t)   == t.lba + t.sectors
Overlap(a, b) == a.sectors > 0 /\ b.sectors > 0 /\ Starts(a) < Ends(b) /\ Starts(b) < Ends(a)

\* The sessions of which something is mapped; all tracks, when none is.
Groups(m) ==
  IF DOMAIN m.sessions = {} THEN {DOMAIN m.tracks}
  ELSE {{n \in DOMAIN m.tracks : m.tracks[n].session = s} : s \in DOMAIN m.sessions}

GeometryAnomalies(m) ==
  LET T == m.tracks
      D == DOMAIN T
      after(n) == {k \in D : k > n /\ \A j \in D : j > n => k <= j}
      end(n)   == SessionLeadout(m, T[n].session)
  IN  {a \in {"lba_order", "past_leadout", "empty_track", "leadout_before", "overlap"} :
         CASE a = "lba_order" ->
                \E n \in D, k \in D : k \in after(n) /\ T[k].session = T[n].session /\ T[k].lba <= T[n].lba
           [] a = "past_leadout" -> \E n \in D : end(n) <= T[n].lba
           [] a = "empty_track" -> \E n \in D : T[n].sectors = 0
           [] a = "leadout_before" ->
                \E g \in Groups(m) \ {{}} : \A n \in g : end(n) <= T[n].lba
           [] a = "overlap" -> \E n, k \in D : n # k /\ Overlap(T[n], T[k])}

FillExtents(m) ==
  LET sized == [m EXCEPT !.tracks =
                  [n \in DOMAIN m.tracks |->
                     [m.tracks[n] EXCEPT !.sectors = Sectors(m, n),
                                         !.pregap = IF HasPregap(m.tracks, n) THEN @ + m.tracks[n].lba
                                                                              ELSE @]]]
  IN  [sized EXCEPT !.anomalies = @ \cup GeometryAnomalies(sized)]

------------------------------------------------------------------------------
(* The two maps.                                                           *)

Bare(t, s) == [session |-> s, audio |-> t.audio, lba |-> t.lba, sectors |-> 0, pregap |-> 0]

CountTracks(tracks, s, kind) ==
  Cardinality({n \in DOMAIN tracks : tracks[n].session = s /\ tracks[n].audio = kind})

SessionTable(tracks, ends, numbers) ==
  [s \in numbers |-> [leadout |-> ends[s], audio |-> CountTracks(tracks, s, TRUE),
                      data |-> CountTracks(tracks, s, FALSE)]]

\* The range the lead-in claims and the tracks it lists are two accounts of one
\* thing; disagreement, or a gap, is reported and not reconciled.
RangeMismatch(acc) ==
  LET D == DOMAIN acc.slot
      f == acc.first_track
      l == acc.last_track
  IN  \/ f # 0 /\ f # Lowest(D)
      \/ l # 0 /\ l # Highest(D)
      \/ f # 0 /\ l # 0 /\ l >= f /\ Cardinality(D) # l - f + 1

NoMap == [ok |-> FALSE]

\* adsc_toc_from_fulltoc: a session without a lead-out is not published, and its
\* tracks are bounded by the disc's.
FromLeadIn(entries) ==
  LET acc    == TakeEntries(entries)
      tracks == [n \in DOMAIN acc.slot |-> Bare(acc.slot[n], acc.slot[n].session)]
      known  == {s \in acc.seen : s \in DOMAIN acc.ends /\ acc.ends[s] # 0}
  IN  IF acc.leadout < 0 \/ DOMAIN tracks = {} THEN NoMap
      ELSE FillExtents(
             [ok |-> TRUE, tracks |-> tracks, leadout |-> acc.leadout,
              sessions |-> SessionTable(tracks, acc.ends, known),
              first |-> IF acc.first_track # 0 THEN acc.first_track ELSE Lowest(DOMAIN tracks),
              last |-> IF acc.last_track # 0 THEN acc.last_track ELSE Highest(DOMAIN tracks),
              total |-> acc.last_session,
              anomalies |-> acc.anomalies \cup IF RangeMismatch(acc) THEN {"range_mismatch"} ELSE {}])

\* adsc_toc_parse, on the flat list: tracks without a session, and one lead-out.  The
\* list is taken to name each track once and in ascending order, and its header to give
\* the first and the last of them.
FromList(list, leadout) ==
  LET D == DOMAIN list IN
  FillExtents(
    [ok |-> TRUE, tracks |-> [n \in D |-> Bare(list[n], 0)], leadout |-> leadout,
     sessions |-> << >>, first |-> Lowest(D), last |-> Highest(D), total |-> 0, anomalies |-> {}])

\* accudisc_read_toc_src.  full: the lead-in's entries, or << >> when it does not
\* read or makes no sense; list and leadout: format 0; count: what READ DISC
\* INFORMATION says, 0 when it does not.  One session is all there is to know about
\* one session; of more, where the seams fall is not made up.
Synthesised(m, count) ==
  IF count # 1 THEN m
  ELSE LET tracks == [n \in DOMAIN m.tracks |-> [m.tracks[n] EXCEPT !.session = 1]]
       IN  [m EXCEPT !.tracks = tracks, !.sessions = SessionTable(tracks, <<m.leadout>>, {1})]

ReadTocSrc(full, list, leadout, count) ==
  LET m == FromLeadIn(full) IN
  IF full # << >> /\ m.ok THEN m
  ELSE Synthesised([FromList(list, leadout) EXCEPT !.total = count], count)
=============================================================================
