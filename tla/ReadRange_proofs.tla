-------------------------- MODULE ReadRange_proofs --------------------------
(***************************************************************************)
(* Proofs about ReadRange and Toc.  Whatever the order of the entries, the *)
(* lead-in of an honest disc yields the disc; its extents are the tracks'; *)
(* and whatever a lead-in says, no two extents the guard trusts hide the   *)
(* start of a track.  The guard's walk visits every sector it accepts.     *)
(***************************************************************************)
EXTENDS ReadRange, FiniteSetTheorems, WellFoundedInduction, TLAPS

------------------------------------------------------------------------------
(* Least and greatest.                                                         *)

\* The order the library's well-founded induction is about.
LEMMA LessThan == \A k, m \in Nat : k < m => <<k, m>> \in OpToRel(<, Nat)
  BY DEF OpToRel

\* A set of natural numbers has a least.
LEMMA LeastNatural ==
  ASSUME NEW I \in SUBSET Nat, I # {}
  PROVE  \E m \in I : \A k \in I : m <= k
<1>1. PICK m \in I : \A k \in I : ~ (<<k, m>> \in OpToRel(<, Nat))
  BY NatLessThanWellFounded, WFMin
<1>2. \A k \in I : ~ (k < m)
  BY <1>1, LessThan
<1>  QED
  BY <1>2

\* Lowest is the least.
LEMMA LowestIs ==
  ASSUME NEW I \in SUBSET Nat, I # {}
  PROVE  Lowest(I) \in I /\ \A k \in I : Lowest(I) <= k
  BY LeastNatural DEF Lowest

\* Highest is the greatest, of numbers that have a bound.
LEMMA HighestIs ==
  ASSUME NEW I \in SUBSET Nat, I # {}, NEW b \in Nat, \A k \in I : k <= b
  PROVE  Highest(I) \in I /\ \A k \in I : k <= Highest(I)
<1>  DEFINE J == {j \in Nat : b - j \in I}
<1>1. J # {}
  <2>1. PICK k \in I : TRUE
    OBVIOUS
  <2>2. b - k \in Nat /\ b - (b - k) = k
    OBVIOUS
  <2>  QED
    BY <2>1, <2>2
<1>2. PICK m \in J : \A j \in J : m <= j
  BY <1>1, LeastNatural
<1>3. \A k \in I : k <= b - m
  <2>1. ASSUME NEW k \in I PROVE k <= b - m
    <3>1. b - k \in J
      OBVIOUS
    <3>  QED
      BY <1>2, <3>1
  <2>  QED
    BY <2>1
<1>  QED
  BY <1>2, <1>3 DEF Highest

\* The least and the greatest of a range of numbers, and how many they are.
LEMMA RangeEnds ==
  ASSUME NEW f \in Nat, NEW l \in Nat, f <= l
  PROVE  /\ Lowest(f .. l) = f /\ Highest(f .. l) = l
         /\ Cardinality(f .. l) = l - f + 1
<1>1. Lowest(f .. l) \in f .. l /\ \A k \in f .. l : Lowest(f .. l) <= k
  BY LowestIs
<1>2. Highest(f .. l) \in f .. l /\ \A k \in f .. l : k <= Highest(f .. l)
  <2>1. f .. l \in SUBSET Nat /\ f .. l # {} /\ \A k \in f .. l : k <= l
    OBVIOUS
  <2>  QED
    BY <2>1, HighestIs
<1>3. Cardinality(f .. l) = l - f + 1
  BY FS_Interval
<1>  QED
  BY <1>1, <1>2, <1>3

------------------------------------------------------------------------------
(* The entries, one after the other.                                           *)

\* What the loop over the entries holds after each of the first n.
Taking(g, entries, n) ==
  g = [i \in 0 .. n |-> IF i = 0 THEN NoEntries ELSE TakeEntry(g[i - 1], entries[i])]

\* There are such values, for every n.
LEMMA TakingExists ==
  ASSUME NEW entries, NEW n \in Nat
  PROVE  \E g : Taking(g, entries, n)
<1>  DEFINE D == {k \in Nat : ~ \E g : Taking(g, entries, k)}
<1>1. SUFFICES ASSUME D # {} PROVE FALSE
  OBVIOUS
<1>2. PICK m \in D : \A k \in D : m <= k
  BY <1>1, LeastNatural
<1>3. m # 0
  <2>1. Taking([k \in 0 .. 0 |-> NoEntries], entries, 0)
    BY DEF Taking
  <2>  QED
    BY <1>2, <2>1
<1>4. PICK g : Taking(g, entries, m - 1)
  BY <1>2, <1>3
<1>  DEFINE h == [k \in 0 .. m |-> IF k = m THEN TakeEntry(g[m - 1], entries[m]) ELSE g[k]]
<1>5. Taking(h, entries, m)
  <2>  DEFINE e(k) == IF k = 0 THEN NoEntries ELSE TakeEntry(h[k - 1], entries[k])
  <2>1. ASSUME NEW k \in 0 .. m PROVE h[k] = e(k)
    <3>1. CASE k = m
      <4>1. h[m] = TakeEntry(g[m - 1], entries[m]) /\ h[m - 1] = g[m - 1]
        BY <1>3
      <4>  QED
        BY <1>3, <3>1, <4>1
    <3>2. CASE k # m
      <4>1. k \in 0 .. m - 1 /\ h[k] = g[k]
        BY <3>2
      <4>2. g[k] = IF k = 0 THEN NoEntries ELSE TakeEntry(g[k - 1], entries[k])
        BY <1>4, <4>1, Zenon DEF Taking
      <4>3. k # 0 => h[k - 1] = g[k - 1]
        BY <4>1
      <4>  QED
        BY <4>1, <4>2, <4>3, Zenon
    <3>  QED
      BY <3>1, <3>2
  <2>2. h = [k \in 0 .. m |-> e(k)]
    BY <2>1, Zenon
  <2>  QED
    BY <2>2, Zenon DEF Taking
<1>  QED
  BY <1>2, <1>5

\* TakeEntries is the last of them.
LEMMA EntriesTaken ==
  ASSUME NEW entries, Len(entries) \in Nat
  PROVE  \E g : /\ g[0] = NoEntries /\ g[Len(entries)] = TakeEntries(entries)
                /\ \A i \in 1 .. Len(entries) : g[i] = TakeEntry(g[i - 1], entries[i])
<1>  DEFINE n == Len(entries)
            g == CHOOSE g : Taking(g, entries, n)
<1>1. Taking(g, entries, n)
  BY TakingExists
<1>2. TakeEntries(entries) = g[n]
  BY DEF TakeEntries, Taking
<1>  HIDE DEF g
<1>3. \A i \in 0 .. n : g[i] = IF i = 0 THEN NoEntries ELSE TakeEntry(g[i - 1], entries[i])
  BY <1>1, Zenon DEF Taking
<1>4. g[0] = NoEntries
  <2>1. 0 \in 0 .. n
    OBVIOUS
  <2>  QED
    BY <1>3, <2>1, Zenon
<1>5. \A i \in 1 .. n : g[i] = TakeEntry(g[i - 1], entries[i])
  <2>1. ASSUME NEW i \in 1 .. n PROVE g[i] = TakeEntry(g[i - 1], entries[i])
    <3>1. i \in 0 .. n /\ i # 0
      OBVIOUS
    <3>  QED
      BY <1>3, <3>1, Zenon
  <2>  QED
    BY <2>1
<1>  QED
  BY <1>2, <1>4, <1>5

\* What is held is a record of these fields.
Held(x) ==
  DOMAIN x = {"first_session", "last_session", "seen", "slot", "first_track", "last_track",
              "leadout", "ends", "anomalies"}

\* What an entry that is no track, A0, A1 or A2 with an address does: nothing more
\* than to note its session.
LEMMA NoteSessionDoes ==
  ASSUME NEW x, Held(x), NEW e
  PROVE  LET y == NoteSession(x, e) IN
         /\ Held(y)
         /\ y.first_session = IF x.first_session = 0 \/ e.session < x.first_session
                              THEN e.session ELSE x.first_session
         /\ y.last_session = IF e.session > x.last_session THEN e.session ELSE x.last_session
         /\ y.seen = IF e.session \in 1 .. 99 THEN x.seen \cup {e.session} ELSE x.seen
         /\ y.slot = x.slot /\ y.first_track = x.first_track /\ y.last_track = x.last_track
         /\ y.leadout = x.leadout /\ y.ends = x.ends
         /\ e.session \in 1 .. 99 => y.anomalies = x.anomalies
  BY DEF NoteSession, Held

\* Whether an entry is the first account of a track.
Tells(x, e) == IsTrack(e.point) /\ e.addr >= 0 /\ e.point \notin DOMAIN x.slot

\* Every field after an entry.
LEMMA TakeEntryDoes ==
  ASSUME NEW x, Held(x), NEW e, e.point \in Nat, e.addr \in Int
  PROVE  LET n == NoteSession(x, e)
             y == TakeEntry(x, e)
             ended == e.point = A2 /\ e.addr >= 0
         IN
         /\ Held(y)
         /\ y.first_session = n.first_session /\ y.last_session = n.last_session /\ y.seen = n.seen
         /\ y.slot = IF Tells(x, e)
                     THEN With(x.slot, e.point, [session |-> e.session, audio |-> e.audio,
                                                 lba |-> e.addr])
                     ELSE x.slot
         /\ y.ends = IF ended /\ e.session \in 1 .. 99 THEN With(x.ends, e.session, e.addr)
                                                       ELSE x.ends
         /\ y.leadout = IF ended /\ (x.leadout < 0 \/ e.session >= n.last_session)
                        THEN e.addr ELSE x.leadout
         /\ y.first_track = IF e.point = A0 /\ IsTrack(e.addr) /\ e.session \in 1 .. 99
                            THEN FirstTrack(n, e) ELSE x.first_track
         /\ y.last_track = IF /\ e.point = A1 /\ IsTrack(e.addr) /\ e.session \in 1 .. 99
                              /\ x.last_track = 0 \/ e.session >= n.last_session
                           THEN e.addr ELSE x.last_track
         /\ e.session \in 1 .. 99 /\ e.addr >= 0 /\ (e.point \in {A0, A1} => IsTrack(e.addr))
              => y.anomalies = x.anomalies
<1>  DEFINE n == NoteSession(x, e)
            y == TakeEntry(x, e)
<1>1. /\ Held(n) /\ n.slot = x.slot /\ n.first_track = x.first_track
      /\ n.last_track = x.last_track /\ n.leadout = x.leadout /\ n.ends = x.ends
      /\ e.session \in 1 .. 99 => n.anomalies = x.anomalies
  BY NoteSessionDoes
<1>2. e.point # A0 \/ e.point # A1
  BY DEF A0, A1
<1>3. CASE IsTrack(e.point)
  <2>1. y = TakeTrack(n, e)
    BY <1>3 DEF TakeEntry, IsTrack, A0, A1, A2
  <2>2. e.point \notin {A0, A1, A2}
    BY <1>3 DEF IsTrack, A0, A1, A2
  <2>  QED
    BY <1>1, <1>3, <2>1, <2>2 DEF TakeTrack, Flag, Held, Tells
<1>4. CASE e.point \in {A0, A1}
  <2>1. y = TakeRange(n, e) /\ ~ IsTrack(e.point) /\ e.point # A2
    BY <1>4 DEF TakeEntry, IsTrack, A0, A1, A2
  <2>  QED
    BY <1>1, <1>2, <1>4, <2>1 DEF TakeRange, Flag, Held, Tells
<1>5. CASE e.point = A2 /\ e.addr >= 0
  <2>1. y = TakeLeadout(n, e) /\ ~ IsTrack(e.point) /\ e.point \notin {A0, A1}
    BY <1>5 DEF TakeEntry, IsTrack, A0, A1, A2
  <2>  QED
    BY <1>1, <1>5, <2>1 DEF TakeLeadout, Held, Tells
<1>6. CASE ~ IsTrack(e.point) /\ e.point \notin {A0, A1} /\ ~ (e.point = A2 /\ e.addr >= 0)
  <2>1. y = n
    BY <1>6 DEF TakeEntry
  <2>  QED
    BY <1>1, <1>6, <2>1 DEF Tells
<1>  QED
  BY <1>3, <1>4, <1>5, <1>6

\* The entries account for the tracks T: what they say of a track is true, and they
\* say it of each.
Account(T, entries) ==
  /\ Len(entries) \in Nat
  /\ \A i \in 1 .. Len(entries) :
       /\ entries[i].point \in Nat /\ entries[i].addr \in Int
       /\ IsTrack(entries[i].point) /\ entries[i].addr >= 0 =>
            /\ entries[i].point \in DOMAIN T
            /\ T[entries[i].point] = [session |-> entries[i].session, audio |-> entries[i].audio,
                                      lba |-> entries[i].addr]
  /\ \A n \in DOMAIN T :
       \E i \in 1 .. Len(entries) : entries[i].point = n /\ IsTrack(n) /\ entries[i].addr >= 0

\* What holds after i of them, of the slots.
Slotted(T, entries, x, i) ==
  /\ Held(x)
  /\ DOMAIN x.slot = {entries[j].point : j \in {j \in 1 .. i : IsTrack(entries[j].point)
                                                               /\ entries[j].addr >= 0}}
  /\ \A n \in DOMAIN x.slot : x.slot[n] = T[n]
  /\ x.slot = [n \in DOMAIN x.slot |-> x.slot[n]]

\* It holds of none,
LEMMA SlottedStarts == ASSUME NEW T, NEW entries PROVE Slotted(T, entries, NoEntries, 0)
<1>1. NoEntries.slot = << >> /\ DOMAIN NoEntries.slot = {}
  BY DEF NoEntries
<1>2. NoEntries.slot = [n \in DOMAIN NoEntries.slot |-> NoEntries.slot[n]]
  BY <1>1
<1>3. Held(NoEntries)
  BY DEF NoEntries, Held
<1>  QED
  BY <1>1, <1>2, <1>3 DEF Slotted

\* and on from each to the next.
LEMMA SlottedGoesOn ==
  ASSUME NEW T, NEW entries, Account(T, entries), NEW i \in 1 .. Len(entries),
         NEW x, Slotted(T, entries, x, i - 1)
  PROVE  Slotted(T, entries, TakeEntry(x, entries[i]), i)
<1>  DEFINE e == entries[i]
            y == TakeEntry(x, e)
            named(k) == {entries[j].point : j \in {j \in 1 .. k : IsTrack(entries[j].point)
                                                                  /\ entries[j].addr >= 0}}
<1>0. Len(entries) \in Nat /\ e.point \in Nat /\ e.addr \in Int
  BY DEF Account
<1>1. Held(y) /\ y.slot = IF Tells(x, e)
                          THEN With(x.slot, e.point, [session |-> e.session, audio |-> e.audio,
                                                      lba |-> e.addr])
                          ELSE x.slot
  BY <1>0, TakeEntryDoes DEF Slotted
<1>2. named(i) = IF IsTrack(e.point) /\ e.addr >= 0 THEN named(i - 1) \cup {e.point}
                                                    ELSE named(i - 1)
  <2>1. 1 .. i = (1 .. i - 1) \cup {i}
    BY <1>0
  <2>  QED
    BY <2>1
<1>3. DOMAIN x.slot = named(i - 1)
  BY DEF Slotted
<1>4. CASE Tells(x, e)
  <2>1. /\ DOMAIN y.slot = DOMAIN x.slot \cup {e.point}
        /\ y.slot = [k \in DOMAIN y.slot |-> y.slot[k]]
        /\ \A n \in DOMAIN y.slot :
             y.slot[n] = IF n = e.point THEN [session |-> e.session, audio |-> e.audio,
                                              lba |-> e.addr] ELSE x.slot[n]
    BY <1>1, <1>4 DEF With
  <2>2. T[e.point] = [session |-> e.session, audio |-> e.audio, lba |-> e.addr]
    BY <1>4 DEF Tells, Account
  <2>3. DOMAIN y.slot = named(i)
    BY <1>2, <1>3, <1>4, <2>1 DEF Tells
  <2>4. \A n \in DOMAIN y.slot : y.slot[n] = T[n]
    BY <2>1, <2>2 DEF Slotted
  <2>  QED
    BY <1>1, <2>1, <2>3, <2>4 DEF Slotted
<1>5. CASE ~ Tells(x, e)
  <2>1. y.slot = x.slot
    BY <1>1, <1>5
  <2>2. named(i) = named(i - 1)
    BY <1>2, <1>3, <1>5 DEF Tells
  <2>  QED
    BY <1>1, <1>3, <2>1, <2>2 DEF Slotted
<1>  QED
  BY <1>4, <1>5

\* After all, the slots are the tracks.
LEMMA SlotsAreTheTracks ==
  ASSUME NEW T, T = [n \in DOMAIN T |-> T[n]], NEW entries, Account(T, entries),
         NEW x, Slotted(T, entries, x, Len(entries))
  PROVE  x.slot = T
<1>  DEFINE named == {entries[j].point : j \in {j \in 1 .. Len(entries) :
                                         IsTrack(entries[j].point) /\ entries[j].addr >= 0}}
<1>1. DOMAIN x.slot = named
  BY DEF Slotted
<1>2. named \subseteq DOMAIN T
  BY DEF Account
<1>3. DOMAIN T \subseteq named
  <2>1. ASSUME NEW n \in DOMAIN T PROVE n \in named
    <3>1. PICK i \in 1 .. Len(entries) :
            entries[i].point = n /\ IsTrack(n) /\ entries[i].addr >= 0
      BY DEF Account
    <3>  QED
      BY <3>1
  <2>  QED
    BY <2>1
<1>4. DOMAIN x.slot = DOMAIN T
  BY <1>1, <1>2, <1>3
<1>5. x.slot = [n \in DOMAIN T |-> x.slot[n]]
  BY <1>4, Zenon DEF Slotted
<1>6. \A n \in DOMAIN T : x.slot[n] = T[n]
  BY <1>4 DEF Slotted
<1>  QED
  BY <1>5, <1>6

\* What the lead-outs are, whatever the entries say.
Bounded(x) ==
  /\ Held(x) /\ x.leadout \in Nat \cup {-1} /\ x.seen \subseteq 1 .. 99
  /\ DOMAIN x.ends \subseteq 1 .. 99 /\ \A s \in DOMAIN x.ends : x.ends[s] \in Nat

\* It holds of none,
LEMMA BoundedStarts == Bounded(NoEntries)
<1>1. DOMAIN NoEntries.ends = {} /\ NoEntries.leadout = -1 /\ NoEntries.seen = {}
  BY DEF NoEntries
<1>2. Held(NoEntries)
  BY DEF NoEntries, Held
<1>  QED
  BY <1>1, <1>2 DEF Bounded

\* and on from each to the next.
LEMMA BoundedGoesOn ==
  ASSUME NEW x, Bounded(x), NEW e, e.point \in Nat, e.addr \in Int, e.session \in Nat
  PROVE  Bounded(TakeEntry(x, e))
<1>  DEFINE y == TakeEntry(x, e)
<1>1. Held(x)
  BY DEF Bounded
<1>2. /\ Held(y) /\ y.seen = NoteSession(x, e).seen
      /\ \/ y.ends = x.ends
         \/ e.addr >= 0 /\ e.session \in 1 .. 99 /\ y.ends = With(x.ends, e.session, e.addr)
      /\ y.leadout = x.leadout \/ (e.addr >= 0 /\ y.leadout = e.addr)
  <2>1. Held(y) /\ y.seen = NoteSession(x, e).seen
    BY <1>1, TakeEntryDoes
  <2>2. \/ y.ends = x.ends
        \/ e.addr >= 0 /\ e.session \in 1 .. 99 /\ y.ends = With(x.ends, e.session, e.addr)
    BY <1>1, TakeEntryDoes
  <2>3. y.leadout = x.leadout \/ (e.addr >= 0 /\ y.leadout = e.addr)
    BY <1>1, TakeEntryDoes
  <2>  QED
    BY <2>1, <2>2, <2>3
<1>3. y.seen \subseteq 1 .. 99
  <2>1. NoteSession(x, e).seen = IF e.session \in 1 .. 99 THEN x.seen \cup {e.session} ELSE x.seen
    BY <1>1, NoteSessionDoes
  <2>2. x.seen \subseteq 1 .. 99
    BY DEF Bounded
  <2>  QED
    BY <1>2, <2>1, <2>2
<1>4. DOMAIN y.ends \subseteq 1 .. 99 /\ \A s \in DOMAIN y.ends : y.ends[s] \in Nat
  <2>1. CASE y.ends = x.ends
    BY <2>1 DEF Bounded
  <2>2. CASE e.addr >= 0 /\ e.session \in 1 .. 99 /\ y.ends = With(x.ends, e.session, e.addr)
    <3>1. DOMAIN y.ends = DOMAIN x.ends \cup {e.session}
      BY <2>2 DEF With
    <3>2. \A s \in DOMAIN y.ends : y.ends[s] = IF s = e.session THEN e.addr ELSE x.ends[s]
      BY <2>2, <3>1 DEF With
    <3>  QED
      BY <2>2, <3>1, <3>2 DEF Bounded
  <2>  QED
    BY <1>2, <2>1, <2>2
<1>5. y.leadout \in Nat \cup {-1}
  BY <1>2 DEF Bounded
<1>  QED
  BY <1>2, <1>3, <1>4, <1>5 DEF Bounded

\* What holds before and goes on holding, holds of all entries.
LEMMA AllEntriesTaken ==
  ASSUME NEW T, NEW entries, Account(T, entries), T = [n \in DOMAIN T |-> T[n]],
         \A i \in 1 .. Len(entries) : entries[i].session \in Nat
  PROVE  TakeEntries(entries).slot = T /\ Bounded(TakeEntries(entries))
<1>0. Len(entries) \in Nat
  BY DEF Account
<1>1. PICK g : /\ g[0] = NoEntries /\ g[Len(entries)] = TakeEntries(entries)
               /\ \A i \in 1 .. Len(entries) : g[i] = TakeEntry(g[i - 1], entries[i])
  BY <1>0, EntriesTaken
<1>  DEFINE P(i) == Slotted(T, entries, g[i], i) /\ Bounded(g[i])
            J == {i \in 0 .. Len(entries) : ~ P(i)}
<1>2. P(0)
  BY <1>1, SlottedStarts, BoundedStarts
<1>3. ASSUME NEW i \in 1 .. Len(entries), P(i - 1) PROVE P(i)
  <2>1. entries[i].point \in Nat /\ entries[i].addr \in Int
    BY DEF Account
  <2>2. g[i] = TakeEntry(g[i - 1], entries[i])
    BY <1>1
  <2>3. Slotted(T, entries, g[i], i)
    BY <1>3, <2>2, SlottedGoesOn
  <2>4. Bounded(g[i])
    BY <1>3, <2>1, <2>2, BoundedGoesOn
  <2>  QED
    BY <2>3, <2>4
<1>  HIDE DEF P
<1>4. J = {}
  <2>1. SUFFICES ASSUME J # {} PROVE FALSE
    OBVIOUS
  <2>2. PICK i \in J : \A j \in J : i <= j
    <3>1. J \in SUBSET Nat
      BY <1>0
    <3>  HIDE DEF J
    <3>  QED
      BY <2>1, <3>1, LeastNatural
  <2>3. i # 0 /\ i - 1 \notin J /\ i - 1 \in 0 .. Len(entries)
    BY <1>0, <1>2, <2>2
  <2>  QED
    BY <1>3, <2>2, <2>3
<1>5. P(Len(entries))
  BY <1>0, <1>4
<1>  QED
  BY <1>1, <1>5, SlotsAreTheTracks DEF P

------------------------------------------------------------------------------
(* An honest disc, and what its lead-in leaves.                                *)

Shape(d, f, l, k) ==
  /\ Top \in Nat
  /\ f \in 1 .. 99 /\ l \in 1 .. 99 /\ f <= l /\ k \in 1 .. 99
  /\ DOMAIN d.tracks = f .. l /\ DOMAIN d.ends = 1 .. k
  /\ d.tracks[f].session = 1 /\ d.tracks[l].session = k
  /\ Lowest(TracksOf(d, 1)) = f /\ Highest(TracksOf(d, k)) = l
  /\ d.leadout = d.ends[k] /\ d.counts \subseteq {0, k}

\* An honest disc has such a first and last track and such a number of sessions.
LEMMA HonestShape ==
  ASSUME Top \in Nat, NEW d, IsHonest(d)
  PROVE  \E f, l, k \in 1 .. 99 : Shape(d, f, l, k)
<1>1. PICK f, l \in 1 .. 99 : f <= l /\ DOMAIN d.tracks = f .. l
  BY DEF IsHonest
<1>2. PICK k \in 1 .. 99 : DOMAIN d.ends = 1 .. k
  BY DEF IsHonest
<1>3. /\ f \in Nat /\ l \in Nat /\ k \in Nat /\ f \in f .. l /\ l \in f .. l
      /\ 1 \in 1 .. k /\ k \in 1 .. k
  BY <1>1, <1>2
<1>4. \A n \in f .. l : d.tracks[n].session \in 1 .. k
  BY <1>1, <1>2 DEF IsHonest
<1>5. \A i, j \in f .. l : i < j => d.tracks[i].session <= d.tracks[j].session
  BY <1>1 DEF IsHonest
<1>6. \A s \in 1 .. k : \E n \in f .. l : d.tracks[n].session = s
  <2>1. \A s \in DOMAIN d.ends : TracksOf(d, s) # {}
    BY DEF IsHonest
  <2>  QED
    BY <1>1, <1>2, <2>1 DEF TracksOf
<1>7. d.tracks[f].session = 1 /\ d.tracks[l].session = k
  <2>1. PICK n \in f .. l : d.tracks[n].session = 1
    BY <1>3, <1>6
  <2>2. PICK j \in f .. l : d.tracks[j].session = k
    BY <1>3, <1>6
  <2>3. n = f \/ d.tracks[f].session <= 1
    BY <1>3, <1>5, <2>1
  <2>4. j = l \/ k <= d.tracks[l].session
    BY <1>3, <1>5, <2>2
  <2>  QED
    BY <1>3, <1>4, <2>1, <2>2, <2>3, <2>4
<1>8. \A s \in 1 .. k : TracksOf(d, s) \subseteq f .. l
  BY <1>1 DEF TracksOf
<1>9. Lowest(TracksOf(d, 1)) = f
  <2>1. f \in TracksOf(d, 1) /\ TracksOf(d, 1) \subseteq f .. l
    BY <1>1, <1>3, <1>7, <1>8 DEF TracksOf
  <2>2. TracksOf(d, 1) \in SUBSET Nat
    BY <1>3, <2>1
  <2>3. Lowest(TracksOf(d, 1)) \in f .. l /\ Lowest(TracksOf(d, 1)) <= f
    BY <2>1, <2>2, LowestIs
  <2>  QED
    BY <1>3, <2>3
<1>10. Highest(TracksOf(d, k)) = l
  <2>1. l \in TracksOf(d, k) /\ TracksOf(d, k) \subseteq f .. l
    BY <1>1, <1>3, <1>7, <1>8 DEF TracksOf
  <2>2. TracksOf(d, k) \in SUBSET Nat /\ TracksOf(d, k) # {} /\ \A n \in TracksOf(d, k) : n <= l
    BY <1>3, <2>1
  <2>3. Highest(TracksOf(d, k)) \in f .. l /\ l <= Highest(TracksOf(d, k))
    BY <1>3, <2>1, <2>2, HighestIs
  <2>  QED
    BY <1>3, <2>3
<1>11. Highest(DOMAIN d.ends) = k
  BY <1>2, <1>3, RangeEnds
<1>12. d.leadout = d.ends[k] /\ d.counts \subseteq {0, k}
  BY <1>11 DEF IsHonest
<1>  QED
  BY <1>1, <1>2, <1>7, <1>9, <1>10, <1>12 DEF Shape

\* The four kinds of entries, one by one.
LEMMA FourKinds ==
  ASSUME NEW d
  PROVE  /\ \A n \in DOMAIN d.tracks : TrackEntry(d, n) \in Accounts(d)
         /\ \A s \in DOMAIN d.ends :
              /\ Entry(s, A0, TRUE, Lowest(TracksOf(d, s))) \in Accounts(d)
              /\ Entry(s, A1, TRUE, Highest(TracksOf(d, s))) \in Accounts(d)
              /\ Entry(s, A2, TRUE, d.ends[s]) \in Accounts(d)
         /\ \A e \in Accounts(d) :
              \/ \E n \in DOMAIN d.tracks : e = TrackEntry(d, n)
              \/ \E s \in DOMAIN d.ends : \/ e = Entry(s, A0, TRUE, Lowest(TracksOf(d, s)))
                                         \/ e = Entry(s, A1, TRUE, Highest(TracksOf(d, s)))
                                         \/ e = Entry(s, A2, TRUE, d.ends[s])
  BY Zenon DEF Accounts

\* What an entry of an honest lead-in is.
Honestly(d, f, l, k, e) ==
  /\ e.point \in Nat /\ e.session \in 1 .. k /\ e.addr \in Nat
  /\ e.point \in {A0, A1} => IsTrack(e.addr)
  /\ e.point = A0 /\ e.session = 1 => e.addr = f
  /\ e.point = A1 /\ e.session = k => e.addr = l
  /\ e.point = A2 => e.addr = d.ends[e.session]

\* What an honest lead-in says, entry by entry.
LEMMA LeadInSays ==
  ASSUME NEW d, IsHonest(d), NEW f, NEW l, NEW k, Shape(d, f, l, k),
         NEW entries, IsLeadIn(d, entries)
  PROVE  /\ Account(d.tracks, entries)
         /\ \A i \in 1 .. Len(entries) : Honestly(d, f, l, k, entries[i])
         /\ \A s \in 1 .. k : \E i \in 1 .. Len(entries) :
              entries[i].point = A2 /\ entries[i].session = s
         /\ \/ \E i \in 1 .. Len(entries) : entries[i].point = A0 /\ entries[i].session = 1
            \/ \A i \in 1 .. Len(entries) : entries[i].point # A0
         /\ \/ \E i \in 1 .. Len(entries) : entries[i].point = A1 /\ entries[i].session = k
            \/ \A i \in 1 .. Len(entries) : entries[i].point # A1
<1>  DEFINE T == d.tracks
            len == Len(entries)
            said == {entries[i] : i \in DOMAIN entries}
<1>1. len \in Nat /\ DOMAIN entries = 1 .. len /\ \A i \in 1 .. len : entries[i] \in Accounts(d)
  <2>1. entries \in Seq(Accounts(d))
    BY DEF IsLeadIn
  <2>  QED
    BY <2>1
<1>2. PICK left_out \in SUBSET {A0, A1} : said = {e \in Accounts(d) : e.point \notin left_out}
  BY DEF IsLeadIn
<1>3. /\ f \in 1 .. 99 /\ l \in 1 .. 99 /\ f <= l /\ k \in 1 .. 99
      /\ DOMAIN T = f .. l /\ DOMAIN d.ends = 1 .. k
      /\ Lowest(TracksOf(d, 1)) = f /\ Highest(TracksOf(d, k)) = l
  BY DEF Shape
<1>4. /\ \A m \in f .. l : T[m] \in [session : 1 .. k, audio : BOOLEAN, lba : Nat]
      /\ \A s \in 1 .. k : d.ends[s] \in Nat
      /\ T = [m \in f .. l |-> T[m]]
  <2>1. T \in [f .. l -> [session : 1 .. k, audio : BOOLEAN, lba : Nat]] /\ d.ends \in [1 .. k -> 1 .. Top]
    BY <1>3 DEF IsHonest
  <2>0. Top \in Nat
    BY DEF Shape
  <2>  HIDE DEF T
  <2>2. \A m \in f .. l : T[m] \in [session : 1 .. k, audio : BOOLEAN, lba : Nat]
    BY <2>1
  <2>3. \A s \in 1 .. k : d.ends[s] \in Nat
    <3>1. \A s \in 1 .. k : d.ends[s] \in 1 .. Top
      BY <2>1
    <3>2. 1 .. Top \subseteq Nat
      BY <2>0
    <3>  QED
      BY <3>1, <3>2
  <2>4. T = [m \in f .. l |-> T[m]]
    BY <2>1
  <2>  QED
    BY <2>2, <2>3, <2>4
<1>0. \A m \in f .. l : m \in Nat /\ IsTrack(m) /\ m \notin {A0, A1, A2}
  BY <1>3 DEF IsTrack, A0, A1, A2
<1>5. \A s \in 1 .. k : TracksOf(d, s) # {} /\ TracksOf(d, s) \subseteq f .. l
  <2>1. \A s \in DOMAIN d.ends : TracksOf(d, s) # {}
    BY DEF IsHonest
  <2>2. \A s \in 1 .. k : TracksOf(d, s) \subseteq f .. l
    BY <1>3 DEF TracksOf
  <2>  QED
    BY <1>3, <2>1, <2>2
<1>6. \A s \in 1 .. k : /\ IsTrack(Lowest(TracksOf(d, s))) /\ IsTrack(Highest(TracksOf(d, s)))
                        /\ Lowest(TracksOf(d, s)) \in Nat /\ Highest(TracksOf(d, s)) \in Nat
  <2>1. ASSUME NEW s \in 1 .. k
        PROVE  /\ IsTrack(Lowest(TracksOf(d, s))) /\ IsTrack(Highest(TracksOf(d, s)))
               /\ Lowest(TracksOf(d, s)) \in Nat /\ Highest(TracksOf(d, s)) \in Nat
    <3>1. /\ TracksOf(d, s) \in SUBSET Nat /\ TracksOf(d, s) # {}
          /\ TracksOf(d, s) \subseteq f .. l /\ \A m \in TracksOf(d, s) : m <= l
      <4>1. TracksOf(d, s) # {} /\ TracksOf(d, s) \subseteq f .. l
        BY <1>5
      <4>2. f \in Nat /\ l \in Nat
        BY <1>3
      <4>3. \A m \in f .. l : m \in Nat /\ m <= l
        BY <4>2
      <4>  QED
        BY <4>1, <4>3
    <3>2. Lowest(TracksOf(d, s)) \in f .. l
      BY <3>1, LowestIs
    <3>3. Highest(TracksOf(d, s)) \in f .. l
      <4>1. l \in Nat
        BY <1>3
      <4>  QED
        BY <3>1, <4>1, HighestIs
    <3>  QED
      BY <1>0, <3>2, <3>3
  <2>  QED
    BY <2>1
\* An entry is one of the four kinds.
<1>7. ASSUME NEW e \in Accounts(d)
      PROVE  \/ /\ e.point \in f .. l
                /\ e.session = T[e.point].session /\ e.audio = T[e.point].audio
                /\ e.addr = T[e.point].lba
             \/ /\ e.point = A0 /\ e.session \in 1 .. k
                /\ e.addr = Lowest(TracksOf(d, e.session))
             \/ /\ e.point = A1 /\ e.session \in 1 .. k
                /\ e.addr = Highest(TracksOf(d, e.session))
             \/ /\ e.point = A2 /\ e.session \in 1 .. k
                /\ e.addr = d.ends[e.session]
  <2>1. \/ \E m \in f .. l : e = Entry(T[m].session, m, T[m].audio, T[m].lba)
        \/ \E s \in 1 .. k : \/ e = Entry(s, A0, TRUE, Lowest(TracksOf(d, s)))
                            \/ e = Entry(s, A1, TRUE, Highest(TracksOf(d, s)))
                            \/ e = Entry(s, A2, TRUE, d.ends[s])
    BY <1>3, <1>7, FourKinds, Zenon DEF TrackEntry
  <2>2. CASE \E m \in f .. l : e = Entry(T[m].session, m, T[m].audio, T[m].lba)
    <3>1. PICK m \in f .. l : e = Entry(T[m].session, m, T[m].audio, T[m].lba)
      BY <2>2
    <3>2. e.session = T[m].session /\ e.point = m /\ e.audio = T[m].audio /\ e.addr = T[m].lba
      BY <3>1 DEF Entry
    <3>  QED
      BY <3>1, <3>2
  <2>3. ASSUME NEW s \in 1 .. k, e = Entry(s, A0, TRUE, Lowest(TracksOf(d, s)))
        PROVE  e.point = A0 /\ e.session = s /\ e.addr = Lowest(TracksOf(d, s))
    BY <2>3 DEF Entry
  <2>4. ASSUME NEW s \in 1 .. k, e = Entry(s, A1, TRUE, Highest(TracksOf(d, s)))
        PROVE  e.point = A1 /\ e.session = s /\ e.addr = Highest(TracksOf(d, s))
    BY <2>4 DEF Entry
  <2>5. ASSUME NEW s \in 1 .. k, e = Entry(s, A2, TRUE, d.ends[s])
        PROVE  e.point = A2 /\ e.session = s /\ e.addr = d.ends[s]
    BY <2>5 DEF Entry
  <2>  QED
    BY <2>1, <2>2, <2>3, <2>4, <2>5, Zenon
<1>8. ASSUME NEW i \in 1 .. len
      PROVE  LET e == entries[i] IN
             /\ e.point \in Nat
             /\ e.session \in 1 .. k /\ e.addr \in Nat
             /\ IsTrack(e.point) => /\ e.point \in f .. l
                                    /\ T[e.point] = [session |-> e.session, audio |-> e.audio,
                                                     lba |-> e.addr]
             /\ e.point \in {A0, A1} => IsTrack(e.addr)
             /\ e.point = A0 /\ e.session = 1 => e.addr = f
             /\ e.point = A1 /\ e.session = k => e.addr = l
             /\ e.point = A2 => e.addr = d.ends[e.session]
  <2>  DEFINE e == entries[i]
  <2>0. e \in Accounts(d)
    BY <1>1
  <2>1. CASE /\ e.point \in f .. l
             /\ e.session = T[e.point].session /\ e.audio = T[e.point].audio
             /\ e.addr = T[e.point].lba
    <3>1. T[e.point] \in [session : 1 .. k, audio : BOOLEAN, lba : Nat]
      BY <1>4, <2>1
    <3>2. e.session = T[e.point].session /\ e.audio = T[e.point].audio /\ e.addr = T[e.point].lba
      BY <2>1
    <3>3. e.point \notin {A0, A1, A2} /\ e.point \in Nat
      BY <1>3, <2>1 DEF A0, A1, A2
    <3>4. T[e.point] = [session |-> e.session, audio |-> e.audio, lba |-> e.addr]
      BY <3>1, <3>2
    <3>  HIDE DEF T
    <3>  QED
      BY <2>1, <3>1, <3>2, <3>3, <3>4
  <2>2. CASE e.point = A0 /\ e.session \in 1 .. k /\ e.addr = Lowest(TracksOf(d, e.session))
    <3>1. IsTrack(e.addr) /\ e.addr \in Nat
      BY <1>6, <2>2
    <3>2. e.session = 1 /\ e.point = A0 => e.addr = f
      BY <1>3, <2>2 DEF A0, A1
    <3>3. e.session = k /\ e.point = A1 => e.addr = l
      BY <1>3, <2>2 DEF A0, A1
    <3>  HIDE DEF e, T
    <3>  QED
      <4>1. ~ IsTrack(e.point) /\ e.point # A2 /\ e.point \in Nat
        BY <2>2 DEF IsTrack, A0, A1, A2
      <4>  QED
        BY <2>2, <3>1, <3>2, <3>3, <4>1 DEF e
  <2>3. CASE e.point = A1 /\ e.session \in 1 .. k /\ e.addr = Highest(TracksOf(d, e.session))
    <3>1. IsTrack(e.addr) /\ e.addr \in Nat
      BY <1>6, <2>3
    <3>2. e.session = 1 /\ e.point = A0 => e.addr = f
      BY <1>3, <2>3 DEF A0, A1
    <3>3. e.session = k /\ e.point = A1 => e.addr = l
      BY <1>3, <2>3 DEF A0, A1
    <3>  HIDE DEF e, T
    <3>  QED
      <4>1. ~ IsTrack(e.point) /\ e.point # A2 /\ e.point \in Nat
        BY <2>3 DEF IsTrack, A0, A1, A2
      <4>  QED
        BY <2>3, <3>1, <3>2, <3>3, <4>1 DEF e
  <2>4. CASE e.point = A2 /\ e.session \in 1 .. k /\ e.addr = d.ends[e.session]
    BY <1>4, <2>4 DEF IsTrack, A0, A1, A2
  <2>  HIDE DEF e, T
  <2>5. QED
    <3>1. \/ /\ e.point \in f .. l
             /\ e.session = T[e.point].session /\ e.audio = T[e.point].audio
             /\ e.addr = T[e.point].lba
          \/ e.point = A0 /\ e.session \in 1 .. k /\ e.addr = Lowest(TracksOf(d, e.session))
          \/ e.point = A1 /\ e.session \in 1 .. k /\ e.addr = Highest(TracksOf(d, e.session))
          \/ e.point = A2 /\ e.session \in 1 .. k /\ e.addr = d.ends[e.session]
      BY <1>7, <2>0, Zenon
    <3>  QED
      BY <2>1, <2>2, <2>3, <2>4, <3>1, Zenon
\* Nothing but A0 and A1 is left out.
<1>9. ASSUME NEW e \in Accounts(d), e.point \notin left_out
      PROVE  \E i \in 1 .. len : entries[i] = e
  <2>1. e \in said
    BY <1>2, <1>9
  <2>  QED
    BY <1>1, <2>1
<1>10. \A m \in DOMAIN T : \E i \in 1 .. len : entries[i].point = m /\ IsTrack(m) /\ entries[i].addr >= 0
  <2>1. ASSUME NEW m \in f .. l
        PROVE  \E i \in 1 .. len : entries[i].point = m /\ IsTrack(m) /\ entries[i].addr >= 0
    <3>  DEFINE e == TrackEntry(d, m)
    <3>1. e \in Accounts(d)
      BY <1>3, FourKinds
    <3>5. e.point = m /\ e.addr = T[m].lba
      BY DEF TrackEntry, Entry
    <3>  HIDE DEF e, T
    <3>2. e.point \notin left_out /\ IsTrack(m)
      BY <1>0, <1>2, <3>5
    <3>3. T[m].lba >= 0
      BY <1>4
    <3>4. PICK i \in 1 .. len : entries[i] = e
      BY <1>9, <3>1, <3>2
    <3>  QED
      BY <3>2, <3>3, <3>4, <3>5
  <2>  QED
    BY <1>3, <2>1
<1>11. \A s \in 1 .. k : \E i \in 1 .. len : entries[i].point = A2 /\ entries[i].session = s
  <2>1. ASSUME NEW s \in 1 .. k
        PROVE  \E i \in 1 .. len : entries[i].point = A2 /\ entries[i].session = s
    <3>  DEFINE e == Entry(s, A2, TRUE, d.ends[s])
    <3>1. e \in Accounts(d)
      BY <1>3, FourKinds
    <3>3. e.point = A2 /\ e.session = s
      BY DEF Entry
    <3>  HIDE DEF e
    <3>2. e.point \notin left_out
      BY <1>2, <3>3 DEF A0, A1, A2
    <3>4. PICK i \in 1 .. len : entries[i] = e
      BY <1>9, <3>1, <3>2
    <3>  QED
      BY <3>3, <3>4
  <2>  QED
    BY <2>1
<1>12. \/ \E i \in 1 .. len : entries[i].point = A0 /\ entries[i].session = 1
       \/ \A i \in 1 .. len : entries[i].point # A0
  <2>1. CASE A0 \in left_out
    <3>1. \A i \in 1 .. len : entries[i] \in said
      BY <1>1
    <3>  QED
      BY <1>2, <2>1, <3>1
  <2>2. CASE A0 \notin left_out
    <3>  DEFINE e == Entry(1, A0, TRUE, Lowest(TracksOf(d, 1)))
    <3>1. e \in Accounts(d)
      <4>1. 1 \in DOMAIN d.ends
        BY <1>3
      <4>  QED
        BY <4>1, FourKinds
    <3>2. e.point = A0 /\ e.session = 1
      BY DEF Entry
    <3>  HIDE DEF e
    <3>3. PICK i \in 1 .. len : entries[i] = e
      BY <1>9, <2>2, <3>1, <3>2
    <3>  QED
      BY <3>2, <3>3
  <2>  QED
    BY <2>1, <2>2
<1>13. \/ \E i \in 1 .. len : entries[i].point = A1 /\ entries[i].session = k
       \/ \A i \in 1 .. len : entries[i].point # A1
  <2>1. CASE A1 \in left_out
    <3>1. \A i \in 1 .. len : entries[i] \in said
      BY <1>1
    <3>  QED
      BY <1>2, <2>1, <3>1
  <2>2. CASE A1 \notin left_out
    <3>  DEFINE e == Entry(k, A1, TRUE, Highest(TracksOf(d, k)))
    <3>1. e \in Accounts(d)
      <4>1. k \in DOMAIN d.ends
        BY <1>3
      <4>  QED
        BY <4>1, FourKinds
    <3>2. e.point = A1 /\ e.session = k
      BY DEF Entry
    <3>  HIDE DEF e
    <3>3. PICK i \in 1 .. len : entries[i] = e
      BY <1>9, <2>2, <3>1, <3>2
    <3>  QED
      BY <3>2, <3>3
  <2>  QED
    BY <2>1, <2>2
<1>14. Account(T, entries)
  <2>1. \A i \in 1 .. len :
          /\ entries[i].point \in Nat /\ entries[i].addr \in Int
          /\ IsTrack(entries[i].point) /\ entries[i].addr >= 0 =>
               /\ entries[i].point \in DOMAIN T
               /\ T[entries[i].point] = [session |-> entries[i].session, audio |-> entries[i].audio,
                                         lba |-> entries[i].addr]
    BY <1>3, <1>8
  <2>  HIDE DEF T
  <2>  QED
    BY <1>1, <1>10, <2>1 DEF Account
<1>15. \A i \in 1 .. len : Honestly(d, f, l, k, entries[i])
  BY <1>8 DEF Honestly
<1>  QED
  BY <1>11, <1>12, <1>13, <1>14, <1>15

\* What the loop holds after i entries of an honest lead-in.
Told(d, f, l, k, entries, x, i) ==
  /\ Held(x) /\ x.anomalies = {}
  /\ x.seen \subseteq 1 .. k /\ \A j \in 1 .. i : entries[j].session \in x.seen
  /\ x.first_session \in Nat /\ (1 \in x.seen => x.first_session = 1)
  /\ x.last_session \in Nat /\ x.last_session <= k /\ (k \in x.seen => x.last_session = k)
  /\ DOMAIN x.ends \subseteq x.seen
  /\ \A s \in DOMAIN x.ends : x.ends[s] = d.ends[s]
  /\ \A j \in 1 .. i : entries[j].point = A2 => entries[j].session \in DOMAIN x.ends
  /\ x.leadout \in Int /\ (k \in DOMAIN x.ends => x.leadout = d.ends[k])
  /\ (\E j \in 1 .. i : entries[j].point = A0 /\ entries[j].session = 1) =>
       1 \in x.seen /\ x.first_track = f
  /\ (\A j \in 1 .. i : entries[j].point # A0) => x.first_track = 0
  /\ (\E j \in 1 .. i : entries[j].point = A1 /\ entries[j].session = k) =>
       k \in x.seen /\ x.last_track = l
  /\ (\A j \in 1 .. i : entries[j].point # A1) => x.last_track = 0

\* It holds of none,
LEMMA ToldStarts ==
  ASSUME NEW d, NEW f, NEW l, NEW k \in 1 .. 99, NEW entries
  PROVE  Told(d, f, l, k, entries, NoEntries, 0)
<1>1. /\ NoEntries.anomalies = {} /\ NoEntries.seen = {} /\ NoEntries.first_session = 0
      /\ NoEntries.last_session = 0 /\ DOMAIN NoEntries.ends = {} /\ NoEntries.leadout = -1
      /\ NoEntries.first_track = 0 /\ NoEntries.last_track = 0
  BY DEF NoEntries
<1>2. Held(NoEntries)
  BY DEF NoEntries, Held
<1>3. 1 .. 0 = {}
  OBVIOUS
<1>  QED
  BY <1>1, <1>2, <1>3 DEF Told

\* and on from each to the next.
LEMMA ToldGoesOn ==
  ASSUME NEW d, NEW f \in 1 .. 99, NEW l \in 1 .. 99, NEW k \in 1 .. 99, NEW entries, NEW i \in Nat \ {0},
         \A s \in 1 .. k : d.ends[s] \in Nat,
         NEW x, Told(d, f, l, k, entries, x, i - 1),
         NEW e, e = entries[i], Honestly(d, f, l, k, e)
  PROVE  Told(d, f, l, k, entries, TakeEntry(x, e), i)
<1>  DEFINE n == NoteSession(x, e)
            y == TakeEntry(x, e)
<1>1. 1 .. i = (1 .. i - 1) \cup {i}
  OBVIOUS
<1>2. /\ e.session \in 1 .. 99 /\ e.session \in Nat /\ e.session \in 1 .. k
      /\ e.addr \in Nat /\ e.addr \in Int /\ e.point \in Nat /\ e.addr >= 0
      /\ e.point \in {A0, A1} => IsTrack(e.addr)
  <2>1. e.session \in 1 .. k
    BY DEF Honestly
  <2>2. e.session \in 1 .. 99 /\ e.session \in Nat
    <3>1. \A q \in 1 .. 99 : \A t \in 1 .. q : t \in 1 .. 99 /\ t \in Nat
      OBVIOUS
    <3>  QED
      BY <2>1, <3>1
  <2>3. e.addr \in Nat /\ e.point \in Nat
    BY DEF Honestly
  <2>4. e.addr \in Int /\ e.addr >= 0
    BY <2>3
  <2>5. e.point \in {A0, A1} => IsTrack(e.addr)
    BY DEF Honestly
  <2>  QED
    BY <2>1, <2>2, <2>3, <2>4, <2>5
<1>20. /\ e.point = A0 /\ e.session = 1 => e.addr = f
       /\ e.point = A1 /\ e.session = k => e.addr = l
       /\ e.point = A2 => e.addr = d.ends[e.session]
  BY DEF Honestly
<1>3. Held(x)
  BY DEF Told
<1>4. /\ n.first_session = IF x.first_session = 0 \/ e.session < x.first_session
                           THEN e.session ELSE x.first_session
      /\ n.last_session = IF e.session > x.last_session THEN e.session ELSE x.last_session
      /\ n.seen = x.seen \cup {e.session} /\ n.first_track = x.first_track
  BY <1>2, <1>3, NoteSessionDoes, ZenonT(40)
<1>5. /\ Held(y)
      /\ y.first_session = n.first_session /\ y.last_session = n.last_session /\ y.seen = n.seen
  BY <1>2, <1>3, TakeEntryDoes, ZenonT(40)
<1>6. y.ends = IF e.point = A2 THEN With(x.ends, e.session, e.addr) ELSE x.ends
  BY <1>2, <1>3, TakeEntryDoes, ZenonT(40)
<1>7. y.leadout = IF e.point = A2 /\ (x.leadout < 0 \/ e.session >= n.last_session)
                  THEN e.addr ELSE x.leadout
  BY <1>2, <1>3, TakeEntryDoes
<1>8. y.first_track = IF e.point = A0 THEN FirstTrack(n, e) ELSE x.first_track
  <2>1. e.point = A0 => IsTrack(e.addr)
    BY <1>2
  <2>  QED
    BY <1>2, <1>3, <2>1, TakeEntryDoes, ZenonT(40)
<1>9. y.last_track = IF e.point = A1 /\ (x.last_track = 0 \/ e.session >= n.last_session)
                     THEN e.addr ELSE x.last_track
  <2>1. e.point = A1 => IsTrack(e.addr)
    BY <1>2
  <2>  QED
    BY <1>2, <1>3, <2>1, TakeEntryDoes, ZenonT(40)
<1>10. y.anomalies = {}
  <2>1. y.anomalies = x.anomalies
    BY <1>2, <1>3, TakeEntryDoes
  <2>  QED
    BY <2>1 DEF Told
<1>  HIDE DEF n, y
<1>11. y.seen \subseteq 1 .. k /\ \A j \in 1 .. i : entries[j].session \in y.seen
  <2>1. x.seen \subseteq 1 .. k /\ \A j \in 1 .. i - 1 : entries[j].session \in x.seen
    BY DEF Told
  <2>2. y.seen = x.seen \cup {e.session}
    BY <1>4, <1>5
  <2>3. y.seen \subseteq 1 .. k
    BY <1>2, <2>1, <2>2
  <2>  QED
    BY <1>1, <2>1, <2>2, <2>3
<1>12. y.first_session \in Nat /\ (1 \in y.seen => y.first_session = 1)
  BY <1>2, <1>4, <1>5 DEF Told
<1>13. y.last_session \in Nat /\ y.last_session <= k /\ (k \in y.seen => y.last_session = k)
  BY <1>2, <1>4, <1>5 DEF Told
<1>14. /\ DOMAIN y.ends \subseteq y.seen
       /\ \A s \in DOMAIN y.ends : y.ends[s] = d.ends[s]
       /\ \A j \in 1 .. i : entries[j].point = A2 => entries[j].session \in DOMAIN y.ends
       /\ DOMAIN y.ends = IF e.point = A2 THEN DOMAIN x.ends \cup {e.session} ELSE DOMAIN x.ends
  <2>1. /\ DOMAIN x.ends \subseteq x.seen
        /\ \A s \in DOMAIN x.ends : x.ends[s] = d.ends[s]
        /\ \A j \in 1 .. i - 1 : entries[j].point = A2 => entries[j].session \in DOMAIN x.ends
    BY DEF Told
  <2>2. CASE e.point = A2
    <3>1. DOMAIN y.ends = DOMAIN x.ends \cup {e.session}
      BY <1>6, <2>2 DEF With
    <3>2. \A s \in DOMAIN y.ends : y.ends[s] = IF s = e.session THEN e.addr ELSE x.ends[s]
      BY <1>6, <2>2, <3>1 DEF With
    <3>  QED
      BY <1>1, <1>4, <1>5, <1>20, <2>1, <2>2, <3>1, <3>2
  <2>3. CASE e.point # A2
    BY <1>1, <1>4, <1>5, <1>6, <2>1, <2>3
  <2>  QED
    BY <2>2, <2>3
<1>15. y.leadout \in Int /\ (k \in DOMAIN y.ends => y.leadout = d.ends[k])
  <2>1. /\ x.leadout \in Int /\ (k \in DOMAIN x.ends => x.leadout = d.ends[k])
        /\ DOMAIN x.ends \subseteq x.seen
    BY DEF Told
  <2>2. n.last_session <= k /\ (k \in n.seen => n.last_session = k)
    BY <1>5, <1>13
  <2>3. CASE e.point = A2 /\ (x.leadout < 0 \/ e.session >= n.last_session)
    <3>1. y.leadout = d.ends[e.session]
      BY <1>7, <1>20, <2>3
    <3>2. k \in DOMAIN y.ends => e.session = k
      <4>1. SUFFICES ASSUME k \in DOMAIN y.ends PROVE e.session = k
        OBVIOUS
      <4>2. n.last_session = k
        BY <1>5, <1>14, <2>2, <4>1
      <4>3. CASE x.leadout < 0
        <5>1. d.ends[k] \in Nat
          OBVIOUS
        <5>2. k \notin DOMAIN x.ends
          BY <2>1, <4>3, <5>1
        <5>  QED
          BY <1>14, <4>1, <5>2
      <4>4. CASE e.session >= n.last_session
        BY <1>2, <4>2, <4>4
      <4>  QED
        BY <2>3, <4>3, <4>4
    <3>3. d.ends[e.session] \in Int
      BY <1>2
    <3>  QED
      BY <3>1, <3>2, <3>3
  <2>4. CASE ~ (e.point = A2 /\ (x.leadout < 0 \/ e.session >= n.last_session))
    <3>1. y.leadout = x.leadout
      BY <1>7, <2>4
    <3>2. k \in DOMAIN y.ends => k \in DOMAIN x.ends
      <4>1. e.point = A2 => e.session < n.last_session
        BY <1>2, <1>5, <1>13, <2>4
      <4>  QED
        BY <1>2, <1>5, <1>13, <1>14, <2>2, <4>1
    <3>  QED
      BY <2>1, <3>1, <3>2
  <2>  QED
    BY <2>3, <2>4
<1>16. /\ (\E j \in 1 .. i : entries[j].point = A0 /\ entries[j].session = 1) =>
            1 \in y.seen /\ y.first_track = f
       /\ (\A j \in 1 .. i : entries[j].point # A0) => y.first_track = 0
  <2>  DEFINE before == \E j \in 1 .. i - 1 : entries[j].point = A0 /\ entries[j].session = 1
              none == \A j \in 1 .. i - 1 : entries[j].point # A0
  <2>1. (before => 1 \in x.seen /\ x.first_track = f) /\ (none => x.first_track = 0)
    BY DEF Told
  <2>2. /\ (\E j \in 1 .. i : entries[j].point = A0 /\ entries[j].session = 1) <=>
             before \/ (e.point = A0 /\ e.session = 1)
        /\ (\A j \in 1 .. i : entries[j].point # A0) <=> none /\ e.point # A0
    BY <1>1
  <2>3. e.point # A0 => y.first_track = x.first_track
    BY <1>8
  <2>4. e.point = A0 /\ e.session = 1 => y.first_track = f
    <3>1. e.session = 1 => n.first_session = 1
      BY <1>4, <1>5, <1>12
    <3>  QED
      BY <1>8, <1>20, <3>1 DEF FirstTrack
  <2>5. before /\ e.point = A0 /\ e.session # 1 => y.first_track = f
    <3>1. before => n.first_session = 1 /\ n.first_track = f
      BY <1>4, <1>5, <1>12, <2>1
    <3>2. e.session # 1 => ~ (e.session <= 1)
      BY <1>2
    <3>  QED
      BY <1>8, <3>1, <3>2 DEF FirstTrack
  <2>6. before \/ (e.point = A0 /\ e.session = 1) => 1 \in y.seen
    BY <1>4, <1>5, <2>1
  <2>  HIDE DEF before, none
  <2>7. before \/ (e.point = A0 /\ e.session = 1) => y.first_track = f
    BY <2>1, <2>3, <2>4, <2>5
  <2>  QED
    BY <2>1, <2>2, <2>3, <2>6, <2>7
<1>17. /\ (\E j \in 1 .. i : entries[j].point = A1 /\ entries[j].session = k) =>
            k \in y.seen /\ y.last_track = l
       /\ (\A j \in 1 .. i : entries[j].point # A1) => y.last_track = 0
  <2>  DEFINE before == \E j \in 1 .. i - 1 : entries[j].point = A1 /\ entries[j].session = k
              none == \A j \in 1 .. i - 1 : entries[j].point # A1
  <2>1. (before => k \in x.seen /\ x.last_track = l) /\ (none => x.last_track = 0)
    BY DEF Told
  <2>2. /\ (\E j \in 1 .. i : entries[j].point = A1 /\ entries[j].session = k) <=>
             before \/ (e.point = A1 /\ e.session = k)
        /\ (\A j \in 1 .. i : entries[j].point # A1) <=> none /\ e.point # A1
    BY <1>1
  <2>3. e.point # A1 => y.last_track = x.last_track
    BY <1>9
  <2>8. n.last_session \in Nat /\ n.last_session <= k /\ (k \in n.seen => n.last_session = k)
    BY <1>5, <1>13
  <2>4. e.point = A1 /\ e.session = k => y.last_track = l
    BY <1>9, <1>20, <2>8
  <2>5. before /\ e.point = A1 /\ e.session # k => y.last_track = l
    <3>1. before => n.last_session = k /\ x.last_track = l
      BY <1>4, <2>1, <2>8
    <3>2. e.session # k => ~ (e.session >= k)
      BY <1>2
    <3>  QED
      BY <1>9, <3>1, <3>2
  <2>6. before \/ (e.point = A1 /\ e.session = k) => k \in y.seen
    BY <1>4, <1>5, <2>1
  <2>  HIDE DEF before, none
  <2>7. before \/ (e.point = A1 /\ e.session = k) => y.last_track = l
    BY <2>1, <2>3, <2>4, <2>5
  <2>  QED
    BY <2>1, <2>2, <2>3, <2>6, <2>7
<1>  QED
  BY <1>5, <1>10, <1>11, <1>12, <1>13, <1>14, <1>15, <1>16, <1>17 DEF Told, y

\* What all the entries of an honest lead-in leave.
LEMMA LeadInTold ==
  ASSUME NEW d, IsHonest(d), NEW f, NEW l, NEW k, Shape(d, f, l, k),
         NEW entries, IsLeadIn(d, entries)
  PROVE  LET acc == TakeEntries(entries) IN
         /\ acc.slot = d.tracks /\ acc.anomalies = {} /\ acc.seen = 1 .. k
         /\ DOMAIN acc.ends = 1 .. k /\ \A s \in 1 .. k : acc.ends[s] = d.ends[s]
         /\ acc.leadout = d.ends[k] /\ acc.last_session = k
         /\ acc.first_track \in {0, f} /\ acc.last_track \in {0, l}
<1>  DEFINE acc == TakeEntries(entries)
            len == Len(entries)
<1>1. Account(d.tracks, entries)
  BY LeadInSays
<1>2. \A i \in 1 .. len : Honestly(d, f, l, k, entries[i])
  BY LeadInSays
<1>3. \A s \in 1 .. k : \E i \in 1 .. len : entries[i].point = A2 /\ entries[i].session = s
  BY LeadInSays
<1>4. \/ \E i \in 1 .. len : entries[i].point = A0 /\ entries[i].session = 1
      \/ \A i \in 1 .. len : entries[i].point # A0
  BY LeadInSays
<1>5. \/ \E i \in 1 .. len : entries[i].point = A1 /\ entries[i].session = k
      \/ \A i \in 1 .. len : entries[i].point # A1
  BY LeadInSays
<1>6. len \in Nat
  BY <1>1 DEF Account
<1>7. f \in 1 .. 99 /\ l \in 1 .. 99 /\ k \in 1 .. 99 /\ Top \in Nat /\ DOMAIN d.ends = 1 .. k
  BY DEF Shape
<1>8. \A s \in 1 .. k : d.ends[s] \in Nat
  <2>1. d.ends \in [1 .. k -> 1 .. Top]
    BY <1>7 DEF IsHonest
  <2>2. \A s \in 1 .. k : d.ends[s] \in 1 .. Top
    BY <2>1
  <2>3. 1 .. Top \subseteq Nat
    BY <1>7
  <2>  QED
    BY <2>2, <2>3
<1>9. d.tracks = [n \in DOMAIN d.tracks |-> d.tracks[n]]
  <2>1. d.tracks \in [DOMAIN d.tracks -> [session : DOMAIN d.ends, audio : BOOLEAN, lba : Nat]]
    BY DEF IsHonest
  <2>  QED
    BY <2>1
<1>10. acc.slot = d.tracks
  <2>1. ASSUME NEW i \in 1 .. len PROVE entries[i].session \in Nat
    <3>1. entries[i].session \in 1 .. k
      BY <1>2 DEF Honestly
    <3>  QED
      BY <1>7, <3>1
  <2>  QED
    BY <1>1, <1>9, <2>1, AllEntriesTaken
<1>11. PICK g : /\ g[0] = NoEntries /\ g[len] = acc
                /\ \A i \in 1 .. len : g[i] = TakeEntry(g[i - 1], entries[i])
  BY <1>6, EntriesTaken
<1>  DEFINE P(i) == Told(d, f, l, k, entries, g[i], i)
            J == {i \in 0 .. len : ~ P(i)}
<1>12. P(0)
  BY <1>7, <1>11, ToldStarts
<1>13. ASSUME NEW i \in 1 .. len, P(i - 1) PROVE P(i)
  <2>1. Honestly(d, f, l, k, entries[i]) /\ g[i] = TakeEntry(g[i - 1], entries[i])
    BY <1>2, <1>11
  <2>2. i \in Nat \ {0}
    BY <1>6
  <2>  QED
    BY <1>7, <1>8, <1>13, <2>1, <2>2, ToldGoesOn, ZenonT(40)
<1>  HIDE DEF P, acc, len
<1>14. J = {}
  <2>1. SUFFICES ASSUME J # {} PROVE FALSE
    OBVIOUS
  <2>2. PICK i \in J : \A j \in J : i <= j
    <3>1. J \in SUBSET Nat
      BY <1>6
    <3>  HIDE DEF J
    <3>  QED
      BY <2>1, <3>1, LeastNatural
  <2>3. i # 0 /\ i - 1 \notin J /\ i - 1 \in 0 .. len
    BY <1>6, <1>12, <2>2
  <2>  QED
    BY <1>13, <2>2, <2>3
<1>15. Told(d, f, l, k, entries, acc, len)
  <2>1. P(len)
    BY <1>6, <1>14
  <2>  QED
    BY <1>11, <2>1 DEF P
<1>16. DOMAIN acc.ends = 1 .. k /\ acc.seen = 1 .. k
  <2>1. acc.seen \subseteq 1 .. k /\ DOMAIN acc.ends \subseteq acc.seen
    BY <1>15 DEF Told
  <2>2. \A j \in 1 .. len : entries[j].point = A2 => entries[j].session \in DOMAIN acc.ends
    BY <1>15 DEF Told
  <2>3. \A s \in 1 .. k : s \in DOMAIN acc.ends
    BY <1>3, <2>2 DEF len
  <2>  QED
    BY <2>1, <2>3
<1>17. k \in 1 .. k
  BY <1>7
<1>18. \A s \in 1 .. k : acc.ends[s] = d.ends[s]
  BY <1>15, <1>16 DEF Told
<1>19. acc.leadout = d.ends[k] /\ acc.last_session = k /\ acc.anomalies = {}
  BY <1>15, <1>16, <1>17 DEF Told
<1>20. acc.first_track \in {0, f}
  <2>1. /\ (\E j \in 1 .. len : entries[j].point = A0 /\ entries[j].session = 1) => acc.first_track = f
        /\ (\A j \in 1 .. len : entries[j].point # A0) => acc.first_track = 0
    BY <1>15 DEF Told
  <2>  QED
    BY <1>4, <2>1 DEF len
<1>21. acc.last_track \in {0, l}
  <2>1. /\ (\E j \in 1 .. len : entries[j].point = A1 /\ entries[j].session = k) => acc.last_track = l
        /\ (\A j \in 1 .. len : entries[j].point # A1) => acc.last_track = 0
    BY <1>15 DEF Told
  <2>  QED
    BY <1>5, <2>1 DEF len
<1>  QED
  BY <1>10, <1>16, <1>18, <1>19, <1>20, <1>21 DEF acc

\* The range an honest lead-in claims is the one it lists.
LEMMA NoMismatch ==
  ASSUME NEW f \in 1 .. 99, NEW l \in 1 .. 99, f <= l, NEW acc, DOMAIN acc.slot = f .. l,
         acc.first_track \in {0, f}, acc.last_track \in {0, l}
  PROVE  ~ RangeMismatch(acc)
<1>1. f \in Nat /\ l \in Nat
  OBVIOUS
<1>2. Lowest(f .. l) = f /\ Highest(f .. l) = l /\ Cardinality(f .. l) = l - f + 1
  BY <1>1, RangeEnds
<1>  QED
  BY <1>1, <1>2 DEF RangeMismatch

------------------------------------------------------------------------------
(* Extents.                                                                    *)

\* A map before its extents are filled in: no track has one.
Blank(m) ==
  /\ DOMAIN m = {"ok", "tracks", "leadout", "sessions", "first", "last", "total", "anomalies"}
  /\ m.tracks = [n \in DOMAIN m.tracks |-> m.tracks[n]]
  /\ DOMAIN m.tracks \subseteq 1 .. 99
  /\ \A n \in DOMAIN m.tracks :
       /\ m.tracks[n] = [session |-> m.tracks[n].session, audio |-> m.tracks[n].audio,
                         lba |-> m.tracks[n].lba, sectors |-> 0, pregap |-> 0]
       /\ m.tracks[n].lba \in Nat /\ m.tracks[n].session \in Nat
  /\ m.leadout \in Nat /\ \A s \in DOMAIN m.sessions : m.sessions[s].leadout \in Nat

\* The anomalies of a map, one by one.
After(D, n) == {k \in D : k > n /\ \A j \in D : j > n => k <= j}
End(m, n) == SessionLeadout(m, m.tracks[n].session)

\* The anomalies of a map's geometry, one by one.
LEMMA AnomaliesAre ==
  ASSUME NEW m
  PROVE  LET T == m.tracks
             D == DOMAIN m.tracks
             G == GeometryAnomalies(m)
         IN
         /\ G \subseteq {"lba_order", "past_leadout", "empty_track", "leadout_before", "overlap"}
         /\ "lba_order" \in G <=> \E n \in D, k \in D : /\ k \in After(D, n)
                                                      /\ T[k].session = T[n].session
                                                      /\ T[k].lba <= T[n].lba
         /\ "past_leadout" \in G <=> \E n \in D : End(m, n) <= T[n].lba
         /\ "empty_track" \in G <=> \E n \in D : T[n].sectors = 0
         /\ "leadout_before" \in G <=>
               \E g \in Groups(m) \ {{}} : \A n \in g : End(m, n) <= T[n].lba
         /\ "overlap" \in G <=> \E n, k \in D : n # k /\ Overlap(T[n], T[k])
  BY DEF GeometryAnomalies, After, End

\* The geometry that GeometryAnomalies speaks of is the result's own.
LEMMA Filled ==
  ASSUME NEW m, Blank(m)
  PROVE  LET r == FillExtents(m) IN
         /\ DOMAIN r = DOMAIN m /\ DOMAIN r.tracks = DOMAIN m.tracks
         /\ \A n \in DOMAIN m.tracks :
              /\ DOMAIN r.tracks[n] = {"session", "audio", "lba", "sectors", "pregap"}
              /\ r.tracks[n].session = m.tracks[n].session
              /\ r.tracks[n].audio = m.tracks[n].audio
              /\ r.tracks[n].lba = m.tracks[n].lba
              /\ r.tracks[n].sectors = Sectors(m, n)
              /\ r.tracks[n].pregap = IF HasPregap(m.tracks, n) THEN m.tracks[n].lba ELSE 0
         /\ r.ok = m.ok /\ r.leadout = m.leadout /\ r.sessions = m.sessions /\ r.total = m.total
         /\ r.first = m.first /\ r.last = m.last
         /\ r.anomalies = m.anomalies \cup GeometryAnomalies(r)
<1>  DEFINE T == m.tracks
            D == DOMAIN m.tracks
            new(n) == [T[n] EXCEPT !.sectors = Sectors(m, n),
                                   !.pregap = IF HasPregap(T, n) THEN @ + T[n].lba ELSE @]
            sized == [m EXCEPT !.tracks = [n \in D |-> new(n)]]
            r == FillExtents(m)
<1>1. r = [sized EXCEPT !.anomalies = @ \cup GeometryAnomalies(sized)]
  BY Zenon DEF FillExtents
<1>2. /\ DOMAIN sized = DOMAIN m /\ sized.tracks = [n \in D |-> new(n)]
      /\ sized.ok = m.ok /\ sized.leadout = m.leadout /\ sized.sessions = m.sessions
      /\ sized.first = m.first /\ sized.last = m.last /\ sized.total = m.total
      /\ sized.anomalies = m.anomalies
  <2>  HIDE DEF new
  <2>  QED
    BY DEF Blank
<1>3. ASSUME NEW n \in D
      PROVE  /\ DOMAIN new(n) = {"session", "audio", "lba", "sectors", "pregap"}
             /\ new(n).session = T[n].session /\ new(n).audio = T[n].audio
             /\ new(n).lba = T[n].lba /\ new(n).sectors = Sectors(m, n)
             /\ new(n).pregap = IF HasPregap(T, n) THEN T[n].lba ELSE 0
  <2>1. /\ T[n] = [session |-> T[n].session, audio |-> T[n].audio, lba |-> T[n].lba,
                   sectors |-> 0, pregap |-> 0]
        /\ T[n].lba \in Nat
    BY DEF Blank
  <2>2. DOMAIN T[n] = {"session", "audio", "lba", "sectors", "pregap"} /\ T[n].pregap = 0
    BY <2>1
  <2>3. 0 + T[n].lba = T[n].lba
    BY <2>1
  <2>  HIDE DEF T
  <2>  QED
    BY <2>2, <2>3
<1>  HIDE DEF sized, new
<1>4. /\ DOMAIN r = DOMAIN sized /\ r.tracks = sized.tracks /\ r.ok = sized.ok /\ r.leadout = sized.leadout
      /\ r.sessions = sized.sessions /\ r.first = sized.first /\ r.last = sized.last
      /\ r.total = sized.total /\ r.anomalies = sized.anomalies \cup GeometryAnomalies(sized)
  <2>1. DOMAIN sized = {"ok", "tracks", "leadout", "sessions", "first", "last", "total", "anomalies"}
    BY <1>2 DEF Blank
  <2>  HIDE DEF r
  <2>  QED
    BY <1>1, <2>1
<1>5. GeometryAnomalies(sized) = GeometryAnomalies(r)
  <2>  HIDE DEF r
  <2>1. Groups(sized) = Groups(r) /\ \A n : End(sized, n) = End(r, n)
    BY <1>4 DEF Groups, End, SessionLeadout
  <2>2. \A a \in {"lba_order", "past_leadout", "empty_track", "leadout_before", "overlap"} :
          a \in GeometryAnomalies(sized) <=> a \in GeometryAnomalies(r)
    BY <1>4, <2>1, AnomaliesAre
  <2>3. /\ GeometryAnomalies(sized) \subseteq
             {"lba_order", "past_leadout", "empty_track", "leadout_before", "overlap"}
        /\ GeometryAnomalies(r) \subseteq
             {"lba_order", "past_leadout", "empty_track", "leadout_before", "overlap"}
    BY AnomaliesAre
  <2>  QED
    BY <2>2, <2>3
<1>6. DOMAIN r.tracks = D /\ \A n \in D : r.tracks[n] = new(n)
  BY <1>2, <1>4
<1>  HIDE DEF r
<1>7. \A n \in D :
        /\ DOMAIN r.tracks[n] = {"session", "audio", "lba", "sectors", "pregap"}
        /\ r.tracks[n].session = T[n].session /\ r.tracks[n].audio = T[n].audio
        /\ r.tracks[n].lba = T[n].lba /\ r.tracks[n].sectors = Sectors(m, n)
        /\ r.tracks[n].pregap = IF HasPregap(T, n) THEN T[n].lba ELSE 0
  BY <1>3, <1>6
<1>8. r.anomalies = m.anomalies \cup GeometryAnomalies(r)
  BY <1>2, <1>4, <1>5
<1>  QED
  BY <1>2, <1>4, <1>6, <1>7, <1>8 DEF r

\* A map whose extents are those of its tracks.
Extents(m) ==
  /\ DOMAIN m.tracks \subseteq 1 .. 99
  /\ \A n \in DOMAIN m.tracks :
       /\ m.tracks[n].lba \in Nat /\ m.tracks[n].session \in Nat
       /\ m.tracks[n].sectors = Sectors(m, n)
       /\ m.tracks[n].pregap = IF HasPregap(m.tracks, n) THEN m.tracks[n].lba ELSE 0
  /\ m.leadout \in Nat /\ \A s \in DOMAIN m.sessions : m.sessions[s].leadout \in Nat
  /\ GeometryAnomalies(m) \subseteq m.anomalies

\* Tracks of n's session that begin after it.
Later(m, n) == {k \in DOMAIN m.tracks : /\ m.tracks[k].session = m.tracks[n].session
                                        /\ m.tracks[k].lba > m.tracks[n].lba}

\* A track ends where the next of its session begins, and the last at the lead-out.
LEMMA SectorsAre ==
  ASSUME NEW m, Extents(m), NEW n \in DOMAIN m.tracks
  PROVE  LET t == m.tracks[n] IN
         /\ t.lba \in Nat /\ t.sectors \in Nat /\ End(m, n) \in Nat
         /\ Ends(t) \in Nat /\ Ends(t) >= t.lba
         /\ \A k \in Later(m, n) : t.sectors > 0 /\ Ends(t) <= m.tracks[k].lba
         /\ \/ \E k \in Later(m, n) : Ends(t) = m.tracks[k].lba
            \/ Later(m, n) = {} /\ Ends(t) = IF End(m, n) > t.lba THEN End(m, n) ELSE t.lba
<1>  DEFINE T == m.tracks
            t == T[n]
            starts == NextStarts(T, n)
<1>1. /\ \A k \in DOMAIN T : T[k].lba \in Nat
      /\ t.lba \in Nat /\ t.sectors = Sectors(m, n)
  BY DEF Extents
<1>2. starts = {T[k].lba : k \in Later(m, n)}
  <2>1. t.lba \in Nat
    BY <1>1
  <2>2. {k \in DOMAIN T \ {n} : T[k].session = t.session /\ T[k].lba > t.lba} = Later(m, n)
    BY <2>1 DEF Later
  <2>  QED
    BY <2>2, Zenon DEF NextStarts
<1>3. End(m, n) \in Nat
  BY DEF End, SessionLeadout, Extents
<1>4. t.sectors = Sized(t.lba, IF starts # {} THEN Lowest(starts) ELSE End(m, n))
  BY <1>1, Zenon DEF Sectors, End
<1>  HIDE DEF starts, T
<1>5. CASE starts # {}
  <2>1. starts \in SUBSET Nat
    BY <1>1, <1>2 DEF Later, T
  <2>2. Lowest(starts) \in starts /\ \A x \in starts : Lowest(starts) <= x
    BY <1>5, <2>1, LowestIs
  <2>3. PICK k \in Later(m, n) : Lowest(starts) = T[k].lba
    BY <1>2, <2>2
  <2>4. T[k].lba \in Nat /\ T[k].lba > t.lba
    BY <1>1, <2>3 DEF Later, T
  <2>5. t.sectors = T[k].lba - t.lba
    BY <1>4, <1>5, <2>3, <2>4 DEF Sized
  <2>6. t.sectors \in Nat /\ t.sectors > 0 /\ Ends(t) = T[k].lba
    BY <1>1, <2>4, <2>5 DEF Ends
  <2>7. \A j \in Later(m, n) : T[k].lba <= T[j].lba
    BY <1>2, <2>2, <2>3
  <2>  QED
    BY <1>1, <1>3, <2>3, <2>4, <2>6, <2>7 DEF T
<1>6. CASE starts = {}
  <2>1. Later(m, n) = {}
    BY <1>2, <1>6
  <2>2. t.sectors = IF End(m, n) > t.lba THEN End(m, n) - t.lba ELSE 0
    BY <1>4, <1>6 DEF Sized
  <2>3. t.sectors \in Nat /\ Ends(t) = IF End(m, n) > t.lba THEN End(m, n) ELSE t.lba
    BY <1>1, <1>3, <2>2 DEF Ends
  <2>  QED
    BY <1>1, <1>3, <2>1, <2>3 DEF T
<1>  QED
  BY <1>5, <1>6

\* Where a track begins: the one with the pregap at 0.
LEMMA StartsAre ==
  ASSUME NEW m, Extents(m), NEW n \in DOMAIN m.tracks
  PROVE  LET t == m.tracks[n] IN
         /\ t.pregap \in Nat /\ Starts(t) \in Nat /\ Starts(t) <= t.lba
         /\ HasPregap(m.tracks, n) => t.pregap = t.lba /\ Starts(t) = 0
         /\ ~ HasPregap(m.tracks, n) => t.pregap = 0 /\ Starts(t) = t.lba
<1>1. /\ m.tracks[n].lba \in Nat
      /\ m.tracks[n].pregap = IF HasPregap(m.tracks, n) THEN m.tracks[n].lba ELSE 0
  BY DEF Extents
<1>  QED
  BY <1>1 DEF Starts

------------------------------------------------------------------------------
(* Lead-ins that lie.                                                          *)

\* No two tracks at one address.
Apart(m) == \A i, j \in DOMAIN m.tracks : m.tracks[i].lba = m.tracks[j].lba => i = j

\* No two of the extents the guard trusts have a sector in common.
LEMMA TrustedAreApart ==
  ASSUME NEW m, Extents(m), m.anomalies \cap Untrusted = {},
         NEW n \in DOMAIN m.tracks, NEW k \in DOMAIN m.tracks, n # k,
         m.tracks[n].sectors > 0, m.tracks[k].sectors > 0
  PROVE  ~ (Starts(m.tracks[n]) < Ends(m.tracks[k]) /\ Starts(m.tracks[k]) < Ends(m.tracks[n]))
<1>1. "overlap" \notin GeometryAnomalies(m)
  BY DEF Extents, Untrusted
<1>2. "overlap" \in GeometryAnomalies(m)
        <=> \E i, j \in DOMAIN m.tracks : i # j /\ Overlap(m.tracks[i], m.tracks[j])
  BY AnomaliesAre
<1>  QED
  BY <1>1, <1>2 DEF Overlap

\* A track without a sector, on the disc, ends where another of its session begins:
\* or else the session's lead-out would be refused.
LEMMA EmptyHasABefore ==
  ASSUME NEW m, Extents(m), Apart(m), m.anomalies \cap Untrusted = {},
         NEW k \in DOMAIN m.tracks, m.tracks[k].sectors = 0, m.tracks[k].lba < m.leadout
  PROVE  \E j \in DOMAIN m.tracks :
           /\ j # k /\ m.tracks[j].session = m.tracks[k].session
           /\ m.tracks[j].lba < m.tracks[k].lba /\ m.tracks[j].sectors > 0
           /\ Ends(m.tracks[j]) = m.tracks[k].lba
<1>  DEFINE T == m.tracks
            D == DOMAIN m.tracks
            g == {j \in D : T[j].session = T[k].session}
            before == {j \in g : T[j].lba < T[k].lba}
<1>1. /\ \A j \in D : T[j].lba \in Nat
      /\ m.leadout \in Nat /\ D \in SUBSET Nat
  BY DEF Extents
<1>2. Later(m, k) = {} /\ End(m, k) <= T[k].lba /\ End(m, k) \in Nat
  <2>1. \A j \in Later(m, k) : T[k].sectors > 0
    BY SectorsAre
  <2>2. Later(m, k) = {}
    BY <2>1
  <2>3. /\ Ends(T[k]) = IF End(m, k) > T[k].lba THEN End(m, k) ELSE T[k].lba
        /\ End(m, k) \in Nat
    BY <2>2, SectorsAre
  <2>4. Ends(T[k]) = T[k].lba
    BY <1>1 DEF Ends
  <2>  QED
    BY <1>1, <2>2, <2>3, <2>4
<1>3. g \in Groups(m)
  <2>1. T[k].session \in DOMAIN m.sessions
    BY <1>1, <1>2 DEF End, SessionLeadout
  <2>  QED
    BY <2>1, Zenon DEF Groups
<1>4. \E j \in g : ~ (End(m, j) <= T[j].lba)
  <2>1. "leadout_before" \notin GeometryAnomalies(m)
    BY DEF Extents, Untrusted
  <2>2. "leadout_before" \in GeometryAnomalies(m)
          <=> \E h \in Groups(m) \ {{}} : \A j \in h : End(m, j) <= T[j].lba
    BY AnomaliesAre
  <2>3. k \in g
    OBVIOUS
  <2>  HIDE DEF g
  <2>  QED
    BY <1>3, <2>1, <2>2, <2>3
<1>5. before # {}
  <2>1. PICK j \in g : ~ (End(m, j) <= T[j].lba)
    BY <1>4
  <2>2. End(m, j) = End(m, k)
    BY <2>1 DEF End
  <2>3. T[j].lba < T[k].lba
    BY <1>1, <1>2, <2>1, <2>2
  <2>  QED
    BY <2>1, <2>3
\* The last that begins before it.
<1>6. \E j \in before : \A i \in before : T[i].lba <= T[j].lba
  <2>  DEFINE I == {T[j].lba : j \in before}
  <2>1. I \in SUBSET Nat /\ I # {} /\ T[k].lba \in Nat /\ \A x \in I : x <= T[k].lba
    BY <1>1, <1>5
  <2>2. Highest(I) \in I /\ \A x \in I : x <= Highest(I)
    <3>  HIDE DEF I
    <3>  QED
      BY <2>1, HighestIs
  <2>3. PICK j \in before : Highest(I) = T[j].lba
    BY <2>2
  <2>4. \A i \in before : T[i].lba <= Highest(I)
    BY <2>2
  <2>  QED
    BY <2>3, <2>4
<1>7. PICK j \in before : \A i \in before : T[i].lba <= T[j].lba
  BY <1>6
<1>8. /\ j \in D /\ T[j].session = T[k].session /\ T[j].lba < T[k].lba /\ j # k
      /\ T[j].lba \in Nat /\ T[k].lba \in Nat
  BY <1>1, <1>7
<1>9. k \in Later(m, j) /\ \A i \in Later(m, j) : T[i].lba >= T[k].lba
  <2>1. k \in Later(m, j)
    BY <1>8 DEF Later
  <2>2. ASSUME NEW i \in Later(m, j) PROVE T[i].lba >= T[k].lba
    <3>1. i \in g /\ T[i].lba > T[j].lba /\ T[i].lba \in Nat
      BY <1>1, <1>8 DEF Later
    <3>  QED
      BY <1>7, <1>8, <3>1
  <2>  QED
    BY <2>1, <2>2
<1>10. T[j].sectors > 0 /\ Ends(T[j]) <= T[k].lba /\ Ends(T[j]) \in Nat
  BY <1>8, <1>9, SectorsAre
<1>11. \E i \in Later(m, j) : Ends(T[j]) = T[i].lba
  BY <1>8, <1>9, SectorsAre
<1>12. Ends(T[j]) = T[k].lba
  BY <1>8, <1>9, <1>10, <1>11
<1>  QED
  BY <1>8, <1>10, <1>12

\* A track that owns a sector is the last to begin before it.
LEMMA OwnerIsLatest ==
  ASSUME NEW m, Extents(m), Apart(m), m.anomalies \cap Untrusted = {}, ~ OnlyAPregap(m),
         NEW q \in Nat, q < m.leadout, NEW n \in Owners(m, q),
         NEW k \in DOMAIN m.tracks, k # n, m.tracks[k].lba <= q
  PROVE  m.tracks[k].lba < m.tracks[n].lba /\ m.tracks[n].lba <= q
<1>  DEFINE T == m.tracks
            D == DOMAIN m.tracks
<1>1. n \in D /\ Starts(T[n]) <= q /\ q < Ends(T[n])
  BY DEF Owners
<1>2. /\ \A j \in D : T[j].lba \in Nat
      /\ m.leadout \in Nat /\ D \in SUBSET Nat
  BY DEF Extents
<1>3. \A j \in D : /\ T[j].sectors \in Nat /\ Ends(T[j]) \in Nat /\ Ends(T[j]) = T[j].lba + T[j].sectors
                   /\ Starts(T[j]) \in Nat /\ Starts(T[j]) <= T[j].lba
                   /\ T[j].pregap \in Nat /\ Starts(T[j]) = T[j].lba - T[j].pregap
  <2>1. ASSUME NEW j \in D
        PROVE  /\ T[j].sectors \in Nat /\ Ends(T[j]) \in Nat
               /\ Starts(T[j]) \in Nat /\ Starts(T[j]) <= T[j].lba /\ T[j].pregap \in Nat
    BY SectorsAre, StartsAre
  <2>2. \A j \in D : Ends(T[j]) = T[j].lba + T[j].sectors /\ Starts(T[j]) = T[j].lba - T[j].pregap
    BY DEF Ends, Starts
  <2>  QED
    BY <2>1, <2>2
<1>4. T[n].sectors > 0
  <2>1. SUFFICES ASSUME T[n].sectors = 0 PROVE FALSE
    BY <1>1, <1>3
  <2>2. T[n].pregap = 0
    BY <1>1, <1>3, <2>1 DEF OnlyAPregap
  <2>  QED
    BY <1>1, <1>2, <1>3, <2>1, <2>2
\* A track that has sectors, or the one before it, would overlap n.
<1>5. \E j \in D : /\ T[j].sectors > 0 /\ T[j].session = T[k].session
                   /\ T[j].lba <= T[k].lba
                   /\ (j = k \/ Ends(T[j]) = T[k].lba)
  <2>1. CASE T[k].sectors > 0
    BY <1>2, <2>1
  <2>2. CASE T[k].sectors = 0
    <3>1. T[k].lba < m.leadout
      BY <1>2
    <3>2. PICK j \in D : /\ T[j].session = T[k].session /\ T[j].lba < T[k].lba
                         /\ T[j].sectors > 0 /\ Ends(T[j]) = T[k].lba
      BY <2>2, <3>1, EmptyHasABefore
    <3>  QED
      BY <1>2, <3>2
  <2>  QED
    BY <1>2, <1>3, <2>1, <2>2
<1>6. PICK j \in D : /\ T[j].sectors > 0 /\ T[j].session = T[k].session
                     /\ T[j].lba <= T[k].lba
                     /\ (j = k \/ Ends(T[j]) = T[k].lba)
  BY <1>5
<1>7. Ends(T[j]) >= T[k].lba /\ T[j].lba < Ends(T[n])
  BY <1>1, <1>2, <1>3, <1>6
<1>8. T[k].lba # T[n].lba
  BY <1>1 DEF Apart
<1>9. ASSUME T[n].lba <= q, T[k].lba > T[n].lba PROVE FALSE
  <2>1. T[k].session # T[n].session
    <3>1. SUFFICES ASSUME T[k].session = T[n].session PROVE FALSE
      OBVIOUS
    <3>2. k \in Later(m, n)
      BY <1>9, <3>1 DEF Later
    <3>3. Ends(T[n]) <= T[k].lba
      BY <1>1, <3>2, SectorsAre
    <3>  QED
      BY <1>1, <1>2, <1>3, <3>3
  <2>2. j # n
    BY <1>6, <2>1
  <2>3. Starts(T[n]) < Ends(T[j])
    BY <1>1, <1>2, <1>3, <1>7, <1>9
  <2>4. Starts(T[j]) < Ends(T[n])
    BY <1>1, <1>2, <1>3, <1>6, <1>7
  <2>  QED
    BY <1>1, <1>4, <1>6, <2>2, <2>3, <2>4, TrustedAreApart
<1>10. ASSUME T[n].lba > q PROVE FALSE
  <2>1. HasPregap(T, n) /\ Starts(T[n]) = 0
    <3>1. Starts(T[n]) # T[n].lba
      BY <1>1, <1>2, <1>3, <1>10
    <3>  QED
      BY <1>1, <3>1, StartsAre
  <2>2. \A i \in D : i # n /\ T[i].session <= 1 => T[n].lba <= T[i].lba
    <3>1. \A i \in D \ {n} : T[i].session <= 1 =>
             T[n].lba < T[i].lba \/ (T[n].lba = T[i].lba /\ n < i)
      BY <2>1 DEF HasPregap
    <3>  QED
      BY <1>1, <1>2, <3>1
  <2>3. T[k].lba < T[n].lba /\ T[j].lba < T[n].lba
    BY <1>1, <1>2, <1>6, <1>10
  <2>4. j # n /\ ~ (T[j].session <= 1)
    BY <1>1, <1>2, <2>2, <2>3
  <2>5. Ends(T[j]) > 0
    BY <1>2, <1>3, <1>6
  <2>6. Starts(T[j]) < Ends(T[n])
    BY <1>1, <1>2, <1>3, <1>7, <1>6
  <2>7. Starts(T[n]) < Ends(T[j])
    BY <2>1, <2>5
  <2>  QED
    BY <1>1, <1>4, <1>6, <2>4, <2>6, <2>7, TrustedAreApart
<1>  QED
  BY <1>1, <1>2, <1>8, <1>9, <1>10

------------------------------------------------------------------------------
(* The guard's walk.                                                           *)

\* One turn of it.
Turn(m, end, g, at) ==
  LET p == at[1]
      s == at[2]
      t == m.tracks[Lowest(Owners(m, p))]
  IN  IF p >= end THEN "ok"
      ELSE IF Owners(m, p) = {} THEN "not_in_track"
      ELSE IF ~t.audio THEN "data_track"
      ELSE IF s # 0 /\ t.session # s THEN "crosses_session"
      ELSE g[<<Stride(t), IF s = 0 THEN t.session ELSE s>>]

\* It goes on beyond the sector it is at.
LEMMA StrideGoesOn ==
  ASSUME NEW m, Extents(m), NEW p \in Nat, Owners(m, p) # {}
  PROVE  LET t == m.tracks[Lowest(Owners(m, p))] IN
         /\ Lowest(Owners(m, p)) \in Owners(m, p)
         /\ Stride(t) \in Nat /\ Stride(t) > p /\ t.session \in Nat
<1>1. Owners(m, p) \in SUBSET Nat
  BY DEF Owners, Extents
<1>2. Lowest(Owners(m, p)) \in Owners(m, p)
  BY <1>1, LowestIs
<1>3. ASSUME NEW n \in Owners(m, p)
      PROVE  LET t == m.tracks[n] IN Stride(t) \in Nat /\ Stride(t) > p /\ t.session \in Nat
  <2>1. n \in DOMAIN m.tracks /\ p < Ends(m.tracks[n])
    BY DEF Owners
  <2>2. Ends(m.tracks[n]) \in Nat
    BY <2>1, SectorsAre
  <2>3. m.tracks[n].session \in Nat
    BY <2>1 DEF Extents
  <2>  QED
    BY <2>1, <2>2, <2>3 DEF Stride
<1>  QED
  BY <1>2, <1>3

\* A turn looks at what lies beyond only.
SameAhead(g, h, at) == \A x \in Nat \X Nat : x[1] > at[1] => g[x] = h[x]

\* Two walks that agree beyond a sector take the same turn there.
LEMMA TurnLooksAhead ==
  ASSUME NEW m, Extents(m), NEW end \in Nat, NEW at \in Nat \X Nat, NEW g, NEW h,
         SameAhead(g, h, at)
  PROVE  Turn(m, end, g, at) = Turn(m, end, h, at)
<1>  DEFINE p == at[1]
            s == at[2]
            t == m.tracks[Lowest(Owners(m, p))]
            next == <<Stride(t), IF s = 0 THEN t.session ELSE s>>
<1>1. p \in Nat /\ s \in Nat
  OBVIOUS
<1>2. ASSUME Owners(m, p) # {} PROVE g[next] = h[next]
  <2>1. Stride(t) \in Nat /\ Stride(t) > p /\ t.session \in Nat
    BY <1>1, <1>2, StrideGoesOn
  <2>  HIDE DEF t
  <2>2. next \in Nat \X Nat /\ next[1] > p
    BY <1>1, <2>1
  <2>  HIDE DEF next
  <2>  QED
    BY <2>2 DEF SameAhead
<1>3. \A f : Turn(m, end, f, at) =
        IF p >= end THEN "ok"
        ELSE IF Owners(m, p) = {} THEN "not_in_track"
        ELSE IF ~t.audio THEN "data_track"
        ELSE IF s # 0 /\ t.session # s THEN "crosses_session"
        ELSE f[next]
  BY Zenon DEF Turn
<1>  HIDE DEF p, s, t, next
<1>  QED
  BY <1>2, <1>3, Zenon

\* The walk as far back as b sectors before the end.
Walking(m, end, g, b) ==
  g = [at \in {at \in Nat \X Nat : at[1] + b >= end} |-> Turn(m, end, g, at)]

\* There is a walk from every sector, however far from the end.
LEMMA WalkingExists ==
  ASSUME NEW m, Extents(m), NEW end \in Nat, NEW b \in Nat
  PROVE  \E g : Walking(m, end, g, b)
<1>  DEFINE D(c) == {at \in Nat \X Nat : at[1] + c >= end}
            J == {c \in Nat : ~ \E g : Walking(m, end, g, c)}
<1>1. SUFFICES ASSUME J # {} PROVE FALSE
  OBVIOUS
<1>2. PICK c \in J : \A i \in J : c <= i
  <2>1. J \in SUBSET Nat
    OBVIOUS
  <2>  HIDE DEF J
  <2>  QED
    BY <1>1, <2>1, LeastNatural
<1>3. c \in Nat
  BY <1>2
<1>4. c # 0
  <2>  DEFINE g == [at \in D(0) |-> "ok"]
  <2>1. \A at \in D(0) : Turn(m, end, g, at) = "ok"
    <3>1. \A at \in D(0) : at[1] >= end
      OBVIOUS
    <3>  HIDE DEF D, g
    <3>  QED
      BY <3>1, Zenon DEF Turn
  <2>2. g = [at \in D(0) |-> Turn(m, end, g, at)]
    BY <2>1, Zenon
  <2>3. Walking(m, end, g, 0)
    BY <2>2, Zenon DEF Walking
  <2>  QED
    BY <1>2, <2>3
<1>5. PICK g : Walking(m, end, g, c - 1)
  <2>1. c - 1 \in Nat /\ ~ (c <= c - 1)
    BY <1>3, <1>4
  <2>2. c - 1 \notin J
    BY <1>2, <2>1
  <2>  QED
    BY <2>1, <2>2
<1>6. g = [at \in D(c - 1) |-> Turn(m, end, g, at)]
  BY <1>5, Zenon DEF Walking
<1>  DEFINE h == [at \in D(c) |-> IF at \in D(c - 1) THEN g[at] ELSE Turn(m, end, g, at)]
<1>7. ASSUME NEW at \in D(c) PROVE h[at] = Turn(m, end, h, at)
  <2>1. at \in Nat \X Nat /\ at[1] + c >= end /\ at[1] \in Nat
    OBVIOUS
  <2>2. \A x \in Nat \X Nat : x[1] > at[1] => x \in D(c - 1) /\ x \in D(c)
    <3>1. ASSUME NEW x \in Nat \X Nat, x[1] > at[1] PROVE x[1] + (c - 1) >= end /\ x[1] + c >= end
      <4>1. x[1] \in Nat
        OBVIOUS
      <4>  QED
        BY <1>3, <2>1, <3>1, <4>1
    <3>  QED
      BY <3>1
  <2>  HIDE DEF D
  <2>3. SameAhead(h, g, at)
    BY <2>2 DEF SameAhead
  <2>  HIDE DEF h
  <2>4. Turn(m, end, h, at) = Turn(m, end, g, at)
    <3>1. \A y \in Nat \X Nat : \A e, f : SameAhead(e, f, y) => Turn(m, end, e, y) = Turn(m, end, f, y)
      BY TurnLooksAhead
    <3>2. at \in Nat \X Nat
      BY <2>1
    <3>  QED
      BY <2>3, <3>1, <3>2
  <2>5. h[at] = Turn(m, end, g, at)
    <3>1. CASE at \in D(c - 1)
      BY <1>6, <3>1, <1>7 DEF h
    <3>2. CASE at \notin D(c - 1)
      BY <1>7, <3>2 DEF h
    <3>  QED
      BY <3>1, <3>2
  <2>  QED
    BY <2>4, <2>5
<1>8. h = [at \in D(c) |-> Turn(m, end, h, at)]
  <2>1. h = [at \in D(c) |-> h[at]]
    <3>  HIDE DEF D
    <3>  QED
      OBVIOUS
  <2>  HIDE DEF h, D
  <2>  QED
    BY <1>7, <2>1, Zenon
<1>9. Walking(m, end, h, c)
  BY <1>8, Zenon DEF Walking
<1>  QED
  BY <1>2, <1>9

\* The walk is made of its turns.
LEMMA WalkIs ==
  ASSUME NEW m, Extents(m), NEW end \in Nat, NEW at \in Nat \X Nat
  PROVE  Walk(m, end)[at] = Turn(m, end, Walk(m, end), at)
<1>  DEFINE Q(g) == g = [x \in Nat \X Nat |-> Turn(m, end, g, x)]
            w == CHOOSE g : Q(g)
<1>1. \E g : Q(g)
  <2>1. PICK g : Walking(m, end, g, end)
    BY WalkingExists
  <2>2. {x \in Nat \X Nat : x[1] + end >= end} = Nat \X Nat
    <3>1. \A x \in Nat \X Nat : x[1] + end >= end
      <4>1. \A x \in Nat \X Nat : x[1] \in Nat
        OBVIOUS
      <4>  QED
        BY <4>1
    <3>  QED
      BY <3>1
  <2>  QED
    BY <2>1, <2>2, Zenon DEF Walking
<1>2. Q(w)
  BY <1>1, Zenon
<1>3. Walk(m, end) = w
  BY Zenon DEF Walk, Turn
<1>  HIDE DEF w
<1>  QED
  BY <1>2, <1>3

\* What the walk accepts is audio, sector by sector, of the session it came with.
LEMMA WalkIsSound ==
  ASSUME NEW m, Extents(m), NEW end \in Nat, NEW p \in Nat, NEW s \in Nat,
         Walk(m, end)[<<p, s>>] = "ok"
  PROVE  \A q \in p .. end - 1 :
           \E n \in Owners(m, q) : m.tracks[n].audio /\ (s # 0 => m.tracks[n].session = s)
<1>  DEFINE T == m.tracks
            W == Walk(m, end)
            Good(q, r) == \E n \in Owners(m, q) : T[n].audio /\ (r # 0 => T[n].session = r)
            P(b) == \A a, r \in Nat : a + b >= end /\ W[<<a, r>>] = "ok" =>
                      \A q \in a .. end - 1 : Good(q, r)
            J == {b \in Nat : ~ P(b)}
<1>1. SUFFICES J = {}
  <2>1. end \in Nat /\ p + end >= end
    OBVIOUS
  <2>2. J = {} => P(end)
    BY <2>1
  <2>3. J = {} => \A q \in p .. end - 1 : Good(q, s)
    <3>  HIDE DEF J, Good
    <3>  QED
      BY <2>1, <2>2
  <2>  QED
    BY <2>3, Zenon
<1>2. SUFFICES ASSUME J # {} PROVE FALSE
  OBVIOUS
<1>3. PICK b \in J : \A i \in J : b <= i
  <2>1. J \in SUBSET Nat
    OBVIOUS
  <2>  HIDE DEF J
  <2>  QED
    BY <1>2, <2>1, LeastNatural
<1>4. b \in Nat /\ ~ P(b)
  BY <1>3
<1>  HIDE DEF W, Good
<1>5. PICK a \in Nat, r \in Nat : /\ a + b >= end /\ W[<<a, r>>] = "ok"
                                  /\ ~ \A q \in a .. end - 1 : Good(q, r)
  BY <1>4
<1>6. a < end
  BY <1>5
<1>7. b # 0 /\ P(b - 1)
  <2>1. b # 0
    BY <1>4, <1>5, <1>6
  <2>2. b - 1 \in Nat /\ ~ (b <= b - 1)
    BY <1>4, <2>1
  <2>3. b - 1 \notin J
    BY <1>3, <2>2
  <2>  QED
    BY <2>1, <2>2, <2>3
<1>  DEFINE o == Lowest(Owners(m, a))
            t == T[o]
            u == IF r = 0 THEN t.session ELSE r
<1>8. Turn(m, end, W, <<a, r>>) = "ok"
  <2>1. <<a, r>> \in Nat \X Nat
    OBVIOUS
  <2>  QED
    BY <1>5, <2>1, WalkIs DEF W
<1>9. /\ Owners(m, a) # {} /\ t.audio /\ (r # 0 => t.session = r)
      /\ W[<<Stride(t), u>>] = "ok"
  <2>1. <<a, r>>[1] = a /\ <<a, r>>[2] = r
    OBVIOUS
  <2>2. ~ (a >= end)
    BY <1>6
  <2>  QED
    BY <1>8, <2>1, <2>2 DEF Turn
<1>10. /\ o \in Owners(m, a) /\ Stride(t) \in Nat /\ Stride(t) > a /\ t.session \in Nat
  BY <1>9, StrideGoesOn
<1>11. u \in Nat /\ (r # 0 => u = r)
  BY <1>10
<1>12. \A q \in Stride(t) .. end - 1 : Good(q, u)
  <2>1. Stride(t) + (b - 1) >= end
    BY <1>4, <1>5, <1>10
  <2>  HIDE DEF u, t
  <2>  QED
    BY <1>7, <1>9, <1>10, <1>11, <2>1
<1>13. ASSUME NEW q \in a .. end - 1 PROVE Good(q, r)
  <2>1. q \in Nat
    OBVIOUS
  <2>2. CASE q < Stride(t)
    <3>1. o \in DOMAIN T /\ Starts(T[o]) <= a
      BY <1>10 DEF Owners
    <3>2. Starts(T[o]) \in Nat
      BY <3>1, StartsAre
    <3>3. Starts(T[o]) <= q
      BY <3>1, <3>2
    <3>4. q < Ends(T[o])
      BY <2>2 DEF Stride
    <3>5. o \in Owners(m, q)
      BY <3>1, <3>3, <3>4 DEF Owners
    <3>  HIDE DEF o
    <3>  QED
      BY <1>9, <3>5 DEF Good
  <2>3. CASE q >= Stride(t)
    <3>1. q \in Stride(t) .. end - 1
      BY <1>10, <2>1, <2>3
    <3>2. Good(q, u)
      BY <1>12, <3>1
    <3>  QED
      BY <1>11, <3>2 DEF Good
  <2>  QED
    BY <1>10, <2>1, <2>2, <2>3
<1>  QED
  BY <1>5, <1>13

\* Where every sector is audio of one session, the walk accepts.
LEMMA WalkIsWhole ==
  ASSUME NEW m, Extents(m), NEW end \in Nat, NEW p \in Nat, NEW r \in Nat,
         \A q \in p .. end - 1 :
           Owners(m, q) # {} /\ \A n \in Owners(m, q) : m.tracks[n].audio /\ m.tracks[n].session = r
  PROVE  Walk(m, end)[<<p, 0>>] = "ok"
<1>  DEFINE T == m.tracks
            W == Walk(m, end)
            All(a) == \A q \in a .. end - 1 :
                        Owners(m, q) # {} /\ \A n \in Owners(m, q) : T[n].audio /\ T[n].session = r
            P(b) == \A a \in Nat, s \in {0, r} : a + b >= end /\ All(a) => W[<<a, s>>] = "ok"
            J == {b \in Nat : ~ P(b)}
<1>1. SUFFICES J = {}
  <2>1. end \in Nat /\ p + end >= end /\ 0 \in {0, r}
    OBVIOUS
  <2>2. J = {} => P(end)
    BY <2>1
  <2>3. All(p)
    OBVIOUS
  <2>  HIDE DEF J, All
  <2>  QED
    BY <2>1, <2>2, <2>3
<1>2. SUFFICES ASSUME J # {} PROVE FALSE
  OBVIOUS
<1>3. PICK b \in J : \A i \in J : b <= i
  <2>1. J \in SUBSET Nat
    OBVIOUS
  <2>  HIDE DEF J
  <2>  QED
    BY <1>2, <2>1, LeastNatural
<1>4. b \in Nat /\ ~ P(b)
  BY <1>3
<1>  HIDE DEF W, All
<1>5. PICK a \in Nat, s \in {0, r} : a + b >= end /\ All(a) /\ W[<<a, s>>] # "ok"
  BY <1>4
<1>  DEFINE o == Lowest(Owners(m, a))
            t == T[o]
            u == IF s = 0 THEN t.session ELSE s
<1>6. W[<<a, s>>] = Turn(m, end, W, <<a, s>>)
  <2>1. <<a, s>> \in Nat \X Nat
    BY <1>5
  <2>  QED
    BY <2>1, WalkIs DEF W
<1>7. <<a, s>>[1] = a /\ <<a, s>>[2] = s
  OBVIOUS
<1>8. a < end
  <2>1. SUFFICES ASSUME a >= end PROVE W[<<a, s>>] = "ok"
    BY <1>5
  <2>  QED
    BY <1>6, <1>7, <2>1 DEF Turn
<1>9. Owners(m, a) # {} /\ \A n \in Owners(m, a) : T[n].audio /\ T[n].session = r
  <2>1. a \in a .. end - 1
    BY <1>5, <1>8
  <2>  QED
    BY <1>5, <2>1 DEF All
<1>10. o \in Owners(m, a) /\ Stride(t) \in Nat /\ Stride(t) > a
  BY <1>5, <1>9, StrideGoesOn
<1>11. t.audio /\ t.session = r /\ u \in {0, r}
  BY <1>5, <1>9, <1>10
<1>12. W[<<a, s>>] = W[<<Stride(t), u>>]
  <2>1. ~ (a >= end)
    BY <1>5, <1>8
  <2>2. s # 0 => t.session = s
    BY <1>5, <1>11
  <2>  QED
    BY <1>6, <1>7, <1>9, <1>11, <2>1, <2>2 DEF Turn
<1>13. b # 0 /\ P(b - 1)
  <2>1. b # 0
    BY <1>4, <1>5, <1>8
  <2>2. b - 1 \in Nat /\ ~ (b <= b - 1)
    BY <1>4, <2>1
  <2>3. b - 1 \notin J
    BY <1>3, <2>2
  <2>  QED
    BY <2>1, <2>2, <2>3
<1>14. All(Stride(t))
  <2>1. \A q \in Stride(t) .. end - 1 : q \in a .. end - 1
    BY <1>5, <1>10
  <2>  HIDE DEF t
  <2>  QED
    BY <1>5, <2>1 DEF All
<1>15. Stride(t) + (b - 1) >= end
  BY <1>4, <1>5, <1>10
<1>16. W[<<Stride(t), u>>] = "ok"
  <2>  HIDE DEF t, u
  <2>  QED
    BY <1>10, <1>11, <1>13, <1>14, <1>15
<1>  QED
  BY <1>5, <1>12, <1>16

\* What the guard accepts.
LEMMA GuardIsSound ==
  ASSUME NEW m, Extents(m), NEW lba \in Nat, NEW count \in Nat, count > 0,
         CheckAudioRange(m, lba, count) = "ok"
  PROVE  /\ m.anomalies \cap Untrusted = {}
         /\ lba + count <= m.leadout
         /\ ~ (DOMAIN m.sessions = {} /\ m.total > 1)
         /\ Walk(m, lba + count)[<<lba, 0>>] = "ok"
         /\ \A q \in lba .. lba + count - 1 : \E n \in Owners(m, q) : m.tracks[n].audio
<1>1. count # 0 /\ m.leadout \in Nat
  BY DEF Extents
<1>2. /\ m.anomalies \cap Untrusted = {}
      /\ ~ (lba >= m.leadout \/ count > m.leadout - lba)
      /\ ~ (DOMAIN m.sessions = {} /\ m.total > 1)
      /\ Walk(m, lba + count)[<<lba, 0>>] = "ok"
  <2>1. CASE m.anomalies \cap Untrusted # {}
    BY <1>1, <2>1 DEF CheckAudioRange
  <2>2. CASE lba >= m.leadout \/ count > m.leadout - lba
    BY <1>1, <2>1, <2>2 DEF CheckAudioRange
  <2>3. CASE DOMAIN m.sessions = {} /\ m.total > 1
    BY <1>1, <2>1, <2>2, <2>3 DEF CheckAudioRange
  <2>4. CASE DOMAIN m.sessions = {} /\ (\E n \in DOMAIN m.tracks : ~m.tracks[n].audio)
    BY <1>1, <2>1, <2>2, <2>3, <2>4 DEF CheckAudioRange
  <2>5. CASE /\ m.anomalies \cap Untrusted = {}
             /\ ~ (lba >= m.leadout \/ count > m.leadout - lba)
             /\ ~ (DOMAIN m.sessions = {} /\ m.total > 1)
             /\ ~ (DOMAIN m.sessions = {} /\ (\E n \in DOMAIN m.tracks : ~m.tracks[n].audio))
    BY <1>1, <2>5 DEF CheckAudioRange
  <2>  QED
    BY <2>1, <2>2, <2>3, <2>4, <2>5
<1>3. lba + count <= m.leadout
  BY <1>1, <1>2
<1>4. \A q \in lba .. lba + count - 1 : \E n \in Owners(m, q) : m.tracks[n].audio
  <2>1. lba + count \in Nat /\ 0 \in Nat
    OBVIOUS
  <2>  QED
    BY <1>2, <2>1, WalkIsSound
<1>  QED
  BY <1>2, <1>3, <1>4

\* The range it accepts is of one session, where no track is of session 0.
LEMMA GuardKeepsToASession ==
  ASSUME NEW m, Extents(m), NEW lba \in Nat, NEW count \in Nat, count > 0,
         CheckAudioRange(m, lba, count) = "ok",
         \A n \in DOMAIN m.tracks : m.tracks[n].session # 0
  PROVE  \E n \in DOMAIN m.tracks : \A q \in lba .. lba + count - 1 :
           \E k \in Owners(m, q) : m.tracks[k].audio /\ m.tracks[k].session = m.tracks[n].session
<1>  DEFINE T == m.tracks
            end == lba + count
            W == Walk(m, end)
            o == Lowest(Owners(m, lba))
            t == T[o]
<1>1. end \in Nat /\ ~ (lba >= end) /\ <<lba, 0>> \in Nat \X Nat
  OBVIOUS
<1>2. Turn(m, end, W, <<lba, 0>>) = "ok"
  BY <1>1, GuardIsSound, WalkIs
<1>3. /\ Owners(m, lba) # {} /\ t.audio /\ W[<<Stride(t), t.session>>] = "ok"
  <2>1. <<lba, 0>>[1] = lba /\ <<lba, 0>>[2] = 0
    OBVIOUS
  <2>  HIDE DEF W, end
  <2>  QED
    BY <1>1, <1>2, <2>1 DEF Turn
<1>4. o \in Owners(m, lba) /\ Stride(t) \in Nat /\ Stride(t) > lba /\ t.session \in Nat
  BY <1>3, StrideGoesOn
<1>5. o \in DOMAIN T /\ Starts(t) <= lba /\ t.session # 0
  BY <1>4 DEF Owners
<1>6. \A q \in Stride(t) .. end - 1 :
        \E k \in Owners(m, q) : T[k].audio /\ (t.session # 0 => T[k].session = t.session)
  <2>  HIDE DEF t, end
  <2>  QED
    BY <1>1, <1>3, <1>4, WalkIsSound
<1>7. ASSUME NEW q \in lba .. end - 1
      PROVE  \E k \in Owners(m, q) : T[k].audio /\ T[k].session = t.session
  <2>1. q \in Nat /\ q >= lba
    OBVIOUS
  <2>2. CASE q < Stride(t)
    <3>1. Starts(t) \in Nat
      BY <1>5, StartsAre
    <3>2. Starts(t) <= q /\ q < Ends(t)
      BY <1>5, <2>1, <2>2, <3>1 DEF Stride
    <3>3. o \in Owners(m, q)
      BY <1>5, <3>2 DEF Owners
    <3>  HIDE DEF o
    <3>  QED
      BY <1>3, <3>3
  <2>3. CASE q >= Stride(t)
    <3>1. q \in Stride(t) .. end - 1
      BY <1>1, <1>4, <2>1, <2>3
    <3>  HIDE DEF t
    <3>  QED
      BY <1>5, <1>6, <3>1
  <2>  QED
    BY <1>4, <2>1, <2>2, <2>3
<1>  HIDE DEF o
<1>  QED
  BY <1>5, <1>7

\* No lead-in hides a data track behind an audio one.
LEMMA NothingIsHidden ==
  ASSUME NEW m, Extents(m), Apart(m), ~ OnlyAPregap(m), NEW lba \in Nat, NEW count \in Nat, count > 0,
         CheckAudioRange(m, lba, count) = "ok",
         NEW q \in lba .. lba + count - 1, NEW n \in DOMAIN m.tracks, m.tracks[n].lba <= q,
         \A k \in DOMAIN m.tracks : m.tracks[k].lba <= q => m.tracks[k].lba <= m.tracks[n].lba
  PROVE  m.tracks[n].audio
<1>1. PICK o \in Owners(m, q) : m.tracks[o].audio
  BY GuardIsSound
<1>2. o \in DOMAIN m.tracks
  BY <1>1 DEF Owners
<1>3. m.anomalies \cap Untrusted = {} /\ lba + count <= m.leadout /\ m.leadout \in Nat
  BY GuardIsSound DEF Extents
<1>4. q \in Nat /\ q < m.leadout
  BY <1>3
<1>5. CASE o # n
  <2>1. m.tracks[n].lba < m.tracks[o].lba /\ m.tracks[o].lba <= q
    BY <1>1, <1>3, <1>4, <1>5, OwnerIsLatest
  <2>2. m.tracks[n].lba \in Nat /\ m.tracks[o].lba \in Nat
    BY <1>2 DEF Extents
  <2>  QED
    BY <1>2, <2>1, <2>2
<1>  QED
  BY <1>1, <1>5

------------------------------------------------------------------------------
(* The map of the tracks.                                                      *)

\* Extents are a matter of addresses, of lead-outs, and of which tracks share a session.
LEMMA SameExtents ==
  ASSUME NEW a, NEW b, DOMAIN a.tracks = DOMAIN b.tracks,
         \A n \in DOMAIN a.tracks :
           /\ a.tracks[n].lba = b.tracks[n].lba /\ End(a, n) = End(b, n)
           /\ a.tracks[n].session <= 1 <=> b.tracks[n].session <= 1,
         \A n, k \in DOMAIN a.tracks :
           a.tracks[n].session = a.tracks[k].session <=> b.tracks[n].session = b.tracks[k].session
  PROVE  \A n \in DOMAIN a.tracks :
           Sectors(a, n) = Sectors(b, n) /\ (HasPregap(a.tracks, n) <=> HasPregap(b.tracks, n))
<1>  DEFINE D == DOMAIN a.tracks
<1>1. ASSUME NEW n \in D PROVE Sectors(a, n) = Sectors(b, n)
  <2>1. {k \in D \ {n} : a.tracks[k].session = a.tracks[n].session /\ a.tracks[k].lba > a.tracks[n].lba}
        = {k \in D \ {n} : b.tracks[k].session = b.tracks[n].session /\ b.tracks[k].lba > b.tracks[n].lba}
    OBVIOUS
  <2>2. NextStarts(a.tracks, n) = NextStarts(b.tracks, n)
    BY <2>1 DEF NextStarts
  <2>  QED
    BY <2>2 DEF Sectors, End
<1>2. ASSUME NEW n \in D PROVE HasPregap(a.tracks, n) <=> HasPregap(b.tracks, n)
  BY DEF HasPregap
<1>  QED
  BY <1>1, <1>2

\* And anomalies, of those and of the sessions of which something is mapped.
LEMMA SameAnomalies ==
  ASSUME NEW a, NEW b, DOMAIN a.tracks = DOMAIN b.tracks, Groups(a) = Groups(b),
         \A n \in DOMAIN a.tracks :
           /\ a.tracks[n].lba = b.tracks[n].lba /\ End(a, n) = End(b, n)
           /\ a.tracks[n].sectors = b.tracks[n].sectors /\ a.tracks[n].pregap = b.tracks[n].pregap,
         \A n, k \in DOMAIN a.tracks :
           a.tracks[n].session = a.tracks[k].session <=> b.tracks[n].session = b.tracks[k].session
  PROVE  GeometryAnomalies(a) = GeometryAnomalies(b)
<1>  DEFINE D == DOMAIN a.tracks
            five == {"lba_order", "past_leadout", "empty_track", "leadout_before", "overlap"}
<1>1. GeometryAnomalies(a) \subseteq five /\ GeometryAnomalies(b) \subseteq five
  BY AnomaliesAre
<1>2. \A n, k \in D : Overlap(a.tracks[n], a.tracks[k]) <=> Overlap(b.tracks[n], b.tracks[k])
  BY DEF Overlap, Starts, Ends
<1>3. \A g \in Groups(a) : g \subseteq D
  BY DEF Groups
<1>4. "leadout_before" \in GeometryAnomalies(a) <=> "leadout_before" \in GeometryAnomalies(b)
  <2>1. \A g \in Groups(a) : (\A n \in g : End(a, n) <= a.tracks[n].lba)
                              <=> (\A n \in g : End(b, n) <= b.tracks[n].lba)
    BY <1>3
  <2>  QED
    BY <2>1, AnomaliesAre
<1>5. "overlap" \in GeometryAnomalies(a) <=> "overlap" \in GeometryAnomalies(b)
  BY <1>2, AnomaliesAre
<1>6. "lba_order" \in GeometryAnomalies(a) <=> "lba_order" \in GeometryAnomalies(b)
  <2>1. \A n, k \in D : a.tracks[k].session = a.tracks[n].session /\ a.tracks[k].lba <= a.tracks[n].lba
                       <=> b.tracks[k].session = b.tracks[n].session /\ b.tracks[k].lba <= b.tracks[n].lba
    OBVIOUS
  <2>  QED
    BY <2>1, AnomaliesAre
<1>7. "past_leadout" \in GeometryAnomalies(a) <=> "past_leadout" \in GeometryAnomalies(b)
  BY AnomaliesAre
<1>8. "empty_track" \in GeometryAnomalies(a) <=> "empty_track" \in GeometryAnomalies(b)
  BY AnomaliesAre
<1>  QED
  BY <1>1, <1>4, <1>5, <1>6, <1>7, <1>8

\* A session has audio when a track of it has.
LEMMA Counted ==
  ASSUME NEW tracks, DOMAIN tracks \subseteq 1 .. 99, NEW s
  PROVE  /\ CountTracks(tracks, s, TRUE) \in Nat
         /\ CountTracks(tracks, s, TRUE) > 0
              <=> \E n \in DOMAIN tracks : tracks[n].session = s /\ tracks[n].audio = TRUE
<1>  DEFINE C == {n \in DOMAIN tracks : tracks[n].session = s /\ tracks[n].audio = TRUE}
<1>1. IsFiniteSet(C)
  <2>1. IsFiniteSet(1 .. 99)
    <3>1. \A a, b \in Int : IsFiniteSet(a .. b)
      BY FS_Interval
    <3>2. 1 \in Int /\ 99 \in Int
      OBVIOUS
    <3>  QED
      BY <3>1, <3>2, Zenon
  <2>2. C \subseteq 1 .. 99
    OBVIOUS
  <2>  HIDE DEF C
  <2>  QED
    BY <2>1, <2>2, FS_Subset
<1>2. Cardinality(C) \in Nat /\ (Cardinality(C) = 0 <=> C = {})
  BY <1>1, FS_CardinalityType, FS_EmptySet
<1>3. CountTracks(tracks, s, TRUE) = Cardinality(C)
  BY DEF CountTracks
<1>4. C # {} <=> \E n \in DOMAIN tracks : tracks[n].session = s /\ tracks[n].audio = TRUE
  OBVIOUS
<1>  HIDE DEF C
<1>5. \A x \in Nat : x > 0 <=> x # 0
  OBVIOUS
<1>6. CountTracks(tracks, s, TRUE) \in Nat /\ (CountTracks(tracks, s, TRUE) > 0 <=> C # {})
  BY <1>2, <1>3, <1>5, Zenon
<1>  QED
  BY <1>4, <1>6, Zenon

\* A map that describes the tracks T, whatever sessions it puts them in.
Describes(m, T) ==
  /\ m.ok /\ Extents(m) /\ DOMAIN m.tracks = DOMAIN T
  /\ \A n \in DOMAIN T : m.tracks[n].lba = T[n].lba /\ m.tracks[n].audio = T[n].audio
  /\ \A s \in DOMAIN m.sessions :
       /\ m.sessions[s].audio \in Nat
       /\ m.sessions[s].audio > 0
            <=> \E n \in DOMAIN T : m.tracks[n].session = s /\ T[n].audio = TRUE

\* What a disc's tracks are, whether or not its lead-in tells the truth.
Tracks(T) ==
  /\ DOMAIN T \subseteq 1 .. 99 /\ DOMAIN T # {}
  /\ T = [n \in DOMAIN T |-> T[n]]
  /\ \A n \in DOMAIN T : T[n].session \in Nat /\ T[n].lba \in Nat

\* A blank map filled in.
LEMMA FilledExtents ==
  ASSUME NEW m, Blank(m)
  PROVE  Extents(FillExtents(m))
<1>  DEFINE r == FillExtents(m)
            D == DOMAIN m.tracks
<1>1. /\ DOMAIN r.tracks = D /\ r.leadout = m.leadout /\ r.sessions = m.sessions
      /\ r.anomalies = m.anomalies \cup GeometryAnomalies(r)
      /\ \A n \in D : /\ r.tracks[n].session = m.tracks[n].session
                      /\ r.tracks[n].lba = m.tracks[n].lba
                      /\ r.tracks[n].sectors = Sectors(m, n)
                      /\ r.tracks[n].pregap = IF HasPregap(m.tracks, n) THEN m.tracks[n].lba ELSE 0
  BY Filled
<1>  HIDE DEF r
<1>2. \A n \in D : End(m, n) = End(r, n)
  BY <1>1 DEF End, SessionLeadout
<1>3. \A n \in D : Sectors(m, n) = Sectors(r, n) /\ (HasPregap(m.tracks, n) <=> HasPregap(r.tracks, n))
  BY <1>1, <1>2, SameExtents
<1>4. /\ D \subseteq 1 .. 99 /\ \A n \in D : m.tracks[n].lba \in Nat /\ m.tracks[n].session \in Nat
      /\ m.leadout \in Nat /\ \A s \in DOMAIN m.sessions : m.sessions[s].leadout \in Nat
  BY DEF Blank
<1>5. \A n \in D : /\ r.tracks[n].sectors = Sectors(r, n)
                   /\ r.tracks[n].pregap = IF HasPregap(r.tracks, n) THEN r.tracks[n].lba ELSE 0
  BY <1>1, <1>3
<1>6. Extents(r)
  BY <1>1, <1>4, <1>5 DEF Extents
<1>  QED
  BY <1>6 DEF r

\* From a lead-in that accounts for the tracks.
LEMMA FromLeadInIs ==
  ASSUME NEW T, Tracks(T), NEW entries, Account(T, entries),
         \A i \in 1 .. Len(entries) : entries[i].session \in Nat,
         FromLeadIn(entries).ok
  PROVE  LET m   == FromLeadIn(entries)
             acc == TakeEntries(entries)
         IN
         /\ Describes(m, T) /\ \A n \in DOMAIN T : m.tracks[n].session = T[n].session
         /\ m.leadout = acc.leadout
         /\ DOMAIN m.sessions = {s \in acc.seen : s \in DOMAIN acc.ends /\ acc.ends[s] # 0}
         /\ \A s \in DOMAIN m.sessions : m.sessions[s].leadout = acc.ends[s]
         /\ m.anomalies = acc.anomalies \cup (IF RangeMismatch(acc) THEN {"range_mismatch"} ELSE {})
                          \cup GeometryAnomalies(m)
<1>  DEFINE m == FromLeadIn(entries)
            acc == TakeEntries(entries)
            tracks == [n \in DOMAIN acc.slot |-> Bare(acc.slot[n], acc.slot[n].session)]
            known == {s \in acc.seen : s \in DOMAIN acc.ends /\ acc.ends[s] # 0}
            table == SessionTable(tracks, acc.ends, known)
            said == acc.anomalies \cup IF RangeMismatch(acc) THEN {"range_mismatch"} ELSE {}
            b == [ok |-> TRUE, tracks |-> tracks, leadout |-> acc.leadout, sessions |-> table,
                  first |-> IF acc.first_track # 0 THEN acc.first_track ELSE Lowest(DOMAIN tracks),
                  last |-> IF acc.last_track # 0 THEN acc.last_track ELSE Highest(DOMAIN tracks),
                  total |-> acc.last_session, anomalies |-> said]
<1>1. m = IF acc.leadout < 0 \/ DOMAIN tracks = {} THEN NoMap ELSE FillExtents(b)
  BY Zenon DEF FromLeadIn
<1>2. ~ (acc.leadout < 0 \/ DOMAIN tracks = {}) /\ m = FillExtents(b)
  <2>1. NoMap.ok = FALSE
    BY DEF NoMap
  <2>  HIDE DEF m, b, tracks, acc
  <2>2. m.ok
    BY DEF m
  <2>  QED
    BY <1>1, <2>1, <2>2
<1>3. acc.slot = T /\ Bounded(acc)
  BY AllEntriesTaken DEF Tracks
<1>  HIDE DEF acc
<1>4. /\ DOMAIN tracks = DOMAIN T
      /\ \A n \in DOMAIN T : /\ tracks[n] = [session |-> T[n].session, audio |-> T[n].audio,
                                             lba |-> T[n].lba, sectors |-> 0, pregap |-> 0]
  BY <1>3 DEF Bare
<1>5. \A n \in DOMAIN T : /\ tracks[n].session = T[n].session /\ tracks[n].audio = T[n].audio
                          /\ tracks[n].lba = T[n].lba
  <2>1. ASSUME NEW n \in DOMAIN T
        PROVE  tracks[n].session = T[n].session /\ tracks[n].audio = T[n].audio /\ tracks[n].lba = T[n].lba
    <3>  HIDE DEF tracks
    <3>1. tracks[n] = [session |-> T[n].session, audio |-> T[n].audio,
                       lba |-> T[n].lba, sectors |-> 0, pregap |-> 0]
      BY <1>4
    <3>  QED
      BY <3>1
  <2>  QED
    BY <2>1
<1>6. tracks = [n \in DOMAIN tracks |-> tracks[n]]
  OBVIOUS
<1>  HIDE DEF tracks
<1>7. /\ DOMAIN table = known
      /\ \A s \in known : table[s].leadout = acc.ends[s] /\ table[s].audio = CountTracks(tracks, s, TRUE)
  BY DEF SessionTable
<1>  HIDE DEF table
<1>8. /\ DOMAIN b = {"ok", "tracks", "leadout", "sessions", "first", "last", "total", "anomalies"}
      /\ b.ok = TRUE /\ b.tracks = tracks /\ b.leadout = acc.leadout /\ b.sessions = table
      /\ b.anomalies = said
  OBVIOUS
<1>  HIDE DEF b, said
<1>9. Blank(b)
  <2>1. acc.leadout \in Nat
    BY <1>2, <1>3 DEF Bounded
  <2>2. \A s \in known : acc.ends[s] \in Nat
    BY <1>3 DEF Bounded
  <2>3. \A n \in DOMAIN tracks :
          /\ tracks[n] = [session |-> tracks[n].session, audio |-> tracks[n].audio,
                          lba |-> tracks[n].lba, sectors |-> 0, pregap |-> 0]
          /\ tracks[n].lba \in Nat /\ tracks[n].session \in Nat
    BY <1>4, <1>5 DEF Tracks
  <2>4. DOMAIN tracks \subseteq 1 .. 99
    BY <1>4 DEF Tracks
  <2>  HIDE DEF known
  <2>  QED
    BY <1>6, <1>7, <1>8, <2>1, <2>2, <2>3, <2>4 DEF Blank
<1>  HIDE DEF m
<1>10. /\ DOMAIN m.tracks = DOMAIN T /\ m.ok /\ m.leadout = acc.leadout /\ m.sessions = table
       /\ m.anomalies = said \cup GeometryAnomalies(m)
       /\ \A n \in DOMAIN T : /\ m.tracks[n].session = T[n].session
                              /\ m.tracks[n].audio = T[n].audio
                              /\ m.tracks[n].lba = T[n].lba
  BY <1>2, <1>4, <1>5, <1>8, <1>9, Filled
<1>11. Extents(m)
  BY <1>2, <1>9, FilledExtents
<1>12. \A s \in DOMAIN m.sessions :
         /\ m.sessions[s].audio \in Nat
         /\ m.sessions[s].audio > 0
              <=> \E n \in DOMAIN T : m.tracks[n].session = s /\ T[n].audio = TRUE
  <2>1. DOMAIN tracks \subseteq 1 .. 99
    BY <1>4 DEF Tracks
  <2>2. \A s : /\ CountTracks(tracks, s, TRUE) \in Nat
               /\ CountTracks(tracks, s, TRUE) > 0
                    <=> \E n \in DOMAIN tracks : tracks[n].session = s /\ tracks[n].audio = TRUE
    BY <2>1, Counted
  <2>3. \A s : (\E n \in DOMAIN tracks : tracks[n].session = s /\ tracks[n].audio = TRUE)
                 <=> \E n \in DOMAIN T : m.tracks[n].session = s /\ T[n].audio = TRUE
    BY <1>4, <1>5, <1>10
  <2>4. \A s \in DOMAIN m.sessions : m.sessions[s].audio = CountTracks(tracks, s, TRUE)
    BY <1>7, <1>10, Zenon
  <2>5. ASSUME NEW s \in DOMAIN m.sessions
        PROVE  /\ m.sessions[s].audio \in Nat
               /\ m.sessions[s].audio > 0
                    <=> \E n \in DOMAIN T : m.tracks[n].session = s /\ T[n].audio = TRUE
    <3>  DEFINE x == m.sessions[s].audio
                c == CountTracks(tracks, s, TRUE)
    <3>1. x = c
      BY <2>4
    <3>2. c \in Nat /\ (c > 0 <=> \E n \in DOMAIN tracks : tracks[n].session = s
                                                          /\ tracks[n].audio = TRUE)
      BY <2>2, Zenon
    <3>  HIDE DEF x, c
    <3>3. x \in Nat /\ (x > 0 <=> \E n \in DOMAIN tracks : tracks[n].session = s
                                                          /\ tracks[n].audio = TRUE)
      BY <3>1, <3>2
    <3>  QED
      BY <2>3, <3>3, Zenon DEF x
  <2>  QED
    BY <2>5
<1>13. Describes(m, T)
  BY <1>10, <1>11, <1>12 DEF Describes
<1>14. /\ DOMAIN m.sessions = known
       /\ \A s \in DOMAIN m.sessions : m.sessions[s].leadout = acc.ends[s]
  BY <1>7, <1>10
<1>  QED
  BY <1>10, <1>13, <1>14 DEF m, acc, said

\* A map without sessions, of the flat list.
Flat(m, T, leadout, count) ==
  /\ Describes(m, T) /\ DOMAIN m.sessions = {} /\ m.total = count /\ m.leadout = leadout
  /\ \A n \in DOMAIN T : /\ m.tracks[n].session = 0
                         /\ DOMAIN m.tracks[n] = {"session", "audio", "lba", "sectors", "pregap"}
  /\ m.anomalies = GeometryAnomalies(m)
  /\ DOMAIN m = {"ok", "tracks", "leadout", "sessions", "first", "last", "total", "anomalies"}

\* The flat list of tracks gives such a map.
LEMMA FlatListIs ==
  ASSUME NEW T, Tracks(T), NEW leadout \in Nat, NEW count
  PROVE  Flat([FromList(T, leadout) EXCEPT !.total = count], T, leadout, count)
<1>  DEFINE r == FromList(T, leadout)
            m == [r EXCEPT !.total = count]
            tracks == [n \in DOMAIN T |-> Bare(T[n], 0)]
            none == << >>
            b == [ok |-> TRUE, tracks |-> tracks, leadout |-> leadout, sessions |-> none,
                  first |-> Lowest(DOMAIN T), last |-> Highest(DOMAIN T), total |-> 0,
                  anomalies |-> {}]
<1>1. r = FillExtents(b)
  BY Zenon DEF FromList
<1>2. DOMAIN none = {}
  OBVIOUS
<1>3. /\ DOMAIN tracks = DOMAIN T
      /\ \A n \in DOMAIN T : tracks[n] = [session |-> 0, audio |-> T[n].audio,
                                          lba |-> T[n].lba, sectors |-> 0, pregap |-> 0]
  BY DEF Bare
<1>4. tracks = [n \in DOMAIN tracks |-> tracks[n]]
  OBVIOUS
<1>  HIDE DEF tracks, none
<1>5. ASSUME NEW n \in DOMAIN T
      PROVE  tracks[n].session = 0 /\ tracks[n].audio = T[n].audio /\ tracks[n].lba = T[n].lba
  <2>1. tracks[n] = [session |-> 0, audio |-> T[n].audio, lba |-> T[n].lba, sectors |-> 0,
                     pregap |-> 0]
    BY <1>3
  <2>  QED
    BY <2>1
<1>6. /\ DOMAIN b = {"ok", "tracks", "leadout", "sessions", "first", "last", "total", "anomalies"}
      /\ b.ok = TRUE /\ b.tracks = tracks /\ b.leadout = leadout /\ b.sessions = none
      /\ b.anomalies = {}
  OBVIOUS
<1>  HIDE DEF b
<1>7. Blank(b)
  <2>1. \A n \in DOMAIN tracks :
          /\ tracks[n] = [session |-> tracks[n].session, audio |-> tracks[n].audio,
                          lba |-> tracks[n].lba, sectors |-> 0, pregap |-> 0]
          /\ tracks[n].lba \in Nat /\ tracks[n].session \in Nat
    BY <1>3, <1>5 DEF Tracks
  <2>2. DOMAIN tracks \subseteq 1 .. 99
    BY <1>3 DEF Tracks
  <2>  QED
    BY <1>2, <1>4, <1>6, <2>1, <2>2 DEF Blank
<1>8. /\ DOMAIN r = DOMAIN b /\ DOMAIN r.tracks = DOMAIN T /\ r.ok /\ r.leadout = leadout
      /\ r.sessions = none /\ r.anomalies = GeometryAnomalies(r)
      /\ \A n \in DOMAIN T : /\ DOMAIN r.tracks[n] = {"session", "audio", "lba", "sectors", "pregap"}
                             /\ r.tracks[n].session = 0
                             /\ r.tracks[n].audio = T[n].audio
                             /\ r.tracks[n].lba = T[n].lba
  <2>1. /\ DOMAIN r = DOMAIN b /\ DOMAIN r.tracks = DOMAIN b.tracks /\ r.ok = b.ok
        /\ r.leadout = b.leadout /\ r.sessions = b.sessions
        /\ r.anomalies = b.anomalies \cup GeometryAnomalies(r)
        /\ \A n \in DOMAIN b.tracks :
             /\ DOMAIN r.tracks[n] = {"session", "audio", "lba", "sectors", "pregap"}
             /\ r.tracks[n].session = b.tracks[n].session
             /\ r.tracks[n].audio = b.tracks[n].audio
             /\ r.tracks[n].lba = b.tracks[n].lba
    BY <1>1, <1>7, Filled
  <2>  HIDE DEF r
  <2>2. r.ok /\ r.anomalies = GeometryAnomalies(r)
    BY <1>6, <2>1
  <2>3. \A n \in DOMAIN T : /\ DOMAIN r.tracks[n] = {"session", "audio", "lba", "sectors", "pregap"}
                           /\ r.tracks[n].session = 0
                           /\ r.tracks[n].audio = T[n].audio
                           /\ r.tracks[n].lba = T[n].lba
    BY <1>3, <1>5, <1>6, <2>1
  <2>  QED
    BY <1>3, <1>6, <2>1, <2>2, <2>3
<1>9. Extents(r)
  BY <1>1, <1>7, FilledExtents
<1>  HIDE DEF r
<1>10. /\ DOMAIN m = DOMAIN r /\ m.tracks = r.tracks /\ m.ok = r.ok /\ m.leadout = r.leadout
       /\ m.sessions = r.sessions /\ m.anomalies = r.anomalies /\ m.total = count
  BY <1>6, <1>8
<1>  HIDE DEF m
<1>11. \A n \in DOMAIN m.tracks : End(m, n) = End(r, n)
  BY <1>10 DEF End, SessionLeadout
<1>12. Groups(m) = Groups(r)
  BY <1>10 DEF Groups
<1>13. GeometryAnomalies(m) = GeometryAnomalies(r)
  BY <1>10, <1>11, <1>12, SameAnomalies
<1>14. \A n \in DOMAIN m.tracks : Sectors(m, n) = Sectors(r, n)
  BY <1>10, <1>11, SameExtents
<1>15. Extents(m)
  BY <1>9, <1>10, <1>13, <1>14 DEF Extents
<1>16. Describes(m, T)
  BY <1>2, <1>8, <1>10, <1>15 DEF Describes
<1>17. Flat(m, T, leadout, count)
  BY <1>2, <1>6, <1>8, <1>10, <1>13, <1>16 DEF Flat
<1>  QED
  BY <1>17 DEF m, r

\* The one session there is, made of it.
LEMMA SynthesisedIs ==
  ASSUME NEW T, Tracks(T), NEW leadout \in Nat, NEW r, Flat(r, T, leadout, 1)
  PROVE  LET m == Synthesised(r, 1) IN
         /\ Describes(m, T) /\ \A n \in DOMAIN T : m.tracks[n].session = 1
         /\ DOMAIN m.sessions = {1} /\ m.sessions[1].leadout = leadout /\ m.leadout = leadout
         /\ m.anomalies = GeometryAnomalies(m)
<1>  DEFINE D == DOMAIN T
            tracks == [n \in DOMAIN r.tracks |-> [r.tracks[n] EXCEPT !.session = 1]]
            table == SessionTable(tracks, <<r.leadout>>, {1})
            m == Synthesised(r, 1)
<1>1. m = [r EXCEPT !.tracks = tracks, !.sessions = table]
  BY Zenon DEF Synthesised
<1>2. /\ Describes(r, T) /\ DOMAIN r.tracks = D /\ DOMAIN r.sessions = {} /\ r.leadout = leadout
      /\ r.anomalies = GeometryAnomalies(r)
      /\ DOMAIN r = {"ok", "tracks", "leadout", "sessions", "first", "last", "total", "anomalies"}
      /\ Extents(r) /\ r.ok
  BY DEF Flat, Describes
<1>3. \A n \in D : /\ r.tracks[n].session = 0 /\ r.tracks[n].lba = T[n].lba
                   /\ r.tracks[n].audio = T[n].audio
                   /\ DOMAIN r.tracks[n] = {"session", "audio", "lba", "sectors", "pregap"}
  BY DEF Flat, Describes
<1>4. DOMAIN tracks = D
  BY <1>2
<1>5. ASSUME NEW n \in D
      PROVE  /\ tracks[n].session = 1 /\ tracks[n].lba = T[n].lba /\ tracks[n].audio = T[n].audio
             /\ tracks[n].sectors = r.tracks[n].sectors /\ tracks[n].pregap = r.tracks[n].pregap
  <2>1. tracks[n] = [r.tracks[n] EXCEPT !.session = 1]
    BY <1>2
  <2>  HIDE DEF tracks
  <2>  QED
    BY <1>3, <2>1
<1>  HIDE DEF tracks
<1>6. DOMAIN table = {1} /\ table[1].leadout = leadout /\ table[1].audio = CountTracks(tracks, 1, TRUE)
  <2>1. <<r.leadout>>[1] = leadout
    BY <1>2
  <2>2. table = [s \in {1} |-> [leadout |-> <<r.leadout>>[s], audio |-> CountTracks(tracks, s, TRUE),
                                data |-> CountTracks(tracks, s, FALSE)]]
    BY DEF SessionTable
  <2>  HIDE DEF table
  <2>3. table[1] = [leadout |-> <<r.leadout>>[1], audio |-> CountTracks(tracks, 1, TRUE),
                    data |-> CountTracks(tracks, 1, FALSE)] /\ DOMAIN table = {1}
    BY <2>2
  <2>  QED
    BY <2>1, <2>3
<1>  HIDE DEF table, m
<1>7. /\ m.tracks = tracks /\ m.sessions = table /\ m.ok /\ m.leadout = leadout
      /\ m.anomalies = r.anomalies
  BY <1>1, <1>2
<1>8. \A n \in D : End(m, n) = leadout /\ End(r, n) = leadout
  BY <1>2, <1>3, <1>5, <1>6, <1>7 DEF End, SessionLeadout
<1>9. \A n \in D : Sectors(m, n) = Sectors(r, n) /\ (HasPregap(m.tracks, n) <=> HasPregap(r.tracks, n))
  BY <1>2, <1>3, <1>4, <1>5, <1>7, <1>8, SameExtents
<1>10. Groups(m) = {D} /\ Groups(r) = {D}
  <2>1. {n \in D : m.tracks[n].session = 1} = D
    BY <1>5, <1>7
  <2>2. Groups(m) = {{n \in D : m.tracks[n].session = s} : s \in {1}}
    BY <1>4, <1>6, <1>7 DEF Groups
  <2>  QED
    BY <1>2, <2>1, <2>2 DEF Groups
<1>11. GeometryAnomalies(m) = GeometryAnomalies(r)
  <2>1. \A n \in D : /\ m.tracks[n].lba = r.tracks[n].lba /\ End(m, n) = End(r, n)
                     /\ m.tracks[n].sectors = r.tracks[n].sectors
                     /\ m.tracks[n].pregap = r.tracks[n].pregap
    BY <1>3, <1>5, <1>7, <1>8
  <2>2. \A n, k \in D : m.tracks[n].session = m.tracks[k].session
                       <=> r.tracks[n].session = r.tracks[k].session
    BY <1>3, <1>5, <1>7
  <2>3. DOMAIN m.tracks = D /\ DOMAIN r.tracks = D /\ Groups(m) = Groups(r)
    BY <1>2, <1>4, <1>7, <1>10
  <2>  QED
    BY <2>1, <2>2, <2>3, SameAnomalies
<1>12. Extents(m)
  <2>1. /\ D \subseteq 1 .. 99 /\ leadout \in Nat
        /\ \A n \in D : /\ T[n].lba \in Nat
                        /\ r.tracks[n].sectors = Sectors(r, n)
                        /\ r.tracks[n].pregap = IF HasPregap(r.tracks, n) THEN T[n].lba ELSE 0
    BY <1>2, <1>3 DEF Extents
  <2>2. \A n \in D : /\ m.tracks[n].lba \in Nat /\ m.tracks[n].session \in Nat
                     /\ m.tracks[n].sectors = Sectors(m, n)
                     /\ m.tracks[n].pregap = IF HasPregap(m.tracks, n) THEN m.tracks[n].lba ELSE 0
    BY <1>5, <1>7, <1>9, <2>1
  <2>  QED
    BY <1>2, <1>4, <1>6, <1>7, <1>11, <2>1, <2>2 DEF Extents
<1>13. /\ m.sessions[1].audio \in Nat
       /\ m.sessions[1].audio > 0 <=> \E n \in D : m.tracks[n].session = 1 /\ T[n].audio = TRUE
  <2>  DEFINE x == m.sessions[1].audio
              c == CountTracks(tracks, 1, TRUE)
  <2>1. x = c
    BY <1>6, <1>7
  <2>2. c \in Nat /\ (c > 0 <=> \E n \in DOMAIN tracks : tracks[n].session = 1 /\ tracks[n].audio = TRUE)
    BY <1>2, <1>4, Counted DEF Extents
  <2>3. (\E n \in DOMAIN tracks : tracks[n].session = 1 /\ tracks[n].audio = TRUE)
          <=> \E n \in D : m.tracks[n].session = 1 /\ T[n].audio = TRUE
    BY <1>4, <1>5, <1>7
  <2>  HIDE DEF x, c
  <2>4. x \in Nat /\ (x > 0 <=> \E n \in DOMAIN tracks : tracks[n].session = 1 /\ tracks[n].audio = TRUE)
    BY <2>1, <2>2
  <2>  QED
    BY <2>3, <2>4, Zenon DEF x
<1>14. Describes(m, T)
  <2>1. \A n \in D : m.tracks[n].lba = T[n].lba /\ m.tracks[n].audio = T[n].audio
    BY <1>5, <1>7
  <2>2. \A s \in DOMAIN m.sessions : s = 1
    BY <1>6, <1>7
  <2>  QED
    BY <1>4, <1>7, <1>12, <1>13, <2>1, <2>2, Zenon DEF Describes
<1>  QED
  BY <1>2, <1>5, <1>6, <1>7, <1>11, <1>14 DEF m

\* The map of an honest disc has its sessions or, having none, says that there are
\* several or that nobody said.
Faithful(d, m) ==
  /\ Describes(m, d.tracks)
  /\ \A n \in DOMAIN d.tracks : m.tracks[n].session = d.tracks[n].session
  /\ DOMAIN m.sessions = DOMAIN d.ends /\ \A s \in DOMAIN d.ends : m.sessions[s].leadout = d.ends[s]
  /\ m.leadout = d.leadout /\ m.anomalies = GeometryAnomalies(m)
Sessionless(d, m) ==
  Describes(m, d.tracks) /\ DOMAIN m.sessions = {} /\ (m.total = 0 \/ m.total > 1)

\* The tracks and lead-outs of an honest disc are numbers in range.
LEMMA HonestTracks ==
  ASSUME NEW d, IsHonest(d), NEW f, NEW l, NEW k, Shape(d, f, l, k)
  PROVE  /\ Tracks(d.tracks) /\ d.leadout \in Nat
         /\ \A s \in 1 .. k : d.ends[s] \in Nat /\ d.ends[s] # 0 /\ d.ends[s] <= Top
         /\ \A n \in f .. l : /\ d.tracks[n].session \in 1 .. k /\ d.tracks[n].lba \in Nat
                              /\ d.tracks[n].audio \in BOOLEAN
<1>1. /\ f \in 1 .. 99 /\ l \in 1 .. 99 /\ f <= l /\ k \in 1 .. 99 /\ Top \in Nat
      /\ DOMAIN d.tracks = f .. l /\ DOMAIN d.ends = 1 .. k /\ d.leadout = d.ends[k]
  BY DEF Shape
<1>2. d.tracks \in [f .. l -> [session : 1 .. k, audio : BOOLEAN, lba : Nat]] /\ d.ends \in [1 .. k -> 1 .. Top]
  BY <1>1 DEF IsHonest
<1>3. \A s \in 1 .. k : d.ends[s] \in Nat /\ d.ends[s] # 0 /\ d.ends[s] <= Top
  <2>1. \A s \in 1 .. k : d.ends[s] \in 1 .. Top
    BY <1>2
  <2>2. \A x \in 1 .. Top : x \in Nat /\ x # 0 /\ x <= Top
    BY <1>1
  <2>  QED
    BY <2>1, <2>2
<1>4. \A n \in f .. l : /\ d.tracks[n].session \in 1 .. k /\ d.tracks[n].lba \in Nat
                        /\ d.tracks[n].audio \in BOOLEAN
  <2>1. \A n \in f .. l : d.tracks[n] \in [session : 1 .. k, audio : BOOLEAN, lba : Nat]
    BY <1>2
  <2>  QED
    BY <2>1
<1>5. Tracks(d.tracks)
  <2>1. d.tracks = [n \in DOMAIN d.tracks |-> d.tracks[n]]
    BY <1>1, <1>2
  <2>2. f .. l \subseteq 1 .. 99 /\ f .. l # {} /\ 1 .. k \subseteq Nat
    <3>1. f .. l \subseteq 1 .. 99
      BY <1>1
    <3>2. f \in f .. l
      BY <1>1
    <3>3. 1 .. k \subseteq Nat
      BY <1>1
    <3>  QED
      BY <3>1, <3>2, <3>3
  <2>  QED
    BY <1>1, <1>4, <2>1, <2>2 DEF Tracks
<1>6. d.leadout \in Nat
  BY <1>1, <1>3
<1>  QED
  BY <1>3, <1>4, <1>5, <1>6

\* What the drive answers of an honest disc makes one or the other.
LEMMA HonestMap ==
  ASSUME NEW d, IsHonest(d), NEW f, NEW l, NEW k, Shape(d, f, l, k),
         NEW full \in d.full, NEW count \in d.counts
  PROVE  LET m == ReadTocSrc(full, d.tracks, d.leadout, count) IN Faithful(d, m) \/ Sessionless(d, m)
<1>  DEFINE T == d.tracks
            a == FromLeadIn(full)
            r == [FromList(T, d.leadout) EXCEPT !.total = count]
            m == ReadTocSrc(full, T, d.leadout, count)
<1>1. /\ f \in 1 .. 99 /\ l \in 1 .. 99 /\ f <= l /\ k \in 1 .. 99
      /\ DOMAIN T = f .. l /\ DOMAIN d.ends = 1 .. k /\ d.leadout = d.ends[k]
      /\ count = 0 \/ count = k
  BY DEF Shape
<1>2. /\ Tracks(T) /\ d.leadout \in Nat
      /\ \A s \in 1 .. k : d.ends[s] \in Nat /\ d.ends[s] # 0
      /\ \A n \in f .. l : T[n].session \in 1 .. k
  BY HonestTracks
<1>3. m = IF full # << >> /\ a.ok THEN a ELSE Synthesised(r, count)
  BY Zenon DEF ReadTocSrc
<1>4. CASE full # << >> /\ a.ok
  <2>1. IsLeadIn(d, full)
    BY <1>4 DEF IsHonest
  <2>  DEFINE acc == TakeEntries(full)
  <2>2. /\ acc.slot = T /\ acc.anomalies = {} /\ acc.seen = 1 .. k
        /\ DOMAIN acc.ends = 1 .. k /\ \A s \in 1 .. k : acc.ends[s] = d.ends[s]
        /\ acc.leadout = d.ends[k]
        /\ acc.first_track \in {0, f} /\ acc.last_track \in {0, l}
    BY <2>1, LeadInTold
  <2>3. Account(T, full) /\ \A i \in 1 .. Len(full) : full[i].session \in Nat
    <3>1. Account(T, full) /\ \A i \in 1 .. Len(full) : Honestly(d, f, l, k, full[i])
      BY <2>1, LeadInSays
    <3>2. \A i \in 1 .. Len(full) : full[i].session \in 1 .. k
      BY <3>1 DEF Honestly
    <3>3. 1 .. k \subseteq Nat
      BY <1>1
    <3>  QED
      BY <3>1, <3>2, <3>3
  <2>4. /\ Describes(a, T) /\ \A n \in DOMAIN T : a.tracks[n].session = T[n].session
        /\ a.leadout = acc.leadout
        /\ DOMAIN a.sessions = {s \in acc.seen : s \in DOMAIN acc.ends /\ acc.ends[s] # 0}
        /\ \A s \in DOMAIN a.sessions : a.sessions[s].leadout = acc.ends[s]
        /\ a.anomalies = acc.anomalies \cup (IF RangeMismatch(acc) THEN {"range_mismatch"} ELSE {})
                         \cup GeometryAnomalies(a)
    BY <1>2, <1>4, <2>3, FromLeadInIs
  <2>  HIDE DEF a, acc, T, m
  <2>5. ~ RangeMismatch(acc)
    BY <1>1, <2>2, NoMismatch
  <2>6. DOMAIN a.sessions = 1 .. k
    BY <1>2, <2>2, <2>4
  <2>7. a.anomalies = GeometryAnomalies(a)
    BY <2>2, <2>4, <2>5
  <2>8. Faithful(d, a)
    BY <1>1, <2>2, <2>4, <2>6, <2>7 DEF Faithful, T
  <2>9. m = a
    BY <1>3, <1>4
  <2>  QED
    BY <2>8, <2>9 DEF m, T
<1>5. CASE ~ (full # << >> /\ a.ok)
  <2>1. Flat(r, T, d.leadout, count)
    BY <1>2, FlatListIs
  <2>2. m = Synthesised(r, count)
    BY <1>3, <1>5
  <2>  HIDE DEF r, a, T, m
  <2>3. CASE count = 1
    <3>1. k = 1 /\ d.ends[1] = d.leadout
      BY <1>1, <2>3
    <3>2. /\ Describes(m, T) /\ \A n \in DOMAIN T : m.tracks[n].session = 1
          /\ DOMAIN m.sessions = {1} /\ m.sessions[1].leadout = d.leadout /\ m.leadout = d.leadout
          /\ m.anomalies = GeometryAnomalies(m)
      BY <1>2, <2>1, <2>2, <2>3, SynthesisedIs
    <3>3. \A n \in DOMAIN T : T[n].session = 1
      BY <1>1, <1>2, <3>1
    <3>4. DOMAIN d.ends = {1}
      BY <1>1, <3>1
    <3>5. Faithful(d, m)
      BY <3>1, <3>2, <3>3, <3>4 DEF Faithful, T
    <3>  QED
      BY <3>5 DEF m, T
  <2>4. CASE count # 1
    <3>1. m = r
      BY <2>2, <2>4 DEF Synthesised
    <3>2. Describes(r, T) /\ DOMAIN r.sessions = {} /\ r.total = count
      BY <2>1 DEF Flat
    <3>3. count = 0 \/ count > 1
      BY <1>1, <2>4
    <3>4. Sessionless(d, m)
      BY <3>1, <3>2, <3>3 DEF Sessionless, T
    <3>  QED
      BY <3>4 DEF m, T
  <2>  QED
    BY <2>3, <2>4
<1>  QED
  BY <1>4, <1>5

\* Of a lying lead-in the map still has the disc's tracks, each where it is.
LEMMA LyingMap ==
  ASSUME NEW d, IsLying(d), NEW full \in d.full, NEW count \in d.counts
  PROVE  LET m == ReadTocSrc(full, d.tracks, d.leadout, count) IN Describes(m, d.tracks) /\ Apart(m)
<1>  DEFINE T == d.tracks
            a == FromLeadIn(full)
            r == [FromList(T, d.leadout) EXCEPT !.total = count]
            m == ReadTocSrc(full, T, d.leadout, count)
<1>1. /\ DOMAIN T \subseteq 1 .. 99 /\ DOMAIN T # {} /\ d.leadout \in Nat
      /\ T \in [DOMAIN T -> [session : 0 .. 255, audio : BOOLEAN, lba : Nat]]
      /\ \A i, j \in DOMAIN T : T[i].lba = T[j].lba => i = j
  BY DEF IsLying
<1>2. Tracks(T) /\ \A n \in DOMAIN T : T[n] \in [session : 0 .. 255, audio : BOOLEAN, lba : Nat]
  <2>1. \A n \in DOMAIN T : T[n] \in [session : 0 .. 255, audio : BOOLEAN, lba : Nat]
    BY <1>1
  <2>2. \A n \in DOMAIN T : T[n].session \in Nat /\ T[n].lba \in Nat
    BY <2>1
  <2>3. T = [n \in DOMAIN T |-> T[n]]
    BY <1>1
  <2>  QED
    BY <1>1, <2>1, <2>2, <2>3 DEF Tracks
<1>3. m = IF full # << >> /\ a.ok THEN a ELSE Synthesised(r, count)
  BY Zenon DEF ReadTocSrc
<1>4. Describes(m, T)
  <2>1. CASE full # << >> /\ a.ok
    <3>1. /\ full \in Seq([session : 0 .. 255, point : 0 .. 255, audio : BOOLEAN, addr : Int])
          /\ \A i \in DOMAIN full : IsTrack(full[i].point) /\ full[i].addr >= 0 =>
                full[i].point \in DOMAIN T /\ full[i] = TrackEntry(d, full[i].point)
          /\ full # << >> => \A n \in DOMAIN T : \E i \in DOMAIN full : full[i] = TrackEntry(d, n)
      BY DEF IsLying
    <3>2. /\ Len(full) \in Nat /\ DOMAIN full = 1 .. Len(full)
          /\ \A i \in 1 .. Len(full) :
               full[i] \in [session : 0 .. 255, point : 0 .. 255, audio : BOOLEAN, addr : Int]
      <4>1. \A S : full \in Seq(S) => /\ Len(full) \in Nat /\ DOMAIN full = 1 .. Len(full)
                                      /\ \A i \in 1 .. Len(full) : full[i] \in S
        OBVIOUS
      <4>  QED
        BY <3>1, <4>1, Zenon
    <3>3. \A i \in 1 .. Len(full) : full[i].session \in Nat /\ full[i].point \in Nat /\ full[i].addr \in Int
      <4>1. \A e \in [session : 0 .. 255, point : 0 .. 255, audio : BOOLEAN, addr : Int] :
              e.session \in Nat /\ e.point \in Nat /\ e.addr \in Int
        <5>  HIDE DEF T, a, r, m
        <5>  QED
          OBVIOUS
      <4>  QED
        BY <3>2, <4>1, Zenon
    <3>4. \A n \in DOMAIN T : /\ TrackEntry(d, n).session = T[n].session /\ TrackEntry(d, n).point = n
                              /\ TrackEntry(d, n).audio = T[n].audio /\ TrackEntry(d, n).addr = T[n].lba
      BY DEF TrackEntry, Entry
    <3>5. ASSUME NEW i \in 1 .. Len(full), IsTrack(full[i].point), full[i].addr >= 0
          PROVE  /\ full[i].point \in DOMAIN T
                 /\ T[full[i].point] = [session |-> full[i].session, audio |-> full[i].audio,
                                        lba |-> full[i].addr]
      <4>  DEFINE n == full[i].point
      <4>1. n \in DOMAIN T /\ full[i] = TrackEntry(d, n)
        BY <3>1, <3>2, <3>5
      <4>2. full[i].session = T[n].session /\ full[i].audio = T[n].audio /\ full[i].addr = T[n].lba
        BY <3>4, <4>1
      <4>3. T[n] \in [session : 0 .. 255, audio : BOOLEAN, lba : Nat]
        BY <1>2, <4>1
      <4>  HIDE DEF T, n
      <4>4. T[n] = [session |-> T[n].session, audio |-> T[n].audio, lba |-> T[n].lba]
        BY <4>3
      <4>  QED
        BY <4>1, <4>2, <4>4 DEF n
    <3>6. ASSUME NEW n \in DOMAIN T
          PROVE  \E i \in 1 .. Len(full) : full[i].point = n /\ IsTrack(n) /\ full[i].addr >= 0
      <4>1. PICK i \in 1 .. Len(full) : full[i] = TrackEntry(d, n)
        BY <2>1, <3>1, <3>2
      <4>2. full[i].point = n /\ full[i].addr = T[n].lba
        BY <3>4, <4>1
      <4>3. IsTrack(n) /\ T[n].lba >= 0
        BY <1>1, <1>2 DEF IsTrack
      <4>  QED
        BY <4>2, <4>3
    <3>7. Account(T, full)
      <4>  HIDE DEF T
      <4>  QED
        BY <3>2, <3>3, <3>5, <3>6 DEF Account
    <3>8. Describes(a, T)
      BY <1>2, <2>1, <3>3, <3>7, FromLeadInIs
    <3>  QED
      BY <1>3, <2>1, <3>8
  <2>2. CASE ~ (full # << >> /\ a.ok)
    <3>1. Flat(r, T, d.leadout, count)
      BY <1>1, <1>2, FlatListIs
    <3>2. m = Synthesised(r, count)
      BY <1>3, <2>2
    <3>  HIDE DEF r, m, a, T
    <3>3. CASE count = 1
      BY <1>1, <1>2, <3>1, <3>2, <3>3, SynthesisedIs
    <3>4. CASE count # 1
      <4>1. m = r
        BY <3>2, <3>4 DEF Synthesised
      <4>  QED
        BY <3>1, <4>1 DEF Flat
    <3>  QED
      BY <3>3, <3>4
  <2>  QED
    BY <2>1, <2>2
<1>5. Apart(m)
  <2>  HIDE DEF m, T
  <2>  QED
    BY <1>1, <1>4 DEF Describes, Apart
<1>  QED
  BY <1>4, <1>5

------------------------------------------------------------------------------
(* The geometry of an honest disc.                                             *)

\* Where its tracks end and begin.
EndOf(d, n) ==
  IF n + 1 \in TracksOf(d, d.tracks[n].session) THEN d.tracks[n + 1].lba
                                               ELSE d.ends[d.tracks[n].session]

\* On an honest disc numbers, addresses and sessions go up together.
LEMMA HonestOrder ==
  ASSUME NEW d, IsHonest(d), NEW f, NEW l, NEW k, Shape(d, f, l, k)
  PROVE  /\ \A i, j \in f .. l : i < j =>
              /\ d.tracks[i].lba < d.tracks[j].lba /\ d.tracks[i].session <= d.tracks[j].session
              /\ d.tracks[i].session < d.tracks[j].session =>
                   d.ends[d.tracks[i].session] <= d.tracks[j].lba
         /\ \A n \in f .. l : d.tracks[n].lba < d.ends[d.tracks[n].session]
         /\ Lowest(DOMAIN d.tracks) = f
<1>1. DOMAIN d.tracks = f .. l /\ f \in 1 .. 99 /\ l \in 1 .. 99 /\ f <= l
  BY DEF Shape
<1>2. Lowest(f .. l) = f
  <2>1. f \in Nat /\ l \in Nat
    BY <1>1
  <2>  QED
    BY <1>1, <2>1, RangeEnds
<1>3. \A i, j \in f .. l : i < j =>
        /\ d.tracks[i].lba < d.tracks[j].lba /\ d.tracks[i].session <= d.tracks[j].session
        /\ d.tracks[i].session < d.tracks[j].session =>
             d.ends[d.tracks[i].session] <= d.tracks[j].lba
  BY <1>1 DEF IsHonest
<1>4. \A n \in f .. l : d.tracks[n].lba < d.ends[d.tracks[n].session]
  BY <1>1 DEF IsHonest
<1>  QED
  BY <1>1, <1>2, <1>3, <1>4

\* A track ends before the next begins, and no sooner than it began.
LEMMA HonestEnds ==
  ASSUME NEW d, IsHonest(d), NEW f, NEW l, NEW k, Shape(d, f, l, k), NEW n \in f .. l
  PROVE  /\ EndOf(d, n) \in Nat /\ d.tracks[n].lba < EndOf(d, n) /\ EndOf(d, n) <= Top
         /\ EndOf(d, n) <= d.ends[d.tracks[n].session]
         /\ \A j \in f .. l : n < j => EndOf(d, n) <= d.tracks[j].lba
<1>  DEFINE T == d.tracks
<1>1. /\ f \in 1 .. 99 /\ l \in 1 .. 99 /\ k \in 1 .. 99 /\ DOMAIN T = f .. l /\ Top \in Nat
  BY DEF Shape
<1>2. /\ \A i \in f .. l : i \in Nat /\ T[i].session \in 1 .. k /\ T[i].lba \in Nat
      /\ \A s \in 1 .. k : d.ends[s] \in Nat /\ d.ends[s] <= Top
  <2>1. \A i \in f .. l : i \in Nat
    BY <1>1
  <2>  QED
    BY <2>1, HonestTracks
<1>3. /\ \A i, j \in f .. l : i < j =>
           /\ T[i].lba < T[j].lba /\ T[i].session <= T[j].session
           /\ T[i].session < T[j].session => d.ends[T[i].session] <= T[j].lba
      /\ \A i \in f .. l : T[i].lba < d.ends[T[i].session]
  BY HonestOrder
<1>  HIDE DEF T
<1>  DEFINE s == T[n].session
<1>4. \A i : i \in TracksOf(d, s) <=> i \in f .. l /\ T[i].session = s
  BY <1>1 DEF TracksOf, T
<1>5. n \in Nat /\ s \in 1 .. k /\ s \in Nat /\ T[n].lba \in Nat /\ d.ends[s] \in Nat
  <2>1. s \in 1 .. k
    BY <1>2
  <2>  QED
    BY <1>1, <1>2, <2>1
<1>6. CASE n + 1 \in TracksOf(d, s)
  <2>1. EndOf(d, n) = T[n + 1].lba
    BY <1>6 DEF EndOf, T
  <2>2. n + 1 \in f .. l /\ n < n + 1 /\ T[n + 1].session = s
    BY <1>4, <1>5, <1>6
  <2>3. T[n + 1].lba \in Nat /\ T[n].lba < T[n + 1].lba /\ T[n + 1].lba < d.ends[s]
    BY <1>2, <1>3, <2>2
  <2>4. d.ends[s] <= Top
    BY <1>2, <1>5
  <2>5. ASSUME NEW j \in f .. l, n < j PROVE T[n + 1].lba <= T[j].lba
    <3>1. j = n + 1 \/ n + 1 < j
      BY <1>1, <1>5, <2>5
    <3>  QED
      BY <1>2, <1>3, <2>2, <2>3, <2>5, <3>1
  <2>  HIDE DEF s
  <2>  QED
    BY <1>1, <1>5, <2>1, <2>3, <2>4, <2>5, SMTT(30) DEF s, T
<1>7. CASE n + 1 \notin TracksOf(d, s)
  <2>1. EndOf(d, n) = d.ends[s]
    BY <1>7 DEF EndOf, T
  <2>2. T[n].lba < d.ends[s] /\ d.ends[s] <= Top
    BY <1>2, <1>3, <1>5
  <2>3. ASSUME NEW j \in f .. l, n < j PROVE d.ends[s] <= T[j].lba
    <3>1. n + 1 \in f .. l
      BY <1>1, <1>5, <2>3
    <3>2. T[n + 1].session \in Nat /\ T[j].session \in Nat
      <4>1. T[n + 1].session \in 1 .. k /\ T[j].session \in 1 .. k
        BY <1>2, <2>3, <3>1
      <4>  QED
        BY <1>1, <4>1
    <3>3. s <= T[n + 1].session /\ T[n + 1].session # s
      <4>1. n < n + 1
        BY <1>5
      <4>  QED
        BY <1>3, <1>4, <1>7, <3>1, <4>1
    <3>4. j = n + 1 \/ n + 1 < j
      BY <1>1, <1>5, <2>3
    <3>5. T[n + 1].session <= T[j].session
      BY <1>3, <2>3, <3>1, <3>2, <3>4
    <3>6. s < T[j].session
      BY <1>5, <3>2, <3>3, <3>5
    <3>  QED
      BY <1>3, <2>3, <3>6
  <2>  HIDE DEF s
  <2>  QED
    BY <1>5, <2>1, <2>2, <2>3 DEF s, T
<1>  QED
  BY <1>6, <1>7

\* The map has each track begin and end where it does on the disc.
LEMMA FaithfulGeometry ==
  ASSUME NEW d, IsHonest(d), NEW f, NEW l, NEW k, Shape(d, f, l, k), NEW m, Faithful(d, m),
         NEW n \in f .. l
  PROVE  /\ n \in DOMAIN m.tracks
         /\ Ends(m.tracks[n]) = EndOf(d, n)
         /\ Starts(m.tracks[n]) = IF n = f THEN 0 ELSE d.tracks[n].lba
         /\ m.tracks[n].sectors \in Nat /\ m.tracks[n].sectors > 0
         /\ End(m, n) = d.ends[d.tracks[n].session]
<1>  DEFINE T == d.tracks
            s == T[n].session
<1>1. /\ f \in 1 .. 99 /\ l \in 1 .. 99 /\ f <= l /\ k \in 1 .. 99 /\ DOMAIN T = f .. l
      /\ DOMAIN d.ends = 1 .. k /\ T[f].session = 1
  BY DEF Shape
<1>2. /\ \A i \in f .. l : i \in Nat /\ T[i].session \in 1 .. k /\ T[i].lba \in Nat
      /\ \A r \in 1 .. k : d.ends[r] \in Nat
  <2>1. \A i \in f .. l : i \in Nat
    BY <1>1
  <2>  QED
    BY <2>1, HonestTracks
<1>3. /\ \A i, j \in f .. l : i < j => T[i].lba < T[j].lba /\ T[i].session <= T[j].session
      /\ \A i \in f .. l : T[i].lba < d.ends[T[i].session]
  BY HonestOrder
<1>4. /\ Extents(m) /\ DOMAIN m.tracks = f .. l /\ DOMAIN m.sessions = 1 .. k
      /\ \A i \in f .. l : m.tracks[i].lba = T[i].lba /\ m.tracks[i].session = T[i].session
      /\ \A r \in 1 .. k : m.sessions[r].leadout = d.ends[r]
  BY <1>1 DEF Faithful, Describes
<1>5. n \in Nat /\ s \in 1 .. k /\ T[n].lba \in Nat /\ d.ends[s] \in Nat /\ T[n].lba < d.ends[s]
  BY <1>2, <1>3
<1>6. End(m, n) = d.ends[s]
  BY <1>4, <1>5 DEF End, SessionLeadout
<1>7. \A i \in f .. l : T[i].lba > T[n].lba => n < i
  <2>1. ASSUME NEW i \in f .. l, T[i].lba > T[n].lba PROVE n < i
    <3>1. i \in Nat /\ T[i].lba \in Nat
      BY <1>2
    <3>2. CASE i < n
      BY <1>3, <1>5, <2>1, <3>1, <3>2
    <3>3. CASE i = n
      BY <1>5, <2>1, <3>1, <3>3
    <3>  QED
      BY <1>5, <3>1, <3>2, <3>3
  <2>  QED
    BY <2>1
<1>8. \A i : i \in TracksOf(d, s) <=> i \in f .. l /\ T[i].session = s
  BY <1>1 DEF TracksOf
<1>9. \A i : i \in Later(m, n) <=> i \in f .. l /\ T[i].session = s /\ T[i].lba > T[n].lba
  BY <1>4 DEF Later
<1>  DEFINE t == m.tracks[n]
<1>10. /\ t.lba = T[n].lba /\ t.sectors \in Nat /\ Ends(t) \in Nat
       /\ \A i \in Later(m, n) : Ends(t) <= T[i].lba
       /\ \/ \E i \in Later(m, n) : Ends(t) = T[i].lba
          \/ Later(m, n) = {} /\ Ends(t) = IF End(m, n) > t.lba THEN End(m, n) ELSE t.lba
  <2>1. /\ t.sectors \in Nat /\ Ends(t) \in Nat
        /\ \A i \in Later(m, n) : t.sectors > 0 /\ Ends(t) <= m.tracks[i].lba
        /\ \/ \E i \in Later(m, n) : Ends(t) = m.tracks[i].lba
           \/ Later(m, n) = {} /\ Ends(t) = IF End(m, n) > t.lba THEN End(m, n) ELSE t.lba
    BY <1>4, SectorsAre
  <2>2. \A i \in Later(m, n) : m.tracks[i].lba = T[i].lba
    BY <1>4, <1>9
  <2>  HIDE DEF t
  <2>3. t.lba = T[n].lba
    BY <1>4 DEF t
  <2>  QED
    BY <2>1, <2>2, <2>3
<1>  HIDE DEF t, T
<1>11. Ends(t) = EndOf(d, n)
  <2>1. CASE n + 1 \in TracksOf(d, s)
    <3>1. EndOf(d, n) = T[n + 1].lba
      BY <2>1 DEF EndOf, T
    <3>2. n + 1 \in f .. l /\ T[n + 1].session = s /\ n < n + 1
      BY <1>5, <1>8, <2>1
    <3>3. T[n + 1].lba > T[n].lba /\ T[n + 1].lba \in Nat
      BY <1>2, <1>3, <3>2
    <3>4. n + 1 \in Later(m, n)
      BY <1>9, <3>2, <3>3
    <3>5. ASSUME NEW i \in Later(m, n) PROVE T[n + 1].lba <= T[i].lba
      <4>1. i \in f .. l /\ n < i /\ i \in Nat /\ T[i].lba \in Nat
        BY <1>2, <1>7, <1>9
      <4>2. i = n + 1 \/ n + 1 < i
        BY <1>5, <4>1
      <4>  QED
        BY <1>3, <3>2, <3>3, <4>1, <4>2
    <3>6. PICK i \in Later(m, n) : Ends(t) = T[i].lba
      BY <1>10, <3>4
    <3>  QED
      BY <1>10, <3>1, <3>3, <3>4, <3>5, <3>6
  <2>2. CASE n + 1 \notin TracksOf(d, s)
    <3>1. EndOf(d, n) = d.ends[s]
      BY <2>2 DEF EndOf, T
    <3>2. ASSUME NEW i \in Later(m, n) PROVE FALSE
      <4>1. i \in f .. l /\ n < i /\ i \in Nat /\ T[i].session = s
        BY <1>2, <1>7, <1>9
      <4>2. n + 1 \in f .. l /\ n < n + 1
        BY <1>1, <1>5, <4>1
      <4>3. i = n + 1 \/ n + 1 < i
        BY <1>5, <4>1
      <4>4. T[n + 1].session \in Nat /\ s \in Nat
        <5>1. T[n + 1].session \in 1 .. k
          BY <1>2, <4>2
        <5>  QED
          BY <1>1, <1>5, <5>1
      <4>5. s <= T[n + 1].session /\ T[n + 1].session <= s
        BY <1>3, <4>1, <4>2, <4>3, <4>4
      <4>6. T[n + 1].session = s
        BY <4>4, <4>5
      <4>  QED
        BY <1>8, <2>2, <4>2, <4>6
    <3>3. Ends(t) = IF End(m, n) > t.lba THEN End(m, n) ELSE t.lba
      BY <1>10, <3>2
    <3>  HIDE DEF s
    <3>  QED
      BY <1>5, <1>6, <1>10, <3>1, <3>3
  <2>  QED
    BY <2>1, <2>2
<1>12. t.sectors > 0
  <2>1. Ends(t) = t.lba + t.sectors
    BY DEF Ends
  <2>2. EndOf(d, n) \in Nat /\ T[n].lba < EndOf(d, n)
    BY HonestEnds DEF T
  <2>  QED
    BY <1>5, <1>10, <1>11, <2>1, <2>2
<1>13. Starts(t) = IF n = f THEN 0 ELSE T[n].lba
  <2>1. /\ HasPregap(m.tracks, n) => Starts(t) = 0
        /\ ~ HasPregap(m.tracks, n) => Starts(t) = t.lba
    BY <1>4, StartsAre DEF t
  <2>2. f \in f .. l /\ f \in Nat
    BY <1>1
  <2>3. CASE n = f
    <3>1. \A i \in f .. l : i # f => T[f].lba < T[i].lba
      BY <1>2, <1>3, <2>2
    <3>2. m.tracks[f].session = 1 /\ \A i \in f .. l : i # f => m.tracks[f].lba < m.tracks[i].lba
      BY <1>1, <1>4, <2>2, <3>1 DEF T
    <3>3. HasPregap(m.tracks, n)
      BY <1>4, <2>3, <3>2 DEF HasPregap
    <3>  QED
      BY <2>1, <2>3, <3>3
  <2>4. CASE n # f
    <3>1. T[f].lba < T[n].lba /\ T[f].lba \in Nat
      BY <1>2, <1>3, <1>5, <2>2, <2>4
    <3>2. m.tracks[f].session <= 1 /\ m.tracks[f].lba = T[f].lba /\ m.tracks[n].lba = T[n].lba
      BY <1>1, <1>4, <2>2 DEF T
    <3>3. ~ HasPregap(m.tracks, n)
      <4>1. ~ (T[n].lba < T[f].lba) /\ ~ (T[n].lba = T[f].lba)
        BY <1>5, <3>1
      <4>  QED
        BY <1>4, <2>2, <2>4, <3>2, <4>1 DEF HasPregap
    <3>  QED
      BY <1>10, <2>1, <2>4, <3>3
  <2>  QED
    BY <2>3, <2>4
<1>  QED
  BY <1>4, <1>6, <1>10, <1>11, <1>12, <1>13 DEF t, T

\* Every sector is in the map's track that it is in on the disc.
LEMMA OwnersAreTracksAt ==
  ASSUME NEW d, IsHonest(d), NEW f, NEW l, NEW k, Shape(d, f, l, k), NEW m, Faithful(d, m), NEW p
  PROVE  Owners(m, p) = TracksAt(d, p)
<1>  DEFINE T == d.tracks
            begin(n) == IF n = f THEN 0 ELSE T[n].lba
<1>1. DOMAIN T = f .. l /\ DOMAIN m.tracks = f .. l /\ Lowest(DOMAIN T) = f
  <2>1. DOMAIN T = f .. l /\ DOMAIN m.tracks = f .. l
    BY DEF Shape, Faithful, Describes
  <2>2. Lowest(DOMAIN T) = f
    BY HonestOrder
  <2>  QED
    BY <2>1, <2>2
<1>2. \A n \in f .. l : Ends(m.tracks[n]) = EndOf(d, n) /\ Starts(m.tracks[n]) = begin(n)
  BY FaithfulGeometry
<1>3. TracksAt(d, p) = {n \in f .. l : begin(n) <= p /\ p < EndOf(d, n)}
  BY <1>1, Zenon DEF TracksAt, EndOf
<1>  HIDE DEF begin
<1>4. Owners(m, p) = {n \in f .. l : begin(n) <= p /\ p < EndOf(d, n)}
  BY <1>1, <1>2 DEF Owners
<1>  QED
  BY <1>3, <1>4

\* And none of the anomalies.
LEMMA HonestIsRegular ==
  ASSUME NEW d, IsHonest(d), NEW f, NEW l, NEW k, Shape(d, f, l, k), NEW m, Faithful(d, m)
  PROVE  m.anomalies = {}
<1>  DEFINE T == d.tracks
            D == f .. l
            G == GeometryAnomalies(m)
<1>1. /\ f \in 1 .. 99 /\ l \in 1 .. 99 /\ k \in 1 .. 99 /\ DOMAIN m.tracks = D
      /\ \A n \in D : m.tracks[n].lba = T[n].lba
  BY DEF Shape, Faithful, Describes
<1>2. \A n \in D : /\ Ends(m.tracks[n]) = EndOf(d, n) /\ m.tracks[n].sectors \in Nat
                   /\ Starts(m.tracks[n]) = IF n = f THEN 0 ELSE T[n].lba
                   /\ m.tracks[n].sectors > 0 /\ End(m, n) = d.ends[T[n].session]
  BY FaithfulGeometry
<1>3. \A n \in D : /\ n \in Nat /\ T[n].lba \in Nat /\ d.ends[T[n].session] \in Nat
                   /\ T[n].lba < d.ends[T[n].session]
  <2>1. \A n \in D : n \in Nat /\ T[n].session \in 1 .. k /\ T[n].lba \in Nat
    <3>1. \A n \in D : n \in Nat
      BY <1>1
    <3>  QED
      BY <3>1, HonestTracks
  <2>2. \A s \in 1 .. k : d.ends[s] \in Nat
    BY HonestTracks
  <2>  QED
    BY <2>1, <2>2, HonestOrder
<1>4. \A i, j \in D : i < j => T[i].lba < T[j].lba
  BY HonestOrder
<1>5. \A i, j \in D : i < j => EndOf(d, i) \in Nat /\ EndOf(d, i) <= T[j].lba
  BY HonestEnds
<1>  HIDE DEF T
<1>6. \A n \in D : ~ (End(m, n) <= m.tracks[n].lba)
  BY <1>1, <1>2, <1>3, SMTT(30)
<1>7. "past_leadout" \notin G
  BY <1>1, <1>6, AnomaliesAre
<1>8. "empty_track" \notin G
  <2>1. \A n \in D : m.tracks[n].sectors # 0
    BY <1>2
  <2>  QED
    BY <1>1, <2>1, AnomaliesAre
<1>9. "leadout_before" \notin G
  <2>1. \A g \in Groups(m) : g \subseteq D
    BY <1>1 DEF Groups
  <2>2. \A g \in Groups(m) \ {{}} : \E n \in g : ~ (End(m, n) <= m.tracks[n].lba)
    BY <1>6, <2>1
  <2>  QED
    BY <2>2, AnomaliesAre
<1>10. "lba_order" \notin G
  <2>1. \A n, j \in D : j \in After(D, n) => ~ (m.tracks[j].lba <= m.tracks[n].lba)
    <3>1. ASSUME NEW n \in D, NEW j \in D, j \in After(D, n)
          PROVE  ~ (m.tracks[j].lba <= m.tracks[n].lba)
      <4>1. j > n
        BY <3>1 DEF After
      <4>2. n < j
        BY <1>3, <4>1
      <4>  QED
        BY <1>1, <1>3, <1>4, <4>2
    <3>  QED
      BY <3>1
  <2>  QED
    BY <1>1, <2>1, AnomaliesAre
<1>11. "overlap" \notin G
  <2>1. ASSUME NEW i \in D, NEW j \in D, i < j
        PROVE  ~ (Starts(m.tracks[j]) < Ends(m.tracks[i]))
    <3>1. j # f
      BY <1>1, <1>3, <2>1
    <3>2. Starts(m.tracks[j]) = T[j].lba /\ Ends(m.tracks[i]) = EndOf(d, i)
      BY <1>2, <3>1
    <3>3. EndOf(d, i) \in Nat /\ EndOf(d, i) <= T[j].lba /\ T[j].lba \in Nat
      BY <1>3, <1>5, <2>1
    <3>  QED
      BY <3>2, <3>3
  <2>2. ASSUME NEW i \in D, NEW j \in D, i # j PROVE ~ Overlap(m.tracks[i], m.tracks[j])
    <3>1. i < j \/ j < i
      BY <1>3, <2>2
    <3>2. \/ ~ (Starts(m.tracks[j]) < Ends(m.tracks[i]))
          \/ ~ (Starts(m.tracks[i]) < Ends(m.tracks[j]))
      BY <2>1, <3>1
    <3>  QED
      BY <3>2, Zenon DEF Overlap
  <2>  QED
    BY <1>1, <2>2, AnomaliesAre
<1>12. G = {}
  <2>1. G \subseteq {"lba_order", "past_leadout", "empty_track", "leadout_before", "overlap"}
    BY AnomaliesAre
  <2>  HIDE DEF G
  <2>  QED
    BY <1>7, <1>8, <1>9, <1>10, <1>11, <2>1
<1>13. m.anomalies = G
  BY DEF Faithful
<1>  QED
  BY <1>12, <1>13

------------------------------------------------------------------------------
(* The plan.                                                                   *)

\* What is asked for.
Asks(sp) ==
  /\ sp.start \in Int /\ sp.count \in Int /\ sp.session \in Int /\ sp.first \in Int /\ sp.last \in Int
  /\ sp.force \in BOOLEAN

\* A range of tracks is refused for a reason, or has numbers.
LEMMA TrackRangeIs ==
  ASSUME NEW m, Extents(m), NEW first, NEW last
  PROVE  LET r == TrackRange(m, first, last) IN
         /\ r.err \in {"inval", "notfound", "unsupported", "short", "ok"}
         /\ r.err = "ok" => r.lba \in Nat /\ r.count \in Int
<1>  DEFINE r == TrackRange(m, first, last)
            a == m.tracks[first]
            b == m.tracks[last]
<1>1. \A e : NoRange(e).err = e /\ Extent(e, e).err = "ok"
  BY DEF NoRange, Extent
<1>2. ASSUME {first, last} \ DOMAIN m.tracks = {}
      PROVE  LET x == Extent(Starts(a), Ends(b) - Starts(a)) IN
             x.err = "ok" /\ x.lba \in Nat /\ x.count \in Int
  <2>1. first \in DOMAIN m.tracks /\ last \in DOMAIN m.tracks
    BY <1>2
  <2>2. Starts(a) \in Nat /\ Ends(b) \in Nat
    BY <2>1, StartsAre, SectorsAre
  <2>  HIDE DEF a, b
  <2>  QED
    BY <2>2 DEF Extent
<1>3. \/ r = NoRange("inval") \/ r = NoRange("notfound") \/ r = NoRange("unsupported")
      \/ r = NoRange("short")
      \/ {first, last} \ DOMAIN m.tracks = {} /\ r = Extent(Starts(a), Ends(b) - Starts(a))
  BY Zenon DEF TrackRange
<1>  HIDE DEF r, a, b
<1>4. /\ r.err \in {"inval", "notfound", "unsupported", "short", "ok"}
      /\ r.err = "ok" => r.lba \in Nat /\ r.count \in Int
  BY <1>1, <1>2, <1>3
<1>  QED
  BY <1>4 DEF r

\* So has the audio of a session.
LEMMA SessionAudioRangeIs ==
  ASSUME NEW m, Extents(m), NEW s
  PROVE  LET r == SessionAudioRange(m, s) IN
         /\ r.err \in {"notfound", "unsupported", "short", "ok"}
         /\ r.err = "ok" => r.lba \in Nat /\ r.count \in Int
<1>  DEFINE r == SessionAudioRange(m, s)
            audio == {n \in InSession(m, s) : m.tracks[n].audio}
            a == m.tracks[Lowest(audio)]
            b == m.tracks[Highest(audio)]
<1>1. \A e : NoRange(e).err = e /\ Extent(e, e).err = "ok"
  BY DEF NoRange, Extent
<1>2. ASSUME audio # {}
      PROVE  LET x == Extent(Starts(a), Ends(b) - Starts(a)) IN
             x.err = "ok" /\ x.lba \in Nat /\ x.count \in Int
  <2>1. audio \subseteq DOMAIN m.tracks /\ DOMAIN m.tracks \subseteq 1 .. 99
    BY DEF InSession, Extents
  <2>2. audio \in SUBSET Nat /\ \A n \in audio : n <= 99
    BY <2>1
  <2>  HIDE DEF audio
  <2>3. Lowest(audio) \in audio
    BY <1>2, <2>2, LowestIs
  <2>4. Highest(audio) \in audio
    <3>1. 99 \in Nat
      OBVIOUS
    <3>  QED
      BY <1>2, <2>2, <3>1, HighestIs
  <2>5. Starts(a) \in Nat /\ Ends(b) \in Nat
    BY <2>1, <2>3, <2>4, StartsAre, SectorsAre
  <2>  HIDE DEF a, b
  <2>  QED
    BY <2>5 DEF Extent
<1>3. \/ r = NoRange("notfound") \/ r = NoRange("unsupported") \/ r = NoRange("short")
      \/ audio # {} /\ r = Extent(Starts(a), Ends(b) - Starts(a))
  BY Zenon DEF SessionAudioRange
<1>  HIDE DEF r, a, b, audio
<1>4. /\ r.err \in {"notfound", "unsupported", "short", "ok"}
      /\ r.err = "ok" => r.lba \in Nat /\ r.count \in Int
  BY <1>1, <1>2, <1>3
<1>  QED
  BY <1>4 DEF r

\* What passes is a range, and passed the guard unless it was forced.
Passed(m, sp, x) ==
  /\ x.lba \in Nat /\ x.count \in Nat /\ x.count > 0
  /\ ~ sp.force => CheckAudioRange(m, x.lba, x.count) = "ok"

\* What is vetted and not refused has passed.
LEMMA VettedIs ==
  ASSUME NEW m, NEW sp, NEW w, w.start \in Nat, w.count \in Int
  PROVE  LET x == Vetted(m, sp, w) IN x.reason = "ok" => Passed(m, sp, x)
<1>  DEFINE x == Vetted(m, sp, w)
            y == [reason |-> "ok", lba |-> w.start, count |-> w.count]
<1>1. \A e : Refused(e).reason = e
  BY DEF Refused
<1>2. y.reason = "ok" /\ y.lba = w.start /\ y.count = w.count
  OBVIOUS
<1>3. \/ w.count <= 0 /\ x = Refused("empty_range")
      \/ x = Refused("guard_refused")
      \/ /\ ~ (w.count <= 0) /\ x = y
         /\ ~ (~ sp.force /\ CheckAudioRange(m, w.start, w.count) # "ok")
  BY Zenon DEF Vetted
<1>  HIDE DEF x, y
<1>4. x.reason = "ok" => Passed(m, sp, x)
  <2>1. SUFFICES ASSUME x.reason = "ok" PROVE Passed(m, sp, x)
    OBVIOUS
  <2>2. ~ (w.count <= 0) /\ x = y /\ ~ (~ sp.force /\ CheckAudioRange(m, w.start, w.count) # "ok")
    BY <1>1, <1>3, <2>1
  <2>  QED
    BY <1>2, <2>2 DEF Passed
<1>  QED
  BY <1>4 DEF x

\* So it is with every plan.
LEMMA PlanIsVetted ==
  ASSUME NEW m, Extents(m), NEW sp, Asks(sp)
  PROVE  LET x == PlanReadRange(m, sp) IN x.reason = "ok" => Passed(m, sp, x)
<1>0. sp.start \in Int /\ sp.count \in Int
  BY DEF Asks
<1>1. \A e : Refused(e).reason = e
  BY DEF Refused
<1>2. \A r : r.lba \in Nat /\ r.count \in Int => Within(sp, r).start \in Nat /\ Within(sp, r).count \in Int
  BY <1>0 DEF Within
<1>3. \A w : w.start \in Nat /\ w.count \in Int /\ Vetted(m, sp, w).reason = "ok" =>
        Passed(m, sp, Vetted(m, sp, w))
  BY VettedIs
<1>4. PlanTracks(m, sp).reason = "ok" => Passed(m, sp, PlanTracks(m, sp))
  <2>  DEFINE r == TrackRange(m, sp.first, sp.last)
  <2>1. /\ r.err \in {"inval", "notfound", "unsupported", "short", "ok"}
        /\ r.err = "ok" => r.lba \in Nat /\ r.count \in Int
    BY TrackRangeIs
  <2>2. PlanTracks(m, sp) =
          CASE r.err = "notfound"    -> Refused("tracks_not_found")
            [] r.err = "unsupported" -> Refused("tracks_cross_session")
            [] r.err \in {"short", "inval"} -> Refused("tracks_no_extent")
            [] r.err = "ok"          -> Vetted(m, sp, Within(sp, r))
    BY Zenon DEF PlanTracks
  <2>  HIDE DEF r
  <2>3. CASE r.err = "ok"
    <3>1. PlanTracks(m, sp) = Vetted(m, sp, Within(sp, r))
      BY <2>2, <2>3
    <3>  QED
      BY <1>2, <1>3, <2>1, <2>3, <3>1
  <2>4. CASE r.err # "ok"
    <3>1. PlanTracks(m, sp).reason # "ok"
      BY <1>1, <2>1, <2>2, <2>4
    <3>  QED
      BY <3>1
  <2>  QED
    BY <2>3, <2>4
<1>5. \A s : PlanSession(m, sp, s).reason = "ok" => Passed(m, sp, PlanSession(m, sp, s))
  <2>1. SUFFICES ASSUME NEW s PROVE PlanSession(m, sp, s).reason = "ok" => Passed(m, sp, PlanSession(m, sp, s))
    OBVIOUS
  <2>  DEFINE r == SessionAudioRange(m, s)
  <2>2. /\ r.err \in {"notfound", "unsupported", "short", "ok"}
        /\ r.err = "ok" => r.lba \in Nat /\ r.count \in Int
    BY SessionAudioRangeIs
  <2>3. PlanSession(m, sp, s) =
          CASE r.err = "unsupported" -> Refused("session_split_by_data")
            [] r.err \in {"notfound", "short"} -> Refused("session_not_found")
            [] r.err = "ok"          -> Vetted(m, sp, Within(sp, r))
    BY Zenon DEF PlanSession
  <2>  HIDE DEF r
  <2>4. CASE r.err = "ok"
    <3>1. PlanSession(m, sp, s) = Vetted(m, sp, Within(sp, r))
      BY <2>3, <2>4
    <3>  QED
      BY <1>2, <1>3, <2>2, <2>4, <3>1
  <2>5. CASE r.err # "ok"
    <3>1. PlanSession(m, sp, s).reason # "ok"
      BY <1>1, <2>2, <2>3, <2>5
    <3>  QED
      BY <3>1
  <2>  QED
    BY <2>4, <2>5
<1>6. PlanSectors(m, sp).reason = "ok" => Passed(m, sp, PlanSectors(m, sp))
  <2>  DEFINE start == IF sp.start >= 0 THEN sp.start ELSE 0
              w == [start |-> start, count |-> IF sp.count < 0 THEN m.leadout - start ELSE sp.count]
  <2>1. start \in Nat /\ m.leadout \in Nat
    BY <1>0 DEF Extents
  <2>2. w.start \in Nat /\ w.count \in Int
    <3>  HIDE DEF start
    <3>  QED
      BY <1>0, <2>1
  <2>3. PlanSectors(m, sp) = IF sp.count < 0 /\ start >= m.leadout THEN Refused("start_past_leadout")
                             ELSE Vetted(m, sp, w)
    BY Zenon DEF PlanSectors
  <2>  HIDE DEF w, start
  <2>  QED
    BY <1>1, <1>3, <2>2, <2>3
<1>7. \/ PlanNamed(m, sp) = PlanTracks(m, sp)
      \/ \E s : PlanNamed(m, sp) = PlanSession(m, sp, s)
      \/ PlanNamed(m, sp) = PlanSectors(m, sp)
      \/ PlanNamed(m, sp) = Refused("multiple_audio_sessions")
      \/ PlanNamed(m, sp) = Refused("no_audio_session")
  <2>  DEFINE nothing == sp.session < 0 /\ sp.start < 0 /\ sp.count < 0
              default == DefaultAudioSession(m)
              s == IF nothing /\ default > 0 THEN default ELSE sp.session
  <2>1. PlanNamed(m, sp) =
          CASE sp.first > 0                  -> PlanTracks(m, sp)
            [] sp.first = 0 /\ nothing /\ default = -3 -> Refused("multiple_audio_sessions")
            [] sp.first = 0 /\ nothing /\ default = -2 -> Refused("no_audio_session")
            [] OTHER -> IF s > 0 THEN PlanSession(m, sp, s % 256) ELSE PlanSectors(m, sp)
    BY Zenon DEF PlanNamed
  <2>  HIDE DEF nothing, default, s
  <2>2. CASE sp.first > 0
    <3>1. ~ (sp.first = 0)
      BY <2>2
    <3>  QED
      BY <2>1, <2>2, <3>1, Zenon
  <2>3. CASE sp.first = 0 /\ nothing /\ default = -3
    <3>1. ~ (sp.first > 0) /\ ~ (default = -2)
      BY <2>3
    <3>  QED
      BY <2>1, <2>3, <3>1, Zenon
  <2>4. CASE sp.first = 0 /\ nothing /\ default = -2
    <3>1. ~ (sp.first > 0) /\ ~ (default = -3)
      BY <2>4
    <3>  QED
      BY <2>1, <2>4, <3>1, Zenon
  <2>5. CASE /\ ~ (sp.first > 0) /\ ~ (sp.first = 0 /\ nothing /\ default = -3)
             /\ ~ (sp.first = 0 /\ nothing /\ default = -2)
    BY <2>1, <2>5, Zenon
  <2>  QED
    BY <2>2, <2>3, <2>4, <2>5, Zenon
<1>8. PlanNamed(m, sp).reason = "ok" => Passed(m, sp, PlanNamed(m, sp))
  BY <1>1, <1>4, <1>5, <1>6, <1>7
<1>9. PlanReadRange(m, sp) \in {Refused("inval"), PlanNamed(m, sp)}
  BY DEF PlanReadRange
<1>10. Refused("inval").reason # "ok"
  BY <1>1
<1>  QED
  BY <1>8, <1>9, <1>10

------------------------------------------------------------------------------
(* The one session with audio.                                                 *)

Begin(d, f, n) == IF n = f THEN 0 ELSE d.tracks[n].lba

\* The tracks that own a sector of an honest disc lie around it.
LEMMA TracksAtIs ==
  ASSUME NEW d, IsHonest(d), NEW f, NEW l, NEW k, Shape(d, f, l, k), NEW p
  PROVE  TracksAt(d, p) = {n \in f .. l : Begin(d, f, n) <= p /\ p < EndOf(d, n)}
<1>1. DOMAIN d.tracks = f .. l
  BY DEF Shape
<1>2. Lowest(DOMAIN d.tracks) = f
  BY HonestOrder
<1>  QED
  BY <1>1, <1>2, Zenon DEF TracksAt, EndOf, Begin

\* The tracks a .. b of a disc, all of session r.
Run(d, f, l, k, r, a, b) ==
  /\ Shape(d, f, l, k) /\ r \in 1 .. k
  /\ a \in f .. l /\ b \in f .. l /\ a <= b
  /\ \A n \in a .. b : d.tracks[n].session = r

\* Where such a run begins and ends.
LEMMA RunEnds ==
  ASSUME NEW d, IsHonest(d), NEW f, NEW l, NEW k, NEW r, NEW a, NEW b, Run(d, f, l, k, r, a, b)
  PROVE  /\ a \in Nat /\ b \in Nat /\ a .. b \subseteq f .. l
         /\ \A n \in f .. l : n \in Nat /\ Begin(d, f, n) \in Nat /\ EndOf(d, n) \in Nat
                              /\ Begin(d, f, n) < EndOf(d, n)
         /\ \A i, j \in f .. l : i < j => EndOf(d, i) <= Begin(d, f, j)
         /\ \A n \in a .. b : n # b => EndOf(d, n) = Begin(d, f, n + 1)
         /\ EndOf(d, b) <= Top /\ EndOf(d, b) <= d.leadout /\ Top \in Nat /\ d.leadout \in Nat
<1>  DEFINE T == d.tracks
<1>1. /\ f \in 1 .. 99 /\ l \in 1 .. 99 /\ f <= l /\ k \in 1 .. 99 /\ Top \in Nat
      /\ DOMAIN T = f .. l /\ T[l].session = k /\ d.leadout = d.ends[k] /\ r \in 1 .. k
      /\ a \in f .. l /\ b \in f .. l /\ a <= b /\ \A n \in a .. b : T[n].session = r
  BY DEF Run, Shape
<1>2. /\ a \in Nat /\ b \in Nat /\ k \in Nat /\ a .. b \subseteq f .. l /\ l \in f .. l /\ f \in f .. l
      /\ b \in a .. b /\ k \in 1 .. k
  <2>0. f \in 1 .. 99 /\ l \in 1 .. 99 /\ k \in 1 .. 99
    BY <1>1, Zenon
  <2>1. f \in Nat /\ l \in Nat /\ k \in Nat
    BY <2>0
  <2>2. a \in Nat /\ b \in Nat
    BY <1>1, <2>1
  <2>3. a .. b \subseteq f .. l
    BY <1>1, <2>1, <2>2
  <2>4. l \in f .. l /\ f \in f .. l
    BY <1>1, <2>1
  <2>5. b \in a .. b
    BY <1>1, <2>2
  <2>6. k \in 1 .. k
    BY <1>1, <2>1
  <2>  QED
    BY <2>1, <2>2, <2>3, <2>4, <2>5, <2>6
<1>3. /\ \A n \in f .. l : n \in Nat
      /\ \A n \in f .. l : T[n].lba \in Nat /\ T[n].session \in 1 .. k
      /\ \A s \in 1 .. k : d.ends[s] \in Nat /\ d.ends[s] <= Top
  <2>1. Shape(d, f, l, k)
    BY DEF Run
  <2>2. \A n \in f .. l : n \in Nat
    <3>1. f \in 1 .. 99 /\ l \in 1 .. 99
      BY <1>1, Zenon
    <3>  QED
      BY <3>1
  <2>  QED
    BY <2>1, <2>2, HonestTracks
<1>4. \A n \in f .. l : /\ EndOf(d, n) \in Nat /\ T[n].lba < EndOf(d, n) /\ EndOf(d, n) <= Top
                        /\ EndOf(d, n) <= d.ends[T[n].session]
                        /\ \A j \in f .. l : n < j => EndOf(d, n) <= T[j].lba
  <2>1. Shape(d, f, l, k)
    BY DEF Run
  <2>  QED
    BY <2>1, HonestEnds
<1>5. \A n \in f .. l : T[n].lba < d.ends[T[n].session]
  <2>1. Shape(d, f, l, k)
    BY DEF Run
  <2>  QED
    BY <2>1, HonestOrder
<1>  HIDE DEF T
<1>6. \A n \in f .. l : Begin(d, f, n) \in Nat /\ Begin(d, f, n) <= T[n].lba
                        /\ (n # f => Begin(d, f, n) = T[n].lba)
  BY <1>3 DEF Begin, T
<1>7. \A n \in f .. l : Begin(d, f, n) < EndOf(d, n)
  BY <1>3, <1>4, <1>6
<1>8. \A i, j \in f .. l : i < j => EndOf(d, i) <= Begin(d, f, j)
  <2>1. ASSUME NEW i \in f .. l, NEW j \in f .. l, i < j PROVE EndOf(d, i) <= Begin(d, f, j)
    <3>1. j # f
      BY <1>1, <1>3, <2>1
    <3>  QED
      BY <1>4, <1>6, <2>1, <3>1
  <2>  QED
    BY <2>1
<1>9. ASSUME NEW n \in a .. b, n # b PROVE EndOf(d, n) = Begin(d, f, n + 1)
  <2>1. n + 1 \in a .. b /\ n + 1 \in f .. l /\ n \in f .. l
    BY <1>1, <1>2, <1>9
  <2>2. T[n].session = r /\ T[n + 1].session = r
    BY <1>1, <2>1
  <2>3. n + 1 \in TracksOf(d, T[n].session)
    BY <1>1, <2>1, <2>2 DEF TracksOf, T
  <2>4. EndOf(d, n) = T[n + 1].lba
    BY <2>3 DEF EndOf, T
  <2>5. n + 1 # f
    BY <1>1, <1>2, <1>9, <2>1
  <2>  QED
    BY <1>6, <2>1, <2>4, <2>5
<1>10. EndOf(d, b) <= d.leadout /\ d.leadout \in Nat
  <2>1. T[b].session = r /\ k \in 1 .. k /\ d.leadout \in Nat
    <3>1. b \in a .. b /\ k \in 1 .. k
      BY <1>2
    <3>  QED
      BY <1>1, <1>3, <3>1
  <2>2. CASE r = k
    BY <1>1, <1>4, <2>1, <2>2
  <2>3. CASE r # k
    <3>1. b # l
      BY <1>1, <2>1, <2>3
    <3>2. b < l
      BY <1>1, <1>2, <3>1
    <3>3. EndOf(d, b) <= T[l].lba /\ T[l].lba < d.ends[k]
      BY <1>1, <1>2, <1>4, <1>5, <3>2
    <3>4. T[l].lba \in Nat /\ EndOf(d, b) \in Nat
      BY <1>1, <1>2, <1>3, <1>4
    <3>  QED
      BY <1>1, <2>1, <3>3, <3>4
  <2>  QED
    BY <2>2, <2>3
<1>11. EndOf(d, b) <= Top
  BY <1>1, <1>4
<1>  QED
  BY <1>1, <1>2, <1>3, <1>4, <1>6, <1>7, <1>8, <1>9, <1>10, <1>11

\* Its tracks, and no others, own the sectors from its beginning to its end.
LEMMA RunOwns ==
  ASSUME NEW d, IsHonest(d), NEW f, NEW l, NEW k, NEW r, NEW a, NEW b, Run(d, f, l, k, r, a, b)
  PROVE  /\ \A q \in Begin(d, f, a) .. EndOf(d, b) - 1 :
              TracksAt(d, q) # {} /\ TracksAt(d, q) \subseteq a .. b
         /\ \A q \in Nat : TracksAt(d, q) \cap (a .. b) # {} =>
              q \in Begin(d, f, a) .. EndOf(d, b) - 1
         /\ Begin(d, f, a) \in Nat /\ EndOf(d, b) \in Nat /\ Begin(d, f, a) < EndOf(d, b)
<1>1. /\ a \in Nat /\ b \in Nat /\ a .. b \subseteq f .. l
      /\ \A n \in f .. l : n \in Nat /\ Begin(d, f, n) \in Nat /\ EndOf(d, n) \in Nat
                           /\ Begin(d, f, n) < EndOf(d, n)
      /\ \A i, j \in f .. l : i < j => EndOf(d, i) <= Begin(d, f, j)
      /\ \A n \in a .. b : n # b => EndOf(d, n) = Begin(d, f, n + 1)
  BY RunEnds
<1>2. a \in f .. l /\ b \in f .. l /\ a <= b /\ a \in a .. b /\ b \in a .. b
  <2>1. a \in f .. l /\ b \in f .. l /\ a <= b
    BY DEF Run
  <2>  QED
    BY <1>1, <2>1
<1>3. \A q : TracksAt(d, q) = {n \in f .. l : Begin(d, f, n) <= q /\ q < EndOf(d, n)}
  <2>1. Shape(d, f, l, k)
    BY DEF Run
  <2>  QED
    BY <2>1, TracksAtIs
<1>4. Begin(d, f, a) \in Nat /\ EndOf(d, b) \in Nat /\ Begin(d, f, a) < EndOf(d, b)
  <2>1. a = b \/ a < b
    BY <1>1, <1>2
  <2>  QED
    BY <1>1, <1>2, <2>1
<1>5. ASSUME NEW q \in Begin(d, f, a) .. EndOf(d, b) - 1
      PROVE  TracksAt(d, q) # {} /\ TracksAt(d, q) \subseteq a .. b
  <2>1. q \in Nat /\ Begin(d, f, a) <= q /\ q < EndOf(d, b)
    BY <1>4
  <2>2. ASSUME NEW n \in TracksAt(d, q) PROVE n \in a .. b
    <3>1. n \in f .. l /\ n \in Nat /\ Begin(d, f, n) <= q /\ q < EndOf(d, n)
      BY <1>1, <1>3
    <3>2. ~ (n < a)
      BY <1>1, <1>2, <2>1, <3>1
    <3>3. ~ (b < n)
      BY <1>1, <1>2, <2>1, <3>1
    <3>  QED
      BY <1>1, <3>1, <3>2, <3>3
  <2>  DEFINE I == {n \in a .. b : Begin(d, f, n) <= q}
              h == Highest(I)
  <2>3. h \in I /\ \A n \in I : n <= h
    <3>1. I \in SUBSET Nat /\ I # {} /\ \A n \in I : n <= b
      BY <1>1, <1>2, <2>1
    <3>  HIDE DEF I
    <3>  QED
      BY <1>1, <3>1, HighestIs
  <2>  HIDE DEF h
  <2>4. h \in a .. b /\ h \in f .. l /\ h \in Nat /\ Begin(d, f, h) <= q
    BY <1>1, <2>3
  <2>5. q < EndOf(d, h)
    <3>1. SUFFICES ASSUME ~ (q < EndOf(d, h)) PROVE FALSE
      OBVIOUS
    <3>2. h # b
      BY <2>1, <3>1
    <3>3. EndOf(d, h) = Begin(d, f, h + 1) /\ EndOf(d, h) \in Nat
      BY <1>1, <2>4, <3>2
    <3>4. h + 1 \in a .. b
      BY <1>1, <2>4, <3>2
    <3>5. h + 1 \in I
      BY <2>1, <3>1, <3>3, <3>4
    <3>  QED
      BY <2>3, <2>4, <3>5
  <2>6. h \in TracksAt(d, q)
    BY <1>3, <2>4, <2>5
  <2>  QED
    BY <2>2, <2>6
<1>6. ASSUME NEW q \in Nat, TracksAt(d, q) \cap (a .. b) # {}
      PROVE  q \in Begin(d, f, a) .. EndOf(d, b) - 1
  <2>1. PICK n \in a .. b : n \in f .. l /\ Begin(d, f, n) <= q /\ q < EndOf(d, n)
    BY <1>3, <1>6
  <2>2. n \in Nat /\ Begin(d, f, n) \in Nat /\ EndOf(d, n) \in Nat
    BY <1>1, <2>1
  <2>3. Begin(d, f, a) <= Begin(d, f, n)
    <3>1. n = a \/ a < n
      BY <1>1, <2>1, <2>2
    <3>2. Begin(d, f, a) < EndOf(d, a) /\ EndOf(d, a) \in Nat
      BY <1>1, <1>2
    <3>  QED
      BY <1>1, <1>2, <1>4, <2>1, <2>2, <3>1, <3>2
  <2>4. EndOf(d, n) <= EndOf(d, b)
    <3>1. n = b \/ n < b
      BY <1>1, <2>1, <2>2
    <3>2. Begin(d, f, b) < EndOf(d, b) /\ Begin(d, f, b) \in Nat
      BY <1>1, <1>2
    <3>  QED
      BY <1>1, <1>2, <1>4, <2>1, <2>2, <3>1, <3>2
  <2>  QED
    BY <1>4, <2>1, <2>2, <2>3, <2>4
<1>  QED
  BY <1>4, <1>5, <1>6

\* All of the audio, where it is one run and nothing comes after it in its session.
Heard(d, f, l, k, r, A) ==
  /\ Shape(d, f, l, k) /\ r \in 1 .. k
  /\ A = {n \in f .. l : d.tracks[n].audio} /\ A # {}
  /\ \A n \in A : d.tracks[n].session = r
  /\ \A n \in A : \A j \in TracksOf(d, r) : j > n => d.tracks[j].audio

\* All of the audio is then a run, from its lowest track to its highest.
LEMMA HeardIsARun ==
  ASSUME NEW d, IsHonest(d), NEW f, NEW l, NEW k, NEW r, NEW A, Heard(d, f, l, k, r, A)
  PROVE  /\ Run(d, f, l, k, r, Lowest(A), Highest(A)) /\ A = Lowest(A) .. Highest(A)
         /\ Lowest(A) \in A /\ Highest(A) \in A
<1>  DEFINE T == d.tracks
            a == Lowest(A)
            b == Highest(A)
<1>1. /\ f \in 1 .. 99 /\ l \in 1 .. 99 /\ k \in 1 .. 99 /\ DOMAIN T = f .. l
      /\ Shape(d, f, l, k) /\ r \in 1 .. k
  BY DEF Heard, Shape
<1>2. /\ A # {} /\ A \subseteq f .. l /\ \A n \in A : T[n].session = r /\ T[n].audio
      /\ \A n \in f .. l : T[n].audio => n \in A
      /\ \A n \in A : \A j \in TracksOf(d, r) : j > n => T[j].audio
  BY DEF Heard
<1>3. f .. l \subseteq Nat /\ \A n \in f .. l : n <= 99
  <2>1. f \in Nat /\ l \in Nat /\ l <= 99
    BY <1>1
  <2>  HIDE DEF a, b, T
  <2>2. ASSUME NEW n \in f .. l PROVE n \in Nat /\ n <= 99
    BY <2>1
  <2>  QED
    BY <2>2
<1>4. a \in A /\ \A n \in A : a <= n
  <2>1. A \in SUBSET Nat
    BY <1>2, <1>3
  <2>  QED
    BY <1>2, <2>1, LowestIs
<1>5. b \in A /\ \A n \in A : n <= b
  <2>1. A \in SUBSET Nat /\ 99 \in Nat /\ \A n \in A : n <= 99
    BY <1>2, <1>3
  <2>  QED
    BY <1>2, <2>1, HighestIs
<1>  HIDE DEF a, b, T
<1>6. a \in f .. l /\ b \in f .. l /\ a \in Nat /\ b \in Nat /\ a <= b
  BY <1>2, <1>3, <1>4, <1>5
<1>7. \A i, j \in f .. l : i < j => T[i].session <= T[j].session
  BY <1>1, HonestOrder DEF T
<1>8. \A n \in f .. l : T[n].session \in Nat
  <2>1. \A n \in f .. l : T[n].session \in 1 .. k
    BY <1>1, HonestTracks DEF T
  <2>2. 1 .. k \subseteq Nat
    BY <1>1
  <2>  QED
    BY <2>1, <2>2
<1>9. ASSUME NEW n \in a .. b PROVE T[n].session = r /\ n \in A
  <2>1. n \in f .. l /\ n \in Nat /\ a <= n /\ n <= b
    <3>1. n \in Nat /\ a <= n /\ n <= b
      BY <1>6
    <3>2. f \in Nat /\ l \in Nat
      BY <1>1
    <3>  QED
      BY <1>6, <3>1, <3>2
  <2>2. T[a].session = r /\ T[b].session = r
    BY <1>2, <1>4, <1>5
  <2>3. n = a \/ a < n
    BY <1>6, <2>1
  <2>4. n = b \/ n < b
    BY <1>6, <2>1
  <2>5. T[n].session \in Nat /\ r \in Nat
    BY <1>6, <1>8, <2>1, <2>2
  <2>6. r <= T[n].session /\ T[n].session <= r
    BY <1>6, <1>7, <2>1, <2>2, <2>3, <2>4, <2>5
  <2>7. T[n].session = r
    BY <2>5, <2>6
  <2>8. n \in TracksOf(d, r)
    BY <1>1, <2>1, <2>7 DEF TracksOf, T
  <2>9. n = a \/ n > a
    BY <1>6, <2>1
  <2>10. T[n].audio
    BY <1>2, <1>4, <2>8, <2>9
  <2>  QED
    BY <1>2, <2>1, <2>7, <2>10
<1>10. A = a .. b
  <2>1. ASSUME NEW n \in A PROVE n \in a .. b
    <3>1. n \in Nat /\ a <= n /\ n <= b
      BY <1>2, <1>3, <1>4, <1>5
    <3>  QED
      BY <1>6, <3>1
  <2>  QED
    BY <1>9, <2>1
<1>11. Run(d, f, l, k, r, a, b)
  BY <1>1, <1>6, <1>9 DEF Run, T
<1>  QED
  BY <1>4, <1>5, <1>10, <1>11 DEF a, b

\* The map finds that session,
LEMMA DefaultIsFound ==
  ASSUME NEW d, IsHonest(d), NEW f, NEW l, NEW k, NEW r, NEW A, Heard(d, f, l, k, r, A),
         NEW m, Faithful(d, m)
  PROVE  DefaultAudioSession(m) = r
<1>  DEFINE found == {s \in DOMAIN m.sessions : m.sessions[s].audio > 0}
            T == d.tracks
<1>1. /\ k \in 1 .. 99 /\ DOMAIN m.sessions = 1 .. k /\ r \in 1 .. k /\ DOMAIN T = f .. l
  BY DEF Heard, Shape, Faithful
<1>2. /\ A # {} /\ A \subseteq f .. l /\ \A n \in A : T[n].session = r /\ T[n].audio
      /\ \A n \in f .. l : T[n].audio => n \in A
  BY DEF Heard
<1>3. \A n \in f .. l : T[n].audio \in BOOLEAN
  BY HonestTracks DEF Heard
<1>4. \A s \in 1 .. k : m.sessions[s].audio > 0
                          <=> \E n \in f .. l : m.tracks[n].session = s /\ T[n].audio = TRUE
  BY <1>1 DEF Faithful, Describes
<1>5. \A n \in f .. l : m.tracks[n].session = T[n].session
  BY <1>1 DEF Faithful
<1>  HIDE DEF T
<1>6. \A s \in 1 .. k : (\E n \in f .. l : m.tracks[n].session = s /\ T[n].audio = TRUE) <=> s = r
  <2>1. ASSUME NEW s \in 1 .. k, NEW n \in f .. l, m.tracks[n].session = s, T[n].audio = TRUE
        PROVE  s = r
    BY <1>2, <1>5, <2>1
  <2>2. \E n \in f .. l : m.tracks[n].session = r /\ T[n].audio = TRUE
    <3>1. PICK n \in A : TRUE
      BY <1>2
    <3>2. n \in f .. l /\ T[n].session = r /\ T[n].audio
      BY <1>2
    <3>3. T[n].audio = TRUE
      BY <1>3, <3>2
    <3>  QED
      BY <1>5, <3>2, <3>3
  <2>  QED
    BY <2>1, <2>2
<1>7. found = {r}
  <2>1. \A s \in 1 .. k : m.sessions[s].audio > 0 <=> s = r
    BY <1>4, <1>6, Zenon
  <2>  QED
    BY <1>1, <2>1
<1>  HIDE DEF found
<1>8. Cardinality(found) = 1
  BY <1>7, FS_Singleton
<1>9. Lowest(found) = r
  <2>1. found \in SUBSET Nat /\ found # {} /\ r \in Nat
    BY <1>1, <1>7
  <2>2. Lowest(found) \in found
    BY <2>1, LowestIs
  <2>  QED
    BY <1>7, <2>2
<1>10. DefaultAudioSession(m) =
         CASE DOMAIN m.sessions = {}  -> -1
           [] found = {}              -> -2
           [] Cardinality(found) > 1  -> -3
           [] OTHER                   -> Lowest(found)
  BY Zenon DEF DefaultAudioSession, found
<1>11. ~ (DOMAIN m.sessions = {}) /\ ~ (found = {}) /\ ~ (Cardinality(found) > 1)
  BY <1>1, <1>7, <1>8
<1>  QED
  BY <1>9, <1>10, <1>11

\* and of its audio the extent.
LEMMA HeardExtent ==
  ASSUME NEW d, IsHonest(d), NEW f, NEW l, NEW k, NEW r, NEW A, Heard(d, f, l, k, r, A),
         NEW m, Faithful(d, m)
  PROVE  LET begin == Begin(d, f, Lowest(A))
         IN  SessionAudioRange(m, r) = Extent(begin, EndOf(d, Highest(A)) - begin)
<1>  DEFINE a == Lowest(A)
            b == Highest(A)
            T == d.tracks
            audio == {n \in InSession(m, r) : m.tracks[n].audio}
<1>1. a \in A /\ b \in A /\ a \in f .. l /\ b \in f .. l /\ Shape(d, f, l, k)
  BY HeardIsARun DEF Run
<1>2. /\ DOMAIN m.sessions = 1 .. k /\ r \in 1 .. k /\ DOMAIN T = f .. l /\ DOMAIN m.tracks = f .. l
  BY DEF Heard, Shape, Faithful, Describes
<1>3. /\ A # {} /\ A \subseteq f .. l /\ \A n \in A : T[n].session = r /\ T[n].audio
      /\ \A n \in f .. l : T[n].audio => n \in A
      /\ \A n \in A : \A j \in TracksOf(d, r) : j > n => T[j].audio
  BY DEF Heard
<1>4. \A n \in f .. l : m.tracks[n].session = T[n].session /\ m.tracks[n].audio = T[n].audio
  BY <1>2 DEF Faithful, Describes
<1>5. InSession(m, r) = TracksOf(d, r)
  BY <1>2, <1>4 DEF InSession, TracksOf
<1>6. audio = A
  BY <1>2, <1>3, <1>4 DEF InSession
<1>7. ~ \E n \in InSession(m, r) : ~ m.tracks[n].audio /\ n > Lowest(audio)
  <2>1. TracksOf(d, r) \subseteq f .. l
    BY <1>2 DEF TracksOf
  <2>2. \A n \in TracksOf(d, r) : n > a => m.tracks[n].audio
    BY <1>1, <1>3, <1>4, <2>1
  <2>  QED
    BY <1>5, <1>6, <2>2
<1>8. /\ Ends(m.tracks[b]) = EndOf(d, b) /\ Starts(m.tracks[a]) = Begin(d, f, a)
      /\ m.tracks[b].sectors # 0
  <2>1. /\ Ends(m.tracks[b]) = EndOf(d, b)
        /\ m.tracks[b].sectors \in Nat /\ m.tracks[b].sectors > 0
    BY <1>1, FaithfulGeometry
  <2>2. Starts(m.tracks[a]) = Begin(d, f, a)
    <3>1. Starts(m.tracks[a]) = IF a = f THEN 0 ELSE d.tracks[a].lba
      BY <1>1, FaithfulGeometry
    <3>  QED
      BY <3>1, Zenon DEF Begin
  <2>  HIDE DEF a, b
  <2>  QED
    BY <2>1, <2>2
<1>9. SessionAudioRange(m, r) =
        IF r \notin DOMAIN m.sessions \/ audio = {} THEN NoRange("notfound")
        ELSE IF \E n \in InSession(m, r) : ~ m.tracks[n].audio /\ n > Lowest(audio)
             THEN NoRange("unsupported")
             ELSE IF m.tracks[Highest(audio)].sectors = 0 THEN NoRange("short")
             ELSE Extent(Starts(m.tracks[Lowest(audio)]),
                         Ends(m.tracks[Highest(audio)]) - Starts(m.tracks[Lowest(audio)]))
  BY Zenon DEF SessionAudioRange
<1>10. r \in DOMAIN m.sessions
  BY <1>2
<1>  HIDE DEF audio, a, b
<1>11. Lowest(audio) = a /\ Highest(audio) = b
  BY <1>6 DEF a, b
<1>12. SessionAudioRange(m, r) = Extent(Starts(m.tracks[a]), Ends(m.tracks[b]) - Starts(m.tracks[a]))
  BY <1>3, <1>6, <1>7, <1>8, <1>9, <1>10, <1>11, Zenon
<1>13. SessionAudioRange(m, r) = Extent(Begin(d, f, a), EndOf(d, b) - Begin(d, f, a))
  BY <1>8, <1>12
<1>  QED
  BY <1>13 DEF a, b

\* So a caller that names nothing gets that audio, all of it and no more.
LEMMA DefaultIsHeard ==
  ASSUME NEW d, IsHonest(d), NEW f, NEW l, NEW k, NEW r, NEW A, Heard(d, f, l, k, r, A),
         NEW m, Faithful(d, m)
  PROVE  LET x == PlanReadRange(m, NoSpec) IN
         /\ x.reason = "ok"
         /\ x.lba .. x.lba + x.count - 1 =
              {p \in 0 .. Top - 1 : \E n \in TracksAt(d, p) : n \in A}
<1>  DEFINE a == Lowest(A)
            b == Highest(A)
            from == Begin(d, f, a)
            to == EndOf(d, b)
            ext == Extent(from, to - from)
            w == Within(NoSpec, ext)
            x == PlanReadRange(m, NoSpec)
<1>1. Run(d, f, l, k, r, a, b) /\ A = a .. b
  BY HeardIsARun
<1>2. Shape(d, f, l, k) /\ r \in 1 .. k /\ k \in 1 .. 99
  BY DEF Heard, Shape
<1>3. /\ \A q \in from .. to - 1 : TracksAt(d, q) # {} /\ TracksAt(d, q) \subseteq A
      /\ \A q \in Nat : TracksAt(d, q) \cap A # {} => q \in from .. to - 1
      /\ from \in Nat /\ to \in Nat /\ from < to
  <2>1. /\ \A q \in from .. to - 1 : TracksAt(d, q) # {} /\ TracksAt(d, q) \subseteq a .. b
        /\ \A q \in Nat : TracksAt(d, q) \cap (a .. b) # {} => q \in from .. to - 1
        /\ from \in Nat /\ to \in Nat /\ from < to
    BY <1>1, RunOwns
  <2>  HIDE DEF a, b, from, to
  <2>  QED
    BY <1>1, <2>1
<1>4. to <= Top /\ to <= d.leadout /\ Top \in Nat /\ d.leadout \in Nat
  BY <1>1, RunEnds
<1>5. SessionAudioRange(m, r) = ext
  BY HeardExtent
<1>6. DefaultAudioSession(m) = r
  BY DefaultIsFound
<1>7. r \in Nat /\ r > 0
  BY <1>2
<1>  HIDE DEF from, to
<1>8. ext.err = "ok" /\ ext.lba = from /\ ext.count = to - from
  BY DEF Extent
<1>  HIDE DEF ext
<1>9. w.start = from /\ w.count = to - from
  <2>1. NoSpec.start = -1 /\ NoSpec.count = -1
    BY DEF NoSpec
  <2>2. ~ (-1 >= 0) /\ -1 < 0
    OBVIOUS
  <2>3. w = [start |-> from, count |-> ext.lba + ext.count - from]
    BY <1>8, <2>1, <2>2 DEF Within
  <2>  HIDE DEF w
  <2>4. w.start = from /\ w.count = ext.lba + ext.count - from
    BY <2>3
  <2>  QED
    BY <1>3, <1>8, <2>4
<1>10. x = PlanSession(m, NoSpec, r)
  <2>1. NoSpec.session = -1 /\ NoSpec.start = -1 /\ NoSpec.count = -1 /\ NoSpec.first = 0
    BY DEF NoSpec
  <2>2. ~ (NoSpec.first > 0) /\ NoSpec.first = 0
    BY <2>1
  <2>3. NoSpec.session < 0 /\ NoSpec.start < 0 /\ NoSpec.count < 0
    BY <2>1
  <2>4. r # -3 /\ r # -2 /\ r > 0 /\ r % 256 = r
    BY <1>2, <1>7
  <2>5. ~ BadSpec(NoSpec)
    BY <2>1 DEF BadSpec
  <2>6. x = PlanNamed(m, NoSpec)
    BY <2>5 DEF PlanReadRange
  <2>7. PlanNamed(m, NoSpec) =
          CASE NoSpec.first > 0 -> PlanTracks(m, NoSpec)
            [] NoSpec.first = 0 /\ TRUE /\ r = -3 -> Refused("multiple_audio_sessions")
            [] NoSpec.first = 0 /\ TRUE /\ r = -2 -> Refused("no_audio_session")
            [] OTHER -> IF r > 0 THEN PlanSession(m, NoSpec, r % 256) ELSE PlanSectors(m, NoSpec)
    BY <1>6, <2>3, <2>4, Zenon DEF PlanNamed
  <2>  HIDE DEF x
  <2>8. PlanNamed(m, NoSpec) = PlanSession(m, NoSpec, r % 256)
    BY <2>2, <2>4, <2>7, Zenon
  <2>  QED
    BY <2>4, <2>6, <2>8, Zenon
<1>11. x = Vetted(m, NoSpec, w)
  <2>1. PlanSession(m, NoSpec, r) =
          CASE ext.err = "unsupported" -> Refused("session_split_by_data")
            [] ext.err \in {"notfound", "short"} -> Refused("session_not_found")
            [] ext.err = "ok"          -> Vetted(m, NoSpec, w)
    BY <1>5, Zenon DEF PlanSession
  <2>  HIDE DEF x, w
  <2>  QED
    BY <1>8, <1>10, <2>1
<1>12. CheckAudioRange(m, from, to - from) = "ok"
  <2>1. m.anomalies \cap Untrusted = {}
    BY <1>2, HonestIsRegular
  <2>2. m.leadout = d.leadout /\ DOMAIN m.sessions = 1 .. k /\ Extents(m) /\ DOMAIN m.tracks = f .. l
    BY <1>2 DEF Faithful, Describes, Shape
  <2>3. ~ (to - from = 0) /\ to - from \in Nat /\ from + (to - from) = to
    BY <1>3
  <2>4. ~ (from >= m.leadout \/ to - from > m.leadout - from)
    BY <1>3, <1>4, <2>2
  <2>5. ~ (DOMAIN m.sessions = {})
    BY <1>2, <2>2
  <2>6. Walk(m, to)[<<from, 0>>] = "ok"
    <3>1. \A n \in A : m.tracks[n].audio /\ m.tracks[n].session = r
      <4>1. \A n \in A : n \in f .. l /\ d.tracks[n].session = r /\ d.tracks[n].audio
        BY DEF Heard
      <4>2. \A n \in f .. l : m.tracks[n].session = d.tracks[n].session
                              /\ m.tracks[n].audio = d.tracks[n].audio
        BY <1>2 DEF Faithful, Describes, Shape
      <4>  QED
        BY <4>1, <4>2
    <3>2. \A q : Owners(m, q) = TracksAt(d, q)
      BY <1>2, OwnersAreTracksAt
    <3>3. \A q \in from .. to - 1 :
            Owners(m, q) # {} /\ \A n \in Owners(m, q) : m.tracks[n].audio /\ m.tracks[n].session = r
      BY <1>3, <3>1, <3>2
    <3>  QED
      BY <1>3, <1>7, <2>2, <3>3, WalkIsWhole
  <2>7. CheckAudioRange(m, from, to - from) =
          CASE to - from = 0                                      -> "empty"
            [] m.anomalies \cap Untrusted # {}                    -> "toc_untrusted"
            [] from >= m.leadout \/ to - from > m.leadout - from  -> "beyond_leadout"
            [] DOMAIN m.sessions = {} /\ m.total > 1              -> "session_unmapped"
            [] DOMAIN m.sessions = {} /\ (\E n \in DOMAIN m.tracks : ~m.tracks[n].audio)
                                                                  -> "no_session_info"
            [] OTHER                                              -> Walk(m, to)[<<from, 0>>]
    BY <2>3, Zenon DEF CheckAudioRange
  <2>  QED
    BY <2>1, <2>3, <2>4, <2>5, <2>6, <2>7, Zenon
<1>13. x = [reason |-> "ok", lba |-> from, count |-> to - from]
  <2>1. ~ (to - from <= 0)
    BY <1>3
  <2>  HIDE DEF x, w
  <2>  QED
    BY <1>9, <1>11, <1>12, <2>1, Zenon DEF Vetted
<1>14. x.reason = "ok" /\ x.lba = from /\ x.count = to - from
  <2>  HIDE DEF x
  <2>  QED
    BY <1>13
<1>15. x.lba .. x.lba + x.count - 1 = from .. to - 1
  <2>1. from + (to - from) - 1 = to - 1
    BY <1>3
  <2>  HIDE DEF x
  <2>2. x.lba + x.count - 1 = from + (to - from) - 1
    BY <1>14
  <2>  QED
    BY <1>14, <2>1, <2>2
<1>16. from .. to - 1 = {p \in 0 .. Top - 1 : \E n \in TracksAt(d, p) : n \in A}
  <2>1. ASSUME NEW q \in from .. to - 1
        PROVE  q \in 0 .. Top - 1 /\ \E n \in TracksAt(d, q) : n \in A
    <3>1. q \in 0 .. Top - 1
      BY <1>3, <1>4
    <3>  QED
      BY <1>3, <3>1
  <2>2. ASSUME NEW q \in 0 .. Top - 1, \E n \in TracksAt(d, q) : n \in A
        PROVE  q \in from .. to - 1
    <3>1. q \in Nat
      BY <1>4
    <3>  QED
      BY <1>3, <2>2, <3>1
  <2>  QED
    BY <2>1, <2>2
<1>  QED
  BY <1>14, <1>15, <1>16 DEF x

------------------------------------------------------------------------------
(* The specification.  The map is what some answer of the drive makes of the   *)
(* disc, and the plan is the map's for what the caller asked.                  *)

Mapped == \E full \in disc.full, count \in disc.counts :
            map = ReadTocSrc(full, disc.tracks, disc.leadout, count)

IInv ==
  /\ disc \in Discs
  /\ map = NoMap \/ Mapped
  /\ \/ plan.reason = "none"
     \/ map.ok /\ disc.honest /\ spec \in Specs /\ plan = PlanReadRange(map, spec)

\* At the start.
LEMMA InitInv == Init => IInv
  BY DEF Init, IInv, NoPlan

\* A map is made once, and of one disc.
LEMMA ReadTocInv == ASSUME IInv, ReadToc PROVE IInv'
<1>1. disc' = disc /\ spec' = spec /\ plan' = plan /\ ~ map.ok
  BY DEF ReadToc
<1>2. Mapped'
  BY <1>1 DEF ReadToc, Mapped
<1>3. plan.reason = "none" /\ disc \in Discs
  BY <1>1 DEF IInv
<1>  QED
  BY <1>1, <1>2, <1>3 DEF IInv

\* A plan is made of the map there is.
LEMMA PlanReadInv == ASSUME IInv, PlanRead PROVE IInv'
<1>1. /\ disc' = disc /\ map' = map /\ map.ok /\ disc.honest
      /\ spec' \in Specs /\ plan' = PlanReadRange(map, spec')
  BY DEF PlanRead
<1>2. disc \in Discs /\ (map = NoMap \/ Mapped) /\ (Mapped <=> Mapped')
  BY <1>1 DEF IInv, Mapped
<1>3. plan' = PlanReadRange(map', spec')
  BY <1>1
<1>  QED
  BY <1>1, <1>2, <1>3, Zenon DEF IInv

\* Rest keeps the invariant.
LEMMA StutterInv == ASSUME IInv, UNCHANGED vars PROVE IInv'
<1>1. disc' = disc /\ map' = map /\ spec' = spec /\ plan' = plan
  BY DEF vars
<1>2. PlanReadRange(map', spec') = PlanReadRange(map, spec) /\ (Mapped <=> Mapped')
  BY <1>1 DEF Mapped
<1>  QED
  BY <1>1, <1>2, Zenon DEF IInv

\* Every step keeps the invariant.
LEMMA NextInv == IInv /\ [Next]_vars => IInv'
  BY ReadTocInv, PlanReadInv, StutterInv DEF Next

\* A map was made of the disc.
LEMMA OkIsMapped == ASSUME IInv, map.ok PROVE Mapped
  BY DEF IInv, NoMap

\* What an honest disc's map can be.
LEMMA HonestlyMapped ==
  ASSUME DiscsAssumption, IInv, map.ok, disc.honest
  PROVE  /\ IsHonest(disc)
         /\ \E f, l, k \in 1 .. 99 : Shape(disc, f, l, k) /\ (Faithful(disc, map) \/ Sessionless(disc, map))
<1>1. Mapped /\ disc \in Discs
  BY OkIsMapped DEF IInv
<1>2. IsHonest(disc) /\ Top \in Nat
  BY <1>1, Zenon DEF DiscsAssumption
<1>3. PICK f, l, k \in 1 .. 99 : Shape(disc, f, l, k)
  BY <1>2, HonestShape
<1>4. PICK full \in disc.full, count \in disc.counts :
        map = ReadTocSrc(full, disc.tracks, disc.leadout, count)
  BY <1>1 DEF Mapped
<1>5. Faithful(disc, map) \/ Sessionless(disc, map)
  BY <1>2, <1>3, <1>4, HonestMap, Zenon
<1>  QED
  BY <1>2, <1>3, <1>5

\* The map of an honest disc is the disc.
LEMMA InvIsTheDisc == ASSUME DiscsAssumption, IInv PROVE MapIsTheDisc
<1>1. SUFFICES ASSUME map.ok, disc.honest, DOMAIN map.sessions # {}
               PROVE  /\ map.anomalies = {}
                      /\ \A p \in 0 .. Top - 1 : Owners(map, p) = TracksAt(disc, p)
                      /\ \A n \in DOMAIN map.tracks : map.tracks[n].session = disc.tracks[n].session
  BY DEF MapIsTheDisc
<1>2. IsHonest(disc)
  BY <1>1, HonestlyMapped
<1>3. PICK f, l, k \in 1 .. 99 : Shape(disc, f, l, k) /\ (Faithful(disc, map) \/ Sessionless(disc, map))
  BY <1>1, HonestlyMapped
<1>4. Faithful(disc, map)
  BY <1>1, <1>3 DEF Sessionless
<1>5. map.anomalies = {}
  BY <1>2, <1>3, <1>4, HonestIsRegular
<1>6. \A p \in 0 .. Top - 1 : Owners(map, p) = TracksAt(disc, p)
  BY <1>2, <1>3, <1>4, OwnersAreTracksAt
<1>7. \A n \in DOMAIN map.tracks : map.tracks[n].session = disc.tracks[n].session
  BY <1>4 DEF Faithful, Describes
<1>  QED
  BY <1>5, <1>6, <1>7

\* What callers name has the types a caller's spec has.
LEMMA SpecsAsk == ASSUME DiscsAssumption, NEW sp \in Specs PROVE Asks(sp)
<1>1. sp \in [start : Int, count : Int, session : Int, first : Int, last : Int, force : BOOLEAN]
  BY DEF DiscsAssumption
<1>  QED
  BY <1>1 DEF Asks

\* What is planned of an honest disc is audio of one session.
LEMMA InvIsAudio == ASSUME DiscsAssumption, IInv PROVE RangeIsAudio
<1>1. SUFFICES ASSUME plan.reason = "ok", ~ spec.force, ~ SeamsUnknown
               PROVE  \E s \in DOMAIN disc.ends : \A p \in plan.lba .. plan.lba + plan.count - 1 :
                        \E n \in TracksAt(disc, p) : disc.tracks[n].audio /\ disc.tracks[n].session = s
  BY DEF RangeIsAudio
<1>2. map.ok /\ disc.honest /\ spec \in Specs /\ plan = PlanReadRange(map, spec)
  BY <1>1 DEF IInv
<1>3. IsHonest(disc) /\ Asks(spec)
  BY <1>2, HonestlyMapped, SpecsAsk
<1>4. PICK f, l, k \in 1 .. 99 : Shape(disc, f, l, k) /\ (Faithful(disc, map) \/ Sessionless(disc, map))
  BY <1>2, HonestlyMapped
<1>5. Describes(map, disc.tracks)
  BY <1>4 DEF Faithful, Sessionless
<1>6. Extents(map) /\ DOMAIN map.tracks = DOMAIN disc.tracks
      /\ \A n \in DOMAIN disc.tracks : map.tracks[n].audio = disc.tracks[n].audio
  BY <1>5 DEF Describes
<1>7. Passed(map, spec, plan)
  BY <1>1, <1>2, <1>3, <1>6, PlanIsVetted
<1>  DEFINE lba == plan.lba
            count == plan.count
<1>8. lba \in Nat /\ count \in Nat /\ count > 0 /\ CheckAudioRange(map, lba, count) = "ok"
  BY <1>1, <1>7 DEF Passed
<1>  HIDE DEF lba, count
<1>9. ~ (DOMAIN map.sessions = {} /\ map.total > 1)
  BY <1>6, <1>8, GuardIsSound
<1>10. Faithful(disc, map)
  BY <1>1, <1>4, <1>9 DEF Sessionless, SeamsUnknown
<1>11. \A n \in DOMAIN map.tracks :
         map.tracks[n].session = disc.tracks[n].session /\ map.tracks[n].session \in 1 .. k
  <2>1. DOMAIN disc.tracks = f .. l /\ \A n \in f .. l : disc.tracks[n].session \in 1 .. k
    BY <1>3, <1>4, HonestTracks DEF Shape
  <2>  QED
    BY <1>6, <1>10, <2>1 DEF Faithful
<1>12. \A n \in DOMAIN map.tracks : map.tracks[n].session # 0
  BY <1>11
<1>13. PICK n \in DOMAIN map.tracks : \A q \in lba .. lba + count - 1 :
         \E j \in Owners(map, q) : map.tracks[j].audio /\ map.tracks[j].session = map.tracks[n].session
  BY <1>6, <1>8, <1>12, GuardKeepsToASession
<1>14. map.tracks[n].session \in DOMAIN disc.ends
  BY <1>4, <1>11, <1>13 DEF Shape
<1>15. ASSUME NEW q \in lba .. lba + count - 1
       PROVE  \E j \in TracksAt(disc, q) :
                disc.tracks[j].audio /\ disc.tracks[j].session = map.tracks[n].session
  <2>1. PICK j \in Owners(map, q) : map.tracks[j].audio /\ map.tracks[j].session = map.tracks[n].session
    BY <1>13, <1>15
  <2>2. j \in TracksAt(disc, q)
    BY <1>3, <1>4, <1>10, <2>1, OwnersAreTracksAt
  <2>3. j \in DOMAIN map.tracks
    BY <2>1 DEF Owners
  <2>  QED
    BY <1>6, <1>11, <2>1, <2>2, <2>3
<1>16. \E s \in DOMAIN disc.ends : \A p \in lba .. lba + count - 1 :
         \E j \in TracksAt(disc, p) : disc.tracks[j].audio /\ disc.tracks[j].session = s
  BY <1>14, <1>15, Zenon
<1>  QED
  BY <1>16 DEF lba, count

\* However a lead-in lies, no data track is behind what the guard accepts.
LEMMA InvHidesNothing == ASSUME DiscsAssumption, IInv PROVE NoHiddenDataTrack
<1>1. SUFFICES ASSUME map.ok, ~ disc.honest, ~ OnlyAPregap(map),
                      NEW p \in 0 .. Top - 1, NEW count \in 1 .. Top,
                      CheckAudioRange(map, p, count) = "ok",
                      NEW n \in DOMAIN disc.tracks, NEW q \in p .. p + count - 1,
                      disc.tracks[n].lba <= q,
                      \A k \in DOMAIN disc.tracks :
                        disc.tracks[k].lba <= q => disc.tracks[k].lba <= disc.tracks[n].lba
               PROVE  disc.tracks[n].audio
  BY DEF NoHiddenDataTrack, NothingHidden
<1>2. Mapped /\ disc \in Discs
  BY <1>1, OkIsMapped DEF IInv
<1>3. IsLying(disc) /\ Top \in Nat
  BY <1>1, <1>2, Zenon DEF DiscsAssumption
<1>4. PICK full \in disc.full, c \in disc.counts :
        map = ReadTocSrc(full, disc.tracks, disc.leadout, c)
  BY <1>2 DEF Mapped
<1>5. Describes(map, disc.tracks) /\ Apart(map)
  BY <1>3, <1>4, LyingMap, Zenon
<1>6. /\ Extents(map) /\ DOMAIN map.tracks = DOMAIN disc.tracks
      /\ \A k \in DOMAIN disc.tracks : /\ map.tracks[k].lba = disc.tracks[k].lba
                                       /\ map.tracks[k].audio = disc.tracks[k].audio
  BY <1>5 DEF Describes
<1>7. p \in Nat /\ count \in Nat /\ count > 0
  BY <1>3
<1>8. n \in DOMAIN map.tracks /\ map.tracks[n].lba <= q
      /\ \A k \in DOMAIN map.tracks : map.tracks[k].lba <= q => map.tracks[k].lba <= map.tracks[n].lba
  BY <1>1, <1>6
<1>9. map.tracks[n].audio
  BY <1>1, <1>5, <1>6, <1>7, <1>8, NothingIsHidden
<1>  QED
  BY <1>6, <1>9

\* Where one session's audio is all there is to hear, it is what a caller gets who
\* names nothing.
LEMMA InvIsTheAudio == ASSUME DiscsAssumption, IInv PROVE DefaultIsTheAudio
<1>  DEFINE T == disc.tracks
            audio == {n \in DOMAIN T : T[n].audio}
<1>1. SUFFICES ASSUME plan.reason # "none", spec = NoSpec, DOMAIN map.sessions # {},
                      audio # {}, \A n, j \in audio : T[n].session = T[j].session,
                      \A n \in audio : \A j \in TracksOf(disc, T[n].session) : j > n => T[j].audio
               PROVE  /\ plan.reason = "ok"
                      /\ plan.lba .. plan.lba + plan.count - 1 =
                           {p \in 0 .. Top - 1 : \E n \in TracksAt(disc, p) : n \in audio}
  BY Zenon DEF DefaultIsTheAudio
<1>2. map.ok /\ disc.honest /\ plan = PlanReadRange(map, NoSpec)
  BY <1>1 DEF IInv
<1>3. IsHonest(disc)
  BY <1>2, HonestlyMapped
<1>4. PICK f, l, k \in 1 .. 99 : Shape(disc, f, l, k) /\ (Faithful(disc, map) \/ Sessionless(disc, map))
  BY <1>2, HonestlyMapped
<1>5. Faithful(disc, map)
  BY <1>1, <1>4 DEF Sessionless
<1>6. DOMAIN T = f .. l /\ \A n \in f .. l : T[n].session \in 1 .. k
  BY <1>3, <1>4, HonestTracks DEF Shape
<1>7. PICK x \in audio : TRUE
  BY <1>1
<1>8. T[x].session \in 1 .. k
  BY <1>6, <1>7
<1>9. \A n \in audio : T[n].session = T[x].session
  BY <1>1, <1>7
<1>10. audio = {n \in f .. l : disc.tracks[n].audio}
  BY <1>6
<1>11. \A n \in audio : disc.tracks[n].session = T[x].session
  BY <1>9
<1>12. \A n \in audio : \A j \in TracksOf(disc, T[x].session) : j > n => disc.tracks[j].audio
  <2>1. ASSUME NEW n \in audio, NEW j \in TracksOf(disc, T[x].session), j > n PROVE disc.tracks[j].audio
    <3>1. T[n].session = T[x].session
      BY <1>9
    <3>2. j \in TracksOf(disc, T[n].session)
      BY <2>1, <3>1
    <3>  QED
      BY <1>1, <2>1, <3>2
  <2>  QED
    BY <2>1
<1>13. Heard(disc, f, l, k, T[x].session, audio)
  <2>  HIDE DEF audio
  <2>  QED
    BY <1>1, <1>4, <1>8, <1>10, <1>11, <1>12 DEF Heard
<1>  HIDE DEF audio, T
<1>  QED
  BY <1>2, <1>3, <1>5, <1>13, DefaultIsHeard

\* toc.c, on the entries: "the lead-in may list points in any order".  From the lead-in
\* of any honest disc, in whatever order, the map has every sector in its own track and
\* session, nothing in a gap, and no anomaly.
THEOREM SpecMapIsTheDisc == ASSUME DiscsAssumption PROVE Spec => []MapIsTheDisc
<1>1. IInv => MapIsTheDisc
  BY InvIsTheDisc
<1>  QED
  BY <1>1, InitInv, NextInv, PTL DEF Spec

\* A range that is planned and not forced is audio of one session, sector by sector.
THEOREM SpecRangeIsAudio == ASSUME DiscsAssumption PROVE Spec => []RangeIsAudio
<1>1. IInv => RangeIsAudio
  BY InvIsAudio
<1>  QED
  BY <1>1, InitInv, NextInv, PTL DEF Spec

\* toc.c: "A data track hidden that way would be handed to the CD-DA read path as
\* audio".  Of no lead-in, but the kind AnomaliesAreHarmless is about.
THEOREM SpecNoHiddenDataTrack == ASSUME DiscsAssumption PROVE Spec => []NoHiddenDataTrack
<1>1. IInv => NoHiddenDataTrack
  BY InvHidesNothing
<1>  QED
  BY <1>1, InitInv, NextInv, PTL DEF Spec

\* session.c: "Every other ripper reads from 0 here".  A caller that names nothing gets
\* all of the audio, and no more.
THEOREM SpecDefaultIsTheAudio == ASSUME DiscsAssumption PROVE Spec => []DefaultIsTheAudio
<1>1. IInv => DefaultIsTheAudio
  BY InvIsTheAudio
<1>  QED
  BY <1>1, InitInv, NextInv, PTL DEF Spec

=============================================================================
