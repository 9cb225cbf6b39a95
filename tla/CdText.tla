------------------------------- MODULE CdText -------------------------------
(***************************************************************************)
(* CD-Text: the decoder (src/meta/cdtext.c), which tells whose string is   *)
(* whose from the packs that arrive, and the pass-through of a burn, which *)
(* checks the blob (cdtext_blob.c), arranges its packs in blocks           *)
(* (cdtext_encode.c) and fills the lead-in with them (burn.c).             *)
(*                                                                         *)
(* A string is a sequence of characters and a pack's payload a stretch of  *)
(* the strings of its type, each closed by a NUL.                          *)
(***************************************************************************)
EXTENDS Integers, Sequences, FiniteSets, SequencesExt

CONSTANTS
  Types,       \* of the packs that are decoded
  LastTrack,   \* 99; 0 is the album
  PayloadLen,  \* 12
  TextMax,     \* ACCUDISC_TEXT_MAX
  BlockPacks,  \* 4, the packs in a sector of R-W
  CdtChunk,    \* CDT_CHUNK
  Leadins,     \* sectors of lead-in a medium may have
  Discs        \* [texts, crc, foreign, shape, last]: see Author

VARIABLES
  disc, blob,  \* what was authored, and the packs that were read of it
  pc, i,
  asm,         \* for each type its struct assembler: [track, buf, fields]
  used, rc,
  info,        \* struct adsc_cdtext_info: [recomputed, size]
  scp, left,   \* the next block, the sectors of lead-in still to come
  leadin       \* the packs written into the lead-in

vars == <<disc, blob, pc, i, asm, used, rc, info, scp, left, leadin>>

Tracks == 0 .. LastTrack
NUL == "nul"
TAB == "tab"
Omitted == <<"omitted">>

------------------------------------------------------------------------------
(* The disc: for every type the strings of the tracks that have one, end to *)
(* end, cut into packs that say which string their first byte belongs to.   *)

Closed(str, t) == [k \in 1 .. Len(str) + 1 |-> [c |-> IF k <= Len(str) THEN str[k] ELSE NUL, of |-> t]]
Stream(texts) ==
  FlattenSeq([t \in 1 .. LastTrack + 1 |->
    IF texts[t - 1] = Omitted THEN << >> ELSE Closed(texts[t - 1], t - 1)])

PacksOf(type, s) ==
  [p \in 1 .. (Len(s) + PayloadLen - 1) \div PayloadLen |->
     LET from == (p - 1) * PayloadLen
     IN  [type |-> type, track |-> s[from + 1].of, v0 |-> TRUE,
          bytes |-> [k \in 1 .. PayloadLen |-> IF from + k <= Len(s) THEN s[from + k].c ELSE NUL]]]

\* The packs of the types in turn, packs of another language, and the sizes; each
\* with its check field good, zeroed by the drive, or damaged.
Author(d) ==
  LET size  == [type |-> "size", track |-> 0, v0 |-> TRUE, bytes |-> <<1, d.last>>]
      packs == FlattenSeq([k \in 1 .. Len(d.texts) |->
                 PacksOf(d.texts[k].type, Stream(d.texts[k].of))]) \o d.foreign \o <<size>>
  IN  [p \in DOMAIN packs |->
         packs[p] @@ [crc |-> IF p \in DOMAIN d.crc THEN d.crc[p] ELSE "good"]]

Init ==
  /\ disc \in Discs /\ blob = Author(disc)
  /\ pc = "decode" /\ i = 1
  /\ asm = [type \in Types |-> [track |-> -1, buf |-> << >>, fields |-> [t \in Tracks |-> << >>]]]
  /\ used = 0 /\ rc = "ok" /\ info = [recomputed |-> 0, size |-> << >>]
  /\ scp = 0 /\ left = 0 /\ leadin = << >>

------------------------------------------------------------------------------
(* accudisc_cdtext_decode.                                                 *)

\* A TAB alone stands for the previous track's string.
Committed(a) ==
  IF a.buf = <<TAB>> /\ a.track >= 1 THEN a.fields[a.track - 1] ELSE a.buf

\* put_char: a string is committed on its NUL, to the track it then belongs to, and
\* the next one is provisionally the next track's.
PutChar(a, c) ==
  IF c # NUL
  THEN IF Len(a.buf) < TextMax - 1 THEN [a EXCEPT !.buf = Append(@, c)] ELSE a
  ELSE [track  |-> a.track + 1, buf |-> << >>,
        fields |-> IF a.track \in Tracks THEN [a.fields EXCEPT ![a.track] = Committed(a)]
                                         ELSE a.fields]

\* Every pack says whose string is in progress at its first byte.
Resync_Bug(a, p) == IF a.track = -1 THEN [a EXCEPT !.track = p.track] ELSE a
Resync(a, p) == [a EXCEPT !.track = p.track]

Usable(p) == p.crc = "good" /\ p.v0 /\ p.type \in Types

DecodePack ==
  /\ pc = "decode" /\ i <= Len(blob)
  /\ i' = i + 1
  /\ LET p == blob[i] IN
     IF Usable(p)
     THEN asm' = [asm EXCEPT ![p.type] = FoldLeft(PutChar, Resync(@, p), p.bytes)] /\ used' = used + 1
     ELSE UNCHANGED <<asm, used>>
  /\ UNCHANGED <<disc, blob, pc, rc, info, scp, left, leadin>>

Decoded ==
  /\ pc = "decode" /\ i > Len(blob)
  /\ rc' = IF used = 0 THEN "short" ELSE "ok"
  /\ pc' = "decoded"
  /\ UNCHANGED <<disc, blob, i, asm, used, info, scp, left, leadin>>

------------------------------------------------------------------------------
(* adsc_cdtext_blob_validate.                                              *)

CallValidate ==
  /\ pc = "decoded"
  /\ i' = 1
  /\ IF disc.shape = "whole" THEN pc' = "validate" /\ rc' = "ok" ELSE pc' = "done" /\ rc' = "inval"
  /\ UNCHANGED <<disc, blob, asm, used, info, scp, left, leadin>>

\* A check field of zero is one the drive dropped; any other that is wrong is damage.
ValidatePack ==
  /\ pc = "validate" /\ i <= Len(blob)
  /\ LET p == blob[i] IN
     IF p.crc = "bad"
     THEN rc' = "crc" /\ pc' = "done" /\ UNCHANGED <<blob, i, info>>
     ELSE /\ blob' = [blob EXCEPT ![i].crc = "good"]
          /\ i' = i + 1
          /\ info' = [recomputed |-> info.recomputed + IF p.crc = "zero" THEN 1 ELSE 0,
                      size |-> IF info.size = << >> /\ p.type = "size" /\ p.v0 THEN p.bytes ELSE info.size]
          /\ UNCHANGED <<rc, pc>>
  /\ UNCHANGED <<disc, asm, used, scp, left, leadin>>

------------------------------------------------------------------------------
(* adsc_cdtext_encode_rw and write_cdtext_leadin.                          *)

Gcd4(n) == IF n % 4 = 0 THEN 4 ELSE IF n % 2 = 0 THEN 2 ELSE 1

\* The fewest blocks after which the ring of packs begins a block again.
BlockCount_Bug(n) == (n + BlockPacks - 1) \div BlockPacks
BlockCount(n) == n \div Gcd4(n)

Block(b, packs) ==
  [j \in 1 .. BlockPacks |-> packs[((BlockPacks * b + j - 1) % Len(packs)) + 1]]

BeginLeadin ==
  /\ pc = "validate" /\ i > Len(blob)
  /\ \E n \in Leadins :
       /\ left' = n
       /\ IF n = 0 THEN pc' = "done" /\ rc' = "inval" ELSE pc' = "leadin" /\ UNCHANGED rc
  /\ scp' = 0
  /\ UNCHANGED <<disc, blob, i, asm, used, info, leadin>>

\* One chunk of sectors; scp wraps at the end of the set.
WriteLeadin ==
  /\ pc = "leadin" /\ left > 0
  /\ LET n    == IF left < CdtChunk THEN left ELSE CdtChunk
         sent == [k \in 1 .. n |-> Block((scp + k - 1) % BlockCount(Len(blob)), blob)]
     IN  /\ leadin' = leadin \o FlattenSeq(sent)
         /\ scp' = (scp + n) % BlockCount(Len(blob))
         /\ left' = left - n
  /\ UNCHANGED <<disc, blob, pc, i, asm, used, rc, info>>

LeadinRefused ==
  /\ pc = "leadin" /\ left > 0
  /\ pc' = "done" /\ rc' = "sense"
  /\ UNCHANGED <<disc, blob, i, asm, used, info, scp, left, leadin>>

LeadinDone ==
  /\ pc = "leadin" /\ left = 0
  /\ pc' = "done"
  /\ UNCHANGED <<disc, blob, i, asm, used, rc, info, scp, left, leadin>>

Next ==
  \/ DecodePack \/ Decoded
  \/ CallValidate \/ ValidatePack
  \/ BeginLeadin \/ WriteLeadin \/ LeadinRefused \/ LeadinDone

Spec == Init /\ [][Next]_vars

------------------------------------------------------------------------------
(* Properties.                                                             *)

TypeOK ==
  /\ i \in 1 .. Len(blob) + 1 /\ rc \in {"ok", "short", "inval", "crc", "sense"}
  /\ \A type \in Types : \A t \in Tracks : Len(asm[type].fields[t]) < TextMax

Entry(type) == CHOOSE e \in Range(disc.texts) : e.type = type
TypeOf(e) == {p \in DOMAIN blob : blob[p].type = e.type /\ blob[p].v0}
FirstOf(e) == CHOOSE p \in TypeOf(e) : \A q \in TypeOf(e) : p <= q
Read(p) == p \in DOMAIN disc.crc => disc.crc[p] = "good"

\* Track t's string of e is present, all of its packs were read and, if it begins one,
\* so was the one before; and where it ends, the pack's header counts up to it without
\* a gap, so that the header tells whose it is.
Told(e, t) ==
  LET s    == Stream(e.of)
      at   == {k \in DOMAIN s : s[k].of = t}
      from == CHOOSE k \in at : \A l \in at : k <= l
      pack(k) == FirstOf(e) + (k - 1) \div PayloadLen
      last == pack(from + Cardinality(at) - 1)
  IN  /\ e.of[t] # Omitted
      /\ \A k \in at : Read(pack(k))
      /\ from > 1 => Read(pack(from - 1))
      /\ \A u \in blob[last].track .. t : e.of[u] # Omitted

Meant(e, t) ==
  LET str[u \in Tracks] ==
        IF e.of[u] = <<TAB>> /\ u >= 1 THEN str[u - 1]
        ELSE SubSeq(e.of[u], 1, IF Len(e.of[u]) < TextMax THEN Len(e.of[u]) ELSE TextMax - 1)
  IN  str[t]

\* cdtext.c, "Attributing strings to tracks": strings that are left out and packs that
\* are lost move no other string to another track, and take nothing from it.  (Told
\* leaves out a string that ends in the pack in which one before it is left out: no
\* header comes between them.)
StringsAreTheirs ==
  pc = "decoded" =>
    \A e \in Range(disc.texts) : \A t \in Tracks :
      Told(e, t) /\ (e.of[t] = <<TAB>> /\ t >= 1 => Told(e, t - 1) /\ e.of[t - 1] # <<TAB>>)
        => asm[e.type].fields[t] = Meant(e, t)

\* burn.c, cdtext_encode.c: the lead-in is the packs that were authored, over and over
\* in their order, with not one left out where the set of blocks begins again.
LeadinIsTheRing ==
  \A k \in DOMAIN leadin :
    leadin[k] = [Author(disc)[((k - 1) % Len(blob)) + 1] EXCEPT !.crc = "good"]

\* cdtext.c on a pack that fails its check: "skip, never guess".  No string is made
\* up of two.
NeverGuessed ==
  \A e \in Range(disc.texts) : \A t \in Tracks :
    \E u \in Tracks : Range(asm[e.type].fields[t]) \subseteq Range(e.of[u])
==============================================================================
