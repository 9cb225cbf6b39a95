--------------------------------- MODULE Rw ---------------------------------
(***************************************************************************)
(* The decoder of the R-W subchannel, CD+G (src/cdda/rw.c): packs come in  *)
(* interleaved over Branches channel packs, a ring of which it keeps, and  *)
(* each pack put together is corrected by two Reed-Solomon codes, P over   *)
(* all of it and Q over its first symbols.                                 *)
(*                                                                         *)
(* A pack is a function of its positions.  The field is the instance's: a  *)
(* symbol is the set of its bits, added by the symmetric difference.       *)
(***************************************************************************)
EXTENDS Integers, Sequences, SequencesExt, FiniteSetsExt

CONSTANTS
  Pow(_), Mul(_, _), Div(_, _), \* gf_pow, gf_mul, gf_div
  PackSymbols,   \* ACCUDISC_RW_PACK_SYMBOLS
  QSymbols,      \* of them, the length of the Q code's block
  Branches,      \* the delays of the interleave, and the packs of the ring
  PerSector,     \* ACCUDISC_RW_PACKS_PER_SEC
  Perm,          \* rw_perm: which position of a pack a channel position carries
  Discs          \* what is on the disc and how it reads: [packs, noise]

VARIABLES
  disc,          \* [packs: what was written, noise: channel pack -> pack of errors]
  fed,           \* channel packs fed
  hist, head, seen,  \* struct accudisc_rw: the ring, its newest slot, how full
  out,           \* what has been emitted: [of, symbol, p, q] in order
  rc

vars == <<disc, fed, hist, head, seen, out, rc>>

Zero == {}
Positions == 0 .. PackSymbols - 1
Blank == [i \in Positions |-> Zero]

------------------------------------------------------------------------------
(* The disc and the drive: a writer that delays position i of a pack by     *)
(* i % Branches packs, and errors on the way back.                          *)

Written(k) == IF k \in DOMAIN disc.packs THEN disc.packs[k] ELSE Blank
Channel(c) ==
  [i \in Positions |-> SymDiff(Written(c - (i % Branches))[Perm[i]], disc.noise[c][i])]

\* Logical positions of pack k that are not read as they were written.
Damage(k) ==
  {Perm[i] : i \in {i \in Positions :
     k + (i % Branches) \in DOMAIN disc.noise /\ disc.noise[k + (i % Branches)][i] # Zero}}

------------------------------------------------------------------------------
(* rs_syndromes, rs_correct: position j of a block of n counts from its end. *)

Syndrome(v, n, r) ==
  FoldSet(LAMBDA j, acc : SymDiff(acc, Mul(v[j], Pow(r * (n - 1 - j)))), Zero, 0 .. n - 1)
Clean(v, n, nsyn) == \A r \in 0 .. nsyn - 1 : Syndrome(v, n, r) = Zero

Fixed(v, n, errors) ==
  [i \in Positions |-> IF n - 1 - i \in DOMAIN errors THEN SymDiff(v[i], errors[n - 1 - i]) ELSE v[i]]

\* One error: S0 is its value, S1 / S0 its place.
OneError(s, n) ==
  IF Zero \in {s[0], s[1]} THEN {}
  ELSE {(k :> s[0]) : k \in {k \in 0 .. n - 1 : Pow(k) = Div(s[1], s[0])}}

\* Two: the roots of the locator among the block's places, and what S0 and S1 leave.
TwoErrors(s, n) ==
  LET det == SymDiff(Mul(s[1], s[1]), Mul(s[0], s[2]))
      l1  == Div(SymDiff(Mul(s[2], s[1]), Mul(s[0], s[3])), det)
      l2  == Div(SymDiff(Mul(s[1], s[3]), Mul(s[2], s[2])), det)
      at  == {k \in 0 .. n - 1 :
                {0} = SymDiff(Mul(l1, Div({0}, Pow(k))), Mul(l2, Div({0}, Mul(Pow(k), Pow(k)))))}
      a   == Min(at)
      b   == Max(at)
      e   == Div(SymDiff(s[1], Mul(s[0], Pow(b))), SymDiff(Pow(a), Pow(b)))
  IN  IF det = Zero \/ Cardinality(at) # 2 THEN {}
      ELSE {(a :> e @@ b :> SymDiff(s[0], e))}

\* A correction stands only if every syndrome clears.  [v, n]: the block, and how
\* many symbols were corrected, -1 when it cannot be.
Stands(v, n, nsyn) == Clean(v, n, nsyn)

Correct(v, n, nsyn) ==
  LET s == [r \in 0 .. nsyn - 1 |-> Syndrome(v, n, r)]
      Good(S) == {e \in S : Stands(Fixed(v, n, e), n, nsyn)}
      one == Good(OneError(s, n))
      two == IF nsyn >= 4 THEN Good(TwoErrors(s, n)) ELSE {}
  IN  CASE Clean(v, n, nsyn) -> [v |-> v, n |-> 0]
        [] ~Clean(v, n, nsyn) /\ one # {} ->
             [v |-> Fixed(v, n, CHOOSE e \in one : TRUE), n |-> 1]
        [] ~Clean(v, n, nsyn) /\ one = {} /\ two # {} ->
             [v |-> Fixed(v, n, CHOOSE e \in two : TRUE), n |-> 2]
        [] OTHER -> [v |-> v, n |-> -1]

------------------------------------------------------------------------------
(* The ring.                                                                *)

\* accudisc_rw_open
Init ==
  /\ disc \in Discs
  /\ fed = 0 /\ hist = [slot \in 0 .. Branches - 1 |-> Blank] /\ head = 0 /\ seen = 0
  /\ out = << >> /\ rc = "ok"

Ring == [hist |-> hist, head |-> head, seen |-> seen, out |-> << >>, fed |-> fed]

\* push_channel_pack
Push(r) ==
  LET h == (r.head + 1) % Branches
  IN  [r EXCEPT !.head = h, !.hist[h] = Channel(r.fed + 1), !.seen = Min({@ + 1, Branches}),
                !.fed = @ + 1]

\* emit_pack: the branches that were delayed least are taken from furthest back.
Age(i) == Branches - 1 - (i % Branches)

Assembled(r) ==
  [p \in Positions |->
     LET i == CHOOSE i \in Positions : Perm[i] = p
     IN  r.hist[(r.head + Branches - Age(i)) % Branches][i]]

Emit(r) ==
  LET p == Correct(Assembled(r), PackSymbols, 4)
      q == Correct(p.v, QSymbols, 2)
  IN  [r EXCEPT !.out = Append(@, [of |-> r.fed - Branches + 1, symbol |-> q.v,
                                   p |-> p.n, q |-> q.n])]

\* accudisc_rw_feed, one channel pack of the sector's: the ring moves on for every
\* pack, whether it is wanted or not.
Take_Bug(max, r) ==
  IF r.seen = Branches /\ Len(r.out) >= max THEN [r EXCEPT !.fed = @ + 1]
  ELSE IF Push(r).seen = Branches THEN Emit(Push(r)) ELSE Push(r)
Take(max, r) ==
  LET pushed == Push(r)
  IN  IF pushed.seen = Branches /\ Len(r.out) < max THEN Emit(pushed) ELSE pushed

Feed(max) ==
  /\ max = 0 \/ max >= PerSector
  /\ fed + PerSector <= Len(disc.noise)
  /\ LET after == FoldLeft(LAMBDA r, k : Take(max, r), Ring, [k \in 1 .. PerSector |-> k])
     IN  /\ hist' = after.hist /\ head' = after.head /\ seen' = after.seen
         /\ fed' = after.fed /\ out' = out \o after.out
  /\ rc' = "ok"
  /\ UNCHANGED disc

\* A sink too small for a sector's packs is refused whole.
FeedRefused(max) ==
  /\ max \in 1 .. PerSector - 1
  /\ rc' = "inval"
  /\ UNCHANGED <<disc, fed, hist, head, seen, out>>

Next == \E max \in 0 .. PerSector : Feed(max) \/ FeedRefused(max)
Spec == Init /\ [][Next]_vars

------------------------------------------------------------------------------
(* Properties.                                                             *)

TypeOK ==
  /\ seen = Min({fed, Branches}) /\ head = fed % Branches
  /\ \A k \in DOMAIN out : out[k].p \in -1 .. 2 /\ out[k].q \in -1 .. 1

\* rw.c on feeding: whatever was fed for its own sake or refused before, a pack with
\* no more than two wrong symbols comes out as it was written, and says how many.
PackIsWhatWasWritten ==
  \A k \in DOMAIN out :
    out[k].of >= 1 /\ Cardinality(Damage(out[k].of)) <= 2
      => /\ out[k].symbol = Written(out[k].of)
         /\ out[k].p = Cardinality(Damage(out[k].of)) /\ out[k].q = 0

\* rs_verify: "turns a silent miscorrection into an honest failure": a pack no code
\* gave up on, and Q had nothing left to do in, is in both codes.  Which word of them
\* it is, damage beyond what they carry may have changed.
NothingPassedOff ==
  \A k \in DOMAIN out :
    out[k].p >= 0 /\ out[k].q = 0
      => Clean(out[k].symbol, PackSymbols, 4) /\ Clean(out[k].symbol, QSymbols, 2)
==============================================================================
