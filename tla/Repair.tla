------------------------------- MODULE Repair -------------------------------
(***************************************************************************)
(* accudisc_ctdb_repair (src/repair/ctdb.c, src/repair/sweep.c): the grid  *)
(* of columns laid over the image, the decision for each column, and what  *)
(* is written.  Words are numbered from the start of the PCM.              *)
(***************************************************************************)
EXTENDS Rs16

CONSTANTS
  FrameWords,  \* the 1176 words of a sector
  Truth,       \* the PCM the parity was made of
  Requests     \* what callers ask, see below

(***************************************************************************)
(* A request is a record: npar, stride (wire_stride), first and frames     *)
(* (the image), delta (offset_pairs, in words), damage (a function from    *)
(* the words read wrong to what was read instead), hinted (whether a C2    *)
(* bitmap is given) and hints (the words it flags), and fits (whether the  *)
(* blob has stride * 2 * npar symbols).                                    *)
(***************************************************************************)

\* What the constants must satisfy; an instance assumes it.
IsRequest(q) ==
  /\ {q.npar, q.first, q.frames} \subseteq Nat /\ q.stride \in Nat \ {0} /\ q.delta \in Int
  /\ \A w \in DOMAIN q.damage : q.damage[w] \in Symbols

RepairAssumption ==
  FrameWords \in Nat /\ Truth \in Seq(Symbols) /\ \A q \in Requests : IsRequest(q)

VARIABLES req, pcm, parity, pc, acc, col, fixes, refused, unverified, out, rc
vars == <<req, pcm, parity, pc, acc, col, fixes, refused, unverified, out, rc>>

------------------------------------------------------------------------------
(* The grid.                                                               *)

S == 2 * req.stride
W == req.frames * FrameWords
Base == req.first * FrameWords

\* Neither the first row nor the last, partial one is in the code.
Rows == (W \div S) - 2

\* Where the code's window starts in this PCM.
First == Base + S + req.delta
Word(c, p) == First + c + p * S

LastWord_Bug == First + (Rows + 1) * S - 1
LastWord == First + Rows * S - 1

Accepted ==
  /\ req.fits
  /\ W \div S >= 3 /\ Rows <= ORDER
  /\ Base + W <= Len(pcm)
  /\ First >= 0 /\ LastWord >= 0 /\ LastWord < Len(pcm)

\* A PCM is a sequence; its words are numbered from 0.
At(p, w) == p[w + 1]

\* adsc_ctdb_sweep: Horner over the rows of every column, oldest first.
Horner(p, c, r) ==
  LET sum[j \in 0 .. Rows] ==
        IF j = 0 THEN Zero ELSE SymDiff(At(p, Word(c, j - 1)), MulPow(sum[j - 1], r))
  IN  sum[Rows]
Sweep(p) == [c \in 0 .. S - 1 |-> Coefficients(req.npar, LAMBDA r : Horner(p, c, r))]

\* What CTDB publishes: the syndromes of the columns of the true PCM, rows 1 .. Rows
\* of its own image, which is this one moved by delta.
Symbol(c, j) == Base + req.delta + (j + 1) * S + c
Published ==
  [c \in 0 .. S - 1 |->
     Syndromes(Rows, req.npar, LAMBDA j :
       IF Symbol(c, j) \in 0 .. Len(Truth) - 1 THEN At(Truth, Symbol(c, j)) ELSE Zero)]

------------------------------------------------------------------------------
(* The call.                                                               *)

Init ==
  /\ req \in Requests
  /\ pcm = [i \in DOMAIN Truth |->
              IF i - 1 \in DOMAIN req.damage THEN req.damage[i - 1] ELSE Truth[i]]
  /\ parity = << >> /\ pc = "check" /\ acc = << >> /\ col = 0 /\ fixes = << >>
  /\ refused = 0 /\ unverified = 0 /\ out = pcm /\ rc = "none"

Check ==
  /\ pc = "check"
  /\ IF Accepted THEN pc' = "sweep" /\ parity' = Published /\ UNCHANGED rc
                 ELSE pc' = "done" /\ rc' = "inval" /\ UNCHANGED parity
  /\ UNCHANGED <<req, pcm, acc, col, fixes, refused, unverified, out>>

\* Pass 1.
SweepImage ==
  /\ pc = "sweep"
  /\ acc' = Sweep(pcm) /\ pc' = "decode"
  /\ UNCHANGED <<req, pcm, parity, col, fixes, refused, unverified, out, rc>>

\* The rows of the column the bitmap flags, one past npar at most: any list that
\* long is refused by the decoder.
Erasures(c) ==
  LET flagged == {p \in 0 .. Rows - 1 : req.hinted /\ Word(c, p) \in req.hints}
  IN  {p \in flagged : Cardinality({q \in flagged : q < p}) <= req.npar}

\* What the column's syndromes and its parity differ by.
Difference(c) == Coefficients(req.npar, LAMBDA r : SymDiff(Coef(acc[c], r), Coef(parity[c], r)))

\* Erasures are a hint: a column they push over capacity is tried without them.
Decoded(E, eras) ==
  LET hinted == Decode(req.npar, E, Rows, eras)
  IN  IF ~(hinted.ok /\ DOMAIN hinted.errata # {}) /\ eras # {}
      THEN Decode(req.npar, E, Rows, {})
      ELSE hinted

Determined(E, eras) ==
  Cardinality(eras) = req.npar /\ Decode(req.npar, E, Rows, eras).ok

\* Pass 2, one column; corrections are held back.
DecodeColumn ==
  /\ pc = "decode" /\ col < S
  /\ \E E \in {Difference(col)}, eras \in {Erasures(col)} :
       \E found \in {Decoded(E, eras)} :
         IF Clean(E) THEN UNCHANGED <<fixes, refused, unverified>>
         ELSE /\ unverified' = unverified + IF Determined(E, eras) THEN 1 ELSE 0
              /\ IF found.ok
                 THEN /\ \E own \in {{Word(col, p) : p \in DOMAIN found.errata}} :
                           fixes' = [w \in own \cup DOMAIN fixes |->
                             IF w \in own
                             THEN SymDiff(At(pcm, w), found.errata[(w - Word(col, 0)) \div S])
                             ELSE fixes[w]]
                      /\ UNCHANGED refused
                 ELSE refused' = refused + 1 /\ UNCHANGED fixes
  /\ col' = col + 1
  /\ UNCHANGED <<req, pcm, parity, pc, acc, out, rc>>

Patched == [i \in DOMAIN pcm |-> IF i - 1 \in DOMAIN fixes THEN fixes[i - 1] ELSE pcm[i]]

\* Nothing is written unless every dirty column decoded.
Unwritten_Bug == FALSE
Unwritten == refused > 0

Apply ==
  /\ pc = "decode" /\ col = S
  /\ IF Unwritten THEN rc' = "notfound" /\ UNCHANGED out
     ELSE /\ out' = Patched
          /\ rc' = IF unverified > 0 THEN "unverified" ELSE "ok"
  /\ pc' = "done"
  /\ UNCHANGED <<req, pcm, parity, acc, col, fixes, refused, unverified>>

Done == pc = "done" /\ UNCHANGED vars

Next == Check \/ SweepImage \/ DecodeColumn \/ Apply \/ Done
Spec == Init /\ [][Next]_vars

------------------------------------------------------------------------------
(* Properties.                                                             *)

TypeOK ==
  /\ col \in 0 .. S /\ refused \in 0 .. S /\ unverified \in 0 .. S
  /\ pc \in {"check", "sweep", "decode", "done"}
  /\ DOMAIN fixes \subseteq 0 .. Len(pcm) - 1
  /\ out \in Seq(Symbols) /\ Len(out) = Len(pcm)

\* The symbols of a column that were read wrong.
Damage(c) == {j \in 0 .. Rows - 1 : At(pcm, Symbol(c, j)) # At(Truth, Symbol(c, j))}

\* What the hints and the damage leave decidable: e erasures and t errors elsewhere
\* fit the parity, or errors alone do and the hints are too many to be tried or too
\* few to give another answer.
Decidable(c) ==
  LET wrong == Cardinality(Damage(c))
      eras  == Erasures(c)
      e     == Cardinality(eras)
  IN  \/ e + 2 * Cardinality(Damage(c) \ eras) <= req.npar
      \/ /\ 2 * wrong <= req.npar
         /\ e > req.npar \/ e + wrong + (req.npar - e) \div 2 <= req.npar

\* Every symbol of the code is a word of the PCM.
Covered ==
  /\ req.fits /\ W \div S >= 3 /\ Rows <= ORDER /\ Base + W <= Len(pcm)
  /\ \A c \in 0 .. S - 1, j \in 0 .. Rows - 1 : Symbol(c, j) \in 0 .. Len(pcm) - 1

\* ctdb.c, on the grid ("a wrong window ... changes every correction"), its bounds
\* and the decoder together: damage the parity can carry is undone word for word, at
\* every offset at which the code's rows are there, with or without hints.
CapacityIsUsed ==
  pc = "done" /\ Covered /\ (\A c \in 0 .. S - 1 : Decidable(c)) =>
    /\ rc \in {"ok", "unverified"}
    /\ \A c \in 0 .. S - 1, j \in 0 .. Rows - 1 : At(out, Symbol(c, j)) = At(Truth, Symbol(c, j))

\* accudisc.h: "Nothing is written unless every dirty column decoded, so a failed
\* call cannot leave a half-repaired buffer".  What is written agrees with all of
\* the parity, and no word outside the code is touched.
AllOrNothing ==
  /\ rc \notin {"ok", "unverified"} => out = pcm
  /\ rc \in {"ok", "unverified"} =>
       /\ Sweep(out) = Published
       /\ \A w \in 0 .. Len(out) - 1 : At(out, w) # At(pcm, w) =>
            \E c \in 0 .. S - 1, j \in 0 .. Rows - 1 : w = Symbol(c, j)

\* rs16.c, of the verification: "this is what turns a silent miscorrection into an
\* honest failure".
OkIsTheTruth ==
  rc = "ok" => \A c \in 0 .. S - 1, j \in 0 .. Rows - 1 : At(out, Symbol(c, j)) = At(Truth, Symbol(c, j))
=============================================================================
