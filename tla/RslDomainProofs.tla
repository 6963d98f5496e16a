--------------------------- MODULE RslDomainProofs ---------------------------
(***************************************************************************)
(* The tree of domains, for any mother domain, any nests in nests and any  *)
(* sequence of decompositions.  What a mother and her nest know of each    *)
(* other is written in three places, when a nest is spawned over a cell,   *)
(* when the nest is decomposed and when the mother is; the proof follows   *)
(* the three through each call.                                            *)
(***************************************************************************)
EXTENDS RslDomain, FiniteSetTheorems, SequenceTheorems, WellFoundedInduction, TLAPS

-------------------------------------------------------------------------------
(* What holds of a tree g of domains *)

Fields == {"par", "coord", "len", "eff", "trim", "irax", "P", "mother_P", "kid_P", "over"}

\* A function of the cells S.
OnCells(f, S) == f = [c \in S |-> f[c]]

\* A domain, and its place over its parent.
ShapeOf(g, d) ==
  LET n == g[d]
  IN /\ DOMAIN n = Fields
     /\ n.par \in 0..(d - 1)
     /\ OnCells(n.P, CellsOf(n))
     /\ OnCells(n.over, CellsOf(n))
     /\ \A c \in CellsOf(n) : n.over[c] \in {0} \union ((d + 1)..Len(g))
     /\ \A x \in 1..2 : /\ n.len[x] \in Nat \ {0} /\ n.eff[x] \in Nat /\ n.trim[x] \in Nat
                       /\ n.eff[x] <= n.len[x]
                       /\ n.eff[x] \in {n.len[x], n.len[x] - n.trim[x]}
     /\ n.par # 0 => /\ OnCells(n.mother_P, CellsOf(n))
                     /\ OnCells(n.kid_P, CellsOf(n))
                     /\ Covered(n) \subseteq CellsOf(g[n.par])
                     /\ \A c \in Covered(n) : \A x \in 1..2 : c[x] \in 0..(g[n.par].eff[x] - 1)
                     /\ \A c \in CellsOf(n) : MotherOf(n, c) \in Covered(n)

TreeInv == /\ Len(info) \in Nat /\ Len(info) <= RSL_MAXDOMAINS /\ OnCells(info, 1..Len(info))
           /\ \A d \in Domains : ShapeOf(info, d)

\* What a nest's cells and their mothers know of each other.
AgreesOf(g, d) ==
  g[d].par # 0 =>
    \A c \in CellsOf(g[d]) : InRecord(g, d, c) =>
      /\ g[d].mother_P[c] = g[g[d].par].P[MotherOf(g[d], c)]
      /\ g[d].kid_P[c] = g[d].P[c]

-------------------------------------------------------------------------------
(* One domain *)

\* What a call leaves alone in a domain that it decomposes, or tells of one.
SamePlace(m, n) ==
  /\ DOMAIN m = Fields
  /\ m.par = n.par /\ m.coord = n.coord /\ m.len = n.len /\ m.eff = n.eff
  /\ m.trim = n.trim /\ m.irax = n.irax

LEMMA SamePlaceFacts ==
  ASSUME NEW m, NEW n, SamePlace(m, n)
  PROVE  /\ CellsOf(m) = CellsOf(n) /\ Covered(m) = Covered(n) /\ Trimmed(m) = Trimmed(n)
         /\ \A c : MotherOf(m, c) = MotherOf(n, c)
BY DEF SamePlace, CellsOf, Covered, Trimmed, MotherOf

LEMMA MovedFacts ==
  ASSUME NEW g, NEW d, DOMAIN g[d] = Fields, NEW newP, NEW m, m = Moved(g, d, newP)
  PROVE  /\ SamePlace(m, g[d]) /\ m.over = g[d].over /\ m.P = newP
         /\ m.mother_P = [c \in DOMAIN g[d].mother_P |-> g[g[d].par].P[MotherOf(g[d], c)]]
         /\ m.kid_P = [c \in DOMAIN g[d].kid_P |->
                         IF InRecord(g, d, c) THEN newP[c] ELSE g[d].kid_P[c]]
BY DEF Moved, SamePlace, Fields

LEMMA ToldFacts ==
  ASSUME NEW g, NEW x, DOMAIN g[x] = Fields, NEW newP, NEW m, m = Told(g, x, newP)
  PROVE  /\ SamePlace(m, g[x]) /\ m.over = g[x].over /\ m.P = g[x].P /\ m.kid_P = g[x].kid_P
         /\ m.mother_P = [c \in DOMAIN g[x].mother_P |->
                            IF InRecord(g, x, c) THEN newP[MotherOf(g[x], c)]
                            ELSE g[x].mother_P[c]]
BY DEF Told, SamePlace, Fields

-------------------------------------------------------------------------------
(* Decomposing a domain *)

LEMMA DecomposeFacts ==
  ASSUME NEW g, NEW d \in DOMAIN g, \A x \in DOMAIN g : DOMAIN g[x] = Fields,
         NEW newP, NEW h, h = Decompose(g, d, newP), g[d].par # d
  PROVE  /\ DOMAIN h = DOMAIN g /\ OnCells(h, DOMAIN g)
         /\ \A x \in DOMAIN g :
              /\ SamePlace(h[x], g[x]) /\ h[x].over = g[x].over
              /\ h[x].P = IF x = d THEN newP ELSE g[x].P
              /\ DOMAIN h[x].mother_P = DOMAIN g[x].mother_P
              /\ DOMAIN h[x].kid_P = DOMAIN g[x].kid_P
              /\ OnCells(g[x].mother_P, DOMAIN g[x].mother_P) => OnCells(h[x].mother_P, DOMAIN g[x].mother_P)
              /\ OnCells(g[x].kid_P, DOMAIN g[x].kid_P) => OnCells(h[x].kid_P, DOMAIN g[x].kid_P)
              /\ \A c \in DOMAIN g[x].mother_P :
                   h[x].mother_P[c] =
                     IF x = d THEN g[g[d].par].P[MotherOf(g[d], c)]
                     ELSE IF g[x].par = d /\ InRecord(g, x, c) THEN newP[MotherOf(g[x], c)]
                     ELSE g[x].mother_P[c]
              /\ \A c \in DOMAIN g[x].kid_P :
                   h[x].kid_P[c] = IF x = d /\ InRecord(g, d, c) THEN newP[c] ELSE g[x].kid_P[c]
<1>1. h = [x \in DOMAIN g |-> IF x = d THEN Moved(g, d, newP)
                             ELSE IF g[x].par = d THEN Told(g, x, newP) ELSE g[x]]
  BY DEF Decompose
<1>2. DOMAIN h = DOMAIN g /\ OnCells(h, DOMAIN g)
  BY <1>1 DEF OnCells
<1> SUFFICES ASSUME NEW x \in DOMAIN g
             PROVE  /\ SamePlace(h[x], g[x]) /\ h[x].over = g[x].over
                    /\ h[x].P = IF x = d THEN newP ELSE g[x].P
                    /\ DOMAIN h[x].mother_P = DOMAIN g[x].mother_P
                    /\ DOMAIN h[x].kid_P = DOMAIN g[x].kid_P
                    /\ OnCells(g[x].mother_P, DOMAIN g[x].mother_P) => OnCells(h[x].mother_P, DOMAIN g[x].mother_P)
                    /\ OnCells(g[x].kid_P, DOMAIN g[x].kid_P) => OnCells(h[x].kid_P, DOMAIN g[x].kid_P)
                    /\ \A c \in DOMAIN g[x].mother_P :
                         h[x].mother_P[c] =
                           IF x = d THEN g[g[d].par].P[MotherOf(g[d], c)]
                           ELSE IF g[x].par = d /\ InRecord(g, x, c) THEN newP[MotherOf(g[x], c)]
                           ELSE g[x].mother_P[c]
                    /\ \A c \in DOMAIN g[x].kid_P :
                         h[x].kid_P[c] =
                           IF x = d /\ InRecord(g, d, c) THEN newP[c] ELSE g[x].kid_P[c]
  BY <1>2
<1>3. DOMAIN g[x] = Fields
  OBVIOUS
<1>4. CASE x = d
  <2>1. h[x] = Moved(g, d, newP)
    BY <1>1, <1>4
  <2>2. /\ SamePlace(h[x], g[d]) /\ h[x].over = g[d].over /\ h[x].P = newP
        /\ h[x].mother_P = [c \in DOMAIN g[d].mother_P |-> g[g[d].par].P[MotherOf(g[d], c)]]
        /\ h[x].kid_P = [c \in DOMAIN g[d].kid_P |->
                           IF InRecord(g, d, c) THEN newP[c] ELSE g[d].kid_P[c]]
    BY <1>3, <1>4, <2>1, MovedFacts
  <2> QED BY <1>4, <2>2 DEF OnCells
<1>5. CASE x # d /\ g[x].par = d
  <2>1. h[x] = Told(g, x, newP)
    BY <1>1, <1>5
  <2>2. /\ SamePlace(h[x], g[x]) /\ h[x].over = g[x].over /\ h[x].P = g[x].P
        /\ h[x].kid_P = g[x].kid_P
        /\ h[x].mother_P = [c \in DOMAIN g[x].mother_P |->
                              IF InRecord(g, x, c) THEN newP[MotherOf(g[x], c)]
                              ELSE g[x].mother_P[c]]
    BY <1>3, <2>1, ToldFacts
  <2> QED BY <1>5, <2>2 DEF OnCells
<1>6. CASE x # d /\ g[x].par # d
  <2>1. h[x] = g[x]
    BY <1>1, <1>6
  <2>2. SamePlace(h[x], g[x])
    BY <1>3, <2>1 DEF SamePlace
  <2> QED BY <1>6, <2>1, <2>2
<1> QED BY <1>4, <1>5, <1>6

\* A cell is in its mother's record after a decomposition if it was before.
LEMMA SameRecords ==
  ASSUME NEW g, NEW h, DOMAIN h = DOMAIN g,
         \A x \in DOMAIN g : SamePlace(h[x], g[x]) /\ h[x].over = g[x].over,
         NEW x \in DOMAIN g, g[x].par \in DOMAIN g, NEW c
  PROVE  InRecord(h, x, c) <=> InRecord(g, x, c)
<1>1. h[x].par = g[x].par /\ MotherOf(h[x], c) = MotherOf(g[x], c)
  BY SamePlaceFacts DEF SamePlace
<1>2. h[g[x].par].over = g[g[x].par].over
  OBVIOUS
<1> QED BY <1>1, <1>2 DEF InRecord

\* A decomposition keeps the tree as it is,
LEMMA DecomposedShape ==
  ASSUME NEW k \in Nat, NEW g, DOMAIN g = 1..k, Len(g) = k, \A x \in 1..k : ShapeOf(g, x),
         NEW d \in 1..k, NEW newP, OnCells(newP, CellsOf(g[d])),
         NEW h, h = Decompose(g, d, newP), Len(h) = k
  PROVE  DOMAIN h = 1..k /\ \A x \in 1..k : ShapeOf(h, x)
<1>1. /\ \A x \in DOMAIN g : DOMAIN g[x] = Fields
      /\ d \in DOMAIN g /\ g[d].par # d
      /\ \A x \in 1..k : g[x].par # 0 => g[x].par \in 1..k
  <2>1. \A x \in 1..k : DOMAIN g[x] = Fields /\ g[x].par \in 0..(x - 1)
    BY DEF ShapeOf
  <2>2. \A x \in 1..k : \A y \in 0..(x - 1) : y # x /\ (y # 0 => y \in 1..k)
    OBVIOUS
  <2> QED BY <2>1, <2>2
<1>2. /\ DOMAIN h = DOMAIN g
      /\ \A x \in DOMAIN g :
           /\ SamePlace(h[x], g[x]) /\ h[x].over = g[x].over
           /\ h[x].P = IF x = d THEN newP ELSE g[x].P
           /\ OnCells(g[x].mother_P, DOMAIN g[x].mother_P) => OnCells(h[x].mother_P, DOMAIN g[x].mother_P)
           /\ OnCells(g[x].kid_P, DOMAIN g[x].kid_P) => OnCells(h[x].kid_P, DOMAIN g[x].kid_P)
  BY <1>1, DecomposeFacts
<1>3. ASSUME NEW x \in 1..k
      PROVE  ShapeOf(h, x)
  <2>0. SamePlace(h[x], g[x]) /\ h[x].over = g[x].over /\ ShapeOf(g, x)
    BY <1>2
  <2>1. /\ SamePlace(h[x], g[x]) /\ h[x].over = g[x].over /\ ShapeOf(g, x)
        /\ CellsOf(h[x]) = CellsOf(g[x]) /\ Covered(h[x]) = Covered(g[x])
        /\ \A c : MotherOf(h[x], c) = MotherOf(g[x], c)
    BY <2>0, SamePlaceFacts
  <2>2. DOMAIN h[x] = Fields /\ h[x].par = g[x].par /\ h[x].par \in 0..(x - 1)
    BY <2>1 DEF SamePlace, ShapeOf
  <2>3. OnCells(h[x].P, CellsOf(h[x]))
    <3>1. OnCells(g[x].P, CellsOf(g[x]))
      BY <2>1 DEF ShapeOf
    <3>2. CASE x = d
      BY <1>2, <2>1, <3>2
    <3>3. CASE x # d
      <4>1. h[x].P = g[x].P
        BY <1>2, <3>3
      <4> QED BY <2>1, <3>1, <4>1
    <3> QED BY <3>2, <3>3
  <2>4. /\ OnCells(h[x].over, CellsOf(h[x]))
        /\ \A c \in CellsOf(h[x]) : h[x].over[c] \in {0} \union ((x + 1)..Len(h))
    BY <2>1 DEF ShapeOf
  <2>6. \A y \in 1..2 : /\ h[x].len[y] \in Nat \ {0} /\ h[x].eff[y] \in Nat /\ h[x].trim[y] \in Nat
                       /\ h[x].eff[y] <= h[x].len[y]
                       /\ h[x].eff[y] \in {h[x].len[y], h[x].len[y] - h[x].trim[y]}
    BY <2>1 DEF ShapeOf, SamePlace
  <2>5. ASSUME h[x].par # 0
        PROVE  /\ OnCells(h[x].mother_P, CellsOf(h[x]))
               /\ OnCells(h[x].kid_P, CellsOf(h[x]))
               /\ Covered(h[x]) \subseteq CellsOf(h[h[x].par])
               /\ \A c \in Covered(h[x]) : \A y \in 1..2 : c[y] \in 0..(h[h[x].par].eff[y] - 1)
               /\ \A c \in CellsOf(h[x]) : MotherOf(h[x], c) \in Covered(h[x])
    <3>1. /\ OnCells(g[x].mother_P, CellsOf(g[x]))
          /\ OnCells(g[x].kid_P, CellsOf(g[x]))
          /\ Covered(g[x]) \subseteq CellsOf(g[g[x].par])
          /\ \A c \in Covered(g[x]) : \A y \in 1..2 : c[y] \in 0..(g[g[x].par].eff[y] - 1)
          /\ \A c \in CellsOf(g[x]) : MotherOf(g[x], c) \in Covered(g[x])
      BY <2>1, <2>2, <2>5 DEF ShapeOf
    <3>2. DOMAIN g[x].mother_P = CellsOf(g[x]) /\ DOMAIN g[x].kid_P = CellsOf(g[x])
      BY <3>1 DEF OnCells
    <3>3. CellsOf(h[h[x].par]) = CellsOf(g[g[x].par]) /\ h[h[x].par].eff = g[g[x].par].eff
      <4>1. SamePlace(h[g[x].par], g[g[x].par])
        BY <1>1, <1>2, <2>2, <2>5
      <4>2. CellsOf(h[g[x].par]) = CellsOf(g[g[x].par])
        BY <4>1, SamePlaceFacts
      <4> QED BY <2>2, <4>1, <4>2 DEF SamePlace
    <3>4. /\ OnCells(h[x].mother_P, CellsOf(g[x]))
          /\ OnCells(h[x].kid_P, CellsOf(g[x]))
      BY <1>2, <3>1, <3>2
    <3> QED BY <2>1, <3>1, <3>3, <3>4
  <2> QED BY <2>2, <2>3, <2>4, <2>5, <2>6 DEF ShapeOf
<1> QED BY <1>2, <1>3

\* and everybody it concerns is told.
LEMMA DecomposedAgrees ==
  ASSUME NEW k \in Nat, NEW g, DOMAIN g = 1..k, \A x \in 1..k : ShapeOf(g, x),
         NEW d \in 1..k, \A x \in 1..k : x # d => AgreesOf(g, x),
         NEW newP, NEW h, h = Decompose(g, d, newP)
  PROVE  \A x \in 1..k : AgreesOf(h, x)
<1>1. /\ \A x \in DOMAIN g : DOMAIN g[x] = Fields
      /\ d \in DOMAIN g /\ g[d].par # d
      /\ \A x \in 1..k : g[x].par # 0 => g[x].par \in 1..k /\ g[x].par # x
  <2>1. \A x \in 1..k : DOMAIN g[x] = Fields /\ g[x].par \in 0..(x - 1)
    BY DEF ShapeOf
  <2>2. \A x \in 1..k : \A y \in 0..(x - 1) : y # x /\ (y # 0 => y \in 1..k)
    OBVIOUS
  <2> QED BY <2>1, <2>2
<1>2. /\ DOMAIN h = DOMAIN g
      /\ \A x \in DOMAIN g :
              /\ SamePlace(h[x], g[x]) /\ h[x].over = g[x].over
              /\ h[x].P = IF x = d THEN newP ELSE g[x].P
              /\ \A c \in DOMAIN g[x].mother_P :
                   h[x].mother_P[c] =
                     IF x = d THEN g[g[d].par].P[MotherOf(g[d], c)]
                     ELSE IF g[x].par = d /\ InRecord(g, x, c) THEN newP[MotherOf(g[x], c)]
                     ELSE g[x].mother_P[c]
              /\ \A c \in DOMAIN g[x].kid_P :
                   h[x].kid_P[c] = IF x = d /\ InRecord(g, d, c) THEN newP[c] ELSE g[x].kid_P[c]
  BY <1>1, DecomposeFacts
<1> SUFFICES ASSUME NEW x \in 1..k, h[x].par # 0, NEW c \in CellsOf(h[x]), InRecord(h, x, c)
             PROVE  /\ h[x].mother_P[c] = h[h[x].par].P[MotherOf(h[x], c)]
                    /\ h[x].kid_P[c] = h[x].P[c]
  BY DEF AgreesOf
<1>3. /\ h[x].par = g[x].par /\ g[x].par \in 1..k /\ g[x].par # x
      /\ CellsOf(h[x]) = CellsOf(g[x]) /\ MotherOf(h[x], c) = MotherOf(g[x], c)
  BY <1>1, <1>2, SamePlaceFacts DEF SamePlace
<1>4. InRecord(g, x, c)
  BY <1>2, <1>3, SameRecords
<1>5. c \in DOMAIN g[x].mother_P /\ c \in DOMAIN g[x].kid_P
  <2>1. OnCells(g[x].mother_P, CellsOf(g[x])) /\ OnCells(g[x].kid_P, CellsOf(g[x]))
    BY <1>3 DEF ShapeOf
  <2> QED BY <1>3, <2>1 DEF OnCells
<1>6. x # d => /\ g[x].mother_P[c] = g[g[x].par].P[MotherOf(g[x], c)]
               /\ g[x].kid_P[c] = g[x].P[c]
  BY <1>3, <1>4 DEF AgreesOf
<1>7. h[g[x].par].P = IF g[x].par = d THEN newP ELSE g[g[x].par].P
  BY <1>2, <1>3
<1>8. h[x].mother_P[c] = h[g[x].par].P[MotherOf(g[x], c)]
  BY <1>2, <1>3, <1>4, <1>5, <1>6, <1>7
<1>9. h[x].kid_P[c] = h[x].P[c]
  BY <1>2, <1>4, <1>5, <1>6
<1> QED BY <1>3, <1>8, <1>9

-------------------------------------------------------------------------------
(* What a nest is spawned over *)

LEMMA LengthOf ==
  ASSUME NEW k \in Nat, NEW S, NEW h \in [1..k -> S]
  PROVE  Len(h) = k /\ h \in Seq(S)
<1>1. h \in Seq(S)
  BY SeqDef
<1>2. Len(h) \in Nat /\ DOMAIN h = 1..Len(h) /\ DOMAIN h = 1..k
  BY <1>1, LenProperties
<1>3. \A l \in Nat : 1..l = 1..k => l = k
  <2> SUFFICES ASSUME NEW l \in Nat, 1..l = 1..k
               PROVE  l = k
    OBVIOUS
  <2>1. l > k => l \in 1..l
    OBVIOUS
  <2>2. k > l => k \in 1..k
    OBVIOUS
  <2> QED BY <2>1, <2>2
<1> QED BY <1>1, <1>2, <1>3

LEMMA LengthIs ==
  ASSUME NEW k \in Nat, NEW h, OnCells(h, 1..k)
  PROVE  Len(h) = k
<1>1. \E S : h \in [1..k -> S]
  <2>1. h \in [1..k -> {h[x] : x \in 1..k}]
    BY DEF OnCells
  <2> QED BY <2>1
<1>2. PICK S : h \in [1..k -> S]
  BY <1>1
<1>3. Len(h) = k /\ h \in Seq(S)
  BY <1>2, LengthOf
<1> QED BY <1>3

\* s goes on from the k elements of h with e.
GoesOn(s, k, h, e) == /\ OnCells(s, 1..(k + 1)) /\ s[k + 1] = e
                      /\ \A x \in 1..k : s[x] = h[x]

LEMMA AppendedOf ==
  ASSUME NEW k \in Nat, NEW h, OnCells(h, 1..k), NEW e, NEW s, s = Append(h, e)
  PROVE  GoesOn(s, k, h, e)
<1>1. PICK S : S = {h[x] : x \in 1..k} \union {e}
  OBVIOUS
<1>2. h \in [1..k -> S] /\ e \in S
  BY <1>1 DEF OnCells
<1>3. Len(h) = k /\ h \in Seq(S)
  BY <1>2, LengthOf
<1>4. PICK z : z = Append(h, e)
  OBVIOUS
<1>5. /\ s \in Seq(S) /\ Len(s) = k + 1
      /\ \A x \in 1..k : s[x] = h[x]
      /\ s[k + 1] = e
  <2>1. /\ z \in Seq(S) /\ Len(z) = k + 1
        /\ \A x \in 1..k : z[x] = h[x]
        /\ z[k + 1] = e
    BY <1>2, <1>3, <1>4, AppendProperties
  <2>2. s = z
    BY <1>4
  <2> QED BY <2>1, <2>2
<1>6. s \in [1..(k + 1) -> S]
  <2>1. Len(s) = k + 1 /\ s \in [1..Len(s) -> S]
    BY ONLY <1>5, LenProperties
  <2> QED BY <2>1, Zenon
<1>7. OnCells(s, 1..(k + 1))
  BY <1>6 DEF OnCells
<1> QED BY <1>5, <1>7 DEF GoesOn

\* Whole numbers of cells of the parent.
LEMMA Quotients ==
  ASSUME NEW s \in Nat, NEW r \in Nat \ {0}
  PROVE  /\ (s * r) \div r = s
         /\ \A c \in 0..(s * r - 1) : c \div r \in 0..(s - 1)
<1>1. s * r \in Nat
  OBVIOUS
<1>2. (s * r) \div r = s
  <2>1. PICK q, m : q = (s * r) \div r /\ m = (s * r) % r
    OBVIOUS
  <2>2. q \in Int /\ m \in 0..(r - 1) /\ s * r = r * q + m
    BY <1>1, <2>1
  <2>3. r * (s - q) = m
    BY <2>2
  <2>4. s - q >= 1 => r * (s - q) >= r
    BY <2>2
  <2>5. s - q <= -1 => r * (s - q) <= -r
    BY <2>2
  <2> QED BY <2>1, <2>2, <2>3, <2>4, <2>5
<1>3. ASSUME NEW c \in 0..(s * r - 1)
      PROVE  c \div r \in 0..(s - 1)
  <2>1. PICK q, m : q = c \div r /\ m = c % r
    OBVIOUS
  <2>2. q \in Int /\ m \in 0..(r - 1) /\ c = r * q + m /\ c \in Nat /\ c < s * r
    BY <1>1, <2>1
  <2>3. q >= s => r * q >= r * s
    BY <2>2
  <2>4. q <= -1 => r * q <= -r
    BY <2>2
  <2> QED BY <2>1, <2>2, <2>3, <2>4
<1> QED BY <1>2, <1>3

LEMMA RoundedUp ==
  ASSUME NEW e \in Nat \ {0}, NEW r \in Nat \ {0}
  PROVE  /\ (e + r - 1) \div r \in Nat \ {0}
         /\ ((e + r - 1) \div r) * r \in Nat /\ e <= ((e + r - 1) \div r) * r
<1>1. PICK q, m : q = (e + r - 1) \div r /\ m = (e + r - 1) % r
  OBVIOUS
<1>2. q \in Int /\ m \in 0..(r - 1) /\ e + r - 1 = r * q + m
  BY <1>1
<1>3. q <= 0 => r * q <= 0
  BY <1>2
<1>4. q \in Nat \ {0} /\ e <= r * q
  BY <1>2, <1>3
<1> QED BY <1>1, <1>4

LEMMA SpawnedFacts ==
  ASSUME NEW a \in NestCalls, NEW n, n = Spawned(a)
  PROVE  /\ n.par = a.par /\ n.par \in Nat
         /\ \A x \in 1..2 : /\ n.len[x] \in Nat \ {0} /\ n.eff[x] \in Nat /\ n.trim[x] \in Nat
                            /\ n.eff[x] <= n.len[x]
                            /\ n.eff[x] \in {n.len[x], n.len[x] - n.trim[x]}
         /\ \A c \in CellsOf(n) : MotherOf(n, c) \in Covered(n)
         /\ \A c \in Covered(n) : c = <<c[1], c[2]>> /\ c[1] \in Int /\ c[2] \in Int
<1>1. /\ a.par \in Nat /\ a.im \in Nat /\ a.jm \in Nat /\ a.sw \in {0, 1}
      /\ \A x \in 1..2 : a.dim[x] \in Nat \ {0} /\ a.irax[x] \in Nat \ {0} /\ a.trim[x] \in Nat
  BY DomainAssumption
<1>2. PICK span : span = [x \in 1..2 |-> IF a.sw = 0 THEN (a.dim[x] + a.irax[x] - 1) \div a.irax[x]
                                         ELSE a.dim[x]]
  OBVIOUS
<1>3. \A x \in 1..2 : /\ span[x] \in Nat \ {0} /\ span[x] * a.irax[x] \in Nat \ {0}
                      /\ a.sw = 0 => a.dim[x] <= span[x] * a.irax[x]
  <2> SUFFICES ASSUME NEW x \in 1..2
               PROVE  /\ span[x] \in Nat \ {0} /\ span[x] * a.irax[x] \in Nat \ {0}
                      /\ a.sw = 0 => a.dim[x] <= span[x] * a.irax[x]
    OBVIOUS
  <2>1. span[x] \in Nat \ {0} /\ (a.sw = 0 => a.dim[x] <= span[x] * a.irax[x])
    BY <1>1, <1>2, RoundedUp
  <2>2. \A s, r \in Nat \ {0} : s * r \in Nat \ {0}
    OBVIOUS
  <2> QED BY <1>1, <2>1, <2>2
<1>4. /\ n.par = a.par /\ n.irax = a.irax /\ n.coord = <<a.im - 1, a.jm - 1>>
      /\ \A x \in 1..2 : /\ n.len[x] = span[x] * a.irax[x]
                         /\ a.sw = 0 => n.eff[x] = a.dim[x] /\ n.trim[x] = n.len[x] - a.dim[x]
                         /\ a.sw = 1 => n.eff[x] = n.len[x] /\ n.trim[x] = a.trim[x]
  BY <1>2 DEF Spawned
<1>5. ASSUME NEW x \in 1..2
      PROVE  /\ n.len[x] \in Nat \ {0} /\ n.eff[x] \in Nat /\ n.trim[x] \in Nat
             /\ n.eff[x] <= n.len[x]
             /\ n.eff[x] \in {n.len[x], n.len[x] - n.trim[x]}
  <2>1. PICK l, e, t, i : l = n.len[x] /\ e = n.eff[x] /\ t = n.trim[x] /\ i = a.dim[x]
    OBVIOUS
  <2>2. /\ l \in Nat \ {0} /\ i \in Nat \ {0} /\ a.trim[x] \in Nat
        /\ a.sw = 0 => e = i /\ t = l - i /\ i <= l
        /\ a.sw = 1 => e = l /\ t = a.trim[x]
    BY <1>1, <1>3, <1>4, <2>1
  <2>3. l \in Nat \ {0} /\ e \in Nat /\ t \in Nat /\ e <= l /\ e \in {l, l - t}
    BY <1>1, <2>2
  <2> QED BY <2>1, <2>3
<1>6. ASSUME NEW c \in CellsOf(n)
      PROVE  MotherOf(n, c) \in Covered(n)
  <2>1. c[1] \in 0..(n.len[1] - 1) /\ c[2] \in 0..(n.len[2] - 1)
    BY DEF CellsOf, Cells
  <2>2. \A x \in 1..2 : /\ n.len[x] \div n.irax[x] = span[x]
                        /\ c[x] \div n.irax[x] \in 0..(span[x] - 1)
    <3> SUFFICES ASSUME NEW x \in 1..2
                 PROVE  /\ n.len[x] \div n.irax[x] = span[x]
                        /\ c[x] \div n.irax[x] \in 0..(span[x] - 1)
      OBVIOUS
    <3>1. PICK s, r : s = span[x] /\ r = a.irax[x]
      OBVIOUS
    <3>2. s \in Nat /\ r \in Nat \ {0} /\ n.len[x] = s * r /\ n.irax[x] = r
      BY <1>1, <1>3, <1>4, <3>1
    <3>3. c[x] \in 0..(n.len[x] - 1)
      BY <2>1
    <3>4. c[x] \in 0..(s * r - 1)
      BY <3>2, <3>3
    <3>5. (s * r) \div r = s /\ c[x] \div r \in 0..(s - 1)
      BY <3>2, <3>4, Quotients
    <3> QED BY <3>1, <3>2, <3>5
  <2>3. \A u \in Int, s \in Nat : \A q \in 0..(s - 1) : u + q \in u..(u + s - 1)
    OBVIOUS
  <2>4. n.coord[1] \in Int /\ n.coord[2] \in Int
    BY <1>1, <1>4
  <2>5. /\ n.coord[1] + (c[1] \div n.irax[1]) \in n.coord[1]..(n.coord[1] + (n.len[1] \div n.irax[1]) - 1)
        /\ n.coord[2] + (c[2] \div n.irax[2]) \in n.coord[2]..(n.coord[2] + (n.len[2] \div n.irax[2]) - 1)
    BY <1>3, <2>2, <2>3, <2>4
  <2> QED BY <2>5 DEF MotherOf, Covered
<1>7. \A c \in Covered(n) : c = <<c[1], c[2]>> /\ c[1] \in Int /\ c[2] \in Int
  BY DEF Covered
<1> QED BY <1>1, <1>4, <1>5, <1>6, <1>7

-------------------------------------------------------------------------------
(* What a mapping function returns *)

\* Natural numbers that have something have a least one that has it.
LEMMA LeastNat ==
  ASSUME NEW T \in SUBSET Nat, T # {}
  PROVE  \E x \in T : \A y \in T : x <= y
<1>1. \E x \in T : \A y \in T : ~ (<<y, x>> \in OpToRel(<, Nat))
  BY NatLessThanWellFounded, WFMin
<1>2. PICK x \in T : \A y \in T : ~ (<<y, x>> \in OpToRel(<, Nat))
  BY <1>1
<1>3. \A y \in T : ~ (y < x)
  BY <1>2 DEF OpToRel
<1> QED BY <1>3

LEMMA Greatest ==
  ASSUME NEW u \in Int, NEW v \in Int
  PROVE  Max({u, v}) = IF u >= v THEN u ELSE v
<1>1. \E x \in {u, v} : \A y \in {u, v} : x >= y
  BY u <= v \/ v <= u
<1>2. Max({u, v}) \in {u, v} /\ Max({u, v}) >= u /\ Max({u, v}) >= v
  BY <1>1 DEF Max
<1> QED BY <1>2

\* What is left of a row within its margins, and the processor of an index
\* when g gives those of what is left.
Inner(c) == [p |-> c.p - Width(c), max |-> c.max - 2 * Width(c) + Adjust(c),
             n |-> Max({c.n - 2, 1})]
AtMargin(c) == c.p < Width(c) \/ c.p > c.max - Width(c) - 1
Placing(g, c) == IF c.p < Width(c) THEN 0
                 ELSE IF c.p > c.max - Width(c) - 1 THEN c.n - 1
                 ELSE 1 + g[Inner(c)]

LEMMA WidthNat ==
  ASSUME NEW c \in Row
  PROVE  /\ Width(c) \in Nat /\ Adjust(c) \in {0, 1}
         /\ c.n = 1 => Width(c) = c.max
         /\ c.n = 2 => c.p < Width(c) \/ c.p > c.max - Width(c) - 1
<1>1. PICK p, m, n : /\ p = c.p /\ m = c.max /\ n = c.n
                     /\ p \in Nat /\ m \in Nat /\ n \in Nat \ {0}
  BY DEF Row
<1>2. PICK w, q, r : /\ w = Width(c) /\ q = m \div n /\ r = m % n
  OBVIOUS
<1>3. /\ q \in Nat /\ r \in 0..(n - 1)
      /\ w = q + (IF r > 0 /\ (r % 2 = 0 \/ r > 2 \/ p <= m \div 2) THEN 1 ELSE 0)
  BY <1>1, <1>2 DEF Width
<1>4. Adjust(c) \in {0, 1}
  BY DEF Adjust
<1>5. n = 1 => w = m
  <2> SUFFICES ASSUME n = 1
               PROVE  w = m
    OBVIOUS
  <2>1. m \div 1 = m /\ r = 0
    BY <1>1, <1>3
  <2> QED BY <1>1, <1>2, <1>3, <2>1
<1>6. n = 2 => p < w \/ p > m - w - 1
  <2> SUFFICES ASSUME n = 2
               PROVE  p < w \/ p > m - w - 1
    OBVIOUS
  <2>1. q = m \div 2 /\ r = m % 2 /\ m = 2 * q + r /\ r \in {0, 1}
    BY <1>1, <1>2
  <2>2. CASE r = 0
    <3>1. m = 2 * q /\ w = q
      BY <1>3, <2>1, <2>2
    <3>2. p < q \/ p > 2 * q - q - 1
      BY <1>1, <1>3
    <3> QED BY <3>1, <3>2
  <2>3. CASE r = 1 /\ p <= q
    <3>1. r > 0 /\ p <= m \div 2
      BY <2>1, <2>3
    <3>2. w = q + 1
      BY <1>3, <3>1
    <3>3. p \in Int /\ q \in Int
      BY <1>1, <1>3
    <3> QED BY <2>3, <3>2, <3>3
  <2>4. CASE r = 1 /\ p > q
    <3>1. r % 2 = 1
      BY <2>4
    <3>2. w = q
      BY <1>1, <1>3, <2>1, <2>4, <3>1
    <3>3. m = 2 * q + 1 /\ p > 2 * q + 1 - q - 1
      BY <1>1, <1>3, <2>1, <2>4
    <3>4. m - w - 1 = q /\ p \in Int /\ q \in Int
      BY <1>1, <1>3, <3>2, <3>3
    <3> QED BY <2>4, <3>4
  <2>5. r = 0 \/ r = 1
    BY <2>1
  <2>6. p \in Int /\ q \in Int
    BY <1>1, <1>3
  <2> QED BY <2>2, <2>3, <2>4, <2>5, <2>6
<1> QED BY <1>1, <1>2, <1>3, <1>4, <1>5, <1>6

\* What is left within the margins is a row of two processors less.
LEMMA InnerRow ==
  ASSUME NEW c \in Row, ~ AtMargin(c)
  PROVE  /\ Inner(c) \in Row /\ c.n > 2 /\ Inner(c).n = c.n - 2
         /\ c.p < c.max => Inner(c).p < Inner(c).max
<1>1. PICK p, m, n : /\ p = c.p /\ m = c.max /\ n = c.n
                     /\ p \in Nat /\ m \in Nat /\ n \in Nat \ {0}
  BY DEF Row
<1>2. PICK w, a : w = Width(c) /\ a = Adjust(c) /\ w \in Nat /\ a \in {0, 1}
  BY WidthNat
<1>3. p >= w /\ p <= m - w - 1
  BY <1>1, <1>2 DEF AtMargin
<1>4. n # 1
  BY <1>1, <1>2, <1>3, WidthNat
<1>5. n # 2
  BY <1>1, <1>2, <1>3, WidthNat
<1>6. n > 2 /\ Max({n - 2, 1}) = n - 2
  BY <1>1, <1>4, <1>5, Greatest
<1>7. Inner(c) = [p |-> p - w, max |-> m - 2 * w + a, n |-> n - 2]
  BY <1>1, <1>2, <1>6 DEF Inner
<1>8. p - w \in Nat /\ m - 2 * w + a \in Nat /\ p - w < m - 2 * w + a /\ n - 2 \in Nat \ {0}
  BY <1>1, <1>2, <1>3, <1>6
<1> QED BY <1>1, <1>6, <1>7, <1>8 DEF Row

\* g is the function for rows of up to N processors.
UpTo(g, N) == g = [c \in {d \in Row : d.n <= N} |-> Placing(g, c)]

LEMMA UpToAt ==
  ASSUME NEW N, NEW g, UpTo(g, N), NEW c \in Row, c.n <= N
  PROVE  g[c] = Placing(g, c)
BY DEF UpTo

LEMMA UpToNext ==
  ASSUME NEW N \in Nat, NEW g, UpTo(g, N)
  PROVE  \E h : UpTo(h, N + 1)
<1>1. /\ DOMAIN g = {d \in Row : d.n <= N}
      /\ \A c \in Row : c.n <= N => g[c] = Placing(g, c)
  BY DEF UpTo
<1>2. PICK h : h = [c \in {d \in Row : d.n <= N + 1} |-> Placing(g, c)]
  OBVIOUS
<1>3. \A c \in Row : c.n <= N => h[c] = g[c]
  <2>1. \A c \in Row : c.n <= N => c.n <= N + 1
    BY DEF Row
  <2> QED BY <1>1, <1>2, <2>1
<1>4. ASSUME NEW c \in {d \in Row : d.n <= N + 1}
      PROVE  Placing(g, c) = Placing(h, c)
  <2>1. CASE AtMargin(c)
    BY <2>1 DEF AtMargin, Placing
  <2>2. CASE ~ AtMargin(c)
    <3>1. Inner(c) \in Row /\ Inner(c).n = c.n - 2 /\ c.n \in Nat /\ c.n <= N + 1
      BY <2>2, InnerRow DEF Row
    <3>2. Inner(c).n <= N
      BY <3>1
    <3>3. h[Inner(c)] = g[Inner(c)]
      BY <1>3, <3>1, <3>2
    <3> QED BY <3>3 DEF Placing
  <2> QED BY <2>1, <2>2
<1>5. h = [c \in {d \in Row : d.n <= N + 1} |-> Placing(h, c)]
  BY <1>2, <1>4
<1> QED BY <1>5 DEF UpTo

LEMMA UpToExists ==
  ASSUME NEW N \in Nat
  PROVE  \E g : UpTo(g, N)
<1> DEFINE T == {n \in Nat : ~ \E g : UpTo(g, n)}
<1>1. SUFFICES ASSUME T # {}
               PROVE  FALSE
  OBVIOUS
<1>2. PICK n \in T : \A m \in T : n <= m
  <2>1. T \in SUBSET Nat
    OBVIOUS
  <2> HIDE DEF T
  <2> QED BY <1>1, <2>1, LeastNat
<1>3. n \in Nat /\ ~ \E g : UpTo(g, n)
  OBVIOUS
<1>4. UpTo(<< >>, 0)
  <2>1. {d \in Row : d.n <= 0} = {}
    BY DEF Row
  <2> QED BY <2>1 DEF UpTo
<1>5. n # 0 /\ n - 1 \in Nat /\ n - 1 < n /\ (n - 1) + 1 = n
  BY <1>3, <1>4
<1>6. n - 1 \notin T
  BY <1>2, <1>3, <1>5
<1>7. \E g : UpTo(g, n - 1)
  BY <1>5, <1>6
<1>8. \E g : UpTo(g, (n - 1) + 1)
  BY <1>5, <1>7, UpToNext
<1> QED BY <1>3, <1>5, <1>8

\* Two of them agree where both are defined.
LEMMA UpToAgree ==
  ASSUME NEW N \in Nat, NEW M \in Nat, NEW g, NEW h, UpTo(g, N), UpTo(h, M),
         NEW c \in Row, c.n <= N, c.n <= M
  PROVE  g[c] = h[c]
<1>1. /\ \A d \in Row : d.n <= N => g[d] = Placing(g, d)
      /\ \A d \in Row : d.n <= M => h[d] = Placing(h, d)
  BY DEF UpTo
<1> DEFINE T == {n \in Nat : \E d \in Row : d.n = n /\ n <= N /\ n <= M /\ g[d] # h[d]}
<1>2. SUFFICES ASSUME T # {}
               PROVE  FALSE
  BY DEF Row
<1>3. PICK n \in T : \A m \in T : n <= m
  <2>1. T \in SUBSET Nat
    OBVIOUS
  <2> HIDE DEF T
  <2> QED BY <1>2, <2>1, LeastNat
<1>4. PICK d \in Row : d.n = n /\ n <= N /\ n <= M /\ g[d] # h[d]
  OBVIOUS
<1>5. CASE AtMargin(d)
  BY <1>1, <1>4, <1>5 DEF AtMargin, Placing
<1>6. CASE ~ AtMargin(d)
  <2>1. Inner(d) \in Row /\ Inner(d).n = n - 2 /\ n \in Nat
    BY <1>4, <1>6, InnerRow
  <2>2. n - 2 \in Nat /\ n - 2 <= N /\ n - 2 <= M /\ n - 2 < n
    BY <1>4, <2>1 DEF Row
  <2>3. n - 2 \notin T
    BY <1>3, <2>1, <2>2
  <2>4. g[Inner(d)] = h[Inner(d)]
    BY <2>1, <2>2, <2>3
  <2> QED BY <1>1, <1>4, <2>4 DEF Placing
<1> QED BY <1>5, <1>6

\* The recursion of c_locproc is well-founded.
LEMMA LocprocDef ==
  \A c \in Row : c_locproc[c] = Placing(c_locproc, c)
<1> DEFINE IsIt(g) == g = [c \in Row |-> Placing(g, c)]
<1>1. c_locproc = CHOOSE g : IsIt(g)
  BY DEF c_locproc, Placing, Inner
<1>2. \E g : IsIt(g)
  <2> DEFINE S(n) == CHOOSE g : UpTo(g, n)
             G    == [c \in Row |-> S(c.n)[c]]
  <2>1. \A n \in Nat : UpTo(S(n), n)
    BY UpToExists
  <2>2. ASSUME NEW c \in Row
        PROVE  G[c] = Placing(G, c)
    <3>1. c.n \in Nat /\ UpTo(S(c.n), c.n)
      BY <2>1 DEF Row
    <3>2. G[c] = S(c.n)[c] /\ S(c.n)[c] = Placing(S(c.n), c)
      <4>1. G[c] = S(c.n)[c]
        OBVIOUS
      <4>2. PICK g : g = S(c.n) /\ UpTo(g, c.n)
        BY <3>1
      <4>3. g[c] = Placing(g, c)
        BY <3>1, <4>2, UpToAt
      <4> HIDE DEF S
      <4> QED BY <4>1, <4>2, <4>3
    <3>3. CASE AtMargin(c)
      BY <3>2, <3>3 DEF AtMargin, Placing
    <3>4. CASE ~ AtMargin(c)
      <4>1. Inner(c) \in Row /\ Inner(c).n = c.n - 2 /\ c.n > 2
        BY <3>4, InnerRow
      <4>2. Inner(c).n \in Nat /\ Inner(c).n <= c.n
        BY <3>1, <4>1
      <4>3. UpTo(S(Inner(c).n), Inner(c).n)
        BY <2>1, <4>2
      <4> HIDE DEF S
      <4>4. S(c.n)[Inner(c)] = S(Inner(c).n)[Inner(c)]
        BY <3>1, <4>1, <4>2, <4>3, UpToAgree
      <4>5. G[Inner(c)] = S(c.n)[Inner(c)]
        BY <4>1, <4>4
      <4> QED BY <3>2, <4>5 DEF Placing
    <3> QED BY <3>3, <3>4
  <2>3. G = [c \in Row |-> G[c]]
    OBVIOUS
  <2> HIDE DEF G
  <2>4. [c \in Row |-> G[c]] = [c \in Row |-> Placing(G, c)]
    BY <2>2
  <2>5. IsIt(G)
    BY <2>3, <2>4
  <2> HIDE DEF IsIt
  <2>6. IsIt(G)
    BY <2>5
  <2> QED BY <2>6
<1>3. IsIt(c_locproc)
  <2> HIDE DEF IsIt
  <2> QED BY <1>1, <1>2
<1>4. PICK f : f = c_locproc
  OBVIOUS
<1>5. f = [c \in Row |-> Placing(f, c)]
  BY <1>3, <1>4
<1>6. \A c \in Row : f[c] = Placing(f, c)
  BY <1>5
<1> QED BY <1>4, <1>6

\* c_locproc places every index of a row, of any length and among any number of
\* processors, on a processor of the row: the recursion from the margins inwards
\* ends (border.c).
THEOREM LocprocInRange ==
  ASSUME NEW len \in Nat, NEW nproc \in Nat \ {0}, NEW i \in 0..(len - 1)
  PROVE  Locproc(i, len, nproc) \in 0..(nproc - 1)
<1> DEFINE T == {n \in Nat : \E c \in Row : c.n = n /\ c.p < c.max /\ c_locproc[c] \notin 0..(n - 1)}
<1>1. [p |-> i, max |-> len, n |-> nproc] \in Row
  BY DEF Row
<1>2. SUFFICES ASSUME T # {}
               PROVE  FALSE
  BY <1>1 DEF Locproc
<1>3. PICK n \in T : \A m \in T : n <= m
  <2>1. T \in SUBSET Nat
    OBVIOUS
  <2> HIDE DEF T
  <2> QED BY <1>2, <2>1, LeastNat
<1>4. PICK c \in Row : c.n = n /\ c.p < c.max /\ c_locproc[c] \notin 0..(n - 1)
  OBVIOUS
<1>5. n \in Nat \ {0}
  BY <1>4 DEF Row
<1>6. CASE AtMargin(c)
  BY <1>4, <1>5, <1>6, LocprocDef DEF AtMargin, Placing
<1>7. CASE ~ AtMargin(c)
  <2>1. Inner(c) \in Row /\ Inner(c).n = n - 2 /\ n > 2 /\ Inner(c).p < Inner(c).max
    BY <1>4, <1>7, InnerRow
  <2>2. n - 2 \in Nat /\ n - 2 \notin T
    BY <1>3, <1>5, <2>1
  <2>3. c_locproc[Inner(c)] \in 0..(n - 3)
    BY <2>1, <2>2
  <2>4. c_locproc[c] = 1 + c_locproc[Inner(c)]
    BY <1>7, LocprocDef DEF AtMargin, Placing
  <2> QED BY <1>4, <1>5, <2>1, <2>3, <2>4
<1> QED BY <1>6, <1>7
LEMMA Least ==
  ASSUME NEW u \in Int, NEW v \in Int
  PROVE  Min({u, v}) \in {u, v} /\ Min({u, v}) <= u /\ Min({u, v}) <= v
<1>1. \E x \in {u, v} : \A y \in {u, v} : x =< y
  BY u <= v \/ v <= u
<1> QED BY <1>1 DEF Min

\* A row and a column of processors are a processor.
LEMMA RowAndColumn ==
  ASSUME NEW mesh, mesh[1] \in 1..Mesh[1], mesh[2] \in 1..Mesh[2],
         NEW x \in 0..(mesh[1] - 1), NEW y \in 0..(mesh[2] - 1)
  PROVE  x * mesh[2] + y \in Proc
<1>1. PICK a, b, A, B : a = mesh[1] /\ b = mesh[2] /\ A = Mesh[1] /\ B = Mesh[2]
  OBVIOUS
<1>2. A \in Nat \ {0} /\ B \in Nat \ {0} /\ a \in 1..A /\ b \in 1..B
  BY <1>1, DomainAssumption
<1>3. x \in Nat /\ x <= a - 1 /\ y \in Nat /\ y <= b - 1 /\ a \in Nat /\ b \in Nat
  BY <1>1, <1>2
<1>4. x * b \in Nat /\ x * b <= (a - 1) * b
  BY <1>3
<1>5. a * b <= A * b /\ A * b <= A * B
  BY <1>2, <1>3
<1>6. (a - 1) * b = a * b - b
  BY <1>2, <1>3
<1>7. a * b \in Int /\ A * B \in Int /\ A * b \in Int
  BY <1>2, <1>3
<1> HIDE <1>2
<1>8. x * b + y \in 0..(A * B - 1)
  BY <1>3, <1>4, <1>5, <1>6, <1>7
<1> QED BY <1>1, <1>8 DEF Proc

LEMMA PatchmapFits ==
  ASSUME NEW size, size[1] \in Nat \ {0}, size[2] \in Nat \ {0},
         NEW mesh, mesh[1] \in 1..Mesh[1], mesh[2] \in 1..Mesh[2],
         NEW newP, newP = Patchmap(size, mesh)
  PROVE  /\ OnCells(newP, Cells(size[1], size[2]))
         /\ \A c \in Cells(size[1], size[2]) : newP[c] \in Proc
<1>1. PICK row, col :
        /\ row = [i \in 0..(size[1] - 1) |-> Locproc(i, size[1], mesh[1])]
        /\ col = [j \in 0..(size[2] - 1) |-> Locproc(j, size[2], mesh[2])]
  OBVIOUS
<1>2. newP = [c \in Cells(size[1], size[2]) |-> row[c[1]] * mesh[2] + col[c[2]]]
  BY <1>1 DEF Patchmap
<1>3. OnCells(newP, Cells(size[1], size[2]))
  BY <1>2 DEF OnCells
<1>4. ASSUME NEW c \in Cells(size[1], size[2])
      PROVE  newP[c] \in Proc
  <2>1. c[1] \in 0..(size[1] - 1) /\ c[2] \in 0..(size[2] - 1)
    BY DEF Cells
  <2>2. mesh[1] \in Nat \ {0} /\ mesh[2] \in Nat \ {0} /\ size[1] \in Nat /\ size[2] \in Nat
    BY DomainAssumption
  <2>3. row[c[1]] \in 0..(mesh[1] - 1) /\ col[c[2]] \in 0..(mesh[2] - 1)
    BY <1>1, <2>1, <2>2, LocprocInRange
  <2>4. row[c[1]] * mesh[2] + col[c[2]] \in Proc
    BY <2>3, RowAndColumn
  <2> QED BY <1>2, <2>4
<1> QED BY <1>3, <1>4

LEMMA RegionFits ==
  ASSUME NEW size, size[1] \in Nat \ {0}, size[2] \in Nat \ {0},
         NEW mesh, mesh[1] \in 1..Mesh[1], mesh[2] \in 1..Mesh[2],
         NEW newP \in DecompRegion(size, mesh)
  PROVE  /\ OnCells(newP, Cells(size[1], size[2]))
         /\ \A c \in Cells(size[1], size[2]) : newP[c] \in Proc
<1> DEFINE n_py == (size[1] * size[2]) \div mesh[1]
           n_px == n_py \div mesh[2]
           row  == [c \in Cells(size[1], size[2]) |->
                      Min({(c[1] * size[2] + c[2]) \div n_py, mesh[1] - 1})]
           before(c) == {e \in DOMAIN row : /\ row[e] = row[c]
                                            /\ e[2] < c[2] \/ (e[2] = c[2] /\ e[1] < c[1])}
<1>1. /\ n_px > 0
      /\ newP = [c \in DOMAIN row |->
                   row[c] * mesh[2] + Min({Cardinality(before(c)) \div n_px, mesh[2] - 1})]
  BY DEF DecompRegion
<1>2. mesh[1] \in Nat \ {0} /\ mesh[2] \in Nat \ {0}
  BY DomainAssumption
<1>3. n_py \in Nat \ {0} /\ n_px \in Nat \ {0}
  <2>1. size[1] * size[2] \in Nat
    OBVIOUS
  <2>2. n_py \in Nat
    BY <1>2, <2>1
  <2>3. n_px \in Nat
    BY <1>2, <2>2
  <2>4. n_py # 0
    <3> SUFFICES ASSUME n_py = 0
                 PROVE  FALSE
      OBVIOUS
    <3>1. n_px = 0 \div mesh[2]
      OBVIOUS
    <3>2. \A m \in Nat \ {0} : 0 \div m = 0
      OBVIOUS
    <3> QED BY <1>1, <1>2, <3>1, <3>2
  <2> QED BY <1>1, <2>2, <2>3, <2>4
<1>4. DOMAIN row = Cells(size[1], size[2])
  OBVIOUS
<1>5. OnCells(newP, Cells(size[1], size[2]))
  BY <1>1 DEF OnCells
<1>6. \A u \in Nat, v \in Nat \ {0} : u \div v \in Nat
  OBVIOUS
<1>7. ASSUME NEW u \in Nat, NEW m \in Nat \ {0}
      PROVE  Min({u, m - 1}) \in 0..(m - 1)
  <2>1. PICK v : v = m - 1
    OBVIOUS
  <2>2. v \in Int /\ u \in Int /\ v >= 0
    BY <2>1
  <2>3. Min({u, v}) \in {u, v} /\ Min({u, v}) <= u /\ Min({u, v}) <= v
    BY <2>2, Least
  <2>4. Min({u, v}) \in 0..v
    BY <2>2, <2>3
  <2> QED BY <2>1, <2>4
<1>8. ASSUME NEW c \in Cells(size[1], size[2])
      PROVE  newP[c] \in Proc
  <2>1. c[1] \in Nat /\ c[2] \in Nat
    BY DEF Cells
  <2>2. c[1] * size[2] + c[2] \in Nat
    BY <2>1
  <2>3. row[c] = Min({(c[1] * size[2] + c[2]) \div n_py, mesh[1] - 1})
    OBVIOUS
  <2>4. (c[1] * size[2] + c[2]) \div n_py \in Nat
    BY <1>3, <1>6, <2>2
  <2>5. row[c] \in 0..(mesh[1] - 1)
    BY <1>2, <1>7, <2>3, <2>4
  <2>6. Cardinality(before(c)) \in Nat
    <3>0. size[1] - 1 \in Int /\ size[2] - 1 \in Int /\ 0 \in Int
      OBVIOUS
    <3>1. IsFiniteSet(0..(size[1] - 1)) /\ IsFiniteSet(0..(size[2] - 1))
      BY <3>0, FS_Interval
    <3>2. IsFiniteSet(Cells(size[1], size[2]))
      BY <3>1, FS_Product DEF Cells
    <3>3. before(c) \subseteq Cells(size[1], size[2])
      BY <1>4
    <3> QED BY <3>2, <3>3, FS_Subset, FS_CardinalityType
  <2>7. Cardinality(before(c)) \div n_px \in Nat
    BY <1>3, <1>6, <2>6
  <2>8. newP[c] = row[c] * mesh[2] + Min({Cardinality(before(c)) \div n_px, mesh[2] - 1})
    BY <1>1, <1>4
  <2>9. Min({Cardinality(before(c)) \div n_px, mesh[2] - 1}) \in 0..(mesh[2] - 1)
    BY <1>2, <1>7, <2>7
  <2> HIDE DEF row, before, n_px
  <2> QED BY <2>5, <2>8, <2>9, RowAndColumn
<1> HIDE DEF row, before, n_px
<1> QED BY <1>5, <1>8

LEMMA DecompositionsFit ==
  ASSUME NEW f, NEW size, size[1] \in Nat \ {0}, size[2] \in Nat \ {0},
         NEW mesh, mesh[1] \in 1..Mesh[1], mesh[2] \in 1..Mesh[2],
         NEW newP \in Decompositions(f, size, mesh)
  PROVE  /\ OnCells(newP, Cells(size[1], size[2]))
         /\ \A c \in Cells(size[1], size[2]) : newP[c] \in Proc
<1>1. CASE newP = Patchmap(size, mesh)
  BY <1>1, PatchmapFits
<1>2. CASE newP \in DecompRegion(size, mesh)
  BY <1>2, RegionFits
<1>3. CASE size \in DOMAIN Mapped /\ newP \in Mapped[size]
  <2>1. newP \in [Cells(size[1], size[2]) -> Proc]
    BY <1>3, DomainAssumption
  <2> QED BY <2>1 DEF OnCells
<1> QED BY <1>1, <1>2, <1>3 DEF Decompositions

-------------------------------------------------------------------------------
(* Linking a nest to its parent *)

LEMMA LinkedFacts ==
  ASSUME NEW k \in Nat, OnCells(info, 1..k), \A x \in 1..k : DOMAIN info[x] = Fields,
         NEW n, n.par \in 1..k, NEW d, d = k + 1, NEW g, g = Linked(n, d)
  PROVE  /\ DOMAIN g = 1..d /\ OnCells(g, 1..d) /\ Len(g) = d
         /\ SamePlace(g[d], n)
         /\ OnCells(g[d].P, CellsOf(n)) /\ OnCells(g[d].over, CellsOf(n))
         /\ OnCells(g[d].mother_P, CellsOf(n)) /\ OnCells(g[d].kid_P, CellsOf(n))
         /\ \A c \in CellsOf(n) : g[d].over[c] = 0
         /\ \A x \in 1..k :
              /\ SamePlace(g[x], info[x])
              /\ g[x].P = info[x].P /\ g[x].mother_P = info[x].mother_P
              /\ g[x].kid_P = info[x].kid_P
              /\ OnCells(info[x].over, DOMAIN info[x].over) => OnCells(g[x].over, DOMAIN info[x].over)
              /\ \A c \in DOMAIN info[x].over :
                   g[x].over[c] = IF x = n.par /\ c \in Covered(n) THEN d ELSE info[x].over[c]
<1>1. d \in Nat /\ d \in 1..d /\ \A x \in 1..k : x \in 1..d /\ x # d
  OBVIOUS
<1>2. PICK e : e = [par |-> n.par, coord |-> n.coord, len |-> n.len, eff |-> n.eff,
                    trim |-> n.trim, irax |-> n.irax,
                    P |-> [c \in CellsOf(n) |-> INVALID], mother_P |-> [c \in CellsOf(n) |-> 0],
                    kid_P |-> [c \in CellsOf(n) |-> 0], over |-> [c \in CellsOf(n) |-> 0]]
  OBVIOUS
<1>3. g = [x \in 1..d |->
             IF x = d THEN e
             ELSE IF x = n.par
             THEN [info[x] EXCEPT !.over = [c \in DOMAIN @ |-> IF c \in Covered(n) THEN d ELSE @[c]]]
             ELSE info[x]]
  BY <1>2 DEF Linked
<1>4. DOMAIN g = 1..d /\ OnCells(g, 1..d)
  BY <1>3 DEF OnCells
<1>5. Len(g) = d
  BY <1>1, <1>4, LengthIs
<1>6. /\ SamePlace(g[d], n)
      /\ OnCells(g[d].P, CellsOf(n)) /\ OnCells(g[d].over, CellsOf(n))
      /\ OnCells(g[d].mother_P, CellsOf(n)) /\ OnCells(g[d].kid_P, CellsOf(n))
      /\ \A c \in CellsOf(n) : g[d].over[c] = 0
  <2>1. g[d] = e
    BY <1>1, <1>3
  <2>2. SamePlace(e, n)
    BY <1>2 DEF SamePlace, Fields
  <2>3. /\ e.P = [c \in CellsOf(n) |-> INVALID] /\ e.mother_P = [c \in CellsOf(n) |-> 0]
        /\ e.kid_P = [c \in CellsOf(n) |-> 0] /\ e.over = [c \in CellsOf(n) |-> 0]
    BY <1>2
  <2>4. /\ OnCells(e.P, CellsOf(n)) /\ OnCells(e.over, CellsOf(n))
        /\ OnCells(e.mother_P, CellsOf(n)) /\ OnCells(e.kid_P, CellsOf(n))
    BY <2>3 DEF OnCells
  <2> QED BY <2>1, <2>2, <2>3, <2>4
<1>7. ASSUME NEW x \in 1..k
      PROVE  /\ SamePlace(g[x], info[x])
             /\ g[x].P = info[x].P /\ g[x].mother_P = info[x].mother_P
             /\ g[x].kid_P = info[x].kid_P
             /\ OnCells(info[x].over, DOMAIN info[x].over) => OnCells(g[x].over, DOMAIN info[x].over)
             /\ \A c \in DOMAIN info[x].over :
                  g[x].over[c] = IF x = n.par /\ c \in Covered(n) THEN d ELSE info[x].over[c]
  <2>1. PICK i : i = info[x]
    OBVIOUS
  <2>2. DOMAIN i = Fields
    BY <2>1
  <2>3. CASE x = n.par
    <3>0. x \in 1..d /\ x # d
      BY <1>1
    <3>1. g[x] = [i EXCEPT !.over = [c \in DOMAIN @ |-> IF c \in Covered(n) THEN d ELSE @[c]]]
      BY <1>3, <2>1, <2>3, <3>0, ZenonT(60)
    <3>2. /\ SamePlace(g[x], i)
          /\ g[x].P = i.P /\ g[x].mother_P = i.mother_P /\ g[x].kid_P = i.kid_P
          /\ g[x].over = [c \in DOMAIN i.over |-> IF c \in Covered(n) THEN d ELSE i.over[c]]
      <4>1. /\ DOMAIN g[x] = Fields
            /\ \A f \in Fields : f # "over" => g[x][f] = i[f]
        BY <2>2, <3>1 DEF Fields
      <4>2. g[x].over = [c \in DOMAIN i.over |-> IF c \in Covered(n) THEN d ELSE i.over[c]]
        BY <2>2, <3>1 DEF Fields
      <4>3. {"par", "coord", "len", "eff", "trim", "irax", "P", "mother_P", "kid_P"} \subseteq Fields
        BY DEF Fields
      <4>4. /\ g[x].par = i.par /\ g[x].coord = i.coord /\ g[x].len = i.len /\ g[x].eff = i.eff
            /\ g[x].trim = i.trim /\ g[x].irax = i.irax
            /\ g[x].P = i.P /\ g[x].mother_P = i.mother_P /\ g[x].kid_P = i.kid_P
        BY ONLY <4>1, <4>3
      <4> QED BY <4>1, <4>2, <4>4 DEF SamePlace
    <3>3. OnCells(g[x].over, DOMAIN i.over)
      BY <3>2 DEF OnCells
    <3> QED BY <2>1, <2>3, <3>2, <3>3
  <2>4. CASE x # n.par
    <3>1. g[x] = i
      BY <1>1, <1>3, <2>1, <2>4
    <3> QED BY <2>1, <2>2, <2>4, <3>1 DEF SamePlace
  <2> QED BY <2>3, <2>4
<1> QED BY <1>4, <1>5, <1>6, <1>7

\* A nest that fits lies over its parent.
LEMMA LinkedShape ==
  ASSUME TreeInv, NEW a \in NestCalls, a.par \in Domains, NEW n, n = Spawned(a), Fits(n),
         NEW d, d = Len(info) + 1, NEW g, g = Linked(n, d)
  PROVE  /\ DOMAIN g = 1..d /\ OnCells(g, 1..d) /\ Len(g) = d
         /\ SamePlace(g[d], n)
         /\ \A x \in 1..d : ShapeOf(g, x)
<1>1. PICK k : k = Len(info)
  OBVIOUS
<1>2. /\ k \in Nat /\ OnCells(info, 1..k) /\ DOMAIN info = 1..k /\ Domains = 1..k /\ d = k + 1
      /\ \A x \in 1..k : ShapeOf(info, x)
  BY <1>1 DEF TreeInv, OnCells, Domains
<1>3. /\ n.par = a.par /\ n.par \in 1..k
      /\ \A x \in 1..2 : /\ n.len[x] \in Nat \ {0} /\ n.eff[x] \in Nat /\ n.trim[x] \in Nat
                         /\ n.eff[x] <= n.len[x]
                         /\ n.eff[x] \in {n.len[x], n.len[x] - n.trim[x]}
      /\ \A c \in CellsOf(n) : MotherOf(n, c) \in Covered(n)
      /\ \A c \in Covered(n) : c = <<c[1], c[2]>> /\ c[1] \in Int /\ c[2] \in Int
  BY <1>2, SpawnedFacts
<1>4. \A x \in 1..k : DOMAIN info[x] = Fields
  BY <1>2 DEF ShapeOf
<1>10. d = k + 1 /\ n.par \in 1..k
  BY <1>2, <1>3
<1>11. /\ DOMAIN g = 1..d /\ OnCells(g, 1..d) /\ Len(g) = d
       /\ SamePlace(g[d], n)
       /\ OnCells(g[d].P, CellsOf(n)) /\ OnCells(g[d].over, CellsOf(n))
       /\ OnCells(g[d].mother_P, CellsOf(n)) /\ OnCells(g[d].kid_P, CellsOf(n))
       /\ \A c \in CellsOf(n) : g[d].over[c] = 0
  BY <1>2, <1>4, <1>10, LinkedFacts
<1>12. \A x \in 1..k :
         /\ SamePlace(g[x], info[x])
         /\ g[x].P = info[x].P /\ g[x].mother_P = info[x].mother_P
         /\ g[x].kid_P = info[x].kid_P
         /\ \A c \in DOMAIN info[x].over :
              g[x].over[c] = IF x = n.par /\ c \in Covered(n) THEN d ELSE info[x].over[c]
  BY <1>2, <1>4, <1>10, LinkedFacts
<1>13. \A x \in 1..k :
         OnCells(info[x].over, DOMAIN info[x].over) => OnCells(g[x].over, DOMAIN info[x].over)
  BY <1>2, <1>4, <1>10, LinkedFacts
<1>5. /\ DOMAIN g = 1..d /\ OnCells(g, 1..d) /\ Len(g) = d
      /\ SamePlace(g[d], n)
      /\ OnCells(g[d].P, CellsOf(n)) /\ OnCells(g[d].over, CellsOf(n))
      /\ OnCells(g[d].mother_P, CellsOf(n)) /\ OnCells(g[d].kid_P, CellsOf(n))
      /\ \A c \in CellsOf(n) : g[d].over[c] = 0
      /\ \A x \in 1..k :
           /\ SamePlace(g[x], info[x])
           /\ g[x].P = info[x].P /\ g[x].mother_P = info[x].mother_P
           /\ g[x].kid_P = info[x].kid_P
           /\ OnCells(info[x].over, DOMAIN info[x].over) => OnCells(g[x].over, DOMAIN info[x].over)
           /\ \A c \in DOMAIN info[x].over :
                g[x].over[c] = IF x = n.par /\ c \in Covered(n) THEN d ELSE info[x].over[c]
  BY <1>11, <1>12, <1>13
<1>6. \A x \in 1..k : CellsOf(g[x]) = CellsOf(info[x]) /\ g[x].eff = info[x].eff
  BY <1>5, SamePlaceFacts DEF SamePlace
<1>7. ShapeOf(g, d)
  <2>1. /\ CellsOf(g[d]) = CellsOf(n) /\ Covered(g[d]) = Covered(n)
        /\ \A c : MotherOf(g[d], c) = MotherOf(n, c)
    BY <1>5, SamePlaceFacts
  <2>2. /\ DOMAIN g[d] = Fields /\ g[d].par = n.par /\ g[d].len = n.len /\ g[d].eff = n.eff
        /\ g[d].trim = n.trim
    BY <1>5 DEF SamePlace
  <2>3. \A c \in Covered(n) : \A x \in 1..2 : c[x] \in 0..(info[n.par].eff[x] - 1)
    BY DEF Fits
  <2>4. Covered(n) \subseteq CellsOf(info[n.par])
    <3> SUFFICES ASSUME NEW c \in Covered(n)
                 PROVE  c \in CellsOf(info[n.par])
      OBVIOUS
    <3>1. \A x \in 1..2 : /\ info[n.par].len[x] \in Nat /\ info[n.par].eff[x] \in Nat
                          /\ info[n.par].eff[x] <= info[n.par].len[x]
      BY <1>2, <1>3 DEF ShapeOf
    <3>2. \A x \in 1..2 : c[x] \in 0..(info[n.par].len[x] - 1)
      <4> SUFFICES ASSUME NEW x \in 1..2
                   PROVE  c[x] \in 0..(info[n.par].len[x] - 1)
        OBVIOUS
      <4>1. PICK l, e, i : l = info[n.par].len[x] /\ e = info[n.par].eff[x] /\ i = c[x]
        OBVIOUS
      <4>2. i \in 0..(e - 1)
        BY <2>3, <4>1
      <4>3. l \in Nat /\ e \in Nat /\ e <= l
        BY <3>1, <4>1
      <4>4. i \in 0..(l - 1)
        BY <4>2, <4>3
      <4> QED BY <4>1, <4>4
    <3>3. c = <<c[1], c[2]>>
      BY <1>3
    <3>4. c[1] \in 0..(info[n.par].len[1] - 1) /\ c[2] \in 0..(info[n.par].len[2] - 1)
      BY <3>2
    <3> QED BY <3>3, <3>4 DEF CellsOf, Cells
  <2>5. n.par \in 0..(d - 1)
    BY <1>2, <1>3
  <2>6. CellsOf(g[n.par]) = CellsOf(info[n.par]) /\ g[n.par].eff = info[n.par].eff
    BY <1>3, <1>6
  <2>7. /\ OnCells(g[d].P, CellsOf(g[d])) /\ OnCells(g[d].over, CellsOf(g[d]))
        /\ OnCells(g[d].mother_P, CellsOf(g[d])) /\ OnCells(g[d].kid_P, CellsOf(g[d]))
        /\ \A c \in CellsOf(g[d]) : g[d].over[c] \in {0} \union ((d + 1)..Len(g))
    BY <1>5, <2>1
  <2>8. /\ Covered(g[d]) \subseteq CellsOf(g[g[d].par])
        /\ \A c \in Covered(g[d]) : \A x \in 1..2 : c[x] \in 0..(g[g[d].par].eff[x] - 1)
        /\ \A c \in CellsOf(g[d]) : MotherOf(g[d], c) \in Covered(g[d])
    <3>1. CellsOf(g[g[d].par]) = CellsOf(info[n.par]) /\ g[g[d].par].eff = info[n.par].eff
      BY <2>2, <2>6
    <3> QED BY <1>3, <2>1, <2>3, <2>4, <3>1
  <2>9. \A x \in 1..2 : /\ g[d].len[x] \in Nat \ {0} /\ g[d].eff[x] \in Nat
                         /\ g[d].trim[x] \in Nat /\ g[d].eff[x] <= g[d].len[x]
                         /\ g[d].eff[x] \in {g[d].len[x], g[d].len[x] - g[d].trim[x]}
    BY <1>3, <2>2
  <2> QED BY <2>2, <2>5, <2>7, <2>8, <2>9 DEF ShapeOf
<1>8. ASSUME NEW x \in 1..k
      PROVE  ShapeOf(g, x)
  <2>1. SamePlace(g[x], info[x]) /\ ShapeOf(info, x)
    BY <1>2, <1>5
  <2>2. /\ CellsOf(g[x]) = CellsOf(info[x]) /\ Covered(g[x]) = Covered(info[x])
        /\ \A c : MotherOf(g[x], c) = MotherOf(info[x], c)
    BY <2>1, SamePlaceFacts
  <2>3. DOMAIN g[x] = Fields /\ g[x].par = info[x].par /\ g[x].par \in 0..(x - 1)
    BY <2>1 DEF SamePlace, ShapeOf
  <2>4. OnCells(g[x].P, CellsOf(g[x]))
    BY <1>5, <2>1, <2>2 DEF ShapeOf
  <2>5. /\ OnCells(g[x].over, CellsOf(g[x]))
        /\ \A c \in CellsOf(g[x]) : g[x].over[c] \in {0} \union ((x + 1)..Len(g))
    <3>1. /\ OnCells(info[x].over, CellsOf(info[x]))
          /\ \A c \in CellsOf(info[x]) : info[x].over[c] \in {0} \union ((x + 1)..k)
      BY <1>1, <2>1 DEF ShapeOf
    <3>2. DOMAIN info[x].over = CellsOf(info[x])
      BY <3>1 DEF OnCells
    <3>3. OnCells(g[x].over, CellsOf(info[x]))
      BY <1>5, <3>1, <3>2
    <3>4. d \in (x + 1)..d /\ \A y \in (x + 1)..k : y \in (x + 1)..d
      BY <1>2
    <3>5. \A c \in CellsOf(info[x]) : g[x].over[c] \in {0} \union ((x + 1)..d)
      <4> SUFFICES ASSUME NEW c \in CellsOf(info[x])
                   PROVE  g[x].over[c] \in {0} \union ((x + 1)..d)
        OBVIOUS
      <4>1. g[x].over[c] = d \/ g[x].over[c] = info[x].over[c]
        BY <1>5, <3>2
      <4> QED BY <3>1, <3>4, <4>1
    <3> QED BY <1>5, <2>2, <3>3, <3>5
  <2>6. \A y \in 1..2 : /\ g[x].len[y] \in Nat \ {0} /\ g[x].eff[y] \in Nat /\ g[x].trim[y] \in Nat
                       /\ g[x].eff[y] <= g[x].len[y]
                       /\ g[x].eff[y] \in {g[x].len[y], g[x].len[y] - g[x].trim[y]}
    BY <2>1 DEF ShapeOf, SamePlace
  <2>7. ASSUME g[x].par # 0
        PROVE  /\ OnCells(g[x].mother_P, CellsOf(g[x]))
               /\ OnCells(g[x].kid_P, CellsOf(g[x]))
               /\ Covered(g[x]) \subseteq CellsOf(g[g[x].par])
               /\ \A c \in Covered(g[x]) : \A y \in 1..2 : c[y] \in 0..(g[g[x].par].eff[y] - 1)
               /\ \A c \in CellsOf(g[x]) : MotherOf(g[x], c) \in Covered(g[x])
    <3>1. /\ OnCells(info[x].mother_P, CellsOf(info[x]))
          /\ OnCells(info[x].kid_P, CellsOf(info[x]))
          /\ Covered(info[x]) \subseteq CellsOf(info[info[x].par])
          /\ \A c \in Covered(info[x]) :
               \A y \in 1..2 : c[y] \in 0..(info[info[x].par].eff[y] - 1)
          /\ \A c \in CellsOf(info[x]) : MotherOf(info[x], c) \in Covered(info[x])
      BY <2>1, <2>3, <2>7 DEF ShapeOf
    <3>2. g[x].par \in 1..k
      BY <1>2, <2>3, <2>7
    <3>3. CellsOf(g[g[x].par]) = CellsOf(info[g[x].par]) /\ g[g[x].par].eff = info[g[x].par].eff
      BY <1>6, <3>2
    <3>4. g[x].mother_P = info[x].mother_P /\ g[x].kid_P = info[x].kid_P
      BY <1>5
    <3> QED BY <2>2, <2>3, <3>1, <3>3, <3>4
  <2> QED BY <2>2, <2>3, <2>4, <2>5, <2>6, <2>7 DEF ShapeOf
<1>9. \A x \in 1..d : x \in 1..k \/ x = d
  BY <1>2
<1> QED BY <1>5, <1>7, <1>8, <1>9

\* Nobody that is still in a record is misled by a new nest.
LEMMA LinkedAgrees ==
  ASSUME TreeInv, \A x \in Domains : AgreesOf(info, x),
         NEW a \in NestCalls, a.par \in Domains, NEW n, n = Spawned(a), Fits(n),
         NEW d, d = Len(info) + 1, NEW g, g = Linked(n, d)
  PROVE  \A x \in 1..d : x # d => AgreesOf(g, x)
<1>1. PICK k : k = Len(info)
  OBVIOUS
<1>2. /\ k \in Nat /\ OnCells(info, 1..k) /\ DOMAIN info = 1..k /\ Domains = 1..k /\ d = k + 1
      /\ \A x \in 1..k : ShapeOf(info, x)
  BY <1>1 DEF TreeInv, OnCells, Domains
<1>3. n.par = a.par /\ n.par \in 1..k
  BY <1>2, SpawnedFacts
<1>4. \A x \in 1..k : DOMAIN info[x] = Fields
  BY <1>2 DEF ShapeOf
<1>5. \A x \in 1..k :
        /\ SamePlace(g[x], info[x])
        /\ g[x].P = info[x].P /\ g[x].mother_P = info[x].mother_P
        /\ g[x].kid_P = info[x].kid_P
        /\ \A c \in DOMAIN info[x].over :
             g[x].over[c] = IF x = n.par /\ c \in Covered(n) THEN d ELSE info[x].over[c]
  BY <1>2, <1>3, <1>4, LinkedFacts
<1>6. \A x \in 1..d : x # d => x \in 1..k
  BY <1>2
<1> SUFFICES ASSUME NEW x \in 1..k, g[x].par # 0, NEW c \in CellsOf(g[x]), InRecord(g, x, c)
             PROVE  /\ g[x].mother_P[c] = g[g[x].par].P[MotherOf(g[x], c)]
                    /\ g[x].kid_P[c] = g[x].P[c]
  BY <1>6 DEF AgreesOf
<1>7. SamePlace(g[x], info[x]) /\ ShapeOf(info, x) /\ AgreesOf(info, x)
  BY <1>2, <1>5
<1>8. /\ g[x].par = info[x].par /\ info[x].par # 0 /\ info[x].par \in 0..(x - 1)
      /\ CellsOf(g[x]) = CellsOf(info[x]) /\ MotherOf(g[x], c) = MotherOf(info[x], c)
  <2>1. g[x].par = info[x].par
    BY <1>7 DEF SamePlace
  <2>2. info[x].par # 0 /\ info[x].par \in 0..(x - 1)
    BY <1>7, <2>1 DEF ShapeOf
  <2>3. CellsOf(g[x]) = CellsOf(info[x]) /\ MotherOf(g[x], c) = MotherOf(info[x], c)
    BY <1>7, SamePlaceFacts
  <2> QED BY <2>1, <2>2, <2>3
<1>9. PICK p, m : p = info[x].par /\ m = MotherOf(info[x], c)
  OBVIOUS
<1>10. p \in 1..k /\ x # d
  BY <1>2, <1>8, <1>9
<1>11. m \in CellsOf(info[p])
  BY <1>7, <1>8, <1>9 DEF ShapeOf
<1>12. m \in DOMAIN info[p].over
  <2>1. OnCells(info[p].over, CellsOf(info[p]))
    BY <1>2, <1>10 DEF ShapeOf
  <2> QED BY <1>11, <2>1 DEF OnCells
<1>13. g[p].over[m] = x
  BY <1>8, <1>9 DEF InRecord
<1>14. info[p].over[m] = x
  BY <1>5, <1>10, <1>12, <1>13
<1>15. InRecord(info, x, c)
  BY <1>9, <1>14 DEF InRecord
<1>16. /\ info[x].mother_P[c] = info[p].P[m]
       /\ info[x].kid_P[c] = info[x].P[c]
  BY <1>7, <1>8, <1>9, <1>15 DEF AgreesOf
<1>17. g[p].P = info[p].P /\ g[x].mother_P = info[x].mother_P /\ g[x].kid_P = info[x].kid_P
       /\ g[x].P = info[x].P
  BY <1>5, <1>10
<1>18. g[x].par = p /\ MotherOf(g[x], c) = m
  BY <1>8, <1>9
<1> QED BY <1>16, <1>17, <1>18

-------------------------------------------------------------------------------
(* The calls *)

\* A whole tree, in which everybody knows what they should.
GoodTree(g) ==
  /\ Len(g) \in Nat /\ Len(g) <= RSL_MAXDOMAINS /\ OnCells(g, 1..Len(g))
  /\ \A x \in 1..Len(g) : ShapeOf(g, x) /\ AgreesOf(g, x)

LocalInv == /\ cuts \in 0..MaxCut
            /\ OnCells(local, 1..Len(info))
            /\ \A d \in 1..Len(info) : DOMAIN local[d] = Proc

Inv == GoodTree(info) /\ LocalInv

LEMMA DecomposedGood ==
  ASSUME NEW k \in Nat, k <= RSL_MAXDOMAINS, NEW g, DOMAIN g = 1..k, Len(g) = k,
         \A x \in 1..k : ShapeOf(g, x),
         NEW d \in 1..k, \A x \in 1..k : x # d => AgreesOf(g, x),
         NEW newP, OnCells(newP, CellsOf(g[d])),
         NEW h, h = Decompose(g, d, newP)
  PROVE  GoodTree(h) /\ Len(h) = k
<1>1. /\ \A x \in DOMAIN g : DOMAIN g[x] = Fields
      /\ d \in DOMAIN g /\ g[d].par # d
  <2>1. \A x \in 1..k : DOMAIN g[x] = Fields /\ g[x].par \in 0..(x - 1)
    BY DEF ShapeOf
  <2>2. \A x \in 1..k : \A y \in 0..(x - 1) : y # x
    OBVIOUS
  <2> QED BY <2>1, <2>2
<1>2. OnCells(h, 1..k)
  BY <1>1, DecomposeFacts
<1>3. Len(h) = k
  BY <1>2, LengthIs
<1>4. \A x \in 1..k : ShapeOf(h, x)
  BY <1>3, DecomposedShape
<1>5. \A x \in 1..k : AgreesOf(h, x)
  BY DecomposedAgrees
<1> QED BY <1>2, <1>3, <1>4, <1>5 DEF GoodTree

LEMMA InitInv == Init => Inv
<1> SUFFICES ASSUME Init
             PROVE  Inv
  OBVIOUS
<1>1. info = << >> /\ local = << >> /\ cuts = 0
  BY DEF Init
<1>2. /\ Len(info) = 0 /\ 1..0 = {}
      /\ OnCells(info, 1..0) /\ OnCells(local, 1..0)
  BY <1>1 DEF OnCells
<1>3. RSL_MAXDOMAINS \in Nat /\ MaxCut \in Nat
  BY DomainAssumption
<1> QED BY <1>1, <1>2, <1>3 DEF Inv, GoodTree, LocalInv

\* What a processor works out is indexed by it.
LEMMA WorkedOut ==
  ASSUME NEW n, NEW old, NEW found
  PROVE  DOMAIN NewDecomposition(n, old, found) = Proc
BY DEF NewDecomposition

\* RSL_MOTHER_DOMAIN begins the tree,
LEMMA MotherStep ==
  ASSUME Inv, MotherDomain
  PROVE  /\ Inv' /\ Len(info') = 1 /\ info'[1].par = 0
         /\ \A c \in CellsOf(info'[1]) : info'[1].P[c] \in Proc
<1>1. PICK newP \in Decompositions(DefaultFcn, Mother, Mesh), found \in Found :
        LET d == [par |-> 0, coord |-> <<INVALID, INVALID>>, len |-> Mother, eff |-> Mother,
                  trim |-> <<0, 0>>, irax |-> <<0, 0>>,
                  P |-> newP, mother_P |-> << >>, kid_P |-> << >>,
                  over |-> [c \in DOMAIN newP |-> 0]]
        IN /\ info' = <<d>>
           /\ local' = <<NewDecomposition(d, [p \in Proc |-> NoLocal], found)>>
  BY DEF MotherDomain
<1>2. PICK d : d = [par |-> 0, coord |-> <<INVALID, INVALID>>, len |-> Mother, eff |-> Mother,
                    trim |-> <<0, 0>>, irax |-> <<0, 0>>,
                    P |-> newP, mother_P |-> << >>, kid_P |-> << >>,
                    over |-> [c \in DOMAIN newP |-> 0]]
  OBVIOUS
<1>3. info' = <<d>> /\ local' = <<NewDecomposition(d, [p \in Proc |-> NoLocal], found)>>
  BY <1>1, <1>2
<1>4. PICK g, l : g = info' /\ l = NewDecomposition(d, [p \in Proc |-> NoLocal], found)
  OBVIOUS
<1>5. /\ g = <<d>> /\ Len(g) = 1 /\ g[1] = d /\ OnCells(g, 1..1)
      /\ local' = <<l>> /\ OnCells(local', 1..1) /\ local'[1] = l /\ DOMAIN l = Proc
  <2>1. \A e : <<e>> = [x \in 1..1 |-> e]
    OBVIOUS
  <2>2. DOMAIN l = Proc
    BY <1>4, WorkedOut
  <2> QED BY <1>3, <1>4, <2>1, <2>2 DEF OnCells
<1>6. /\ Mother[1] \in Nat \ {0} /\ Mother[2] \in Nat \ {0}
      /\ Mesh[1] \in 1..Mesh[1] /\ Mesh[2] \in 1..Mesh[2]
      /\ RSL_MAXDOMAINS \in Nat \ {0}
  BY DomainAssumption
<1>7. /\ OnCells(newP, Cells(Mother[1], Mother[2]))
      /\ \A c \in Cells(Mother[1], Mother[2]) : newP[c] \in Proc
  BY <1>6, DecompositionsFit
<1>8. /\ DOMAIN d = Fields /\ d.par = 0 /\ d.len = Mother /\ d.eff = Mother /\ d.trim = <<0, 0>>
      /\ d.P = newP /\ d.over = [c \in DOMAIN newP |-> 0]
      /\ CellsOf(d) = Cells(Mother[1], Mother[2])
  BY <1>2 DEF Fields, CellsOf
<1>9. DOMAIN newP = CellsOf(d)
  BY <1>7, <1>8 DEF OnCells
<1>10. ShapeOf(g, 1)
  <2>1. OnCells(d.over, CellsOf(d)) /\ \A c \in CellsOf(d) : d.over[c] = 0
    BY <1>8, <1>9 DEF OnCells
  <2>2. \A x \in 1..2 : /\ d.len[x] \in Nat \ {0} /\ d.eff[x] \in Nat /\ d.trim[x] \in Nat
                        /\ d.eff[x] <= d.len[x]
                        /\ d.eff[x] \in {d.len[x], d.len[x] - d.trim[x]}
    BY <1>6, <1>8
  <2>3. g[1].par \in 0..(1 - 1) /\ g[1].par = 0
    BY <1>5, <1>8
  <2> QED BY <1>5, <1>7, <1>8, <2>1, <2>2, <2>3 DEF ShapeOf
<1>11. AgreesOf(g, 1)
  BY <1>5, <1>8 DEF AgreesOf
<1>12. GoodTree(g)
  <2>1. \A x \in 1..1 : x = 1
    OBVIOUS
  <2> QED BY <1>5, <1>6, <1>10, <1>11, <2>1 DEF GoodTree
<1>13. LocalInv'
  <2>1. cuts' \in 0..MaxCut
    BY DEF MotherDomain, Inv, LocalInv
  <2>2. Len(info') = 1 /\ \A x \in 1..1 : x = 1
    BY <1>4, <1>5
  <2> QED BY <1>5, <2>1, <2>2 DEF LocalInv
<1>14. \A c \in CellsOf(g[1]) : g[1].P[c] \in Proc
  BY <1>5, <1>7, <1>8
<1> QED BY <1>4, <1>5, <1>8, <1>12, <1>13, <1>14 DEF Inv

\* RSL_SPAWN_REGULAR_NEST adds to it: what it decomposes is the tree with the
\* nest linked,
LEMMA Spawning ==
  ASSUME Inv, SpawnNest
  PROVE  \E a, g, d, newP, e :
           /\ a \in NestCalls /\ a.par \in Domains /\ Fits(Spawned(a)) /\ d = Len(info) + 1
           /\ g = Linked(Spawned(a), d)
           /\ d \in Nat /\ d <= RSL_MAXDOMAINS
           /\ DOMAIN g = 1..d /\ Len(g) = d /\ \A x \in 1..d : ShapeOf(g, x)
           /\ \A x \in 1..d : x # d => AgreesOf(g, x)
           /\ OnCells(newP, CellsOf(g[d]))
           /\ \A c \in CellsOf(g[d]) : newP[c] \in Proc
           /\ info' = Decompose(g, d, newP)
           /\ local' = Append(local, e) /\ DOMAIN e = Proc
<1>1. PICK a \in NestCalls :
        /\ a.par \in Domains
        /\ Fits(Spawned(a))
        /\ \E newP \in Decompositions(DefaultFcn, Spawned(a).len, Mesh), found \in Found :
             LET g == Decompose(Linked(Spawned(a), Len(info) + 1), Len(info) + 1, newP)
             IN /\ info' = g
                /\ local' = Append(local,
                     NewDecomposition(g[Len(info) + 1], [p \in Proc |-> NoLocal], found))
  BY DEF SpawnNest
<1>2. PICK n, d : n = Spawned(a) /\ d = Len(info) + 1
  OBVIOUS
<1>3. PICK newP \in Decompositions(DefaultFcn, n.len, Mesh), found \in Found :
        /\ info' = Decompose(Linked(n, d), d, newP)
        /\ local' = Append(local,
             NewDecomposition(Decompose(Linked(n, d), d, newP)[d], [p \in Proc |-> NoLocal], found))
  BY <1>1, <1>2
<1>4. PICK g : g = Linked(n, d)
  OBVIOUS
<1>5. TreeInv /\ \A x \in Domains : AgreesOf(info, x)
  BY DEF Inv, GoodTree, TreeInv, Domains, OnCells
<1>6. /\ DOMAIN g = 1..d /\ Len(g) = d
      /\ SamePlace(g[d], n)
      /\ \A x \in 1..d : ShapeOf(g, x)
  BY <1>1, <1>2, <1>4, <1>5, LinkedShape
<1>7. \A x \in 1..d : x # d => AgreesOf(g, x)
  BY <1>1, <1>2, <1>4, <1>5, LinkedAgrees
<1>8. d \in Nat /\ d <= RSL_MAXDOMAINS
  <2>1. Len(info) \in 1..(RSL_MAXDOMAINS - 1)
    BY DEF SpawnNest
  <2> QED BY <1>2, <2>1, DomainAssumption
<1>9. CellsOf(g[d]) = Cells(n.len[1], n.len[2])
  BY <1>6, SamePlaceFacts DEF CellsOf
<1>10. /\ OnCells(newP, CellsOf(g[d]))
       /\ \A c \in CellsOf(g[d]) : newP[c] \in Proc
  <2>1. n.len[1] \in Nat \ {0} /\ n.len[2] \in Nat \ {0}
    BY <1>2, SpawnedFacts
  <2>2. Mesh[1] \in 1..Mesh[1] /\ Mesh[2] \in 1..Mesh[2]
    BY DomainAssumption
  <2> QED BY <1>9, <2>1, <2>2, DecompositionsFit
<1>11. PICK e : /\ e = NewDecomposition(info'[d], [p \in Proc |-> NoLocal], found)
                /\ info' = Decompose(g, d, newP)
                /\ local' = Append(local, e)
  BY <1>3, <1>4
<1>13. DOMAIN e = Proc
  BY <1>11, WorkedOut
<1>12. a.par \in Domains /\ Fits(Spawned(a)) /\ d = Len(info) + 1 /\ g = Linked(Spawned(a), d)
  BY <1>1, <1>2, <1>4
<1> HIDE DEF Inv
<1> QED BY <1>6, <1>7, <1>8, <1>10, <1>11, <1>12, <1>13

LEMMA SpawnStep ==
  ASSUME Inv, SpawnNest
  PROVE  Inv'
<1>1. PICK g, d, newP, e :
        /\ d = Len(info) + 1
        /\ d \in Nat /\ d <= RSL_MAXDOMAINS
        /\ DOMAIN g = 1..d /\ Len(g) = d /\ \A x \in 1..d : ShapeOf(g, x)
        /\ \A x \in 1..d : x # d => AgreesOf(g, x)
        /\ OnCells(newP, CellsOf(g[d]))
        /\ info' = Decompose(g, d, newP)
        /\ local' = Append(local, e) /\ DOMAIN e = Proc
  BY Spawning
<1>2. PICK k : k = Len(info)
  OBVIOUS
<1>3. /\ k \in Nat /\ d = k + 1 /\ d \in 1..d /\ OnCells(local, 1..k)
      /\ \A x \in 1..k : DOMAIN local[x] = Proc
  BY <1>1, <1>2 DEF Inv, GoodTree, LocalInv
<1>4. GoodTree(info') /\ Len(info') = d
  BY <1>1, <1>3, DecomposedGood
<1>6. /\ OnCells(local', 1..d) /\ local'[d] = e
      /\ \A x \in 1..k : local'[x] = local[x]
  <2>1. PICK s, h : s = Append(local, e) /\ h = local
    OBVIOUS
  <2>2. OnCells(s, 1..(k + 1)) /\ s[k + 1] = e /\ \A x \in 1..k : s[x] = local[x]
    <3>1. k \in Nat /\ OnCells(h, 1..k) /\ s = Append(h, e)
      BY <1>3, <2>1
    <3>2. GoesOn(s, k, h, e)
      BY <3>1, AppendedOf, Zenon
    <3> QED BY <2>1, <3>2 DEF GoesOn
  <2>3. local' = s
    BY <1>1, <2>1
  <2> QED BY <1>3, <2>2, <2>3
<1>7. \A x \in 1..d : x \in 1..k \/ x = d
  BY <1>3
<1>8. \A x \in 1..d : DOMAIN local'[x] = Proc
  BY <1>1, <1>3, <1>6, <1>7
<1>9. cuts' \in 0..MaxCut
  BY DEF SpawnNest, Inv, LocalInv
<1>10. LocalInv'
  BY <1>4, <1>6, <1>8, <1>9 DEF LocalInv
<1> QED BY <1>4, <1>10 DEF Inv

\* and RSL_FDECOMPOSE moves the cells of a domain.
LEMMA Cutting ==
  ASSUME Inv, NEW d \in Domains, NEW call \in CutCalls, Fdecompose(d, call)
  PROVE  \E newP, found :
           /\ OnCells(newP, CellsOf(info[d]))
           /\ \A c \in CellsOf(info[d]) : newP[c] \in Proc
           /\ info' = Decompose(info, d, newP)
           /\ local' = [local EXCEPT ![d] = NewDecomposition(info'[d], @, found)]
<1>1. PICK newP \in Decompositions(call.fcn, info[d].len, call.mesh), found \in Found :
        /\ info' = Decompose(info, d, newP)
        /\ local' = [local EXCEPT ![d] = NewDecomposition(Decompose(info, d, newP)[d], @, found)]
  BY DEF Fdecompose
<1>2. call.mesh[1] \in 1..Mesh[1] /\ call.mesh[2] \in 1..Mesh[2]
  BY DomainAssumption
<1>3. ShapeOf(info, d)
  BY DEF Inv, GoodTree, Domains, OnCells
<1>4. info[d].len[1] \in Nat \ {0} /\ info[d].len[2] \in Nat \ {0}
  BY <1>3 DEF ShapeOf
<1>5. /\ OnCells(newP, Cells(info[d].len[1], info[d].len[2]))
      /\ \A c \in Cells(info[d].len[1], info[d].len[2]) : newP[c] \in Proc
  BY <1>2, <1>4, DecompositionsFit
<1>6. CellsOf(info[d]) = Cells(info[d].len[1], info[d].len[2])
  BY DEF CellsOf
<1> QED BY <1>1, <1>5, <1>6

LEMMA CutStep ==
  ASSUME Inv, NEW d \in Domains, NEW call \in CutCalls, Fdecompose(d, call)
  PROVE  Inv'
<1>1. PICK newP, found :
        /\ OnCells(newP, CellsOf(info[d]))
        /\ info' = Decompose(info, d, newP)
        /\ local' = [local EXCEPT ![d] = NewDecomposition(info'[d], @, found)]
  BY Cutting
<1>2. PICK k : k = Len(info)
  OBVIOUS
<1>3. /\ k \in Nat /\ k <= RSL_MAXDOMAINS /\ DOMAIN info = 1..k /\ d \in 1..k
      /\ \A x \in 1..k : ShapeOf(info, x) /\ AgreesOf(info, x)
  BY <1>2 DEF Inv, GoodTree, Domains, OnCells
<1>4. GoodTree(info') /\ Len(info') = k
  BY <1>1, <1>2, <1>3, DecomposedGood
<1>5. OnCells(local, 1..k) /\ \A x \in 1..k : DOMAIN local[x] = Proc
  BY <1>2 DEF Inv, LocalInv
<1>6. PICK e : e = NewDecomposition(info'[d], local[d], found)
  OBVIOUS
<1>7. local' = [local EXCEPT ![d] = e] /\ DOMAIN e = Proc
  BY <1>1, <1>6, WorkedOut
<1>8. DOMAIN local = 1..k
  BY <1>5 DEF OnCells
<1>9. OnCells(local', 1..k) /\ \A x \in 1..k : DOMAIN local'[x] = Proc
  BY <1>3, <1>5, <1>7, <1>8 DEF OnCells
<1>10. cuts' \in 0..MaxCut
  <2>1. cuts \in 0..MaxCut /\ cuts < MaxCut /\ cuts' = cuts + 1
    BY DEF Inv, LocalInv, Fdecompose
  <2> QED BY <2>1, DomainAssumption
<1>11. LocalInv'
  BY <1>4, <1>9, <1>10 DEF LocalInv
<1> QED BY <1>4, <1>11 DEF Inv

LEMMA Stutter ==
  ASSUME Inv, UNCHANGED vars
  PROVE  Inv'
BY DEF Inv, LocalInv, vars

LEMMA Invariant == Spec => []Inv
<1>1. Inv /\ [Next]_vars => Inv'
  <2> SUFFICES ASSUME Inv, [Next]_vars
               PROVE  Inv'
    OBVIOUS
  <2>1. CASE MotherDomain
    BY <2>1, MotherStep
  <2>2. CASE SpawnNest
    BY <2>2, SpawnStep
  <2>3. ASSUME NEW d \in Domains, NEW call \in CutCalls, Fdecompose(d, call)
        PROVE  Inv'
    BY <2>3, CutStep
  <2>4. CASE UNCHANGED vars
    BY <2>4, Stutter
  <2> QED BY <2>1, <2>2, <2>3, <2>4 DEF Next
<1> QED BY InitInv, <1>1, PTL DEF Spec

\* However a domain is decomposed anew, above a nest or below it, mother and
\* nest agree on where the other's cells are (decomp.c, spawn_nest), for every
\* tree of domains and every sequence of decompositions.
THEOREM TreeAlwaysAgrees == Spec => []TreeAgrees
<1>1. Inv => TreeAgrees
  <2> SUFFICES ASSUME Inv
               PROVE  TreeAgrees
    OBVIOUS
  <2>1. \A d \in Domains : AgreesOf(info, d)
    BY DEF Inv, GoodTree, Domains, OnCells
  <2> QED BY <2>1 DEF TreeAgrees, AgreesOf
<1> QED BY Invariant, <1>1, PTL

-------------------------------------------------------------------------------
(* The processors that the cells get *)

Placed(g, x) == \A c \in CellsOf(g[x]) : g[x].P[c] \in Proc

Known(g, x) == g[x].par # 0 => \A c \in CellsOf(g[x]) : /\ g[x].mother_P[c] \in Proc
                                                        /\ g[x].kid_P[c] \in Proc

PlacedInv == \A x \in 1..Len(info) : Placed(info, x) /\ Known(info, x)

LEMMA DecomposedPlaced ==
  ASSUME NEW k \in Nat, NEW g, DOMAIN g = 1..k, \A x \in 1..k : ShapeOf(g, x) /\ Known(g, x),
         NEW d \in 1..k, \A x \in 1..k : x # d => Placed(g, x),
         NEW newP, \A c \in CellsOf(g[d]) : newP[c] \in Proc,
         NEW h, h = Decompose(g, d, newP)
  PROVE  \A x \in 1..k : Placed(h, x) /\ Known(h, x)
<1>1. /\ \A x \in DOMAIN g : DOMAIN g[x] = Fields
      /\ d \in DOMAIN g /\ g[d].par # d
      /\ \A x \in 1..k : g[x].par # 0 => g[x].par \in 1..k /\ g[x].par # x
  <2>1. \A x \in 1..k : DOMAIN g[x] = Fields /\ g[x].par \in 0..(x - 1)
    BY DEF ShapeOf
  <2>2. \A x \in 1..k : \A y \in 0..(x - 1) : y # x /\ (y # 0 => y \in 1..k)
    OBVIOUS
  <2> QED BY <2>1, <2>2
<1>2. /\ DOMAIN h = DOMAIN g
      /\ \A x \in DOMAIN g :
              /\ SamePlace(h[x], g[x])
              /\ h[x].P = IF x = d THEN newP ELSE g[x].P
              /\ \A c \in DOMAIN g[x].mother_P :
                   h[x].mother_P[c] =
                     IF x = d THEN g[g[d].par].P[MotherOf(g[d], c)]
                     ELSE IF g[x].par = d /\ InRecord(g, x, c) THEN newP[MotherOf(g[x], c)]
                     ELSE g[x].mother_P[c]
              /\ \A c \in DOMAIN g[x].kid_P :
                   h[x].kid_P[c] = IF x = d /\ InRecord(g, d, c) THEN newP[c] ELSE g[x].kid_P[c]
  BY <1>1, DecomposeFacts
<1> SUFFICES ASSUME NEW x \in 1..k, NEW c \in CellsOf(h[x])
             PROVE  /\ h[x].P[c] \in Proc
                    /\ h[x].par # 0 => h[x].mother_P[c] \in Proc /\ h[x].kid_P[c] \in Proc
  BY DEF Placed, Known
<1>3. h[x].par = g[x].par /\ CellsOf(h[x]) = CellsOf(g[x]) /\ c \in CellsOf(g[x])
  <2>1. SamePlace(h[x], g[x])
    BY <1>2
  <2> QED BY <2>1, SamePlaceFacts DEF SamePlace
<1>4. h[x].P[c] \in Proc
  <2>1. h[x].P = IF x = d THEN newP ELSE g[x].P
    BY <1>2
  <2>2. x # d => g[x].P[c] \in Proc
    BY <1>3 DEF Placed
  <2>3. x = d => newP[c] \in Proc
    BY <1>3
  <2> QED BY <2>1, <2>2, <2>3
<1>5. ASSUME h[x].par # 0
      PROVE  h[x].mother_P[c] \in Proc /\ h[x].kid_P[c] \in Proc
  <2>1. PICK p, m : p = g[x].par /\ m = MotherOf(g[x], c)
    OBVIOUS
  <2>2. p \in 1..k /\ p # x /\ p # 0
    BY <1>1, <1>3, <1>5, <2>1
  <2>3. c \in DOMAIN g[x].mother_P /\ c \in DOMAIN g[x].kid_P
    <3>1. OnCells(g[x].mother_P, CellsOf(g[x])) /\ OnCells(g[x].kid_P, CellsOf(g[x]))
      BY <2>1, <2>2 DEF ShapeOf
    <3> QED BY <1>3, <3>1 DEF OnCells
  <2>4. m \in CellsOf(g[p])
    BY <1>3, <2>1, <2>2 DEF ShapeOf
  <2>5. g[x].mother_P[c] \in Proc /\ g[x].kid_P[c] \in Proc
    BY <1>3, <2>1, <2>2 DEF Known
  <2>6. p = d => newP[m] \in Proc
    BY <2>4
  <2>7. x = d => g[p].P[m] \in Proc /\ newP[c] \in Proc
    BY <1>3, <2>2, <2>4 DEF Placed
  <2>8. /\ h[x].mother_P[c] = IF x = d THEN g[g[d].par].P[MotherOf(g[d], c)]
                              ELSE IF g[x].par = d /\ InRecord(g, x, c) THEN newP[MotherOf(g[x], c)]
                              ELSE g[x].mother_P[c]
        /\ h[x].kid_P[c] = IF x = d /\ InRecord(g, d, c) THEN newP[c] ELSE g[x].kid_P[c]
    BY <1>2, <2>3
  <2> QED BY <2>1, <2>5, <2>6, <2>7, <2>8
<1> QED BY <1>4, <1>5

LEMMA PlacedStep ==
  ASSUME Inv, PlacedInv, [Next]_vars
  PROVE  PlacedInv'
<1>1. CASE MotherDomain
  <2>1. /\ Len(info') = 1 /\ info'[1].par = 0
        /\ \A c \in CellsOf(info'[1]) : info'[1].P[c] \in Proc
    BY <1>1, MotherStep
  <2>2. \A x \in 1..1 : x = 1
    OBVIOUS
  <2>3. Placed(info', 1) /\ Known(info', 1)
    BY <2>1 DEF Placed, Known
  <2> QED BY <2>1, <2>2, <2>3 DEF PlacedInv
<1>2. CASE SpawnNest
  <2>1. PICK a, g, d, newP, e :
          /\ a \in NestCalls /\ a.par \in Domains /\ Fits(Spawned(a)) /\ d = Len(info) + 1
          /\ g = Linked(Spawned(a), d)
          /\ d \in Nat /\ d <= RSL_MAXDOMAINS
          /\ DOMAIN g = 1..d /\ Len(g) = d /\ \A x \in 1..d : ShapeOf(g, x)
          /\ \A x \in 1..d : x # d => AgreesOf(g, x)
          /\ OnCells(newP, CellsOf(g[d]))
          /\ \A c \in CellsOf(g[d]) : newP[c] \in Proc
          /\ info' = Decompose(g, d, newP)
          /\ local' = Append(local, e) /\ DOMAIN e = Proc
    BY <1>2, Spawning
  <2>2. PICK k, n : k = Len(info) /\ n = Spawned(a)
    OBVIOUS
  <2>3. /\ k \in Nat /\ d = k + 1 /\ d \in 1..d
        /\ OnCells(info, 1..k) /\ Domains = 1..k
        /\ \A x \in 1..k : DOMAIN info[x] = Fields
    <3>1. /\ k \in Nat /\ OnCells(info, 1..k) /\ \A x \in 1..k : ShapeOf(info, x)
      BY <2>2 DEF Inv, GoodTree
    <3>2. Domains = 1..k
      BY <3>1 DEF Domains, OnCells
    <3>3. \A x \in 1..k : DOMAIN info[x] = Fields
      BY <3>1 DEF ShapeOf
    <3>4. d = k + 1 /\ d \in 1..d
      BY <2>1, <2>2, <3>1
    <3> QED BY <3>1, <3>2, <3>3, <3>4
  <2>4. n.par \in 1..k
    BY <2>1, <2>2, <2>3, SpawnedFacts
  <2>5. \A x \in 1..k : /\ SamePlace(g[x], info[x]) /\ g[x].P = info[x].P
                        /\ g[x].mother_P = info[x].mother_P /\ g[x].kid_P = info[x].kid_P
    BY <2>1, <2>2, <2>3, <2>4, LinkedFacts
  <2>6. \A x \in 1..k : Placed(g, x) /\ Known(g, x)
    <3> SUFFICES ASSUME NEW x \in 1..k
                 PROVE  Placed(g, x) /\ Known(g, x)
      OBVIOUS
    <3>1. g[x].par = info[x].par /\ CellsOf(g[x]) = CellsOf(info[x])
      BY <2>5, SamePlaceFacts DEF SamePlace
    <3>2. Placed(info, x) /\ Known(info, x)
      BY <2>2 DEF PlacedInv
    <3> QED BY <2>5, <3>1, <3>2 DEF Placed, Known
  <2>7. Known(g, d)
    <3>1. n.par # 0
      BY <2>4
    <3>2. SamePlace(g[d], n)
      BY <2>1, <2>2, <2>3, <2>4, LinkedFacts
    <3>3. CellsOf(g[d]) = CellsOf(n)
      BY <3>2, SamePlaceFacts
    <3>4. /\ g[d].mother_P = [c \in CellsOf(n) |-> 0]
          /\ g[d].kid_P = [c \in CellsOf(n) |-> 0]
      BY <2>1, <2>2, <2>3 DEF Linked
    <3>5. 0 \in Proc
      <4>1. Mesh[1] \in Nat \ {0} /\ Mesh[2] \in Nat \ {0}
        BY DomainAssumption
      <4>2. \A u, v \in Nat \ {0} : u * v \in Nat \ {0}
        OBVIOUS
      <4>3. Mesh[1] * Mesh[2] \in Nat \ {0}
        BY <4>1, <4>2
      <4> QED BY <4>3 DEF Proc
    <3> QED BY <3>3, <3>4, <3>5 DEF Known
  <2>8. /\ \A x \in 1..d : ShapeOf(g, x) /\ Known(g, x)
        /\ \A x \in 1..d : x # d => Placed(g, x)
    <3>1. \A x \in 1..d : x \in 1..k \/ x = d
      BY <2>3
    <3> QED BY <2>1, <2>6, <2>7, <3>1
  <2>9. \A x \in 1..d : Placed(info', x) /\ Known(info', x)
    <3>1. PICK h : h = info'
      OBVIOUS
    <3>2. h = Decompose(g, d, newP) /\ \A c \in CellsOf(g[d]) : newP[c] \in Proc
      BY <2>1, <3>1
    <3>3. \A x \in 1..d : Placed(h, x) /\ Known(h, x)
      BY <2>1, <2>3, <2>8, <3>2, DecomposedPlaced
    <3> QED BY <3>1, <3>3
  <2>10. Len(info') = d
    <3>1. PICK h : h = info'
      OBVIOUS
    <3>2. d \in Nat /\ d <= RSL_MAXDOMAINS /\ DOMAIN g = 1..d /\ Len(g) = d /\ d \in 1..d
      BY <2>1, <2>3
    <3>3. /\ \A x \in 1..d : ShapeOf(g, x)
          /\ \A x \in 1..d : x # d => AgreesOf(g, x)
          /\ OnCells(newP, CellsOf(g[d])) /\ h = Decompose(g, d, newP)
      BY <2>1, <3>1
    <3>4. Len(h) = d
      BY <3>2, <3>3, DecomposedGood
    <3> QED BY <3>1, <3>4
  <2> QED BY <2>9, <2>10 DEF PlacedInv
<1>3. ASSUME NEW d \in Domains, NEW call \in CutCalls, Fdecompose(d, call)
      PROVE  PlacedInv'
  <2>1. PICK newP, found :
          /\ OnCells(newP, CellsOf(info[d]))
          /\ \A c \in CellsOf(info[d]) : newP[c] \in Proc
          /\ info' = Decompose(info, d, newP)
    BY <1>3, Cutting
  <2>2. PICK k, h : k = Len(info) /\ h = info'
    OBVIOUS
  <2>3. /\ k \in Nat /\ k <= RSL_MAXDOMAINS /\ DOMAIN info = 1..k /\ d \in 1..k
        /\ \A x \in 1..k : ShapeOf(info, x) /\ AgreesOf(info, x)
    BY <2>2 DEF Inv, GoodTree, Domains, OnCells
  <2>4. \A x \in 1..k : Placed(info, x) /\ Known(info, x)
    BY <2>2 DEF PlacedInv
  <2>5. h = Decompose(info, d, newP)
    BY <2>1, <2>2
  <2>6. \A x \in 1..k : Placed(h, x) /\ Known(h, x)
    BY <2>1, <2>3, <2>4, <2>5, DecomposedPlaced
  <2>7. Len(h) = k
    BY <2>1, <2>2, <2>3, <2>5, DecomposedGood
  <2> QED BY <2>2, <2>6, <2>7 DEF PlacedInv
<1>4. CASE UNCHANGED vars
  BY <1>4 DEF vars, PlacedInv
<1> QED BY <1>1, <1>2, <1>3, <1>4 DEF Next

\* What a domain has lost at its margins lies under no nest, unless its size is
\* not cut down by it.
LEMMA UnderNests ==
  ASSUME NEW m, NEW c,
         \A x \in 1..2 : /\ m.len[x] \in Nat \ {0} /\ m.eff[x] \in Nat /\ m.trim[x] \in Nat
                         /\ m.eff[x] \in {m.len[x], m.len[x] - m.trim[x]}
                         /\ c[x] \in 0..(m.eff[x] - 1),
         c \in Trimmed(m)
  PROVE  \E x \in 1..2 : m.eff[x] = m.len[x] /\ m.trim[x] > 0
<1>1. PICK x \in 1..2 : c[x] >= m.len[x] - m.trim[x]
  BY DEF Trimmed
<1>2. PICK l, e, t, i : l = m.len[x] /\ e = m.eff[x] /\ t = m.trim[x] /\ i = c[x]
  OBVIOUS
<1>3. l \in Nat /\ e \in Nat /\ t \in Nat /\ (e = l \/ e = l - t) /\ i \in 0..(e - 1) /\ i >= l - t
  BY <1>1, <1>2
<1>4. e = l /\ t > 0
  BY <1>3
<1> QED BY <1>2, <1>4

\* The types, and where nests lie: a nest lies over cells of its parent, and
\* over trimmed ones only where trimming has not cut the parent's size down
\* (domain_def.c).  That the mapping functions return processors of the mesh
\* rests on the end of c_locproc's recursion (LocprocInRange).
THEOREM TypeCorrect ==
  Spec => []TypeOK
<1>1. Init => PlacedInv
  <2> SUFFICES ASSUME Init
               PROVE  PlacedInv
    OBVIOUS
  <2>1. Len(info) = 0 /\ 1..0 = {}
    BY DEF Init
  <2> QED BY <2>1 DEF PlacedInv
<1>2. Inv /\ PlacedInv /\ [Next]_vars => PlacedInv'
  BY PlacedStep
<1>3. Inv /\ PlacedInv => TypeOK
  <2> SUFFICES ASSUME Inv, PlacedInv
               PROVE  TypeOK
    OBVIOUS
  <2>1. PICK k : k = Len(info)
    OBVIOUS
  <2>2. /\ k \in Nat /\ k <= RSL_MAXDOMAINS /\ Domains = 1..k
        /\ \A x \in 1..k : ShapeOf(info, x) /\ Placed(info, x) /\ Known(info, x)
    BY <2>1 DEF Inv, GoodTree, Domains, OnCells, PlacedInv
  <2>3. Len(local) = k /\ cuts \in 0..MaxCut /\ \A x \in 1..k : DOMAIN local[x] = Proc
    BY <2>1, <2>2, LengthIs DEF Inv, LocalInv
  <2>4. \A S, f, R : OnCells(f, S) /\ (\A c \in S : f[c] \in R) => f \in [S -> R]
    BY DEF OnCells
  <2>5. ASSUME NEW d \in 1..k
        PROVE  /\ info[d].par \in 0..(d - 1)
               /\ info[d].P \in [CellsOf(info[d]) -> Proc]
               /\ info[d].over \in [CellsOf(info[d]) -> {0} \union ((d + 1)..Len(info))]
               /\ info[d].par # 0 =>
                    /\ info[d].mother_P \in [CellsOf(info[d]) -> Proc]
                    /\ info[d].kid_P \in [CellsOf(info[d]) -> Proc]
                    /\ Covered(info[d]) \subseteq CellsOf(info[info[d].par])
                    /\ \A c \in Covered(info[d]) \cap Trimmed(info[info[d].par]) :
                         \E x \in 1..2 : /\ info[info[d].par].eff[x] = info[info[d].par].len[x]
                                         /\ info[info[d].par].trim[x] > 0
    <3>1. PICK n : n = info[d]
      OBVIOUS
    <3>2. /\ n.par \in 0..(d - 1)
          /\ OnCells(n.P, CellsOf(n)) /\ OnCells(n.over, CellsOf(n))
          /\ \A c \in CellsOf(n) : n.over[c] \in {0} \union ((d + 1)..Len(info))
          /\ \A c \in CellsOf(n) : n.P[c] \in Proc
      BY <2>2, <3>1 DEF ShapeOf, Placed
    <3>3. /\ n.P \in [CellsOf(n) -> Proc]
          /\ n.over \in [CellsOf(n) -> {0} \union ((d + 1)..Len(info))]
      <4>1. PICK R : R = {0} \union ((d + 1)..Len(info))
        OBVIOUS
      <4>2. n.over \in [CellsOf(n) -> R]
        BY <2>4, <3>2, <4>1
      <4>3. n.P \in [CellsOf(n) -> Proc]
        BY <2>4, <3>2
      <4> QED BY <4>1, <4>2, <4>3
    <3>4. ASSUME n.par # 0
          PROVE  /\ n.mother_P \in [CellsOf(n) -> Proc]
                 /\ n.kid_P \in [CellsOf(n) -> Proc]
                 /\ Covered(n) \subseteq CellsOf(info[n.par])
                 /\ \A c \in Covered(n) \cap Trimmed(info[n.par]) :
                      \E x \in 1..2 : /\ info[n.par].eff[x] = info[n.par].len[x]
                                      /\ info[n.par].trim[x] > 0
      <4>1. /\ OnCells(n.mother_P, CellsOf(n)) /\ OnCells(n.kid_P, CellsOf(n))
            /\ Covered(n) \subseteq CellsOf(info[n.par])
            /\ \A c \in Covered(n) : \A x \in 1..2 : c[x] \in 0..(info[n.par].eff[x] - 1)
        BY <2>2, <3>1, <3>4 DEF ShapeOf
      <4>2. \A c \in CellsOf(n) : n.mother_P[c] \in Proc /\ n.kid_P[c] \in Proc
        BY <2>2, <3>1, <3>4 DEF Known
      <4>3. n.mother_P \in [CellsOf(n) -> Proc] /\ n.kid_P \in [CellsOf(n) -> Proc]
        BY <2>4, <4>1, <4>2
      <4>4. n.par \in 1..k
        BY <2>2, <3>2, <3>4
      <4>5. PICK m : m = info[n.par]
        OBVIOUS
      <4>6. \A x \in 1..2 : /\ m.len[x] \in Nat \ {0} /\ m.eff[x] \in Nat /\ m.trim[x] \in Nat
                            /\ m.eff[x] \in {m.len[x], m.len[x] - m.trim[x]}
        BY <2>2, <4>4, <4>5 DEF ShapeOf
      <4>7. ASSUME NEW c \in Covered(n) \cap Trimmed(m)
            PROVE  \E x \in 1..2 : m.eff[x] = m.len[x] /\ m.trim[x] > 0
        <5>1. c \in Trimmed(m) /\ \A x \in 1..2 : c[x] \in 0..(m.eff[x] - 1)
          BY <4>1, <4>5
        <5> QED BY <4>6, <5>1, UnderNests
      <4> QED BY <4>1, <4>3, <4>5, <4>7
    <3> QED BY <3>1, <3>2, <3>3, <3>4
  <2> QED BY <2>1, <2>2, <2>3, <2>5 DEF TypeOK
<1> QED BY Invariant, <1>1, <1>2, <1>3, PTL DEF Spec
=============================================================================
