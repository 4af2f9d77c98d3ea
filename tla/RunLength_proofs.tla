--------------------------- MODULE RunLength_proofs ---------------------------
(***************************************************************************)
(* What the recursive operators of the zip programs compute, for texts and  *)
(* encodings of any length: the library's concatenation and folds, and the  *)
(* run-length code on top of them.                                          *)
(***************************************************************************)
EXTENDS RunLength, SequenceTheorems, WellFoundedInduction, TLAPS

LessThan == {ss \in Nat \X Nat : ss[1] < ss[2]}

(* What CHOOSE finds when it asks for the least of a set that is not empty. *)
LEMMA LeastNat ==
    ASSUME NEW T \in SUBSET Nat, T # {}
    PROVE  \E x \in T : \A y \in T : x <= y
<1>1. IsWellFoundedOn(LessThan, Nat)
  BY NatLessThanWellFounded, Zenon DEF LessThan, OpToRel
<1>2. \E x \in T : \A y \in T : ~(<<y, x>> \in LessThan)
  BY <1>1, WFMin
<1>3. \A x \in T, y \in T : <<y, x>> \in LessThan <=> y < x
  BY DEF LessThan
<1>4. \A x \in T, y \in T : ~(y < x) => x <= y
  OBVIOUS
<1> QED BY <1>2, <1>3, <1>4

FlatStep(ss, f, n) == IF n = 1 THEN ss[n] ELSE f[n - 1] \o ss[n]
Flattens(ss, f)    == f = [n \in 1 .. Len(ss) |-> FlatStep(ss, f, n)]

LEMMA FlattenDef ==
    ASSUME NEW ss, Len(ss) # 0
    PROVE  FlattenSeq(ss) = (CHOOSE f : Flattens(ss, f))[Len(ss)]
BY DEF FlattenSeq, Flattens, FlatStep

FlatPart(S, ss, k, f) ==
    /\ f \in [1 .. k -> Seq(S)]
    /\ \A n \in 1 .. k : f[n] = FlatStep(ss, f, n)

LEMMA FlatPartExists ==
    ASSUME NEW S, NEW ss \in Seq(Seq(S)), NEW k \in 0 .. Len(ss)
    PROVE  \E f : FlatPart(S, ss, k, f)
<1> DEFINE T == {n \in 0 .. Len(ss) : ~\E f : FlatPart(S, ss, n, f)}
<1> SUFFICES ASSUME T # {} PROVE FALSE
  OBVIOUS
<1>0. T \in SUBSET Nat /\ \A m \in T : m \in 0 .. Len(ss)
  OBVIOUS
<1> HIDE DEF T
<1> PICK n : n \in T /\ \A m \in T : n <= m
  BY <1>0, LeastNat
<1>1. n # 0
  <2>1. FlatPart(S, ss, 0, [x \in {} |-> <<>>])
    BY DEF FlatPart
  <2> QED BY <2>1 DEF T
<1>2. n - 1 \in 0 .. Len(ss) /\ n - 1 \notin T
  BY <1>0, <1>1
<1> PICK f : FlatPart(S, ss, n - 1, f)
  BY <1>2 DEF T
<1> PICK c : c = FlatStep(ss, f, n)
  OBVIOUS
<1> PICK g : g = [x \in 1 .. n |-> IF x = n THEN c ELSE f[x]]
  OBVIOUS
<1>3. n \in 1 .. Len(ss) /\ f \in [1 .. n - 1 -> Seq(S)] /\ ss[n] \in Seq(S)
      /\ \A x \in 1 .. n - 1 : f[x] = FlatStep(ss, f, x)
  BY <1>0, <1>1 DEF FlatPart
<1>4. c \in Seq(S)
  <2>1. CASE n = 1
    BY <1>3, <2>1 DEF FlatStep
  <2>2. CASE n # 1
    <3>1. n - 1 \in 1 .. n - 1
      BY <1>3, <2>2
    <3> PICK s : s = f[n - 1]
      OBVIOUS
    <3> PICK t : t = ss[n]
      OBVIOUS
    <3>2. s \in Seq(S) /\ t \in Seq(S) /\ c = s \o t
      BY <1>3, <2>2, <3>1 DEF FlatStep
    <3> QED BY <3>2
  <2> QED BY <2>1, <2>2
<1>5. g \in [1 .. n -> Seq(S)]
  BY <1>3, <1>4
<1>7. ASSUME NEW x \in 1 .. n PROVE g[x] = FlatStep(ss, g, x)
  <2>1. x # 1 => x - 1 \in 1 .. n /\ x - 1 # n
    BY <1>3
  <2>2. FlatStep(ss, g, x) = FlatStep(ss, f, x)
    BY <2>1 DEF FlatStep
  <2>3. x # n => x \in 1 .. n - 1
    BY <1>3
  <2> QED BY <1>3, <2>2, <2>3
<1>6. FlatPart(S, ss, n, g)
  BY <1>5, <1>7 DEF FlatPart
<1> QED BY <1>6 DEF T


LEMMA FlattenPart ==
    ASSUME NEW S, NEW ss \in Seq(Seq(S)), Len(ss) # 0
    PROVE  \E f : FlatPart(S, ss, Len(ss), f) /\ FlattenSeq(ss) = f[Len(ss)]
<1> PICK k : k = Len(ss)
  OBVIOUS
<1> PICK g : FlatPart(S, ss, k, g)
  BY FlatPartExists
<1>1. Flattens(ss, g)
  BY DEF FlatPart, Flattens
<1> PICK f : f = CHOOSE h : Flattens(ss, h)
  OBVIOUS
<1>2. Flattens(ss, f)
  BY <1>1
<1>3. FlattenSeq(ss) = f[k]
  BY FlattenDef
<1>4. \A n \in 1 .. k : f[n] = FlatStep(ss, f, n)
  BY <1>2 DEF Flattens
<1>5. DOMAIN f = 1 .. k /\ f = [n \in 1 .. k |-> f[n]]
  BY <1>2 DEF Flattens
<1>6. \A n \in 1 .. k : f[n] \in Seq(S)
  <2> DEFINE T == {n \in 1 .. k : f[n] \notin Seq(S)}
  <2> SUFFICES ASSUME T # {} PROVE FALSE
    OBVIOUS
  <2>1. T \in SUBSET Nat /\ \A m \in T : m \in 1 .. k /\ f[m] \notin Seq(S)
    OBVIOUS
  <2>2. \A m \in 1 .. k : m \notin T => f[m] \in Seq(S)
    OBVIOUS
  <2> HIDE DEF T
  <2> PICK n : n \in T /\ \A m \in T : n <= m
    BY <2>1, LeastNat
  <2>3. n \in 1 .. k
    BY <2>1
  <2>8. ss[n] \in Seq(S)
    BY <2>3
  <2>4. n # 1
    BY <1>4, <2>1, <2>3, <2>8 DEF FlatStep
  <2>5. n - 1 \in 1 .. k /\ n - 1 \notin T
    BY <2>3, <2>4
  <2> PICK s : s = f[n - 1]
    OBVIOUS
  <2> PICK t : t = ss[n]
    OBVIOUS
  <2>6. s \in Seq(S) /\ t \in Seq(S)
    BY <2>2, <2>5, <2>8
  <2>9. s \o t \in Seq(S)
    BY <2>6
  <2>7. f[n] = s \o t
    BY <1>4, <2>3, <2>4 DEF FlatStep
  <2> QED BY <2>1, <2>7, <2>9
<1>7. FlatPart(S, ss, k, f)
  BY <1>4, <1>5, <1>6 DEF FlatPart
<1> QED BY <1>3, <1>7

Agree(k, f, g) == \A n \in 1 .. k : f[n] = g[n]

LEMMA FlatUnique ==
    ASSUME NEW S, NEW ss, NEW tt, NEW k \in Nat, NEW l \in Nat, k <= l,
           NEW f, NEW g, FlatPart(S, ss, k, f), FlatPart(S, tt, l, g),
           Agree(k, ss, tt)
    PROVE  Agree(k, f, g)
<1> DEFINE T == {n \in 1 .. k : f[n] # g[n]}
<1> SUFFICES ASSUME T # {} PROVE FALSE
  BY DEF Agree
<1>1. T \in SUBSET Nat /\ \A m \in T : m \in 1 .. k /\ f[m] # g[m]
  OBVIOUS
<1>2. \A m \in 1 .. k : m \notin T => f[m] = g[m]
  OBVIOUS
<1> HIDE DEF T
<1> PICK n : n \in T /\ \A m \in T : n <= m
  BY <1>1, LeastNat
<1>3. n \in 1 .. k /\ n \in 1 .. l
  BY <1>1
<1>4. n # 1 => f[n - 1] = g[n - 1]
  <2>1. n # 1 => n - 1 \in 1 .. k /\ n - 1 \notin T
    BY <1>3
  <2> QED BY <1>2, <2>1
<1>5. FlatStep(ss, f, n) = FlatStep(tt, g, n)
  BY <1>3, <1>4 DEF FlatStep, Agree
<1>6. f[n] = FlatStep(ss, f, n) /\ g[n] = FlatStep(tt, g, n)
  BY <1>3 DEF FlatPart
<1> QED BY <1>1, <1>5, <1>6

(* What the concatenation of no sequence is, of a sequence of sequences, and
   of one more. *)
LEMMA FlattenFacts ==
    ASSUME NEW S, NEW ss \in Seq(Seq(S))
    PROVE  /\ FlattenSeq(<<>>) = <<>>
           /\ FlattenSeq(ss) \in Seq(S)
           /\ \A s \in Seq(S) : FlattenSeq(Append(ss, s)) = FlattenSeq(ss) \o s
<1>1. FlattenSeq(<<>>) = <<>>
  BY DEF FlattenSeq
<1>2. CASE Len(ss) = 0
  <2>1. ss = <<>>
    BY <1>2
  <2>2. ASSUME NEW s \in Seq(S) PROVE FlattenSeq(Append(ss, s)) = FlattenSeq(ss) \o s
    <3> PICK tt : tt = Append(ss, s)
      OBVIOUS
    <3>1. tt \in Seq(Seq(S)) /\ Len(tt) = 1 /\ tt[1] = s /\ Len(tt) # 0
      BY <2>1
    <3>4. \E f : FlatPart(S, tt, Len(tt), f) /\ FlattenSeq(tt) = f[Len(tt)]
      BY <3>1, FlattenPart, Zenon
    <3> PICK f : FlatPart(S, tt, 1, f) /\ FlattenSeq(tt) = f[1]
      BY <3>1, <3>4
    <3>2. f[1] = s
      BY <3>1 DEF FlatPart, FlatStep
    <3>3. <<>> \o s = s
      OBVIOUS
    <3>5. FlattenSeq(ss) = <<>>
      BY <1>1, <2>1
    <3>6. FlattenSeq(Append(ss, s)) = s
      BY <3>2
    <3>7. FlattenSeq(ss) \o s = s
      BY <3>3, <3>5
    <3> QED BY <3>6, <3>7
  <2>3. FlattenSeq(ss) = <<>> /\ <<>> \in Seq(S)
    BY <1>1, <2>1
  <2> QED BY <1>1, <2>2, <2>3
<1>3. CASE Len(ss) # 0
  <2> PICK k : k = Len(ss)
    OBVIOUS
  <2> PICK f : FlatPart(S, ss, k, f) /\ FlattenSeq(ss) = f[k]
    BY <1>3, FlattenPart
  <2>1. k \in Nat /\ k \in 1 .. k
    BY <1>3
  <2>2. f[k] \in Seq(S)
    BY <2>1 DEF FlatPart
  <2>3. ASSUME NEW s \in Seq(S) PROVE FlattenSeq(Append(ss, s)) = FlattenSeq(ss) \o s
    <3> PICK tt : tt = Append(ss, s)
      OBVIOUS
    <3>1. tt \in Seq(Seq(S)) /\ Len(tt) = k + 1 /\ tt[k + 1] = s /\ Len(tt) # 0
          /\ \A n \in 1 .. k : ss[n] = tt[n]
      OBVIOUS
    <3>5. \E h : FlatPart(S, tt, Len(tt), h) /\ FlattenSeq(tt) = h[Len(tt)]
      BY <3>1, FlattenPart, Zenon
    <3> PICK g : FlatPart(S, tt, k + 1, g) /\ FlattenSeq(tt) = g[k + 1]
      BY <3>1, <3>5
    <3>2. k + 1 \in Nat /\ k <= k + 1 /\ k + 1 \in 1 .. k + 1 /\ k + 1 # 1
          /\ (k + 1) - 1 = k
      BY <2>1
    <3>6. Agree(k, ss, tt)
      BY <3>1 DEF Agree
    <3>7. Agree(k, f, g)
      <4> PICK l : l = k + 1
        OBVIOUS
      <4>1. k \in Nat /\ l \in Nat /\ k <= l
        BY <2>1
      <4>2. FlatPart(S, ss, k, f) /\ FlatPart(S, tt, l, g)
        OBVIOUS
      <4> QED BY <3>6, <4>1, <4>2, FlatUnique
    <3>3. f[k] = g[k]
      BY <2>1, <3>7 DEF Agree
    <3>8. g[k + 1] = FlatStep(tt, g, k + 1)
      BY <3>2 DEF FlatPart
    <3>9. FlatStep(tt, g, k + 1) = g[(k + 1) - 1] \o tt[k + 1]
      BY <3>2, Zenon DEF FlatStep
    <3>4. g[k + 1] = g[k] \o s
      BY <3>1, <3>2, <3>8, <3>9
    <3> QED BY <3>3, <3>4
  <2> QED BY <1>1, <2>2, <2>3
<1> QED BY <1>2, <1>3

-----------------------------------------------------------------------------
LEMMA MaxFacts ==
    ASSUME NEW n \in Nat, NEW s \in SUBSET (1 .. n), s # {}
    PROVE  Max(s) \in s /\ \A y \in s : y <= Max(s)
<1> PICK T : T = {n - x : x \in s}
  OBVIOUS
<1>1. T \in SUBSET Nat /\ T # {}
  <2>1. \A x \in s : n - x \in Nat
    OBVIOUS
  <2>2. \A u \in T : u \in Nat
    BY <2>1
  <2> PICK x : x \in s
    OBVIOUS
  <2>3. n - x \in T
    OBVIOUS
  <2> QED BY <2>2, <2>3
<1> PICK t : t \in T /\ \A u \in T : t <= u
  BY <1>1, LeastNat
<1> PICK x : x \in s /\ t = n - x
  OBVIOUS
<1>2. ASSUME NEW y \in s PROVE x >= y
  <2>1. n - y \in T
    OBVIOUS
  <2>2. t <= n - y /\ x \in Nat /\ y \in Nat
    BY <2>1
  <2> QED BY <2>2
<1>3. \E z \in s : \A y \in s : z >= y
  BY <1>2
<1>4. Max(s) \in s /\ \A y \in s : Max(s) >= y
  BY <1>3 DEF Max
<1> QED BY <1>4

LEMMA MaxOfInterval ==
    ASSUME NEW n \in Nat
    PROVE  /\ n # 0 => Max(1 .. n) = n /\ (1 .. n) \ {n} = 1 .. n - 1
           /\ \A s \in SUBSET (1 .. n + 1) : n + 1 \in s => Max(s) = n + 1
<1>1. ASSUME NEW s \in SUBSET (1 .. n + 1), n + 1 \in s PROVE Max(s) = n + 1
  <2>1. n + 1 \in Nat /\ s # {}
    BY <1>1
  <2>2. Max(s) \in s /\ \A y \in s : y <= Max(s)
    BY <2>1, MaxFacts
  <2> PICK m : m = Max(s)
    OBVIOUS
  <2>3. m \in 1 .. n + 1 /\ n + 1 <= m
    BY <1>1, <2>2
  <2> QED BY <2>3
<1>2. ASSUME n # 0 PROVE Max(1 .. n) = n
  <2>1. n \in 1 .. n /\ 1 .. n # {}
    BY <1>2
  <2>2. Max(1 .. n) \in 1 .. n /\ \A y \in 1 .. n : y <= Max(1 .. n)
    BY <2>1, MaxFacts
  <2> QED BY <2>1, <2>2
<1>3. n # 0 => (1 .. n) \ {n} = 1 .. n - 1
  OBVIOUS
<1> QED BY <1>1, <1>2, <1>3

(* What the library's fold over the places of a sequence keeps, set by set,
   when a step is the function step.                                         *)
FoldStep(base, step, f, s) ==
    IF s = {} THEN base ELSE step[<<Max(s), f[s \ {Max(s)}]>>]
FoldPart(R, n, base, step, f) ==
    /\ f \in [SUBSET (1 .. n) -> R]
    /\ \A s \in SUBSET (1 .. n) : f[s] = FoldStep(base, step, f, s)

LEMMA FoldPartMore ==
    ASSUME NEW R, NEW base \in R, NEW n \in Nat, NEW step, NEW f,
           \A r \in R : step[<<n + 1, r>>] \in R, FoldPart(R, n, base, step, f)
    PROVE  \E g : FoldPart(R, n + 1, base, step, g)
<1> DEFINE v(s) == IF n + 1 \in s THEN step[<<n + 1, f[s \ {n + 1}]>>] ELSE f[s]
<1> PICK g : g = [s \in SUBSET (1 .. n + 1) |-> v(s)]
  OBVIOUS
<1>1. /\ f \in [SUBSET (1 .. n) -> R]
      /\ \A s \in SUBSET (1 .. n) : f[s] = FoldStep(base, step, f, s)
  BY DEF FoldPart
<1>2. ASSUME NEW s \in SUBSET (1 .. n + 1)
      PROVE  v(s) \in R
  <2>1. CASE n + 1 \in s
    <3>4. \A x \in 1 .. n + 1 : x # n + 1 => x \in 1 .. n
      OBVIOUS
    <3>1. s \ {n + 1} \in SUBSET (1 .. n)
      BY <3>4
    <3> PICK r : r = f[s \ {n + 1}]
      OBVIOUS
    <3>2. r \in R /\ n + 1 \in 1 .. n + 1
      BY <1>1, <3>1
    <3>3. step[<<n + 1, r>>] \in R
      BY <3>2
    <3> QED BY <2>1, <3>3
  <2>2. CASE n + 1 \notin s
    <3>1. s \in SUBSET (1 .. n)
      BY <2>2
    <3> QED BY <1>1, <2>2, <3>1
  <2> QED BY <2>1, <2>2
<1> HIDE DEF v
<1>3. g \in [SUBSET (1 .. n + 1) -> R]
  BY <1>2
<1>4. \A s \in SUBSET (1 .. n) : s \in SUBSET (1 .. n + 1) /\ g[s] = f[s]
  <2> SUFFICES ASSUME NEW s \in SUBSET (1 .. n)
               PROVE  s \in SUBSET (1 .. n + 1) /\ g[s] = f[s]
    OBVIOUS
  <2>1. s \in SUBSET (1 .. n + 1) /\ n + 1 \notin s
    OBVIOUS
  <2> QED BY <2>1 DEF v
<1>5. ASSUME NEW s \in SUBSET (1 .. n + 1) PROVE g[s] = FoldStep(base, step, g, s)
  <2>1. CASE n + 1 \in s
    <3>1. s \ {n + 1} \in SUBSET (1 .. n) /\ s # {}
      BY <2>1
    <3>2. Max(s) = n + 1
      BY <2>1, MaxOfInterval
    <3>3. g[s \ {n + 1}] = f[s \ {n + 1}]
      BY <1>4, <3>1
    <3>4. g[s] = step[<<n + 1, f[s \ {n + 1}]>>]
      BY <2>1 DEF v
    <3> QED BY <3>1, <3>2, <3>3, <3>4 DEF FoldStep
  <2>2. CASE n + 1 \notin s
    <3>1. s \in SUBSET (1 .. n)
      BY <2>2
    <3>2. g[s] = FoldStep(base, step, f, s)
      BY <1>1, <1>4, <3>1
    <3>3. s # {} => g[s \ {Max(s)}] = f[s \ {Max(s)}]
      BY <1>4, <3>1
    <3> QED BY <3>2, <3>3 DEF FoldStep
  <2> QED BY <2>1, <2>2
<1> QED BY <1>3, <1>5 DEF FoldPart

LEMMA FoldPartExists ==
    ASSUME NEW R, NEW base \in R, NEW n \in Nat, NEW step \in [(1 .. n) \X R -> R]
    PROVE  \E f : FoldPart(R, n, base, step, f)
<1> DEFINE T == {m \in 0 .. n : ~\E f : FoldPart(R, m, base, step, f)}
<1> SUFFICES ASSUME T # {} PROVE FALSE
  OBVIOUS
<1>1. T \in SUBSET Nat /\ \A m \in T : m \in 0 .. n
  OBVIOUS
<1> HIDE DEF T
<1> PICK m : m \in T /\ \A l \in T : m <= l
  BY <1>1, LeastNat
<1>2. m # 0
  <2> PICK f : f = [s \in SUBSET (1 .. 0) |-> base]
    OBVIOUS
  <2>1. \A s \in SUBSET (1 .. 0) : s = {}
    OBVIOUS
  <2>2. FoldPart(R, 0, base, step, f)
    BY <2>1 DEF FoldPart, FoldStep
  <2> QED BY <2>2 DEF T
<1> PICK k : k = m - 1
  OBVIOUS
<1>3. k \in Nat /\ k \in 0 .. n /\ k \notin T /\ k + 1 = m
  BY <1>1, <1>2
<1> PICK f : FoldPart(R, k, base, step, f)
  BY <1>3 DEF T
<1>4. \A r \in R : step[<<k + 1, r>>] \in R
  BY <1>1, <1>3
<1>5. \E g : FoldPart(R, k + 1, base, step, g)
  BY <1>3, <1>4, FoldPartMore
<1> QED BY <1>3, <1>5 DEF T


RleStep(text, f, s) == IF s = {} THEN <<>> ELSE AddChar(f[s \ {Max(s)}], text[Max(s)])
RleFold(text, n, f) == f = [s \in SUBSET (1 .. n) |-> RleStep(text, f, s)]

LEMMA RleDef ==
    ASSUME NEW text, NEW n, DOMAIN text = 1 .. n
    PROVE  Rle(text) = (CHOOSE f : RleFold(text, n, f))[1 .. n]
BY DEF Rle, FoldLeft, MapThenFoldSet, RleStep, RleFold


LEMMA BumpFacts ==
    ASSUME NEW r \in Run, NEW n \in Nat
    PROVE  Bump(r, n) \in Run /\ Bump(r, n).count = r.count + n /\ Bump(r, n).char = r.char
BY DEF Bump, Run

LEMMA AddCharType ==
    ASSUME NEW runs \in Seq(Run), NEW c \in Char
    PROVE  AddChar(runs, c) \in Seq(Run)
<1>1. CASE runs # <<>> /\ Last(runs).char = c
  <2> PICK l : l = Len(runs)
    OBVIOUS
  <2> PICK b : b = Bump(runs[l], 1)
    OBVIOUS
  <2>1. l \in 1 .. Len(runs) /\ runs[l] \in Run
    BY <1>1
  <2>2. b \in Run
    BY <2>1, BumpFacts
  <2>3. AddChar(runs, c) = [runs EXCEPT ![l] = b]
    BY <1>1 DEF AddChar, BumpLast
  <2> QED BY <2>1, <2>2, <2>3
<1>2. CASE ~(runs # <<>> /\ Last(runs).char = c)
  <2>1. [count |-> 1, char |-> c] \in Run
    BY DEF Run
  <2>2. AddChar(runs, c) = Append(runs, [count |-> 1, char |-> c])
    BY <1>2, Zenon DEF AddChar
  <2> QED BY <2>1, <2>2
<1> QED BY <1>1, <1>2

LEMMA RleFoldExists ==
    ASSUME NEW text \in Seq(Char)
    PROVE  \E f : /\ RleFold(text, Len(text), f)
                  /\ f \in [SUBSET (1 .. Len(text)) -> Seq(Run)]
<1> PICK n : n = Len(text)
  OBVIOUS
<1> PICK R : R = Seq(Run)
  OBVIOUS
<1> PICK step : step = [p \in (1 .. n) \X R |-> AddChar(p[2], text[p[1]])]
  OBVIOUS
<1>1. n \in Nat /\ <<>> \in R
  OBVIOUS
<1>2. ASSUME NEW m \in 1 .. n, NEW r \in R
      PROVE  step[<<m, r>>] = AddChar(r, text[m]) /\ step[<<m, r>>] \in R
  <2>1. text[m] \in Char
    OBVIOUS
  <2>2. AddChar(r, text[m]) \in R
    BY <2>1, AddCharType
  <2> QED BY <2>2
<1>3. step \in [(1 .. n) \X R -> R]
  <2>1. ASSUME NEW p \in (1 .. n) \X R PROVE AddChar(p[2], text[p[1]]) \in R
    BY AddCharType
  <2> QED BY <2>1
<1> PICK f : FoldPart(R, n, <<>>, step, f)
  BY <1>1, <1>3, FoldPartExists
<1>4. f \in [SUBSET (1 .. n) -> R]
  BY DEF FoldPart
<1>5. ASSUME NEW s \in SUBSET (1 .. n) PROVE f[s] = RleStep(text, f, s)
  <2>1. f[s] = FoldStep(<<>>, step, f, s)
    BY DEF FoldPart
  <2>2. CASE s = {}
    BY <2>1, <2>2 DEF FoldStep, RleStep
  <2>3. CASE s # {}
    <3> PICK m : m = Max(s)
      OBVIOUS
    <3> PICK r : r = f[s \ {m}]
      OBVIOUS
    <3>1. m \in 1 .. n
      BY <1>1, <2>3, MaxFacts
    <3>2. r \in R
      BY <1>4
    <3>3. f[s] = step[<<m, r>>]
      BY <2>1, <2>3 DEF FoldStep
    <3>4. f[s] = AddChar(r, text[m])
      BY <1>2, <3>1, <3>2, <3>3
    <3> QED BY <2>3, <3>4 DEF RleStep
  <2> QED BY <2>2, <2>3
<1>6. RleFold(text, n, f)
  BY <1>4, <1>5 DEF RleFold
<1> QED BY <1>4, <1>6

LEMMA RleUnique ==
    ASSUME NEW text, NEW tt, NEW k \in Nat, NEW n \in Nat, NEW m \in Nat, k <= n, k <= m,
           NEW f, NEW g, RleFold(text, n, f), RleFold(tt, m, g), Agree(k, text, tt)
    PROVE  f[1 .. k] = g[1 .. k]
<1> DEFINE T == {l \in 0 .. k : f[1 .. l] # g[1 .. l]}
<1> SUFFICES ASSUME T # {} PROVE FALSE
  OBVIOUS
<1>1. T \in SUBSET Nat /\ \A l \in T : l \in 0 .. k /\ f[1 .. l] # g[1 .. l]
  OBVIOUS
<1>2. \A l \in 0 .. k : l \notin T => f[1 .. l] = g[1 .. l]
  OBVIOUS
<1> HIDE DEF T
<1> PICK l : l \in T /\ \A x \in T : l <= x
  BY <1>1, LeastNat
<1>3. l \in Nat /\ 1 .. l \in SUBSET (1 .. n) /\ 1 .. l \in SUBSET (1 .. m)
  BY <1>1
<1>4. f[1 .. l] = RleStep(text, f, 1 .. l) /\ g[1 .. l] = RleStep(tt, g, 1 .. l)
  BY <1>3 DEF RleFold
<1>5. CASE l = 0
  BY <1>1, <1>4, <1>5 DEF RleStep
<1>6. CASE l # 0
  <2>1. Max(1 .. l) = l /\ (1 .. l) \ {l} = 1 .. l - 1
    BY <1>3, <1>6, MaxOfInterval
  <2>4. l - 1 \in Nat /\ l - 1 \in 0 .. k /\ ~(l <= l - 1) /\ l \in 1 .. k /\ l \in 1 .. l
    BY <1>1, <1>6
  <2>2. l - 1 \in 0 .. k /\ l - 1 \notin T /\ l \in 1 .. k /\ 1 .. l # {}
    BY <2>4
  <2>3. f[1 .. l - 1] = g[1 .. l - 1] /\ text[l] = tt[l]
    BY <1>2, <2>2 DEF Agree
  <2> QED BY <1>1, <1>4, <2>1, <2>2, <2>3 DEF RleStep
<1> QED BY <1>5, <1>6


LEMMA RleIs ==
    ASSUME NEW text \in Seq(Char)
    PROVE  \E f : RleFold(text, Len(text), f) /\ Rle(text) = f[1 .. Len(text)]
<1> PICK n : n = Len(text)
  OBVIOUS
<1>1. n \in Nat /\ DOMAIN text = 1 .. n
  OBVIOUS
<1>2. \E f : RleFold(text, n, f)
  BY RleFoldExists
<1> PICK f : f = CHOOSE h : RleFold(text, n, h)
  OBVIOUS
<1>3. RleFold(text, n, f)
  BY <1>2
<1>4. Rle(text) = f[1 .. n]
  BY <1>1, RleDef
<1> QED BY <1>3, <1>4

(* The encoding of no text, of a text and of one with one more character.    *)
LEMMA RleFacts ==
    ASSUME NEW text \in Seq(Char)
    PROVE  /\ Rle(<<>>) = <<>>
           /\ Rle(text) \in Seq(Run)
           /\ \A c \in Char : Rle(Append(text, c)) = AddChar(Rle(text), c)
<1> PICK n : n = Len(text)
  OBVIOUS
<1>0. n \in Nat
  OBVIOUS
<1> PICK f : RleFold(text, n, f) /\ Rle(text) = f[1 .. n]
  BY RleIs
<1> PICK g : RleFold(text, n, g) /\ g \in [SUBSET (1 .. n) -> Seq(Run)]
  BY RleFoldExists
<1>1. Rle(<<>>) = <<>>
  <2> PICK t : t = <<>>
    OBVIOUS
  <2>1. t \in Seq(Char) /\ Len(t) = 0
    OBVIOUS
  <2> PICK h : RleFold(t, 0, h) /\ Rle(t) = h[1 .. 0]
    BY <2>1, RleIs
  <2>2. 1 .. 0 = {}
    OBVIOUS
  <2> QED BY <2>2 DEF RleFold, RleStep
<1>2. Rle(text) \in Seq(Run)
  <2>1. Agree(n, text, text)
    BY DEF Agree
  <2>2. f[1 .. n] = g[1 .. n]
    BY <1>0, <2>1, RleUnique
  <2>3. g[1 .. n] \in Seq(Run)
    OBVIOUS
  <2> QED BY <2>2, <2>3
<1>3. ASSUME NEW c \in Char PROVE Rle(Append(text, c)) = AddChar(Rle(text), c)
  <2> PICK t : t = Append(text, c)
    OBVIOUS
  <2> PICK m : m = n + 1
    OBVIOUS
  <2>1. t \in Seq(Char) /\ Len(t) = m /\ t[m] = c /\ Agree(n, t, text) /\ m \in Nat /\ n <= m
    BY DEF Agree
  <2> PICK h : RleFold(t, m, h) /\ Rle(t) = h[1 .. m]
    BY <2>1, RleIs
  <2>2. Max(1 .. m) = m /\ (1 .. m) \ {m} = 1 .. n /\ 1 .. m # {}
    <3>1. m # 0 /\ m - 1 = n /\ m \in 1 .. m
      BY <1>0
    <3> QED BY <2>1, <3>1, MaxOfInterval
  <2>3. h[1 .. m] = AddChar(h[1 .. n], c)
    <3>1. h[1 .. m] = RleStep(t, h, 1 .. m)
      BY DEF RleFold
    <3> QED BY <2>1, <2>2, <3>1 DEF RleStep
  <2>4. h[1 .. n] = f[1 .. n]
    BY <1>0, <2>1, RleUnique
  <2> QED BY <2>3, <2>4
<1> QED BY <1>1, <1>2, <1>3


-----------------------------------------------------------------------------
(* What a run decodes to.                                                    *)
Copies(r)  == [n \in 1 .. r.count |-> r.char]
AllCopies(runs) == [k \in 1 .. Len(runs) |-> Copies(runs[k])]

LEMMA CopiesFacts ==
    ASSUME NEW r \in Run
    PROVE  /\ Copies(r) \in Seq(Char) /\ Len(Copies(r)) = r.count
           /\ r.count = 0 => Copies(r) = <<>>
           /\ r.count = 1 => Copies(r) = <<r.char>>
           /\ Copies(Bump(r, 1)) = Append(Copies(r), r.char)
<1>1. r.count \in Nat /\ r.char \in Char
  BY DEF Run
<1>2. Copies(r) \in Seq(Char) /\ Len(Copies(r)) = r.count
  BY <1>1 DEF Copies
<1>3. r.count = 0 => Copies(r) = <<>>
  BY <1>2
<1>4. r.count = 1 => Copies(r) = <<r.char>>
  BY <1>1 DEF Copies
<1>5. Copies(Bump(r, 1)) = Append(Copies(r), r.char)
  <2> PICK n : n = r.count
    OBVIOUS
  <2> PICK c : c = r.char
    OBVIOUS
  <2>1. Copies(Bump(r, 1)) = [m \in 1 .. n + 1 |-> c]
    BY BumpFacts DEF Copies
  <2>2. Copies(r) = [m \in 1 .. n |-> c]
    BY DEF Copies
  <2>3. ASSUME NEW s, s = [m \in 1 .. n |-> c], NEW t, t = [m \in 1 .. n + 1 |-> c]
        PROVE  t = Append(s, c)
    <3>1. s \in Seq(Char) /\ t \in Seq(Char) /\ Len(s) = n /\ Len(t) = n + 1
      BY <1>1, <2>3
    <3> QED BY <1>1, <2>3, <3>1
  <2> QED BY <2>1, <2>2, <2>3
<1> QED BY <1>2, <1>3, <1>4, <1>5

LEMMA ExpandDef ==
    ASSUME NEW runs \in Seq(Run)
    PROVE  /\ Expand(runs) = FlattenSeq(AllCopies(runs))
           /\ AllCopies(runs) \in Seq(Seq(Char))
<1>1. DOMAIN runs = 1 .. Len(runs) /\ Len(runs) \in Nat
  OBVIOUS
<1>2. Expand(runs) = FlattenSeq(AllCopies(runs))
  BY <1>1 DEF Expand, AllCopies, Copies
<1>3. \A k \in 1 .. Len(runs) : Copies(runs[k]) \in Seq(Char)
  BY CopiesFacts
<1>4. AllCopies(runs) \in Seq(Seq(Char))
  BY <1>1, <1>3 DEF AllCopies
<1> QED BY <1>2, <1>4

(* What no runs decode to, some runs and one more.                           *)
LEMMA ExpandFacts ==
    ASSUME NEW runs \in Seq(Run)
    PROVE  /\ Expand(<<>>) = <<>>
           /\ Expand(runs) \in Seq(Char)
           /\ \A r \in Run : Expand(Append(runs, r)) = Expand(runs) \o Copies(r)
<1>1. Expand(<<>>) = <<>>
  <2> PICK none : none = <<>>
    OBVIOUS
  <2>1. none \in Seq(Run) /\ Len(none) = 0
    OBVIOUS
  <2>2. Expand(none) = FlattenSeq(AllCopies(none)) /\ AllCopies(none) \in Seq(Seq(Char))
    BY <2>1, ExpandDef
  <2>3. AllCopies(none) = <<>>
    BY <2>1 DEF AllCopies
  <2>4. FlattenSeq(<<>>) = <<>>
    BY <2>2, FlattenFacts
  <2> QED BY <2>2, <2>3, <2>4
<1>2. Expand(runs) \in Seq(Char)
  BY ExpandDef, FlattenFacts
<1>3. ASSUME NEW r \in Run PROVE Expand(Append(runs, r)) = Expand(runs) \o Copies(r)
  <2> PICK more : more = Append(runs, r)
    OBVIOUS
  <2> PICK n : n = Len(runs)
    OBVIOUS
  <2> PICK s : s = AllCopies(runs)
    OBVIOUS
  <2> PICK t : t = AllCopies(more)
    OBVIOUS
  <2> PICK x : x = Copies(r)
    OBVIOUS
  <2>1. more \in Seq(Run) /\ Len(more) = n + 1 /\ more[n + 1] = r /\ n \in Nat
        /\ \A k \in 1 .. n : more[k] = runs[k]
    OBVIOUS
  <2>2. s \in Seq(Seq(Char)) /\ t \in Seq(Seq(Char)) /\ x \in Seq(Char)
    BY <2>1, ExpandDef, CopiesFacts
  <2>3. Len(s) = n /\ Len(t) = n + 1 /\ t[n + 1] = x /\ \A k \in 1 .. n : t[k] = s[k]
    BY <2>1 DEF AllCopies
  <2>4. t = Append(s, x)
    BY <2>1, <2>2, <2>3
  <2>5. FlattenSeq(t) = FlattenSeq(s) \o x
    BY <2>2, <2>4, FlattenFacts
  <2>6. Expand(more) = FlattenSeq(t) /\ Expand(runs) = FlattenSeq(s)
    BY <2>1, ExpandDef
  <2> QED BY <2>5, <2>6
<1> QED BY <1>1, <1>2, <1>3


(* Two sequences that agree on all elements but the last, and on the last.   *)
LEMMA SameButLast ==
    ASSUME NEW S, NEW u \in Seq(S), NEW v \in Seq(S), NEW n \in Nat,
           Len(u) = n + 1, Len(v) = n + 1, u[n + 1] = v[n + 1], \A k \in 1 .. n : u[k] = v[k]
    PROVE  u = v
<1>1. \A k \in 1 .. n + 1 : k = n + 1 \/ k \in 1 .. n
  OBVIOUS
<1>2. \A k \in 1 .. Len(u) : u[k] = v[k]
  BY <1>1
<1>3. Len(u) = Len(v)
  OBVIOUS
<1> QED BY <1>2, <1>3, SeqEqual, Zenon

(* A character more, as the encoders add it to the run they count.           *)
LEMMA AddCharFacts ==
    ASSUME NEW runs \in Seq(Run), NEW r \in Run, NEW c \in Char
    PROVE  /\ AddChar(<<>>, c) = <<[count |-> 1, char |-> c]>>
           /\ r.char = c => AddChar(Append(runs, r), c) = Append(runs, Bump(r, 1))
           /\ r.char # c => AddChar(Append(runs, r), c)
                              = Append(Append(runs, r), [count |-> 1, char |-> c])
<1> PICK more : more = Append(runs, r)
  OBVIOUS
<1> PICK n : n = Len(runs)
  OBVIOUS
<1> PICK b : b = Bump(r, 1)
  OBVIOUS
<1>1. n \in Nat /\ more \in Seq(Run) /\ Len(more) = n + 1 /\ more[n + 1] = r /\ more # <<>>
      /\ Last(more) = r
  BY DEF Last
<1>2. AddChar(<<>>, c) = <<[count |-> 1, char |-> c]>>
  <2>1. AddChar(<<>>, c) = Append(<<>>, [count |-> 1, char |-> c])
    BY DEF AddChar
  <2> QED BY <2>1
<1>3. ASSUME r.char = c PROVE AddChar(more, c) = Append(runs, b)
  <2>1. AddChar(more, c) = [more EXCEPT ![n + 1] = b]
    BY <1>1, <1>3 DEF AddChar, BumpLast
  <2>2. b \in Run
    BY BumpFacts
  <2>3. [more EXCEPT ![n + 1] = b] = Append(runs, b)
    <3>10. PICK u : u = [more EXCEPT ![n + 1] = b]
      OBVIOUS
    <3>11. PICK v : v = Append(runs, b)
      OBVIOUS
    <3>4. n + 1 \in 1 .. Len(more)
      BY <1>1
    <3>5. u \in Seq(Run) /\ Len(u) = Len(more)
      BY <1>1, <2>2, <3>4, <3>10
    <3>6. DOMAIN more = 1 .. n + 1
      BY <1>1
    <3>7. u[n + 1] = b /\ \A k \in 1 .. n : u[k] = more[k]
      <4>1. \A k \in 1 .. n : k \in DOMAIN more /\ k # n + 1
        BY <1>1, <3>6
      <4>2. n + 1 \in DOMAIN more
        BY <3>4, <3>6, <1>1
      <4>3. u[n + 1] = b
        BY <4>2, <3>10
      <4>4. \A k \in 1 .. n : u[k] = more[k]
        BY <4>1, <3>10
      <4> QED BY <4>3, <4>4
    <3>1. u \in Seq(Run) /\ Len(u) = n + 1 /\ u[n + 1] = b
          /\ \A k \in 1 .. n : u[k] = more[k]
      BY <1>1, <3>5, <3>7
    <3>2. v \in Seq(Run) /\ Len(v) = n + 1 /\ v[n + 1] = b
          /\ \A k \in 1 .. n : v[k] = runs[k] /\ more[k] = runs[k]
      BY <1>1, <2>2, <3>11
    <3>9. /\ u \in Seq(Run) /\ v \in Seq(Run) /\ n \in Nat /\ Len(u) = n + 1 /\ Len(v) = n + 1
          /\ u[n + 1] = v[n + 1] /\ \A k \in 1 .. n : u[k] = v[k]
      BY <1>1, <3>1, <3>2
    <3>8. u = v
      BY <3>9, SameButLast
    <3> QED BY <3>8, <3>10, <3>11
  <2> QED BY <2>1, <2>3
<1>4. ASSUME r.char # c PROVE AddChar(more, c) = Append(more, [count |-> 1, char |-> c])
  BY <1>1, <1>4, Zenon DEF AddChar
<1> QED BY <1>2, <1>3, <1>4

LEMMA SplitLast ==
    ASSUME NEW S, NEW s \in Seq(S), s # <<>>
    PROVE  \E t \in Seq(S), x \in S : s = Append(t, x) /\ Len(s) = Len(t) + 1
<1> PICK n : n = Len(s)
  OBVIOUS
<1> PICK t : t = [k \in 1 .. n - 1 |-> s[k]]
  OBVIOUS
<1> PICK x : x = s[n]
  OBVIOUS
<1>1. n \in Nat \ {0} /\ x \in S
  OBVIOUS
<1>2. t \in Seq(S) /\ Len(t) = n - 1
  BY <1>1
<1>3. s = Append(t, x)
  <2> PICK u : u = Append(t, x)
    OBVIOUS
  <2>1. u \in Seq(S) /\ Len(u) = n /\ u[n] = x /\ \A k \in 1 .. n - 1 : u[k] = t[k]
    BY <1>1, <1>2
  <2>2. \A k \in 1 .. n : k = n \/ k \in 1 .. n - 1
    BY <1>1
  <2>3. \A k \in 1 .. n : s[k] = u[k]
    BY <1>1, <2>1, <2>2
  <2>4. u \in Seq(S) /\ Len(s) = Len(u) /\ \A k \in 1 .. Len(s) : s[k] = u[k]
    BY <2>1, <2>3
  <2>5. s = u
    BY <2>4, SeqEqual
  <2> QED BY <2>5
<1>4. Len(s) = Len(t) + 1
  BY <1>1, <1>2
<1>5. t \in Seq(S) /\ x \in S
  BY <1>1, <1>2
<1> QED BY <1>3, <1>4, <1>5, Zenon

(* To decode an encoding gives the text back.                                *)
LEMMA ExpandAddChar ==
    ASSUME NEW runs \in Seq(Run), NEW c \in Char
    PROVE  Expand(AddChar(runs, c)) = Append(Expand(runs), c)
<1> PICK one : one = [count |-> 1, char |-> c]
  OBVIOUS
<1>1. one \in Run /\ Copies(one) = <<c>>
  <2>1. one \in Run /\ one.count = 1 /\ one.char = c
    BY DEF Run
  <2> QED BY <2>1, CopiesFacts
<1>2. \A rs \in Seq(Run) : Expand(Append(rs, one)) = Append(Expand(rs), c)
  <2> SUFFICES ASSUME NEW rs \in Seq(Run) PROVE Expand(Append(rs, one)) = Append(Expand(rs), c)
    OBVIOUS
  <2> PICK e : e = Expand(rs)
    OBVIOUS
  <2>1. e \in Seq(Char) /\ Expand(Append(rs, one)) = e \o <<c>>
    BY <1>1, ExpandFacts
  <2>2. e \o <<c>> = Append(e, c)
    BY <2>1
  <2> QED BY <2>1, <2>2
<1>3. CASE runs = <<>>
  <2> PICK none : none = <<>>
    OBVIOUS
  <2>1. none \in Seq(Run) /\ Append(none, one) = <<one>>
    OBVIOUS
  <2>2. AddChar(none, c) = <<one>>
    BY <2>1, <1>1, AddCharFacts
  <2> QED BY <1>2, <1>3, <2>1, <2>2
<1>4. CASE runs # <<>>
  <2> PICK rs \in Seq(Run), r \in Run : runs = Append(rs, r)
    BY <1>4, SplitLast
  <2>1. CASE r.char = c
    <3> PICK e : e = Expand(rs)
      OBVIOUS
    <3> PICK x : x = Copies(r)
      OBVIOUS
    <3>1. AddChar(runs, c) = Append(rs, Bump(r, 1)) /\ Bump(r, 1) \in Run
      BY <2>1, AddCharFacts, BumpFacts
    <3>2. Expand(AddChar(runs, c)) = e \o Copies(Bump(r, 1)) /\ Expand(runs) = e \o x
      BY <3>1, ExpandFacts
    <3>3. Copies(Bump(r, 1)) = Append(x, c)
      BY <2>1, CopiesFacts
    <3>4. e \in Seq(Char) /\ x \in Seq(Char)
      BY ExpandFacts, CopiesFacts
    <3>5. e \o Append(x, c) = Append(e \o x, c)
      BY <3>4
    <3> QED BY <3>2, <3>3, <3>5
  <2>2. CASE r.char # c
    BY <1>2, <2>2, AddCharFacts
  <2> QED BY <2>1, <2>2
<1> QED BY <1>3, <1>4

LEMMA ExpandRle ==
    ASSUME NEW text \in Seq(Char)
    PROVE  Expand(Rle(text)) = text
<1> DEFINE T == {n \in Nat : \E t \in Seq(Char) : Len(t) = n /\ Expand(Rle(t)) # t}
<1> SUFFICES ASSUME T # {} PROVE FALSE
  <2>1. Len(text) \in Nat
    OBVIOUS
  <2> QED BY <2>1
<1>1. T \in SUBSET Nat
      /\ \A n \in Nat \ T : \A t \in Seq(Char) : Len(t) = n => Expand(Rle(t)) = t
  OBVIOUS
<1>2. \A n \in T : \E t \in Seq(Char) : Len(t) = n /\ Expand(Rle(t)) # t
  OBVIOUS
<1> HIDE DEF T
<1> PICK n : n \in T /\ \A m \in T : n <= m
  BY <1>1, LeastNat
<1> PICK t \in Seq(Char) : Len(t) = n /\ Expand(Rle(t)) # t
  BY <1>2
<1>3. t # <<>>
  <2> PICK none : none = <<>>
    OBVIOUS
  <2>1. none \in Seq(Run) /\ none \in Seq(Char)
    OBVIOUS
  <2>2. Rle(<<>>) = <<>> /\ Expand(<<>>) = <<>>
    BY <2>1, RleFacts, ExpandFacts
  <2> QED BY <2>2
<1> PICK s \in Seq(Char), c \in Char : t = Append(s, c) /\ Len(t) = Len(s) + 1
  BY <1>3, SplitLast
<1>4. Len(s) \in Nat \ T
  <2>1. Len(s) \in Nat /\ ~(n <= Len(s))
    OBVIOUS
  <2> QED BY <2>1
<1>5. Expand(Rle(s)) = s
  BY <1>1, <1>4
<1>6. Rle(s) \in Seq(Run) /\ Rle(t) = AddChar(Rle(s), c)
  BY RleFacts
<1>7. Expand(Rle(t)) = Append(s, c)
  BY <1>5, <1>6, ExpandAddChar
<1> QED BY <1>7


LEMMA Associative ==
    ASSUME NEW x \in Seq(Char), NEW y \in Seq(Char), NEW z \in Seq(Char)
    PROVE  (x \o y) \o z = x \o (y \o z)
BY ConcatAssociative

(* The same as a named statement, to be cited where there is much else in sight. *)
Regroups(x, y, z) == (x \o y) \o z = x \o (y \o z)

LEMMA Regroup ==
    ASSUME NEW x \in Seq(Char), NEW y \in Seq(Char), NEW z \in Seq(Char)
    PROVE  Regroups(x, y, z)
BY Associative DEF Regroups

-----------------------------------------------------------------------------
(* The text of the first files of a command line.                            *)
LEMMA FirstFiles ==
    ASSUME NEW V, NEW files \in Seq(V), NEW n \in 0 .. Len(files), NEW S,
           \A k \in 1 .. n : files[k] \in S
    PROVE  /\ SubSeq(files, 1, n) \in Seq(S) /\ Len(SubSeq(files, 1, n)) = n
           /\ \A k \in 1 .. n : SubSeq(files, 1, n)[k] = files[k]
           /\ n = 0 => SubSeq(files, 1, n) = <<>>
<1> PICK s : s = SubSeq(files, 1, n)
  OBVIOUS
<1>1. s = [k \in 1 .. n |-> files[k]]
  OBVIOUS
<1>2. n \in Nat
  OBVIOUS
<1>3. s \in Seq(S) /\ Len(s) = n /\ \A k \in 1 .. n : s[k] = files[k]
  BY <1>1, <1>2
<1>4. n = 0 => s = <<>>
  BY <1>3
<1> QED BY <1>3, <1>4

(* What the first n sequences flatten to, from what the first n - 1 do.        *)
GrowsBy(files, n, C) ==
    /\ FlattenSeq(SubSeq(files, 1, n)) \in Seq(C)
    /\ n = 0 => FlattenSeq(SubSeq(files, 1, n)) = <<>>
    /\ n # 0 => FlattenSeq(SubSeq(files, 1, n))
                  = FlattenSeq(SubSeq(files, 1, n - 1)) \o files[n]

LEMMA FlattenUpTo ==
    ASSUME NEW V, NEW C, NEW files \in Seq(V), NEW n \in 0 .. Len(files),
           \A k \in 1 .. n : files[k] \in Seq(C)
    PROVE  GrowsBy(files, n, C)
<1> PICK S : S = Seq(C)
  OBVIOUS
<1> PICK s : s = SubSeq(files, 1, n)
  OBVIOUS
<1>1. s \in Seq(S) /\ Len(s) = n /\ (\A k \in 1 .. n : s[k] = files[k]) /\ (n = 0 => s = <<>>)
  BY FirstFiles
<1>2. FlattenSeq(s) \in Seq(C)
  BY <1>1, FlattenFacts
<1>3. n = 0 => FlattenSeq(s) = <<>>
  BY <1>1, FlattenFacts
<1>4. ASSUME n # 0
      PROVE  FlattenSeq(s) = FlattenSeq(SubSeq(files, 1, n - 1)) \o files[n]
  <2> PICK m : m = n - 1
    OBVIOUS
  <2> PICK t : t = SubSeq(files, 1, m)
    OBVIOUS
  <2> PICK f : f = files[n]
    OBVIOUS
  <2>1. m \in 0 .. Len(files) /\ m \in Nat /\ n = m + 1 /\ n \in 1 .. n
        /\ \A k \in 1 .. m : k \in 1 .. n
    BY <1>4
  <2>2. \A k \in 1 .. m : files[k] \in S
    BY <2>1
  <2>3. t \in Seq(S) /\ Len(t) = m /\ (\A k \in 1 .. m : t[k] = files[k])
    BY <2>1, <2>2, FirstFiles
  <2>4. f \in S
    BY <2>1
  <2>5. s = Append(t, f)
    <3> PICK u : u = Append(t, f)
      OBVIOUS
    <3>1. u \in Seq(S) /\ Len(u) = m + 1 /\ u[m + 1] = f /\ \A k \in 1 .. m : u[k] = t[k]
      BY <2>1, <2>3, <2>4
    <3>2. \A k \in 1 .. m + 1 : k = m + 1 \/ k \in 1 .. m
      BY <2>1
    <3>3. Len(s) = Len(u) /\ \A k \in 1 .. Len(s) : s[k] = u[k]
      BY <1>1, <2>1, <2>3, <3>1, <3>2
    <3>4. u \in Seq(S)
      BY <3>1
    <3>5. s = u
      BY <1>1, <3>3, <3>4, SeqEqual
    <3> QED BY <3>5
  <2>6. FlattenSeq(Append(t, f)) = FlattenSeq(t) \o f
    BY <2>3, <2>4, FlattenFacts
  <2> QED BY <2>5, <2>6
<1> QED BY <1>2, <1>3, <1>4 DEF GrowsBy

LEMMA TextUpTo ==
    ASSUME NEW V, NEW files \in Seq(V), NEW n \in 0 .. Len(files),
           \A k \in 1 .. n : files[k] \in Seq(Char)
    PROVE  /\ TextOf(SubSeq(files, 1, n)) \in Seq(Char)
           /\ n = 0 => TextOf(SubSeq(files, 1, n)) = <<>>
           /\ n # 0 => TextOf(SubSeq(files, 1, n))
                         = TextOf(SubSeq(files, 1, n - 1)) \o files[n]
<1>1. GrowsBy(files, n, Char)
  BY FlattenUpTo
<1> QED BY <1>1 DEF GrowsBy, TextOf

LEMMA TextPrefix ==
    ASSUME NEW V, NEW files \in Seq(V), NEW n \in 0 .. Len(files), NEW m \in 0 .. n,
           \A k \in 1 .. n : files[k] \in Seq(Char)
    PROVE  \E rest \in Seq(Char) :
             TextOf(SubSeq(files, 1, n)) = TextOf(SubSeq(files, 1, m)) \o rest
<1> DEFINE Up(l) == TextOf(SubSeq(files, 1, l))
           T == {l \in m .. n : ~\E rest \in Seq(Char) : Up(l) = Up(m) \o rest}
<1> SUFFICES ASSUME T # {} PROVE FALSE
  <2>1. n \in m .. n
    OBVIOUS
  <2> QED BY <2>1
<1>1. T \in SUBSET Nat /\ \A l \in T : l \in m .. n
  OBVIOUS
<1>2. \A l \in m .. n : l \notin T => \E rest \in Seq(Char) : Up(l) = Up(m) \o rest
  OBVIOUS
<1>3. \A l \in T : ~\E rest \in Seq(Char) : Up(l) = Up(m) \o rest
  OBVIOUS
<1> HIDE DEF T
<1> PICK l : l \in T /\ \A x \in T : l <= x
  BY <1>1, LeastNat
<1>4. l \in m .. n /\ l \in 0 .. Len(files) /\ \A k \in 1 .. l : files[k] \in Seq(Char)
  BY <1>1
<1>5. Up(l) \in Seq(Char) /\ (l # 0 => Up(l) = Up(l - 1) \o files[l])
  BY <1>4, TextUpTo
<1> HIDE DEF Up
<1>6. CASE l = m
  <2> PICK u : u = Up(m)
    OBVIOUS
  <2> PICK none : none = <<>>
    OBVIOUS
  <2>1. u \in Seq(Char) /\ none \in Seq(Char) /\ u = u \o none
    BY <1>5, <1>6
  <2> QED BY <1>3, <1>6, <2>1
<1>7. CASE l # m
  <2>1. l - 1 \in m .. n /\ ~(l <= l - 1) /\ l # 0 /\ l \in 1 .. l
    BY <1>4, <1>7
  <2>2. l - 1 \notin T
    BY <2>1
  <2> PICK rest \in Seq(Char) : Up(l - 1) = Up(m) \o rest
    BY <1>2, <2>1, <2>2
  <2> PICK f : f = files[l]
    OBVIOUS
  <2> PICK u : u = Up(m)
    OBVIOUS
  <2>3. f \in Seq(Char)
    BY <1>4, <2>1
  <2>4. u \in Seq(Char)
    <3>1. m \in 0 .. Len(files) /\ \A k \in 1 .. m : files[k] \in Seq(Char)
      BY <1>4
    <3> QED BY <3>1, TextUpTo DEF Up
  <2>5. rest \o f \in Seq(Char) /\ (u \o rest) \o f = u \o (rest \o f)
    <3>1. rest \o f \in Seq(Char)
      BY <2>3, ConcatProperties
    <3>3. (u \o rest) \o f = u \o (rest \o f)
      BY <2>3, <2>4, Associative, Zenon
    <3> QED BY <3>1, <3>3
  <2>6. Up(l) = u \o (rest \o f)
    BY <1>5, <2>1, <2>5
  <2> QED BY <1>3, <2>5, <2>6
<1> QED BY <1>6, <1>7


-----------------------------------------------------------------------------
(* What an encoder has written stays what the encoding begins with, as long as
   it has not written the last run: only that one grows. *)
Settles(runs, code) == /\ Len(runs) < Len(code)
                       /\ \A k \in 1 .. Len(runs) : code[k] = runs[k]

LEMMA AddCharSettles ==
    ASSUME NEW runs \in Seq(Run), NEW code \in Seq(Run), NEW c \in Char, Settles(runs, code)
    PROVE  Settles(runs, AddChar(code, c))
<1> PICK one : one = [count |-> 1, char |-> c]
  OBVIOUS
<1>1. Len(runs) \in Nat /\ Len(code) \in Nat /\ Len(runs) < Len(code) /\ code # <<>>
      /\ \A k \in 1 .. Len(runs) : code[k] = runs[k]
  BY DEF Settles
<1> PICK rs \in Seq(Run), r \in Run : code = Append(rs, r) /\ Len(code) = Len(rs) + 1
  BY <1>1, SplitLast
<1>2. Len(rs) \in Nat /\ Len(runs) <= Len(rs) /\ \A k \in 1 .. Len(runs) : k \in 1 .. Len(rs)
  BY <1>1
<1>3. \A k \in 1 .. Len(rs) : code[k] = rs[k]
  BY AppendProperties
<1>4. \A k \in 1 .. Len(runs) : rs[k] = runs[k]
  BY <1>1, <1>2, <1>3
<1>5. ASSUME NEW b \in Run PROVE Settles(runs, Append(rs, b))
  <2>1. Len(Append(rs, b)) = Len(rs) + 1 /\ \A k \in 1 .. Len(rs) : Append(rs, b)[k] = rs[k]
    BY AppendProperties
  <2> QED BY <1>2, <1>4, <2>1 DEF Settles
<1>6. CASE r.char = c
  <2>1. AddChar(code, c) = Append(rs, Bump(r, 1)) /\ Bump(r, 1) \in Run
    BY <1>6, AddCharFacts, BumpFacts
  <2> QED BY <1>5, <2>1
<1>7. CASE r.char # c
  <2>1. one \in Run
    BY DEF Run
  <2>2. AddChar(code, c) = Append(code, one)
    BY <1>7, AddCharFacts
  <2>3. Len(Append(code, one)) = Len(code) + 1
        /\ \A k \in 1 .. Len(code) : Append(code, one)[k] = code[k]
    BY <2>1, AppendProperties
  <2>4. \A k \in 1 .. Len(runs) : k \in 1 .. Len(code)
    BY <1>1
  <2> QED BY <1>1, <2>2, <2>3, <2>4 DEF Settles
<1> QED BY <1>6, <1>7

LEMMA RleSettles ==
    ASSUME NEW text \in Seq(Char), NEW more \in Seq(Char), NEW runs \in Seq(Run),
           Settles(runs, Rle(text))
    PROVE  Settles(runs, Rle(text \o more))
<1> DEFINE T == {n \in Nat : \E t \in Seq(Char) :
                               Len(t) = n /\ ~Settles(runs, Rle(text \o t))}
<1> SUFFICES ASSUME T # {} PROVE FALSE
  <2>1. Len(more) \in Nat
    OBVIOUS
  <2> QED BY <2>1
<1>1. T \in SUBSET Nat
      /\ \A n \in Nat \ T : \A t \in Seq(Char) : Len(t) = n => Settles(runs, Rle(text \o t))
  OBVIOUS
<1>2. \A n \in T : \E t \in Seq(Char) : Len(t) = n /\ ~Settles(runs, Rle(text \o t))
  OBVIOUS
<1> HIDE DEF T
<1> PICK n : n \in T /\ \A m \in T : n <= m
  BY <1>1, LeastNat
<1> PICK t \in Seq(Char) : Len(t) = n /\ ~Settles(runs, Rle(text \o t))
  BY <1>2
<1>3. t # <<>>
  BY ConcatEmptySeq
<1> PICK s \in Seq(Char), c \in Char : t = Append(s, c) /\ Len(t) = Len(s) + 1
  BY <1>3, SplitLast
<1>4. Len(s) \in Nat \ T
  <2>1. Len(s) \in Nat /\ ~(n <= Len(s))
    OBVIOUS
  <2> QED BY <2>1
<1> PICK u : u = text \o s
  OBVIOUS
<1>5. Settles(runs, Rle(u)) /\ u \in Seq(Char)
  BY <1>1, <1>4, ConcatProperties
<1>6. text \o t = Append(u, c)
  <2>1. t = s \o <<c>> /\ Append(u, c) = u \o <<c>> /\ <<c>> \in Seq(Char)
    BY <1>5, AppendIsConcat
  <2> QED BY <2>1, Associative
<1>7. Rle(u) \in Seq(Run) /\ Rle(text \o t) = AddChar(Rle(u), c)
  BY <1>5, <1>6, RleFacts
<1> QED BY <1>5, <1>7, AddCharSettles


-----------------------------------------------------------------------------
LEMMA ConcatAppend ==
    ASSUME NEW S, NEW x \in Seq(S), NEW y \in Seq(S), NEW e \in S
    PROVE  x \o Append(y, e) = Append(x \o y, e)
<1>1. Append(y, e) = y \o <<e>> /\ x \o y \in Seq(S) /\ <<e>> \in Seq(S)
  BY AppendIsConcat, ConcatProperties
<1>2. Append(x \o y, e) = (x \o y) \o <<e>>
  BY <1>1, AppendIsConcat
<1> QED BY <1>1, <1>2, ConcatAssociative

(* Encodings one after the other: what a list of results holds.              *)
LEMMA ExpandConcat ==
    ASSUME NEW x \in Seq(Run), NEW y \in Seq(Run)
    PROVE  Expand(x \o y) = Expand(x) \o Expand(y)
<1> DEFINE T == {n \in Nat : \E t \in Seq(Run) :
                               Len(t) = n /\ Expand(x \o t) # Expand(x) \o Expand(t)}
<1> SUFFICES ASSUME T # {} PROVE FALSE
  <2>1. Len(y) \in Nat
    OBVIOUS
  <2> QED BY <2>1
<1>1. T \in SUBSET Nat
      /\ \A n \in Nat \ T : \A t \in Seq(Run) :
            Len(t) = n => Expand(x \o t) = Expand(x) \o Expand(t)
  OBVIOUS
<1>2. \A n \in T : \E t \in Seq(Run) : Len(t) = n /\ Expand(x \o t) # Expand(x) \o Expand(t)
  OBVIOUS
<1> HIDE DEF T
<1> PICK n : n \in T /\ \A m \in T : n <= m
  BY <1>1, LeastNat
<1> PICK t \in Seq(Run) : Len(t) = n /\ Expand(x \o t) # Expand(x) \o Expand(t)
  BY <1>2
<1> PICK e : e = Expand(x)
  OBVIOUS
<1>3. e \in Seq(Char) /\ Expand(<<>>) = <<>>
  BY ExpandFacts
<1>4. t # <<>>
  <2>1. ASSUME t = <<>> PROVE FALSE
    <3>1. x \o t = x /\ e \o <<>> = e
      BY <1>3, <2>1, ConcatEmptySeq
    <3> QED BY <1>3, <2>1, <3>1
  <2> QED BY <2>1
<1> PICK s \in Seq(Run), r \in Run : t = Append(s, r) /\ Len(t) = Len(s) + 1
  BY <1>4, SplitLast
<1>5. Len(s) \in Nat \ T
  <2>1. Len(s) \in Nat /\ ~(n <= Len(s))
    OBVIOUS
  <2> QED BY <2>1
<1> PICK d : d = Expand(s)
  OBVIOUS
<1> PICK z : z = Copies(r)
  OBVIOUS
<1>6. d \in Seq(Char) /\ z \in Seq(Char) /\ x \o s \in Seq(Run) /\ Expand(x \o s) = e \o d
  <2>1. x \o s \in Seq(Run)
    BY ConcatProperties
  <2> QED BY <1>1, <1>5, <2>1, ExpandFacts, CopiesFacts
<1>7. x \o t = Append(x \o s, r)
  BY ConcatAppend
<1>8. Expand(x \o t) = (e \o d) \o z /\ Expand(t) = d \o z
  BY <1>6, <1>7, ExpandFacts
<1>9. (e \o d) \o z = e \o (d \o z)
  BY <1>3, <1>6, Regroup DEF Regroups
<1> QED BY <1>8, <1>9

(* A run that has become longer, and a run behind others that has.           *)
LEMMA CopiesSum ==
    ASSUME NEW r \in Run, NEW n \in Nat
    PROVE  Copies(Bump(r, n)) = Copies(r) \o Copies([count |-> n, char |-> r.char])
<1> PICK c : c = r.char
  OBVIOUS
<1> PICK m : m = r.count
  OBVIOUS
<1>1. c \in Char /\ m \in Nat /\ [count |-> n, char |-> c] \in Run
  BY DEF Run
<1> PICK x : x = Copies(Bump(r, n))
  OBVIOUS
<1> PICK y : y = Copies(r)
  OBVIOUS
<1> PICK z : z = Copies([count |-> n, char |-> c])
  OBVIOUS
<1>2. x = [k \in 1 .. m + n |-> c] /\ y = [k \in 1 .. m |-> c] /\ z = [k \in 1 .. n |-> c]
  BY BumpFacts DEF Copies
<1>3. /\ x \in Seq(Char) /\ Len(x) = m + n /\ (\A k \in 1 .. m + n : x[k] = c)
      /\ y \in Seq(Char) /\ Len(y) = m /\ (\A k \in 1 .. m : y[k] = c)
      /\ z \in Seq(Char) /\ Len(z) = n /\ (\A k \in 1 .. n : z[k] = c)
  <2>1. ASSUME NEW l \in Nat, NEW s, s = [k \in 1 .. l |-> c]
        PROVE  s \in Seq(Char) /\ Len(s) = l /\ \A k \in 1 .. l : s[k] = c
    BY <1>1, <2>1
  <2>2. m + n \in Nat
    BY <1>1
  <2> QED BY <1>1, <1>2, <2>1, <2>2, Zenon
<1>4. y \o z \in Seq(Char) /\ Len(y \o z) = m + n
      /\ \A k \in 1 .. m + n : (y \o z)[k] = c
  <2>1. y \o z \in Seq(Char) /\ Len(y \o z) = m + n
    BY <1>1, <1>3, ConcatProperties
  <2>2. \A k \in 1 .. m + n : (y \o z)[k] = IF k <= m THEN y[k] ELSE z[k - m]
    BY <1>3, ConcatProperties
  <2>3. \A k \in 1 .. m + n : k \in 1 .. m \/ (~(k <= m) /\ k - m \in 1 .. n)
    BY <1>1
  <2> QED BY <1>1, <1>3, <2>1, <2>2, <2>3
<1>5. x = y \o z
  <2>1. Len(x) = Len(y \o z) /\ \A k \in 1 .. Len(x) : x[k] = (y \o z)[k]
    BY <1>3, <1>4
  <2> QED BY <1>3, <1>4, <2>1, SeqEqual, Zenon
<1> QED BY <1>5

LEMMA BumpLastFacts ==
    ASSUME NEW runs \in Seq(Run), NEW r \in Run, NEW n \in Nat
    PROVE  /\ BumpLast(Append(runs, r), n) = Append(runs, Bump(r, n))
           /\ Expand(BumpLast(Append(runs, r), n))
                = Expand(Append(runs, r)) \o Copies([count |-> n, char |-> r.char])
<1> PICK more : more = Append(runs, r)
  OBVIOUS
<1> PICK m : m = Len(runs)
  OBVIOUS
<1> PICK b : b = Bump(r, n)
  OBVIOUS
<1>1. m \in Nat /\ more \in Seq(Run) /\ Len(more) = m + 1 /\ more[m + 1] = r /\ more # <<>>
  OBVIOUS
<1>2. b \in Run
  BY BumpFacts
<1>3. BumpLast(more, n) = [more EXCEPT ![m + 1] = b]
  BY <1>1 DEF BumpLast
<1>4. [more EXCEPT ![m + 1] = b] = Append(runs, b)
  <2>6. PICK u : u = [more EXCEPT ![m + 1] = b]
    OBVIOUS
  <2>7. PICK v : v = Append(runs, b)
    OBVIOUS
  <2>1. m + 1 \in 1 .. Len(more) /\ DOMAIN more = 1 .. m + 1
    BY <1>1
  <2>2. u \in Seq(Run) /\ Len(u) = m + 1
    BY <1>1, <1>2, <2>1, <2>6
  <2>3. u[m + 1] = b /\ \A k \in 1 .. m : u[k] = more[k]
    <3>1. \A k \in 1 .. m : k \in DOMAIN more /\ k # m + 1
      BY <1>1, <2>1
    <3>2. m + 1 \in DOMAIN more
      BY <1>1, <2>1
    <3>3. u[m + 1] = b
      BY <3>2, <2>6
    <3>4. \A k \in 1 .. m : u[k] = more[k]
      BY <3>1, <2>6
    <3> QED BY <3>3, <3>4
  <2>4. v \in Seq(Run) /\ Len(v) = m + 1 /\ v[m + 1] = b
        /\ \A k \in 1 .. m : v[k] = runs[k] /\ more[k] = runs[k]
    BY <1>1, <1>2, <2>7
  <2>5. /\ u \in Seq(Run) /\ v \in Seq(Run) /\ m \in Nat /\ Len(u) = m + 1 /\ Len(v) = m + 1
        /\ u[m + 1] = v[m + 1] /\ \A k \in 1 .. m : u[k] = v[k]
    BY <1>1, <2>2, <2>3, <2>4
  <2>8. u = v
    BY <2>5, SameButLast
  <2> QED BY <2>6, <2>7, <2>8
<1>5. Expand(Append(runs, b)) = Expand(more) \o Copies([count |-> n, char |-> r.char])
  <2> PICK e : e = Expand(runs)
    OBVIOUS
  <2> PICK x : x = Copies(r)
    OBVIOUS
  <2> PICK tail : tail = [count |-> n, char |-> r.char]
    OBVIOUS
  <2> PICK z : z = Copies(tail)
    OBVIOUS
  <2>1. tail \in Run
    BY DEF Run
  <2>2. e \in Seq(Char) /\ x \in Seq(Char) /\ z \in Seq(Char)
    BY <2>1, ExpandFacts, CopiesFacts
  <2>3. Expand(Append(runs, b)) = e \o Copies(b) /\ Expand(more) = e \o x
    BY <1>2, ExpandFacts
  <2>4. Copies(b) = x \o z
    BY CopiesSum
  <2>5. Regroups(e, x, z)
    BY <2>2, Regroup
  <2> QED BY <2>3, <2>4, <2>5 DEF Regroups
<1> QED BY <1>3, <1>4, <1>5

-----------------------------------------------------------------------------
(* An encoding is canonical when no run is empty and no two neighbours could
   be one: then it is what the serial encoder writes for its text. *)
Canonical(runs) ==
    /\ \A n \in 1 .. Len(runs) : runs[n].count >= 1
    /\ \A n \in 1 .. Len(runs) - 1 : runs[n].char # runs[n + 1].char

LEMMA CanonicalAppend ==
    ASSUME NEW runs \in Seq(Run), NEW r \in Run
    PROVE  Canonical(Append(runs, r)) <=>
             /\ Canonical(runs) /\ r.count >= 1
             /\ runs # <<>> => runs[Len(runs)].char # r.char
<1> PICK more : more = Append(runs, r)
  OBVIOUS
<1> PICK m : m = Len(runs)
  OBVIOUS
<1>1. /\ m \in Nat /\ Len(more) = m + 1 /\ more[m + 1] = r
      /\ \A n \in 1 .. m : more[n] = runs[n]
      /\ (runs # <<>>) <=> (m # 0)
  BY AppendProperties
<1>2. ASSUME Canonical(more)
      PROVE  Canonical(runs) /\ r.count >= 1 /\ (runs # <<>> => runs[m].char # r.char)
  <2>1. /\ \A n \in 1 .. m + 1 : more[n].count >= 1
        /\ \A n \in 1 .. m : more[n].char # more[n + 1].char
    BY <1>1, <1>2 DEF Canonical
  <2>2. /\ \A n \in 1 .. m : n \in 1 .. m + 1
        /\ \A n \in 1 .. m - 1 : n \in 1 .. m /\ n + 1 \in 1 .. m
        /\ m + 1 \in 1 .. m + 1 /\ (m # 0 => m \in 1 .. m)
    BY <1>1
  <2>3. Canonical(runs)
    BY <1>1, <2>1, <2>2 DEF Canonical
  <2> QED BY <1>1, <2>1, <2>2, <2>3
<1>3. ASSUME Canonical(runs), r.count >= 1, runs # <<>> => runs[m].char # r.char
      PROVE  Canonical(more)
  <2>1. /\ \A n \in 1 .. m : runs[n].count >= 1
        /\ \A n \in 1 .. m - 1 : runs[n].char # runs[n + 1].char
    BY <1>3 DEF Canonical
  <2>2. /\ \A n \in 1 .. m + 1 : n \in 1 .. m \/ n = m + 1
        /\ \A n \in 1 .. m : n = m \/ (n \in 1 .. m - 1 /\ n + 1 \in 1 .. m)
    BY <1>1
  <2>3. \A n \in 1 .. m + 1 : more[n].count >= 1
    BY <1>1, <1>3, <2>1, <2>2
  <2>4. \A n \in 1 .. m : more[n].char # more[n + 1].char
    <3> SUFFICES ASSUME NEW n \in 1 .. m PROVE more[n].char # more[n + 1].char
      OBVIOUS
    <3>1. more[n] = runs[n] /\ m # 0
      BY <1>1
    <3>2. CASE n = m
      BY <1>1, <1>3, <3>1, <3>2
    <3>3. CASE n # m
      <4>1. n \in 1 .. m - 1 /\ n + 1 \in 1 .. m
        BY <2>2, <3>3
      <4>2. more[n + 1] = runs[n + 1]
        BY <1>1, <4>1
      <4> QED BY <2>1, <3>1, <4>1, <4>2
    <3> QED BY <3>2, <3>3
  <2>5. Len(more) - 1 = m
    BY <1>1
  <2> QED BY <1>1, <2>3, <2>4, <2>5 DEF Canonical
<1> QED BY <1>2, <1>3

LEMMA AddCharCanonical ==
    ASSUME NEW runs \in Seq(Run), NEW c \in Char, Canonical(runs)
    PROVE  Canonical(AddChar(runs, c))
<1> PICK one : one = [count |-> 1, char |-> c]
  OBVIOUS
<1>1. one \in Run /\ one.count >= 1 /\ one.char = c
  BY DEF Run
<1>2. CASE runs = <<>>
  <2> PICK none : none = <<>>
    OBVIOUS
  <2>1. Append(none, one) = <<one>> /\ none \in Seq(Run)
    OBVIOUS
  <2>3. AddChar(none, c) = <<one>>
    BY <1>1, <2>1, AddCharFacts
  <2>2. Canonical(none)
    BY DEF Canonical
  <2>4. Canonical(Append(none, one))
    <3>1. none \in Seq(Run) /\ one \in Run
      BY <1>1, <2>1
    <3>2. Canonical(Append(none, one)) <=>
             /\ Canonical(none) /\ one.count >= 1
             /\ none # <<>> => none[Len(none)].char # one.char
      BY <3>1, CanonicalAppend
    <3> QED BY <1>1, <2>2, <3>2
  <2> QED BY <1>2, <2>1, <2>3, <2>4
<1>3. CASE runs # <<>>
  <2> PICK rs \in Seq(Run), r \in Run : runs = Append(rs, r) /\ Len(runs) = Len(rs) + 1
    BY <1>3, SplitLast
  <2>1. Canonical(rs) /\ r.count >= 1 /\ (rs # <<>> => rs[Len(rs)].char # r.char)
    BY CanonicalAppend
  <2>2. runs[Len(runs)] = r
    BY AppendProperties
  <2>3. CASE r.char = c
    <3>1. AddChar(runs, c) = Append(rs, Bump(r, 1)) /\ Bump(r, 1) \in Run
          /\ Bump(r, 1).char = r.char /\ Bump(r, 1).count = r.count + 1
      BY <2>3, AddCharFacts, BumpFacts
    <3>2. r.count + 1 >= 1
      BY DEF Run
    <3> QED BY <2>1, <3>1, <3>2, CanonicalAppend
  <2>4. CASE r.char # c
    <3>1. AddChar(runs, c) = Append(runs, one)
      BY <2>4, AddCharFacts
    <3>2. Canonical(Append(runs, one))
      <4>1. Canonical(Append(runs, one)) <=>
               /\ Canonical(runs) /\ one.count >= 1
               /\ runs # <<>> => runs[Len(runs)].char # one.char
        BY <1>1, CanonicalAppend
      <4> QED BY <1>1, <2>2, <2>4, <4>1
    <3> QED BY <3>1, <3>2
  <2> QED BY <2>3, <2>4
<1> QED BY <1>2, <1>3

LEMMA RleCanonical ==
    ASSUME NEW text \in Seq(Char)
    PROVE  Canonical(Rle(text))
<1> DEFINE T == {n \in Nat : \E t \in Seq(Char) : Len(t) = n /\ ~Canonical(Rle(t))}
<1> SUFFICES ASSUME T # {} PROVE FALSE
  <2>1. Len(text) \in Nat
    OBVIOUS
  <2> QED BY <2>1
<1>1. T \in SUBSET Nat
      /\ \A n \in Nat \ T : \A t \in Seq(Char) : Len(t) = n => Canonical(Rle(t))
  OBVIOUS
<1>2. \A n \in T : \E t \in Seq(Char) : Len(t) = n /\ ~Canonical(Rle(t))
  OBVIOUS
<1> HIDE DEF T
<1> PICK n : n \in T /\ \A m \in T : n <= m
  BY <1>1, LeastNat
<1> PICK t \in Seq(Char) : Len(t) = n /\ ~Canonical(Rle(t))
  BY <1>2
<1>3. t # <<>>
  <2>1. Rle(<<>>) = <<>>
    BY RleFacts
  <2>2. Canonical(<<>>)
    BY DEF Canonical
  <2> QED BY <2>1, <2>2
<1> PICK s \in Seq(Char), c \in Char : t = Append(s, c) /\ Len(t) = Len(s) + 1
  BY <1>3, SplitLast
<1>4. Len(s) \in Nat \ T
  <2>1. Len(s) \in Nat /\ ~(n <= Len(s))
    OBVIOUS
  <2> QED BY <2>1
<1>5. Canonical(Rle(s))
  BY <1>1, <1>4
<1>6. Rle(s) \in Seq(Run) /\ Rle(t) = AddChar(Rle(s), c)
  BY RleFacts
<1> QED BY <1>5, <1>6, AddCharCanonical

(* A run of a character behind a text that does not end with it.             *)
LEMMA RleOfRun ==
    ASSUME NEW text \in Seq(Char), NEW r \in Run, r.count >= 1,
           Rle(text) # <<>> => Last(Rle(text)).char # r.char
    PROVE  Rle(text \o Copies(r)) = Append(Rle(text), r)
<1> PICK c : c = r.char
  OBVIOUS
<1>0. c \in Char /\ r.count \in Nat
  BY DEF Run
<1> DEFINE Of(n) == [count |-> n, char |-> c]
           T == {n \in Nat : n >= 1 /\ Rle(text \o Copies(Of(n))) # Append(Rle(text), Of(n))}
<1>1. r = Of(r.count)
  BY DEF Run
<1> SUFFICES ASSUME T # {} PROVE FALSE
  BY <1>0, <1>1
<1>2. T \in SUBSET Nat
      /\ (\A n \in Nat \ T : n >= 1 => Rle(text \o Copies(Of(n))) = Append(Rle(text), Of(n)))
      /\ \A n \in T : n >= 1 /\ Rle(text \o Copies(Of(n))) # Append(Rle(text), Of(n))
  OBVIOUS
<1> HIDE DEF T
<1> PICK n : n \in T /\ \A m \in T : n <= m
  BY <1>2, LeastNat
<1>3. \A m \in Nat : Of(m) \in Run /\ Of(m).count = m /\ Of(m).char = c
  BY <1>0 DEF Run
<1>4. Of(1) = [count |-> 1, char |-> c]
  OBVIOUS
<1>5. \A m \in Nat : Bump(Of(m), 1) = Of(m + 1)
  BY DEF Bump
<1> HIDE DEF Of
<1> PICK rs : rs = Rle(text)
  OBVIOUS
<1>6. rs \in Seq(Run) /\ \A d \in Char : Rle(Append(text, d)) = AddChar(rs, d)
  BY RleFacts
<1>7. CASE n = 1
  <2>1. Copies(Of(1)) = <<c>>
    <3>1. Of(1) \in Run /\ Of(1).count = 1 /\ Of(1).char = c
      BY <1>3
    <3> QED BY <3>1, CopiesFacts, Zenon
  <2>2. text \o <<c>> = Append(text, c)
    BY <1>0, AppendIsConcat
  <2>3. AddChar(rs, c) = Append(rs, Of(1))
    BY <1>4 DEF AddChar
  <2> QED BY <1>0, <1>2, <1>6, <1>7, <2>1, <2>2, <2>3
<1>8. CASE n # 1
  <2> PICK m \in Nat : n = m + 1 /\ m >= 1
    <3>1. n \in Nat /\ n >= 1
      BY <1>2
    <3>2. n - 1 \in Nat /\ n = (n - 1) + 1 /\ n - 1 >= 1
      BY <1>8, <3>1
    <3> QED BY <3>2
  <2>1. m \in Nat \ T
    <3>1. ~(n <= m)
      OBVIOUS
    <3> QED BY <3>1
  <2>2. Rle(text \o Copies(Of(m))) = Append(rs, Of(m))
    BY <1>2, <2>1
  <2> PICK x : x = Copies(Of(m))
    OBVIOUS
  <2> PICK y : y = text \o x
    OBVIOUS
  <2>3. x \in Seq(Char) /\ Copies(Of(n)) = Append(x, c)
    BY <1>3, <1>5, CopiesFacts
  <2>4. y \in Seq(Char)
    BY <2>3, ConcatProperties
  <2>5. text \o Append(x, c) = Append(y, c)
    BY <1>0, <2>3, ConcatAppend
  <2>6. Rle(Append(y, c)) = AddChar(Append(rs, Of(m)), c)
    BY <1>0, <2>2, <2>4, RleFacts
  <2>7. AddChar(Append(rs, Of(m)), c) = Append(rs, Of(n))
    <3>1. Of(m) \in Run /\ Of(m).char = c /\ Bump(Of(m), 1) = Of(n)
      BY <1>3, <1>5
    <3>2. AddChar(Append(rs, Of(m)), c) = Append(rs, Bump(Of(m), 1))
      BY <1>0, <1>6, <3>1, AddCharFacts
    <3> QED BY <3>1, <3>2
  <2> QED BY <1>2, <2>3, <2>5, <2>6, <2>7
<1> QED BY <1>7, <1>8

LEMMA CanonicalRle ==
    ASSUME NEW runs \in Seq(Run), Canonical(runs)
    PROVE  Rle(Expand(runs)) = runs
<1> DEFINE T == {n \in Nat : \E t \in Seq(Run) :
                               Len(t) = n /\ Canonical(t) /\ Rle(Expand(t)) # t}
<1> SUFFICES ASSUME T # {} PROVE FALSE
  <2>1. Len(runs) \in Nat
    OBVIOUS
  <2> QED BY <2>1
<1>1. T \in SUBSET Nat
      /\ \A n \in Nat \ T : \A t \in Seq(Run) :
            Len(t) = n /\ Canonical(t) => Rle(Expand(t)) = t
  OBVIOUS
<1>2. \A n \in T : \E t \in Seq(Run) : Len(t) = n /\ Canonical(t) /\ Rle(Expand(t)) # t
  OBVIOUS
<1> HIDE DEF T
<1> PICK n : n \in T /\ \A m \in T : n <= m
  BY <1>1, LeastNat
<1> PICK t \in Seq(Run) : Len(t) = n /\ Canonical(t) /\ Rle(Expand(t)) # t
  BY <1>2
<1>3. t # <<>>
  <2>1. Expand(<<>>) = <<>>
    BY ExpandFacts
  <2> PICK none : none = <<>>
    OBVIOUS
  <2>2. none \in Seq(Char)
    OBVIOUS
  <2>3. Rle(<<>>) = <<>>
    BY <2>2, RleFacts
  <2> QED BY <2>1, <2>3
<1> PICK s \in Seq(Run), r \in Run : t = Append(s, r) /\ Len(t) = Len(s) + 1
  BY <1>3, SplitLast
<1>4. Len(s) \in Nat \ T
  <2>1. Len(s) \in Nat /\ ~(n <= Len(s))
    OBVIOUS
  <2> QED BY <2>1
<1>5. Canonical(s) /\ r.count >= 1 /\ (s # <<>> => s[Len(s)].char # r.char)
  BY CanonicalAppend
<1>6. Rle(Expand(s)) = s
  BY <1>1, <1>4, <1>5
<1>7. Expand(s) \in Seq(Char) /\ Expand(t) = Expand(s) \o Copies(r)
  BY ExpandFacts
<1>8. s # <<>> => Last(s).char # r.char
  BY <1>5 DEF Last
<1>9. Rle(Expand(t)) = Append(s, r)
  BY <1>5, <1>6, <1>7, <1>8, RleOfRun
<1> QED BY <1>9


-----------------------------------------------------------------------------
(* A list of results: what the first n nodes hold.                           *)
UpTo(ss, n) == FlattenSeq(SubSeq(ss, 1, n))

LEMMA UpToFacts ==
    ASSUME NEW S, NEW ss \in Seq(Seq(S)), NEW n \in 0 .. Len(ss)
    PROVE  /\ UpTo(ss, n) \in Seq(S)
           /\ n = 0 => UpTo(ss, n) = <<>>
           /\ n = Len(ss) => UpTo(ss, n) = FlattenSeq(ss)
           /\ n # 0 => UpTo(ss, n) = UpTo(ss, n - 1) \o ss[n]
<1>1. \A k \in 1 .. n : ss[k] \in Seq(S)
  OBVIOUS
<1>2. GrowsBy(ss, n, S)
  BY <1>1, FlattenUpTo
<1>3. SubSeq(ss, 1, Len(ss)) = ss
  BY SubSeqFull
<1> QED BY <1>2, <1>3, Zenon DEF GrowsBy, UpTo

LEMMA UpToSame ==
    ASSUME NEW S, NEW ss \in Seq(Seq(S)), NEW tt \in Seq(Seq(S)),
           NEW n \in 0 .. Len(ss), n \in 0 .. Len(tt), \A k \in 1 .. n : ss[k] = tt[k]
    PROVE  UpTo(ss, n) = UpTo(tt, n)
<1>1. SubSeq(ss, 1, n) = [k \in 1 .. n |-> ss[k]] /\ SubSeq(tt, 1, n) = [k \in 1 .. n |-> tt[k]]
  OBVIOUS
<1>2. [k \in 1 .. n |-> ss[k]] = [k \in 1 .. n |-> tt[k]]
  OBVIOUS
<1> QED BY <1>1, <1>2, Zenon DEF UpTo

(* Nodes without runs add nothing.                                           *)
LEMMA UpToSkip ==
    ASSUME NEW S, NEW ss \in Seq(Seq(S)), NEW m \in 0 .. Len(ss), NEW n \in m .. Len(ss),
           \A k \in m + 1 .. n : ss[k] = <<>>
    PROVE  UpTo(ss, n) = UpTo(ss, m)
<1> DEFINE T == {l \in m .. n : UpTo(ss, l) # UpTo(ss, m)}
<1> SUFFICES ASSUME T # {} PROVE FALSE
  <2>1. n \in m .. n
    OBVIOUS
  <2> QED BY <2>1
<1>1. T \in SUBSET Nat /\ \A l \in m .. n : l \in T <=> UpTo(ss, l) # UpTo(ss, m)
  OBVIOUS
<1>2. \A l \in T : l \in m .. n
  OBVIOUS
<1> HIDE DEF T
<1> PICK l : l \in T /\ \A x \in T : l <= x
  BY <1>1, LeastNat
<1>3. l \in m .. n /\ UpTo(ss, l) # UpTo(ss, m)
  BY <1>1, <1>2
<1>4. l # m /\ l - 1 \in m .. n /\ l \in m + 1 .. n /\ l # 0 /\ ~(l <= l - 1)
      /\ l \in 0 .. Len(ss) /\ l - 1 \in 0 .. Len(ss)
  BY <1>3
<1>5. UpTo(ss, l - 1) = UpTo(ss, m)
  BY <1>1, <1>4
<1>6. UpTo(ss, l) = UpTo(ss, l - 1) \o ss[l] /\ UpTo(ss, l - 1) \in Seq(S)
  BY <1>4, UpToFacts
<1>7. ss[l] = <<>>
  BY <1>4
<1>8. UpTo(ss, l - 1) \o <<>> = UpTo(ss, l - 1)
  BY <1>6, ConcatEmptySeq
<1> QED BY <1>3, <1>5, <1>6, <1>7, <1>8

(* What the first nodes hold comes before what more of them hold.            *)
LEMMA UpToMore ==
    ASSUME NEW S, NEW ss \in Seq(Seq(S)), NEW m \in 0 .. Len(ss), NEW n \in m .. Len(ss)
    PROVE  /\ Len(UpTo(ss, m)) <= Len(UpTo(ss, n))
           /\ \A k \in 1 .. Len(UpTo(ss, m)) : UpTo(ss, n)[k] = UpTo(ss, m)[k]
<1> DEFINE Begins(l) == /\ Len(UpTo(ss, m)) <= Len(UpTo(ss, l))
                        /\ \A k \in 1 .. Len(UpTo(ss, m)) : UpTo(ss, l)[k] = UpTo(ss, m)[k]
           T == {l \in m .. n : ~Begins(l)}
<1> SUFFICES ASSUME T # {} PROVE FALSE
  <2>1. n \in m .. n
    OBVIOUS
  <2> QED BY <2>1
<1>1. T \in SUBSET Nat /\ \A l \in m .. n : l \in T <=> ~Begins(l)
  OBVIOUS
<1>2. \A l \in T : l \in m .. n
  OBVIOUS
<1> HIDE DEF T
<1> PICK l : l \in T /\ \A x \in T : l <= x
  BY <1>1, LeastNat
<1>3. l \in m .. n /\ ~Begins(l)
  BY <1>1, <1>2
<1>9. UpTo(ss, m) \in Seq(S) /\ Len(UpTo(ss, m)) \in Nat
  <2>1. UpTo(ss, m) \in Seq(S)
    BY UpToFacts
  <2> QED BY <2>1
<1>4. l # m
  BY <1>3, <1>9
<1>5. l - 1 \in m .. n /\ l # 0 /\ ~(l <= l - 1) /\ l \in 1 .. Len(ss) /\ l \in 0 .. Len(ss)
      /\ l - 1 \in 0 .. Len(ss)
  BY <1>3, <1>4
<1>6. Begins(l - 1)
  BY <1>1, <1>5
<1>7. UpTo(ss, l) = UpTo(ss, l - 1) \o ss[l] /\ UpTo(ss, l - 1) \in Seq(S) /\ ss[l] \in Seq(S)
  <2>1. ss[l] \in Seq(S)
    BY <1>5
  <2>2. UpTo(ss, l) = UpTo(ss, l - 1) \o ss[l]
    BY <1>5, UpToFacts
  <2>3. UpTo(ss, l - 1) \in Seq(S)
    BY <1>5, UpToFacts
  <2> QED BY <2>1, <2>2, <2>3
<1>8. PICK x : x = UpTo(ss, l - 1)
  OBVIOUS
<1>10. PICK y : y = ss[l]
  OBVIOUS
<1>11. x \in Seq(S) /\ y \in Seq(S) /\ Len(x) \in Nat /\ Len(y) \in Nat
  BY <1>7, <1>8, <1>10
<1>12. Len(x \o y) = Len(x) + Len(y) /\ \A k \in 1 .. Len(x) : (x \o y)[k] = x[k]
  BY <1>11
<1>13. /\ Len(UpTo(ss, m)) <= Len(x)
       /\ \A k \in 1 .. Len(UpTo(ss, m)) : k \in 1 .. Len(x) /\ x[k] = UpTo(ss, m)[k]
  BY <1>6, <1>8, <1>9, <1>11
<1>14. Len(UpTo(ss, m)) <= Len(x \o y)
  BY <1>9, <1>11, <1>12, <1>13
<1>15. UpTo(ss, l) = x \o y
  BY <1>7, <1>8, <1>10
<1>16. Begins(l)
  BY <1>12, <1>13, <1>14, <1>15
<1> QED BY <1>3, <1>16

(* Lists that decode to the same up to node m, and are the same behind it.   *)
LEMMA SameTail ==
    ASSUME NEW ss \in Seq(Seq(Run)), NEW tt \in Seq(Seq(Run)), Len(ss) = Len(tt),
           NEW m \in 0 .. Len(ss), Expand(UpTo(ss, m)) = Expand(UpTo(tt, m)),
           \A k \in m + 1 .. Len(ss) : ss[k] = tt[k]
    PROVE  Expand(FlattenSeq(ss)) = Expand(FlattenSeq(tt))
<1> PICK n : n = Len(ss)
  OBVIOUS
<1>0. n \in Nat /\ m \in 0 .. n /\ Len(tt) = n
  OBVIOUS
<1> DEFINE T == {l \in m .. n : Expand(UpTo(ss, l)) # Expand(UpTo(tt, l))}
<1> SUFFICES ASSUME T # {} PROVE FALSE
  <2>1. n \in m .. n /\ n \in 0 .. Len(ss) /\ n \in 0 .. Len(tt)
    BY <1>0
  <2>2. UpTo(ss, n) = FlattenSeq(ss) /\ UpTo(tt, n) = FlattenSeq(tt)
    BY <1>0, <2>1, UpToFacts
  <2> QED BY <2>1, <2>2
<1>1. T \in SUBSET Nat
      /\ \A l \in m .. n : l \in T <=> Expand(UpTo(ss, l)) # Expand(UpTo(tt, l))
  BY <1>0
<1>2. \A l \in T : l \in m .. n
  OBVIOUS
<1> HIDE DEF T
<1> PICK l : l \in T /\ \A x \in T : l <= x
  BY <1>1, LeastNat
<1>3. l \in m .. n /\ Expand(UpTo(ss, l)) # Expand(UpTo(tt, l))
  BY <1>1, <1>2
<1>4. l # m
  BY <1>3
<1>5. l - 1 \in m .. n /\ l # 0 /\ ~(l <= l - 1) /\ l \in m + 1 .. n /\ l \in 1 .. n
      /\ l \in 0 .. Len(ss) /\ l - 1 \in 0 .. Len(ss)
      /\ l \in 0 .. Len(tt) /\ l - 1 \in 0 .. Len(tt)
  BY <1>0, <1>3, <1>4
<1>6. Expand(UpTo(ss, l - 1)) = Expand(UpTo(tt, l - 1))
  BY <1>1, <1>5
<1>7. UpTo(ss, l) = UpTo(ss, l - 1) \o ss[l] /\ UpTo(ss, l - 1) \in Seq(Run)
  BY <1>5, UpToFacts
<1>8. UpTo(tt, l) = UpTo(tt, l - 1) \o tt[l] /\ UpTo(tt, l - 1) \in Seq(Run)
  BY <1>5, UpToFacts
<1>9. ss[l] \in Seq(Run) /\ tt[l] = ss[l]
  BY <1>5
<1>10. Expand(UpTo(ss, l)) = Expand(UpTo(ss, l - 1)) \o Expand(ss[l])
  BY <1>7, <1>9, ExpandConcat
<1>11. Expand(UpTo(tt, l)) = Expand(UpTo(tt, l - 1)) \o Expand(ss[l])
  BY <1>8, <1>9, ExpandConcat
<1> QED BY <1>3, <1>6, <1>10, <1>11

(* A run split off the front of others.                                      *)
LEMMA ExpandSplit ==
    ASSUME NEW b \in Seq(Run), b # <<>>
    PROVE  /\ b[1] \in Run /\ SubSeq(b, 2, Len(b)) \in Seq(Run)
           /\ Expand(b) = Copies(b[1]) \o Expand(SubSeq(b, 2, Len(b)))
<1>1. PICK r : r = b[1]
  OBVIOUS
<1>2. PICK c : c = SubSeq(b, 2, Len(b))
  OBVIOUS
<1>3. Len(b) \in Nat /\ Len(b) >= 1 /\ r \in Run
  BY <1>1
<1>4. c \in Seq(Run) /\ Len(c) = Len(b) - 1 /\ \A k \in 1 .. Len(b) - 1 : c[k] = b[k + 1]
  <2>1. \A k \in 2 .. Len(b) : b[k] \in Run
    BY <1>3
  <2>2. /\ c \in Seq(Run) /\ Len(c) = IF 2 <= Len(b) THEN Len(b) - 2 + 1 ELSE 0
        /\ \A k \in 1 .. Len(b) - 2 + 1 : c[k] = b[2 + k - 1]
    BY <1>2, <1>3, <2>1, SubSeqProperties
  <2>3. PICK n : n = Len(b)
    OBVIOUS
  <2>4. n \in Nat /\ n >= 1 /\ n - 2 + 1 = n - 1
    BY <1>3, <2>3
  <2>5. c \in Seq(Run) /\ Len(c) = n - 1
    BY <2>2, <2>3, <2>4
  <2>6. ASSUME NEW k \in 1 .. n - 1 PROVE c[k] = b[k + 1]
    <3>1. c[k] = b[2 + k - 1]
      BY <2>2, <2>3, <2>4
    <3>2. 2 + k - 1 = k + 1
      BY <2>4
    <3> QED BY <3>1, <3>2
  <2> QED BY <2>3, <2>5, <2>6
<1>5. PICK none : none = <<>>
  OBVIOUS
<1>6. none \in Seq(Run) /\ Append(none, r) = <<r>>
  BY <1>3, <1>5
<1>7. <<r>> \in Seq(Run) /\ Len(<<r>>) = 1 /\ <<r>>[1] = r
  BY <1>3
<1>8. b = <<r>> \o c
  <2>1. PICK u : u = <<r>> \o c
    OBVIOUS
  <2>2. u \in Seq(Run) /\ Len(u) = 1 + Len(c)
    BY <1>4, <1>7, <2>1, ConcatProperties
  <2>3. \A k \in 1 .. 1 + Len(c) : u[k] = IF k <= 1 THEN <<r>>[k] ELSE c[k - 1]
    BY <1>4, <1>7, <2>1, ConcatProperties
  <2>4. Len(u) = Len(b)
    BY <1>3, <1>4, <2>2
  <2>5. ASSUME NEW k \in 1 .. Len(b) PROVE u[k] = b[k]
    <3>1. CASE k = 1
      BY <1>1, <1>3, <1>4, <1>7, <2>3, <3>1
    <3>2. CASE k # 1
      <4>1. k - 1 \in 1 .. Len(b) - 1 /\ (k - 1) + 1 = k /\ ~(k <= 1) /\ k \in 1 .. 1 + Len(c)
        BY <1>3, <1>4, <3>2
      <4> QED BY <1>4, <2>3, <4>1
    <3> QED BY <3>1, <3>2
  <2>6. u = b
    BY <2>2, <2>4, <2>5, SeqEqual
  <2> QED BY <2>1, <2>6
<1>9. Expand(<<r>>) = Copies(r)
  <2>1. Expand(Append(none, r)) = Expand(none) \o Copies(r) /\ Expand(none) = <<>>
    BY <1>3, <1>5, <1>6, ExpandFacts
  <2>2. Copies(r) \in Seq(Char)
    BY <1>3, CopiesFacts
  <2>3. <<>> \o Copies(r) = Copies(r)
    BY <2>2, ConcatEmptySeq
  <2> QED BY <1>6, <2>1, <2>3
<1>10. Expand(<<r>> \o c) = Expand(<<r>>) \o Expand(c)
  BY <1>4, <1>7, ExpandConcat
<1> QED BY <1>1, <1>2, <1>3, <1>4, <1>8, <1>9, <1>10

(* The first run of node q moves into the last of node p, with nothing between
   the two: the list decodes to the same text. *)
LEMMA MoveRun ==
    ASSUME NEW ss \in Seq(Seq(Run)), NEW tt \in Seq(Seq(Run)), Len(ss) = Len(tt),
           NEW p \in 1 .. Len(ss), NEW q \in p + 1 .. Len(ss),
           \A l \in 1 .. Len(ss) : l # p /\ l # q => tt[l] = ss[l],
           \A l \in p + 1 .. q - 1 : ss[l] = <<>>,
           ss[p] # <<>>, ss[q] # <<>>, ss[p][Len(ss[p])].char = ss[q][1].char,
           tt[p] = BumpLast(ss[p], ss[q][1].count),
           tt[q] = SubSeq(ss[q], 2, Len(ss[q]))
    PROVE  Expand(FlattenSeq(tt)) = Expand(FlattenSeq(ss))
<1>1. PICK a : a = ss[p]
  OBVIOUS
<1>2. PICK b : b = ss[q]
  OBVIOUS
<1>3. PICK c : c = SubSeq(b, 2, Len(b))
  OBVIOUS
<1>4. PICK x : x = UpTo(ss, p - 1)
  OBVIOUS
<1>5. PICK d : d = BumpLast(a, b[1].count)
  OBVIOUS
<1>6. /\ Len(ss) \in Nat /\ p \in Nat /\ q \in Nat /\ p # 0 /\ q # 0 /\ p < q
      /\ p - 1 \in 0 .. Len(ss) /\ p \in 0 .. Len(ss) /\ q - 1 \in p .. Len(ss)
      /\ q - 1 \in 0 .. Len(ss) /\ q \in 0 .. Len(ss) /\ q \in 1 .. Len(ss)
  OBVIOUS
<1>7. a \in Seq(Run) /\ a # <<>> /\ b \in Seq(Run) /\ b # <<>>
  <2>1. ss[p] \in Seq(Run) /\ ss[q] \in Seq(Run)
    BY <1>6
  <2> QED BY <1>1, <1>2, <2>1
<1>24. /\ \A l \in 1 .. p - 1 : l \in 1 .. Len(ss) /\ l # p /\ l # q
       /\ \A l \in p + 1 .. q - 1 : l \in 1 .. Len(ss) /\ l # p /\ l # q
       /\ \A l \in q + 1 .. Len(ss) : l \in 1 .. Len(ss) /\ l # p /\ l # q
  <2>1. PICK n : n = Len(ss)
    OBVIOUS
  <2>2. n \in Nat /\ p \in Nat /\ q \in Nat /\ 1 <= p /\ p < q /\ q <= n
    BY <1>6, <2>1
  <2>3. \A l \in 1 .. p - 1 : l \in 1 .. n /\ l # p /\ l # q
    BY <2>2
  <2>4. \A l \in p + 1 .. q - 1 : l \in 1 .. n /\ l # p /\ l # q
    BY <2>2
  <2>5. \A l \in q + 1 .. n : l \in 1 .. n /\ l # p /\ l # q
    BY <2>2
  <2> QED BY <2>1, <2>3, <2>4, <2>5
<1>8. x \in Seq(Run)
  BY <1>4, <1>6, UpToFacts
<1>9. b[1] \in Run /\ c \in Seq(Run) /\ Expand(b) = Copies(b[1]) \o Expand(c)
  BY <1>3, <1>7, ExpandSplit
<1>10. PICK h : h = b[1]
  OBVIOUS
<1>11. d \in Seq(Run) /\ Expand(d) = Expand(a) \o Copies(h)
  <2>1. PICK rs \in Seq(Run), r \in Run : a = Append(rs, r) /\ Len(a) = Len(rs) + 1
    BY <1>7, SplitLast
  <2>2. a[Len(a)] = r /\ r.char = h.char
    <3>1. Append(rs, r)[Len(rs) + 1] = r
      BY <2>1, AppendProperties
    <3>2. a[Len(a)] = r
      BY <2>1, <3>1
    <3>3. a[Len(a)].char = h.char
      BY <1>1, <1>2, <1>10
    <3> QED BY <3>2, <3>3
  <2>3. h \in Run /\ h.count \in Nat /\ h = [count |-> h.count, char |-> h.char]
    BY <1>9, <1>10 DEF Run
  <2>4. d = Append(rs, Bump(r, h.count)) /\ Bump(r, h.count) \in Run
    BY <1>5, <1>10, <2>1, <2>3, BumpLastFacts, BumpFacts
  <2>5. Expand(BumpLast(Append(rs, r), h.count))
          = Expand(Append(rs, r)) \o Copies([count |-> h.count, char |-> r.char])
    BY <2>1, <2>3, BumpLastFacts
  <2>6. Expand(d) = Expand(a) \o Copies(h)
    BY <1>5, <1>10, <2>1, <2>2, <2>3, <2>5
  <2> QED BY <2>1, <2>4, <2>6
<1>12. UpTo(ss, q) = (x \o a) \o b
  <2>1. UpTo(ss, p) = x \o a
    BY <1>1, <1>4, <1>6, UpToFacts
  <2>2. UpTo(ss, q - 1) = UpTo(ss, p)
    BY <1>6, UpToSkip
  <2>3. UpTo(ss, q) = UpTo(ss, q - 1) \o b
    BY <1>2, <1>6, UpToFacts
  <2> QED BY <2>1, <2>2, <2>3
<1>13. UpTo(tt, q) = (x \o d) \o c
  <2>0. p \in 0 .. Len(tt) /\ q \in 0 .. Len(tt) /\ p - 1 \in 0 .. Len(tt) /\ q - 1 \in p .. Len(tt)
    BY <1>6
  <2>1. UpTo(tt, p - 1) = x
    <3>1. \A l \in 1 .. p - 1 : ss[l] = tt[l]
      BY <1>24
    <3>2. p - 1 \in 0 .. Len(ss) /\ p - 1 \in 0 .. Len(tt)
      BY <1>6, <2>0
    <3>3. UpTo(ss, p - 1) = UpTo(tt, p - 1)
      BY <3>1, <3>2, UpToSame
    <3> QED BY <1>4, <3>3
  <2>2. UpTo(tt, p) = x \o d
    BY <1>1, <1>2, <1>5, <1>6, <2>0, <2>1, UpToFacts
  <2>3. \A l \in p + 1 .. q - 1 : tt[l] = <<>>
    BY <1>24
  <2>4. UpTo(tt, q - 1) = UpTo(tt, p)
    BY <2>0, <2>3, UpToSkip
  <2>5. UpTo(tt, q) = UpTo(tt, q - 1) \o c
    BY <1>2, <1>3, <1>6, <2>0, UpToFacts
  <2> QED BY <2>2, <2>4, <2>5
<1>14. PICK ex : ex = Expand(x)
  OBVIOUS
<1>15. PICK ea : ea = Expand(a)
  OBVIOUS
<1>16. PICK eh : eh = Copies(h)
  OBVIOUS
<1>17. PICK ec : ec = Expand(c)
  OBVIOUS
<1>18. ex \in Seq(Char) /\ ea \in Seq(Char) /\ eh \in Seq(Char) /\ ec \in Seq(Char)
  BY <1>7, <1>8, <1>9, <1>10, <1>14, <1>15, <1>16, <1>17, ExpandFacts, CopiesFacts
<1>19. Expand((x \o a) \o b) = (ex \o ea) \o (eh \o ec)
  <2>1. x \o a \in Seq(Run)
    BY <1>7, <1>8, ConcatProperties
  <2>2. Expand((x \o a) \o b) = Expand(x \o a) \o Expand(b)
    BY <1>7, <2>1, ExpandConcat
  <2>3. Expand(x \o a) = ex \o ea
    BY <1>7, <1>8, <1>14, <1>15, ExpandConcat
  <2> QED BY <1>9, <1>10, <1>16, <1>17, <2>2, <2>3
<1>20. Expand((x \o d) \o c) = (ex \o (ea \o eh)) \o ec
  <2>1. x \o d \in Seq(Run)
    BY <1>8, <1>11, ConcatProperties
  <2>2. Expand((x \o d) \o c) = Expand(x \o d) \o Expand(c)
    BY <1>9, <2>1, ExpandConcat
  <2>3. Expand(x \o d) = ex \o Expand(d)
    BY <1>8, <1>11, <1>14, ExpandConcat
  <2> QED BY <1>11, <1>15, <1>16, <1>17, <2>2, <2>3
<1>21. (ex \o ea) \o (eh \o ec) = (ex \o (ea \o eh)) \o ec
  <2>1. ex \o ea \in Seq(Char)
    BY <1>18, ConcatProperties
  <2>2. Regroups(ex \o ea, eh, ec) /\ Regroups(ex, ea, eh)
    BY <1>18, <2>1, Regroup
  <2> QED BY <2>2, Zenon DEF Regroups
<1>22. Expand(UpTo(ss, q)) = Expand(UpTo(tt, q))
  BY <1>12, <1>13, <1>19, <1>20, <1>21
<1>23. \A l \in q + 1 .. Len(ss) : ss[l] = tt[l]
  BY <1>24
<1> QED BY <1>6, <1>22, <1>23, SameTail


-----------------------------------------------------------------------------
(* The runs of a node from its start, which is 0 or 1.                       *)
Rest(s, d) == SubSeq(s, d + 1, Len(s))

LEMMA RestFacts ==
    ASSUME NEW S, NEW s \in Seq(S), NEW d \in {0, 1}
    PROVE  /\ Rest(s, d) \in Seq(S)
           /\ d = 0 => Rest(s, d) = s
           /\ Rest(s, d) = <<>> <=> Len(s) <= d
           /\ Len(s) > d => /\ Len(Rest(s, d)) = Len(s) - d
                            /\ \A l \in 1 .. Len(s) - d : Rest(s, d)[l] = s[l + d]
<1>1. PICK n : n = Len(s)
  OBVIOUS
<1>2. PICK t : t = SubSeq(s, d + 1, n)
  OBVIOUS
<1>3. d \in Nat /\ n \in Nat /\ d + 1 >= 1 /\ d + 1 \in Int /\ n \in Int
  BY <1>1
<1>4. \A l \in d + 1 .. n : s[l] \in S
  BY <1>1, <1>3
<1>5. t \in Seq(S) /\ Len(t) = (IF d + 1 <= n THEN n - (d + 1) + 1 ELSE 0)
      /\ \A l \in 1 .. n - (d + 1) + 1 : t[l] = s[d + 1 + l - 1]
  BY <1>2, <1>3, <1>4, SubSeqProperties
<1>6. d = 0 => t = s
  BY <1>1, <1>2, SubSeqFull
<1>7. CASE n <= d
  <2>1. Len(t) = 0
    BY <1>3, <1>5, <1>7
  <2>2. t = <<>>
    BY <1>5, <2>1
  <2> QED BY <1>1, <1>2, <1>3, <1>5, <1>6, <1>7, <2>2 DEF Rest
<1>8. CASE n > d
  <2>1. Len(t) = n - d /\ n - d >= 1
    BY <1>3, <1>5, <1>8
  <2>2. \A l \in 1 .. n - d : t[l] = s[l + d]
    <3> SUFFICES ASSUME NEW l \in 1 .. n - d PROVE t[l] = s[l + d]
      OBVIOUS
    <3>1. l \in 1 .. n - (d + 1) + 1 /\ d + 1 + l - 1 = l + d
      BY <1>3
    <3>2. t[l] = s[d + 1 + l - 1]
      BY <1>5, <3>1
    <3> QED BY <3>1, <3>2
  <2>3. t # <<>>
    BY <1>5, <2>1
  <2> QED BY <1>1, <1>2, <1>3, <1>5, <1>6, <1>8, <2>1, <2>2, <2>3 DEF Rest
<1> QED BY <1>3, <1>7, <1>8

(* What BumpLast leaves alone.                                               *)
LEMMA BumpLastIs ==
    ASSUME NEW s \in Seq(Run), s # <<>>, NEW c \in Nat
    PROVE  /\ BumpLast(s, c) \in Seq(Run) /\ Len(BumpLast(s, c)) = Len(s)
           /\ Len(s) \in Nat /\ Len(s) >= 1
           /\ BumpLast(s, c)[Len(s)] = Bump(s[Len(s)], c)
           /\ \A l \in 1 .. Len(s) - 1 : BumpLast(s, c)[l] = s[l]
<1>1. PICK n : n = Len(s)
  OBVIOUS
<1>2. n \in Nat /\ n >= 1 /\ n \in 1 .. Len(s) /\ s[n] \in Run
  BY <1>1
<1>3. Bump(s[n], c) \in Run
  BY <1>2, BumpFacts
<1>4. BumpLast(s, c) = [s EXCEPT ![n] = Bump(s[n], c)]
  BY <1>1, <1>2 DEF BumpLast
<1>5. PICK t : t = [s EXCEPT ![n] = Bump(s[n], c)]
  OBVIOUS
<1>6. t \in Seq(Run) /\ Len(t) = n /\ t[n] = Bump(s[n], c)
  BY <1>1, <1>2, <1>3, <1>5
<1>7. \A l \in 1 .. n - 1 : t[l] = s[l]
  BY <1>1, <1>2, <1>5
<1> QED BY <1>1, <1>2, <1>4, <1>5, <1>6, <1>7

LEMMA BumpRest ==
    ASSUME NEW s \in Seq(Run), NEW d \in {0, 1}, Rest(s, d) # <<>>, NEW c \in Nat
    PROVE  /\ Rest(BumpLast(s, c), d) = BumpLast(Rest(s, d), c)
           /\ s # <<>> /\ Last(s) = Rest(s, d)[Len(Rest(s, d))]
<1>1. PICK n : n = Len(s)
  OBVIOUS
<1>2. PICK t : t = Rest(s, d)
  OBVIOUS
<1>3. PICK m : m = n - d
  OBVIOUS
<1>4. n \in Nat /\ n > d /\ d \in Nat /\ m \in Nat /\ m >= 1 /\ m + d = n /\ s # <<>>
  <2>1. n \in Nat /\ d \in Nat
    BY <1>1
  <2>2. ~(n <= d)
    BY <1>1, RestFacts
  <2> QED BY <1>1, <1>3, <2>1, <2>2
<1>5. t \in Seq(Run) /\ Len(t) = m /\ t # <<>> /\ \A l \in 1 .. m : t[l] = s[l + d]
  BY <1>1, <1>2, <1>3, <1>4, RestFacts
<1>6. Last(s) = t[m]
  <2>1. m \in 1 .. m
    BY <1>4
  <2> QED BY <1>1, <1>4, <1>5, <2>1 DEF Last
<1>7. PICK u : u = BumpLast(s, c)
  OBVIOUS
<1>8. u \in Seq(Run) /\ Len(u) = n /\ u[n] = Bump(s[n], c) /\ \A l \in 1 .. n - 1 : u[l] = s[l]
  BY <1>1, <1>4, <1>7, BumpLastIs
<1>9. PICK v : v = Rest(u, d)
  OBVIOUS
<1>10. v \in Seq(Run) /\ Len(v) = m /\ \A l \in 1 .. m : v[l] = u[l + d]
  <2>1. Len(u) > d /\ Len(u) - d = m
    BY <1>3, <1>4, <1>8
  <2>2. u \in Seq(Run)
    BY <1>8
  <2>3. Rest(u, d) \in Seq(Run)
    BY <2>2, RestFacts
  <2>4. Len(Rest(u, d)) = Len(u) - d /\ \A l \in 1 .. Len(u) - d : Rest(u, d)[l] = u[l + d]
    BY <2>1, <2>2, RestFacts
  <2> QED BY <1>9, <2>1, <2>3, <2>4
<1>11. PICK x : x = BumpLast(t, c)
  OBVIOUS
<1>12. x \in Seq(Run) /\ Len(x) = m /\ x[m] = Bump(t[m], c) /\ \A l \in 1 .. m - 1 : x[l] = t[l]
  BY <1>5, <1>11, BumpLastIs
<1>13. v[m] = x[m]
  <2>1. m \in 1 .. m
    BY <1>4
  <2>2. v[m] = u[n] /\ t[m] = s[n]
    BY <1>4, <1>5, <1>10, <2>1
  <2> QED BY <1>8, <1>12, <2>2
<1>14. \A l \in 1 .. m - 1 : v[l] = x[l]
  <2> SUFFICES ASSUME NEW l \in 1 .. m - 1 PROVE v[l] = x[l]
    OBVIOUS
  <2>1. l \in 1 .. m /\ l + d \in 1 .. n - 1
    BY <1>4
  <2>2. v[l] = u[l + d] /\ u[l + d] = s[l + d] /\ t[l] = s[l + d] /\ x[l] = t[l]
    BY <1>5, <1>8, <1>10, <1>12, <2>1
  <2> QED BY <2>2
<1>15. v = x
  <2>1. m - 1 \in Nat /\ (m - 1) + 1 = m
    BY <1>4
  <2>2. PICK p : p = m - 1
    OBVIOUS
  <2>3. p \in Nat /\ p + 1 = m
    BY <2>1, <2>2
  <2> QED BY <1>10, <1>12, <1>13, <1>14, <2>2, <2>3, SameButLast
<1> QED BY <1>2, <1>4, <1>5, <1>6, <1>7, <1>9, <1>11, <1>15

(* The chunks of a text, encoded one by one, decode to the text.             *)
LEMMA ExpandParts ==
    ASSUME NEW cut \in Seq(Seq(Char)), NEW code \in Seq(Seq(Run)), Len(code) = Len(cut),
           \A l \in 1 .. Len(cut) : code[l] = Rle(cut[l])
    PROVE  Expand(FlattenSeq(code)) = TextOf(cut)
<1>1. PICK n : n = Len(cut)
  OBVIOUS
<1>2. n \in Nat /\ n \in 0 .. n /\ Len(code) = n
  BY <1>1
<1> DEFINE T == {l \in 0 .. n : Expand(UpTo(code, l)) # UpTo(cut, l)}
<1>3. ASSUME T = {} PROVE Expand(FlattenSeq(code)) = TextOf(cut)
  <2>1. Expand(UpTo(code, n)) = UpTo(cut, n)
    BY <1>2, <1>3
  <2>2. UpTo(code, n) = FlattenSeq(code)
    BY <1>2, UpToFacts
  <2>3. UpTo(cut, n) = FlattenSeq(cut)
    BY <1>1, <1>2, UpToFacts
  <2> QED BY <2>1, <2>2, <2>3 DEF TextOf
<1> SUFFICES ASSUME T # {} PROVE FALSE
  BY <1>3
<1>4. T \in SUBSET Nat /\ \A l \in 0 .. n : l \in T <=> Expand(UpTo(code, l)) # UpTo(cut, l)
  OBVIOUS
<1>5. \A l \in T : l \in 0 .. n
  OBVIOUS
<1> HIDE DEF T
<1>6. PICK l \in T : \A x \in T : l <= x
  BY <1>4, LeastNat
<1>7. l \in 0 .. n /\ Expand(UpTo(code, l)) # UpTo(cut, l)
  BY <1>4, <1>5
<1>8. l # 0
  <2> SUFFICES ASSUME l = 0 PROVE FALSE
    OBVIOUS
  <2>1. 0 \in 0 .. Len(code) /\ 0 \in 0 .. Len(cut)
    BY <1>1, <1>2
  <2>2. UpTo(code, 0) = <<>>
    BY <2>1, UpToFacts
  <2>3. UpTo(cut, 0) = <<>>
    BY <2>1, UpToFacts
  <2>4. PICK none : none = <<>>
    OBVIOUS
  <2>5. Expand(<<>>) = <<>>
    <3>1. none \in Seq(Run)
      BY <2>4
    <3> QED BY <3>1, ExpandFacts
  <2> QED BY <1>7, <2>2, <2>3, <2>5
<1>9. l - 1 \in 0 .. n /\ l \in 1 .. n /\ ~(l <= l - 1) /\ l \in 0 .. Len(code) /\ l \in 0 .. Len(cut)
      /\ l - 1 \in 0 .. Len(code)
  BY <1>1, <1>2, <1>7, <1>8
<1>10. Expand(UpTo(code, l - 1)) = UpTo(cut, l - 1)
  BY <1>4, <1>6, <1>9
<1>11. UpTo(code, l) = UpTo(code, l - 1) \o code[l] /\ UpTo(code, l - 1) \in Seq(Run)
  <2>1. UpTo(code, l) = UpTo(code, l - 1) \o code[l]
    BY <1>8, <1>9, UpToFacts
  <2>2. UpTo(code, l - 1) \in Seq(Run)
    BY <1>9, UpToFacts
  <2> QED BY <2>1, <2>2
<1>12. UpTo(cut, l) = UpTo(cut, l - 1) \o cut[l]
  BY <1>8, <1>9, UpToFacts
<1>13. cut[l] \in Seq(Char) /\ code[l] = Rle(cut[l]) /\ code[l] \in Seq(Run)
  BY <1>1, <1>2, <1>9
<1>14. Expand(code[l]) = cut[l]
  BY <1>13, ExpandRle
<1>15. Expand(UpTo(code, l - 1) \o code[l]) = Expand(UpTo(code, l - 1)) \o Expand(code[l])
  BY <1>11, <1>13, ExpandConcat
<1> QED BY <1>7, <1>10, <1>11, <1>12, <1>14, <1>15

(* What a list still holds from place n on, when the places between n and the
   next one hold nothing. *)
From(ss, n) == SubSeq(FlattenSeq(ss), Len(UpTo(ss, n - 1)) + 1, Len(FlattenSeq(ss)))

LEMMA FromFacts ==
    ASSUME NEW S, NEW ss \in Seq(Seq(S)), NEW n \in 1 .. Len(ss), NEW m \in n + 1 .. Len(ss) + 1,
           \A l \in n + 1 .. m - 1 : ss[l] = <<>>
    PROVE  /\ From(ss, n) = ss[n] \o From(ss, m)
           /\ From(ss, 1) = FlattenSeq(ss)
           /\ From(ss, Len(ss) + 1) = <<>>
<1>1. PICK len : len = Len(ss)
  OBVIOUS
<1>2. PICK p : p = FlattenSeq(ss)
  OBVIOUS
<1>3. /\ len \in Nat /\ n \in 1 .. len /\ m \in n + 1 .. len + 1 /\ n - 1 \in 0 .. len
      /\ n \in 0 .. len /\ m - 1 \in n .. len /\ 0 \in 0 .. len /\ len \in 0 .. len
      /\ len \in n .. len /\ n # 0 /\ (len + 1) - 1 = len /\ 1 - 1 = 0 /\ m - 1 \in 0 .. len
  BY <1>1
<1>4. UpTo(ss, len) = p
  BY <1>1, <1>2, <1>3, UpToFacts
<1>5. UpTo(ss, 0) = <<>>
  BY <1>1, <1>3, UpToFacts
<1>6. UpTo(ss, m - 1) = UpTo(ss, n)
  BY <1>1, <1>3, UpToSkip
<1>7. PICK x : x = UpTo(ss, n - 1)
  OBVIOUS
<1>8. PICK y : y = ss[n]
  OBVIOUS
<1>9. PICK z : z = UpTo(ss, n)
  OBVIOUS
<1>10. x \in Seq(S)
  BY <1>1, <1>3, <1>7, UpToFacts
<1>11. z \in Seq(S) /\ z = x \o y
  BY <1>1, <1>3, <1>7, <1>8, <1>9, UpToFacts
<1>12. p \in Seq(S)
  BY <1>1, <1>3, <1>4, UpToFacts
<1>13. y \in Seq(S)
  BY <1>1, <1>3, <1>8
<1>14. Len(z) <= Len(p) /\ \A l \in 1 .. Len(z) : p[l] = z[l]
  BY <1>1, <1>3, <1>4, <1>9, UpToMore
<1>15. PICK lx : lx = Len(x)
  OBVIOUS
<1>16. PICK ly : ly = Len(y)
  OBVIOUS
<1>17. lx \in Nat /\ ly \in Nat /\ Len(z) = lx + ly /\ Len(p) \in Nat /\ lx + ly <= Len(p)
       /\ \A l \in 1 .. ly : z[lx + l] = y[l]
  BY <1>10, <1>11, <1>12, <1>13, <1>14, <1>15, <1>16
<1>18. PICK t : t = SubSeq(p, lx + 1, lx + ly)
  OBVIOUS
<1>19. t = y
  <2>1. \A l \in lx + 1 .. lx + ly : p[l] \in S
    <3>1. \A l \in lx + 1 .. lx + ly : l \in 1 .. Len(p)
      BY <1>17
    <3> QED BY <1>12, <3>1
  <2>2. lx + 1 \in Int /\ lx + ly \in Int /\ (lx + ly) - (lx + 1) + 1 = ly
        /\ (IF lx + 1 <= lx + ly THEN (lx + ly) - (lx + 1) + 1 ELSE 0) = ly
    BY <1>17
  <2>5. PICK low : low = lx + 1
    OBVIOUS
  <2>6. PICK high : high = lx + ly
    OBVIOUS
  <2>7. /\ low \in Int /\ high \in Int /\ high - low + 1 = ly
        /\ (IF low <= high THEN high - low + 1 ELSE 0) = ly
        /\ \A l \in low .. high : p[l] \in S
    BY <2>1, <2>2, <2>5, <2>6
  <2>8. /\ SubSeq(p, low, high) \in Seq(S)
        /\ Len(SubSeq(p, low, high)) = (IF low <= high THEN high - low + 1 ELSE 0)
        /\ \A l \in 1 .. high - low + 1 : SubSeq(p, low, high)[l] = p[low + l - 1]
    BY <2>7, SubSeqProperties
  <2>3. t \in Seq(S) /\ Len(t) = ly /\ \A l \in 1 .. ly : t[l] = p[lx + 1 + l - 1]
    BY <1>18, <2>5, <2>6, <2>7, <2>8
  <2>4. \A l \in 1 .. ly : t[l] = y[l]
    <3> SUFFICES ASSUME NEW l \in 1 .. ly PROVE t[l] = y[l]
      OBVIOUS
    <3>1. lx + 1 + l - 1 = lx + l /\ lx + l \in 1 .. Len(z)
      BY <1>17
    <3>2. t[l] = p[lx + l] /\ p[lx + l] = z[lx + l] /\ z[lx + l] = y[l]
      BY <1>14, <1>17, <2>3, <3>1
    <3> QED BY <3>2
  <2> QED BY <1>13, <1>16, <2>3, <2>4, SeqEqual
<1>20. From(ss, n) = SubSeq(p, lx + 1, Len(p))
  BY <1>2, <1>7, <1>15 DEF From
<1>21. From(ss, m) = SubSeq(p, lx + ly + 1, Len(p))
  BY <1>2, <1>6, <1>9, <1>17 DEF From
<1>22. SubSeq(p, lx + 1, Len(p)) = t \o SubSeq(p, lx + ly + 1, Len(p))
  <2>1. lx + 1 \in 1 .. Len(p) + 1 /\ lx + ly \in (lx + 1) - 1 .. Len(p)
        /\ Len(p) \in lx + ly .. Len(p)
    BY <1>17
  <2> QED BY <1>12, <1>18, <2>1, ConcatAdjacentSubSeq
<1>23. From(ss, n) = y \o From(ss, m)
  BY <1>19, <1>20, <1>21, <1>22
<1>24. From(ss, 1) = p
  <2>1. Len(<<>>) + 1 = 1
    OBVIOUS
  <2>2. From(ss, 1) = SubSeq(p, 1, Len(p))
    BY <1>2, <1>3, <1>5, <2>1 DEF From
  <2> QED BY <1>12, <2>2, SubSeqFull
<1>25. From(ss, len + 1) = <<>>
  <2>1. From(ss, len + 1) = SubSeq(p, Len(p) + 1, Len(p))
    BY <1>2, <1>3, <1>4 DEF From
  <2>2. Len(p) + 1 \in Int /\ Len(p) \in Int /\ Len(p) < Len(p) + 1
    BY <1>17
  <2> QED BY <2>1, <2>2, SubSeqEmpty
<1> QED BY <1>1, <1>2, <1>8, <1>23, <1>24, <1>25


-----------------------------------------------------------------------------
(* Encodings that stay canonical: two that meet at different characters, one
   whose last run grows, one without its first run. *)
LEMMA CanonicalConcat ==
    ASSUME NEW x \in Seq(Run), NEW y \in Seq(Run), x # <<>>, y # <<>>,
           Canonical(x), Canonical(y), x[Len(x)].char # y[1].char
    PROVE  Canonical(x \o y)
<1>1. PICK a : a = Len(x)
  OBVIOUS
<1>2. PICK b : b = Len(y)
  OBVIOUS
<1>3. PICK z : z = x \o y
  OBVIOUS
<1>4. a \in Nat /\ b \in Nat /\ a >= 1 /\ b >= 1 /\ Len(z) = a + b
      /\ (\A n \in 1 .. a : z[n] = x[n]) /\ \A n \in 1 .. b : z[a + n] = y[n]
  BY <1>1, <1>2, <1>3
<1>5. /\ \A n \in 1 .. a : x[n].count >= 1
      /\ \A n \in 1 .. a - 1 : x[n].char # x[n + 1].char
      /\ \A n \in 1 .. b : y[n].count >= 1
      /\ \A n \in 1 .. b - 1 : y[n].char # y[n + 1].char
  BY <1>1, <1>2 DEF Canonical
<1>6. ASSUME NEW n \in 1 .. a + b PROVE z[n].count >= 1
  <2>1. CASE n <= a
    <3>1. n \in 1 .. a
      BY <1>4, <2>1
    <3> QED BY <1>4, <1>5, <3>1
  <2>2. CASE n > a
    <3>1. n - a \in 1 .. b /\ a + (n - a) = n
      BY <1>4, <2>2
    <3>2. z[n] = y[n - a]
      BY <1>4, <3>1
    <3> QED BY <1>5, <3>1, <3>2
  <2> QED BY <1>4, <2>1, <2>2
<1>7. ASSUME NEW n \in 1 .. (a + b) - 1 PROVE z[n].char # z[n + 1].char
  <2>1. CASE n < a
    <3>1. n \in 1 .. a /\ n + 1 \in 1 .. a /\ n \in 1 .. a - 1
      BY <1>4, <2>1
    <3>2. z[n] = x[n] /\ z[n + 1] = x[n + 1]
      BY <1>4, <3>1
    <3> QED BY <1>5, <3>1, <3>2
  <2>2. CASE n = a
    <3>1. n \in 1 .. a /\ 1 \in 1 .. b
      BY <1>4, <2>2
    <3>2. z[n] = x[a] /\ z[n + 1] = y[1]
      BY <1>4, <2>2, <3>1
    <3> QED BY <1>1, <3>2
  <2>3. CASE n > a
    <3>1. n - a \in 1 .. b - 1 /\ n - a \in 1 .. b /\ (n - a) + 1 \in 1 .. b
          /\ a + (n - a) = n /\ a + ((n - a) + 1) = n + 1
      BY <1>4, <2>3
    <3>2. z[n] = y[n - a]
      BY <1>4, <3>1
    <3>3. z[n + 1] = y[(n - a) + 1]
      BY <1>4, <3>1
    <3> QED BY <1>5, <3>1, <3>2, <3>3
  <2> QED BY <1>4, <2>1, <2>2, <2>3
<1> QED BY <1>3, <1>4, <1>6, <1>7 DEF Canonical

LEMMA CanonicalBump ==
    ASSUME NEW s \in Seq(Run), s # <<>>, Canonical(s), NEW c \in Nat
    PROVE  /\ Canonical(BumpLast(s, c)) /\ BumpLast(s, c) \in Seq(Run) /\ BumpLast(s, c) # <<>>
           /\ BumpLast(s, c)[Len(BumpLast(s, c))].char = s[Len(s)].char
<1>1. PICK n : n = Len(s)
  OBVIOUS
<1>2. PICK t : t = BumpLast(s, c)
  OBVIOUS
<1>3. /\ t \in Seq(Run) /\ Len(t) = n /\ n \in Nat /\ n >= 1 /\ t[n] = Bump(s[n], c)
      /\ \A l \in 1 .. n - 1 : t[l] = s[l]
  BY <1>1, <1>2, BumpLastIs
<1>10. PICK r : r = s[n]
  OBVIOUS
<1>4. r \in Run /\ r.count \in Nat
  <2>1. n \in 1 .. Len(s)
    BY <1>1, <1>3
  <2>2. r \in Run
    BY <1>10, <2>1
  <2> QED BY <2>2 DEF Run
<1>5. t[n].char = s[n].char /\ t[n].count = s[n].count + c /\ s[n].count \in Nat
  <2>1. Bump(r, c).count = r.count + c /\ Bump(r, c).char = r.char
    BY <1>4, BumpFacts
  <2> QED BY <1>3, <1>4, <1>10, <2>1
<1>6. /\ \A l \in 1 .. n : s[l].count >= 1
      /\ \A l \in 1 .. n - 1 : s[l].char # s[l + 1].char
  BY <1>1 DEF Canonical
<1>7. ASSUME NEW l \in 1 .. n PROVE t[l].count >= 1 /\ t[l].char = s[l].char
  <2>1. CASE l = n
    BY <1>3, <1>4, <1>5, <1>6, <2>1
  <2>2. CASE l # n
    <3>1. l \in 1 .. n - 1
      BY <1>3, <2>2
    <3> QED BY <1>3, <1>6, <3>1
  <2> QED BY <2>1, <2>2
<1>8. \A l \in 1 .. n - 1 : t[l].char # t[l + 1].char
  <2>1. \A l \in 1 .. n - 1 : l \in 1 .. n /\ l + 1 \in 1 .. n
    BY <1>3
  <2> QED BY <1>6, <1>7, <2>1
<1>9. t # <<>>
  BY <1>3
<1> QED BY <1>1, <1>2, <1>3, <1>5, <1>7, <1>8, <1>9 DEF Canonical

LEMMA ConcatBump ==
    ASSUME NEW u \in Seq(Run), NEW r \in Seq(Run), r # <<>>, NEW c \in Nat
    PROVE  u \o BumpLast(r, c) = BumpLast(u \o r, c)
<1>1. PICK a : a = Len(u)
  OBVIOUS
<1>2. PICK b : b = Len(r)
  OBVIOUS
<1>3. PICK t : t = BumpLast(r, c)
  OBVIOUS
<1>4. /\ t \in Seq(Run) /\ Len(t) = b /\ b \in Nat /\ b >= 1 /\ t[b] = Bump(r[b], c)
      /\ \A l \in 1 .. b - 1 : t[l] = r[l]
  BY <1>2, <1>3, BumpLastIs
<1>5. PICK x : x = u \o r
  OBVIOUS
<1>6. /\ x \in Seq(Run) /\ a \in Nat /\ Len(x) = a + b
      /\ (\A l \in 1 .. a : x[l] = u[l]) /\ \A l \in 1 .. b : x[a + l] = r[l]
  BY <1>1, <1>2, <1>4, <1>5
<1>7. PICK y : y = BumpLast(x, c)
  OBVIOUS
<1>8. x # <<>>
  BY <1>4, <1>6
<1>9. /\ y \in Seq(Run) /\ Len(y) = a + b /\ y[a + b] = Bump(x[a + b], c)
      /\ \A l \in 1 .. (a + b) - 1 : y[l] = x[l]
  <2>1. /\ BumpLast(x, c) \in Seq(Run) /\ Len(BumpLast(x, c)) = Len(x)
        /\ BumpLast(x, c)[Len(x)] = Bump(x[Len(x)], c)
        /\ \A l \in 1 .. Len(x) - 1 : BumpLast(x, c)[l] = x[l]
    BY <1>6, <1>8, BumpLastIs
  <2> QED BY <1>6, <1>7, <2>1
<1>10. PICK z : z = u \o t
  OBVIOUS
<1>11. /\ z \in Seq(Run) /\ Len(z) = a + b
       /\ (\A l \in 1 .. a : z[l] = u[l]) /\ \A l \in 1 .. b : z[a + l] = t[l]
  <2>1. u \in Seq(Run) /\ t \in Seq(Run) /\ Len(u) = a /\ Len(t) = b /\ a \in Nat /\ b \in Nat
    BY <1>1, <1>4
  <2>5. u \o t \in Seq(Run) /\ Len(u \o t) = Len(u) + Len(t)
    BY <2>1, ConcatProperties
  <2>2. z \in Seq(Run) /\ Len(z) = a + b
    BY <1>10, <2>1, <2>5
  <2>3. \A l \in 1 .. a : z[l] = u[l]
    BY <1>10, <2>1
  <2>4. \A l \in 1 .. b : z[a + l] = t[l]
    BY <1>10, <2>1
  <2> QED BY <2>2, <2>3, <2>4
<1>12. ASSUME NEW l \in 1 .. a + b PROVE z[l] = y[l]
  <2>1. CASE l <= a
    <3>1. l \in 1 .. a /\ l \in 1 .. (a + b) - 1
      BY <1>4, <1>6, <2>1
    <3> QED BY <1>6, <1>9, <1>11, <3>1
  <2>2. CASE l = a + b
    <3>1. b \in 1 .. b
      BY <1>4
    <3>2. z[a + b] = t[b] /\ x[a + b] = r[b]
      BY <1>6, <1>11, <3>1
    <3> QED BY <1>4, <1>9, <2>2, <3>2
  <2>3. CASE ~(l <= a) /\ l # a + b
    <3>1. PICK m : m = l - a
      OBVIOUS
    <3>2. m \in 1 .. b /\ m \in 1 .. b - 1 /\ a + m = l /\ l \in 1 .. (a + b) - 1
      BY <1>4, <1>6, <2>3, <3>1
    <3>3. z[l] = t[m] /\ x[l] = r[m]
      BY <1>6, <1>11, <3>2
    <3>4. t[m] = r[m] /\ y[l] = x[l]
      BY <1>4, <1>9, <3>2
    <3> QED BY <3>3, <3>4
  <2> QED BY <2>1, <2>2, <2>3
<1>13. z = y
  BY <1>9, <1>11, <1>12, SeqEqual
<1> QED BY <1>3, <1>5, <1>7, <1>10, <1>13

LEMMA CanonicalRest ==
    ASSUME NEW y \in Seq(Run), Canonical(y), Len(y) > 1
    PROVE  /\ Rest(y, 1) \in Seq(Run) /\ Rest(y, 1) # <<>> /\ Canonical(Rest(y, 1))
           /\ y[1].char # Rest(y, 1)[1].char
<1>1. PICK n : n = Len(y)
  OBVIOUS
<1>2. PICK t : t = Rest(y, 1)
  OBVIOUS
<1>3. 1 \in {0, 1} /\ n \in Nat /\ n > 1 /\ ~(n <= 1)
  BY <1>1
<1>4. t \in Seq(Run) /\ Len(t) = n - 1 /\ \A l \in 1 .. n - 1 : t[l] = y[l + 1]
  BY <1>1, <1>2, <1>3, RestFacts
<1>5. /\ \A l \in 1 .. n : y[l].count >= 1
      /\ \A l \in 1 .. n - 1 : y[l].char # y[l + 1].char
  BY <1>1 DEF Canonical
<1>6. \A l \in 1 .. n - 1 : t[l].count >= 1
  <2>1. \A l \in 1 .. n - 1 : l + 1 \in 1 .. n
    BY <1>3
  <2> QED BY <1>4, <1>5, <2>1
<1>7. \A l \in 1 .. (n - 1) - 1 : t[l].char # t[l + 1].char
  <2>1. \A l \in 1 .. (n - 1) - 1 : l \in 1 .. n - 1 /\ l + 1 \in 1 .. n - 1
    BY <1>3
  <2>2. \A l \in 1 .. (n - 1) - 1 : t[l] = y[l + 1] /\ t[l + 1] = y[(l + 1) + 1]
    BY <1>4, <2>1
  <2> QED BY <1>5, <2>1, <2>2
<1>8. t[1] = y[2] /\ y[1].char # y[2].char /\ t # <<>>
  <2>1. 1 \in 1 .. n - 1 /\ 1 + 1 = 2
    BY <1>3
  <2>2. t # <<>>
    BY <1>3, <1>4
  <2> QED BY <1>4, <1>5, <2>1, <2>2
<1> QED BY <1>2, <1>4, <1>6, <1>7, <1>8 DEF Canonical


LEMMA LastOfConcat ==
    ASSUME NEW u \in Seq(Run), NEW r \in Seq(Run), r # <<>>
    PROVE  /\ u \o r \in Seq(Run) /\ u \o r # <<>>
           /\ (u \o r)[Len(u \o r)] = r[Len(r)]
<1>1. PICK a : a = Len(u)
  OBVIOUS
<1>2. PICK b : b = Len(r)
  OBVIOUS
<1>3. a \in Nat /\ b \in Nat /\ b >= 1
  BY <1>1, <1>2
<1>4. PICK z : z = u \o r
  OBVIOUS
<1>5. z \in Seq(Run) /\ Len(z) = a + b
  BY <1>1, <1>2, <1>4, ConcatProperties
<1>6. z[a + b] = r[b]
  <2>1. a + b \in 1 .. a + b /\ ~(a + b <= a) /\ (a + b) - a = b
    BY <1>3
  <2>2. z[a + b] = IF a + b <= a THEN u[a + b] ELSE r[(a + b) - a]
    BY <1>1, <1>2, <1>4, <2>1, ConcatProperties
  <2> QED BY <2>1, <2>2
<1>7. z # <<>>
  BY <1>3, <1>5
<1> QED BY <1>2, <1>4, <1>5, <1>6, <1>7

-----------------------------------------------------------------------------
(* Runs that encode a text, not necessarily as few as possible: no run is of
   none. *)
Encodes(runs, text) ==
    (\A l \in 1 .. Len(runs) : runs[l].count >= 1) /\ Expand(runs) = text

LEMMA EncodesMore ==
    ASSUME NEW runs \in Seq(Run), NEW text \in Seq(Char), Encodes(runs, text),
           NEW part \in Seq(Char)
    PROVE  Encodes(runs \o Rle(part), text \o part)
<1>1. PICK code : code = Rle(part)
  OBVIOUS
<1>2. /\ code \in Seq(Run) /\ Expand(code) = part
      /\ \A l \in 1 .. Len(code) : code[l].count >= 1
  <2>1. code \in Seq(Run)
    BY <1>1, RleFacts
  <2>2. Expand(code) = part
    BY <1>1, ExpandRle
  <2>3. Canonical(code)
    BY <1>1, RleCanonical
  <2> QED BY <2>1, <2>2, <2>3 DEF Canonical
<1>3. PICK all : all = runs \o code
  OBVIOUS
<1>4. /\ Len(all) = Len(runs) + Len(code) /\ Len(runs) \in Nat /\ Len(code) \in Nat
      /\ \A l \in 1 .. Len(all) : all[l] = IF l <= Len(runs) THEN runs[l] ELSE code[l - Len(runs)]
  BY <1>2, <1>3, ConcatProperties
<1>5. \A l \in 1 .. Len(all) : all[l].count >= 1
  <2> SUFFICES ASSUME NEW l \in 1 .. Len(all) PROVE all[l].count >= 1
    OBVIOUS
  <2>1. CASE l <= Len(runs)
    <3>1. all[l] = runs[l] /\ l \in 1 .. Len(runs)
      BY <1>4, <2>1
    <3> QED BY <3>1 DEF Encodes
  <2>2. CASE ~(l <= Len(runs))
    <3>1. all[l] = code[l - Len(runs)]
      BY <1>4, <2>2
    <3>2. l - Len(runs) \in 1 .. Len(code)
      BY <1>4, <2>2
    <3> QED BY <1>2, <3>1, <3>2
  <2> QED BY <2>1, <2>2
<1>6. Expand(all) = text \o part
  <2>1. Expand(all) = Expand(runs) \o Expand(code)
    BY <1>2, <1>3, ExpandConcat
  <2> QED BY <1>2, <2>1 DEF Encodes
<1> QED BY <1>1, <1>3, <1>5, <1>6 DEF Encodes

(* The parts of a file, encoded one by one, encode the file.                 *)
LEMMA PartsOfFile ==
    ASSUME NEW f \in Seq(Char), NEW count \in Nat, NEW to \in [0 .. count -> Nat],
           to[0] = 0, to[count] = Len(f),
           \A t \in 0 .. count - 1 : to[t] <= to[t + 1] /\ to[t + 1] <= Len(f),
           NEW code \in Seq(Seq(Run)), NEW m \in Nat, m + count <= Len(code),
           \A t \in 0 .. count - 1 : code[m + t + 1] = Rle(SubSeq(f, to[t] + 1, to[t + 1])),
           NEW text \in Seq(Char), Encodes(UpTo(code, m), text)
    PROVE  Encodes(UpTo(code, m + count), text \o f)
<1> DEFINE T == {t \in 0 .. count : ~Encodes(UpTo(code, m + t), text \o SubSeq(f, 1, to[t]))}
<1>1. ASSUME T = {} PROVE Encodes(UpTo(code, m + count), text \o f)
  <2>1. count \in 0 .. count
    OBVIOUS
  <2>2. Encodes(UpTo(code, m + count), text \o SubSeq(f, 1, to[count]))
    BY <1>1, <2>1
  <2>3. SubSeq(f, 1, Len(f)) = f
    BY SubSeqFull
  <2> QED BY <2>2, <2>3
<1> SUFFICES ASSUME T # {} PROVE FALSE
  BY <1>1
<1>2. T \in SUBSET Nat /\ \A t \in 0 .. count :
        t \in T <=> ~Encodes(UpTo(code, m + t), text \o SubSeq(f, 1, to[t]))
  <2>1. \A t \in T : t \in 0 .. count
    OBVIOUS
  <2>2. T \in SUBSET Nat
    BY <2>1
  <2> QED BY <2>2, Zenon
<1>3. \A t \in T : t \in 0 .. count
  OBVIOUS
<1> HIDE DEF T
<1>4. PICK t \in T : \A x \in T : t <= x
  BY <1>2, LeastNat
<1>5. t \in 0 .. count /\ ~Encodes(UpTo(code, m + t), text \o SubSeq(f, 1, to[t]))
  BY <1>2, <1>3
<1>6. CASE t = 0
  <2>1. m + 0 = m
    OBVIOUS
  <2>2. SubSeq(f, 1, 0) = <<>>
    BY SubSeqEmpty
  <2>3. text \o <<>> = text
    BY ConcatEmptySeq
  <2> QED BY <1>5, <1>6, <2>1, <2>2, <2>3
<1>7. CASE t # 0
  <2>1. PICK s : s = t - 1
    OBVIOUS
  <2>2. s \in 0 .. count - 1 /\ s \in 0 .. count /\ s + 1 = t /\ ~(t <= s) /\ m + t = m + s + 1
    BY <1>5, <1>7, <2>1
  <2>3. Encodes(UpTo(code, m + s), text \o SubSeq(f, 1, to[s]))
    BY <1>2, <1>4, <2>2
  <2>4. PICK a : a = to[s]
    OBVIOUS
  <2>5. PICK b : b = to[t]
    OBVIOUS
  <2>6. a \in Nat /\ b \in Nat /\ a <= b /\ b <= Len(f)
    BY <1>5, <2>2, <2>4, <2>5
  <2>7. PICK part : part = SubSeq(f, a + 1, b)
    OBVIOUS
  <2>8. code[m + t] = Rle(part)
    BY <2>2, <2>4, <2>5, <2>7
  <2>9. PICK q : q = m + t
    OBVIOUS
  <2>10. q \in 0 .. Len(code) /\ q # 0 /\ q - 1 \in 0 .. Len(code) /\ q - 1 = m + s
    <3>1. PICK len \in Nat : len = Len(code)
      OBVIOUS
    <3>2. m + count <= len /\ count \in Nat
      BY <3>1
    <3>3. q <= len /\ q \in Nat /\ q # 0 /\ q - 1 = m + s
      BY <1>5, <2>2, <2>9, <3>1, <3>2
    <3> QED BY <3>1, <3>3
  <2>11. UpTo(code, q) = UpTo(code, q - 1) \o code[q]
    BY <2>10, UpToFacts
  <2>12. UpTo(code, q - 1) \in Seq(Run)
    BY <2>10, UpToFacts
  <2>13. PICK x : x = SubSeq(f, 1, a)
    OBVIOUS
  <2>14. part \in Seq(Char) /\ x \in Seq(Char) /\ text \o x \in Seq(Char)
    <3>1. part \in Seq(Char) /\ x \in Seq(Char)
      BY <2>6, <2>7, <2>13
    <3> QED BY <3>1, ConcatProperties
  <2>15. Encodes(UpTo(code, q - 1) \o Rle(part), (text \o x) \o part)
    BY <2>3, <2>4, <2>10, <2>12, <2>13, <2>14, EncodesMore
  <2>16. x \o part = SubSeq(f, 1, b)
    <3>1. 1 \in 1 .. Len(f) + 1 /\ a \in 1 - 1 .. Len(f) /\ b \in a .. Len(f)
      BY <2>6
    <3> QED BY <2>7, <2>13, <3>1, ConcatAdjacentSubSeq
  <2>17. (text \o x) \o part = text \o (x \o part)
    BY <2>14, Regroup, Zenon DEF Regroups
  <2> QED BY <1>5, <2>5, <2>8, <2>9, <2>11, <2>15, <2>16, <2>17
<1> QED BY <1>6, <1>7

(* One byte more of a slice.                                                 *)
LEMMA SliceGrows ==
    ASSUME NEW f \in Seq(Char), NEW a \in Nat, NEW m \in Nat, a <= m, m < Len(f)
    PROVE  /\ f[m + 1] \in Char
           /\ SubSeq(f, a + 1, m) \in Seq(Char)
           /\ SubSeq(f, a + 1, a) = <<>>
           /\ SubSeq(f, a + 1, m + 1) = Append(SubSeq(f, a + 1, m), f[m + 1])
<1>1. PICK n : n = m - a
  OBVIOUS
<1>2. n \in Nat /\ m - (a + 1) + 1 = n /\ (m + 1) - (a + 1) + 1 = n + 1
      /\ (IF a + 1 <= m THEN m - (a + 1) + 1 ELSE 0) = n
      /\ (IF a + 1 <= m + 1 THEN (m + 1) - (a + 1) + 1 ELSE 0) = n + 1
  BY <1>1
<1>3. (\A l \in a + 1 .. m : f[l] \in Char) /\ (\A l \in a + 1 .. m + 1 : f[l] \in Char)
      /\ f[m + 1] \in Char
  <2>1. Len(f) \in Nat /\ DOMAIN f = 1 .. Len(f)
    OBVIOUS
  <2>2. \A l \in a + 1 .. m + 1 : l \in 1 .. Len(f)
    BY <2>1
  <2>3. m + 1 \in a + 1 .. m + 1 /\ \A l \in a + 1 .. m : l \in a + 1 .. m + 1
    OBVIOUS
  <2> QED BY <2>2, <2>3
<1>4. PICK s : s = SubSeq(f, a + 1, m)
  OBVIOUS
<1>5. PICK t : t = SubSeq(f, a + 1, m + 1)
  OBVIOUS
<1>6. s \in Seq(Char) /\ Len(s) = n /\ \A l \in 1 .. n : s[l] = f[a + 1 + l - 1]
  BY <1>2, <1>3, <1>4, SubSeqProperties
<1>7. t \in Seq(Char) /\ Len(t) = n + 1 /\ \A l \in 1 .. n + 1 : t[l] = f[a + 1 + l - 1]
  BY <1>2, <1>3, <1>5, SubSeqProperties
<1>8. PICK u : u = Append(s, f[m + 1])
  OBVIOUS
<1>9. u \in Seq(Char) /\ Len(u) = n + 1 /\ u[n + 1] = f[m + 1] /\ \A l \in 1 .. n : u[l] = s[l]
  BY <1>3, <1>6, <1>8, AppendProperties
<1>10. t[n + 1] = f[m + 1] /\ \A l \in 1 .. n : t[l] = s[l]
  <2>1. n + 1 \in 1 .. n + 1 /\ a + 1 + (n + 1) - 1 = m + 1 /\ \A l \in 1 .. n : l \in 1 .. n + 1
    BY <1>1, <1>2
  <2> QED BY <1>6, <1>7, <2>1
<1>11. t[n + 1] = u[n + 1] /\ \A l \in 1 .. n : t[l] = u[l]
  BY <1>9, <1>10
<1>12. t = u
  BY <1>2, <1>7, <1>9, <1>11, SameButLast
<1>13. SubSeq(f, a + 1, a) = <<>>
  BY SubSeqEmpty
<1> QED BY <1>3, <1>4, <1>5, <1>6, <1>8, <1>12, <1>13

-----------------------------------------------------------------------------
(* What wunzip does with numbers, runs and texts.                            *)

(* A number is one quotient and one remainder.                               *)
LEMMA Divided ==
    ASSUME NEW d \in Nat \ {0}, NEW q \in Nat, NEW x \in 0 .. d - 1
    PROVE  (d * q + x) % d = x /\ (d * q + x) \div d = q
<1>1. PICK n \in Nat : n = d * q + x
  <2>1. d * q \in Nat
    OBVIOUS
  <2> QED BY <2>1
<1>2. PICK p \in Nat : p = n \div d
  OBVIOUS
<1>3. PICK y \in 0 .. d - 1 : y = n % d
  OBVIOUS
<1>4. n = d * p + y
  BY <1>2, <1>3
<1>5. p = q
  <2>1. ASSUME NEW u \in Nat, NEW v \in Nat, NEW a \in 0 .. d - 1, NEW b \in 0 .. d - 1,
               d * u + a = d * v + b, u < v
        PROVE  FALSE
    <3>1. PICK e \in Nat : v = u + 1 + e
      <4>1. v - u - 1 \in Nat /\ v = u + 1 + (v - u - 1)
        BY <2>1
      <4> QED BY <4>1
    <3>2. d * v = d * u + d + d * e
      BY <3>1
    <3>3. d * e \in Nat /\ d * u \in Nat
      OBVIOUS
    <3> QED BY <2>1, <3>2, <3>3
  <2>2. d * p + y = d * q + x
    BY <1>1, <1>4
  <2>3. ~(p < q) /\ ~(q < p)
    BY <2>1, <2>2
  <2> QED BY <2>3
<1>6. d * q = d * p /\ d * q \in Nat
  BY <1>5
<1>7. y = x
  BY <1>1, <1>4, <1>6
<1> QED BY <1>1, <1>2, <1>3, <1>5, <1>7

(* One digit more of a number.                                               *)
LEMMA DigitMore ==
    ASSUME NEW n \in Nat, NEW w \in Nat \ {0}, NEW b \in Nat \ {0}
    PROVE  /\ n % (w * b) = (n % w) + ((n \div w) % b) * w
           /\ n % w \in Nat /\ n % w <= n
<1>1. PICK q \in Nat : q = n \div w
  OBVIOUS
<1>2. PICK x \in 0 .. w - 1 : x = n % w
  OBVIOUS
<1>3. n = w * q + x
  BY <1>1, <1>2
<1>4. PICK p \in Nat : p = q \div b
  OBVIOUS
<1>5. PICK y \in 0 .. b - 1 : y = q % b
  OBVIOUS
<1>6. q = b * p + y
  BY <1>4, <1>5
<1>7. w * q = (w * b) * p + w * y
  BY <1>6
<1>8. w * y + x \in 0 .. w * b - 1
  <2>1. PICK e \in Nat : b = y + 1 + e
    <3>1. b - y - 1 \in Nat /\ b = y + 1 + (b - y - 1)
      OBVIOUS
    <3> QED BY <3>1
  <2>2. w * b = w * y + w + w * e
    BY <2>1
  <2>3. w * y \in Nat /\ w * e \in Nat
    OBVIOUS
  <2> QED BY <2>2, <2>3
<1>9. PICK d \in Nat \ {0} : d = w * b
  <2>1. w * b \in Nat \ {0}
    OBVIOUS
  <2> QED BY <2>1
<1>10. PICK z \in 0 .. d - 1 : z = w * y + x
  BY <1>8, <1>9
<1>11. n = d * p + z
  <2>1. (w * b) * p = d * p /\ d * p \in Nat /\ w * y \in Nat
    BY <1>9
  <2> QED BY <1>3, <1>7, <1>10, <2>1
<1>12. n % d = z
  BY <1>11, Divided
<1>13. w * q \in Nat /\ x <= n
  <2>1. w * q \in Nat
    OBVIOUS
  <2> QED BY <1>3, <2>1
<1>14. w * y = y * w
  OBVIOUS
<1>15. n % (w * b) = x + y * w
  BY <1>9, <1>10, <1>12, <1>14
<1> QED BY <1>1, <1>2, <1>5, <1>13, <1>15

(* No run is longer than what it is part of.                                 *)
LEMMA CountBound ==
    ASSUME NEW runs \in Seq(Run)
    PROVE  \A p \in 1 .. Len(runs) : runs[p].count \in Nat /\ runs[p].count <= Len(Expand(runs))
<1> DEFINE Holds(s) == \A p \in 1 .. Len(s) : s[p].count <= Len(Expand(s))
           T == {n \in Nat : \E s \in Seq(Run) : Len(s) = n /\ ~Holds(s)}
<1>0. ASSUME NEW p \in 1 .. Len(runs) PROVE runs[p].count \in Nat
  <2>1. runs[p] \in Run
    OBVIOUS
  <2> QED BY <2>1 DEF Run
<1>1. ASSUME T # {} PROVE FALSE
  <2>1. T \in SUBSET Nat
    OBVIOUS
  <2>2. PICK n : n \in T /\ \A m \in T : n <= m
    BY <1>1, <2>1, LeastNat
  <2>3. PICK s \in Seq(Run) : Len(s) = n /\ ~Holds(s)
    BY <2>2
  <2>4. s # <<>>
    BY <2>3
  <2>5. PICK t \in Seq(Run), r \in Run : s = Append(t, r) /\ Len(s) = Len(t) + 1
    BY <2>4, SplitLast
  <2>6. Len(t) \in Nat /\ Len(t) + 1 = n /\ n \in Nat
    BY <2>2, <2>3, <2>5
  <2>7. Holds(t)
    <3>1. ~(n <= Len(t))
      BY <2>6
    <3>2. Len(t) \notin T
      BY <2>2, <3>1
    <3> QED BY <2>6, <3>2
  <2>8. PICK x \in Seq(Char) : x = Expand(t)
    BY ExpandFacts
  <2>9. PICK y \in Seq(Char) : y = Copies(r) /\ Len(y) = r.count
    BY CopiesFacts
  <2>10. Expand(s) = x \o y
    BY <2>5, <2>8, <2>9, ExpandFacts
  <2>11. Len(Expand(s)) = Len(x) + Len(y) /\ Len(x) \in Nat /\ Len(y) \in Nat
    BY <2>10, ConcatProperties
  <2>12. ASSUME NEW p \in 1 .. Len(s) PROVE s[p].count <= Len(Expand(s))
    <3>1. CASE p = n
      <4>1. s[p] = r
        BY <2>5, <2>6, <3>1
      <4> QED BY <2>9, <2>11, <4>1
    <3>2. CASE p # n
      <4>1. p \in 1 .. Len(t) /\ s[p] = t[p]
        BY <2>3, <2>5, <2>6, <3>2
      <4>2. t[p].count <= Len(x)
        BY <2>7, <2>8, <4>1
      <4>3. t[p].count \in Nat
        <5>1. t[p] \in Run
          BY <4>1
        <5> QED BY <5>1 DEF Run
      <4> QED BY <2>11, <4>1, <4>2, <4>3
    <3> QED BY <3>1, <3>2
  <2> QED BY <2>3, <2>12
<1>2. Holds(runs)
  <2>1. Len(runs) \in Nat
    OBVIOUS
  <2> QED BY <1>1, <2>1
<1> QED BY <1>0, <1>2

(* The first byte of what is left of five and of what follows them.          *)
LEMMA ReadFirst ==
    ASSUME NEW S, NEW x \in Seq(S), NEW y \in Seq(S), Len(x) = 5, NEW c \in 0 .. 4
    PROVE  /\ SubSeq(x, c + 1, 5) \o y # <<>>
           /\ Head(SubSeq(x, c + 1, 5) \o y) = x[c + 1]
           /\ Tail(SubSeq(x, c + 1, 5) \o y) = SubSeq(x, c + 2, 5) \o y
<1>1. c + 1 \in 1 .. Len(x) /\ 5 \in c + 1 .. Len(x) /\ (c + 1) + 1 = c + 2
  OBVIOUS
<1>2. PICK u : u = SubSeq(x, c + 1, 5)
  OBVIOUS
<1>3. Head(u) = x[c + 1] /\ Tail(u) = SubSeq(x, c + 2, 5)
  BY <1>1, <1>2, HeadTailOfSubSeq
<1>4. u \in Seq(S) /\ Len(u) = 5 - c
  <2>1. ASSUME NEW n \in c + 1 .. 5 PROVE x[n] \in S
    <3>1. n \in Int /\ c \in Int /\ 0 <= c /\ c + 1 <= n /\ n <= 5
      OBVIOUS
    <3>2. n \in 1 .. 5
      BY ONLY <3>1
    <3>3. n \in 1 .. Len(x)
      BY <3>2
    <3> QED BY <3>3, ElementOfSeq
  <2>2. c + 1 \in Int /\ 5 \in Int /\ c + 1 <= 5 /\ 5 - (c + 1) + 1 = 5 - c
    OBVIOUS
  <2>3. u \in Seq(S) /\ Len(u) = IF c + 1 <= 5 THEN 5 - (c + 1) + 1 ELSE 0
    BY <1>2, <2>1, <2>2, SubSeqProperties
  <2> QED BY <2>2, <2>3
<1>5. u # <<>> /\ Len(u) \in Nat /\ Len(u) >= 1
  BY <1>4
<1>6. Head(u) \in S /\ Tail(u) \in Seq(S) /\ u = <<Head(u)>> \o Tail(u)
  BY <1>4, <1>5
<1>7. PICK h \in S : h = Head(u)
  BY <1>6
<1>8. PICK v \in Seq(S) : v = Tail(u)
  BY <1>6
<1>9. u \o y = <<h>> \o (v \o y)
  <2>1. <<h>> \in Seq(S)
    OBVIOUS
  <2> QED BY <1>6, <1>7, <1>8, <2>1, ConcatAssociative
<1>10. PICK w \in Seq(S) : w = v \o y
  BY ConcatProperties
<1>11. <<h>> \o w # <<>> /\ Head(<<h>> \o w) = h /\ Tail(<<h>> \o w) = w
  <2>1. PICK z : z = <<h>> \o w
    OBVIOUS
  <2>2. PICK one : one = <<h>>
    OBVIOUS
  <2>7. one \in Seq(S) /\ Len(one) = 1 /\ one[1] = h
    BY <2>2
  <2>8. /\ z \in Seq(S) /\ Len(z) = 1 + Len(w)
        /\ \A n \in 1 .. 1 + Len(w) : z[n] = IF n <= 1 THEN one[n] ELSE w[n - 1]
    BY <2>1, <2>2, <2>7, ConcatProperties
  <2>3. /\ z \in Seq(S) /\ Len(z) = 1 + Len(w) /\ z[1] = h
        /\ \A n \in 1 .. Len(w) : z[n + 1] = w[n]
    BY <2>7, <2>8
  <2>4. z # <<>> /\ Head(z) = h
    BY <2>3
  <2>5. Tail(z) \in Seq(S) /\ Len(Tail(z)) = Len(w) /\ \A n \in 1 .. Len(w) : Tail(z)[n] = w[n]
    BY <2>3, <2>4
  <2>6. Tail(z) = w
    BY <2>5, SeqEqual
  <2> QED BY <2>1, <2>4, <2>6
<1> QED BY <1>2, <1>3, <1>7, <1>8, <1>9, <1>10, <1>11

(* What the first p - 1 runs decode to.                                      *)
Decoded(o, p) == UpTo(AllCopies(o), p - 1)

LEMMA DecodedFacts ==
    ASSUME NEW o \in Seq(Run)
    PROVE  /\ AllCopies(o) \in Seq(Seq(Char)) /\ Len(AllCopies(o)) = Len(o)
           /\ Decoded(o, 1) = <<>> /\ Decoded(o, Len(o) + 1) = Expand(o)
           /\ \A p \in 1 .. Len(o) + 1 : Decoded(o, p) \in Seq(Char)
           /\ \A p \in 1 .. Len(o) : Decoded(o, p + 1) = Decoded(o, p) \o Copies(o[p])
<1>1. PICK len \in Nat : len = Len(o) /\ DOMAIN o = 1 .. len
  OBVIOUS
<1>2. ASSUME NEW p \in 1 .. len PROVE Copies(o[p]) \in Seq(Char)
  <2>1. o[p] \in Run
    BY <1>1
  <2> QED BY <2>1, CopiesFacts
<1>3. PICK c : c = AllCopies(o)
  OBVIOUS
<1>4. c = [p \in 1 .. len |-> Copies(o[p])]
  BY <1>1, <1>3 DEF AllCopies
<1>5. c \in Seq(Seq(Char)) /\ Len(c) = len
  BY <1>2, <1>4
<1>6. FlattenSeq(c) = Expand(o)
  BY <1>1, <1>4 DEF Expand, Copies
<1>7. ASSUME NEW p \in 1 .. len + 1 PROVE Decoded(o, p) \in Seq(Char)
  <2>1. p - 1 \in 0 .. Len(c)
    BY <1>5
  <2> QED BY <1>3, <1>5, <2>1, UpToFacts DEF Decoded
<1>8. Decoded(o, 1) = <<>> /\ Decoded(o, len + 1) = Expand(o)
  <2>1. 0 \in 0 .. Len(c) /\ len \in 0 .. Len(c) /\ 1 - 1 = 0 /\ (len + 1) - 1 = len
    BY <1>5
  <2>2. UpTo(c, 0) = <<>> /\ UpTo(c, len) = FlattenSeq(c)
    BY <1>5, <2>1, UpToFacts
  <2> QED BY <1>3, <1>6, <2>1, <2>2 DEF Decoded
<1>9. ASSUME NEW p \in 1 .. len PROVE Decoded(o, p + 1) = Decoded(o, p) \o Copies(o[p])
  <2>1. p \in 0 .. Len(c) /\ p # 0 /\ (p + 1) - 1 = p
    BY <1>5
  <2>2. UpTo(c, p) = UpTo(c, p - 1) \o c[p]
    BY <1>5, <2>1, UpToFacts
  <2>3. c[p] = Copies(o[p])
    BY <1>4
  <2> QED BY <1>3, <2>1, <2>2, <2>3 DEF Decoded
<1> QED BY <1>1, <1>3, <1>5, <1>7, <1>8, <1>9

(* A text begins another.                                                    *)
Begins(x, y) == Len(x) <= Len(y) /\ \A n \in 1 .. Len(x) : y[n] = x[n]

LEMMA BeginsFacts ==
    ASSUME NEW x \in Seq(Char), NEW y \in Seq(Char)
    PROVE  /\ Begins(x, y) => IsPrefix(x, y)
           /\ Begins(x, x)
           /\ \A u \in Seq(Char) : Begins(x, y) => Begins(u \o x, u \o y)
           /\ \A z \in Seq(Char) : Begins(x, y) /\ Begins(y, z) => Begins(x, z)
<1>1. Len(x) \in Nat /\ Len(y) \in Nat
  OBVIOUS
<1>2. ASSUME Begins(x, y) PROVE IsPrefix(x, y)
  <2>1. PICK len \in Nat : len = Len(x)
    OBVIOUS
  <2>2. \A n \in 1 .. len : x[n] \in Char /\ y[n] \in Char
    BY <1>1, <1>2, <2>1 DEF Begins
  <2>3. PICK u : u = SubSeq(x, 1, len)
    OBVIOUS
  <2>4. PICK v : v = SubSeq(y, 1, len)
    OBVIOUS
  <2>5. /\ u \in Seq(Char) /\ Len(u) = len /\ \A n \in 1 .. len : u[n] = x[n]
    <3>1. /\ u \in Seq(Char) /\ Len(u) = IF 1 <= len THEN len - 1 + 1 ELSE 0
          /\ \A n \in 1 .. len - 1 + 1 : u[n] = x[1 + n - 1]
      BY <2>2, <2>3, SubSeqProperties
    <3> QED BY <3>1
  <2>6. /\ v \in Seq(Char) /\ Len(v) = len /\ \A n \in 1 .. len : v[n] = y[n]
    <3>1. /\ v \in Seq(Char) /\ Len(v) = IF 1 <= len THEN len - 1 + 1 ELSE 0
          /\ \A n \in 1 .. len - 1 + 1 : v[n] = y[1 + n - 1]
      BY <2>2, <2>4, SubSeqProperties
    <3> QED BY <3>1
  <2>7. \A n \in 1 .. len : u[n] = v[n]
    BY <1>2, <2>1, <2>5, <2>6 DEF Begins
  <2>8. u = v
    BY <2>5, <2>6, <2>7, SeqEqual
  <2> QED BY <1>2, <2>1, <2>3, <2>4, <2>8 DEF IsPrefix, Begins
<1>3. ASSUME NEW u \in Seq(Char), Begins(x, y) PROVE Begins(u \o x, u \o y)
  <2>1. /\ Len(u \o x) = Len(u) + Len(x) /\ Len(u \o y) = Len(u) + Len(y) /\ Len(u) \in Nat
    BY ConcatProperties
  <2>2. ASSUME NEW n \in 1 .. Len(u) + Len(x) PROVE (u \o y)[n] = (u \o x)[n]
    <3>1. n \in 1 .. Len(u) + Len(y)
      BY <1>1, <1>3, <2>1 DEF Begins
    <3>2. (u \o x)[n] = IF n <= Len(u) THEN u[n] ELSE x[n - Len(u)]
      BY ConcatProperties
    <3>3. (u \o y)[n] = IF n <= Len(u) THEN u[n] ELSE y[n - Len(u)]
      BY <3>1, ConcatProperties
    <3>4. CASE n <= Len(u)
      BY <3>2, <3>3, <3>4
    <3>5. CASE ~(n <= Len(u))
      <4>1. n - Len(u) \in 1 .. Len(x)
        BY <1>1, <2>1, <3>5
      <4>2. y[n - Len(u)] = x[n - Len(u)]
        BY <1>3, <4>1 DEF Begins
      <4> QED BY <3>2, <3>3, <3>5, <4>2
    <3> QED BY <3>4, <3>5
  <2>3. Len(u) + Len(x) <= Len(u) + Len(y)
    BY <1>1, <1>3, <2>1 DEF Begins
  <2> QED BY <2>1, <2>2, <2>3 DEF Begins
<1>4. ASSUME NEW z \in Seq(Char), Begins(x, y), Begins(y, z) PROVE Begins(x, z)
  <2>1. Len(z) \in Nat
    OBVIOUS
  <2> QED BY <1>1, <1>4, <2>1 DEF Begins
<1>5. Begins(x, x)
  BY <1>1 DEF Begins
<1> QED BY <1>2, <1>3, <1>4, <1>5

=============================================================================
