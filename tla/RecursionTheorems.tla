------------------------- MODULE RecursionTheorems --------------------------
(***************************************************************************)
(* What recursive functions return: that a definition by recursion along a *)
(* well-founded relation defines a function, and what follows for the      *)
(* folds and the flattening of sequences of the community modules.         *)
(*                                                                         *)
(* The steps of a recursion are functions, not operators, so that these    *)
(* facts can be cited for the recursions of the models.                    *)
(***************************************************************************)
EXTENDS Naturals, Sequences, FiniteSets, SequencesExt, FiniteSetsExt, Folds,
        NaturalsInduction, WellFoundedInduction, FiniteSetTheorems, TLAPS

LEMMA MinIsLeast ==
    ASSUME NEW I \in SUBSET Nat, I # {}
    PROVE  Min(I) \in I /\ \A k \in I : Min(I) <= k
<1>1. PICK x \in I : \A y \in I : ~(<<y, x>> \in OpToRel(<, Nat))
  BY NatLessThanWellFounded, WFMin
<1>2. \A y \in I : ~(y < x)
  BY <1>1, Zenon DEF OpToRel
<1>3. \A y \in I : x <= y
  BY <1>2
<1> QED
  BY <1>3 DEF Min

-----------------------------------------------------------------------------
(* Recursion.  The value at c is step[c] of the values below c; an attempt *)
(* is a function that obeys this on a part of C that holds what is below   *)
(* its members.                                                            *)
Founded(C, below) == \A T \in SUBSET C : T # {} => \E c \in T : below[c] \cap T = {}
Passes(C, below, S, step) == \A c \in C : \A h \in [below[c] -> S] : step[c][h] \in S
Follows(C, below, step, f) == \A c \in C : f[c] = step[c][[b \in below[c] |-> f[b]]]

Obeys(below, step, g, c) ==
    below[c] \subseteq DOMAIN g /\ g[c] = step[c][[b \in below[c] |-> g[b]]]

Attempts(C, below, S, step) ==
    {g \in UNION {[D -> S] : D \in SUBSET C} : \A c \in DOMAIN g : Obeys(below, step, g, c)}

LEMMA AttemptIs ==
    ASSUME NEW C, NEW below, NEW S, NEW step, NEW g
    PROVE  g \in Attempts(C, below, S, step) <=>
               /\ DOMAIN g \subseteq C /\ g \in [DOMAIN g -> S]
               /\ \A c \in DOMAIN g : Obeys(below, step, g, c)
<1>1. g \in Attempts(C, below, S, step) <=>
          /\ g \in UNION {[D -> S] : D \in SUBSET C}
          /\ \A c \in DOMAIN g : Obeys(below, step, g, c)
  BY Zenon DEF Attempts
<1>2. ASSUME g \in UNION {[D -> S] : D \in SUBSET C}
      PROVE  DOMAIN g \subseteq C /\ g \in [DOMAIN g -> S]
  <2>1. PICK D \in SUBSET C : g \in [D -> S]
    BY <1>2
  <2> QED
    BY <2>1
<1>3. ASSUME DOMAIN g \subseteq C, g \in [DOMAIN g -> S]
      PROVE  g \in UNION {[D -> S] : D \in SUBSET C}
  BY <1>3, Zenon
<1> QED
  BY <1>1, <1>2, <1>3

LEMMA AttemptsAgree ==
    ASSUME NEW C, NEW below \in [C -> SUBSET C],
           Founded(C, below),
           NEW S, NEW step,
           NEW g \in Attempts(C, below, S, step), NEW h \in Attempts(C, below, S, step),
           NEW x, x \in DOMAIN g, x \in DOMAIN h
    PROVE  g[x] = h[x]
<1> DEFINE T == {c \in DOMAIN g \cap DOMAIN h : g[c] # h[c]}
<1>1. /\ DOMAIN g \subseteq C
      /\ \A c \in DOMAIN g : Obeys(below, step, g, c)
      /\ \A c \in DOMAIN h : Obeys(below, step, h, c)
  BY AttemptIs
<1>2. SUFFICES ASSUME T # {} PROVE FALSE
  OBVIOUS
<1>3. PICK c \in T : below[c] \cap T = {}
  <2>1. T \in SUBSET C
    BY <1>1
  <2> QED
    BY <1>2, <2>1 DEF Founded
<1>4. Obeys(below, step, g, c) /\ Obeys(below, step, h, c)
  BY <1>1, <1>3
<1>5. \A b \in below[c] : g[b] = h[b]
  BY <1>3, <1>4 DEF Obeys
<1>6. [b \in below[c] |-> g[b]] = [b \in below[c] |-> h[b]]
  BY <1>5
<1> QED
  BY <1>3, <1>4, <1>6 DEF Obeys

(* A definition by recursion along a well-founded relation defines a      *)
(* function.                                                               *)
LEMMA Recursion ==
    ASSUME NEW C, NEW below \in [C -> SUBSET C],
           Founded(C, below),
           NEW S, NEW step,
           Passes(C, below, S, step)
    PROVE  \E f \in [C -> S] : Follows(C, below, step, f)
<1> DEFINE A == Attempts(C, below, S, step)
           U == UNION {DOMAIN g : g \in A}
           f == [c \in U |-> (CHOOSE g \in A : c \in DOMAIN g)[c]]
<1>1. \A g \in A : DOMAIN g \subseteq C /\ g \in [DOMAIN g -> S] /\ \A c \in DOMAIN g : Obeys(below, step, g, c)
  BY AttemptIs
<1>2. ASSUME NEW g \in A, NEW c \in DOMAIN g
      PROVE  c \in U /\ f[c] = g[c]
  <2> DEFINE h == CHOOSE h \in A : c \in DOMAIN h
  <2>1. c \in U
    BY <1>2
  <2>2. h \in A /\ c \in DOMAIN h
    BY <1>2
  <2>3. f[c] = h[c]
    BY <2>1
  <2> HIDE DEF A, h, f
  <2>4. g[c] = h[c]
    BY <1>2, <2>2, AttemptsAgree DEF A
  <2> QED
    BY <2>1, <2>3, <2>4
<1>3. U \subseteq C
  BY <1>1
<1>4. \A c \in U : \E g \in A : c \in DOMAIN g
  OBVIOUS
<1>5. DOMAIN f = U
  OBVIOUS
<1> HIDE DEF A, U, f
<1>6. \A c \in U : f[c] \in S /\ below[c] \subseteq U
  <2> TAKE c \in U
  <2>1. PICK g \in A : c \in DOMAIN g
    BY <1>4
  <2>2. f[c] = g[c] /\ DOMAIN g \subseteq U
    BY <1>2, <2>1
  <2>3. g[c] \in S /\ below[c] \subseteq DOMAIN g
    <3>1. g \in [DOMAIN g -> S] /\ Obeys(below, step, g, c)
      BY <1>1, <2>1
    <3> QED
      BY <2>1, <3>1 DEF Obeys
  <2> QED
    BY <2>2, <2>3
<1>7. \A c \in U : f[c] = step[c][[b \in below[c] |-> f[b]]]
  <2> TAKE c \in U
  <2>1. PICK g \in A : c \in DOMAIN g
    BY <1>4
  <2>2. Obeys(below, step, g, c)
    BY <1>1, <2>1
  <2>3. \A b \in below[c] : f[b] = g[b]
    BY <1>2, <2>1, <2>2 DEF Obeys
  <2>4. [b \in below[c] |-> f[b]] = [b \in below[c] |-> g[b]]
    BY <2>3
  <2>5. f[c] = g[c]
    BY <1>2, <2>1
  <2> QED
    BY <2>2, <2>4, <2>5 DEF Obeys
<1>8. f \in [U -> S]
  <2>1. f = [c \in U |-> f[c]]
    BY DEF f
  <2> QED
    BY <1>6, <2>1
<1>9. U = C
  <2> SUFFICES ASSUME C \ U # {} PROVE FALSE
    BY <1>3
  <2>1. PICK c \in C \ U : below[c] \cap (C \ U) = {}
    <3>1. C \ U \in SUBSET C
      OBVIOUS
    <3> QED
      BY <3>1 DEF Founded
  <2>2. below[c] \subseteq U /\ c \notin U
    BY <2>1
  <2> DEFINE new == step[c][[b \in below[c] |-> f[b]]]
             g == [x \in U \cup {c} |-> IF x = c THEN new ELSE f[x]]
  <2>3. new \in S
    <3>1. [b \in below[c] |-> f[b]] \in [below[c] -> S]
      BY <1>6, <2>2
    <3> QED
      BY <2>1, <3>1 DEF Passes
  <2> HIDE DEF new
  <2>4. g \in [U \cup {c} -> S] /\ U \cup {c} \in SUBSET C /\ DOMAIN g = U \cup {c}
    BY <1>3, <1>6, <2>1, <2>3
  <2>5. g[c] = new /\ \A x \in U : g[x] = f[x]
    BY <2>2
  <2> HIDE DEF g
  <2>6. ASSUME NEW x \in U \cup {c} PROVE Obeys(below, step, g, x)
    <3>1. below[x] \subseteq U
      BY <1>6, <2>2
    <3>2. [b \in below[x] |-> g[b]] = [b \in below[x] |-> f[b]]
      BY <2>5, <3>1
    <3>3. CASE x = c
      BY <2>4, <2>5, <3>1, <3>2, <3>3 DEF new, Obeys
    <3>4. CASE x \in U
      BY <1>7, <2>4, <2>5, <3>1, <3>2, <3>4 DEF Obeys
    <3> QED
      BY <3>3, <3>4
  <2>7. g \in A
    BY <2>4, <2>6, AttemptIs DEF A
  <2> QED
    BY <1>2, <2>1, <2>4, <2>7
<1> QED
  BY <1>7, <1>8, <1>9 DEF Follows

(* Along the numbers from 1 to n.                                          *)
LEMMA UpwardFounded ==
    ASSUME NEW n \in Nat
    PROVE  /\ [i \in 1 .. n |-> 1 .. i - 1] \in [1 .. n -> SUBSET (1 .. n)]
           /\ Founded(1 .. n, [i \in 1 .. n |-> 1 .. i - 1])
<1>1. ASSUME NEW T \in SUBSET (1 .. n), T # {} PROVE \E c \in T : (1 .. c - 1) \cap T = {}
  <2>1. T \in SUBSET Nat
    OBVIOUS
  <2>2. Min(T) \in T /\ \A j \in T : Min(T) <= j
    BY <1>1, <2>1, MinIsLeast
  <2> DEFINE c == Min(T)
  <2>3. c \in T /\ c \in Nat /\ \A j \in T : c <= j
    BY <2>1, <2>2
  <2> HIDE DEF c
  <2>4. ASSUME NEW j \in 1 .. c - 1, j \in T PROVE FALSE
    BY <2>3, <2>4
  <2> QED
    BY <2>3, <2>4
<1> QED
  BY <1>1 DEF Founded

-----------------------------------------------------------------------------
LEMMA JoinedIs ==
    ASSUME NEW S, NEW a \in Seq(S), NEW b \in Seq(S)
    PROVE  ToSet(a \o b) = ToSet(a) \cup ToSet(b)
<1>1. /\ DOMAIN a = 1 .. Len(a) /\ DOMAIN b = 1 .. Len(b) /\ Len(a) \in Nat /\ Len(b) \in Nat
      /\ DOMAIN (a \o b) = 1 .. Len(a) + Len(b)
  OBVIOUS
<1>2. ASSUME NEW i \in DOMAIN a PROVE i \in DOMAIN (a \o b) /\ (a \o b)[i] = a[i]
  BY <1>1
<1>3. ASSUME NEW i \in DOMAIN b
      PROVE  Len(a) + i \in DOMAIN (a \o b) /\ (a \o b)[Len(a) + i] = b[i]
  BY <1>1
<1>4. ASSUME NEW i \in DOMAIN (a \o b), i \notin DOMAIN a
      PROVE  i - Len(a) \in DOMAIN b /\ (a \o b)[i] = b[i - Len(a)]
  BY <1>1, <1>4
<1>5. ToSet(a \o b) \subseteq ToSet(a) \cup ToSet(b)
  BY <1>2, <1>4 DEF ToSet
<1>6. ToSet(a) \cup ToSet(b) \subseteq ToSet(a \o b)
  BY <1>2, <1>3 DEF ToSet
<1> QED
  BY <1>5, <1>6

(* Flattening.  The elements of the whole are those of the parts.          *)
FlatBody(s, flat) == [i \in 1 .. Len(s) |-> IF i = 1 THEN s[i] ELSE flat[i - 1] \o s[i]]

LEMMA FlatIs ==
    ASSUME NEW S, NEW s \in Seq(Seq(S)), s # <<>>
    PROVE  \E flat \in [1 .. Len(s) -> Seq(S)] :
               FlattenSeq(s) = flat[Len(s)] /\ flat = FlatBody(s, flat)
<1> DEFINE C == 1 .. Len(s)
           below == [i \in C |-> 1 .. i - 1]
           step == [i \in C |-> [h \in [1 .. i - 1 -> Seq(S)] |->
                                   IF i = 1 THEN s[i] ELSE h[i - 1] \o s[i]]]
<1>1. Len(s) \in Nat \ {0} /\ \A i \in C : s[i] \in Seq(S)
  OBVIOUS
<1>2. below \in [C -> SUBSET C] /\ Founded(C, below)
  BY <1>1, UpwardFounded
<1>3. Passes(C, below, Seq(S), step)
  <2> SUFFICES ASSUME NEW i \in C, NEW h \in [1 .. i - 1 -> Seq(S)] PROVE step[i][h] \in Seq(S)
    BY DEF Passes
  <2>1. i # 1 => h[i - 1] \in Seq(S)
    BY <1>1
  <2> QED
    BY <1>1, <2>1
<1>4. PICK f \in [C -> Seq(S)] : Follows(C, below, step, f)
  <2> HIDE DEF C, below, step
  <2> QED
    BY <1>2, <1>3, Recursion
<1>5. f = FlatBody(s, f)
  <2>1. ASSUME NEW i \in C PROVE f[i] = IF i = 1 THEN s[i] ELSE f[i - 1] \o s[i]
    <3> DEFINE h == [b \in 1 .. i - 1 |-> f[b]]
    <3>1. h \in [1 .. i - 1 -> Seq(S)]
      <4>1. \A b \in 1 .. i - 1 : b \in C
        BY <1>1
      <4> QED
        BY <1>4, <4>1
    <3>2. f[i] = step[i][h]
      BY <1>4 DEF Follows
    <3>3. i # 1 => h[i - 1] = f[i - 1]
      BY <1>1
    <3> QED
      BY <3>1, <3>2, <3>3
  <2> QED
    BY <1>4, <2>1 DEF FlatBody
<1> DEFINE flat == CHOOSE flat : flat = FlatBody(s, flat)
<1>6. flat = FlatBody(s, flat)
  BY <1>5, Zenon
<1>7. FlattenSeq(s) = flat[Len(s)]
  BY <1>1, Zenon DEF FlattenSeq, FlatBody
<1> HIDE DEF flat
<1>8. flat \in [C -> Seq(S)]
  <2> DEFINE T == {i \in C : flat[i] \notin Seq(S)}
  <2>1. \A i \in C : flat[i] = IF i = 1 THEN s[i] ELSE flat[i - 1] \o s[i]
    BY <1>6 DEF FlatBody
  <2>2. T = {}
    <3> SUFFICES ASSUME T # {} PROVE FALSE
      OBVIOUS
    <3>1. PICK i \in T : (1 .. i - 1) \cap T = {}
      <4>1. T \in SUBSET C
        OBVIOUS
      <4>2. PICK i \in T : below[i] \cap T = {}
        BY <1>2, <4>1 DEF Founded
      <4>3. below[i] = 1 .. i - 1
        BY <4>1
      <4> QED
        BY <4>2, <4>3
    <3>2. i \in C /\ flat[i] \notin Seq(S)
      BY <3>1
    <3>3. i # 1 => i - 1 \in C /\ i - 1 \in 1 .. i - 1
      BY <1>1, <3>2
    <3>4. i # 1 => flat[i - 1] \in Seq(S)
      BY <3>1, <3>3
    <3>5. flat[i] = IF i = 1 THEN s[i] ELSE flat[i - 1] \o s[i]
      BY <2>1, <3>2
    <3>6. s[i] \in Seq(S)
      BY <1>1, <3>2
    <3> QED
      BY <3>2, <3>4, <3>5, <3>6
  <2>3. flat = [i \in C |-> flat[i]]
    BY <1>6 DEF FlatBody
  <2> QED
    BY <2>2, <2>3
<1> QED
  BY <1>6, <1>7, <1>8

LEMMA FlattenSeqIs ==
    ASSUME NEW S, NEW s \in Seq(Seq(S))
    PROVE  /\ FlattenSeq(s) \in Seq(S)
           /\ ToSet(FlattenSeq(s)) = UNION {ToSet(s[i]) : i \in DOMAIN s}
<1>1. CASE s = <<>>
  BY <1>1 DEF FlattenSeq, ToSet
<1>2. CASE s # <<>>
  <2>1. PICK flat \in [1 .. Len(s) -> Seq(S)] :
            FlattenSeq(s) = flat[Len(s)] /\ flat = FlatBody(s, flat)
    BY <1>2, FlatIs
  <2>2. Len(s) \in Nat \ {0} /\ DOMAIN s = 1 .. Len(s) /\ \A i \in 1 .. Len(s) : s[i] \in Seq(S)
    BY <1>2
  <2>3. \A i \in 1 .. Len(s) : flat[i] = IF i = 1 THEN s[i] ELSE flat[i - 1] \o s[i]
    BY <2>1 DEF FlatBody
  <2> DEFINE Parts(i) == UNION {ToSet(s[j]) : j \in 1 .. i}
             T == {i \in 1 .. Len(s) : ToSet(flat[i]) # Parts(i)}
  <2>4. ASSUME NEW a \in Seq(S), NEW b \in Seq(S)
        PROVE  ToSet(a \o b) = ToSet(a) \cup ToSet(b)
    BY JoinedIs
  <2>5. T = {}
    <3> SUFFICES ASSUME T # {} PROVE FALSE
      OBVIOUS
    <3>1. PICK i \in T : \A j \in T : i <= j
      <4>1. T \in SUBSET Nat
        BY <2>2
      <4> HIDE DEF T
      <4> QED
        BY <4>1, MinIsLeast
    <3>2. CASE i = 1
      BY <2>2, <2>3, <3>2
    <3>3. CASE i # 1
      <4>1. i - 1 \in 1 .. Len(s) /\ 1 .. i = (1 .. i - 1) \cup {i}
        <5>1. i \in Nat /\ i > 1 /\ i <= Len(s) /\ Len(s) \in Nat
          BY <2>2, <3>1, <3>3
        <5> HIDE DEF T
        <5>2. i - 1 \in 1 .. Len(s)
          BY <5>1
        <5>3. 1 .. i = (1 .. i - 1) \cup {i}
          BY <5>1
        <5> QED
          BY <5>2, <5>3
      <4>4. i - 1 \notin T
        <5>1. ~(i <= i - 1)
          BY <3>1, <2>2
        <5> HIDE DEF T
        <5> QED
          BY <3>1, <5>1
      <4>2. ToSet(flat[i]) = ToSet(flat[i - 1]) \cup ToSet(s[i])
        BY <2>2, <2>3, <2>4, <3>3, <4>1
      <4>3. Parts(i) = Parts(i - 1) \cup ToSet(s[i])
        BY <4>1
      <4> QED
        BY <3>1, <4>1, <4>2, <4>3, <4>4
    <3> QED
      BY <3>2, <3>3
  <2>6. ToSet(flat[Len(s)]) = Parts(Len(s)) /\ flat[Len(s)] \in Seq(S)
    <3>1. Len(s) \in 1 .. Len(s)
      BY <2>2
    <3>2. Len(s) \notin T
      <4> HIDE DEF T
      <4> QED
        BY <2>5
    <3> QED
      BY <2>1, <3>1, <3>2
  <2> QED
    BY <2>1, <2>2, <2>6
<1> QED
  BY <1>1, <1>2

(* Parts of one element at most, and how many there are in all.            *)
LEMMA FlatIsShort ==
    ASSUME NEW S, NEW s \in Seq(Seq(S)), \A i \in DOMAIN s : Len(s[i]) <= 1
    PROVE  /\ Len(FlattenSeq(s)) \in Nat /\ Len(FlattenSeq(s)) <= Len(s)
           /\ (\E i \in DOMAIN s : s[i] = <<>>) => Len(FlattenSeq(s)) < Len(s)
<1>1. CASE s = <<>>
  BY <1>1 DEF FlattenSeq
<1>2. CASE s # <<>>
  <2>1. PICK flat \in [1 .. Len(s) -> Seq(S)] :
            FlattenSeq(s) = flat[Len(s)] /\ flat = FlatBody(s, flat)
    BY <1>2, FlatIs
  <2>2. Len(s) \in Nat \ {0} /\ DOMAIN s = 1 .. Len(s) /\ \A i \in 1 .. Len(s) : s[i] \in Seq(S)
    BY <1>2
  <2>3. \A i \in 1 .. Len(s) : flat[i] = IF i = 1 THEN s[i] ELSE flat[i - 1] \o s[i]
    BY <2>1 DEF FlatBody
  <2> DEFINE Short(i) == /\ Len(flat[i]) <= i
                         /\ (\E j \in 1 .. i : s[j] = <<>>) => Len(flat[i]) < i
             T == {i \in 1 .. Len(s) : ~Short(i)}
  <2>4. ASSUME NEW i \in 1 .. Len(s)
        PROVE  Len(flat[i]) \in Nat /\ Len(s[i]) \in {0, 1} /\ (s[i] = <<>> => Len(s[i]) = 0)
    <3>1. s[i] \in Seq(S) /\ flat[i] \in Seq(S) /\ Len(s[i]) <= 1
      BY <2>1, <2>2
    <3>2. Len(s[i]) \in Nat /\ Len(flat[i]) \in Nat
      BY <3>1
    <3>3. s[i] = <<>> => Len(s[i]) = 0
      OBVIOUS
    <3> DEFINE k == Len(s[i])
    <3>4. k \in Nat /\ k <= 1
      BY <3>1, <3>2
    <3> HIDE DEF k
    <3>5. k \in {0, 1}
      BY <3>4
    <3> QED
      BY <3>2, <3>3, <3>5 DEF k
  <2>5. T = {}
    <3> SUFFICES ASSUME T # {} PROVE FALSE
      OBVIOUS
    <3>1. PICK i \in T : \A j \in T : i <= j
      <4>1. T \in SUBSET Nat
        BY <2>2
      <4> HIDE DEF T
      <4> QED
        BY <4>1, MinIsLeast
    <3>2. CASE i = 1
      <4>1. flat[1] = s[1] /\ 1 \in 1 .. Len(s)
        BY <2>2, <2>3
      <4>2. Short(1)
        BY <2>4, <4>1
      <4> QED
        BY <3>1, <3>2, <4>2
    <3>3. CASE i # 1
      <4>1. i - 1 \in 1 .. Len(s) /\ i \in 1 .. Len(s) /\ 1 .. i = (1 .. i - 1) \cup {i} /\ i \in Nat
        <5>1. i \in Nat /\ i > 1 /\ i <= Len(s) /\ Len(s) \in Nat
          BY <2>2, <3>1, <3>3
        <5> HIDE DEF T
        <5> QED
          BY <5>1
      <4>2. i - 1 \notin T
        <5>1. ~(i <= i - 1)
          BY <4>1
        <5> HIDE DEF T
        <5> QED
          BY <3>1, <5>1
      <4>3. Short(i - 1)
        BY <4>1, <4>2
      <4>4. Len(flat[i]) = Len(flat[i - 1]) + Len(s[i])
        <5>1. flat[i] = flat[i - 1] \o s[i]
          BY <2>3, <3>3, <4>1
        <5>2. flat[i - 1] \in Seq(S) /\ s[i] \in Seq(S)
          BY <2>1, <2>2, <4>1
        <5> QED
          BY <5>1, <5>2
      <4>5. Len(flat[i - 1]) \in Nat /\ Len(s[i]) \in {0, 1} /\ (s[i] = <<>> => Len(s[i]) = 0)
        BY <2>4, <4>1
      <4> DEFINE before == Len(flat[i - 1])
                 here == Len(s[i])
                 now == Len(flat[i])
      <4>6. before <= i - 1 /\ ((\E j \in 1 .. i - 1 : s[j] = <<>>) => before < i - 1)
        BY <4>3
      <4>7. now <= i /\ ((\E j \in 1 .. i : s[j] = <<>>) => now < i)
        <5>1. now = before + here /\ before \in Nat /\ here \in {0, 1} /\ (s[i] = <<>> => here = 0)
          BY <4>4, <4>5
        <5> HIDE DEF now, before, here
        <5>2. now <= i
          BY <4>1, <4>6, <5>1
        <5>3. ASSUME NEW j \in 1 .. i, s[j] = <<>> PROVE now < i
          <6>1. j = i => here = 0
            BY <5>1, <5>3
          <6>2. j # i => before < i - 1
            BY <4>1, <4>6, <5>3
          <6> QED
            BY <4>1, <4>6, <5>1, <6>1, <6>2
        <5> QED
          BY <5>2, <5>3
      <4> QED
        BY <3>1, <4>7
    <3> QED
      BY <3>2, <3>3
  <2>6. Short(Len(s)) /\ Len(s) \in 1 .. Len(s)
    <3>1. Len(s) \in 1 .. Len(s)
      BY <2>2
    <3> QED
      BY <2>5, <3>1
  <2> QED
    BY <2>1, <2>2, <2>4, <2>6
<1> QED
  BY <1>1, <1>2

(* A whole of one part or of two.                                          *)
LEMMA FlatTwo ==
    ASSUME NEW S, NEW s \in Seq(Seq(S))
    PROVE  /\ Len(s) = 1 => FlattenSeq(s) = s[1]
           /\ Len(s) = 2 => FlattenSeq(s) = s[1] \o s[2]
<1>1. CASE Len(s) \in {1, 2}
  <2>1. PICK flat \in [1 .. Len(s) -> Seq(S)] :
            FlattenSeq(s) = flat[Len(s)] /\ flat = FlatBody(s, flat)
    <3>1. s # <<>>
      <4> SUFFICES ASSUME s = <<>> PROVE FALSE
        OBVIOUS
      <4>1. Len(s) = 0
        OBVIOUS
      <4> QED
        BY <1>1, <4>1
    <3> QED
      BY <3>1, FlatIs
  <2>2. \A i \in 1 .. Len(s) : flat[i] = IF i = 1 THEN s[i] ELSE flat[i - 1] \o s[i]
    BY <2>1 DEF FlatBody
  <2>3. flat[1] = s[1]
    <3>1. 1 \in 1 .. Len(s)
      BY <1>1
    <3> QED
      BY <2>2, <3>1
  <2>4. ASSUME Len(s) = 2 PROVE flat[2] = s[1] \o s[2]
    <3>1. flat[2] = flat[2 - 1] \o s[2] /\ 2 - 1 = 1
      BY <2>2, <2>4
    <3> QED
      BY <2>3, <3>1
  <2> QED
    BY <1>1, <2>1, <2>3, <2>4
<1> QED
  BY <1>1

-----------------------------------------------------------------------------
(* Folding.  A left fold goes over the sets of the places of a sequence,   *)
(* the last place of each last; op[i][a] is what place i makes of a.       *)
LEMMA MaxIsGreatest ==
    ASSUME NEW n \in Nat, NEW I \in SUBSET (1 .. n), I # {}
    PROVE  Max(I) \in I /\ \A k \in I : k <= Max(I)
<1> DEFINE J == {n - k : k \in I}
<1>1. J \in SUBSET Nat /\ J # {}
  <2>1. \A k \in I : n - k \in Nat
    OBVIOUS
  <2>2. PICK k \in I : TRUE
    OBVIOUS
  <2>3. n - k \in J
    BY <2>2
  <2>4. J \in SUBSET Nat
    BY <2>1
  <2> QED
    BY <2>3, <2>4
<1> HIDE DEF J
<1>2. PICK j \in J : \A k \in J : j <= k
  BY <1>1, MinIsLeast
<1>3. PICK x \in I : j = n - x
  BY DEF J
<1>4. \A k \in I : k <= x
  <2> TAKE k \in I
  <2>1. n - k \in J
    BY DEF J
  <2>2. n - x <= n - k /\ x \in Nat /\ k \in Nat
    BY <1>2, <1>3, <2>1
  <2> QED
    BY <2>2
<1> QED
  BY <1>3, <1>4 DEF Max

Shorter(n) == [P \in SUBSET (1 .. n) |-> IF P = {} THEN {} ELSE {P \ {Max(P)}}]

LEMMA ShorterFounded ==
    ASSUME NEW n \in Nat
    PROVE  /\ Shorter(n) \in [SUBSET (1 .. n) -> SUBSET SUBSET (1 .. n)]
           /\ Founded(SUBSET (1 .. n), Shorter(n))
<1>1. ASSUME NEW T \in SUBSET SUBSET (1 .. n), T # {}
      PROVE  \E P \in T : Shorter(n)[P] \cap T = {}
  <2> DEFINE I == {Cardinality(P) : P \in T}
  <2>1. \A P \in SUBSET (1 .. n) : IsFiniteSet(P) /\ Cardinality(P) \in Nat
    <3>1. IsFiniteSet(1 .. n)
      BY FS_Interval
    <3> QED
      BY <3>1, FS_Subset, FS_CardinalityType
  <2>2. PICK c \in I : \A k \in I : c <= k
    <3>1. I \in SUBSET Nat /\ I # {}
      BY <1>1, <2>1
    <3> HIDE DEF I
    <3> QED
      BY <3>1, MinIsLeast
  <2>3. PICK P \in T : c = Cardinality(P)
    OBVIOUS
  <2>4. ASSUME P # {}, P \ {Max(P)} \in T PROVE FALSE
    <3>1. Max(P) \in P
      BY <2>4, MaxIsGreatest
    <3>2. Cardinality(P \ {Max(P)}) = Cardinality(P) - 1
      BY <2>1, <3>1, FS_RemoveElement
    <3>3. c <= Cardinality(P \ {Max(P)})
      BY <2>2, <2>4
    <3> QED
      BY <2>1, <2>3, <3>2, <3>3
  <2> QED
    BY <2>3, <2>4 DEF Shorter
<1> QED
  BY <1>1 DEF Founded, Shorter

Folds(n, base, op, fold) ==
    fold = [P \in SUBSET (1 .. n) |-> IF P = {} THEN base ELSE op[Max(P)][fold[P \ {Max(P)}]]]

Stays(n, A, op) == \A i \in 1 .. n : \A a \in A : op[i][a] \in A

LEMMA FoldExists ==
    ASSUME NEW n \in Nat, NEW A, NEW base \in A, NEW op, Stays(n, A, op)
    PROVE  \E fold \in [SUBSET (1 .. n) -> A] : Folds(n, base, op, fold)
<1> DEFINE C == SUBSET (1 .. n)
           below == Shorter(n)
           step == [P \in C |-> [h \in [below[P] -> A] |->
                       IF P = {} THEN base ELSE op[Max(P)][h[P \ {Max(P)}]]]]
<1>1. \A P \in C : P # {} => Max(P) \in 1 .. n /\ below[P] = {P \ {Max(P)}}
  BY MaxIsGreatest DEF Shorter
<1> HIDE DEF below
<1>2. Passes(C, below, A, step)
  <2> SUFFICES ASSUME NEW P \in C, NEW h \in [below[P] -> A] PROVE step[P][h] \in A
    BY DEF Passes
  <2>1. P # {} => h[P \ {Max(P)}] \in A
    BY <1>1
  <2>2. step[P][h] = IF P = {} THEN base ELSE op[Max(P)][h[P \ {Max(P)}]]
    OBVIOUS
  <2> HIDE DEF step
  <2> QED
    BY <1>1, <2>1, <2>2 DEF Stays
<1>3. PICK f \in [C -> A] : Follows(C, below, step, f)
  <2>1. below \in [C -> SUBSET C] /\ Founded(C, below)
    BY ShorterFounded DEF below
  <2> HIDE DEF C, step
  <2> QED
    BY <1>2, <2>1, Recursion
<1>4. ASSUME NEW P \in C PROVE f[P] = IF P = {} THEN base ELSE op[Max(P)][f[P \ {Max(P)}]]
  <2> DEFINE h == [b \in below[P] |-> f[b]]
  <2>1. below[P] \subseteq C
    BY ShorterFounded DEF below
  <2>2. h \in [below[P] -> A] /\ f[P] = step[P][h]
    BY <1>3, <2>1 DEF Follows
  <2>3. step[P][h] = IF P = {} THEN base ELSE op[Max(P)][h[P \ {Max(P)}]]
    BY <2>2
  <2>4. P # {} => h[P \ {Max(P)}] = f[P \ {Max(P)}]
    BY <1>1
  <2> HIDE DEF h, step
  <2> QED
    BY <2>2, <2>3, <2>4
<1> QED
  BY <1>3, <1>4 DEF Folds

(* A fold in progress: f gives, of each first part of the places, what the *)
(* steps up to its last make of base.                                      *)
Carries(n, A, op, f) ==
    \A P \in SUBSET (1 .. n) :
        P # {} /\ f[P \ {Max(P)}] \in A => f[P] = op[Max(P)][f[P \ {Max(P)}]]

LEMMA FoldFollows ==
    ASSUME NEW n \in Nat, NEW A, NEW base \in A, NEW op, Stays(n, A, op),
           NEW f, f[{}] = base, Carries(n, A, op, f)
    PROVE  /\ \A i \in 0 .. n : f[1 .. i] \in A
           /\ \A i \in 1 .. n : f[1 .. i] = op[i][f[1 .. i - 1]]
<1>1. ASSUME NEW i \in 1 .. n, f[1 .. i - 1] \in A
      PROVE  f[1 .. i] = op[i][f[1 .. i - 1]] /\ f[1 .. i] \in A
  <2>1. 1 .. i \in SUBSET (1 .. n) /\ 1 .. i # {} /\ 1 .. i \in SUBSET Nat
    OBVIOUS
  <2>2. Max(1 .. i) = i
    <3> DEFINE I == 1 .. i
    <3>1. I \in SUBSET (1 .. n) /\ I # {}
      BY <2>1
    <3>2. i \in I
      OBVIOUS
    <3>3. \A m \in I : m \in Nat /\ m <= i
      OBVIOUS
    <3> HIDE DEF I
    <3>4. Max(I) \in I /\ i <= Max(I)
      BY <3>1, <3>2, MaxIsGreatest
    <3>5. Max(I) = i
      BY <3>3, <3>4
    <3> QED
      BY <3>5 DEF I
  <2>3. (1 .. i) \ {i} = 1 .. i - 1
    OBVIOUS
  <2>4. f[1 .. i] = op[i][f[1 .. i - 1]]
    BY <1>1, <2>1, <2>2, <2>3 DEF Carries
  <2> QED
    BY <1>1, <2>4 DEF Stays
<1>2. ASSUME NEW i \in 0 .. n, f[1 .. i] \notin A PROVE FALSE
  <2> DEFINE W == {j \in 0 .. n : f[1 .. j] \notin A}
  <2>1. W \in SUBSET Nat /\ W # {}
    BY <1>2
  <2>2. PICK j \in W : \A k \in W : j <= k
    <3> HIDE DEF W
    <3> QED
      BY <2>1, MinIsLeast
  <2>3. j # 0
    <3>1. 1 .. 0 = {}
      OBVIOUS
    <3> QED
      BY <2>2, <3>1
  <2>4. j \in 1 .. n /\ j - 1 \in 0 .. n /\ j - 1 \notin W
    BY <2>2, <2>3
  <2>5. f[1 .. j - 1] \in A
    BY <2>4
  <2> QED
    BY <1>1, <2>2, <2>4, <2>5
<1>3. \A i \in 0 .. n : f[1 .. i] \in A
  BY <1>2
<1> QED
  <2>1. ASSUME NEW i \in 1 .. n PROVE f[1 .. i] = op[i][f[1 .. i - 1]]
    <3>1. i - 1 \in 0 .. n
      OBVIOUS
    <3> QED
      BY <1>1, <1>3, <3>1
  <2> QED
    BY <1>3, <2>1

(* Whatever function the definition of a fold chooses, it goes from left   *)
(* to right, one place at a time.                                          *)
LEMMA FoldIs ==
    ASSUME NEW n \in Nat, NEW base, NEW op, NEW fold, Folds(n, base, op, fold)
    PROVE  /\ fold[{}] = base
           /\ \A i \in 1 .. n : fold[1 .. i] = op[i][fold[1 .. i - 1]]
<1>1. fold[{}] = base
  BY DEF Folds
<1>2. ASSUME NEW i \in 1 .. n PROVE fold[1 .. i] = op[i][fold[1 .. i - 1]]
  <2>1. 1 .. i \in SUBSET (1 .. n) /\ 1 .. i # {}
    OBVIOUS
  <2>2. Max(1 .. i) = i
    <3> DEFINE I == 1 .. i
    <3>1. I \in SUBSET (1 .. n) /\ I # {}
      BY <2>1
    <3>2. i \in I
      OBVIOUS
    <3>3. \A m \in I : m \in Nat /\ m <= i
      OBVIOUS
    <3> HIDE DEF I
    <3>4. Max(I) \in I /\ i <= Max(I)
      BY <3>1, <3>2, MaxIsGreatest
    <3>5. Max(I) = i
      BY <3>3, <3>4
    <3> QED
      BY <3>5 DEF I
  <2>3. (1 .. i) \ {i} = 1 .. i - 1
    OBVIOUS
  <2> QED
    BY <2>1, <2>2, <2>3 DEF Folds
<1> QED
  BY <1>1, <1>2

-----------------------------------------------------------------------------
(* A recursion on ever larger parts of a finite set ends.                  *)
LEMMA GrowingFounded ==
    ASSUME NEW U, IsFiniteSet(U), NEW below \in [SUBSET U -> SUBSET SUBSET U],
           \A P \in SUBSET U : \A Q \in below[P] : P \subseteq Q /\ P # Q
    PROVE  Founded(SUBSET U, below)
<1> SUFFICES ASSUME NEW W \in SUBSET SUBSET U, W # {}
             PROVE  \E P \in W : below[P] \cap W = {}
  BY DEF Founded
<1> DEFINE I == {Cardinality(U \ P) : P \in W}
<1>1. \A P \in SUBSET U : IsFiniteSet(U \ P) /\ Cardinality(U \ P) \in Nat
  BY FS_Subset, FS_CardinalityType
<1>2. PICK c \in I : \A k \in I : c <= k
  <2>1. I \in SUBSET Nat
    <3> SUFFICES ASSUME NEW k \in I PROVE k \in Nat
      OBVIOUS
    <3>1. PICK P \in W : k = Cardinality(U \ P)
      OBVIOUS
    <3> QED
      BY <1>1, <3>1
  <2>2. I # {}
    <3>1. PICK P : P \in W
      OBVIOUS
    <3>2. Cardinality(U \ P) \in I
      BY <3>1
    <3> QED
      BY <3>2
  <2> HIDE DEF I
  <2> QED
    BY <2>1, <2>2, MinIsLeast
<1>3. PICK P \in W : c = Cardinality(U \ P)
  OBVIOUS
<1>4. ASSUME NEW Q \in below[P] \cap W PROVE FALSE
  <2>1. P \in SUBSET U /\ Q \in SUBSET U /\ P \subseteq Q /\ P # Q
    BY <1>4
  <2>2. U \ Q \subseteq U \ P /\ U \ Q # U \ P
    BY <2>1
  <2>3. Cardinality(U \ Q) < Cardinality(U \ P)
    <3> DEFINE A == U \ P
               B == U \ Q
    <3>1. /\ IsFiniteSet(A) /\ Cardinality(A) \in Nat /\ Cardinality(B) \in Nat
          /\ B \in SUBSET A /\ A # B
      BY <1>1, <2>1, <2>2
    <3> HIDE DEF A, B
    <3>2. Cardinality(B) <= Cardinality(A) /\ Cardinality(A) # Cardinality(B)
      BY <3>1, FS_Subset
    <3>3. Cardinality(B) < Cardinality(A)
      BY <3>1, <3>2
    <3> QED
      BY <3>3 DEF A, B
  <2>4. c <= Cardinality(U \ Q)
    <3>1. Cardinality(U \ Q) \in I
      BY <1>4
    <3> HIDE DEF I
    <3> QED
      BY <1>2, <3>1
  <2> QED
    BY <1>1, <1>3, <2>1, <2>3, <2>4
<1> QED
  BY <1>3, <1>4

LEMMA FiniteImage ==
    ASSUME NEW S, IsFiniteSet(S), NEW f, f = [x \in S |-> f[x]]
    PROVE  IsFiniteSet({f[x] : x \in S})
<1> DEFINE R == {f[x] : x \in S}
<1>1. f \in Surjection(S, R)
  BY DEF Surjection
<1> QED
  BY <1>1, FS_Surjection

-----------------------------------------------------------------------------
(* Sequences without repeats, as told by a key.                            *)
Apart(key, s) == \A a, b \in DOMAIN s : key[s[a]] = key[s[b]] => a = b

LEMMA JoinApart ==
    ASSUME NEW S, NEW key, NEW a \in Seq(S), NEW b \in Seq(S),
           Apart(key, a), Apart(key, b),
           \A x \in ToSet(a), y \in ToSet(b) : key[x] # key[y]
    PROVE  Apart(key, a \o b)
<1> DEFINE ab == a \o b
           m == Len(a)
           n == Len(b)
<1>1. /\ m \in Nat /\ n \in Nat /\ DOMAIN a = 1 .. m /\ DOMAIN b = 1 .. n
      /\ DOMAIN ab = 1 .. m + n
      /\ \A i \in 1 .. m : ab[i] = a[i]
      /\ \A i \in 1 .. m + n : i > m => i - m \in 1 .. n /\ ab[i] = b[i - m]
  OBVIOUS
<1>2. \A i \in 1 .. m : \A j \in 1 .. n : key[a[i]] # key[b[j]]
  BY <1>1 DEF ToSet
<1> HIDE DEF ab, m, n
<1>3. ASSUME NEW i \in 1 .. m + n, NEW j \in 1 .. m + n, key[ab[i]] = key[ab[j]] PROVE i = j
  <2>1. CASE i <= m /\ j <= m
    <3>1. i \in 1 .. m /\ j \in 1 .. m
      BY <1>1, <2>1
    <3> QED
      BY <1>1, <1>3, <3>1 DEF Apart
  <2>2. CASE i > m /\ j > m
    <3>1. i - m \in 1 .. n /\ j - m \in 1 .. n /\ ab[i] = b[i - m] /\ ab[j] = b[j - m]
      BY <1>1, <2>2
    <3> DEFINE u == i - m
               v == j - m
    <3>2. u \in DOMAIN b /\ v \in DOMAIN b /\ key[b[u]] = key[b[v]]
      BY <1>1, <1>3, <3>1
    <3> HIDE DEF u, v
    <3>3. u = v
      BY <3>2 DEF Apart
    <3> QED
      BY <1>1, <3>3 DEF u, v
  <2>3. ASSUME NEW u \in 1 .. m + n, NEW v \in 1 .. m + n, u <= m, v > m PROVE key[ab[u]] # key[ab[v]]
    <3>1. u \in 1 .. m /\ v - m \in 1 .. n /\ ab[u] = a[u] /\ ab[v] = b[v - m]
      BY <1>1, <2>3
    <3> QED
      BY <1>2, <3>1
  <2> QED
    BY <1>1, <1>3, <2>1, <2>2, <2>3
<1> QED
  BY <1>1, <1>3 DEF Apart, ab

(* The whole has no repeats if no part has and no two parts share one.     *)
LEMMA FlatApart ==
    ASSUME NEW S, NEW key, NEW s \in Seq(Seq(S)),
           \A i \in DOMAIN s : Apart(key, s[i]),
           \A i, j \in DOMAIN s : \A x \in ToSet(s[i]), y \in ToSet(s[j]) : key[x] = key[y] => i = j
    PROVE  Apart(key, FlattenSeq(s))
<1>1. CASE s = <<>>
  BY <1>1 DEF FlattenSeq, Apart
<1>2. CASE s # <<>>
  <2>1. PICK flat \in [1 .. Len(s) -> Seq(S)] :
            FlattenSeq(s) = flat[Len(s)] /\ flat = FlatBody(s, flat)
    BY <1>2, FlatIs
  <2> DEFINE n == Len(s)
  <2>2. n \in Nat \ {0} /\ DOMAIN s = 1 .. n /\ \A i \in 1 .. n : s[i] \in Seq(S)
    BY <1>2
  <2>3. \A i \in 1 .. n : flat[i] = IF i = 1 THEN s[i] ELSE flat[i - 1] \o s[i]
    BY <2>1 DEF FlatBody
  <2> HIDE DEF n
  <2> DEFINE Good(i) == /\ Apart(key, flat[i])
                        /\ ToSet(flat[i]) = UNION {ToSet(s[j]) : j \in 1 .. i}
             T == {i \in 1 .. n : ~Good(i)}
  <2>4. Good(1)
    <3>1. flat[1] = s[1] /\ 1 \in DOMAIN s /\ 1 .. 1 = {1}
      BY <2>2, <2>3
    <3> QED
      BY <3>1
  <2>5. ASSUME NEW i \in 1 .. n, i # 1, Good(i - 1) PROVE Good(i)
    <3> DEFINE a == flat[i - 1]
    <3>1. i - 1 \in 1 .. n /\ i \in Nat /\ 1 .. i = (1 .. i - 1) \cup {i} /\ i \notin 1 .. i - 1
          /\ 1 .. i - 1 \subseteq 1 .. n
      BY <2>2, <2>5
    <3>2. a \in Seq(S) /\ s[i] \in Seq(S) /\ flat[i] = a \o s[i]
      BY <2>1, <2>2, <2>3, <2>5, <3>1 DEF n
    <3>3. Apart(key, a) /\ ToSet(a) = UNION {ToSet(s[j]) : j \in 1 .. i - 1}
      BY <2>5
    <3> HIDE DEF a
    <3>4. \A x \in ToSet(a), y \in ToSet(s[i]) : key[x] # key[y]
      <4> SUFFICES ASSUME NEW x \in ToSet(a), NEW y \in ToSet(s[i]), key[x] = key[y] PROVE FALSE
        OBVIOUS
      <4>1. PICK j \in 1 .. i - 1 : x \in ToSet(s[j])
        BY <3>3
      <4>2. j \in DOMAIN s /\ i \in DOMAIN s /\ j # i
        BY <2>2, <3>1, <4>1
      <4> QED
        BY <4>1, <4>2
    <3>5. Apart(key, s[i])
      BY <2>2
    <3>6. Apart(key, a \o s[i])
      <4> DEFINE b == s[i]
      <4>1. b \in Seq(S) /\ Apart(key, b) /\ \A x \in ToSet(a), y \in ToSet(b) : key[x] # key[y]
        BY <3>2, <3>4, <3>5
      <4> HIDE DEF b
      <4>2. Apart(key, a \o b)
        BY <3>2, <3>3, <4>1, JoinApart
      <4> QED
        BY <4>2 DEF b
    <3>7. ToSet(flat[i]) = ToSet(a) \cup ToSet(s[i])
      BY <3>2, JoinedIs
    <3>8. UNION {ToSet(s[j]) : j \in 1 .. i} = ToSet(a) \cup ToSet(s[i])
      BY <3>1, <3>3
    <3> QED
      BY <3>2, <3>6, <3>7, <3>8
  <2> HIDE DEF Good
  <2>6. Good(n)
    <3>0. n \in 1 .. n
      BY <2>2
    <3> SUFFICES ASSUME T # {} PROVE FALSE
      BY <3>0
    <3>1. T \in SUBSET Nat
      BY <2>2
    <3> DEFINE i == Min(T)
    <3>2. i \in T /\ \A j \in T : i <= j
      BY <3>1, MinIsLeast
    <3> HIDE DEF i
    <3>3. i \in 1 .. n /\ i # 1
      BY <2>4, <3>2
    <3>4. i - 1 \in 1 .. n /\ i - 1 \notin T
      BY <2>2, <3>1, <3>2, <3>3
    <3> QED
      BY <2>5, <3>2, <3>3, <3>4
  <2> QED
    BY <2>1, <2>6 DEF Good, n
<1> QED
  BY <1>1, <1>2

(* Of finitely many numbers one is the greatest.                           *)
LEMMA HighestFirst ==
    ASSUME NEW n \in Nat, NEW rank, \A k \in 1 .. n : rank[k] \in Nat,
           NEW D \in SUBSET (1 .. n), D # {}
    PROVE  \E x \in D : \A y \in D : rank[y] <= rank[x]
<1> DEFINE Bounded(m) == \E N \in Nat : \A k \in 1 .. m : rank[k] <= N
           T == {m \in 0 .. n : ~Bounded(m)}
<1>1. Bounded(0)
  BY 0 \in Nat
<1>2. ASSUME NEW m \in 1 .. n, Bounded(m - 1) PROVE Bounded(m)
  <2>1. PICK N \in Nat : \A k \in 1 .. m - 1 : rank[k] <= N
    BY <1>2
  <2>2. N + rank[m] \in Nat
    OBVIOUS
  <2>3. \A k \in 1 .. m : rank[k] <= N + rank[m]
    <3> TAKE k \in 1 .. m
    <3>1. rank[k] \in Nat /\ rank[m] \in Nat /\ k \in 1 .. n
      OBVIOUS
    <3>2. k # m => k \in 1 .. m - 1
      OBVIOUS
    <3> QED
      BY <2>1, <3>1, <3>2
  <2> QED
    BY <2>2, <2>3
<1> HIDE DEF Bounded
<1>3. Bounded(n)
  <2> SUFFICES ASSUME T # {} PROVE FALSE
    OBVIOUS
  <2>1. T \in SUBSET Nat
    OBVIOUS
  <2> DEFINE i == Min(T)
  <2>2. i \in T /\ \A j \in T : i <= j
    BY <2>1, MinIsLeast
  <2> HIDE DEF i
  <2>3. i \in 1 .. n
    BY <1>1, <2>2
  <2>4. i - 1 \in 0 .. n /\ i - 1 \notin T
    BY <2>1, <2>2, <2>3
  <2> QED
    BY <1>2, <2>2, <2>3, <2>4
<1>4. PICK N \in Nat : \A k \in 1 .. n : rank[k] <= N
  BY <1>3 DEF Bounded
<1> DEFINE I == {N - rank[k] : k \in D}
<1>5. \A k \in D : N - rank[k] \in Nat /\ rank[k] \in Nat
  BY <1>4
<1>6. I \in SUBSET Nat /\ I # {}
  BY <1>5
<1>7. PICK i \in I : \A j \in I : i <= j
  <2> HIDE DEF I
  <2> QED
    BY <1>6, MinIsLeast
<1>8. PICK x \in D : i = N - rank[x]
  BY <1>7
<1>9. ASSUME NEW y \in D PROVE rank[y] <= rank[x]
  <2>1. N - rank[x] <= N - rank[y]
    BY <1>7, <1>8
  <2> QED
    BY <1>5, <2>1
<1> QED
  BY <1>9

-----------------------------------------------------------------------------
LEMMA LowerFounded ==
    ASSUME NEW n \in Nat, NEW below \in [0 .. n -> SUBSET (0 .. n)],
           \A i \in 0 .. n : \A j \in below[i] : j < i
    PROVE  Founded(0 .. n, below)
<1> SUFFICES ASSUME NEW T \in SUBSET (0 .. n), T # {} PROVE \E c \in T : below[c] \cap T = {}
  BY DEF Founded
<1>1. T \in SUBSET Nat
  OBVIOUS
<1>2. Min(T) \in T /\ \A j \in T : Min(T) <= j
  BY <1>1, MinIsLeast
<1> DEFINE c == Min(T)
<1>3. c \in T /\ c \in 0 .. n /\ \A j \in T : c <= j
  BY <1>2
<1> HIDE DEF c
<1>4. \A j \in below[c] : j \in Nat /\ j < c /\ c \in Nat
  BY <1>3
<1>5. \A j \in below[c] : j \notin T
  BY <1>3, <1>4
<1> QED
  BY <1>3, <1>5

LEMMA SingleIs ==
    ASSUME NEW S, NEW x \in S
    PROVE  <<x>> \in Seq(S) /\ Len(<<x>>) = 1 /\ DOMAIN <<x>> = {1} /\ <<x>>[1] = x
OBVIOUS

LEMMA OneMore ==
    ASSUME NEW S, NEW q \in Seq(S), NEW x \in S
    PROVE  q \o <<x>> \in Seq(S) /\ Len(q \o <<x>>) = Len(q) + 1 /\ (q \o <<x>>)[Len(q) + 1] = x
<1>1. <<x>> \in Seq(S) /\ Len(<<x>>) = 1
  OBVIOUS
<1> QED
  BY <1>1

LEMMA Wider ==
    ASSUME NEW S, NEW T, S \subseteq T, NEW s \in Seq(S)
    PROVE  s \in Seq(T)
OBVIOUS

LEMMA ReverseIs ==
    ASSUME NEW S, NEW s \in Seq(S)
    PROVE  Reverse(s) \in Seq(S)
<1>1. Len(s) \in Nat /\ \A k \in 1 .. Len(s) : (Len(s) - k) + 1 \in 1 .. Len(s)
  OBVIOUS
<1>2. \A k \in 1 .. Len(s) : s[(Len(s) - k) + 1] \in S
  BY <1>1
<1> QED
  BY <1>1, <1>2 DEF Reverse
=============================================================================
