--------------------------- MODULE AnsweringProofs ---------------------------
(***************************************************************************)
(* Answering for every number of requests, owners and providers, and texts  *)
(* of any length: types, the streamed answer against the whole text         *)
(* rewritten, the provider of an answer, and private conversations.         *)
(*                                                                          *)
(* What is recursive in a text (FlattenSeq, and so Rewrite) is proved about *)
(* by taking a shortest text that would fail: WFMin instead of induction.   *)
(***************************************************************************)
EXTENDS Answering, FiniteSetTheorems, SequenceTheorems, WellFoundedInduction, TLAPS

-----------------------------------------------------------------------------
(* Facts about numbers and sequences.                                      *)

Less == {ss \in Nat \X Nat : ss[1] < ss[2]}

LEMMA LessWellFounded == IsWellFoundedOn(Less, Nat)
BY NatLessThanWellFounded DEF OpToRel, Less

\* A set of natural numbers has a least element, so what fails for some
\* number fails first for one.
LEMMA LeastNat ==
    ASSUME NEW T \in SUBSET Nat, T # {}
    PROVE  \E m \in T : \A k \in T : m <= k
<1>1. PICK m \in T : \A k \in T : ~(<<k, m>> \in Less)
  BY LessWellFounded, WFMin
<1>2. ASSUME NEW k \in T PROVE m <= k
  <2>1. k < m => <<k, m>> \in Less
    BY DEF Less
  <2>. QED
    BY <1>1, <2>1
<1>. QED
  BY <1>2

LEMMA GreatestNat ==
    ASSUME NEW n \in Nat, NEW T \in SUBSET (0..n), T # {}
    PROVE  \E m \in T : \A k \in T : k <= m
<1>. DEFINE U == {n - k : k \in T}
<1>1. U \in SUBSET Nat /\ U # {}
  OBVIOUS
<1>2. \E m \in U : \A k \in U : m <= k
  <2>. HIDE DEF U
  <2>. QED
    BY <1>1, LeastNat
<1>3. PICK m \in U : \A k \in U : m <= k
  BY <1>2
<1>4. PICK j \in T : m = n - j
  BY <1>3
<1>5. ASSUME NEW k \in T PROVE k <= j
  <2>1. n - k \in U
    OBVIOUS
  <2>2. n - j <= n - k
    <3>. HIDE DEF U
    <3>. QED
      BY <1>3, <1>4, <2>1
  <2>. QED
    BY <2>2
<1>. QED
  BY <1>5

\* The function inside FlattenSeq, defined from each position's predecessor,
\* satisfies its definition.
Joined(s, n) == CHOOSE g : g = [i \in 1..n |-> IF i = 1 THEN s[i] ELSE g[i - 1] \o s[i]]

LEMMA FlattenDefined ==
    ASSUME NEW s, NEW n \in Nat
    PROVE  Joined(s, n) = [i \in 1..n |-> IF i = 1 THEN s[i] ELSE Joined(s, n)[i - 1] \o s[i]]
<1>. DEFINE Defined(m) == \E g : g = [i \in 1..m |-> IF i = 1 THEN s[i] ELSE g[i - 1] \o s[i]]
            T == {m \in Nat : ~Defined(m)}
<1>1. ASSUME NEW m \in T, \A k \in T : m <= k
      PROVE  FALSE
  <2>1. m # 0
    <3>1. \E g : g = [i \in 1..0 |-> IF i = 1 THEN s[i] ELSE g[i - 1] \o s[i]]
      <4>1. <<>> = [i \in 1..0 |-> IF i = 1 THEN s[i] ELSE <<>>[i - 1] \o s[i]]
        OBVIOUS
      <4>. QED
        BY <4>1
    <3>. QED
      BY <3>1
  <2>a. m - 1 \in Nat /\ m - 1 \notin T
    <3>. HIDE DEF Defined
    <3>. QED
      BY <1>1, <2>1
  <2>b. Defined(m - 1)
    <3>. HIDE DEF Defined
    <3>. QED
      BY <2>a
  <2>2. PICK g : g = [i \in 1..m - 1 |-> IF i = 1 THEN s[i] ELSE g[i - 1] \o s[i]]
    BY <2>b
  <2>. DEFINE h == [i \in 1..m |-> IF i = m THEN (IF m = 1 THEN s[m] ELSE g[m - 1] \o s[m]) ELSE g[i]]
  <2>3. h = [i \in 1..m |-> IF i = 1 THEN s[i] ELSE h[i - 1] \o s[i]]
    <3>1. ASSUME NEW i \in 1..m PROVE h[i] = IF i = 1 THEN s[i] ELSE h[i - 1] \o s[i]
      <4>1. CASE i = m
        BY <4>1, <2>1
      <4>2. CASE i # m
        <5>1. i \in 1..m - 1 /\ (i # 1 => i - 1 \in 1..m /\ i - 1 # m)
          BY <4>2
        <5>2. h[i] = g[i] /\ (i # 1 => h[i - 1] = g[i - 1])
          BY <5>1
        <5>3. g[i] = IF i = 1 THEN s[i] ELSE g[i - 1] \o s[i]
          BY <2>2, <5>1
        <5>. QED
          BY <5>2, <5>3
      <4>. QED
        BY <4>1, <4>2
    <3>. QED
      BY <3>1
  <2>4. Defined(m)
    <3>. HIDE DEF h
    <3>. QED
      BY <2>3
  <2>. QED
    BY <2>4
<1>2. T = {}
  <2>1. T \in SUBSET Nat
    OBVIOUS
  <2>. HIDE DEF T
  <2>. QED
    BY <1>1, <2>1, LeastNat
<1>3. Defined(n)
  BY <1>2
<1>4. \E g : g = [i \in 1..n |-> IF i = 1 THEN s[i] ELSE g[i - 1] \o s[i]]
  BY <1>3
<1>. QED
  BY <1>4, Zenon DEF Joined

-----------------------------------------------------------------------------
(* FlattenSeq, one sequence after another.                                  *)

\* f[i] joins the first i sequences of s.
Joins(f, s) == f = [i \in 1..Len(s) |-> IF i = 1 THEN s[i] ELSE f[i - 1] \o s[i]]

LEMMA FlattenIs ==
    ASSUME NEW S, NEW s \in Seq(S), s # <<>>
    PROVE  \E f : Joins(f, s) /\ FlattenSeq(s) = f[Len(s)]
<1>1. PICK n \in Nat : n = Len(s) /\ n # 0
  OBVIOUS
<1>2. FlattenSeq(s) = Joined(s, n)[n]
  BY <1>1 DEF FlattenSeq, Joined
<1>3. Joins(Joined(s, n), s)
  BY <1>1, FlattenDefined DEF Joins
<1>. QED
  BY <1>1, <1>2, <1>3

LEMMA JoinsAt ==
    ASSUME NEW s, NEW f, Joins(f, s), NEW i \in 1..Len(s)
    PROVE  f[i] = IF i = 1 THEN s[i] ELSE f[i - 1] \o s[i]
BY DEF Joins

Begins(s, t) ==
    /\ Len(s) \in Nat /\ Len(t) \in Nat /\ Len(s) <= Len(t)
    /\ \A i \in 1..Len(s) : s[i] = t[i]

LEMMA JoinsAgree ==
    ASSUME NEW s, NEW t, Begins(s, t), NEW f, Joins(f, s), NEW g, Joins(g, t),
           NEW j \in 1..Len(s)
    PROVE  f[j] = g[j]
<1>. DEFINE T == {i \in 1..Len(s) : f[i] # g[i]}
<1>1. ASSUME NEW m \in T, \A k \in T : m <= k
      PROVE  FALSE
  <2>1. m \in 1..Len(s) /\ m \in 1..Len(t) /\ f[m] # g[m]
    BY DEF Begins
  <2>2. /\ f[m] = IF m = 1 THEN s[m] ELSE f[m - 1] \o s[m]
        /\ g[m] = IF m = 1 THEN t[m] ELSE g[m - 1] \o t[m]
    BY <2>1 DEF Joins
  <2>3. m # 1 => f[m - 1] = g[m - 1]
    <3>1. m # 1 => m - 1 \in 1..Len(s) /\ m - 1 \notin T
      BY <1>1, <2>1 DEF Begins
    <3>. QED
      BY <3>1
  <2>. QED
    BY <2>1, <2>2, <2>3 DEF Begins
<1>2. T = {}
  <2>1. T \in SUBSET Nat
    BY DEF Begins
  <2>. HIDE DEF T
  <2>. QED
    BY <1>1, <2>1, LeastNat
<1>. QED
  BY <1>2

LEMMA AppendIs ==
    ASSUME NEW S, NEW s \in Seq(S), NEW x \in S
    PROVE  /\ Append(s, x) \in Seq(S) /\ Append(s, x) # <<>>
           /\ Len(Append(s, x)) = Len(s) + 1 /\ Len(s) \in Nat
           /\ Append(s, x)[Len(s) + 1] = x
           /\ \A i \in 1..Len(s) : Append(s, x)[i] = s[i]
OBVIOUS

LEMMA FlattenEmpty == FlattenSeq(<<>>) = <<>>
BY DEF FlattenSeq

\* A longer sequence is flattened by adding its last element.
LEMMA FlattenAppend ==
    ASSUME NEW S, NEW s \in Seq(Seq(S)), NEW x \in Seq(S)
    PROVE  FlattenSeq(Append(s, x)) = FlattenSeq(s) \o x
<1>1. PICK t \in Seq(Seq(S)) : t = Append(s, x)
  BY AppendIs
<1>2. PICK n \in Nat : n = Len(s)
  BY AppendIs
<1>3. /\ t # <<>> /\ Len(t) = n + 1
      /\ t[n + 1] = x /\ \A i \in 1..n : t[i] = s[i]
  BY <1>1, <1>2, AppendIs
<1>4. PICK g : Joins(g, t) /\ FlattenSeq(t) = g[n + 1]
  BY <1>3, FlattenIs
<1>5. n + 1 \in 1..n + 1
  OBVIOUS
<1>6. g[n + 1] = IF n + 1 = 1 THEN t[n + 1] ELSE g[n + 1 - 1] \o t[n + 1]
  <2>1. n + 1 \in 1..Len(t)
    BY <1>3, <1>5
  <2>. QED
    BY <1>4, <2>1, JoinsAt
<1>7. CASE s = <<>>
  <2>1. n = 0 /\ <<>> \o x = x
    BY <1>2, <1>7
  <2>. QED
    BY <1>1, <1>3, <1>4, <1>6, <1>7, <2>1, FlattenEmpty
<1>8. CASE s # <<>>
  <2>1. PICK f : Joins(f, s) /\ FlattenSeq(s) = f[n]
    BY <1>8, <1>2, FlattenIs
  <2>2. n # 0
    BY <1>8, <1>2, EmptySeq
  <2>3. f[n] = g[n]
    <3>1. Begins(s, t)
      BY <1>2, <1>3 DEF Begins
    <3>2. n \in 1..Len(s)
      BY <1>2, <2>2
    <3>. QED
      BY <1>4, <2>1, <3>1, <3>2, JoinsAgree
  <2>4. f[n] = g[n] /\ n + 1 # 1 /\ n + 1 - 1 = n
    BY <2>2, <2>3
  <2>. QED
    BY <1>1, <1>3, <1>4, <1>6, <2>1, <2>4
<1>. QED
  BY <1>7, <1>8

LEMMA LastApart ==
    ASSUME NEW S, NEW s \in Seq(S), s # <<>>
    PROVE  \E r \in Seq(S), x \in S : s = Append(r, x) /\ Len(s) = Len(r) + 1
<1>. DEFINE r == [i \in 1..Len(s) - 1 |-> s[i]]
            x == s[Len(s)]
<1>1. r \in Seq(S) /\ x \in S /\ s = Append(r, x) /\ Len(s) = Len(r) + 1
  OBVIOUS
<1>. QED
  BY <1>1

LEMMA FlattenType ==
    ASSUME NEW S, NEW s \in Seq(Seq(S))
    PROVE  FlattenSeq(s) \in Seq(S)
<1>. DEFINE T == {n \in Nat : \E t \in Seq(Seq(S)) : Len(t) = n /\ FlattenSeq(t) \notin Seq(S)}
<1>1. ASSUME NEW m \in T, \A k \in T : m <= k
      PROVE  FALSE
  <2>1. PICK t \in Seq(Seq(S)) : Len(t) = m /\ FlattenSeq(t) \notin Seq(S)
    OBVIOUS
  <2>2. t # <<>>
    BY <2>1, FlattenEmpty
  <2>3. PICK r \in Seq(Seq(S)), x \in Seq(S) : t = Append(r, x) /\ Len(t) = Len(r) + 1
    BY <2>2, LastApart
  <2>4. Len(r) \in Nat /\ Len(r) \notin T
    BY <1>1, <2>1, <2>3
  <2>5. FlattenSeq(r) \in Seq(S)
    BY <2>4
  <2>6. FlattenSeq(t) = FlattenSeq(r) \o x
    BY <2>3, FlattenAppend
  <2>. QED
    BY <2>1, <2>3, <2>5, <2>6
<1>2. T = {}
  <2>1. T \in SUBSET Nat
    OBVIOUS
  <2>. HIDE DEF T
  <2>. QED
    BY <1>1, <2>1, LeastNat
<1>. QED
  BY <1>2

LEMMA ConcatAppend ==
    ASSUME NEW S, NEW s \in Seq(S), NEW r \in Seq(S), NEW x \in S
    PROVE  s \o Append(r, x) = Append(s \o r, x) /\ s \o r \in Seq(S)
OBVIOUS

LEMMA FlattenConcatAppend ==
    ASSUME NEW S, NEW s \in Seq(Seq(S)), NEW r \in Seq(Seq(S)), NEW x \in Seq(S),
           FlattenSeq(s \o r) = FlattenSeq(s) \o FlattenSeq(r)
    PROVE  FlattenSeq(s \o Append(r, x)) = FlattenSeq(s) \o FlattenSeq(Append(r, x))
<1>1. s \o Append(r, x) = Append(s \o r, x) /\ s \o r \in Seq(Seq(S))
  BY ConcatAppend
<1>2. FlattenSeq(s \o Append(r, x)) = FlattenSeq(s \o r) \o x
  BY <1>1, FlattenAppend
<1>3. FlattenSeq(Append(r, x)) = FlattenSeq(r) \o x
  BY FlattenAppend
<1>4. FlattenSeq(s) \in Seq(S) /\ FlattenSeq(r) \in Seq(S)
  BY FlattenType
<1>5. (FlattenSeq(s) \o FlattenSeq(r)) \o x = FlattenSeq(s) \o (FlattenSeq(r) \o x)
  BY SMTT(30), <1>4, ConcatAssociative
<1>. QED
  BY <1>2, <1>3, <1>5

\* What is flattened may be cut anywhere.
LEMMA FlattenConcat ==
    ASSUME NEW S, NEW s \in Seq(Seq(S)), NEW t \in Seq(Seq(S))
    PROVE  FlattenSeq(s \o t) = FlattenSeq(s) \o FlattenSeq(t)
<1>. DEFINE Splits(u) == FlattenSeq(s \o u) = FlattenSeq(s) \o FlattenSeq(u)
            T == {n \in Nat : \E u \in Seq(Seq(S)) : Len(u) = n /\ ~Splits(u)}
<1>a. Splits(<<>>)
  <2>1. s \o <<>> = s
    BY ConcatEmptySeq
  <2>2. FlattenSeq(s) \in Seq(S)
    BY FlattenType
  <2>3. FlattenSeq(s) \o <<>> = FlattenSeq(s)
    BY <2>2, ConcatEmptySeq
  <2>. QED
    BY <2>1, <2>3, FlattenEmpty
<1>b. ASSUME NEW r \in Seq(Seq(S)), NEW x \in Seq(S), Splits(r)
      PROVE  Splits(Append(r, x))
  BY <1>b, FlattenConcatAppend
<1>. HIDE DEF Splits
<1>1. ASSUME NEW m \in T, \A k \in T : m <= k
      PROVE  FALSE
  <2>1. PICK u \in Seq(Seq(S)) : Len(u) = m /\ ~Splits(u)
    OBVIOUS
  <2>2. u # <<>>
    BY <1>a, <2>1
  <2>3. PICK r \in Seq(Seq(S)), x \in Seq(S) : u = Append(r, x) /\ Len(u) = Len(r) + 1
    BY <2>2, LastApart
  <2>4. Len(r) \in Nat /\ Len(r) \notin T
    BY <1>1, <2>1, <2>3
  <2>5. Splits(r)
    BY <2>3, <2>4
  <2>. QED
    BY <1>b, <2>1, <2>3, <2>5
<1>2. T = {}
  <2>1. T \in SUBSET Nat
    OBVIOUS
  <2>. HIDE DEF T
  <2>. QED
    BY <1>1, <2>1, LeastNat
<1>3. Len(t) \in Nat /\ Len(t) \notin T
  BY <1>2, LenProperties
<1>4. Splits(t)
  BY <1>3
<1>. QED
  BY <1>4 DEF Splits
-----------------------------------------------------------------------------
(* Markers, and the text rewritten piece by piece.                          *)

Ends(text, i) == {j \in i..Len(text) : Marker(text, i, j)}

Within(text, i) == \E a \in 1..i, b \in i..Len(text) : a # i /\ Marker(text, a, b)

\* What stands for the token at i in the rewritten text.
Piece(text, i) ==
    IF Ends(text, i) # {} THEN Tags(text, i, CHOOSE j \in Ends(text, i) : TRUE)
    ELSE IF Within(text, i) THEN <<>> ELSE <<text[i]>>

LEMMA RewriteIs ==
    ASSUME NEW text
    PROVE  Rewrite(text) = FlattenSeq([i \in 1..Len(text) |-> Piece(text, i)])
BY DEF Rewrite, Piece, Ends, Within

Outs == Tokens \cup (Cited \X {"source"})

LEMMA TagsType ==
    ASSUME NEW text, NEW i \in Nat, NEW j \in Nat
    PROVE  Tags(text, i, j) \in Seq(Outs)
<1>. DEFINE tags == [k \in 1..j - i - 1 |-> IF text[i + k] \in Cited THEN <<<<text[i + k], "source">>>> ELSE <<>>]
<1>1. ASSUME NEW k \in 1..j - i - 1 PROVE tags[k] \in Seq(Outs)
  <2>1. CASE text[i + k] \in Cited
    <3>1. <<text[i + k], "source">> \in Outs
      BY <2>1 DEF Outs
    <3>. QED
      BY <2>1, <3>1
  <2>2. CASE text[i + k] \notin Cited
    BY <2>2
  <2>. QED
    BY <2>1, <2>2
<1>2. tags \in Seq(Seq(Outs))
  <2>1. PICK n \in Nat : 1..j - i - 1 = 1..n
    <3>1. CASE j - i - 1 \in Nat
      BY <3>1
    <3>2. CASE j - i - 1 \notin Nat
      <4>1. 1..j - i - 1 = 1..0
        BY <3>2
      <4>. QED
        BY <4>1
    <3>. QED
      BY <3>1, <3>2
  <2>2. tags \in [1..n -> Seq(Outs)]
    BY <1>1, <2>1
  <2>. HIDE DEF tags
  <2>. QED
    BY <2>2
<1>. QED
  BY <1>2, FlattenType DEF Tags

LEMMA PieceType ==
    ASSUME NEW text \in Seq(Tokens), NEW i \in 1..Len(text)
    PROVE  Piece(text, i) \in Seq(Outs)
<1>1. CASE Ends(text, i) # {}
  <2>1. PICK j : j \in Ends(text, i) /\ j = CHOOSE e \in Ends(text, i) : TRUE
    BY <1>1
  <2>2. j \in Nat /\ i \in Nat
    BY <2>1 DEF Ends
  <2>3. Tags(text, i, j) \in Seq(Outs)
    BY <2>2, TagsType
  <2>. QED
    BY <1>1, <2>1, <2>3 DEF Piece
<1>2. CASE Ends(text, i) = {}
  <2>1. text[i] \in Outs
    BY DEF Outs
  <2>. QED
    BY <1>2, <2>1 DEF Piece
<1>. QED
  BY <1>1, <1>2

LEMMA PiecesType ==
    ASSUME NEW text \in Seq(Tokens)
    PROVE  [i \in 1..Len(text) |-> Piece(text, i)] \in Seq(Seq(Outs))
<1>1. Len(text) \in Nat
  OBVIOUS
<1>2. [i \in 1..Len(text) |-> Piece(text, i)] \in [1..Len(text) -> Seq(Outs)]
  BY PieceType
<1>. QED
  BY <1>1, <1>2

LEMMA RewriteType ==
    ASSUME NEW text \in Seq(Tokens)
    PROVE  Rewrite(text) \in Seq(Outs)
BY RewriteIs, PiecesType, FlattenType

\* What may be n tokens after a marker's bracket.
Slot(x, n) == IF n % 2 = 1 THEN x \in Numbers ELSE x = Comma

Even(n) == n % 2 = 0

LEMMA MarkerIs ==
    ASSUME NEW text, NEW i, NEW j
    PROVE  Marker(text, i, j) <=> /\ text[i] = LeftBracket /\ text[j] = RightBracket
                                  /\ i < j /\ Even(j - i)
                                  /\ \A k \in i + 1 .. j - 1 : Slot(text[k], k - i)
BY Zenon DEF Marker, Slot, Even

LEMMA SlotEven ==
    ASSUME NEW x, NEW n \in Nat, Even(n), Slot(x, n)
    PROVE  x = Comma
<1>1. n % 2 = 0
  BY DEF Even
<1>2. ~(n % 2 = 1)
  BY <1>1
<1>. QED
  BY <1>2, Zenon DEF Slot

\* No two markers begin at the same bracket.
LEMMA OneEnd ==
    ASSUME NEW text, NEW i \in Nat, NEW j \in Nat, NEW k \in Nat,
           Marker(text, i, j), Marker(text, i, k)
    PROVE  j = k
<1>1. ASSUME NEW a \in Nat, NEW b \in Nat, Marker(text, i, a), Marker(text, i, b), a < b
      PROVE  FALSE
  <2>1. i < a /\ Even(a - i) /\ text[a] = RightBracket
    BY <1>1, MarkerIs
  <2>2. a \in i + 1..b - 1 /\ a - i \in Nat
    BY <1>1, <2>1
  <2>3. Slot(text[a], a - i)
    BY <1>1, <2>2, MarkerIs
  <2>4. text[a] = Comma
    <3>1. PICK n \in Nat : n = a - i
      BY <2>2
    <3>2. Even(n) /\ Slot(text[a], n)
      BY <2>1, <2>3, <3>1
    <3>. QED
      BY <3>2, SlotEven
  <2>5. RightBracket # Comma
    BY Zenon DEF RightBracket, Comma
  <2>. QED
    BY <2>1, <2>4, <2>5
<1>. QED
  BY <1>1

-----------------------------------------------------------------------------
(* A text cut where no marker is cut is rewritten in parts.                 *)

\* u is the part of text after its first d tokens, and no marker of text
\* reaches into it or out of it.
Cut(text, d, u) ==
    /\ \A k \in 1..Len(u) : text[k + d] = u[k]
    /\ \A a, b \in 1..Len(text) : Marker(text, a, b) =>
           \/ b <= d
           \/ d + Len(u) < a
           \/ d < a /\ b <= d + Len(u)

LEMMA MarkerMoved ==
    ASSUME NEW s, NEW t, NEW d \in Nat, NEW i \in Nat, NEW j \in Nat,
           \A k \in i..j : t[k + d] = s[k]
    PROVE  Marker(s, i, j) <=> Marker(t, i + d, j + d)
<1>1. CASE i < j
  <2>1. t[i + d] = s[i] /\ t[j + d] = s[j] /\ (j + d) - (i + d) = j - i /\ i + d < j + d
    BY <1>1
  <2>2. ASSUME NEW k \in i + 1 .. j - 1
        PROVE  k + d \in i + d + 1 .. j + d - 1 /\ (k + d) - (i + d) = k - i /\ t[k + d] = s[k]
    OBVIOUS
  <2>3. ASSUME NEW k \in i + d + 1 .. j + d - 1
        PROVE  k - d \in i + 1 .. j - 1 /\ k - (i + d) = (k - d) - i /\ t[k] = s[k - d]
    <3>1. k - d \in i + 1 .. j - 1 /\ k - d \in i..j /\ k - d + d = k /\ k - (i + d) = (k - d) - i
      OBVIOUS
    <3>. QED
      BY <3>1
  <2>4. (\A k \in i + 1 .. j - 1 : Slot(s[k], k - i))
        <=> (\A k \in i + d + 1 .. j + d - 1 : Slot(t[k], k - (i + d)))
    BY <2>2, <2>3
  <2>. QED
    BY <1>1, <2>1, <2>4, MarkerIs
<1>2. CASE ~(i < j)
  BY <1>2, MarkerIs
<1>. QED
  BY <1>1, <1>2

LEMMA MarkerIn ==
    ASSUME NEW text, NEW u, NEW d \in Nat, Len(u) \in Nat, \A k \in 1..Len(u) : text[k + d] = u[k],
           NEW i \in 1..Len(u), NEW j \in 1..Len(u)
    PROVE  Marker(u, i, j) <=> Marker(text, i + d, j + d)
<1>1. i \in Nat /\ j \in Nat /\ \A k \in i..j : text[k + d] = u[k]
  OBVIOUS
<1>. QED
  BY <1>1, MarkerMoved

LEMMA EndsMoved ==
    ASSUME NEW text, Len(text) \in Nat, NEW u, Len(u) \in Nat, NEW d \in Nat, d + Len(u) <= Len(text),
           Cut(text, d, u), NEW i \in 1..Len(u)
    PROVE  Ends(text, i + d) = {j + d : j \in Ends(u, i)}
<1>1. ASSUME NEW b \in Ends(text, i + d)
      PROVE  b \in {j + d : j \in Ends(u, i)}
  <2>1. b \in i + d..Len(text) /\ Marker(text, i + d, b)
    BY DEF Ends
  <2>2. i + d \in 1..Len(text) /\ b \in 1..Len(text) /\ i + d < b
    BY <2>1, MarkerIs
  <2>3. b <= d + Len(u)
    BY <2>1, <2>2 DEF Cut
  <2>4. b - d \in 1..Len(u) /\ b - d \in i..Len(u) /\ (b - d) + d = b
    BY <2>2, <2>3
  <2>5. Marker(u, i, b - d)
    <3>1. PICK c \in 1..Len(u) : c = b - d
      BY <2>4
    <3>2. \A k \in 1..Len(u) : text[k + d] = u[k]
      BY DEF Cut
    <3>3. Marker(u, i, c) <=> Marker(text, i + d, c + d)
      BY <3>2, MarkerIn
    <3>. QED
      BY <2>1, <2>4, <3>1, <3>3
  <2>. QED
    BY <2>4, <2>5 DEF Ends
<1>2. ASSUME NEW j \in Ends(u, i)
      PROVE  j + d \in Ends(text, i + d)
  <2>1. j \in i..Len(u) /\ j \in 1..Len(u) /\ Marker(u, i, j)
    BY DEF Ends
  <2>2. Marker(text, i + d, j + d)
    BY <2>1, MarkerIn DEF Cut
  <2>3. j + d \in i + d..Len(text)
    BY <2>1
  <2>. QED
    BY <2>2, <2>3 DEF Ends
<1>. QED
  BY <1>1, <1>2

LEMMA WithinMoved ==
    ASSUME NEW text, Len(text) \in Nat, NEW u, Len(u) \in Nat, NEW d \in Nat, d + Len(u) <= Len(text),
           Cut(text, d, u), NEW i \in 1..Len(u)
    PROVE  Within(text, i + d) <=> Within(u, i)
<1>1. ASSUME NEW a \in 1..i + d, NEW b \in i + d..Len(text), a # i + d, Marker(text, a, b)
      PROVE  Within(u, i)
  <2>1. a \in 1..Len(text) /\ b \in 1..Len(text)
    OBVIOUS
  <2>2. d < a /\ b <= d + Len(u)
    BY <1>1, <2>1 DEF Cut
  <2>3. /\ a - d \in 1..Len(u) /\ b - d \in 1..Len(u) /\ (a - d) + d = a /\ (b - d) + d = b
        /\ a - d \in 1..i /\ b - d \in i..Len(u) /\ a - d # i
    BY <1>1, <2>2
  <2>4. Marker(u, a - d, b - d)
    <3>1. PICK e \in 1..Len(u), c \in 1..Len(u) : e = a - d /\ c = b - d
      BY <2>3
    <3>2. \A k \in 1..Len(u) : text[k + d] = u[k]
      BY DEF Cut
    <3>3. Marker(u, e, c) <=> Marker(text, e + d, c + d)
      BY <3>2, MarkerIn
    <3>. QED
      BY <1>1, <2>3, <3>1, <3>3
  <2>. QED
    BY <2>3, <2>4 DEF Within
<1>2. ASSUME NEW a \in 1..i, NEW b \in i..Len(u), a # i, Marker(u, a, b)
      PROVE  Within(text, i + d)
  <2>1. Marker(text, a + d, b + d)
    BY <1>2, a \in 1..Len(u), b \in 1..Len(u), MarkerIn DEF Cut
  <2>2. a + d \in 1..i + d /\ b + d \in i + d..Len(text) /\ a + d # i + d
    BY <1>2
  <2>. QED
    BY <2>1, <2>2 DEF Within
<1>. QED
  BY <1>1, <1>2 DEF Within

LEMMA PieceMoved ==
    ASSUME NEW text, Len(text) \in Nat, NEW u, Len(u) \in Nat, NEW d \in Nat, d + Len(u) <= Len(text),
           Cut(text, d, u), NEW i \in 1..Len(u)
    PROVE  Piece(text, i + d) = Piece(u, i)
<1>1. Ends(text, i + d) = {j + d : j \in Ends(u, i)}
  BY EndsMoved
<1>2. CASE Ends(u, i) # {}
  <2>1. PICK j : j \in Ends(u, i) /\ j = CHOOSE e \in Ends(u, i) : TRUE
    BY <1>2
  <2>2. PICK b : b \in Ends(text, i + d) /\ b = CHOOSE e \in Ends(text, i + d) : TRUE
    BY <1>1, <1>2
  <2>3. j \in i..Len(u) /\ j \in 1..Len(u) /\ j \in Nat
    BY <2>1 DEF Ends
  <2>4. b = j + d
    <3>1. j + d \in Ends(text, i + d)
      BY <1>1, <2>1
    <3>2. Marker(text, i + d, j + d) /\ Marker(text, i + d, b) /\ b \in Nat
      BY <2>2, <3>1 DEF Ends
    <3>3. i + d \in Nat /\ j + d \in Nat
      BY <2>3
    <3>. QED
      BY <3>2, <3>3, OneEnd
  <2>5. Tags(text, i + d, j + d) = Tags(u, i, j)
    <3>1. (j + d) - (i + d) - 1 = j - i - 1
      BY <2>3
    <3>2. ASSUME NEW k \in 1..j - i - 1
          PROVE  text[(i + d) + k] = u[i + k]
      <4>1. i + k \in 1..Len(u) /\ (i + d) + k = (i + k) + d
        BY <2>3
      <4>. QED
        BY <4>1 DEF Cut
    <3>3. [k \in 1..j - i - 1 |-> IF text[(i + d) + k] \in Cited THEN <<<<text[(i + d) + k], "source">>>> ELSE <<>>]
          = [k \in 1..j - i - 1 |-> IF u[i + k] \in Cited THEN <<<<u[i + k], "source">>>> ELSE <<>>]
      BY <3>2
    <3>. QED
      BY <3>1, <3>3 DEF Tags
  <2>6. Piece(u, i) = Tags(u, i, j)
    BY <1>2, <2>1 DEF Piece
  <2>7. Piece(text, i + d) = Tags(text, i + d, b)
    BY <2>2 DEF Piece
  <2>. QED
    BY <2>4, <2>5, <2>6, <2>7
<1>3. CASE Ends(u, i) = {}
  <2>1. Ends(text, i + d) = {}
    BY <1>1, <1>3
  <2>2. Within(text, i + d) <=> Within(u, i)
    BY WithinMoved
  <2>3. text[i + d] = u[i]
    BY DEF Cut
  <2>. QED
    BY <1>3, <2>1, <2>2, <2>3 DEF Piece
<1>. QED
  BY <1>2, <1>3

\* No marker of the text reaches over the first n tokens.
Splits(text, n) ==
    \A a, b \in 1..Len(text) : Marker(text, a, b) => b <= n \/ n < a

LEMMA ConcatIs ==
    ASSUME NEW S, NEW s \in Seq(S), NEW t \in Seq(S)
    PROVE  s \o t = [i \in 1..Len(s) + Len(t) |-> IF i <= Len(s) THEN s[i] ELSE t[i - Len(s)]]
<1>1. /\ s \o t \in Seq(S)
      /\ Len(s \o t) = Len(s) + Len(t)
      /\ \A i \in 1 .. Len(s) + Len(t) : (s \o t)[i] = IF i <= Len(s) THEN s[i] ELSE t[i - Len(s)]
  BY ConcatProperties
<1>2. s \o t \in [1..Len(s) + Len(t) -> S]
  BY <1>1, LenProperties
<1>. QED
  BY <1>1, <1>2

LEMMA RewriteSplit ==
    ASSUME NEW u \in Seq(Tokens), NEW v \in Seq(Tokens), Splits(u \o v, Len(u))
    PROVE  Rewrite(u \o v) = Rewrite(u) \o Rewrite(v)
<1>1. PICK text \in Seq(Tokens) : text = u \o v
  BY ConcatProperties
<1>2. PICK n \in Nat, m \in Nat : n = Len(u) /\ m = Len(v)
  OBVIOUS
<1>3. /\ Len(text) = n + m
      /\ \A k \in 1..n : text[k] = u[k]
      /\ \A k \in 1..m : text[k + n] = v[k]
  BY <1>1, <1>2
<1>4. Cut(text, 0, u) /\ Cut(text, n, v)
  <2>1. \A a, b \in 1..Len(text) : Marker(text, a, b) => a < b
    BY MarkerIs
  <2>2. \A a, b \in 1..Len(text) : Marker(text, a, b) => b <= n \/ n < a
    BY <1>1, <1>2 DEF Splits
  <2>3. \A k \in 1..n : k + 0 = k
    OBVIOUS
  <2>4. \A a, b \in 1..Len(text) : Marker(text, a, b) => \/ b <= 0
                                                         \/ 0 + Len(u) < a
                                                         \/ 0 < a /\ b <= 0 + Len(u)
    BY <1>2, <2>2
  <2>5. ASSUME NEW a \in 1..Len(text), NEW b \in 1..Len(text), Marker(text, a, b)
        PROVE  \/ b <= n
               \/ n + Len(v) < a
               \/ n < a /\ b <= n + Len(v)
    <3>1. b <= n + Len(v)
      BY <1>2, <1>3
    <3>. QED
      BY <2>2, <2>5, <3>1
  <2>. QED
    BY <1>2, <1>3, <2>3, <2>4, <2>5 DEF Cut
<1>a. /\ Len(text) \in Nat /\ Len(u) \in Nat /\ Len(v) \in Nat /\ 0 \in Nat
      /\ 0 + Len(u) <= Len(text) /\ n + Len(v) <= Len(text)
  BY <1>2, <1>3
<1>5. ASSUME NEW i \in 1..n PROVE Piece(text, i) = Piece(u, i)
  <2>1. i \in 1..Len(u) /\ i + 0 = i
    BY <1>2
  <2>2. Piece(text, i + 0) = Piece(u, i)
    BY <1>4, <1>a, <2>1, PieceMoved
  <2>. QED
    BY <2>1, <2>2
<1>6. ASSUME NEW i \in 1..m PROVE Piece(text, i + n) = Piece(v, i)
  <2>1. i \in 1..Len(v)
    BY <1>2
  <2>. QED
    BY <1>4, <1>a, <2>1, PieceMoved
<1>7. PICK ps \in Seq(Seq(Outs)) : ps = [i \in 1..n |-> Piece(u, i)]
  BY <1>2, PiecesType
<1>8. PICK qs \in Seq(Seq(Outs)) : qs = [i \in 1..m |-> Piece(v, i)]
  BY <1>2, PiecesType
<1>9. [i \in 1..n + m |-> Piece(text, i)] = ps \o qs
  <2>1. Len(ps) = n /\ Len(qs) = m
    BY <1>7, <1>8
  <2>2. ps \o qs = [i \in 1..n + m |-> IF i <= n THEN ps[i] ELSE qs[i - n]]
    <3>1. ps \o qs = [i \in 1..Len(ps) + Len(qs) |-> IF i <= Len(ps) THEN ps[i] ELSE qs[i - Len(ps)]]
      BY ConcatIs
    <3>. QED
      BY <2>1, <3>1
  <2>3. ASSUME NEW i \in 1..n + m PROVE Piece(text, i) = IF i <= n THEN ps[i] ELSE qs[i - n]
    <3>1. CASE i <= n
      BY <1>5, <1>7, <3>1
    <3>2. CASE ~(i <= n)
      <4>1. PICK k \in 1..m : k = i - n /\ i = k + n
        BY <3>2
      <4>. QED
        BY <1>6, <1>8, <3>2, <4>1
    <3>. QED
      BY <3>1, <3>2
  <2>. QED
    BY <2>2, <2>3
<1>10. Rewrite(text) = FlattenSeq(ps \o qs)
  BY <1>3, <1>9, RewriteIs
<1>11. Rewrite(u) = FlattenSeq(ps) /\ Rewrite(v) = FlattenSeq(qs)
  BY <1>2, <1>7, <1>8, RewriteIs
<1>. QED
  BY <1>1, <1>10, <1>11, FlattenConcat

-----------------------------------------------------------------------------
(* What the streaming rewriter holds back.                                  *)

LEMMA OpeningIs ==
    ASSUME NEW text \in Seq(Tokens)
    PROVE  /\ Opening(text) \in 0..Len(text)
           /\ Opening(text) # 0 => text[Opening(text)] = LeftBracket
           /\ \A k \in 1..Len(text) : text[k] = LeftBracket => k <= Opening(text)
<1>. DEFINE I == {k \in 1..Len(text) : text[k] = LeftBracket}
<1>1. Opening(text) = IF I # {} THEN Max(I) ELSE 0
  BY Zenon DEF Opening, SelectLastInSeq
<1>2. CASE I # {}
  <2>1. PICK n \in Nat : n = Len(text)
    OBVIOUS
  <2>2. I \in SUBSET (0..n)
    BY <2>1
  <2>3. \E m \in I : \A k \in I : k <= m
    <3>. HIDE DEF I
    <3>. QED
      BY <1>2, <2>2, GreatestNat
  <2>4. \E m \in I : \A k \in I : m >= k
    BY <2>1, <2>3
  <2>5. Max(I) \in I /\ \A k \in I : Max(I) >= k
    <3>. HIDE DEF I
    <3>. QED
      BY <2>4, Zenon DEF Max
  <2>6. \A k \in 1..Len(text) : text[k] = LeftBracket => k \in I
    OBVIOUS
  <2>7. Max(I) \in 1..Len(text) /\ text[Max(I)] = LeftBracket
    BY <2>5
  <2>. HIDE DEF I
  <2>8. Opening(text) = Max(I)
    BY <1>1, <1>2
  <2>9. \A k \in 1..Len(text) : text[k] = LeftBracket => k <= Max(I)
    BY <2>1, <2>5, <2>6, <2>7
  <2>. QED
    BY <2>1, <2>7, <2>8, <2>9
<1>3. CASE I = {}
  <2>1. \A k \in 1..Len(text) : text[k] # LeftBracket
    BY <1>3
  <2>2. Opening(text) = 0
    BY <1>1, <1>3, Zenon
  <2>. QED
    BY <2>1, <2>2
<1>. QED
  BY <1>2, <1>3

\* A marker begins at i and the text ends before it does.
Unfinished(text, i) ==
    /\ text[i] = LeftBracket
    /\ \A k \in i + 1..Len(text) : text[k] \notin {LeftBracket, RightBracket}

LEMMA HeldBackIs ==
    ASSUME NEW text \in Seq(Tokens)
    PROVE  \E n \in 0..Len(text) :
               /\ HeldBack(text) = SubSeq(text, n + 1, Len(text))
               /\ HeldBack(text) \in Seq(Tokens)
               /\ Len(HeldBack(text)) = Len(text) - n
               /\ \A k \in n + 1..Len(text) : text[k] # RightBracket
               /\ \A i \in 1..n : Unfinished(text, i) => Len(text) - i + 1 > MaxPending
<1>1. PICK c \in 0..Len(text) : c = Opening(text)
  BY OpeningIs
<1>2. /\ c # 0 => text[c] = LeftBracket
      /\ \A k \in 1..Len(text) : text[k] = LeftBracket => k <= c
  BY <1>1, OpeningIs
<1>3. PICK l \in Nat : l = Len(text)
  OBVIOUS
<1>. DEFINE rest == SubSeq(text, c, Len(text))
            holds == c > 0 /\ ~Contains(rest, RightBracket) /\ Len(rest) <= MaxPending
<1>4. HeldBack(text) = IF holds THEN rest ELSE <<>>
  BY <1>1 DEF HeldBack
<1>5. c # 0 => rest \in Seq(Tokens) /\ Len(rest) = l - c + 1 /\ \A k \in 1..l - c + 1 : rest[k] = text[c + k - 1]
  BY <1>3
<1>6. MaxPending \in Nat
  BY AnsweringAssumption
<1>. HIDE DEF rest
<1>7. CASE holds
  <2>1. c # 0 /\ HeldBack(text) = rest
    BY <1>4, <1>7
  <2>2. ASSUME NEW k \in c..l PROVE text[k] # RightBracket
    <3>1. PICK e \in 1..l - c + 1 : k = c + e - 1
      BY k - c + 1 \in 1..l - c + 1, <2>1
    <3>2. rest[e] # RightBracket
      BY <1>5, <1>7, <2>1 DEF Contains
    <3>. QED
      BY <1>5, <2>1, <3>1, <3>2
  <2>3. ASSUME NEW i \in 1..c - 1 PROVE ~Unfinished(text, i)
    BY <1>2, <1>3, <2>1, c \in i + 1..Len(text) DEF Unfinished
  <2>4. PICK n \in 0..Len(text) : n = c - 1
    BY <1>3, <2>1
  <2>5. n + 1 = c
    BY <2>1, <2>4
  <2>6. HeldBack(text) = SubSeq(text, n + 1, Len(text))
    BY <2>1, <2>5 DEF rest
  <2>7. HeldBack(text) \in Seq(Tokens) /\ Len(HeldBack(text)) = Len(text) - n
    BY <1>3, <1>5, <2>1, <2>4
  <2>8. \A k \in n + 1..Len(text) : text[k] # RightBracket
    BY <1>3, <2>2, <2>5
  <2>9. \A i \in 1..n : Unfinished(text, i) => Len(text) - i + 1 > MaxPending
    BY <2>3, <2>4
  <2>. QED
    BY <2>4, <2>6, <2>7, <2>8, <2>9
<1>8. CASE ~holds
  <2>1. HeldBack(text) = <<>> /\ <<>> = SubSeq(text, l + 1, l)
    BY <1>4, <1>8
  <2>2. ASSUME NEW i \in 1..l, Unfinished(text, i) PROVE l - i + 1 > MaxPending
    <3>1. i <= c /\ c # 0
      BY <1>2, <1>3, <2>2 DEF Unfinished
    <3>2. i = c
      BY <1>2, <1>3, <2>2, <3>1 DEF Unfinished
    <3>3. \A k \in c..l : text[k] # RightBracket
      <4>1. LeftBracket # RightBracket
        BY Zenon DEF LeftBracket, RightBracket
      <4>2. \A k \in i + 1..l : text[k] # RightBracket
        BY <1>3, <2>2 DEF Unfinished
      <4>3. text[i] # RightBracket
        BY <2>2, <4>1 DEF Unfinished
      <4>. QED
        BY <3>2, <4>2, <4>3
    <3>4. ~Contains(rest, RightBracket)
      <4>1. ASSUME NEW k \in 1..l - c + 1 PROVE rest[k] # RightBracket
        BY <1>5, <3>1, <3>3, c + k - 1 \in c..l
      <4>. QED
        BY <1>5, <3>1, <4>1 DEF Contains
    <3>. QED
      BY <1>5, <1>6, <1>8, <3>1, <3>2, <3>4
  <2>3. l \in 0..Len(text) /\ Len(<<>>) = Len(text) - l /\ <<>> \in Seq(Tokens)
    BY <1>3
  <2>. QED
    BY <1>3, <2>1, <2>2, <2>3
<1>. QED
  BY <1>7, <1>8

-----------------------------------------------------------------------------
(* A streamed answer is the whole text rewritten at once.                   *)

\* Every marker is short enough to be held back.
Short(raw) == \A i, j \in 1..Len(raw) : Marker(raw, i, j) => j - i <= MaxPending

\* What the stream of raw has sent: all of it but held, rewritten.  A marker
\* that began in what was sent is too long already, and none ends in held.
Streamed(raw, held, out) ==
    \E n \in 0..Len(raw) :
        /\ held = SubSeq(raw, n + 1, Len(raw))
        /\ Len(held) = Len(raw) - n
        /\ \A k \in n + 1..Len(raw) : raw[k] # RightBracket
        /\ \A i \in 1..n : Unfinished(raw, i) => Len(raw) - i + 1 > MaxPending
        /\ Short(raw) => out = Rewrite(SubSeq(raw, 1, n))

\* A marker that reaches over the end of a text is unfinished there.
LEMMA UnfinishedAt ==
    ASSUME NEW text, NEW raw, NEW l \in Nat, l = Len(raw), \A k \in 1..l : text[k] = raw[k],
           NEW i \in 1..l, NEW j \in Nat, l < j, Marker(text, i, j)
    PROVE  Unfinished(raw, i)
<1>1. text[i] = LeftBracket
  BY MarkerIs
<1>2. ASSUME NEW k \in i + 1..l
      PROVE  raw[k] \notin {LeftBracket, RightBracket}
  <2>1. k \in i + 1..j - 1 /\ k \in 1..l
    OBVIOUS
  <2>2. Slot(text[k], k - i)
    BY <2>1, MarkerIs
  <2>3. text[k] \in Numbers \/ text[k] = Comma
    BY <2>2, Zenon DEF Slot
  <2>4. Comma # LeftBracket /\ Comma # RightBracket
    BY Zenon DEF Comma, LeftBracket, RightBracket
  <2>5. LeftBracket \notin Numbers /\ RightBracket \notin Numbers
    BY AnsweringAssumption
  <2>6. text[k] = raw[k]
    BY <2>1
  <2>. QED
    BY <2>3, <2>4, <2>5, <2>6
<1>. QED
  BY <1>1, <1>2 DEF Unfinished

LEMMA MarkerSame ==
    ASSUME NEW s, NEW t, NEW l \in Nat, \A k \in 1..l : t[k] = s[k],
           NEW i \in 1..l, NEW j \in 1..l
    PROVE  Marker(s, i, j) <=> Marker(t, i, j)
<1>1. \A k \in i..j : t[k + 0] = s[k]
  <2>1. ASSUME NEW k \in i..j PROVE k + 0 = k /\ k \in 1..l
    OBVIOUS
  <2>. QED
    BY <2>1
<1>2. Marker(s, i, j) <=> Marker(t, i + 0, j + 0)
  <2>1. i \in Nat /\ j \in Nat /\ 0 \in Nat
    OBVIOUS
  <2>. QED
    BY <1>1, <2>1, MarkerMoved
<1>3. i + 0 = i /\ j + 0 = j
  OBVIOUS
<1>. QED
  BY <1>2, <1>3

LEMMA Prefix ==
    ASSUME NEW S, NEW s \in Seq(S), NEW n \in 0..Len(s)
    PROVE  /\ SubSeq(s, 1, n) \in Seq(S) /\ Len(SubSeq(s, 1, n)) = n
           /\ \A k \in 1..n : SubSeq(s, 1, n)[k] = s[k]
OBVIOUS

LEMMA Suffix ==
    ASSUME NEW S, NEW s \in Seq(S), NEW n \in 0..Len(s)
    PROVE  /\ SubSeq(s, n + 1, Len(s)) \in Seq(S) /\ Len(SubSeq(s, n + 1, Len(s))) = Len(s) - n
           /\ \A k \in 1..Len(s) - n : SubSeq(s, n + 1, Len(s))[k] = s[n + k]
OBVIOUS

LEMMA ConcatElements ==
    ASSUME NEW S, NEW s \in Seq(S), NEW t \in Seq(S)
    PROVE  /\ s \o t \in Seq(S) /\ Len(s \o t) = Len(s) + Len(t)
           /\ \A k \in 1..Len(s) : (s \o t)[k] = s[k]
           /\ \A k \in 1..Len(t) : (s \o t)[Len(s) + k] = t[k]
OBVIOUS

LEMMA StreamedDelta ==
    ASSUME NEW raw \in Seq(Tokens), NEW held \in Seq(Tokens), NEW out, Streamed(raw, held, out),
           NEW d \in Seq(Tokens), NEW text, text = held \o d
    PROVE  Streamed(raw \o d, HeldBack(text), out \o Rewrite(SubSeq(text, 1, Len(text) - Len(HeldBack(text)))))
<1>1. PICK l \in Nat, m \in Nat : l = Len(raw) /\ m = Len(d)
  OBVIOUS
<1>2. PICK n \in 0..l :
        /\ held = SubSeq(raw, n + 1, l)
        /\ Len(held) = l - n
        /\ \A k \in n + 1..l : raw[k] # RightBracket
        /\ \A i \in 1..n : Unfinished(raw, i) => l - i + 1 > MaxPending
        /\ Short(raw) => out = Rewrite(SubSeq(raw, 1, n))
  BY <1>1 DEF Streamed
<1>3. PICK whole \in Seq(Tokens) : whole = raw \o d
  BY ConcatProperties
<1>4. /\ Len(whole) = l + m
      /\ \A k \in 1..l : whole[k] = raw[k]
      /\ \A k \in 1..m : whole[l + k] = d[k]
  BY <1>1, <1>3
<1>5. text \in Seq(Tokens) /\ Len(text) = l - n + m
  <2>1. text \in Seq(Tokens) /\ Len(text) = Len(held) + Len(d)
    BY ConcatElements
  <2>. QED
    BY <1>1, <1>2, <2>1
<1>a. (\A k \in 1..l - n : text[k] = held[k]) /\ \A k \in 1..m : text[l - n + k] = d[k]
  <2>1. (\A k \in 1..Len(held) : text[k] = held[k]) /\ \A k \in 1..Len(d) : text[Len(held) + k] = d[k]
    BY ConcatElements
  <2>. QED
    BY <1>1, <1>2, <2>1
<1>6. ASSUME NEW k \in 1..l - n + m PROVE text[k] = whole[n + k]
  <2>1. CASE k <= l - n
    <3>1. text[k] = held[k]
      BY <1>a, <2>1, k \in 1..l - n
    <3>2. held[k] = raw[n + k]
      <4>1. \A e \in 1..l - n : held[e] = raw[n + e]
        BY <1>1, <1>2, n \in 0..Len(raw), Suffix
      <4>. QED
        BY <2>1, <4>1
    <3>. QED
      BY <1>4, <2>1, <3>1, <3>2
  <2>2. CASE ~(k <= l - n)
    <3>1. PICK e \in 1..m : e = k - (l - n) /\ l - n + e = k /\ l + e = n + k
      BY <2>2
    <3>2. text[k] = d[e] /\ whole[n + k] = d[e]
      BY <1>4, <1>a, <3>1
    <3>. QED
      BY <3>2
  <2>. QED
    BY <2>1, <2>2
<1>7. PICK q \in 0..Len(text) :
        /\ HeldBack(text) = SubSeq(text, q + 1, Len(text))
        /\ HeldBack(text) \in Seq(Tokens)
        /\ Len(HeldBack(text)) = Len(text) - q
        /\ \A k \in q + 1..Len(text) : text[k] # RightBracket
        /\ \A i \in 1..q : Unfinished(text, i) => Len(text) - i + 1 > MaxPending
  BY <1>5, HeldBackIs
<1>8. PICK p \in 0..Len(whole) : p = n + q
  BY <1>4, <1>5
<1>9. HeldBack(text) = SubSeq(whole, p + 1, Len(whole))
  <2>1. /\ SubSeq(whole, p + 1, Len(whole)) \in Seq(Tokens)
        /\ Len(SubSeq(whole, p + 1, Len(whole))) = l + m - p
        /\ \A k \in 1..l + m - p : SubSeq(whole, p + 1, Len(whole))[k] = whole[p + k]
    BY <1>4, <1>8
  <2>2. \A k \in 1..l + m - p : HeldBack(text)[k] = text[q + k]
    <3>1. \A k \in 1..Len(text) - q : SubSeq(text, q + 1, Len(text))[k] = text[q + k]
      BY <1>5, Suffix
    <3>2. Len(text) - q = l + m - p
      BY <1>5, <1>8
    <3>. QED
      BY <1>7, <3>1, <3>2
  <2>3. ASSUME NEW k \in 1..l + m - p PROVE text[q + k] = whole[p + k]
    <3>1. q + k \in 1..l - n + m /\ n + (q + k) = p + k
      BY <1>5, <1>8
    <3>. QED
      BY <1>6, <3>1
  <2>4. Len(HeldBack(text)) = l + m - p
    BY <1>5, <1>7, <1>8
  <2>5. \A k \in 1..l + m - p : HeldBack(text)[k] = SubSeq(whole, p + 1, Len(whole))[k]
    BY <2>1, <2>2, <2>3
  <2>. QED
    BY <1>7, <2>1, <2>4, <2>5, SeqEqual
<1>10. Len(HeldBack(text)) = Len(whole) - p
  BY <1>4, <1>5, <1>7, <1>8
<1>11. ASSUME NEW k \in p + 1..Len(whole) PROVE whole[k] # RightBracket
  <2>1. PICK e \in q + 1..Len(text) : e = k - n /\ n + e = k
    BY <1>4, <1>5, <1>8
  <2>2. text[e] # RightBracket
    BY <1>7, <2>1
  <2>3. e \in 1..l - n + m
    BY <1>5, <2>1
  <2>4. text[e] = whole[n + e]
    BY <1>6, <2>3
  <2>. QED
    BY <2>1, <2>2, <2>4
<1>12. ASSUME NEW i \in 1..p, Unfinished(whole, i) PROVE Len(whole) - i + 1 > MaxPending
  <2>0. MaxPending \in Nat
    BY AnsweringAssumption
  <2>1. CASE i <= n
    <3>1. Unfinished(raw, i)
      <4>1. i \in 1..l
        BY <2>1
      <4>2. \A k \in i + 1..l : k \in i + 1..Len(whole) /\ k \in 1..l
        BY <1>4
      <4>. QED
        BY <1>1, <1>4, <1>12, <4>1, <4>2 DEF Unfinished
    <3>. QED
      BY <1>2, <1>4, <2>0, <2>1, <3>1
  <2>2. CASE ~(i <= n)
    <3>1. PICK e \in 1..q : e = i - n /\ n + e = i
      BY <1>8, <2>2
    <3>2. Unfinished(text, e)
      <4>1. text[e] = LeftBracket
        <5>1. e \in 1..l - n + m
          BY <1>5, <3>1
        <5>2. text[e] = whole[n + e]
          BY <1>6, <5>1
        <5>. QED
          BY <1>12, <3>1, <5>2 DEF Unfinished
      <4>2. ASSUME NEW k \in e + 1..Len(text) PROVE text[k] \notin {LeftBracket, RightBracket}
        <5>1. n + k \in i + 1..Len(whole) /\ k \in 1..l - n + m
          BY <1>4, <1>5, <3>1
        <5>. QED
          BY <1>6, <1>12, <5>1 DEF Unfinished
      <4>. QED
        BY <4>1, <4>2 DEF Unfinished
    <3>. QED
      BY <1>4, <1>5, <1>7, <2>0, <3>1, <3>2
  <2>. QED
    BY <2>1, <2>2
<1>13. ASSUME Short(whole)
       PROVE  out \o Rewrite(SubSeq(text, 1, q)) = Rewrite(SubSeq(whole, 1, p))
  <2>1. Short(raw)
    <3>1. ASSUME NEW i \in 1..l, NEW j \in 1..l, Marker(raw, i, j) PROVE j - i <= MaxPending
      <4>1. Marker(whole, i, j)
        BY <1>4, <3>1, MarkerSame
      <4>2. i \in 1..Len(whole) /\ j \in 1..Len(whole)
        BY <1>4
      <4>. QED
        BY <1>13, <4>1, <4>2 DEF Short
    <3>. QED
      BY <1>1, <3>1 DEF Short
  <2>2. PICK u \in Seq(Tokens) : u = SubSeq(raw, 1, n) /\ Len(u) = n /\ \A k \in 1..n : u[k] = raw[k]
    <3>1. n \in 0..Len(raw)
      BY <1>1
    <3>2. /\ SubSeq(raw, 1, n) \in Seq(Tokens) /\ Len(SubSeq(raw, 1, n)) = n
          /\ \A k \in 1..n : SubSeq(raw, 1, n)[k] = raw[k]
      BY <3>1, Prefix
    <3>. QED
      BY <3>2
  <2>3. PICK v \in Seq(Tokens) : v = SubSeq(text, 1, q) /\ Len(v) = q /\ \A k \in 1..q : v[k] = text[k]
    <3>1. /\ SubSeq(text, 1, q) \in Seq(Tokens) /\ Len(SubSeq(text, 1, q)) = q
          /\ \A k \in 1..q : SubSeq(text, 1, q)[k] = text[k]
      BY <1>5, Prefix
    <3>. QED
      BY <3>1
  <2>4. /\ SubSeq(whole, 1, p) \in Seq(Tokens) /\ Len(SubSeq(whole, 1, p)) = p
        /\ \A k \in 1..p : SubSeq(whole, 1, p)[k] = whole[k]
    BY <1>8, Prefix
  <2>5. PICK uv \in Seq(Tokens) : uv = u \o v
    BY <2>2, <2>3, ConcatElements
  <2>6. Len(uv) = p /\ (\A k \in 1..n : uv[k] = u[k]) /\ \A k \in 1..q : uv[n + k] = v[k]
    <3>1. /\ Len(uv) = Len(u) + Len(v)
          /\ \A k \in 1..Len(u) : uv[k] = u[k]
          /\ \A k \in 1..Len(v) : uv[Len(u) + k] = v[k]
      BY SMTT(30), <2>2, <2>3, <2>5, ConcatElements
    <3>. QED
      BY <1>8, <2>2, <2>3, <3>1
  <2>7. ASSUME NEW k \in 1..p PROVE uv[k] = whole[k]
    <3>1. CASE k <= n
      BY <1>4, <2>2, <2>6, <3>1
    <3>2. CASE ~(k <= n)
      <4>1. PICK e \in 1..q : e = k - n /\ n + e = k
        BY <1>8, <3>2
      <4>2. e \in 1..l - n + m
        BY <1>5, <4>1
      <4>3. text[e] = whole[n + e] /\ uv[n + e] = v[e] /\ v[e] = text[e]
        BY <1>6, <2>3, <2>6, <4>2
      <4>. QED
        BY <4>1, <4>3
    <3>. QED
      BY <3>1, <3>2
  <2>8. uv = SubSeq(whole, 1, p)
    BY SMTT(30), <2>4, <2>6, <2>7, SeqEqual
  <2>9. Splits(uv, n)
    <3>1. ASSUME NEW a \in 1..p, NEW b \in 1..p, Marker(uv, a, b), a <= n, n < b PROVE FALSE
      <4>1. Marker(whole, a, b)
        <5>1. p \in Nat /\ \A k \in 1..p : whole[k] = uv[k]
          BY <2>7
        <5>. QED
          BY <3>1, <5>1, MarkerSame
      <4>2. CASE b <= l
        <5>1. whole[b] = RightBracket /\ whole[b] = raw[b]
          BY <1>4, <4>1, <4>2, MarkerIs
        <5>. QED
          BY <1>2, <3>1, <4>2, <5>1
      <4>3. CASE l < b
        <5>1. Unfinished(raw, a)
          <6>1. a \in 1..l /\ b \in Nat /\ l = Len(raw) /\ \A k \in 1..l : whole[k] = raw[k]
            BY <1>1, <1>4, <3>1
          <6>. QED
            BY <4>1, <4>3, <6>1, UnfinishedAt
        <5>2. l - a + 1 > MaxPending
          BY <1>2, <3>1, <5>1
        <5>3. b - a <= MaxPending
          BY <1>13, <4>1, a \in 1..Len(whole), b \in 1..Len(whole) DEF Short
        <5>. QED
          BY SMTT(30), <4>3, <5>2, <5>3, AnsweringAssumption
      <4>. QED
        BY <4>2, <4>3
    <3>2. \A a, b \in 1..p : Marker(uv, a, b) => b <= n \/ n < a
      <4>1. p \in Nat /\ n \in Nat
        BY <1>1, <2>4
      <4>. QED
        BY <3>1, <4>1
    <3>. QED
      BY <2>6, <3>2, Zenon DEF Splits
  <2>10. Rewrite(uv) = Rewrite(u) \o Rewrite(v)
    BY <2>2, <2>5, <2>9, RewriteSplit
  <2>11. out = Rewrite(u)
    BY <1>2, <2>1, <2>2
  <2>. QED
    BY <2>3, <2>8, <2>10, <2>11
<1>14. Len(text) - Len(HeldBack(text)) = q
  BY <1>5, <1>7
<1>. QED
  BY <1>3, <1>8, <1>9, <1>10, <1>11, <1>12, <1>13, <1>14 DEF Streamed

LEMMA StreamedEnd ==
    ASSUME NEW raw \in Seq(Tokens), NEW held \in Seq(Tokens), NEW out, Streamed(raw, held, out), Short(raw)
    PROVE  out \o Rewrite(held) = Rewrite(raw)
<1>1. PICK l \in Nat : l = Len(raw)
  OBVIOUS
<1>2. PICK n \in 0..l :
        /\ held = SubSeq(raw, n + 1, l)
        /\ Len(held) = l - n
        /\ \A k \in n + 1..l : raw[k] # RightBracket
        /\ out = Rewrite(SubSeq(raw, 1, n))
  BY <1>1 DEF Streamed
<1>3. n \in 0..Len(raw)
  BY <1>1
<1>4. /\ SubSeq(raw, 1, n) \in Seq(Tokens) /\ Len(SubSeq(raw, 1, n)) = n
      /\ \A k \in 1..n : SubSeq(raw, 1, n)[k] = raw[k]
  BY <1>3, Prefix
<1>5. PICK u \in Seq(Tokens) : u = SubSeq(raw, 1, n) /\ Len(u) = n /\ \A k \in 1..n : u[k] = raw[k]
  BY <1>4
<1>6. \A k \in 1..l - n : held[k] = raw[n + k]
  BY <1>1, <1>2, <1>3, Suffix
<1>7. u \o held = raw
  <2>1. /\ u \o held \in Seq(Tokens) /\ Len(u \o held) = Len(u) + Len(held)
        /\ \A k \in 1..Len(u) : (u \o held)[k] = u[k]
        /\ \A k \in 1..Len(held) : (u \o held)[Len(u) + k] = held[k]
    BY ConcatElements
  <2>a. Len(held) = l - n /\ Len(u) = n /\ Len(u \o held) = Len(u) + Len(held)
    BY <1>2, <1>5, <2>1
  <2>b. n + (l - n) = l
    OBVIOUS
  <2>2. Len(u \o held) = Len(raw)
    BY <1>1, <2>a, <2>b
  <2>3. ASSUME NEW k \in 1..l PROVE (u \o held)[k] = raw[k]
    <3>1. CASE k <= n
      BY <1>5, <2>1, <3>1
    <3>2. CASE ~(k <= n)
      <4>1. PICK e \in 1..l - n : n + e = k
        <5>1. k - n \in 1..l - n /\ n + (k - n) = k
          BY <3>2
        <5>. QED
          BY <5>1
      <4>2. (u \o held)[n + e] = held[e]
        BY <1>2, <1>5, <2>1
      <4>. QED
        BY <1>6, <4>1, <4>2
    <3>. QED
      BY <3>1, <3>2
  <2>. QED
    BY <1>1, <2>1, <2>2, <2>3, SeqEqual
<1>8. Splits(raw, n)
  <2>1. ASSUME NEW a \in 1..l, NEW b \in 1..l, Marker(raw, a, b), a <= n, n < b PROVE FALSE
    <3>1. raw[b] = RightBracket
      BY <2>1, MarkerIs
    <3>. QED
      BY <1>2, <2>1, <3>1
  <2>. QED
    BY <1>1, <2>1 DEF Splits
<1>9. Splits(u \o held, Len(u))
  BY <1>5, <1>7, <1>8
<1>10. Rewrite(u \o held) = Rewrite(u) \o Rewrite(held)
  BY <1>9, RewriteSplit
<1>. QED
  BY <1>2, <1>5, <1>7, <1>10

LEMMA StreamedInit == Streamed(<<>>, <<>>, <<>>)
<1>1. SubSeq(<<>>, 1, 0) = <<>> /\ Len(<<>>) = 0
  OBVIOUS
<1>2. Rewrite(<<>>) = <<>>
  <2>1. [i \in 1..0 |-> Piece(<<>>, i)] = <<>>
    OBVIOUS
  <2>. QED
    BY <1>1, <2>1, RewriteIs, FlattenEmpty
<1>3. 0 \in 0..Len(<<>>) /\ <<>> = SubSeq(<<>>, 0 + 1, Len(<<>>)) /\ Len(<<>>) = Len(<<>>) - 0
  BY <1>1
<1>4. (\A k \in 0 + 1..Len(<<>>) : <<>>[k] # RightBracket) /\ 1..0 = {}
  BY <1>1
<1>5. <<>> = Rewrite(SubSeq(<<>>, 1, 0))
  BY <1>1, <1>2
<1>. QED
  BY <1>3, <1>4, <1>5, Zenon DEF Streamed

-----------------------------------------------------------------------------
(* The strengthened invariants.                                             *)

\* What is about to be kept has a person for its owner and a conversation to
\* be kept in.
Keepers == \A r \in Req : Turn(r, "keeping") => ask[r].owner \in Owners /\ ask[r].conv \in Req

Types == TypeOK /\ Keepers

\* An answer grows with the deltas of one provider, the last of the process
\* unless another answer crossed it.
AnswerGrows(r) ==
    LET a == ask[r]
    IN  /\ a.by \subseteq {TheProvider(r)}
        /\ a.at = "asked" => a.by = {} /\ a.raw = <<>> /\ a.held = <<>> /\ a.out = <<>>
        /\ a.at = "generating" => (a.by = {} <=> a.raw = <<>>) /\ Streamed(a.raw, a.held, a.out)
        /\ a.at = "generated" => a.by # {} /\ (Short(a.raw) => a.out = Rewrite(a.raw))
        /\ (a.at \in {"generating", "generated"} /\ a.by # {} /\ ~a.crossed) => a.by = {last}
        /\ (a.at = "ready" /\ a.by # {} /\ ~a.crossed) => a.by = {a.reported}

Answers == \A r \in Req : ask[r].op = "turn" => AnswerGrows(r)

\* A conversation is started once: its request is done, and so is that of a
\* conversation an answer was kept in.
StartedOnce ==
    /\ \A c \in Req : conv[c] # None => ask[c].op = "done"
    /\ \A r \in Req : ask[r].op = "done" /\ ask[r].kept # None => ask[ask[r].kept].op = "done"
    /\ \A r \in Req : Turn(r, "keeping") /\ ask[r].conv # r =>
           /\ ask[ask[r].conv].op = "done"
           /\ conv[ask[r].conv] # None => conv[ask[r].conv].owner = ask[r].owner

Private == StartedOnce /\ TurnsKeptPrivate

-----------------------------------------------------------------------------
(* Types.                                                                   *)

LEMMA SingleSeq ==
    ASSUME NEW S, NEW x \in S
    PROVE  <<x>> \in Seq(S) /\ <<x>> # <<>> /\ Len(<<x>>) = 1
OBVIOUS

LEMMA ChainType ==
    /\ Len(Chain) \in Nat \ {0}
    /\ \A i \in 1..Len(Chain) : Chain[i] \in Providers
<1>. DEFINE single == [i \in 1..Len(Configured) |->
                          IF Built(Configured[i]) /\ \A j \in 1..i - 1 : Configured[j] # Configured[i]
                          THEN <<Configured[i]>> ELSE <<>>]
            names == FlattenSeq(single)
<1>a. PICK S : Configured \in Seq(S) /\ "mock" \in S
  <2>1. Configured \in Seq(STRING)
    BY AnsweringAssumption
  <2>2. \A U, V : U \subseteq V => Seq(U) \subseteq Seq(V)
    BY SeqMonotonic
  <2>3. Configured \in Seq(STRING \cup {"mock"})
    BY <2>1, <2>2, Zenon
  <2>4. "mock" \in STRING \cup {"mock"}
    OBVIOUS
  <2>. QED
    BY <2>3, <2>4, Zenon
<1>1. single \in Seq(Seq(S))
  <2>1. Len(Configured) \in Nat /\ \A i \in 1..Len(Configured) : Configured[i] \in S
    BY <1>a
  <2>2. \A i \in 1..Len(Configured) : single[i] \in Seq(S)
    BY <2>1, SingleSeq, EmptySeq
  <2>3. single \in [1..Len(Configured) -> Seq(S)]
    BY <2>2
  <2>. HIDE DEF single
  <2>. QED
    BY <2>1, <2>3
<1>2. names \in Seq(S)
  BY <1>1, FlattenType
<1>3. Chain = IF names = <<>> THEN <<"mock">> ELSE names
  BY DEF Chain
<1>. HIDE DEF names
<1>4. <<"mock">> \in Seq(S) /\ <<"mock">> # <<>>
  BY <1>a, SingleSeq
<1>5. Chain \in Seq(S) /\ Chain # <<>>
  BY <1>2, <1>3, <1>4
<1>6. Len(Chain) \in Nat \ {0} /\ DOMAIN Chain = 1..Len(Chain)
  BY <1>5, EmptySeq, LenProperties
<1>. QED
  BY <1>6 DEF Providers, ToSet

LEMMA BusyType ==
    ASSUME TypeOK
    PROVE  Busy \in Nat /\ produced <= Busy
<1>1. Cardinality({r \in Req : ask[r] # Idle}) \in Nat
  <2>1. IsFiniteSet({r \in Req : ask[r] # Idle})
    BY AnsweringAssumption, FS_Subset
  <2>. QED
    BY <2>1, FS_CardinalityType
<1>2. produced \in Nat
  BY AnsweringAssumption DEF TypeOK
<1>. QED
  BY <1>1, <1>2 DEF Busy

LEMMA DeltaType ==
    ASSUME NEW d \in Deltas
    PROVE  d \in Seq(Tokens) /\ d # <<>> /\ Len(d) \in Nat
<1>1. PICK n \in 1..MaxDelta : d \in [1..n -> Tokens]
  BY DEF Deltas
<1>2. n \in Nat /\ n # 0
  BY <1>1, AnsweringAssumption
<1>3. d \in Seq(Tokens) /\ Len(d) = n
  BY <1>1, <1>2
<1>. QED
  BY <1>2, <1>3

Asked == Turns \cup Edits \cup {Idle} \cup {Done(c) : c \in Req \cup {None}}

LEMMA TurnIs ==
    ASSUME TypeOK, NEW r \in Req
    PROVE  /\ ask[r].op = "turn" => ask[r] \in Turns
           /\ ask[r].op \in {"rename", "delete"} => ask[r] \in Edits
           /\ ask[r].op = "done" => \E c \in Req \cup {None} : ask[r] = Done(c)
BY DEF TypeOK, Turns, Edits, Idle, Done

LEMMA Recorded ==
    ASSUME NEW t \in Turns
    PROVE  /\ \A at \in {"asked", "generating", "generated", "ready", "keeping"} : [t EXCEPT !.at = at] \in Turns
           /\ [t EXCEPT !.crossed = TRUE] \in Turns
           /\ t.op = "turn"
BY ZenonT(40) DEF Turns

LEMMA CrossOthersType ==
    ASSUME TypeOK, NEW r \in Req
    PROVE  CrossOthers(r) \in [Req -> Asked] /\ CrossOthers(r)[r] = ask[r]
<1>1. ASSUME NEW q \in Req PROVE CrossOthers(r)[q] \in Asked
  <2>1. ask[q] \in Asked
    BY DEF TypeOK, Asked
  <2>2. ask[q].op = "turn" => [ask[q] EXCEPT !.crossed = TRUE] \in Asked
    BY TurnIs, Recorded DEF Asked
  <2>. QED
    BY <2>1, <2>2 DEF CrossOthers
<1>. QED
  BY <1>1 DEF CrossOthers

\* A step of request r: the others stay, or are crossed.
Crossed(q) ==
    /\ ask[q].op = "turn" /\ ask[q].by # {} /\ ask[q].at \in {"generating", "generated"}
    /\ ask'[q] = [ask[q] EXCEPT !.crossed = TRUE]

Moves(r) ==
    /\ ask' \in [Req -> Asked]
    /\ \A q \in Req \ {r} : ask'[q] = ask[q] \/ Crossed(q)

LEMMA AskSet ==
    ASSUME TypeOK, NEW r \in Req, NEW v \in Asked, ask' = [ask EXCEPT ![r] = v]
    PROVE  Moves(r) /\ ask'[r] = v /\ \A q \in Req \ {r} : ask'[q] = ask[q]
BY DEF TypeOK, Asked, Moves

LEMMA AskCrossed ==
    ASSUME TypeOK, NEW r \in Req, NEW v \in Asked, ask' = [CrossOthers(r) EXCEPT ![r] = v]
    PROVE  Moves(r) /\ ask'[r] = v
           /\ \A q \in Req \ {r} : (ask[q].op = "turn" /\ ask[q].by # {} /\ ask[q].at \in {"generating", "generated"})
                                       => Crossed(q)
<1>1. CrossOthers(r) \in [Req -> Asked]
  BY CrossOthersType
<1>2. ask' \in [Req -> Asked] /\ ask'[r] = v /\ \A q \in Req \ {r} : ask'[q] = CrossOthers(r)[q]
  BY <1>1
<1>3. ASSUME NEW q \in Req \ {r}
      PROVE  /\ ask'[q] = ask[q] \/ Crossed(q)
             /\ (ask[q].op = "turn" /\ ask[q].by # {} /\ ask[q].at \in {"generating", "generated"}) => Crossed(q)
  BY <1>2 DEF CrossOthers, Crossed
<1>. QED
  BY <1>2, <1>3 DEF Moves

LEMMA FinishIs ==
    ASSUME TypeOK, NEW r \in Req, NEW c \in Req \cup {None}, Finish(r, c)
    PROVE  Moves(r) /\ ask'[r] = Done(c) /\ \A q \in Req \ {r} : ask'[q] = ask[q]
BY AskSet DEF Finish, Asked

LEMMA NextProviderIs ==
    ASSUME TypeOK, NEW r \in Req, ask[r].op = "turn", NextProvider(r)
    PROVE  /\ Moves(r) /\ \A q \in Req \ {r} : ask'[q] = ask[q]
           /\ \/ ask'[r] = Done(None)
              \/ ask'[r] = [ask[r] EXCEPT !.provider = ask[r].provider + 1]
<1>1. CASE ask[r].provider = Len(Chain)
  <2>1. Finish(r, None)
    BY <1>1 DEF NextProvider
  <2>. QED
    BY <2>1, FinishIs
<1>2. CASE ask[r].provider # Len(Chain)
  <2>1. ask' = [ask EXCEPT ![r] = [ask[r] EXCEPT !.provider = ask[r].provider + 1]]
    BY <1>2 DEF NextProvider
  <2>2. ask[r] \in Turns
    BY TurnIs
  <2>3. ask[r].provider + 1 \in 1..Len(Chain)
    BY <1>2, <2>2, ChainType DEF Turns
  <2>4. [ask[r] EXCEPT !.provider = ask[r].provider + 1] \in Turns
    BY <2>2, <2>3 DEF Turns
  <2>. QED
    BY <2>1, <2>4, AskSet DEF Asked
<1>. QED
  BY <1>1, <1>2

-----------------------------------------------------------------------------
(* What each step makes of its request.                                     *)

\* Request r asks, with the turns of a conversation of its own.
Asks(r, c, o) ==
    /\ Moves(r) /\ \A q \in Req \ {r} : ask'[q] = ask[q]
    /\ ask[r] = Idle
    /\ ask'[r].op = "turn" /\ ask'[r].at = "asked" /\ ask'[r].owner = o /\ ask'[r].by = {}
    /\ ask'[r].hist = (IF Owned(c, o) THEN conv[c].turns ELSE {})
    /\ ask'[r].raw = <<>> /\ ask'[r].held = <<>> /\ ask'[r].out = <<>>

LEMMA AskIs ==
    ASSUME TypeOK, NEW r \in Req, NEW c \in Req \cup {None}, NEW o \in Owners \cup {Visitor},
           NEW s \in BOOLEAN, Ask(r, o, c, s)
    PROVE  Asks(r, c, o)
<1>. DEFINE hist == IF Owned(c, o) THEN conv[c].turns ELSE {}
            t == [op |-> "turn", at |-> "asked", owner |-> o, conv |-> c, stream |-> s, hist |-> hist,
                  provider |-> 1, raw |-> <<>>, held |-> <<>>, out |-> <<>>, by |-> {}, reported |-> None,
                  crossed |-> FALSE, empty |-> TRUE]
<1>1. hist \in SUBSET (Req \X Owners)
  <2>1. CASE Owned(c, o)
    <3>1. conv[c] \in Conversation
      BY <2>1 DEF Owned, TypeOK
    <3>. QED
      BY <2>1, <3>1 DEF Conversation
  <2>2. CASE ~Owned(c, o)
    BY <2>2
  <2>. QED
    BY <2>1, <2>2
<1>2. ask' = [ask EXCEPT ![r] = t]
  BY DEF Ask
<1>. HIDE DEF hist
<1>3. t \in Turns
  BY <1>1, ChainType, EmptySeq DEF Turns, Text
<1>. HIDE DEF t
<1>4. Moves(r) /\ ask'[r] = t /\ \A q \in Req \ {r} : ask'[q] = ask[q]
  BY <1>2, <1>3, AskSet DEF Asked
<1>5. ask[r] = Idle
  BY DEF Ask, Starts
<1>6. /\ t.op = "turn" /\ t.at = "asked" /\ t.owner = o /\ t.by = {} /\ t.hist = hist
      /\ t.raw = <<>> /\ t.held = <<>> /\ t.out = <<>>
  BY DEF t
<1>. QED
  BY <1>4, <1>5, <1>6 DEF hist, Asks

\* Request r goes on, and stays whose it is.
GoesOn(r) ==
    /\ ask'[r].op = "turn" /\ ask'[r].owner = ask[r].owner /\ ask'[r].conv = ask[r].conv
    /\ ask'[r].hist = ask[r].hist /\ ask'[r].provider = ask[r].provider /\ ask'[r].crossed = ask[r].crossed

LEMMA ShortcutIs ==
    ASSUME TypeOK, NEW r \in Req, Shortcut(r)
    PROVE  /\ Moves(r) /\ GoesOn(r) /\ \A q \in Req \ {r} : ask'[q] = ask[q]
           /\ ask'[r].at = "ready" /\ ask'[r].by = ask[r].by /\ ask'[r].raw = ask[r].raw
<1>1. ask' = [ask EXCEPT ![r] = [ask[r] EXCEPT !.at = "ready"]]
  BY DEF Shortcut
<1>2. [ask[r] EXCEPT !.at = "ready"] \in Asked
  BY TurnIs, Recorded DEF Shortcut, Turn, Asked
<1>3. /\ Moves(r) /\ \A q \in Req \ {r} : ask'[q] = ask[q]
      /\ ask'[r] = [ask[r] EXCEPT !.at = "ready"]
  BY <1>1, <1>2, AskSet
<1>4. ask[r] \in Turns
  BY TurnIs DEF Shortcut, Turn
<1>. QED
  BY <1>3, <1>4 DEF GoesOn, Turns

LEMMA PrepareIs ==
    ASSUME TypeOK, NEW r \in Req, Prepare(r)
    PROVE  /\ Moves(r) /\ GoesOn(r)
           /\ ask'[r].at = "generating" /\ ask'[r].by = ask[r].by /\ ask'[r].raw = ask[r].raw
           /\ ask'[r].held = ask[r].held /\ ask'[r].out = ask[r].out
           /\ \/ UNCHANGED last /\ \A q \in Req \ {r} : ask'[q] = ask[q]
              \/ \A q \in Req \ {r} : (ask[q].op = "turn" /\ ask[q].by # {} /\ ask[q].at \in {"generating", "generated"})
                                          => Crossed(q)
           /\ last' \in Providers \cup {None}
<1>1. [ask[r] EXCEPT !.at = "generating"] \in Asked
  BY TurnIs, Recorded DEF Prepare, Turn, Asked
<1>a. ask[r] \in Turns
  BY TurnIs DEF Prepare, Turn
<1>b. ASSUME ask'[r] = [ask[r] EXCEPT !.at = "generating"]
      PROVE  /\ GoesOn(r) /\ ask'[r].at = "generating" /\ ask'[r].by = ask[r].by /\ ask'[r].raw = ask[r].raw
             /\ ask'[r].held = ask[r].held /\ ask'[r].out = ask[r].out
  BY <1>a, <1>b DEF GoesOn, Turns
<1>2. CASE UNCHANGED last /\ ask' = [ask EXCEPT ![r].at = "generating"]
  <2>1. ask' = [ask EXCEPT ![r] = [ask[r] EXCEPT !.at = "generating"]]
    BY <1>2
  <2>. QED
    BY <1>1, <1>2, <1>b, <2>1, AskSet DEF TypeOK
<1>3. CASE (\E p \in Providers : RecordChat(p)) /\ ask' = [CrossOthers(r) EXCEPT ![r].at = "generating"]
  <2>1. ask' = [CrossOthers(r) EXCEPT ![r] = [ask[r] EXCEPT !.at = "generating"]]
    BY <1>3, CrossOthersType
  <2>. QED
    BY <1>1, <1>3, <1>b, <2>1, AskCrossed DEF RecordChat
<1>. QED
  BY <1>2, <1>3 DEF Prepare

LEMMA CompleteIs ==
    ASSUME TypeOK, NEW r \in Req, NEW t \in Tokens, Complete(r, t)
    PROVE  /\ Moves(r) /\ last' = TheProvider(r) /\ TheProvider(r) \in Providers
           /\ GoesOn(r) /\ ask'[r].at = "generated" /\ ask'[r].raw = <<t>> /\ ask'[r].out = Rewrite(<<t>>)
           /\ ask'[r].by = {TheProvider(r)}
           /\ \A q \in Req \ {r} : (ask[q].op = "turn" /\ ask[q].by # {} /\ ask[q].at \in {"generating", "generated"})
                                       => Crossed(q)
<1>. DEFINE v == [ask[r] EXCEPT !.at = "generated", !.raw = <<t>>, !.out = Rewrite(<<t>>), !.by = {TheProvider(r)}]
<1>1. ask[r] \in Turns
  BY TurnIs DEF Complete, Turn
<1>2. TheProvider(r) \in Providers
  BY <1>1, ChainType DEF Turns, TheProvider
<1>3. <<t>> \in Seq(Tokens)
  BY SingleSeq
<1>4. Rewrite(<<t>>) \in Text
  BY <1>3, RewriteType DEF Text, Outs
<1>5. v \in Turns
  BY <1>1, <1>2, <1>3, <1>4 DEF Turns
<1>6. ask' = [CrossOthers(r) EXCEPT ![r] = v]
  BY CrossOthersType DEF Complete
<1>. HIDE DEF v
<1>7. v \in Asked /\ last' = TheProvider(r)
  BY <1>5 DEF Asked, Complete, RecordChat
<1>8. /\ Moves(r) /\ ask'[r] = v
      /\ \A q \in Req \ {r} : (ask[q].op = "turn" /\ ask[q].by # {} /\ ask[q].at \in {"generating", "generated"})
                                  => Crossed(q)
  BY <1>6, <1>7, AskCrossed
<1>9. /\ GoesOn(r) /\ ask'[r].at = "generated" /\ ask'[r].raw = <<t>> /\ ask'[r].out = Rewrite(<<t>>)
      /\ ask'[r].by = {TheProvider(r)}
  BY <1>1, <1>8 DEF v, GoesOn, Turns
<1>. QED
  BY <1>2, <1>7, <1>8, <1>9

LEMMA DeltaIs ==
    ASSUME TypeOK, NEW r \in Req, NEW d \in Deltas, Delta(r, d)
    PROVE  LET text == ask[r].held \o d
               held == HeldBack(text)
           IN  /\ Moves(r) /\ ask[r] \in Turns /\ TheProvider(r) \in Providers
               /\ GoesOn(r) /\ ask'[r].at = ask[r].at /\ ask'[r].raw = ask[r].raw \o d /\ ask'[r].held = held
               /\ ask'[r].out = ask[r].out \o Rewrite(SubSeq(text, 1, Len(text) - Len(held)))
               /\ ask'[r].by = ask[r].by \cup {TheProvider(r)}
               /\ ask[r].raw = <<>> =>
                    /\ last' = TheProvider(r)
                    /\ \A q \in Req \ {r} : (ask[q].op = "turn" /\ ask[q].by # {} /\ ask[q].at \in {"generating", "generated"})
                                                => Crossed(q)
               /\ ask[r].raw # <<>> => last' = last /\ \A q \in Req \ {r} : ask'[q] = ask[q]
<1>. DEFINE text == ask[r].held \o d
            held == HeldBack(text)
            raw == ask[r].raw \o d
            more == Rewrite(SubSeq(text, 1, Len(text) - Len(held)))
            out == ask[r].out \o more
            by == ask[r].by \cup {TheProvider(r)}
            v == [ask[r] EXCEPT !.raw = raw, !.held = held, !.out = out, !.by = by]
<1>1. ask[r] \in Turns
  <2>1. Turn(r, "generating")
    BY Zenon DEF Delta
  <2>. QED
    BY <2>1, TurnIs DEF Turn
<1>2. TheProvider(r) \in Providers
  BY <1>1, ChainType DEF Turns, TheProvider
<1>3. d \in Seq(Tokens)
  BY DeltaType
<1>4. text \in Seq(Tokens) /\ raw \in Seq(Tokens)
  BY <1>1, <1>3, ConcatProperties DEF Turns
<1>5. held \in Seq(Tokens) /\ SubSeq(text, 1, Len(text) - Len(held)) \in Seq(Tokens)
  <2>. HIDE DEF text
  <2>1. PICK n \in 0..Len(text) : held \in Seq(Tokens) /\ Len(held) = Len(text) - n
    BY <1>4, HeldBackIs
  <2>2. Len(text) - Len(held) = n
    BY <1>4, <2>1
  <2>. QED
    BY <1>4, <2>1, <2>2, Prefix
<1>6. out \in Text
  <2>1. more \in Seq(Outs)
    BY <1>5, RewriteType
  <2>2. ask[r].out \in Seq(Outs)
    BY <1>1 DEF Turns, Text, Outs
  <2>. HIDE DEF more
  <2>. QED
    BY <2>1, <2>2, ConcatProperties DEF Text, Outs
<1>7. by \in SUBSET Providers
  BY <1>1, <1>2 DEF Turns
<1>8. v \in Turns
  <2>. HIDE DEF raw, held, out, by
  <2>. QED
    BY <1>1, <1>4, <1>5, <1>6, <1>7 DEF Turns
<1>9. v \in Asked
  BY <1>8 DEF Asked
<1>a. ASSUME ask'[r] = v
      PROVE  GoesOn(r) /\ ask'[r].at = ask[r].at /\ ask'[r].raw = raw /\ ask'[r].held = held
             /\ ask'[r].out = out /\ ask'[r].by = by
  <2>. HIDE DEF raw, held, out, by
  <2>. QED
    BY <1>1, <1>a DEF GoesOn, Turns
<1>10. CASE ask[r].raw = <<>>
  <2>1. ask' = [CrossOthers(r) EXCEPT ![r] = v] /\ last' = TheProvider(r)
    BY <1>10, CrossOthersType DEF Delta
  <2>. HIDE DEF v
  <2>2. /\ Moves(r) /\ ask'[r] = v
        /\ \A q \in Req \ {r} : (ask[q].op = "turn" /\ ask[q].by # {} /\ ask[q].at \in {"generating", "generated"})
                                    => Crossed(q)
    BY <1>9, <2>1, AskCrossed
  <2>. QED
    BY <1>1, <1>2, <1>10, <1>a, <2>1, <2>2
<1>11. CASE ask[r].raw # <<>>
  <2>1. ask' = [ask EXCEPT ![r] = v] /\ last' = last
    BY <1>11 DEF Delta
  <2>. HIDE DEF v
  <2>2. Moves(r) /\ ask'[r] = v /\ \A q \in Req \ {r} : ask'[q] = ask[q]
    BY <1>9, <2>1, AskSet
  <2>. QED
    BY <1>1, <1>2, <1>11, <1>a, <2>1, <2>2
<1>. QED
  BY <1>10, <1>11

LEMMA StreamEndsIs ==
    ASSUME TypeOK, NEW r \in Req, StreamEnds(r), ask[r].raw # <<>>
    PROVE  /\ Moves(r) /\ \A q \in Req \ {r} : ask'[q] = ask[q]
           /\ GoesOn(r) /\ ask'[r].at = "generated" /\ ask'[r].raw = ask[r].raw /\ ask'[r].by = ask[r].by
           /\ ask'[r].out = ask[r].out \o Rewrite(ask[r].held)
<1>. DEFINE out == ask[r].out \o Rewrite(ask[r].held)
            v == [ask[r] EXCEPT !.at = "generated", !.out = out, !.held = <<>>]
<1>1. ask[r] \in Turns
  BY TurnIs DEF StreamEnds, Turn
<1>2. out \in Text
  <2>1. Rewrite(ask[r].held) \in Seq(Outs) /\ ask[r].out \in Seq(Outs)
    BY <1>1, RewriteType DEF Turns, Text, Outs
  <2>. QED
    BY <2>1, ConcatProperties DEF Text, Outs
<1>3. ask' = [ask EXCEPT ![r] = v]
  BY DEF StreamEnds
<1>4. v \in Asked
  <2>. HIDE DEF out
  <2>. QED
    BY ZenonT(40), <1>1, <1>2, EmptySeq DEF Turns, Asked
<1>. HIDE DEF v
<1>5. Moves(r) /\ ask'[r] = v /\ \A q \in Req \ {r} : ask'[q] = ask[q]
  BY <1>3, <1>4, AskSet
<1>6. /\ GoesOn(r) /\ ask'[r].at = "generated" /\ ask'[r].raw = ask[r].raw /\ ask'[r].by = ask[r].by
      /\ ask'[r].out = out
  <2>. HIDE DEF out
  <2>. QED
    BY <1>1, <1>5 DEF v, GoesOn, Turns
<1>. QED
  BY <1>5, <1>6

LEMMA RecordIs ==
    ASSUME TypeOK, NEW r \in Req, Record(r)
    PROVE  /\ Moves(r) /\ \A q \in Req \ {r} : ask'[q] = ask[q]
           /\ GoesOn(r) /\ ask'[r].at = "ready" /\ ask'[r].reported = last /\ ask'[r].by = ask[r].by
<1>1. ask[r] \in Turns
  BY TurnIs DEF Record, Turn
<1>2. [ask[r] EXCEPT !.at = "ready", !.reported = last] \in Asked
  BY ZenonT(40), <1>1 DEF Turns, Asked, TypeOK
<1>3. ask' = [ask EXCEPT ![r] = [ask[r] EXCEPT !.at = "ready", !.reported = last]]
  BY DEF Record
<1>4. /\ Moves(r) /\ \A q \in Req \ {r} : ask'[q] = ask[q]
      /\ ask'[r] = [ask[r] EXCEPT !.at = "ready", !.reported = last]
  BY <1>2, <1>3, AskSet
<1>. QED
  BY <1>1, <1>4 DEF GoesOn, Turns

LEMMA PersistReadIs ==
    ASSUME TypeOK, NEW r \in Req, PersistRead(r)
    PROVE  LET own == Owned(ask[r].conv, ask[r].owner)
           IN  /\ Moves(r) /\ \A q \in Req \ {r} : ask'[q] = ask[q]
               /\ ask'[r].op = "turn" /\ ask'[r].at = "keeping" /\ ask'[r].owner = ask[r].owner
               /\ ask'[r].hist = ask[r].hist /\ ask'[r].by = ask[r].by /\ ask'[r].provider = ask[r].provider
               /\ ask'[r].conv = IF own THEN ask[r].conv ELSE r
               /\ ask[r].owner \in Owners
               /\ own => ask[r].conv \in Req
<1>. DEFINE own == Owned(ask[r].conv, ask[r].owner)
            c == IF own THEN ask[r].conv ELSE r
            empty == ~own \/ conv[ask[r].conv].turns = {}
            v == [ask[r] EXCEPT !.at = "keeping", !.conv = c, !.empty = empty]
<1>1. ask[r] \in Turns
  BY TurnIs DEF PersistRead, Turn
<1>2. own => ask[r].conv \in Req
  BY <1>1 DEF Owned, Turns
<1>3. c \in Req
  BY <1>2
<1>4. empty \in BOOLEAN
  OBVIOUS
<1>5. ask' = [ask EXCEPT ![r] = v]
  BY DEF PersistRead
<1>6. v \in Asked
  <2>. HIDE DEF own, c, empty
  <2>. QED
    BY ZenonT(40), <1>1, <1>3, <1>4 DEF Turns, Asked
<1>7. ask[r].owner \in Owners
  BY <1>1 DEF PersistRead, Turns
<1>. HIDE DEF v
<1>8. Moves(r) /\ ask'[r] = v /\ \A q \in Req \ {r} : ask'[q] = ask[q]
  BY <1>5, <1>6, AskSet
<1>9. /\ ask'[r].op = "turn" /\ ask'[r].at = "keeping" /\ ask'[r].owner = ask[r].owner
      /\ ask'[r].hist = ask[r].hist /\ ask'[r].by = ask[r].by /\ ask'[r].provider = ask[r].provider
      /\ ask'[r].conv = c
  <2>. HIDE DEF c, empty
  <2>. QED
    BY <1>1, <1>8 DEF v, Turns
<1>. QED
  BY <1>2, <1>7, <1>8, <1>9

-----------------------------------------------------------------------------
(* Type correctness.                                                        *)

LEMMA CrossedSame ==
    ASSUME TypeOK, NEW q \in Req, Crossed(q)
    PROVE  /\ ask'[q].op = "turn" /\ ask'[q].at = ask[q].at /\ ask'[q].owner = ask[q].owner
           /\ ask'[q].conv = ask[q].conv /\ ask'[q].hist = ask[q].hist /\ ask'[q].by = ask[q].by
           /\ ask'[q].raw = ask[q].raw /\ ask'[q].held = ask[q].held /\ ask'[q].out = ask[q].out
           /\ ask'[q].provider = ask[q].provider /\ ask'[q].reported = ask[q].reported
           /\ ask'[q].stream = ask[q].stream /\ ask'[q].crossed = TRUE
<1>1. ask[q] \in Turns
  BY TurnIs DEF Crossed
<1>. QED
  BY <1>1 DEF Crossed, Turns

LEMMA KeepersMoves ==
    ASSUME Types, NEW r \in Req, Moves(r),
           (ask'[r].op = "turn" /\ ask'[r].at = "keeping") => ask'[r].owner \in Owners /\ ask'[r].conv \in Req
    PROVE  Keepers'
<1>1. ASSUME NEW q \in Req, ask'[q].op = "turn", ask'[q].at = "keeping"
      PROVE  ask'[q].owner \in Owners /\ ask'[q].conv \in Req
  <2>1. CASE q = r
    BY <1>1, <2>1
  <2>2. CASE q # r /\ ask'[q] = ask[q]
    BY <1>1, <2>2 DEF Types, Keepers, Turn
  <2>3. CASE q # r /\ Crossed(q)
    BY <1>1, <2>3, CrossedSame DEF Types, Crossed
  <2>. QED
    BY <2>1, <2>2, <2>3 DEF Moves
<1>. QED
  BY <1>1 DEF Keepers, Turn

LEMMA TypeMoves ==
    ASSUME Types, NEW r \in Req, Moves(r), UNCHANGED <<conv, last, produced>>,
           (ask'[r].op = "turn" /\ ask'[r].at = "keeping") => ask'[r].owner \in Owners /\ ask'[r].conv \in Req
    PROVE  Types'
<1>1. ask' \in [Req -> Asked]
  BY DEF Moves
<1>2. TypeOK'
  BY <1>1 DEF Types, TypeOK, Asked
<1>. QED
  BY <1>2, KeepersMoves DEF Types

LEMMA DoneKeeps ==
    ASSUME NEW r \in Req, NEW c, ask'[r] = Done(c)
    PROVE  ask'[r].op = "done" /\ ask'[r].op # "turn"
BY DEF Done

LEMMA FinishType ==
    ASSUME Types, NEW r \in Req, NEW c \in Req \cup {None}, Finish(r, c), UNCHANGED <<conv, last, produced>>
    PROVE  Types'
BY FinishIs, DoneKeeps, TypeMoves DEF Types

LEMMA NextProviderType ==
    ASSUME Types, NEW r \in Req, Turn(r, "generating"), NextProvider(r), UNCHANGED <<conv, last, produced>>
    PROVE  Types'
<1>1. /\ Moves(r)
      /\ \/ ask'[r] = Done(None)
         \/ ask'[r] = [ask[r] EXCEPT !.provider = ask[r].provider + 1]
  BY NextProviderIs DEF Types, Turn
<1>2. ask[r] \in Turns
  BY TurnIs DEF Types, Turn
<1>3. CASE ask'[r] = Done(None)
  BY <1>1, <1>3, DoneKeeps, TypeMoves
<1>4. CASE ask'[r] = [ask[r] EXCEPT !.provider = ask[r].provider + 1]
  <2>1. ask'[r].at = "generating"
    BY <1>2, <1>4 DEF Turn, Turns
  <2>. QED
    BY <1>1, <2>1, TypeMoves
<1>. QED
  BY <1>1, <1>3, <1>4

LEMMA CompleteType ==
    ASSUME Types, NEW r \in Req, NEW t \in Tokens, Complete(r, t)
    PROVE  Types'
<1>1. TypeOK
  BY DEF Types
<1>2. Moves(r) /\ last' = TheProvider(r) /\ TheProvider(r) \in Providers
  BY <1>1, CompleteIs
<1>5. ask'[r].at = "generated"
  BY <1>1, CompleteIs
<1>6. Keepers'
  BY <1>2, <1>5, KeepersMoves
<1>7. produced' \in 0..Work
  <2>1. produced \in Nat /\ Work \in Nat
    BY <1>1, AnsweringAssumption DEF TypeOK
  <2>2. Busy < Work /\ produced' = produced + 1
    BY DEF Complete
  <2>. QED
    BY <1>1, <2>1, <2>2, BusyType
<1>8. conv' = conv
  BY DEF Complete
<1>9. ask' \in [Req -> Asked]
  BY <1>2 DEF Moves
<1>10. TypeOK'
  BY <1>1, <1>2, <1>7, <1>8, <1>9 DEF TypeOK, Asked
<1>. QED
  BY <1>6, <1>10 DEF Types

LEMMA DeltaTypes ==
    ASSUME Types, NEW r \in Req, NEW d \in Deltas, Delta(r, d)
    PROVE  Types'
<1>1. TypeOK
  BY DEF Types
<1>a. Turn(r, "generating") /\ Busy + Len(d) <= Work /\ produced' = produced + Len(d) /\ conv' = conv
  BY Zenon DEF Delta
<1>2. Moves(r) /\ ask[r] \in Turns /\ last' \in Providers \cup {None}
  BY <1>1, DeltaIs DEF TypeOK
<1>5. ask'[r].at = "generating"
  BY <1>1, <1>a, DeltaIs DEF Turn
<1>6. Keepers'
  BY <1>2, <1>5, KeepersMoves
<1>7. produced' \in 0..Work
  <2>1. produced \in Nat /\ Work \in Nat /\ Len(d) \in Nat
    BY <1>1, AnsweringAssumption, DeltaType DEF TypeOK
  <2>. QED
    BY <1>1, <1>a, <2>1, BusyType
<1>9. ask' \in [Req -> Asked]
  BY <1>2 DEF Moves
<1>10. TypeOK'
  BY <1>1, <1>2, <1>7, <1>a, <1>9 DEF TypeOK, Asked
<1>. QED
  BY <1>6, <1>10 DEF Types

LEMMA CommitIs ==
    ASSUME Types, NEW r \in Req, PersistCommit(r)
    PROVE  /\ Turn(r, "keeping") /\ ask[r].owner \in Owners /\ ask[r].conv \in Req
           /\ Moves(r) /\ (ask'[r] = Done(ask[r].conv) \/ ask'[r] = Done(None))
           /\ \A q \in Req \ {r} : ask'[q] = ask[q]
<1>1. Turn(r, "keeping") /\ ask[r].owner \in Owners /\ ask[r].conv \in Req
  BY DEF PersistCommit, Types, Keepers
<1>2. Finish(r, ask[r].conv) \/ Finish(r, None)
  BY DEF PersistCommit
<1>. QED
  BY <1>1, <1>2, FinishIs DEF Types

LEMMA CommitType ==
    ASSUME Types, NEW r \in Req, PersistCommit(r)
    PROVE  Types'
<1>1. TypeOK
  BY DEF Types
<1>2. /\ ask[r].owner \in Owners /\ ask[r].conv \in Req
      /\ Moves(r) /\ (ask'[r] = Done(ask[r].conv) \/ ask'[r] = Done(None))
  BY CommitIs
<1>3. conv' \in [Req -> Conversation \cup {None}]
  <2>1. TheTurn(r) \in Req \X Owners
    BY <1>2 DEF TheTurn
  <2>2. CASE conv' = [conv EXCEPT ![r] = [owner |-> ask[r].owner, turns |-> {TheTurn(r)}, title |-> "auto"]]
    <3>1. [owner |-> ask[r].owner, turns |-> {TheTurn(r)}, title |-> "auto"] \in Conversation
      BY <1>2, <2>1 DEF Conversation
    <3>. QED
      BY <1>1, <2>2, <3>1 DEF TypeOK
  <2>3. CASE conv[ask[r].conv] # None
             /\ conv' = [conv EXCEPT ![ask[r].conv].turns = @ \cup {TheTurn(r)},
                                     ![ask[r].conv].title = IF ask[r].empty THEN "auto" ELSE @]
    <3>1. conv[ask[r].conv] \in Conversation
      BY <1>1, <1>2, <2>3 DEF TypeOK
    <3>2. PICK title \in {"none", "auto", "chosen"} :
             conv' = [conv EXCEPT ![ask[r].conv] = [conv[ask[r].conv] EXCEPT !.turns = @ \cup {TheTurn(r)}, !.title = title]]
      <4>1. CASE ask[r].empty
        BY <1>1, <1>2, <2>3, <4>1 DEF TypeOK
      <4>2. CASE ~ask[r].empty
        BY <1>1, <1>2, <2>3, <3>1, <4>2 DEF TypeOK, Conversation
      <4>. QED
        BY <4>1, <4>2
    <3>3. [conv[ask[r].conv] EXCEPT !.turns = @ \cup {TheTurn(r)}, !.title = title] \in Conversation
      BY <2>1, <3>1 DEF Conversation
    <3>. QED
      BY <1>1, <1>2, <3>2, <3>3 DEF TypeOK
  <2>4. CASE conv' = conv
    BY <1>1, <2>4 DEF TypeOK
  <2>. QED
    BY <2>2, <2>3, <2>4 DEF PersistCommit
<1>4. Keepers'
  BY <1>2, DoneKeeps, KeepersMoves
<1>5. ask' \in [Req -> Asked] /\ UNCHANGED <<last, produced>>
  BY <1>2 DEF Moves, PersistCommit
<1>6. TypeOK'
  BY <1>1, <1>3, <1>5 DEF TypeOK, Asked
<1>. QED
  BY <1>4, <1>6 DEF Types

LEMMA AnswerType ==
    ASSUME Types, NEW r \in Req, Answer(r)
    PROVE  Types'
<1>1. TypeOK
  BY DEF Types
<1>2. CASE Shortcut(r)
  BY <1>1, <1>2, ShortcutIs, TypeMoves DEF Shortcut
<1>3. CASE Prepare(r)
  <2>1. /\ Moves(r) /\ ask'[r].at = "generating" /\ last' \in Providers \cup {None}
    BY <1>1, <1>3, PrepareIs
  <2>2. Keepers'
    BY <2>1, KeepersMoves
  <2>3. UNCHANGED <<conv, produced>> /\ ask' \in [Req -> Asked]
    BY <1>3, <2>1 DEF Prepare, Moves
  <2>4. TypeOK'
    BY <1>1, <2>1, <2>3 DEF TypeOK, Asked
  <2>. QED
    BY <2>2, <2>4 DEF Types
<1>4. CASE \E t \in Tokens : Complete(r, t)
  BY <1>4, CompleteType
<1>5. CASE \E d \in Deltas : Delta(r, d)
  BY <1>5, DeltaTypes
<1>6. CASE ProviderFails(r)
  <2>1. Turn(r, "generating") /\ UNCHANGED <<conv, last, produced>> /\ (NextProvider(r) \/ Finish(r, None))
    BY <1>6 DEF ProviderFails
  <2>. QED
    BY <2>1, NextProviderType, FinishType
<1>7. CASE StreamEnds(r)
  <2>1. Turn(r, "generating") /\ UNCHANGED <<conv, last, produced>>
    BY <1>7 DEF StreamEnds
  <2>2. CASE ask[r].raw = <<>>
    <3>1. NextProvider(r)
      BY <1>7, <2>2 DEF StreamEnds
    <3>. QED
      BY <2>1, <3>1, NextProviderType
  <2>3. CASE ask[r].raw # <<>>
    BY <1>1, <1>7, <2>1, <2>3, StreamEndsIs, TypeMoves
  <2>. QED
    BY <2>2, <2>3
<1>8. CASE Record(r)
  BY <1>1, <1>8, RecordIs, TypeMoves DEF Record
<1>9. CASE AnswerVisitor(r)
  BY <1>9, FinishType DEF AnswerVisitor
<1>10. CASE PersistRead(r)
  <2>1. /\ Moves(r) /\ ask'[r].owner = ask[r].owner /\ ask[r].owner \in Owners
        /\ ask'[r].conv = (IF Owned(ask[r].conv, ask[r].owner) THEN ask[r].conv ELSE r)
        /\ Owned(ask[r].conv, ask[r].owner) => ask[r].conv \in Req
    BY <1>1, <1>10, PersistReadIs
  <2>2. UNCHANGED <<conv, last, produced>>
    BY <1>10 DEF PersistRead
  <2>. QED
    BY <2>1, <2>2, TypeMoves
<1>11. CASE PersistCommit(r)
  BY <1>11, CommitType
<1>12. CASE Leave(r)
  BY <1>12, FinishType DEF Leave
<1>. QED
  BY <1>2, <1>3, <1>4, <1>5, <1>6, <1>7, <1>8, <1>9, <1>10, <1>11, <1>12 DEF Answer

\* The conversations' own requests, once they write.
Write(r) ==
    \/ \E o \in Owners : CreateConversation(r, o)
    \/ UpdateConversation(r)
    \/ DeleteConversation(r)

LEMMA WriteIs ==
    ASSUME TypeOK, NEW r \in Req, Write(r)
    PROVE  /\ Moves(r) /\ ask'[r] = Done(None) /\ \A q \in Req \ {r} : ask'[q] = ask[q]
           /\ UNCHANGED <<last, produced>>
           /\ conv' \in [Req -> Conversation \cup {None}]
           /\ \A c \in Req \ {r} : \/ conv'[c] = None
                                   \/ /\ conv[c] # None
                                      /\ conv'[c].owner = conv[c].owner /\ conv'[c].turns = conv[c].turns
           /\ \/ conv'[r] = None
              \/ conv'[r].turns = {}
              \/ conv[r] # None /\ conv'[r].owner = conv[r].owner /\ conv'[r].turns = conv[r].turns
<1>1. Finish(r, None) /\ UNCHANGED <<last, produced>>
  BY DEF Write, CreateConversation, UpdateConversation, DeleteConversation
<1>2. Moves(r) /\ ask'[r] = Done(None) /\ \A q \in Req \ {r} : ask'[q] = ask[q]
  BY <1>1, FinishIs
<1>3. conv \in [Req -> Conversation \cup {None}]
  BY DEF TypeOK
<1>4. ASSUME NEW o \in Owners, CreateConversation(r, o)
      PROVE  /\ conv' \in [Req -> Conversation \cup {None}]
             /\ \A c \in Req \ {r} : conv'[c] = conv[c]
             /\ conv'[r].turns = {}
  <2>1. [owner |-> o, turns |-> {}, title |-> "none"] \in Conversation
    BY DEF Conversation
  <2>2. conv' = [conv EXCEPT ![r] = [owner |-> o, turns |-> {}, title |-> "none"]]
    BY <1>4 DEF CreateConversation
  <2>. QED
    BY <1>3, <2>1, <2>2
<1>5. ASSUME UpdateConversation(r) \/ DeleteConversation(r)
      PROVE  /\ conv' \in [Req -> Conversation \cup {None}]
             /\ \A c \in Req : \/ conv'[c] = None
                               \/ /\ conv[c] # None
                                  /\ conv'[c].owner = conv[c].owner /\ conv'[c].turns = conv[c].turns
  <2>1. ask[r] \in Edits
    BY <1>5, TurnIs DEF UpdateConversation, DeleteConversation
  <2>2. PICK c \in Req : c = ask[r].conv
    BY <2>1 DEF Edits
  <2>3. ASSUME NEW k \in Req, conv[k] # None
        PROVE  conv[k] \in Conversation
    BY <1>3, <2>3
  <2>4. CASE conv' = conv
    BY <1>3, <2>4
  <2>5. CASE conv[c] # None /\ conv' = [conv EXCEPT ![c].title = "chosen"]
    <3>1. [conv[c] EXCEPT !.title = "chosen"] \in Conversation
          /\ [conv[c] EXCEPT !.title = "chosen"].owner = conv[c].owner
          /\ [conv[c] EXCEPT !.title = "chosen"].turns = conv[c].turns
      BY <2>3, <2>5 DEF Conversation
    <3>3. conv' = [conv EXCEPT ![c] = [conv[c] EXCEPT !.title = "chosen"]]
      BY <2>5
    <3>. QED
      BY <1>3, <2>5, <3>1, <3>3
  <2>6. CASE conv' = [conv EXCEPT ![c] = None]
    BY <1>3, <2>6
  <2>. QED
    BY <1>5, <2>2, <2>4, <2>5, <2>6 DEF UpdateConversation, DeleteConversation
<1>. QED
  BY <1>1, <1>2, <1>4, <1>5 DEF Write

LEMMA TypeInit == Init => Types
<1>. SUFFICES ASSUME Init PROVE Types
  OBVIOUS
<1>1. \A r \in Req : ask[r].op = "idle"
  BY DEF Init, Idle
<1>2. TypeOK
  BY AnsweringAssumption DEF Init, TypeOK
<1>. QED
  BY <1>1, <1>2 DEF Types, Keepers, Turn

LEMMA EditIs ==
    ASSUME TypeOK, NEW r \in Req, NEW op \in {"rename", "delete"}, NEW c \in Req, NEW o \in Owners, Edit(r, op, c, o)
    PROVE  /\ Moves(r) /\ ask'[r].op \in {"rename", "delete"} /\ \A q \in Req \ {r} : ask'[q] = ask[q]
           /\ ask[r] = Idle
<1>1. [op |-> op, conv |-> c] \in Asked
  BY DEF Edits, Asked
<1>2. ask' = [ask EXCEPT ![r] = [op |-> op, conv |-> c]] /\ ask[r] = Idle
  BY DEF Edit, Starts
<1>3. Moves(r) /\ ask'[r] = [op |-> op, conv |-> c] /\ \A q \in Req \ {r} : ask'[q] = ask[q]
  BY <1>1, <1>2, AskSet
<1>. QED
  BY <1>2, <1>3

LEMMA NextIs ==
    ASSUME [Next]_vars
    PROVE  \/ \E r \in Req, c \in Req \cup {None}, o \in Owners \cup {Visitor}, s \in BOOLEAN : Ask(r, o, c, s)
           \/ \E r \in Req : Answer(r)
           \/ \E r \in Req, o \in Owners, op \in {"rename", "delete"}, c \in Req : Edit(r, op, c, o)
           \/ \E r \in Req : Write(r)
           \/ \E S \in SUBSET Req : Purge(S)
           \/ UNCHANGED vars
BY DEF Next, Write

LEMMA TypeStep == Types /\ [Next]_vars => Types'
<1>. SUFFICES ASSUME Types, [Next]_vars PROVE Types'
  OBVIOUS
<1>1. TypeOK
  BY DEF Types
<1>2. ASSUME NEW r \in Req, NEW c \in Req \cup {None}, NEW o \in Owners \cup {Visitor}, NEW s \in BOOLEAN,
             Ask(r, o, c, s)
      PROVE  Types'
  <2>1. Moves(r) /\ ask'[r].at = "asked"
    BY SMTT(30), <1>1, <1>2, AskIs DEF Asks
  <2>. QED
    BY <1>2, <2>1, TypeMoves DEF Ask
<1>3. ASSUME NEW r \in Req, Answer(r)
      PROVE  Types'
  BY <1>3, AnswerType
<1>4. ASSUME NEW r \in Req, NEW o \in Owners, NEW op \in {"rename", "delete"}, NEW c \in Req, Edit(r, op, c, o)
      PROVE  Types'
  <2>1. Moves(r) /\ ask'[r].op # "turn"
    BY <1>1, <1>4, EditIs
  <2>. QED
    BY <1>4, <2>1, TypeMoves DEF Edit
<1>5. ASSUME NEW r \in Req, Write(r)
      PROVE  Types'
  <2>1. /\ Moves(r) /\ ask'[r] = Done(None)
        /\ UNCHANGED <<last, produced>>
        /\ conv' \in [Req -> Conversation \cup {None}]
    BY <1>1, <1>5, WriteIs
  <2>2. Keepers'
    BY <2>1, DoneKeeps, KeepersMoves
  <2>3. TypeOK'
    BY <1>1, <2>1 DEF TypeOK, Moves, Asked
  <2>. QED
    BY <2>2, <2>3 DEF Types
<1>6. ASSUME NEW S \in SUBSET Req, Purge(S)
      PROVE  Types'
  <2>1. TypeOK'
    BY <1>1, <1>6 DEF Purge, TypeOK, Conversation
  <2>. QED
    BY <1>6, <2>1 DEF Types, Purge, Keepers, Turn
<1>7. CASE UNCHANGED vars
  BY <1>7 DEF vars, Types, TypeOK, Keepers, Turn
<1>. QED
  BY <1>2, <1>3, <1>4, <1>5, <1>6, <1>7, NextIs

LEMMA TypesAlways == Spec => []Types
BY TypeInit, TypeStep, PTL DEF Spec

\* Every request, conversation and answer has the shape the code gives it, and
\* the chain is never run off its end.
THEOREM TypeCorrect == Spec => []TypeOK
<1>1. Types => TypeOK
  BY DEF Types
<1>. QED
  BY <1>1, TypesAlways, PTL

-----------------------------------------------------------------------------
(* The answers, step by step.                                               *)

LEMMA OtherStays ==
    ASSUME Answers, NEW q \in Req, ask'[q] = ask[q],
           last' = last \/ ~(ask[q].op = "turn" /\ ask[q].by # {} /\ ask[q].at \in {"generating", "generated"})
    PROVE  ask'[q].op = "turn" => AnswerGrows(q)'
<1>. SUFFICES ASSUME ask'[q].op = "turn" PROVE AnswerGrows(q)'
  OBVIOUS
<1>1. ask[q].op = "turn" /\ AnswerGrows(q)
  BY DEF Answers
<1>2. TheProvider(q)' = TheProvider(q)
  BY DEF TheProvider
<1>. QED
  BY <1>1, <1>2 DEF AnswerGrows

LEMMA OtherCrossed ==
    ASSUME TypeOK, Answers, NEW q \in Req, Crossed(q)
    PROVE  AnswerGrows(q)'
<1>1. ask[q].op = "turn" /\ AnswerGrows(q)
  BY DEF Answers, Crossed
<1>2. TheProvider(q)' = TheProvider(q)
  BY CrossedSame DEF TheProvider
<1>3. /\ ask'[q].at = ask[q].at /\ ask'[q].by = ask[q].by /\ ask'[q].raw = ask[q].raw
      /\ ask'[q].held = ask[q].held /\ ask'[q].out = ask[q].out /\ ask'[q].crossed = TRUE
      /\ ask[q].at \in {"generating", "generated"}
  BY CrossedSame DEF Crossed
<1>. QED
  BY <1>1, <1>2, <1>3 DEF AnswerGrows

\* A step of r that leaves the others and the last provider alone.
LEMMA AnswersAlone ==
    ASSUME Answers, NEW r \in Req, last' = last, \A q \in Req \ {r} : ask'[q] = ask[q],
           ask'[r].op = "turn" => AnswerGrows(r)'
    PROVE  Answers'
BY OtherStays DEF Answers

\* A step of r that records another provider and crosses the others.
LEMMA AnswersCross ==
    ASSUME TypeOK, Answers, NEW r \in Req, Moves(r),
           \A q \in Req \ {r} : (ask[q].op = "turn" /\ ask[q].by # {} /\ ask[q].at \in {"generating", "generated"})
                                    => Crossed(q),
           ask'[r].op = "turn" => AnswerGrows(r)'
    PROVE  Answers'
<1>1. ASSUME NEW q \in Req \ {r}, ask'[q].op = "turn"
      PROVE  AnswerGrows(q)'
  <2>1. CASE Crossed(q)
    BY <2>1, OtherCrossed
  <2>2. CASE ~Crossed(q)
    <3>1. ask'[q] = ask[q]
      BY <2>2 DEF Moves
    <3>. QED
      BY <1>1, <2>2, <3>1, OtherStays
  <2>. QED
    BY <2>1, <2>2
<1>. QED
  BY <1>1 DEF Answers

LEMMA NextProviderAnswers ==
    ASSUME TypeOK, Answers, NEW r \in Req, Turn(r, "generating"), ask[r].raw = <<>>, NextProvider(r), last' = last
    PROVE  Answers'
<1>1. /\ Moves(r) /\ \A q \in Req \ {r} : ask'[q] = ask[q]
      /\ \/ ask'[r] = Done(None)
         \/ ask'[r] = [ask[r] EXCEPT !.provider = ask[r].provider + 1]
  BY NextProviderIs DEF Turn
<1>2. ask[r] \in Turns /\ AnswerGrows(r) /\ ask[r].at = "generating"
  BY TurnIs DEF Turn, Answers
<1>3. ask[r].by = {}
  BY <1>2 DEF AnswerGrows
<1>4. ASSUME ask'[r] = [ask[r] EXCEPT !.provider = ask[r].provider + 1]
      PROVE  AnswerGrows(r)'
  <2>1. /\ ask'[r].at = "generating" /\ ask'[r].by = {} /\ ask'[r].raw = ask[r].raw
        /\ ask'[r].held = ask[r].held /\ ask'[r].out = ask[r].out
    BY <1>2, <1>3, <1>4 DEF Turns
  <2>. QED
    BY <1>2, <1>3, <2>1 DEF AnswerGrows
<1>. QED
  BY <1>1, <1>4, DoneKeeps, AnswersAlone

LEMMA DeltaAnswers ==
    ASSUME TypeOK, Answers, NEW r \in Req, NEW d \in Deltas, Delta(r, d)
    PROVE  Answers'
<1>1. Turn(r, "generating")
  BY Zenon DEF Delta
<1>2. AnswerGrows(r) /\ ask[r].at = "generating" /\ ask[r].op = "turn"
  BY <1>1 DEF Turn, Answers
<1>3. PICK text, held : text = ask[r].held \o d /\ held = HeldBack(text)
  OBVIOUS
<1>4. /\ Moves(r) /\ ask[r] \in Turns /\ GoesOn(r)
      /\ ask'[r].at = ask[r].at /\ ask'[r].raw = ask[r].raw \o d /\ ask'[r].held = held
      /\ ask'[r].out = ask[r].out \o Rewrite(SubSeq(text, 1, Len(text) - Len(held)))
      /\ ask'[r].by = ask[r].by \cup {TheProvider(r)}
      /\ ask[r].raw = <<>> =>
           /\ last' = TheProvider(r)
           /\ \A q \in Req \ {r} : (ask[q].op = "turn" /\ ask[q].by # {} /\ ask[q].at \in {"generating", "generated"})
                                       => Crossed(q)
      /\ ask[r].raw # <<>> => last' = last /\ \A q \in Req \ {r} : ask'[q] = ask[q]
  BY <1>3, DeltaIs
<1>5. d \in Seq(Tokens) /\ d # <<>> /\ ask[r].raw \in Seq(Tokens) /\ ask[r].held \in Seq(Tokens)
  BY <1>4, DeltaType DEF Turns
<1>6. ask'[r].raw # <<>>
  BY <1>4, <1>5, ConcatEqualIffEmpty
<1>7. Streamed(ask'[r].raw, ask'[r].held, ask'[r].out)
  <2>1. Streamed(ask[r].raw, ask[r].held, ask[r].out)
    BY <1>2 DEF AnswerGrows
  <2>2. Streamed(ask[r].raw \o d, HeldBack(text),
                 ask[r].out \o Rewrite(SubSeq(text, 1, Len(text) - Len(HeldBack(text)))))
    BY <1>3, <1>5, <2>1, StreamedDelta
  <2>. QED
    BY <1>3, <1>4, <2>2
<1>8. ask'[r].by = {TheProvider(r)} /\ TheProvider(r)' = TheProvider(r)
  BY <1>2, <1>4 DEF AnswerGrows, GoesOn, TheProvider
<1>9. (~ask'[r].crossed) => TheProvider(r) = last'
  <2>1. CASE ask[r].raw = <<>>
    BY <1>4, <2>1
  <2>2. CASE ask[r].raw # <<>>
    <3>1. ask[r].by # {} /\ ask[r].by \subseteq {TheProvider(r)} /\ (~ask[r].crossed => ask[r].by = {last})
      BY <1>2, <2>2 DEF AnswerGrows
    <3>. QED
      BY <1>4, <2>2, <3>1 DEF GoesOn
  <2>. QED
    BY <2>1, <2>2
<1>10. AnswerGrows(r)'
  BY <1>2, <1>4, <1>6, <1>7, <1>8, <1>9 DEF AnswerGrows
<1>. QED
  BY <1>4, <1>10, AnswersAlone, AnswersCross

LEMMA CompleteAnswers ==
    ASSUME TypeOK, Answers, NEW r \in Req, NEW t \in Tokens, Complete(r, t)
    PROVE  Answers'
<1>1. /\ Moves(r) /\ last' = TheProvider(r) /\ GoesOn(r)
      /\ ask'[r].at = "generated" /\ ask'[r].raw = <<t>> /\ ask'[r].out = Rewrite(<<t>>)
      /\ ask'[r].by = {TheProvider(r)}
      /\ \A q \in Req \ {r} : (ask[q].op = "turn" /\ ask[q].by # {} /\ ask[q].at \in {"generating", "generated"})
                                  => Crossed(q)
  BY CompleteIs
<1>2. TheProvider(r)' = TheProvider(r)
  BY <1>1 DEF GoesOn, TheProvider
<1>3. AnswerGrows(r)'
  BY <1>1, <1>2 DEF AnswerGrows
<1>. QED
  BY <1>1, <1>3, AnswersCross

LEMMA AnswerAnswers ==
    ASSUME Types, Answers, NEW r \in Req, Answer(r)
    PROVE  Answers'
<1>1. TypeOK
  BY DEF Types
<1>2. ask[r].op = "turn" => AnswerGrows(r)
  BY DEF Answers
<1>3. ASSUME NEW c, Finish(r, c), c \in Req \cup {None}, last' = last
      PROVE  Answers'
  <2>1. ask'[r].op # "turn" /\ \A q \in Req \ {r} : ask'[q] = ask[q]
    BY <1>1, <1>3, FinishIs, DoneKeeps
  <2>. QED
    BY <1>3, <2>1, AnswersAlone
<1>4. CASE Shortcut(r)
  <2>1. /\ GoesOn(r) /\ ask'[r].at = "ready" /\ ask'[r].by = ask[r].by
        /\ \A q \in Req \ {r} : ask'[q] = ask[q]
    BY <1>1, <1>4, ShortcutIs
  <2>2. ask[r].by = {}
    BY <1>2, <1>4 DEF Shortcut, Turn, AnswerGrows
  <2>3. AnswerGrows(r)'
    BY <2>1, <2>2 DEF AnswerGrows
  <2>. QED
    BY <1>4, <2>1, <2>3, AnswersAlone DEF Shortcut
<1>5. CASE Prepare(r)
  <2>1. /\ Moves(r) /\ ask'[r].at = "generating" /\ ask'[r].by = ask[r].by /\ ask'[r].raw = ask[r].raw
        /\ ask'[r].held = ask[r].held /\ ask'[r].out = ask[r].out
        /\ \/ UNCHANGED last /\ \A q \in Req \ {r} : ask'[q] = ask[q]
           \/ \A q \in Req \ {r} : (ask[q].op = "turn" /\ ask[q].by # {} /\ ask[q].at \in {"generating", "generated"})
                                       => Crossed(q)
    BY <1>1, <1>5, PrepareIs
  <2>2. ask[r].by = {} /\ ask[r].raw = <<>> /\ ask[r].held = <<>> /\ ask[r].out = <<>>
    BY <1>2, <1>5 DEF Prepare, Turn, AnswerGrows
  <2>3. AnswerGrows(r)'
    BY <2>1, <2>2, StreamedInit DEF AnswerGrows
  <2>. QED
    BY <1>1, <2>1, <2>3, AnswersAlone, AnswersCross
<1>6. CASE \E t \in Tokens : Complete(r, t)
  BY <1>1, <1>6, CompleteAnswers
<1>7. CASE \E d \in Deltas : Delta(r, d)
  BY <1>1, <1>7, DeltaAnswers
<1>8. CASE ProviderFails(r)
  <2>1. CASE ask[r].raw = <<>>
    BY <1>1, <1>8, <2>1, NextProviderAnswers DEF ProviderFails
  <2>2. CASE ask[r].raw # <<>>
    BY <1>3, <1>8, <2>2 DEF ProviderFails
  <2>. QED
    BY <2>1, <2>2
<1>9. CASE StreamEnds(r)
  <2>1. Turn(r, "generating") /\ last' = last
    BY <1>9 DEF StreamEnds
  <2>2. CASE ask[r].raw = <<>>
    BY <1>1, <1>9, <2>1, <2>2, NextProviderAnswers DEF StreamEnds
  <2>3. CASE ask[r].raw # <<>>
    <3>1. /\ GoesOn(r) /\ ask'[r].at = "generated" /\ ask'[r].raw = ask[r].raw /\ ask'[r].by = ask[r].by
          /\ ask'[r].out = ask[r].out \o Rewrite(ask[r].held)
          /\ \A q \in Req \ {r} : ask'[q] = ask[q]
      BY <1>1, <1>9, <2>3, StreamEndsIs
    <3>2. /\ ask[r] \in Turns /\ ask[r].by # {} /\ ask[r].by \subseteq {TheProvider(r)}
          /\ Streamed(ask[r].raw, ask[r].held, ask[r].out)
          /\ ~ask[r].crossed => ask[r].by = {last}
      BY <1>1, <1>2, <2>1, <2>3, TurnIs DEF Turn, AnswerGrows
    <3>3. Short(ask[r].raw) => ask'[r].out = Rewrite(ask[r].raw)
      <4>1. ask[r].raw \in Seq(Tokens) /\ ask[r].held \in Seq(Tokens)
        BY <3>2 DEF Turns
      <4>. QED
        BY <3>1, <3>2, <4>1, StreamedEnd
    <3>4. TheProvider(r)' = TheProvider(r)
      BY <3>1 DEF GoesOn, TheProvider
    <3>5. AnswerGrows(r)'
      BY <2>1, <3>1, <3>2, <3>3, <3>4 DEF AnswerGrows, GoesOn
    <3>. QED
      BY <2>1, <3>1, <3>5, AnswersAlone
  <2>. QED
    BY <2>2, <2>3
<1>10. CASE Record(r)
  <2>1. /\ GoesOn(r) /\ ask'[r].at = "ready" /\ ask'[r].reported = last /\ ask'[r].by = ask[r].by
        /\ \A q \in Req \ {r} : ask'[q] = ask[q]
    BY <1>1, <1>10, RecordIs
  <2>2. ask[r].by \subseteq {TheProvider(r)} /\ (ask[r].by # {} /\ ~ask[r].crossed => ask[r].by = {last})
    BY <1>2, <1>10 DEF Record, Turn, AnswerGrows
  <2>3. TheProvider(r)' = TheProvider(r)
    BY <2>1 DEF GoesOn, TheProvider
  <2>4. AnswerGrows(r)'
    BY <2>1, <2>2, <2>3 DEF AnswerGrows, GoesOn
  <2>. QED
    BY <1>10, <2>1, <2>4, AnswersAlone DEF Record
<1>11. CASE AnswerVisitor(r)
  BY <1>3, <1>11 DEF AnswerVisitor
<1>12. CASE PersistRead(r)
  <2>1. /\ ask'[r].at = "keeping" /\ ask'[r].by = ask[r].by /\ ask'[r].provider = ask[r].provider
        /\ \A q \in Req \ {r} : ask'[q] = ask[q]
    BY <1>1, <1>12, PersistReadIs
  <2>2. ask[r].by \subseteq {TheProvider(r)}
    BY <1>2, <1>12 DEF PersistRead, Turn, AnswerGrows
  <2>3. TheProvider(r)' = TheProvider(r)
    BY <2>1 DEF TheProvider
  <2>4. AnswerGrows(r)'
    BY <2>1, <2>2, <2>3 DEF AnswerGrows
  <2>. QED
    BY <1>12, <2>1, <2>4, AnswersAlone DEF PersistRead
<1>13. CASE PersistCommit(r)
  <2>1. ask'[r].op # "turn" /\ \A q \in Req \ {r} : ask'[q] = ask[q]
    BY <1>13, CommitIs, DoneKeeps
  <2>. QED
    BY <1>13, <2>1, AnswersAlone DEF PersistCommit
<1>14. CASE Leave(r)
  BY <1>3, <1>14 DEF Leave
<1>. QED
  BY <1>4, <1>5, <1>6, <1>7, <1>8, <1>9, <1>10, <1>11, <1>12, <1>13, <1>14 DEF Answer

LEMMA AnswersInit == Init => Answers
BY DEF Init, Idle, Answers

LEMMA AnswersStep == Types /\ Answers /\ [Next]_vars => Answers'
<1>. SUFFICES ASSUME Types, Answers, [Next]_vars PROVE Answers'
  OBVIOUS
<1>1. TypeOK
  BY DEF Types
<1>2. ASSUME NEW r \in Req, NEW c \in Req \cup {None}, NEW o \in Owners \cup {Visitor}, NEW s \in BOOLEAN,
             Ask(r, o, c, s)
      PROVE  Answers'
  <2>1. Asks(r, c, o)
    BY <1>1, <1>2, AskIs
  <2>2. AnswerGrows(r)'
    BY <2>1 DEF Asks, AnswerGrows
  <2>. QED
    BY <1>2, <2>1, <2>2, AnswersAlone DEF Ask, Asks
<1>3. ASSUME NEW r \in Req, Answer(r)
      PROVE  Answers'
  BY <1>3, AnswerAnswers
<1>4. ASSUME NEW r \in Req, NEW o \in Owners, NEW op \in {"rename", "delete"}, NEW c \in Req, Edit(r, op, c, o)
      PROVE  Answers'
  <2>1. ask'[r].op # "turn" /\ \A q \in Req \ {r} : ask'[q] = ask[q]
    BY <1>1, <1>4, EditIs
  <2>. QED
    BY <1>4, <2>1, AnswersAlone DEF Edit
<1>5. ASSUME NEW r \in Req, Write(r)
      PROVE  Answers'
  <2>1. ask'[r].op # "turn" /\ last' = last /\ \A q \in Req \ {r} : ask'[q] = ask[q]
    BY <1>1, <1>5, WriteIs, DoneKeeps
  <2>. QED
    BY <2>1, AnswersAlone
<1>6. ASSUME NEW S \in SUBSET Req, Purge(S)
      PROVE  Answers'
  BY <1>6 DEF Purge, Answers, AnswerGrows, TheProvider
<1>7. CASE UNCHANGED vars
  BY <1>7 DEF vars, Answers, AnswerGrows, TheProvider
<1>. QED
  BY <1>2, <1>3, <1>4, <1>5, <1>6, <1>7, NextIs

\* However a streamed answer is cut into deltas, what the client saw arrive is
\* the whole text rewritten at once, unless a marker is longer than what the
\* rewriter holds back: for every text, every cut and every number of requests.
THEOREM StreamIsTheAnswer == Spec => []StreamedAsWhole
<1>1. Types /\ Answers => StreamedAsWhole
  BY DEF Answers, AnswerGrows, StreamedAsWhole, Turn, Short
<1>2. Spec => []Answers
  BY AnswersInit, AnswersStep, TypesAlways, PTL DEF Spec
<1>. QED
  BY <1>1, <1>2, TypesAlways, PTL

\* No answer mixes the text of two providers, and the provider reported with
\* it is the one that wrote it, unless another answer came between.
THEOREM OneProviderAnswers == Spec => []AnswerOfOneProvider
<1>1. ASSUME Types, Answers PROVE AnswerOfOneProvider
  <2>1. ASSUME NEW r \in Req, ask[r].op = "turn"
        PROVE  /\ Cardinality(ask[r].by) <= 1
               /\ (Turn(r, "ready") /\ ask[r].by # {} /\ ~ask[r].crossed) => ask[r].by = {ask[r].reported}
    <3>1. AnswerGrows(r)
      BY <1>1, <2>1 DEF Answers
    <3>2. ask[r].by = {} \/ ask[r].by = {TheProvider(r)}
      BY <3>1 DEF AnswerGrows
    <3>3. Cardinality(ask[r].by) <= 1
      <4>1. CASE ask[r].by = {}
        <5>1. Cardinality({}) = 0
          BY FS_EmptySet
        <5>2. Cardinality(ask[r].by) = 0
          BY <4>1, <5>1
        <5>. QED
          BY <5>2
      <4>2. CASE ask[r].by = {TheProvider(r)}
        <5>1. Cardinality({TheProvider(r)}) = 1
          BY FS_Singleton
        <5>2. Cardinality(ask[r].by) = 1
          BY <4>2, <5>1
        <5>. QED
          BY <5>2
      <4>. QED
        BY <3>2, <4>1, <4>2
    <3>. QED
      BY <3>1, <3>3 DEF AnswerGrows, Turn
  <2>. QED
    BY <2>1 DEF AnswerOfOneProvider
<1>2. Spec => []Answers
  BY AnswersInit, AnswersStep, TypesAlways, PTL DEF Spec
<1>. QED
  BY <1>1, <1>2, TypesAlways, PTL

-----------------------------------------------------------------------------
(* Conversations are private, and keep what they were given.                *)

\* Conversation c stays, with more turns of its owner at most.
Stays(c) ==
    /\ conv[c] # None
    /\ conv'[c].owner = conv[c].owner
    /\ conv[c].turns \subseteq conv'[c].turns
    /\ \A x \in conv'[c].turns : x \in conv[c].turns \/ x[2] = conv[c].owner

\* Conversation r is started by its request, which is done with it.
Opens(r) ==
    /\ ask'[r].op = "done"
    /\ \A x \in conv'[r].turns : x[2] = conv'[r].owner

\* What request r is after a step fits the conversations.
Fits(r) ==
    /\ (ask'[r].op = "done" /\ ask'[r].kept # None) =>
          /\ ask'[ask'[r].kept].op = "done"
          /\ conv'[ask'[r].kept] # None => \E x \in conv'[ask'[r].kept].turns : x[1] = r
    /\ (ask'[r].op = "turn" /\ ask'[r].at = "keeping" /\ ask'[r].conv # r) =>
          /\ ask'[ask'[r].conv].op = "done"
          /\ conv'[ask'[r].conv] # None => conv'[ask'[r].conv].owner = ask'[r].owner
    /\ ask'[r].op = "turn" => \A x \in ask'[r].hist : x[2] = ask'[r].owner

\* A step of another request leaves request q alone, but for crossing it.
Unmoved(q) ==
    /\ ask'[q].op = ask[q].op
    /\ ask[q].op = "done" => ask'[q] = ask[q]
    /\ ask[q].op = "turn" => /\ ask'[q].at = ask[q].at /\ ask'[q].owner = ask[q].owner
                             /\ ask'[q].conv = ask[q].conv /\ ask'[q].hist = ask[q].hist

LEMMA CrossedUnmoved ==
    ASSUME TypeOK, NEW q \in Req, Crossed(q)
    PROVE  Unmoved(q)
<1>1. ask[q].op = "turn"
  BY DEF Crossed
<1>2. /\ ask'[q].op = "turn" /\ ask'[q].at = ask[q].at /\ ask'[q].owner = ask[q].owner
      /\ ask'[q].conv = ask[q].conv /\ ask'[q].hist = ask[q].hist
  BY CrossedSame
<1>. QED
  BY <1>1, <1>2 DEF Unmoved

LEMMA PrivateMoves ==
    ASSUME Types, Private, NEW r \in Req, Moves(r), ask[r].op # "done", Fits(r),
           \A c \in Req : conv'[c] = None \/ Stays(c) \/ (c = r /\ Opens(r))
    PROVE  Private'
<1>1. TypeOK
  BY DEF Types
<1>2. ASSUME NEW q \in Req \ {r}
      PROVE  /\ ask'[q].op = ask[q].op
             /\ ask[q].op = "done" => ask'[q] = ask[q]
             /\ ask[q].op = "turn" => /\ ask'[q].at = ask[q].at /\ ask'[q].owner = ask[q].owner
                                      /\ ask'[q].conv = ask[q].conv /\ ask'[q].hist = ask[q].hist
  <2>1. CASE ask'[q] = ask[q]
    BY <2>1
  <2>2. CASE Crossed(q)
    BY <1>1, <2>2, CrossedUnmoved DEF Unmoved
  <2>. QED
    BY <2>1, <2>2 DEF Moves
<1>3. ASSUME NEW c \in Req, ask[c].op = "done" PROVE c # r /\ ask'[c] = ask[c]
  BY <1>2, <1>3
<1>4. ASSUME NEW c \in Req, conv'[c] # None PROVE ask'[c].op = "done" /\ \A x \in conv'[c].turns : x[2] = conv'[c].owner
  <2>1. CASE Stays(c)
    <3>1. ask[c].op = "done" /\ \A x \in conv[c].turns : x[2] = conv[c].owner
      BY <2>1 DEF Stays, Private, StartedOnce, TurnsKeptPrivate
    <3>. QED
      BY <1>3, <2>1, <3>1 DEF Stays
  <2>2. CASE c = r /\ Opens(r)
    BY <2>2 DEF Opens
  <2>. QED
    BY <1>4, <2>1, <2>2
<1>5. ASSUME NEW q \in Req, ask'[q].op = "done", ask'[q].kept # None
      PROVE  /\ ask'[ask'[q].kept].op = "done"
             /\ conv'[ask'[q].kept] # None => \E x \in conv'[ask'[q].kept].turns : x[1] = q
  <2>1. CASE q = r
    BY <1>5, <2>1 DEF Fits
  <2>2. CASE q # r
    <3>1. ask[q].op = "done" /\ ask'[q] = ask[q]
      BY <1>2, <1>5, <2>2
    <3>2. PICK c \in Req : c = ask[q].kept
      <4>1. PICK c \in Req \cup {None} : ask[q] = Done(c)
        BY <1>1, <3>1, TurnIs
      <4>. QED
        BY <1>5, <3>1, <4>1 DEF Done
    <3>3. ask[c].op = "done" /\ conv[c] # None => \E x \in conv[c].turns : x[1] = q
      BY <1>5, <3>1, <3>2 DEF Private, TurnsKeptPrivate
    <3>4. ask[c].op = "done"
      BY <1>5, <3>1, <3>2 DEF Private, StartedOnce
    <3>5. c # r /\ ask'[c] = ask[c]
      BY <1>3, <3>4
    <3>6. conv'[c] # None => \E x \in conv'[c].turns : x[1] = q
      BY <3>3, <3>4, <3>5 DEF Stays
    <3>. QED
      BY <3>1, <3>2, <3>4, <3>5, <3>6
  <2>. QED
    BY <2>1, <2>2
<1>6. ASSUME NEW q \in Req, ask'[q].op = "turn", ask'[q].at = "keeping", ask'[q].conv # q
      PROVE  /\ ask'[ask'[q].conv].op = "done"
             /\ conv'[ask'[q].conv] # None => conv'[ask'[q].conv].owner = ask'[q].owner
  <2>1. CASE q = r
    BY <1>6, <2>1 DEF Fits
  <2>2. CASE q # r
    <3>1. /\ ask[q].op = "turn" /\ ask[q].at = "keeping" /\ ask[q].conv # q
          /\ ask'[q].conv = ask[q].conv /\ ask'[q].owner = ask[q].owner
      BY <1>2, <1>6, <2>2
    <3>2. PICK c \in Req : c = ask[q].conv
      BY <3>1 DEF Types, Keepers, Turn
    <3>3. ask[c].op = "done" /\ (conv[c] # None => conv[c].owner = ask[q].owner)
      BY <3>1, <3>2 DEF Private, StartedOnce, Turn
    <3>4. c # r /\ ask'[c] = ask[c]
      BY <1>3, <3>3
    <3>5. conv'[c] # None => conv'[c].owner = ask[q].owner
      BY <3>3, <3>4 DEF Stays
    <3>. QED
      BY <3>1, <3>2, <3>3, <3>4, <3>5
  <2>. QED
    BY <2>1, <2>2
<1>7. ASSUME NEW q \in Req, ask'[q].op = "turn"
      PROVE  \A x \in ask'[q].hist : x[2] = ask'[q].owner
  <2>1. CASE q = r
    BY <1>7, <2>1 DEF Fits
  <2>2. CASE q # r
    <3>1. ask[q].op = "turn" /\ ask'[q].owner = ask[q].owner /\ ask'[q].hist = ask[q].hist
      BY <1>2, <1>7, <2>2
    <3>. QED
      BY <3>1 DEF Private, TurnsKeptPrivate
  <2>. QED
    BY <2>1, <2>2
<1>. QED
  BY <1>4, <1>5, <1>6, <1>7 DEF Private, StartedOnce, TurnsKeptPrivate, Turn

\* A step that leaves the conversations alone.
LEMMA PrivateAlone ==
    ASSUME Types, Private, NEW r \in Req, Moves(r), ask[r].op # "done", Fits(r), conv' = conv
    PROVE  Private'
<1>1. \A c \in Req : conv'[c] = None \/ Stays(c)
  BY DEF Stays
<1>. QED
  BY <1>1, PrivateMoves

LEMMA FinishPrivate ==
    ASSUME Types, Private, NEW r \in Req, Finish(r, None), ask[r].op # "done", conv' = conv
    PROVE  Private'
<1>1. Moves(r) /\ ask'[r] = Done(None)
  BY FinishIs DEF Types
<1>2. Fits(r)
  BY <1>1 DEF Fits, Done
<1>. QED
  BY <1>1, <1>2, PrivateAlone

\* A step of a turn that is not about to be kept.
LEMMA TurnPrivate ==
    ASSUME Types, Private, NEW r \in Req, Moves(r), ask[r].op = "turn", conv' = conv,
           ask'[r].op = "turn", ask'[r].at # "keeping",
           ask'[r].owner = ask[r].owner, ask'[r].hist = ask[r].hist
    PROVE  Private'
<1>1. Fits(r)
  BY DEF Fits, Private, TurnsKeptPrivate
<1>. QED
  BY <1>1, PrivateAlone

LEMMA NextProviderPrivate ==
    ASSUME Types, Private, NEW r \in Req, Turn(r, "generating"), NextProvider(r), conv' = conv
    PROVE  Private'
<1>1. ask[r].op = "turn" /\ ask[r].at = "generating"
  BY DEF Turn
<1>2. /\ Moves(r)
      /\ \/ ask'[r] = Done(None)
         \/ ask'[r] = [ask[r] EXCEPT !.provider = ask[r].provider + 1]
  BY <1>1, NextProviderIs DEF Types
<1>3. CASE ask'[r] = Done(None)
  <2>1. Fits(r)
    BY <1>3 DEF Fits, Done
  <2>. QED
    BY <1>1, <1>2, <2>1, PrivateAlone
<1>4. CASE ask'[r] = [ask[r] EXCEPT !.provider = ask[r].provider + 1]
  <2>1. ask[r] \in Turns
    BY <1>1, TurnIs DEF Types
  <2>2. ask'[r].op = "turn" /\ ask'[r].at = "generating" /\ ask'[r].owner = ask[r].owner /\ ask'[r].hist = ask[r].hist
    BY <1>1, <1>4, <2>1 DEF Turns
  <2>. QED
    BY <1>1, <1>2, <2>2, TurnPrivate
<1>. QED
  BY <1>2, <1>3, <1>4

LEMMA PersistReadPrivate ==
    ASSUME Types, Private, NEW r \in Req, PersistRead(r)
    PROVE  Private'
<1>. DEFINE own == Owned(ask[r].conv, ask[r].owner)
<1>1. TypeOK /\ ask[r].op = "turn" /\ conv' = conv
  BY DEF Types, PersistRead, Turn
<1>2. Moves(r) /\ \A q \in Req \ {r} : ask'[q] = ask[q]
  BY <1>1, PersistReadIs
<1>3. ask'[r].op = "turn" /\ ask'[r].owner = ask[r].owner /\ ask'[r].hist = ask[r].hist
  BY <1>1, PersistReadIs
<1>4. ask'[r].conv = (IF own THEN ask[r].conv ELSE r)
  BY <1>1, PersistReadIs
<1>5. own => ask[r].conv \in Req
  BY <1>1, PersistReadIs
<1>6. own => ask[ask[r].conv].op = "done" /\ conv[ask[r].conv].owner = ask[r].owner
  BY <1>5 DEF Owned, Private, StartedOnce
<1>7. ASSUME ask'[r].conv # r
      PROVE  ask'[ask'[r].conv].op = "done" /\ conv'[ask'[r].conv].owner = ask'[r].owner
  <2>. HIDE DEF own
  <2>1. own /\ ask'[r].conv = ask[r].conv
    BY <1>4, <1>7
  <2>2. ask'[ask[r].conv] = ask[ask[r].conv]
    BY <1>2, <1>5, <1>7, <2>1
  <2>. QED
    BY <1>1, <1>3, <1>6, <2>1, <2>2
<1>8. \A x \in ask'[r].hist : x[2] = ask'[r].owner
  BY <1>1, <1>3 DEF Private, TurnsKeptPrivate
<1>9. Fits(r)
  BY <1>3, <1>7, <1>8 DEF Fits
<1>. QED
  BY <1>1, <1>2, <1>9, PrivateAlone

LEMMA CommitPrivate ==
    ASSUME Types, Private, NEW r \in Req, PersistCommit(r)
    PROVE  Private'
<1>1. TypeOK
  BY DEF Types
<1>2. /\ Turn(r, "keeping") /\ ask[r].owner \in Owners /\ Moves(r)
      /\ \A q \in Req \ {r} : ask'[q] = ask[q]
  BY CommitIs
<1>3. PICK c \in Req : c = ask[r].conv
  BY CommitIs
<1>4. ask[r].op = "turn" /\ ask[r].at = "keeping"
  BY <1>2 DEF Turn
<1>5. conv \in [Req -> Conversation \cup {None}]
  BY <1>1 DEF TypeOK
<1>6. TheTurn(r)[1] = r /\ TheTurn(r)[2] = ask[r].owner
  BY DEF TheTurn
<1>7. CASE c = r /\ Finish(r, c)
           /\ conv' = [conv EXCEPT ![r] = [owner |-> ask[r].owner, turns |-> {TheTurn(r)}, title |-> "auto"]]
  <2>1. ask'[r] = Done(r)
    BY <1>1, <1>7, FinishIs
  <2>2. ask'[r].op = "done" /\ ask'[r].kept = r
    BY <2>1 DEF Done
  <2>3. conv'[r].owner = ask[r].owner /\ conv'[r].turns = {TheTurn(r)} /\ \A k \in Req \ {r} : conv'[k] = conv[k]
    BY <1>5, <1>7
  <2>4. Opens(r) /\ Fits(r)
    BY <1>6, <2>2, <2>3 DEF Opens, Fits
  <2>5. \A k \in Req : conv'[k] = None \/ Stays(k) \/ (k = r /\ Opens(r))
    BY <2>3, <2>4 DEF Stays
  <2>. QED
    BY <1>2, <1>4, <2>4, <2>5, PrivateMoves
<1>8. CASE c # r /\ conv[c] # None /\ Finish(r, c)
           /\ conv' = [conv EXCEPT ![c].turns = @ \cup {TheTurn(r)},
                                   ![c].title = IF ask[r].empty THEN "auto" ELSE @]
  <2>1. ask'[r] = Done(c)
    BY <1>1, <1>8, FinishIs
  <2>2. ask'[r].op = "done" /\ ask'[r].kept = c
    BY <2>1 DEF Done
  <2>3. ask[c].op = "done" /\ conv[c].owner = ask[r].owner
    BY <1>2, <1>3, <1>8 DEF Private, StartedOnce
  <2>4. conv[c] \in Conversation
    BY <1>5, <1>8
  <2>5. conv'[c].owner = conv[c].owner /\ conv'[c].turns = conv[c].turns \cup {TheTurn(r)}
    BY <1>5, <1>8, <2>4 DEF Conversation
  <2>6. \A k \in Req \ {c} : conv'[k] = conv[k]
    BY <1>5, <1>8
  <2>7. \A k \in Req : conv'[k] = None \/ Stays(k)
    BY <1>6, <1>8, <2>3, <2>5, <2>6 DEF Stays
  <2>8. ask'[c] = ask[c]
    BY <1>2, <1>8
  <2>9. Fits(r)
    BY <1>6, <2>2, <2>3, <2>5, <2>8 DEF Fits
  <2>. QED
    BY <1>2, <1>4, <2>7, <2>9, PrivateMoves
<1>9. CASE Finish(r, None) /\ conv' = conv
  BY <1>4, <1>9, FinishPrivate
<1>. QED
  BY <1>3, <1>7, <1>8, <1>9 DEF PersistCommit

LEMMA AnswerPrivate ==
    ASSUME Types, Private, NEW r \in Req, Answer(r)
    PROVE  Private'
<1>1. TypeOK
  BY DEF Types
<1>2. CASE Shortcut(r)
  BY <1>1, <1>2, ShortcutIs, TurnPrivate DEF Shortcut, Turn, GoesOn
<1>3. CASE Prepare(r)
  <2>1. Moves(r) /\ GoesOn(r) /\ ask'[r].at = "generating"
    BY <1>1, <1>3, PrepareIs
  <2>. QED
    BY <1>3, <2>1, TurnPrivate DEF Prepare, Turn, GoesOn
<1>4. ASSUME NEW t \in Tokens, Complete(r, t) PROVE Private'
  <2>1. Moves(r) /\ GoesOn(r) /\ ask'[r].at = "generated"
    BY <1>1, <1>4, CompleteIs
  <2>2. Turn(r, "generating") /\ conv' = conv
    BY <1>4 DEF Complete
  <2>. QED
    BY <2>1, <2>2, TurnPrivate DEF Turn, GoesOn
<1>5. ASSUME NEW d \in Deltas, Delta(r, d) PROVE Private'
  <2>1. Moves(r) /\ GoesOn(r) /\ ask'[r].at = ask[r].at
    BY <1>1, <1>5, DeltaIs
  <2>2. Turn(r, "generating") /\ conv' = conv
    BY <1>5, Zenon DEF Delta
  <2>. QED
    BY <2>1, <2>2, TurnPrivate DEF Turn, GoesOn
<1>6. CASE ProviderFails(r)
  <2>1. Turn(r, "generating") /\ conv' = conv /\ (NextProvider(r) \/ Finish(r, None))
    BY <1>6 DEF ProviderFails
  <2>. QED
    BY <2>1, NextProviderPrivate, FinishPrivate DEF Turn
<1>7. CASE StreamEnds(r)
  <2>1. Turn(r, "generating") /\ conv' = conv
    BY <1>7 DEF StreamEnds
  <2>2. CASE ask[r].raw = <<>>
    <3>1. NextProvider(r)
      BY <1>7, <2>2 DEF StreamEnds
    <3>. QED
      BY <2>1, <3>1, NextProviderPrivate
  <2>3. CASE ask[r].raw # <<>>
    <3>1. Moves(r) /\ GoesOn(r) /\ ask'[r].at = "generated"
      BY <1>1, <1>7, <2>3, StreamEndsIs
    <3>. QED
      BY <2>1, <3>1, TurnPrivate DEF Turn, GoesOn
  <2>. QED
    BY <2>2, <2>3
<1>8. CASE Record(r)
  <2>1. Moves(r) /\ GoesOn(r) /\ ask'[r].at = "ready"
    BY <1>1, <1>8, RecordIs
  <2>. QED
    BY <1>8, <2>1, TurnPrivate DEF Record, Turn, GoesOn
<1>9. CASE AnswerVisitor(r)
  BY <1>9, FinishPrivate DEF AnswerVisitor, Turn
<1>10. CASE PersistRead(r)
  BY <1>10, PersistReadPrivate
<1>11. CASE PersistCommit(r)
  BY <1>11, CommitPrivate
<1>12. CASE Leave(r)
  BY <1>12, FinishPrivate DEF Leave
<1>. QED
  BY <1>2, <1>3, <1>4, <1>5, <1>6, <1>7, <1>8, <1>9, <1>10, <1>11, <1>12 DEF Answer

LEMMA PrivateInit == Init => Private
BY DEF Init, Idle, Private, StartedOnce, TurnsKeptPrivate, Turn

LEMMA PrivateStep == Types /\ Private /\ [Next]_vars => Private'
<1>. SUFFICES ASSUME Types, Private, [Next]_vars PROVE Private'
  OBVIOUS
<1>1. TypeOK
  BY DEF Types
<1>2. ASSUME NEW r \in Req, NEW c \in Req \cup {None}, NEW o \in Owners \cup {Visitor}, NEW s \in BOOLEAN,
             Ask(r, o, c, s)
      PROVE  Private'
  <2>1. Asks(r, c, o)
    BY <1>1, <1>2, AskIs
  <2>2. conv' = conv /\ Moves(r) /\ ask[r].op # "done" /\ ask'[r].op = "turn" /\ ask'[r].at = "asked" /\ ask'[r].owner = o
    BY <1>2, <2>1 DEF Ask, Asks, Idle
  <2>3. \A x \in ask'[r].hist : x[2] = o
    <3>1. CASE Owned(c, o)
      <4>1. c \in Req /\ conv[c] # None /\ conv[c].owner = o /\ ask'[r].hist = conv[c].turns
        BY <2>1, <3>1 DEF Owned, Asks
      <4>. QED
        BY <4>1 DEF Private, TurnsKeptPrivate
    <3>2. CASE ~Owned(c, o)
      BY <2>1, <3>2 DEF Asks
    <3>. QED
      BY <3>1, <3>2
  <2>4. Fits(r)
    BY <2>2, <2>3 DEF Fits
  <2>. QED
    BY <2>2, <2>4, PrivateAlone
<1>3. ASSUME NEW r \in Req, Answer(r)
      PROVE  Private'
  BY <1>3, AnswerPrivate
<1>4. ASSUME NEW r \in Req, NEW o \in Owners, NEW op \in {"rename", "delete"}, NEW c \in Req, Edit(r, op, c, o)
      PROVE  Private'
  <2>1. ask'[r].op # "turn" /\ ask'[r].op # "done" /\ Moves(r)
    BY <1>1, <1>4, EditIs
  <2>2. conv' = conv /\ ask[r].op # "done"
    BY <1>4 DEF Edit, Starts, Idle
  <2>3. Fits(r)
    BY <2>1 DEF Fits
  <2>. QED
    BY <2>1, <2>2, <2>3, PrivateAlone
<1>5. ASSUME NEW r \in Req, Write(r)
      PROVE  Private'
  <2>1. Moves(r) /\ ask'[r] = Done(None)
    BY <1>1, <1>5, WriteIs
  <2>2. ask'[r].op = "done" /\ ask'[r].kept = None /\ Fits(r)
    BY <2>1 DEF Fits, Done
  <2>3. ask[r].op # "done"
    BY <1>5 DEF Write, CreateConversation, UpdateConversation, DeleteConversation, Starts, Idle
  <2>4. \A c \in Req \ {r} : conv'[c] = None \/ Stays(c)
    BY <1>1, <1>5, WriteIs DEF Stays
  <2>5. conv'[r] = None \/ Stays(r) \/ Opens(r)
    BY <1>1, <1>5, <2>2, WriteIs DEF Stays, Opens
  <2>6. \A c \in Req : conv'[c] = None \/ Stays(c) \/ (c = r /\ Opens(r))
    BY <2>4, <2>5
  <2>. QED
    BY <2>1, <2>2, <2>3, <2>6, PrivateMoves
<1>6. ASSUME NEW S \in SUBSET Req, Purge(S)
      PROVE  Private'
  <2>1. ask' = ask /\ \A c \in Req : conv'[c] = None \/ conv'[c] = conv[c]
    BY <1>6 DEF Purge
  <2>2. \A r \in Req : ask[r].op = "done" /\ ask[r].kept # None => ask[r].kept \in Req
    <3>1. ASSUME NEW r \in Req, ask[r].op = "done", ask[r].kept # None PROVE ask[r].kept \in Req
      <4>1. PICK c \in Req \cup {None} : ask[r] = Done(c)
        BY <1>1, <3>1, TurnIs
      <4>2. ask[r].kept = c
        BY <4>1 DEF Done
      <4>. QED
        BY <3>1, <4>2
    <3>. QED
      BY <3>1
  <2>3. \A r \in Req : Turn(r, "keeping") => ask[r].conv \in Req
    BY DEF Types, Keepers
  <2>4. StartedOnce'
    BY <2>1, <2>3 DEF Private, StartedOnce, Turn
  <2>5. TurnsKeptPrivate'
    BY <2>1, <2>2 DEF Private, TurnsKeptPrivate
  <2>. QED
    BY <2>4, <2>5 DEF Private
<1>7. CASE UNCHANGED vars
  BY <1>7 DEF vars, Private, StartedOnce, TurnsKeptPrivate, Turn
<1>. QED
  BY <1>2, <1>3, <1>4, <1>5, <1>6, <1>7, NextIs

\* A turn returned with a conversation is in it until the conversation is
\* deleted, and neither a conversation nor the prompt made from it holds a turn
\* of another caller.
THEOREM ConversationsPrivate == Spec => []TurnsKeptPrivate
<1>1. Private => TurnsKeptPrivate
  BY DEF Private
<1>2. Spec => []Private
  BY PrivateInit, PrivateStep, TypesAlways, PTL DEF Spec
<1>. QED
  BY <1>1, <1>2, PTL
=============================================================================
