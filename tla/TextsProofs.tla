---------------------------- MODULE TextsProofs ----------------------------
(***************************************************************************)
(* The operators of Texts, for texts of every length.  Three ways to       *)
(* reason about a recursive function come first (Induction, Recursion,     *)
(* TextInduction); then each operator's equations, and from them what      *)
(* Split, Join, Places and PageSize do together.                           *)
(***************************************************************************)
EXTENDS Texts, TLAPS, SequenceTheorems, WellFoundedInduction

\* Induction over the naturals, with the property as a set: a least number
\* that lacks it would have a predecessor that has it.
LEMMA Induction ==
  ASSUME NEW S, 0 \in S, \A n \in Nat : n \in S => n + 1 \in S
  PROVE  Nat \subseteq S
  <1> DEFINE R == OpToRel(<, Nat)
             T == {n \in Nat : n \notin S}
  <1>1. SUFFICES ASSUME T # {} PROVE FALSE
    OBVIOUS
  <1>2. IsWellFoundedOn(R, Nat)
    BY NatLessThanWellFounded
  <1>3. T \subseteq Nat
    OBVIOUS
  <1>4. PICK x \in T : \A y \in T : <<y, x>> \notin R
    <2> HIDE DEF R, T
    <2> QED
      BY <1>1, <1>2, <1>3, WFMin, Zenon
  <1>5. x - 1 \in T /\ x - 1 < x
    <2>1. x \in Nat /\ x \notin S /\ x # 0
      BY <1>3, <1>4
    <2>2. x - 1 \in Nat /\ (x - 1) + 1 = x
      BY <2>1
    <2>3. x - 1 \notin S
      BY <2>1, <2>2
    <2>4. QED
      BY <2>2, <2>3
  <1>6. <<x - 1, x>> \in R
    BY <1>3, <1>4, <1>5 DEF OpToRel
  <1>7. QED
    BY <1>4, <1>5, <1>6

\* Induction over the sequences of a set, by their last element.
LEMMA TextInduction ==
  ASSUME NEW A, NEW S, <<>> \in S,
         \A s \in Seq(A), a \in A : s \in S => Append(s, a) \in S
  PROVE  Seq(A) \subseteq S
  <1> DEFINE T == {n \in Nat : \A s \in Seq(A) : Len(s) = n => s \in S}
  <1>1. 0 \in T
    <2>1. \A s \in Seq(A) : Len(s) = 0 => s = <<>>
      BY EmptySeq
    <2>2. QED
      BY <2>1
  <1>2. ASSUME NEW n \in Nat, n \in T PROVE n + 1 \in T
    <2>1. ASSUME NEW s \in Seq(A), Len(s) = n + 1 PROVE s \in S
      <3>1. s # <<>>
        BY <2>1, EmptySeq
      <3>2. PICK u \in Seq(A), a \in A : s = Append(u, a)
        BY <3>1, SequenceEmptyOrAppend
      <3>3. Len(u) = n
        BY <2>1, <3>2, AppendProperties, LenProperties
      <3>4. QED
        BY <1>2, <3>2, <3>3
    <2>2. QED
      BY <2>1
  <1>3. Nat \subseteq T
    <2> HIDE DEF T
    <2> QED
      BY <1>1, <1>2, Induction, Zenon
  <1>4. QED
    BY <1>3, LenProperties

\* g is the recursive function on 0 .. n that begins at x and goes on by step.
Recursive(g, n, x, step) ==
  g = [i \in 0 .. n |-> IF i = 0 THEN x ELSE step[<<g[i - 1], i>>]]

\* There is such a function.
LEMMA Recursion ==
  ASSUME NEW X, NEW x \in X, NEW step, \A y \in X, i \in Nat : step[<<y, i>>] \in X,
         NEW n \in Nat
  PROVE  \E g \in [0 .. n -> X] : Recursive(g, n, x, step)
  <1> DEFINE S == {m \in Nat : \E g \in [0 .. m -> X] : Recursive(g, m, x, step)}
  <1>1. 0 \in S
    <2>1. [i \in 0 .. 0 |-> x] \in [0 .. 0 -> X]
      OBVIOUS
    <2>2. Recursive([i \in 0 .. 0 |-> x], 0, x, step)
      BY DEF Recursive
    <2>3. QED
      BY <2>1, <2>2
  <1>2. ASSUME NEW m \in Nat, m \in S PROVE m + 1 \in S
    <2>1. PICK g \in [0 .. m -> X] : Recursive(g, m, x, step)
      BY <1>2
    <2>2. \A i \in 0 .. m : g[i] = IF i = 0 THEN x ELSE step[<<g[i - 1], i>>]
      BY <2>1 DEF Recursive
    <2> DEFINE h == [i \in 0 .. m + 1 |-> IF i = m + 1 THEN step[<<g[m], m + 1>>] ELSE g[i]]
    <2>3. h \in [0 .. m + 1 -> X]
      OBVIOUS
    <2>4. ASSUME NEW i \in 0 .. m + 1
          PROVE  h[i] = IF i = 0 THEN x ELSE step[<<h[i - 1], i>>]
      <3>1. CASE i = m + 1
        BY <3>1
      <3>2. CASE i # m + 1
        <4>1. i \in 0 .. m /\ (i # 0 => i - 1 \in 0 .. m + 1 /\ i - 1 # m + 1)
          BY <3>2
        <4>2. QED
          BY <2>2, <3>2, <4>1
      <3>3. QED
        BY <3>1, <3>2
    <2>5. Recursive(h, m + 1, x, step)
      <3> HIDE DEF h
      <3>1. h = [i \in 0 .. m + 1 |-> h[i]]
        BY <2>3
      <3>2. QED
        BY <2>4, <3>1, Zenon DEF Recursive
    <2>6. QED
      BY <2>3, <2>5
  <1>3. Nat \subseteq S
    <2> HIDE DEF S
    <2> QED
      BY <1>1, <1>2, Induction, Zenon
  <1>4. QED
    BY <1>3

\* A set of integers between two has a maximum.
LEMMA MaxOfRange ==
  ASSUME NEW a \in Int, NEW b \in Int, NEW S \in SUBSET (a .. b), S # {}
  PROVE  Max(S) \in S /\ \A n \in S : n <= Max(S)
  <1>1. PICK m \in S : \A n \in S : n <= m
    <2>1. SUFFICES ASSUME \A m \in S : \E n \in S : n > m PROVE FALSE
      OBVIOUS
    <2> DEFINE U == {k \in Nat : \E n \in S : n >= a + k}
    <2>2. PICK n \in S : n \in a .. b
      OBVIOUS
    <2>3. 0 \in U
      BY <2>2
    <2>4. ASSUME NEW k \in Nat, k \in U PROVE k + 1 \in U
      <3>1. PICK i \in S : i >= a + k
        BY <2>4
      <3>2. PICK j \in S : j > i
        BY <2>1
      <3>3. i \in Int /\ j \in Int
        OBVIOUS
      <3>4. QED
        BY <3>1, <3>2, <3>3
    <2>5. Nat \subseteq U
      <3> HIDE DEF U
      <3> QED
        BY <2>3, <2>4, Induction, Zenon
    <2>6. b - a + 1 \in Nat
      BY <2>2
    <2>7. PICK j \in S : j >= a + (b - a + 1)
      BY <2>5, <2>6
    <2>8. QED
      BY <2>7
  <1>2. Max(S) \in S /\ \A n \in S : Max(S) >= n
    BY <1>1 DEF Max
  <1>3. QED
    BY <1>2

-----------------------------------------------------------------------------
(* Split *)

\* A line over the characters C, and the lists of one line or more.
Line(C)    == Seq(C \ {NL})
LineSeq(C) == Seq(Line(C)) \ {<<>>}

\* What one more character does to a list of lines.
LEMMA ExtendedType ==
  ASSUME NEW C, NEW ls \in LineSeq(C), NEW c \in C
  PROVE  /\ Extended(ls, c) \in LineSeq(C)
         /\ c = NL => Extended(ls, c) = Append(ls, <<>>)
         /\ c # NL => /\ Len(Extended(ls, c)) = Len(ls)
                      /\ \A i \in 1 .. Len(ls) :
                            Extended(ls, c)[i] = IF i = Len(ls) THEN Append(ls[i], c) ELSE ls[i]
  <1> DEFINE n == Len(ls)
  <1>1. ls \in Seq(Line(C)) /\ n \in Nat \ {0} /\ n \in 1 .. n
    BY LenProperties, EmptySeq DEF LineSeq
  <1>2. CASE c = NL
    <2>1. <<>> \in Line(C)
      BY EmptySeq DEF Line
    <2>2. Extended(ls, c) = Append(ls, <<>>)
      BY <1>2 DEF Extended
    <2>3. Append(ls, <<>>) \in LineSeq(C)
      BY <1>1, <2>1, AppendProperties DEF LineSeq
    <2>4. QED
      BY <1>2, <2>2, <2>3
  <1>3. CASE c # NL
    <2>1. ls[n] \in Line(C) /\ c \in C \ {NL}
      BY <1>1, <1>3, ElementOfSeq
    <2>2. Append(ls[n], c) \in Line(C)
      BY <2>1, AppendProperties DEF Line
    <2>3. Extended(ls, c) = [ls EXCEPT ![n] = Append(ls[n], c)]
      BY <1>3 DEF Extended
    <2>4. /\ [ls EXCEPT ![n] = Append(ls[n], c)] \in Seq(Line(C))
          /\ Len([ls EXCEPT ![n] = Append(ls[n], c)]) = n
          /\ \A i \in 1 .. n : [ls EXCEPT ![n] = Append(ls[n], c)][i]
                               = IF i = n THEN Append(ls[n], c) ELSE ls[i]
      <3>1. Len(ls) \in 1 .. Len(ls)
        BY <1>1
      <3>2. QED
        BY <1>1, <2>2, <3>1, ExceptSeq
    <2>5. Extended(ls, c) # <<>>
      BY <1>1, <2>3, <2>4, EmptySeq
    <2>6. QED
      BY <1>3, <2>3, <2>4, <2>5 DEF LineSeq
  <1>4. QED
    BY <1>2, <1>3

\* The equations of Split's recursion.
LEMMA SplitRecursion ==
  ASSUME NEW C, NEW t \in Seq(C)
  PROVE  \E f : /\ Split(t) = f[Len(t)]
                /\ f[0] = << <<>> >>
                /\ \A i \in 1 .. Len(t) : f[i] = Extended(f[i - 1], t[i])
                /\ \A i \in 0 .. Len(t) : f[i] \in LineSeq(C)
  <1> DEFINE n == Len(t)
             step == [p \in LineSeq(C) \X Nat |->
                        IF p[2] \in 1 .. n THEN Extended(p[1], t[p[2]]) ELSE p[1]]
             first == << <<>> >>
  <1>1. n \in Nat /\ \A i \in 1 .. n : t[i] \in C
    BY LenProperties, ElementOfSeq
  <1>2. first \in LineSeq(C)
    BY EmptySeq DEF LineSeq, Line
  <1>3. \A y \in LineSeq(C), i \in Nat :
           step[<<y, i>>] = IF i \in 1 .. n THEN Extended(y, t[i]) ELSE y
    OBVIOUS
  <1>4. \A y \in LineSeq(C), i \in Nat : step[<<y, i>>] \in LineSeq(C)
    BY <1>1, <1>3, ExtendedType
  <1>5. PICK g \in [0 .. n -> LineSeq(C)] : Recursive(g, n, first, step)
    <2> HIDE DEF n, first, step
    <2> QED
      BY <1>1, <1>2, <1>4, Recursion
  <1>6. \A i \in 0 .. n : (IF i = 0 THEN first ELSE step[<<g[i - 1], i>>])
                       = IF i = 0 THEN << <<>> >> ELSE Extended(g[i - 1], t[i])
    <2>1. \A i \in 1 .. n : g[i - 1] \in LineSeq(C)
      BY <1>1
    <2> HIDE DEF step
    <2> QED
      BY <1>1, <1>3, <2>1
  <1>7. g = [i \in 0 .. Len(t) |-> IF i = 0 THEN << <<>> >> ELSE Extended(g[i - 1], t[i])]
    <2> HIDE DEF step
    <2> QED
      BY <1>5, <1>6 DEF Recursive
  <1> DEFINE f == CHOOSE h : h = [i \in 0 .. Len(t) |->
                                IF i = 0 THEN << <<>> >> ELSE Extended(h[i - 1], t[i])]
  <1>8. f = [i \in 0 .. Len(t) |-> IF i = 0 THEN << <<>> >> ELSE Extended(f[i - 1], t[i])]
    BY <1>7, Zenon
  <1>9. Split(t) = f[Len(t)]
    BY Zenon DEF Split
  <1> HIDE DEF f
  <1>10. f[0] = << <<>> >> /\ \A i \in 1 .. n : f[i] = Extended(f[i - 1], t[i])
    <2>1. \A i \in 0 .. n : f[i] = IF i = 0 THEN << <<>> >> ELSE Extended(f[i - 1], t[i])
      BY <1>8, Zenon
    <2>2. 0 \in 0 .. n /\ \A i \in 1 .. n : i \in 0 .. n /\ i # 0
      BY <1>1
    <2>3. QED
      BY <2>1, <2>2, Zenon
  <1>11. \A i \in 0 .. n : f[i] \in LineSeq(C)
    <2> DEFINE S == {i \in Nat : i \in 0 .. n => f[i] \in LineSeq(C)}
    <2>1. 0 \in S
      BY <1>2, <1>10
    <2>2. ASSUME NEW i \in Nat, i \in S PROVE i + 1 \in S
      <3>1. SUFFICES ASSUME i + 1 \in 0 .. n PROVE f[i + 1] \in LineSeq(C)
        OBVIOUS
      <3>2. f[i + 1] = Extended(f[i], t[i + 1]) /\ t[i + 1] \in C
        BY <1>1, <1>10, <3>1
      <3>3. f[i] \in LineSeq(C)
        BY <1>1, <2>2, <3>1
      <3>4. QED
        BY <3>2, <3>3, ExtendedType
    <2>3. Nat \subseteq S
      <3> HIDE DEF S
      <3> QED
        BY <2>1, <2>2, Induction, Zenon
    <2>4. QED
      BY <1>1, <2>3
  <1>12. QED
    BY <1>9, <1>10, <1>11

\* Splitting no text gives one empty line, splitting one more character
\* extends the lines; the lines have no line feeds.
LEMMA SplitAppend ==
  ASSUME NEW C
  PROVE  /\ Split(<<>>) = << <<>> >>
         /\ \A t \in Seq(C) : Split(t) \in LineSeq(C)
         /\ \A t \in Seq(C), c \in C : Split(Append(t, c)) = Extended(Split(t), c)
  <1>1. Split(<<>>) = << <<>> >>
    <2>1. <<>> \in Seq(C) /\ Len(<<>>) = 0
      BY EmptySeq
    <2>2. QED
      BY <2>1, SplitRecursion
  <1>2. ASSUME NEW t \in Seq(C) PROVE Split(t) \in LineSeq(C)
    <2>1. Len(t) \in 0 .. Len(t)
      BY LenProperties
    <2>2. QED
      BY <2>1, SplitRecursion
  <1>3. ASSUME NEW t \in Seq(C), NEW c \in C PROVE Split(Append(t, c)) = Extended(Split(t), c)
    <2> DEFINE u == Append(t, c)
               n == Len(t)
    <2>1. /\ u \in Seq(C) /\ n \in Nat /\ Len(u) = n + 1 /\ u[n + 1] = c
          /\ \A i \in 1 .. n : u[i] = t[i]
      BY AppendProperties, LenProperties
    <2> HIDE DEF u
    <2>2. PICK f : /\ Split(t) = f[Len(t)]
                   /\ f[0] = << <<>> >>
                   /\ \A i \in 1 .. Len(t) : f[i] = Extended(f[i - 1], t[i])
                   /\ \A i \in 0 .. Len(t) : f[i] \in LineSeq(C)
      BY SplitRecursion, Zenon
    <2>3. PICK g : /\ Split(u) = g[Len(u)]
                   /\ g[0] = << <<>> >>
                   /\ \A i \in 1 .. Len(u) : g[i] = Extended(g[i - 1], u[i])
                   /\ \A i \in 0 .. Len(u) : g[i] \in LineSeq(C)
      BY <2>1, SplitRecursion, Zenon
    <2> DEFINE S == {i \in Nat : i \in 0 .. n => f[i] = g[i]}
    <2>4. 0 \in S
      BY <2>2, <2>3
    <2>5. ASSUME NEW i \in Nat, i \in S PROVE i + 1 \in S
      <3>1. SUFFICES ASSUME i + 1 \in 0 .. n PROVE f[i + 1] = g[i + 1]
        OBVIOUS
      <3>2. f[i + 1] = Extended(f[i], t[i + 1])
        BY <2>1, <2>2, <3>1
      <3>3. g[i + 1] = Extended(g[i], u[i + 1])
        BY <2>1, <2>3, <3>1
      <3>4. f[i] = g[i] /\ u[i + 1] = t[i + 1]
        BY <2>1, <2>5, <3>1
      <3>5. QED
        BY <3>2, <3>3, <3>4
    <2>6. Nat \subseteq S
      <3> HIDE DEF S
      <3> QED
        BY <2>4, <2>5, Induction, Zenon
    <2>7. f[n] = g[n]
      BY <2>1, <2>6
    <2>8. g[n + 1] = Extended(g[n], c)
      <3>1. n + 1 \in 1 .. Len(u) /\ (n + 1) - 1 = n /\ u[n + 1] = c
        BY <2>1
      <3>2. g[n + 1] = Extended(g[(n + 1) - 1], u[n + 1])
        BY <2>3, <3>1, Zenon
      <3>3. QED
        BY <3>1, <3>2, Zenon
    <2>9. QED
      BY <2>1, <2>2, <2>3, <2>7, <2>8 DEF u
  <1>4. QED
    BY <1>1, <1>2, <1>3

\* Concatenation, part by part.
LEMMA Concat ==
  ASSUME NEW C, NEW s \in Seq(C), NEW t \in Seq(C)
  PROVE  /\ s \o t \in Seq(C) /\ Len(s) \in Nat /\ Len(t) \in Nat
         /\ Len(s \o t) = Len(s) + Len(t)
         /\ \A i \in 1 .. Len(s) : (s \o t)[i] = s[i]
         /\ \A i \in 1 .. Len(t) : (s \o t)[Len(s) + i] = t[i]
  BY ConcatProperties, LenProperties

\* Appending to the second part of a concatenation.
LEMMA ConcatAppend ==
  ASSUME NEW C, NEW s \in Seq(C), NEW t \in Seq(C), NEW e \in C
  PROVE  s \o Append(t, e) = Append(s \o t, e)
  <1>1. <<e>> \in Seq(C)
    OBVIOUS
  <1>2. Append(t, e) = t \o <<e>> /\ Append(s \o t, e) = (s \o t) \o <<e>>
    BY AppendIsConcat, ConcatProperties
  <1>3. QED
    BY <1>1, <1>2, ConcatAssociative

\* Only the last line of a list is extended.
LEMMA ExtendedOfConcat ==
  ASSUME NEW C, NEW ks \in LineSeq(C), NEW ls \in LineSeq(C), NEW c \in C
  PROVE  Extended(ks \o ls, c) = ks \o Extended(ls, c)
  <1>1. ks \in Seq(Line(C)) /\ ls \in Seq(Line(C)) /\ ks # <<>> /\ ls # <<>>
    BY DEF LineSeq
  <1>2. ks \o ls \in LineSeq(C)
    BY <1>1, ConcatProperties, ConcatEqualIffEmpty DEF LineSeq
  <1>3. CASE c = NL
    <2>1. <<>> \in Line(C)
      BY EmptySeq DEF Line
    <2>2. ks \o Append(ls, <<>>) = Append(ks \o ls, <<>>)
      BY <1>1, <2>1, ConcatAppend
    <2>3. Extended(ls, c) = Append(ls, <<>>)
      BY <1>3, ExtendedType
    <2>4. Extended(ks \o ls, c) = Append(ks \o ls, <<>>)
      BY <1>2, <1>3, ExtendedType
    <2>5. QED
      BY <2>2, <2>3, <2>4
  <1>4. CASE c # NL
    <2> DEFINE es == Extended(ls, c)
               whole == ks \o ls
               m == Len(ks)
               n == Len(ls)
    <2>1. /\ Len(Extended(whole, c)) = Len(whole)
          /\ \A i \in 1 .. Len(whole) : Extended(whole, c)[i] =
                IF i = Len(whole) THEN Append(whole[i], c) ELSE whole[i]
          /\ Extended(whole, c) \in Seq(Line(C))
      <3>1. whole \in LineSeq(C)
        BY <1>2
      <3> HIDE DEF whole
      <3>2. Extended(whole, c) \in LineSeq(C)
        BY <3>1, ExtendedType
      <3>3. QED
        BY <1>4, <3>1, <3>2, ExtendedType DEF LineSeq
    <2>2. /\ Len(es) = n
          /\ \A i \in 1 .. n : es[i] = IF i = n THEN Append(ls[i], c) ELSE ls[i]
          /\ es \in Seq(Line(C))
      BY <1>4, ExtendedType DEF LineSeq
    <2>3. /\ m \in Nat /\ n \in Nat \ {0} /\ Len(whole) = m + n
          /\ \A i \in 1 .. m : whole[i] = ks[i]
          /\ \A i \in 1 .. n : whole[m + i] = ls[i]
      BY <1>1, Concat, EmptySeq
    <2> HIDE DEF es, whole
    <2>4. /\ Len(ks \o es) = m + n /\ ks \o es \in Seq(Line(C))
          /\ \A i \in 1 .. m : (ks \o es)[i] = ks[i]
          /\ \A i \in 1 .. n : (ks \o es)[m + i] = es[i]
      <3>1. /\ Len(ks \o es) = Len(ks) + Len(es) /\ ks \o es \in Seq(Line(C))
            /\ \A i \in 1 .. Len(ks) : (ks \o es)[i] = ks[i]
            /\ \A i \in 1 .. Len(es) : (ks \o es)[Len(ks) + i] = es[i]
        <4>1. es \in Seq(Line(C))
          BY <2>2
        <4>2. QED
          BY <1>1, <4>1, Concat
      <3>2. QED
        BY <2>2, <3>1
    <2>5. ASSUME NEW i \in 1 .. m + n PROVE Extended(whole, c)[i] = (ks \o es)[i]
      <3>1. CASE i <= m
        <4>1. i \in 1 .. m /\ i # m + n
          BY <2>3, <3>1
        <4>2. QED
          BY <2>1, <2>3, <2>4, <4>1
      <3>2. CASE i > m
        <4>1. PICK j \in 1 .. n : i = m + j
          <5>1. i - m \in 1 .. n /\ i = m + (i - m)
            BY <2>3, <3>2
          <5>2. QED
            BY <5>1
        <4> HIDE DEF m, n
        <4>2. whole[m + j] = ls[j] /\ (i = m + n <=> j = n)
          BY <2>3, <4>1
        <4>3. (ks \o es)[m + j] = es[j]
          BY <2>4
        <4>4. Extended(whole, c)[i] = IF j = n THEN Append(ls[j], c) ELSE ls[j]
          BY <2>1, <2>3, <4>1, <4>2
        <4>5. es[j] = IF j = n THEN Append(ls[j], c) ELSE ls[j]
          BY <2>2
        <4>6. QED
          BY <4>1, <4>3, <4>4, <4>5
      <3>3. i <= m \/ i > m
        BY <2>3
      <3>4. QED
        BY <3>1, <3>2, <3>3
    <2>6. Extended(whole, c) = ks \o es
      BY <2>1, <2>3, <2>4, <2>5, SeqEqual
    <2>7. QED
      BY <2>6 DEF whole, es
  <1>5. QED
    BY <1>3, <1>4

\* A line feed between two texts divides their lines.
LEMMA SplitConcat ==
  ASSUME NEW C, NL \in C, NEW s \in Seq(C), NEW t \in Seq(C)
  PROVE  Split((s \o <<NL>>) \o t) = Split(s) \o Split(t)
  <1> DEFINE r == s \o <<NL>>
             S == {u \in Seq(C) : Split(r \o u) = Split(s) \o Split(u)}
  <1>1. r \in Seq(C) /\ r = Append(s, NL)
    BY AppendIsConcat, AppendProperties
  <1> HIDE DEF r
  <1>2. <<>> \in S
    <2>1. r \o <<>> = r /\ <<>> \in Seq(C)
      BY <1>1, ConcatEmptySeq, EmptySeq
    <2>2. Split(r) = Append(Split(s), <<>>) /\ Split(s) \in Seq(Line(C))
      BY <1>1, SplitAppend, ExtendedType DEF LineSeq
    <2>3. Append(Split(s), <<>>) = Split(s) \o << <<>> >>
      <3>1. <<>> \in Line(C)
        BY EmptySeq DEF Line
      <3>2. QED
        BY <2>2, <3>1, AppendIsConcat
    <2>4. QED
      BY <2>1, <2>2, <2>3, SplitAppend
  <1>3. ASSUME NEW u \in Seq(C), NEW c \in C, u \in S PROVE Append(u, c) \in S
    <2>1. r \o Append(u, c) = Append(r \o u, c) /\ r \o u \in Seq(C) /\ Append(u, c) \in Seq(C)
      BY <1>1, ConcatAppend, ConcatProperties, AppendProperties
    <2>2. Split(Append(r \o u, c)) = Extended(Split(s) \o Split(u), c)
      BY <1>3, <2>1, SplitAppend
    <2>3. Extended(Split(s) \o Split(u), c) = Split(s) \o Extended(Split(u), c)
      <3>1. Split(s) \in LineSeq(C) /\ Split(u) \in LineSeq(C)
        BY SplitAppend
      <3>2. QED
        BY <3>1, ExtendedOfConcat
    <2>4. Extended(Split(u), c) = Split(Append(u, c))
      BY SplitAppend
    <2>5. QED
      BY <2>1, <2>2, <2>3, <2>4
  <1>4. Seq(C) \subseteq S
    <2> HIDE DEF S
    <2> QED
      BY <1>2, <1>3, TextInduction, Zenon
  <1>5. QED
    BY <1>4 DEF r

\* A text without line feeds is one line.
LEMMA SplitLine ==
  ASSUME NEW C, NEW l \in Line(C)
  PROVE  Split(l) = <<l>>
  <1> DEFINE S == {u \in Line(C) : Split(u) = <<u>>}
  <1>1. <<>> \in S
    BY SplitAppend, EmptySeq DEF Line
  <1>2. ASSUME NEW u \in Seq(C \ {NL}), NEW c \in C \ {NL}, u \in S PROVE Append(u, c) \in S
    <2>1. Append(u, c) \in Line(C) /\ u \in Line(C)
      BY AppendProperties DEF Line
    <2>2. Split(Append(u, c)) = Extended(<<u>>, c)
      <3>1. u \in Seq(C) /\ c \in C
        BY SeqMonotonic
      <3>2. QED
        BY <1>2, <3>1, SplitAppend
    <2>3. Extended(<<u>>, c) = <<Append(u, c)>>
      BY <1>2 DEF Extended
    <2>4. QED
      BY <2>1, <2>2, <2>3
  <1>3. Seq(C \ {NL}) \subseteq S
    <2> HIDE DEF S
    <2> QED
      BY <1>1, <1>2, TextInduction, Zenon
  <1>4. QED
    BY <1>3 DEF Line

-----------------------------------------------------------------------------
(* Join *)

\* The equations of FlattenSeq's recursion.
LEMMA FlattenRecursion ==
  ASSUME NEW C, NEW ss \in Seq(Seq(C)), ss # <<>>
  PROVE  \E f : /\ FlattenSeq(ss) = f[Len(ss)]
                /\ f[1] = ss[1]
                /\ \A i \in 2 .. Len(ss) : f[i] = f[i - 1] \o ss[i]
                /\ \A i \in 1 .. Len(ss) : f[i] \in Seq(C)
  <1> DEFINE n == Len(ss)
             step == [p \in Seq(C) \X Nat |->
                        IF p[2] \in 1 .. n
                        THEN IF p[2] = 1 THEN ss[p[2]] ELSE p[1] \o ss[p[2]]
                        ELSE p[1]]
  <1>1. n \in Nat \ {0} /\ \A i \in 1 .. n : ss[i] \in Seq(C)
    BY LenProperties, EmptySeq, ElementOfSeq
  <1>2. <<>> \in Seq(C)
    BY EmptySeq
  <1>3. \A y \in Seq(C), i \in Nat :
           step[<<y, i>>] = IF i \in 1 .. n THEN IF i = 1 THEN ss[i] ELSE y \o ss[i] ELSE y
    OBVIOUS
  <1>4. \A y \in Seq(C), i \in Nat : step[<<y, i>>] \in Seq(C)
    BY <1>1, <1>3, ConcatProperties
  <1>5. PICK g \in [0 .. n -> Seq(C)] : Recursive(g, n, <<>>, step)
    <2> HIDE DEF n, step
    <2> QED
      BY <1>1, <1>2, <1>4, Recursion
  <1> DEFINE h == [i \in 1 .. n |-> g[i]]
  <1>6. \A i \in 1 .. n : h[i] = IF i = 1 THEN ss[i] ELSE h[i - 1] \o ss[i]
    <2>1. \A i \in 0 .. n : g[i] = IF i = 0 THEN <<>> ELSE step[<<g[i - 1], i>>]
      <3> HIDE DEF step
      <3> QED
        BY <1>5, Zenon DEF Recursive
    <2>2. \A i \in 1 .. n : i \in 0 .. n /\ i # 0 /\ i - 1 \in 0 .. n /\ i \in Nat
                            /\ (i # 1 => i - 1 \in 1 .. n)
      BY <1>1
    <2>3. \A i \in 1 .. n : g[i - 1] \in Seq(C)
      BY <2>2
    <2> HIDE DEF step
    <2>4. \A i \in 1 .. n : g[i] = IF i = 1 THEN ss[i] ELSE g[i - 1] \o ss[i]
      BY <1>3, <2>1, <2>2, <2>3
    <2>5. QED
      BY <2>2, <2>4
  <1>7. h = [i \in 1 .. Len(ss) |-> IF i = 1 THEN ss[i] ELSE h[i - 1] \o ss[i]]
    BY <1>6
  <1> HIDE DEF h
  <1> DEFINE f == CHOOSE k : k = [i \in 1 .. Len(ss) |->
                                IF i = 1 THEN ss[i] ELSE k[i - 1] \o ss[i]]
  <1>8. f = [i \in 1 .. Len(ss) |-> IF i = 1 THEN ss[i] ELSE f[i - 1] \o ss[i]]
    BY <1>7, Zenon
  <1>9. FlattenSeq(ss) = f[Len(ss)]
    <2>1. Len(ss) # 0
      BY <1>1
    <2>2. QED
      BY <2>1, Zenon DEF FlattenSeq
  <1> HIDE DEF f
  <1>10. f[1] = ss[1] /\ \A i \in 2 .. n : f[i] = f[i - 1] \o ss[i]
    <2>1. \A i \in 1 .. n : f[i] = IF i = 1 THEN ss[i] ELSE f[i - 1] \o ss[i]
      BY <1>8, Zenon
    <2>2. 1 \in 1 .. n /\ \A i \in 2 .. n : i \in 1 .. n /\ i # 1
      BY <1>1
    <2>3. QED
      BY <2>1, <2>2, Zenon
  <1>11. \A i \in 1 .. n : f[i] \in Seq(C)
    <2> DEFINE S == {i \in Nat : i + 1 \in 1 .. n => f[i + 1] \in Seq(C)}
    <2>1. 0 \in S
      BY <1>1, <1>10
    <2>2. ASSUME NEW i \in Nat, i \in S PROVE i + 1 \in S
      <3>1. SUFFICES ASSUME (i + 1) + 1 \in 1 .. n PROVE f[(i + 1) + 1] \in Seq(C)
        OBVIOUS
      <3>2. f[(i + 1) + 1] = f[i + 1] \o ss[(i + 1) + 1]
        <4>1. (i + 1) + 1 \in 2 .. n /\ ((i + 1) + 1) - 1 = i + 1
          BY <1>1, <3>1
        <4>2. QED
          BY <1>10, <4>1
      <3>3. f[i + 1] \in Seq(C) /\ ss[(i + 1) + 1] \in Seq(C)
        BY <1>1, <2>2, <3>1
      <3>4. QED
        BY <3>2, <3>3, ConcatProperties
    <2>3. Nat \subseteq S
      <3> HIDE DEF S
      <3> QED
        BY <2>1, <2>2, Induction, Zenon
    <2>4. ASSUME NEW i \in 1 .. n PROVE f[i] \in Seq(C)
      <3>1. i - 1 \in Nat /\ (i - 1) + 1 = i
        BY <1>1
      <3>2. QED
        BY <2>3, <3>1
    <2>5. QED
      BY <2>4
  <1>12. QED
    BY <1>9, <1>10, <1>11

\* What FlattenSeq makes of no text, and of one more text.
LEMMA FlattenAppend ==
  ASSUME NEW C
  PROVE  /\ FlattenSeq(<<>>) = <<>>
         /\ \A ss \in Seq(Seq(C)) : FlattenSeq(ss) \in Seq(C)
         /\ \A ss \in Seq(Seq(C)), s \in Seq(C) :
               FlattenSeq(Append(ss, s)) = FlattenSeq(ss) \o s
  <1>1. FlattenSeq(<<>>) = <<>>
    BY EmptySeq DEF FlattenSeq
  <1>2. ASSUME NEW ss \in Seq(Seq(C)) PROVE FlattenSeq(ss) \in Seq(C)
    <2>1. CASE ss = <<>>
      BY <1>1, <2>1, EmptySeq
    <2>2. CASE ss # <<>>
      <3>1. Len(ss) \in 1 .. Len(ss)
        BY <2>2, EmptySeq
      <3>2. QED
        BY <2>2, <3>1, FlattenRecursion
    <2>3. QED
      BY <2>1, <2>2
  <1>3. ASSUME NEW ss \in Seq(Seq(C)), NEW s \in Seq(C)
        PROVE  FlattenSeq(Append(ss, s)) = FlattenSeq(ss) \o s
    <2> DEFINE us == Append(ss, s)
               n == Len(ss)
    <2>1. /\ us \in Seq(Seq(C)) /\ n \in Nat /\ Len(us) = n + 1 /\ us[n + 1] = s /\ us # <<>>
          /\ \A i \in 1 .. n : us[i] = ss[i]
      BY AppendProperties, LenProperties
    <2> HIDE DEF us
    <2>2. PICK g : /\ FlattenSeq(us) = g[Len(us)]
                   /\ g[1] = us[1]
                   /\ \A i \in 2 .. Len(us) : g[i] = g[i - 1] \o us[i]
                   /\ \A i \in 1 .. Len(us) : g[i] \in Seq(C)
      <3>1. us \in Seq(Seq(C)) /\ us # <<>>
        BY <2>1
      <3>2. QED
        BY <3>1, FlattenRecursion, Zenon
    <2>3. CASE ss = <<>>
      <3>1. n = 0
        BY <2>3, EmptySeq
      <3>2. FlattenSeq(us) = s
        BY <2>1, <2>2, <3>1
      <3>3. <<>> \o s = s
        BY ConcatEmptySeq
      <3>4. QED
        BY <1>1, <2>3, <3>2, <3>3 DEF us
    <2>4. CASE ss # <<>>
      <3>1. PICK f : /\ FlattenSeq(ss) = f[Len(ss)]
                     /\ f[1] = ss[1]
                     /\ \A i \in 2 .. Len(ss) : f[i] = f[i - 1] \o ss[i]
                     /\ \A i \in 1 .. Len(ss) : f[i] \in Seq(C)
        BY <2>4, FlattenRecursion, Zenon
      <3> DEFINE S == {i \in Nat : i + 1 \in 1 .. n => f[i + 1] = g[i + 1]}
      <3>2. 0 \in S
        BY <2>1, <2>2, <3>1
      <3>3. ASSUME NEW i \in Nat, i \in S PROVE i + 1 \in S
        <4>1. SUFFICES ASSUME (i + 1) + 1 \in 1 .. n PROVE f[(i + 1) + 1] = g[(i + 1) + 1]
          OBVIOUS
        <4>2. (i + 1) + 1 \in 2 .. n /\ (i + 1) + 1 \in 2 .. n + 1 /\ ((i + 1) + 1) - 1 = i + 1
          BY <2>1, <4>1
        <4>3. f[(i + 1) + 1] = f[i + 1] \o ss[(i + 1) + 1]
          BY <3>1, <4>2
        <4>4. g[(i + 1) + 1] = g[i + 1] \o us[(i + 1) + 1]
          BY <2>1, <2>2, <4>2
        <4>5. f[i + 1] = g[i + 1] /\ us[(i + 1) + 1] = ss[(i + 1) + 1]
          BY <2>1, <3>3, <4>1
        <4>6. QED
          BY <4>3, <4>4, <4>5
      <3>4. Nat \subseteq S
        <4> HIDE DEF S
        <4> QED
          BY <3>2, <3>3, Induction, Zenon
      <3>5. n - 1 \in Nat /\ (n - 1) + 1 = n /\ n \in 1 .. n
        BY <2>4, EmptySeq
      <3>6. f[n] = g[n]
        BY <3>4, <3>5
      <3>7. g[n + 1] = g[n] \o s
        <4>1. n + 1 \in 2 .. n + 1 /\ (n + 1) - 1 = n
          BY <3>5
        <4>2. QED
          BY <2>1, <2>2, <4>1
      <3>8. QED
        BY <2>1, <2>2, <3>1, <3>6, <3>7 DEF us
    <2>5. QED
      BY <2>3, <2>4
  <1>4. QED
    BY <1>1, <1>2, <1>3

\* What Join makes of no line, of one line, and of one more line.
LEMMA JoinAppend ==
  ASSUME NEW C, NL \in C
  PROVE  /\ Join(<<>>) = <<>>
         /\ \A ls \in Seq(Seq(C)) : Join(ls) \in Seq(C)
         /\ \A l \in Seq(C) : Join(<<l>>) = l
         /\ \A ls \in Seq(Seq(C)) \ {<<>>}, l \in Seq(C) :
               Join(Append(ls, l)) = (Join(ls) \o <<NL>>) \o l
  <1> DEFINE pieces(ls) == [i \in DOMAIN ls |-> IF i = 1 THEN ls[i] ELSE <<NL>> \o ls[i]]
  <1>1. \A ls : Join(ls) = FlattenSeq(pieces(ls))
    BY DEF Join
  <1>2. ASSUME NEW ls \in Seq(Seq(C))
        PROVE  /\ pieces(ls) \in Seq(Seq(C)) /\ Len(pieces(ls)) = Len(ls)
               /\ \A i \in 1 .. Len(ls) : pieces(ls)[i] = IF i = 1 THEN ls[i] ELSE <<NL>> \o ls[i]
    <2>1. Len(ls) \in Nat /\ DOMAIN ls = 1 .. Len(ls) /\ \A i \in 1 .. Len(ls) : ls[i] \in Seq(C)
      BY LenProperties, ElementOfSeq
    <2>2. \A i \in 1 .. Len(ls) : <<NL>> \o ls[i] \in Seq(C)
      BY <2>1, ConcatProperties
    <2>3. QED
      BY <2>1, <2>2
  <1>3. pieces(<<>>) = <<>>
    OBVIOUS
  <1>4. ASSUME NEW ls \in Seq(Seq(C)), NEW l \in Seq(C)
        PROVE  pieces(Append(ls, l))
                 = Append(pieces(ls), IF ls = <<>> THEN l ELSE <<NL>> \o l)
    <2> DEFINE ks == Append(ls, l)
               e == IF ls = <<>> THEN l ELSE <<NL>> \o l
               n == Len(ls)
    <2>1. /\ ks \in Seq(Seq(C)) /\ n \in Nat /\ Len(ks) = n + 1 /\ ks[n + 1] = l
          /\ \A i \in 1 .. n : ks[i] = ls[i]
      BY AppendProperties, LenProperties
    <2>2. ls = <<>> <=> n = 0
      BY EmptySeq
    <2>3. e \in Seq(C)
      BY ConcatProperties
    <2> HIDE DEF ks, pieces
    <2>4. /\ pieces(ks) \in Seq(Seq(C)) /\ Len(pieces(ks)) = n + 1
          /\ \A i \in 1 .. n + 1 : pieces(ks)[i] = IF i = 1 THEN ks[i] ELSE <<NL>> \o ks[i]
      BY <1>2, <2>1
    <2>5. /\ Append(pieces(ls), e) \in Seq(Seq(C)) /\ Len(Append(pieces(ls), e)) = n + 1
          /\ \A i \in 1 .. n : Append(pieces(ls), e)[i] = pieces(ls)[i]
          /\ Append(pieces(ls), e)[n + 1] = e
      <3>1. pieces(ls) \in Seq(Seq(C)) /\ Len(pieces(ls)) = n
        BY <1>2
      <3> HIDE DEF e, n
      <3>2. QED
        BY <2>3, <3>1, AppendProperties
    <2>6. ASSUME NEW i \in 1 .. n + 1 PROVE pieces(ks)[i] = Append(pieces(ls), e)[i]
      <3>1. CASE i = n + 1
        <4>1. ks[i] = l /\ (i = 1 <=> ls = <<>>)
          BY <2>1, <2>2, <3>1
        <4>2. QED
          BY <2>4, <2>5, <3>1, <4>1
      <3>2. CASE i # n + 1
        <4>1. i \in 1 .. n
          BY <2>1, <3>2
        <4>2. pieces(ks)[i] = IF i = 1 THEN ks[i] ELSE <<NL>> \o ks[i]
          BY <2>4
        <4>3. pieces(ls)[i] = IF i = 1 THEN ls[i] ELSE <<NL>> \o ls[i]
          BY <1>2, <4>1
        <4>4. ks[i] = ls[i] /\ Append(pieces(ls), e)[i] = pieces(ls)[i]
          BY <2>1, <2>5, <4>1
        <4>5. QED
          BY <4>2, <4>3, <4>4
      <3>3. QED
        BY <3>1, <3>2
    <2>7. pieces(ks) = Append(pieces(ls), e)
      <3> DEFINE p == pieces(ks)
                 q == Append(pieces(ls), e)
      <3>1. /\ p \in Seq(Seq(C)) /\ q \in Seq(Seq(C)) /\ Len(p) = Len(q)
            /\ \A i \in 1 .. Len(p) : p[i] = q[i]
        BY <2>4, <2>5, <2>6
      <3> HIDE DEF p, q
      <3>2. p = q
        BY <3>1, SeqEqual
      <3>3. QED
        BY <3>2 DEF p, q
    <2>8. QED
      BY <2>7 DEF ks
  <1> HIDE DEF pieces
  <1>5. \A ls \in Seq(Seq(C)) : Join(ls) \in Seq(C)
    BY <1>1, <1>2, FlattenAppend
  <1>6. ASSUME NEW l \in Seq(C) PROVE Join(<<l>>) = l
    <2>1. <<l>> = Append(<<>>, l) /\ <<>> \in Seq(Seq(C))
      OBVIOUS
    <2>2. pieces(<<l>>) = Append(<<>>, l)
      BY <1>3, <1>4, <2>1
    <2>3. FlattenSeq(Append(<<>>, l)) = <<>> \o l
      BY <2>1, FlattenAppend
    <2>4. <<>> \o l = l
      BY ConcatEmptySeq
    <2>5. QED
      BY <1>1, <2>2, <2>3, <2>4
  <1>7. ASSUME NEW ls \in Seq(Seq(C)) \ {<<>>}, NEW l \in Seq(C)
        PROVE  Join(Append(ls, l)) = (Join(ls) \o <<NL>>) \o l
    <2>1. pieces(Append(ls, l)) = Append(pieces(ls), <<NL>> \o l)
      BY <1>4
    <2>2. <<NL>> \in Seq(C) /\ <<NL>> \o l \in Seq(C) /\ pieces(ls) \in Seq(Seq(C))
      BY <1>2, ConcatProperties
    <2>3. FlattenSeq(Append(pieces(ls), <<NL>> \o l)) = FlattenSeq(pieces(ls)) \o (<<NL>> \o l)
      BY <2>2, FlattenAppend
    <2>4. Join(ls) \o (<<NL>> \o l) = (Join(ls) \o <<NL>>) \o l
      <3>1. Join(ls) \in Seq(C)
        BY <1>5
      <3>2. QED
        BY <2>2, <3>1, ConcatAssociative, SMTT(30)
    <2>5. QED
      BY <1>1, <2>1, <2>3, <2>4
  <1>8. QED
    BY <1>1, <1>3, <1>5, <1>6, <1>7, FlattenAppend

\* Lines are texts.
LEMMA LinesAreTexts ==
  ASSUME NEW C
  PROVE  /\ Line(C) \subseteq Seq(C) /\ Seq(Line(C)) \subseteq Seq(Seq(C))
         /\ LineSeq(C) \subseteq Seq(Seq(C)) \ {<<>>}
  <1>1. Line(C) \subseteq Seq(C)
    BY SeqMonotonic DEF Line
  <1>2. Seq(Line(C)) \subseteq Seq(Seq(C))
    BY <1>1, SeqMonotonic
  <1>3. QED
    BY <1>1, <1>2 DEF LineSeq

\* Join loses no line: splitting what it made gives the lines back.
LEMMA SplitJoin ==
  ASSUME NEW C, NL \in C, NEW ls \in LineSeq(C)
  PROVE  Split(Join(ls)) = ls
  <1> DEFINE S == {ks \in Seq(Line(C)) : ks # <<>> => Split(Join(ks)) = ks}
  <1>1. <<>> \in S
    BY EmptySeq
  <1>2. ASSUME NEW ks \in Seq(Line(C)), NEW l \in Line(C), ks \in S PROVE Append(ks, l) \in S
    <2>1. Append(ks, l) \in Seq(Line(C)) /\ l \in Seq(C) /\ Split(l) = <<l>>
      BY AppendProperties, SplitLine, LinesAreTexts
    <2>2. CASE ks = <<>>
      <3>1. Append(ks, l) = <<l>>
        BY <2>2
      <3>2. QED
        BY <2>1, <3>1, JoinAppend
    <2>3. CASE ks # <<>>
      <3>1. ks \in Seq(Seq(C)) \ {<<>>} /\ Join(ks) \in Seq(C)
        BY <2>3, LinesAreTexts, JoinAppend
      <3>2. Join(Append(ks, l)) = (Join(ks) \o <<NL>>) \o l
        BY <2>1, <3>1, JoinAppend
      <3>3. Split((Join(ks) \o <<NL>>) \o l) = Split(Join(ks)) \o Split(l)
        BY <2>1, <3>1, SplitConcat
      <3>4. Split(Join(ks)) = ks
        BY <1>2, <2>3
      <3>5. ks \o <<l>> = Append(ks, l)
        BY AppendIsConcat
      <3>6. QED
        BY <2>1, <3>2, <3>3, <3>4, <3>5
    <2>4. QED
      BY <2>2, <2>3
  <1>3. Seq(Line(C)) \subseteq S
    <2> HIDE DEF S
    <2> QED
      BY <1>1, <1>2, TextInduction, Zenon
  <1>4. QED
    BY <1>3 DEF LineSeq

\* The text up to a last line that ends in c.
LEMMA JoinExtended ==
  ASSUME NEW C, NL \in C, NEW ls \in LineSeq(C), NEW c \in C \ {NL}
  PROVE  Join(Extended(ls, c)) = Append(Join(ls), c)
  <1>1. PICK front \in Seq(Line(C)), l \in Line(C) : ls = Append(front, l)
    BY SequenceEmptyOrAppend DEF LineSeq
  <1> DEFINE m == Append(l, c)
             n == Len(front)
  <1>2. l \in Seq(C) /\ m \in Seq(C) /\ m \in Line(C)
    BY LinesAreTexts, AppendProperties DEF Line
  <1>3. /\ n \in Nat /\ Len(ls) = n + 1 /\ ls[n + 1] = l
        /\ \A i \in 1 .. n : ls[i] = front[i]
    BY <1>1, AppendProperties, LenProperties
  <1>4. Extended(ls, c) = Append(front, m)
    <2> HIDE DEF m, n
    <2>1. /\ Append(front, m) \in Seq(Line(C)) /\ Len(Append(front, m)) = Len(front) + 1
          /\ \A i \in 1 .. Len(front) : Append(front, m)[i] = front[i]
          /\ Append(front, m)[Len(front) + 1] = m
      BY <1>2, AppendProperties
    <2>2. /\ Extended(ls, c) \in Seq(Line(C)) /\ Len(Extended(ls, c)) = Len(ls)
          /\ \A i \in 1 .. Len(ls) : Extended(ls, c)[i] = IF i = Len(ls) THEN Append(ls[i], c) ELSE ls[i]
      BY ExtendedType DEF LineSeq
    <2>3. \A i \in 1 .. Len(ls) : Extended(ls, c)[i] = Append(front, m)[i]
      BY <1>3, <2>1, <2>2 DEF m, n
    <2>4. QED
      BY <1>3, <2>1, <2>2, <2>3, SeqEqual DEF n
  <1> HIDE DEF m
  <1>5. CASE front = <<>>
    <2>1. Append(front, m) = <<m>> /\ ls = <<l>>
      BY <1>1, <1>5
    <2>2. Join(<<m>>) = m /\ Join(<<l>>) = l
      BY <1>2, JoinAppend
    <2>3. QED
      BY <1>4, <2>1, <2>2 DEF m
  <1>6. CASE front # <<>>
    <2>1. front \in Seq(Seq(C)) \ {<<>>} /\ Join(front) \in Seq(C)
      BY <1>6, LinesAreTexts, JoinAppend
    <2> DEFINE r == Join(front) \o <<NL>>
    <2>2. r \in Seq(C)
      BY <2>1, ConcatProperties
    <2>3. Join(Append(front, m)) = r \o m /\ Join(Append(front, l)) = r \o l
      BY <1>2, <2>1, JoinAppend
    <2> HIDE DEF r
    <2>4. r \o Append(l, c) = Append(r \o l, c)
      BY <1>2, <2>2, ConcatAppend
    <2>5. QED
      BY <1>1, <1>4, <2>3, <2>4 DEF m
  <1>7. QED
    BY <1>5, <1>6

\* strings.Split and strings.Join lose nothing, in either order: the lines of
\* a text, joined, are the text, and joined lines are split where they were.
THEOREM SplitAndJoin ==
  ASSUME NEW C, NL \in C
  PROVE  /\ \A t \in Seq(C) : Split(t) \in LineSeq(C) /\ Join(Split(t)) = t
         /\ \A ls \in LineSeq(C) : Join(ls) \in Seq(C) /\ Split(Join(ls)) = ls
  <1> DEFINE S == {t \in Seq(C) : Join(Split(t)) = t}
  <1>1. <<>> \in S
    <2>1. <<>> \in Seq(C)
      BY EmptySeq
    <2>2. Split(<<>>) = << <<>> >>
      BY SplitAppend
    <2>3. Join(<< <<>> >>) = <<>>
      BY <2>1, JoinAppend
    <2>4. QED
      BY <2>1, <2>2, <2>3
  <1>2. ASSUME NEW t \in Seq(C), NEW c \in C, t \in S PROVE Append(t, c) \in S
    <2>1. Split(t) \in LineSeq(C) /\ Join(Split(t)) = t
      BY <1>2, SplitAppend
    <2>2. Split(Append(t, c)) = Extended(Split(t), c) /\ Append(t, c) \in Seq(C)
      BY SplitAppend, AppendProperties
    <2>3. CASE c = NL
      <3>1. Extended(Split(t), c) = Append(Split(t), <<>>)
        BY <2>1, <2>3, ExtendedType
      <3>2. <<>> \in Seq(C) /\ Split(t) \in Seq(Seq(C)) \ {<<>>}
        BY <2>1, EmptySeq, LinesAreTexts
      <3>3. Join(Append(Split(t), <<>>)) = (t \o <<NL>>) \o <<>>
        <4> DEFINE ls == Split(t)
        <4>1. ls \in Seq(Seq(C)) \ {<<>>} /\ Join(ls) = t
          BY <2>1, <3>2
        <4> HIDE DEF ls
        <4>2. Join(Append(ls, <<>>)) = (Join(ls) \o <<NL>>) \o <<>>
          BY <3>2, <4>1, JoinAppend
        <4>3. QED
          BY <4>1, <4>2 DEF ls
      <3>4. t \o <<NL>> = Append(t, c) /\ Append(t, c) \o <<>> = Append(t, c)
        BY <2>2, <2>3, AppendIsConcat, ConcatEmptySeq
      <3>5. QED
        BY <2>2, <3>1, <3>3, <3>4
    <2>4. CASE c # NL
      BY <2>1, <2>2, <2>4, JoinExtended
    <2>5. QED
      BY <2>3, <2>4
  <1>3. Seq(C) \subseteq S
    <2> HIDE DEF S
    <2> QED
      BY <1>1, <1>2, TextInduction, Zenon
  <1>4. \A t \in Seq(C) : Split(t) \in LineSeq(C) /\ Join(Split(t)) = t
    BY <1>3, SplitAppend
  <1>5. \A ls \in LineSeq(C) : Join(ls) \in Seq(C) /\ Split(Join(ls)) = ls
    BY SplitJoin, LinesAreTexts, JoinAppend
  <1>6. QED
    BY <1>4, <1>5

-----------------------------------------------------------------------------
(* The tail of a task's output *)

\* A member above all the others is the maximum.
LEMMA MaxIs ==
  ASSUME NEW S \in SUBSET Int, NEW m \in S, \A n \in S : n <= m
  PROVE  Max(S) = m
  <1>1. \A x \in S : (\A y \in S : x >= y) <=> (x = m)
    OBVIOUS
  <1>2. QED
    BY <1>1, Zenon DEF Max

\* A member below all the others is the minimum.
LEMMA MinIs ==
  ASSUME NEW S \in SUBSET Int, NEW m \in S, \A n \in S : m <= n
  PROVE  Min(S) = m
  <1>1. \A x \in S : (\A y \in S : x <= y) <=> (x = m)
    OBVIOUS
  <1>2. QED
    BY <1>1, Zenon DEF Min

\* TrimRight leaves no text, or one that ends in another character.
LEMMA TrimRightEnds ==
  ASSUME NEW C, NEW c, NEW t \in Seq(C)
  PROVE  /\ TrimRight(t, c) \in Seq(C)
         /\ TrimRight(t, c) # <<>> =>
               \E u \in Seq(C), e \in C : e # c /\ TrimRight(t, c) = Append(u, e)
  <1> DEFINE S == {0} \cup {i \in DOMAIN t : t[i] # c}
             m == Max(S)
             r == TrimRight(t, c)
  <1>1. Len(t) \in Nat /\ DOMAIN t = 1 .. Len(t) /\ \A i \in 1 .. Len(t) : t[i] \in C
    BY LenProperties, ElementOfSeq
  <1>2. m \in S
    <2>1. S \in SUBSET (0 .. Len(t)) /\ S # {}
      BY <1>1
    <2>2. 0 \in Int /\ Len(t) \in Int
      BY <1>1
    <2> HIDE DEF S
    <2>3. QED
      BY <2>1, <2>2, MaxOfRange
  <1>3. r = SubSeq(t, 1, m)
    BY DEF TrimRight
  <1> HIDE DEF m, r
  <1>4. m \in 0 .. Len(t) /\ (m # 0 => t[m] # c)
    BY <1>1, <1>2
  <1>5. r \in Seq(C) /\ Len(r) = m /\ \A i \in 1 .. m : r[i] = t[i]
    BY <1>1, <1>3, <1>4, SubSeqProperties
  <1>6. ASSUME r # <<>> PROVE \E u \in Seq(C), e \in C : e # c /\ r = Append(u, e)
    <2>1. PICK u \in Seq(C), e \in C : r = Append(u, e)
      BY <1>5, <1>6, SequenceEmptyOrAppend
    <2>2. Len(r) = Len(u) + 1 /\ r[Len(u) + 1] = e
      BY <2>1, AppendProperties
    <2>3. m # 0 /\ e = r[m]
      BY <1>5, <2>2, LenProperties
    <2>4. m \in 1 .. m
      BY <1>4, <2>3
    <2>5. e # c
      BY <1>4, <1>5, <2>3, <2>4
    <2>6. QED
      BY <2>1, <2>5
  <1>7. QED
    BY <1>5, <1>6 DEF r

\* TrimRight takes off what was put behind another character.
LEMMA TrimRightOf ==
  ASSUME NEW C, NEW c \in C, NEW u \in Seq(C), NEW e \in C, e # c
  PROVE  TrimRight(Append(u, e) \o <<c>>, c) = Append(u, e)
  <1> DEFINE t == Append(u, e)
             r == t \o <<c>>
             n == Len(u)
             S == {0} \cup {i \in DOMAIN r : r[i] # c}
  <1>1. t \in Seq(C) /\ n \in Nat /\ Len(t) = n + 1 /\ t[n + 1] = e
    BY AppendProperties, LenProperties
  <1> HIDE DEF t
  <1>2. r = Append(t, c)
    BY <1>1, AppendIsConcat
  <1>3. /\ r \in Seq(C) /\ Len(r) = n + 2 /\ r[n + 2] = c
        /\ \A i \in 1 .. n + 1 : r[i] = t[i]
    BY <1>1, <1>2, AppendProperties
  <1>4. DOMAIN r = 1 .. n + 2
    BY <1>3, LenProperties
  <1> HIDE DEF r
  <1>5. n + 1 \in S /\ S \in SUBSET Int /\ \A i \in S : i <= n + 1
    BY <1>1, <1>3, <1>4
  <1>6. Max(S) = n + 1
    <2> HIDE DEF S
    <2> QED
      BY <1>5, MaxIs
  <1>7. TrimRight(r, c) = SubSeq(r, 1, n + 1)
    BY <1>6 DEF TrimRight
  <1>8. SubSeq(r, 1, n + 1) = t
    <2>1. /\ SubSeq(r, 1, n + 1) \in Seq(C) /\ Len(SubSeq(r, 1, n + 1)) = n + 1
          /\ \A i \in 1 .. n + 1 : SubSeq(r, 1, n + 1)[i] = r[i]
      BY <1>1, <1>3, SubSeqProperties, ElementOfSeq
    <2>2. QED
      BY <1>1, <1>3, <2>1, SeqEqual
  <1>9. QED
    BY <1>7, <1>8 DEF r, t

\* Joined lines end as the last of them does.
LEMMA JoinEnds ==
  ASSUME NEW C, NL \in C, NEW ls \in LineSeq(C), NEW l \in Line(C), NEW c \in C \ {NL},
         ls[Len(ls)] = Append(l, c)
  PROVE  \E u \in Seq(C) : Join(ls) = Append(u, c)
  <1>1. PICK front \in Seq(Line(C)), m \in Line(C) : ls = Append(front, m)
    BY SequenceEmptyOrAppend DEF LineSeq
  <1>2. m = Append(l, c) /\ l \in Seq(C) /\ m \in Seq(C)
    BY <1>1, AppendProperties, LinesAreTexts
  <1>3. CASE front = <<>>
    <2>1. ls = <<m>>
      BY <1>1, <1>3
    <2>2. QED
      BY <1>2, <2>1, JoinAppend
  <1>4. CASE front # <<>>
    <2>1. front \in Seq(Seq(C)) \ {<<>>} /\ Join(front) \in Seq(C)
      BY <1>4, LinesAreTexts, JoinAppend
    <2> DEFINE r == Join(front) \o <<NL>>
    <2>2. r \in Seq(C)
      BY <2>1, ConcatProperties
    <2>3. Join(ls) = r \o m
      BY <1>1, <1>2, <2>1, JoinAppend
    <2> HIDE DEF r
    <2>4. r \o Append(l, c) = Append(r \o l, c) /\ r \o l \in Seq(C)
      BY <1>2, <2>2, ConcatAppend, ConcatProperties
    <2>5. QED
      BY <1>2, <2>3, <2>4
  <1>5. QED
    BY <1>3, <1>4

\* The last elements of a sequence are a suffix of it.
LEMMA LastAreSuffix ==
  ASSUME NEW C, NEW s \in Seq(C), NEW n \in 0 .. Len(s)
  PROVE  /\ SubSeq(s, Len(s) - n + 1, Len(s)) \in Seq(C)
         /\ Len(SubSeq(s, Len(s) - n + 1, Len(s))) = n
         /\ \A i \in 1 .. n : SubSeq(s, Len(s) - n + 1, Len(s))[i] = s[Len(s) - n + i]
         /\ IsSuffix(SubSeq(s, Len(s) - n + 1, Len(s)), s)
  <1> DEFINE k == Len(s)
             u == SubSeq(s, k - n + 1, k)
  <1>1. k \in Nat /\ \A i \in 1 .. k : s[i] \in C
    BY LenProperties, ElementOfSeq
  <1>2. u \in Seq(C) /\ Len(u) = n /\ \A i \in 1 .. n : u[i] = s[k - n + i]
    BY <1>1, SubSeqProperties
  <1> HIDE DEF u
  <1>3. /\ Reverse(u) \in Seq(C) /\ Len(Reverse(u)) = n
        /\ \A i \in 1 .. n : Reverse(u)[i] = u[n - i + 1]
    <2>1. \A i \in 1 .. n : u[n - i + 1] \in C
      BY <1>2, ElementOfSeq
    <2>2. QED
      BY <1>2, <2>1 DEF Reverse
  <1>4. /\ Reverse(s) \in Seq(C) /\ Len(Reverse(s)) = k
        /\ \A i \in 1 .. k : Reverse(s)[i] = s[k - i + 1]
    BY <1>1 DEF Reverse
  <1>5. /\ SubSeq(Reverse(u), 1, n) \in Seq(C) /\ Len(SubSeq(Reverse(u), 1, n)) = n
        /\ \A i \in 1 .. n : SubSeq(Reverse(u), 1, n)[i] = Reverse(u)[i]
    BY <1>1, <1>3, SubSeqProperties, ElementOfSeq
  <1>6. /\ SubSeq(Reverse(s), 1, n) \in Seq(C) /\ Len(SubSeq(Reverse(s), 1, n)) = n
        /\ \A i \in 1 .. n : SubSeq(Reverse(s), 1, n)[i] = Reverse(s)[i]
    BY <1>1, <1>4, SubSeqProperties, ElementOfSeq
  <1>7. \A i \in 1 .. n : Reverse(u)[i] = Reverse(s)[i]
    <2>1. ASSUME NEW i \in 1 .. n PROVE Reverse(u)[i] = Reverse(s)[i]
      <3>1. n - i + 1 \in 1 .. n /\ i \in 1 .. k /\ (k - n) + (n - i + 1) = k - i + 1
        BY <1>1
      <3>2. u[n - i + 1] = s[k - i + 1]
        BY <1>2, <3>1
      <3>3. QED
        BY <1>3, <1>4, <3>1, <3>2
    <2>2. QED
      BY <2>1
  <1>8. SubSeq(Reverse(u), 1, n) = SubSeq(Reverse(s), 1, n)
    BY <1>5, <1>6, <1>7, SeqEqual
  <1>9. IsSuffix(u, s)
    BY <1>1, <1>3, <1>4, <1>8 DEF IsSuffix, IsPrefix
  <1>10. QED
    BY <1>2, <1>9 DEF u

\* The tail of a task's output, for every output and every number of lines:
\* as many lines as asked for or as there are, and the last ones.
THEOREM TailIsLast ==
  ASSUME NEW C, NL \in C, NEW t \in Seq(C), NEW n \in Nat \ {0},
         NEW all, all = Split(TrimRight(t, NL)),
         NEW lines, lines = Split(TrimRight(TailLines(t, n), NL))
  PROVE  Len(lines) = Min({n, Len(all)}) /\ IsSuffix(lines, all)
  <1> DEFINE r == TrimRight(t, NL)
             k == Len(all)
  <1>1. r \in Seq(C) /\ all \in LineSeq(C)
    BY TrimRightEnds, SplitAppend
  <1>2. all \in Seq(Line(C)) /\ k \in Nat \ {0}
    BY <1>1, LenProperties, EmptySeq DEF LineSeq
  <1>3. CASE t = <<>> \/ k <= n
    <2>1. TailLines(t, n) = t
      BY <1>3 DEF TailLines
    <2>2. lines = all
      BY <2>1
    <2>3. k <= n
      <3>1. SUFFICES ASSUME t = <<>> PROVE k = 1
        BY <1>2, <1>3
      <3>2. r = <<>>
        <4>1. Len(t) = 0 /\ DOMAIN t = {}
          BY <3>1
        <4>2. {0} \cup {i \in DOMAIN t : t[i] # NL} = {0}
          BY <4>1
        <4>3. Max({0}) = 0
          <5>1. {0} \in SUBSET Int /\ 0 \in {0} /\ \A i \in {0} : i <= 0
            OBVIOUS
          <5>2. QED
            BY <5>1, MaxIs
        <4>4. r = SubSeq(t, 1, 0)
          BY <4>2, <4>3 DEF TrimRight
        <4>5. QED
          BY <4>4, SubSeqEmpty
      <3>3. QED
        BY <3>2, SplitAppend
    <2>4. Min({n, k}) = k
      <3>1. {n, k} \in SUBSET Int /\ k \in {n, k} /\ \A i \in {n, k} : k <= i
        BY <1>2, <2>3
      <3>2. QED
        BY <3>1, MinIs
    <2>5. IsSuffix(all, all)
      BY DEF IsSuffix, IsPrefix
    <2>6. QED
      BY <2>2, <2>4, <2>5
  <1>4. CASE t # <<>> /\ k > n
    <2> DEFINE last == SubSeq(all, k - n + 1, k)
    <2>1. TailLines(t, n) = Join(last) \o <<NL>>
      BY <1>2, <1>4 DEF TailLines
    <2>2. /\ last \in Seq(Line(C)) /\ Len(last) = n /\ IsSuffix(last, all)
          /\ last[n] = all[k]
      <3>1. n \in 0 .. Len(all) /\ n \in 1 .. n /\ Len(all) - n + n = Len(all)
        BY <1>2, <1>4
      <3>2. QED
        BY <1>2, <3>1, LastAreSuffix
    <2> HIDE DEF last
    <2>3. last \in LineSeq(C)
      BY <2>2, EmptySeq DEF LineSeq
    <2>4. r # <<>>
      <3>1. k # 1
        <4>1. k \in Nat /\ k > n
          BY <1>2, <1>4
        <4> HIDE DEF k
        <4>2. QED
          BY <4>1
      <3>2. r = <<>> => k = 1
        BY SplitAppend
      <3>3. QED
        BY <3>1, <3>2
    <2>5. PICK u \in Seq(C), e \in C : e # NL /\ r = Append(u, e)
      BY <2>4, TrimRightEnds
    <2>6. \E l \in Line(C) : all[k] = Append(l, e)
      <3>1. all = Extended(Split(u), e) /\ Split(u) \in LineSeq(C)
        BY <2>5, SplitAppend
      <3>2. /\ Len(Extended(Split(u), e)) = Len(Split(u))
            /\ \A i \in 1 .. Len(Split(u)) : Extended(Split(u), e)[i] =
                  IF i = Len(Split(u)) THEN Append(Split(u)[i], e) ELSE Split(u)[i]
        BY <2>5, <3>1, ExtendedType, SMTT(30)
      <3>3. k \in 1 .. k /\ k = Len(Split(u))
        BY <1>2, <3>1, <3>2
      <3>4. all[k] = Append(Split(u)[k], e)
        BY <3>1, <3>2, <3>3
      <3>5. Split(u)[k] \in Line(C)
        <4>1. Split(u) \in Seq(Line(C))
          BY <3>1 DEF LineSeq
        <4>2. QED
          BY <3>3, <4>1, ElementOfSeq
      <3>6. QED
        BY <3>4, <3>5
    <2>7. PICK v \in Seq(C) : Join(last) = Append(v, e)
      <3>1. PICK l \in Line(C) : last[Len(last)] = Append(l, e)
        BY <2>2, <2>6
      <3>2. QED
        BY <2>3, <2>5, <3>1, JoinEnds, SMTT(30)
    <2>8. TrimRight(TailLines(t, n), NL) = Join(last)
      BY <2>1, <2>5, <2>7, TrimRightOf
    <2>9. lines = last
      BY <2>3, <2>8, SplitJoin
    <2>10. Min({n, k}) = n
      <3>1. {n, k} \in SUBSET Int /\ n \in {n, k} /\ \A i \in {n, k} : n <= i
        BY <1>2, <1>4
      <3>2. QED
        BY <3>1, MinIs
    <2>11. QED
      BY <2>2, <2>9, <2>10
  <1>5. QED
    BY <1>2, <1>3, <1>4

-----------------------------------------------------------------------------
(* Places, Replace and ReplaceContent *)

\* old stands in t at i.
StandsAt(t, old, i) == i + Len(old) - 1 <= Len(t) /\ SubSeq(t, i, i + Len(old) - 1) = old

\* The equations of the recursion of Places.
LEMMA PlacesRecursion ==
  ASSUME NEW C, NEW t \in Seq(C), NEW old \in Seq(C)
  PROVE  \E f : /\ Places(t, old) = f[Len(t)]
                /\ f[0] = <<>>
                /\ \A i \in 1 .. Len(t) : f[i] =
                      IF StandsAt(t, old, i) /\ (f[i - 1] = <<>> \/ i >= Last(f[i - 1]) + Len(old))
                      THEN Append(f[i - 1], i) ELSE f[i - 1]
  <1> DEFINE n == Len(t)
             X == Seq(Nat)
             next(at, i) == IF StandsAt(t, old, i) /\ (at = <<>> \/ i >= Last(at) + Len(old))
                            THEN Append(at, i) ELSE at
             step == [p \in X \X Nat |-> next(p[1], p[2])]
  <1>1. n \in Nat
    BY LenProperties
  <1>2. <<>> \in X
    BY EmptySeq
  <1>3. \A y \in X, i \in Nat : step[<<y, i>>] = next(y, i)
    <2> HIDE DEF next, X
    <2> QED
      OBVIOUS
  <1>4. \A y \in X, i \in Nat : step[<<y, i>>] \in X
    <2>1. \A y \in X, i \in Nat : Append(y, i) \in X
      BY AppendProperties
    <2> HIDE DEF X, step
    <2>2. QED
      BY <1>3, <2>1
  <1>5. PICK g \in [0 .. n -> X] : Recursive(g, n, <<>>, step)
    <2> HIDE DEF n, step, X
    <2> QED
      BY <1>1, <1>2, <1>4, Recursion
  <1>6. \A i \in 0 .. n : (IF i = 0 THEN <<>> ELSE step[<<g[i - 1], i>>])
                       = IF i = 0 THEN <<>> ELSE next(g[i - 1], i)
    <2>1. \A i \in 1 .. n : g[i - 1] \in X /\ i \in Nat
      BY <1>1
    <2> HIDE DEF step, X, next
    <2> QED
      BY <1>1, <1>3, <2>1
  <1>7. g = [i \in 0 .. n |-> IF i = 0 THEN <<>> ELSE next(g[i - 1], i)]
    <2> HIDE DEF step, next
    <2> QED
      BY <1>5, <1>6 DEF Recursive
  <1> DEFINE f == CHOOSE h : h = [i \in 0 .. Len(t) |-> IF i = 0 THEN <<>> ELSE next(h[i - 1], i)]
  <1>8. f = [i \in 0 .. Len(t) |-> IF i = 0 THEN <<>> ELSE next(f[i - 1], i)]
    <2> HIDE DEF next
    <2> QED
      BY <1>7, Zenon
  <1>9. Places(t, old) = f[Len(t)]
    BY Zenon DEF Places, StandsAt
  <1> HIDE DEF f
  <1>10. f[0] = <<>> /\ \A i \in 1 .. n : f[i] = next(f[i - 1], i)
    <2> HIDE DEF next
    <2>1. \A i \in 0 .. n : f[i] = IF i = 0 THEN <<>> ELSE next(f[i - 1], i)
      BY <1>8, Zenon
    <2>2. 0 \in 0 .. n /\ \A i \in 1 .. n : i \in 0 .. n /\ i # 0
      BY <1>1
    <2>3. QED
      BY <2>1, <2>2, Zenon
  <1>11. QED
    BY <1>9, <1>10

\* Replace finds places of the text, and one at its beginning at the least if
\* old stands there.
LEMMA PlacesAre ==
  ASSUME NEW C, NEW t \in Seq(C), NEW old \in Seq(C)
  PROVE  /\ Places(t, old) \in Seq(1 .. Len(t))
         /\ t # <<>> /\ StandsAt(t, old, 1) => Places(t, old) # <<>>
  <1>1. PICK f : /\ Places(t, old) = f[Len(t)]
                 /\ f[0] = <<>>
                 /\ \A i \in 1 .. Len(t) : f[i] =
                       IF StandsAt(t, old, i) /\ (f[i - 1] = <<>> \/ i >= Last(f[i - 1]) + Len(old))
                       THEN Append(f[i - 1], i) ELSE f[i - 1]
    BY PlacesRecursion
  <1> DEFINE n == Len(t)
             found == t # <<>> /\ StandsAt(t, old, 1)
             S == {i \in Nat : i \in 0 .. n => /\ f[i] \in Seq(1 .. n)
                                               /\ found /\ i # 0 => f[i] # <<>>}
  <1>2. n \in Nat
    BY LenProperties
  <1>3. 0 \in S
    BY <1>1, EmptySeq
  <1>4. ASSUME NEW i \in Nat, i \in S PROVE i + 1 \in S
    <2>1. SUFFICES ASSUME i + 1 \in 0 .. n
                   PROVE  f[i + 1] \in Seq(1 .. n) /\ (found => f[i + 1] # <<>>)
      OBVIOUS
    <2>2. i + 1 \in 1 .. n /\ i \in 0 .. n /\ (i + 1) - 1 = i
      BY <1>2, <2>1
    <2>3. f[i] \in Seq(1 .. n) /\ (found /\ i # 0 => f[i] # <<>>)
      BY <1>4, <2>2
    <2>4. f[i + 1] =
             IF StandsAt(t, old, i + 1) /\ (f[i] = <<>> \/ i + 1 >= Last(f[i]) + Len(old))
             THEN Append(f[i], i + 1) ELSE f[i]
      BY <1>1, <2>2
    <2>5. Append(f[i], i + 1) \in Seq(1 .. n) /\ Append(f[i], i + 1) # <<>>
      BY <2>2, <2>3, AppendProperties, SMTT(30)
    <2>6. i = 0 /\ found => f[i + 1] = Append(f[i], i + 1)
      BY <1>1, <2>4
    <2>7. QED
      BY <2>3, <2>4, <2>5, <2>6
  <1>5. Nat \subseteq S
    <2> HIDE DEF S
    <2> QED
      BY <1>3, <1>4, Induction, Zenon
  <1>6. n \in 0 .. n /\ (t # <<>> => n # 0)
    BY <1>2, EmptySeq
  <1>7. QED
    BY <1>1, <1>2, <1>5, <1>6

\* Replacing gives a text.
LEMMA ReplaceType ==
  ASSUME NEW C, NEW t \in Seq(C), NEW at \in Seq(1 .. Len(t)),
         NEW old \in Seq(C), NEW new \in Seq(C)
  PROVE  Replace(t, at, old, new) \in Seq(C)
  <1> DEFINE n == Len(at)
             from(j) == IF j = 1 THEN 1 ELSE at[j - 1] + Len(old)
             piece(j) == IF j > n THEN SubSeq(t, from(j), Len(t))
                                  ELSE SubSeq(t, from(j), at[j] - 1) \o new
             pieces == [j \in 1 .. n + 1 |-> piece(j)]
  <1>1. /\ n \in Nat /\ \A j \in 1 .. n : at[j] \in 1 .. Len(t)
        /\ Len(t) \in Nat /\ Len(old) \in Nat /\ \A i \in 1 .. Len(t) : t[i] \in C
    BY LenProperties, ElementOfSeq
  <1>2. ASSUME NEW k \in Nat \ {0}, NEW l \in Int, l <= Len(t) PROVE SubSeq(t, k, l) \in Seq(C)
    <2>1. \A i \in k .. l : t[i] \in C
      BY <1>1, <1>2
    <2>2. QED
      BY <2>1, SubSeqProperties
  <1>3. ASSUME NEW j \in 1 .. n + 1 PROVE piece(j) \in Seq(C)
    <2>1. from(j) \in Nat \ {0}
      <3>1. j # 1 => j - 1 \in 1 .. n
        BY <1>1
      <3>2. QED
        BY <1>1, <3>1
    <2> HIDE DEF from
    <2>2. CASE j > n
      BY <1>1, <1>2, <2>1, <2>2
    <2>3. CASE ~ (j > n)
      <3>1. at[j] - 1 \in Int /\ at[j] - 1 <= Len(t)
        BY <1>1, <2>3
      <3>2. SubSeq(t, from(j), at[j] - 1) \in Seq(C)
        BY <1>2, <2>1, <3>1
      <3>3. QED
        BY <2>3, <3>2, ConcatProperties
    <2>4. QED
      BY <2>2, <2>3
  <1>4. pieces \in Seq(Seq(C))
    <2> HIDE DEF piece
    <2> QED
      BY <1>1, <1>3
  <1>5. FlattenSeq(pieces) \in Seq(C)
    <2> HIDE DEF pieces
    <2> QED
      BY <1>4, FlattenAppend
  <1>6. QED
    BY <1>5, Zenon DEF Replace

\* An edit is refused or gives a text; replacing every occurrence of the whole
\* text is not refused.
LEMMA EditType ==
  ASSUME NEW C, NEW t \in Seq(C), NEW old \in Seq(C), NEW new \in Seq(C), NEW multiple \in BOOLEAN
  PROVE  /\ Edit(t, old, new, multiple) = Refused \/ Edit(t, old, new, multiple) \in Seq(C)
         /\ t # <<>> => Edit(t, t, new, TRUE) \in Seq(C)
  <1>1. Places(t, old) \in Seq(1 .. Len(t)) /\ Places(t, t) \in Seq(1 .. Len(t))
    BY PlacesAre
  <1>2. Replace(t, Places(t, old), old, new) \in Seq(C) /\ Replace(t, Places(t, t), t, new) \in Seq(C)
    BY <1>1, ReplaceType
  <1>3. t # <<>> => Places(t, t) # <<>>
    <2>1. Len(t) \in Nat /\ 1 + Len(t) - 1 = Len(t)
      BY LenProperties
    <2>2. StandsAt(t, t, 1)
      BY <2>1, SubSeqFull DEF StandsAt
    <2>3. QED
      BY <2>2, PlacesAre
  <1>4. QED
    BY <1>2, <1>3 DEF Edit

\* The first and the last part of a text of three.
LEMMA ConcatOfThree ==
  ASSUME NEW C, NEW r \in Seq(C), NEW s \in Seq(C), NEW t \in Seq(C),
         NEW w, w = (r \o s) \o t
  PROVE  /\ Len(w) = Len(r) + Len(s) + Len(t)
         /\ SubSeq(w, 1, Len(r)) = r
         /\ SubSeq(w, Len(w) - Len(t) + 1, Len(w)) = t
  <1> DEFINE a == Len(r)
             b == Len(s)
             c == Len(t)
             u == r \o s
  <1>1. /\ u \in Seq(C) /\ a \in Nat /\ b \in Nat /\ c \in Nat /\ Len(u) = a + b
        /\ \A i \in 1 .. a : u[i] = r[i]
    BY Concat
  <1> HIDE DEF u
  <1>2. /\ w \in Seq(C) /\ Len(w) = (a + b) + c
        /\ \A i \in 1 .. a + b : w[i] = u[i]
        /\ \A i \in 1 .. c : w[(a + b) + i] = t[i]
    <2>1. w = u \o t
      BY DEF u
    <2>2. /\ u \o t \in Seq(C) /\ Len(u \o t) = Len(u) + Len(t)
          /\ \A i \in 1 .. Len(u) : (u \o t)[i] = u[i]
          /\ \A i \in 1 .. Len(t) : (u \o t)[Len(u) + i] = t[i]
      <3>1. u \in Seq(C)
        BY <1>1
      <3>2. QED
        BY <3>1, Concat
    <2>3. QED
      BY <1>1, <2>1, <2>2
  <1>3. \A i \in 1 .. Len(w) : w[i] \in C
    BY <1>2, ElementOfSeq
  <1> HIDE DEF a, b, c
  <1>4. SubSeq(w, 1, a) = r
    <2>1. /\ SubSeq(w, 1, a) \in Seq(C) /\ Len(SubSeq(w, 1, a)) = a
          /\ \A i \in 1 .. a : SubSeq(w, 1, a)[i] = w[i]
      BY <1>1, <1>2, <1>3, SubSeqProperties
    <2>2. \A i \in 1 .. a : SubSeq(w, 1, a)[i] = r[i]
      BY <1>1, <1>2, <2>1
    <2>3. QED
      BY <2>1, <2>2, SeqEqual DEF a
  <1>5. SubSeq(w, Len(w) - c + 1, Len(w)) = t
    <2> DEFINE v == SubSeq(w, (a + b) + 1, (a + b) + c)
    <2>1. /\ v \in Seq(C) /\ Len(v) = c
          /\ \A i \in 1 .. c : v[i] = w[(a + b) + i]
      BY <1>1, <1>2, <1>3, SubSeqProperties, SMTT(30)
    <2> HIDE DEF v
    <2>2. v = t
      BY <1>2, <2>1, SeqEqual DEF c
    <2>3. Len(w) - c + 1 = (a + b) + 1 /\ Len(w) = (a + b) + c
      BY <1>1, <1>2
    <2>4. QED
      BY <2>2, <2>3 DEF v
  <1>6. QED
    BY <1>1, <1>2, <1>4, <1>5 DEF a, b, c

\* The text that the lines before a chunk, and those after it, contribute.
Lead(pre)   == IF Join(pre) = <<>> THEN <<>> ELSE Join(pre) \o <<NL>>
Trail(post) == IF post # <<>> THEN <<NL>> \o Join(post) ELSE <<>>

\* The whole is a text, and its lines are those before the chunk, those of the
\* chunk, and those after.
LEMMA AroundChunk ==
  ASSUME NEW C, NL \in C, NEW pre \in Seq(Line(C)), NEW post \in Seq(Line(C)), NEW chunk \in Seq(C)
  PROVE  /\ (Lead(pre) \o chunk) \o Trail(post) \in Seq(C)
         /\ pre # << <<>> >> =>
               Split((Lead(pre) \o chunk) \o Trail(post)) = (pre \o Split(chunk)) \o post
  <1> DEFINE b == Lead(pre)
             a == Trail(post)
  <1>1. Join(pre) \in Seq(C) /\ Join(post) \in Seq(C) /\ <<NL>> \in Seq(C) /\ <<>> \in Seq(C)
    BY LinesAreTexts, JoinAppend, EmptySeq
  <1>2. b \in Seq(C) /\ a \in Seq(C)
    <2>1. Join(pre) \o <<NL>> \in Seq(C) /\ <<NL>> \o Join(post) \in Seq(C)
      BY <1>1, ConcatProperties
    <2>2. QED
      BY <1>1, <2>1 DEF Lead, Trail
  <1> HIDE DEF b, a
  <1> DEFINE x == b \o chunk
  <1>3. x \in Seq(C) /\ x \o a \in Seq(C)
    <2>1. x \in Seq(C)
      BY <1>2, ConcatProperties
    <2> HIDE DEF x
    <2>2. QED
      BY <1>2, <2>1, ConcatProperties
  <1>4. Split(chunk) \in Seq(Line(C)) /\ Split(x) \in Seq(Line(C))
    BY <1>3, SplitAppend DEF LineSeq
  <1>5. ASSUME pre # << <<>> >> PROVE Split(x) = pre \o Split(chunk)
    <2>1. CASE pre = <<>>
      <3>1. b = <<>>
        BY <2>1, JoinAppend DEF b, Lead
      <3>2. x = chunk
        BY <3>1, ConcatEmptySeq
      <3>3. pre \o Split(chunk) = Split(chunk)
        BY <1>4, <2>1, ConcatEmptySeq
      <3>4. QED
        BY <3>2, <3>3
    <2>2. CASE pre # <<>>
      <3>1. Split(Join(pre)) = pre
        BY <2>2, SplitJoin DEF LineSeq
      <3>2. Join(pre) # <<>>
        BY <1>5, <3>1, SplitAppend
      <3>3. x = (Join(pre) \o <<NL>>) \o chunk
        BY <3>2 DEF b, Lead
      <3>4. Split((Join(pre) \o <<NL>>) \o chunk) = Split(Join(pre)) \o Split(chunk)
        BY <1>1, SplitConcat
      <3>5. QED
        BY <3>1, <3>3, <3>4
    <2>3. QED
      BY <2>1, <2>2
  <1>6. ASSUME pre # << <<>> >> PROVE Split(x \o a) = (pre \o Split(chunk)) \o post
    <2> HIDE DEF x
    <2>1. CASE post = <<>>
      <3>1. x \o a = x
        BY <1>3, <2>1, ConcatEmptySeq DEF a, Trail
      <3>2. Split(x) \o <<>> = Split(x)
        BY <1>4, ConcatEmptySeq
      <3>3. QED
        BY <1>5, <1>6, <2>1, <3>1, <3>2
    <2>2. CASE post # <<>>
      <3>1. Split(Join(post)) = post
        BY <2>2, SplitJoin DEF LineSeq
      <3>2. x \o a = x \o (<<NL>> \o Join(post))
        BY <2>2 DEF a, Trail
      <3>3. x \o (<<NL>> \o Join(post)) = (x \o <<NL>>) \o Join(post)
        <4>1. x \in Seq(C) /\ Join(post) \in Seq(C) /\ <<NL>> \in Seq(C)
          BY <1>1, <1>3
        <4>2. QED
          BY <4>1, ConcatAssociative, SMTT(30)
      <3>4. Split((x \o <<NL>>) \o Join(post)) = Split(x) \o Split(Join(post))
        BY <1>1, <1>3, SplitConcat
      <3>5. QED
        BY <1>5, <1>6, <3>1, <3>2, <3>3, <3>4
    <2>3. QED
      BY <2>1, <2>2
  <1>7. QED
    BY <1>3, <1>6 DEF x, a, b

\* Part of a list of lines.
LEMMA SubLines ==
  ASSUME NEW C, NEW ls \in Seq(Line(C)), NEW i \in Nat \ {0}, NEW j \in 0 .. Len(ls)
  PROVE  /\ SubSeq(ls, i, j) \in Seq(Line(C))
         /\ Len(SubSeq(ls, i, j)) = IF i <= j THEN j - i + 1 ELSE 0
         /\ \A k \in 1 .. j - i + 1 : SubSeq(ls, i, j)[k] = ls[i + k - 1]
  <1>1. Len(ls) \in Nat /\ \A k \in 1 .. Len(ls) : ls[k] \in Line(C)
    BY LenProperties, ElementOfSeq
  <1>2. \A k \in i .. j : ls[k] \in Line(C)
    BY <1>1
  <1>3. QED
    BY <1>1, <1>2, SubSeqProperties

\* The range of lines that is edited.
LEMMA RangeOfLines ==
  ASSUME NEW all \in Nat \ {0}, NEW first \in Nat, NEW last \in Nat
  PROVE  /\ StartOf(first) \in Nat \ {0} /\ EndOf(last, all) \in 1 .. all
         /\ first \in 1 .. all => StartOf(first) = first
         /\ last \in 1 .. all => EndOf(last, all) = last
  BY DEF StartOf, EndOf

\* A chunk between the lines before s and the lines after e: the whole is a
\* text, and these are its lines.
ContentIs(C, lines, s, e, chunk) ==
  LET pre  == SubSeq(lines, 1, s - 1)
      post == SubSeq(lines, e + 1, Len(lines))
      w    == (Before(lines, s) \o chunk) \o After(lines, e)
  IN  /\ w \in Seq(C)
      /\ pre \in Seq(Line(C)) /\ Len(pre) = s - 1
      /\ post \in Seq(Line(C)) /\ Len(post) = Len(lines) - e
      /\ pre # << <<>> >> => Split(w) = (pre \o Split(chunk)) \o post

\* It is, for every chunk and every range of lines.
LEMMA ContentParts ==
  ASSUME NEW C, NL \in C, NEW lines \in LineSeq(C),
         NEW s \in 1 .. Len(lines), NEW e \in 1 .. Len(lines), NEW chunk \in Seq(C)
  PROVE  ContentIs(C, lines, s, e, chunk)
  <1> DEFINE pre == SubSeq(lines, 1, s - 1)
             post == SubSeq(lines, e + 1, Len(lines))
  <1>1. lines \in Seq(Line(C)) /\ Len(lines) \in Nat \ {0}
    BY LenProperties, EmptySeq DEF LineSeq
  <1>2. pre \in Seq(Line(C)) /\ Len(pre) = s - 1
    <2>1. s - 1 \in 0 .. Len(lines) /\ 1 \in Nat \ {0}
      BY <1>1
    <2>2. QED
      BY <1>1, <2>1, SubLines
  <1>3. post \in Seq(Line(C)) /\ Len(post) = Len(lines) - e
    <2>1. e + 1 \in Nat \ {0} /\ Len(lines) \in 0 .. Len(lines)
      BY <1>1
    <2>2. QED
      BY <1>1, <2>1, SubLines
  <1>4. Before(lines, s) = Lead(pre)
    BY DEF Before, Lead
  <1>5. After(lines, e) = Trail(post)
    <2>1. post # <<>> <=> e < Len(lines)
      <3>1. post = <<>> <=> Len(post) = 0
        <4>1. post \in Seq(Line(C))
          BY <1>3
        <4> HIDE DEF post
        <4>2. QED
          BY <4>1, EmptySeq
      <3>2. QED
        BY <1>1, <1>3, <3>1
    <2>2. QED
      BY <2>1 DEF After, Trail
  <1> HIDE DEF pre, post
  <1>6. /\ (Before(lines, s) \o chunk) \o After(lines, e) \in Seq(C)
        /\ pre # << <<>> >> => Split((Before(lines, s) \o chunk) \o After(lines, e))
                                 = (pre \o Split(chunk)) \o post
    <2>1. pre \in Seq(Line(C)) /\ post \in Seq(Line(C))
      BY <1>2, <1>3
    <2>2. (Lead(pre) \o chunk) \o Trail(post) \in Seq(C)
      BY <2>1, AroundChunk
    <2>3. pre # << <<>> >> =>
             Split((Lead(pre) \o chunk) \o Trail(post)) = (pre \o Split(chunk)) \o post
      BY <2>1, AroundChunk, Zenon
    <2>4. QED
      BY <1>4, <1>5, <2>2, <2>3
  <1>7. QED
    BY <1>2, <1>3, <1>6 DEF pre, post, ContentIs

\* The edited lines begin and end with the first and the last of the lines,
\* and these do not overlap.
Frame(lines, edited, before, after) ==
  /\ Len(edited) >= before + after
  /\ SubSeq(edited, 1, before) = SubSeq(lines, 1, before)
  /\ SubSeq(edited, Len(edited) - after + 1, Len(edited))
       = SubSeq(lines, Len(lines) - after + 1, Len(lines))

\* A replacement in a range of lines, in every text and whatever it replaces,
\* leaves the lines before and after the range as they are, unless the only
\* line before it is empty.
THEOREM OutsideStays ==
  ASSUME NEW C, NL \in C, NEW t \in Seq(C), NEW old \in Seq(C), NEW new \in Seq(C),
         NEW multiple \in BOOLEAN, NEW first \in Nat, NEW last \in Nat, first + last > 0,
         NEW result, result = ReplaceContent(t, old, new, first, last, multiple),
         result \notin {Refused, Panic},
         NEW lines, lines = Split(t),
         SubSeq(lines, 1, StartOf(first) - 1) # << <<>> >>
  PROVE  Frame(lines, Split(result), StartOf(first) - 1, Len(lines) - EndOf(last, Len(lines)))
  <1> DEFINE edited == Split(result)
             before == StartOf(first) - 1
             after == Len(lines) - EndOf(last, Len(lines))
             s == StartOf(first)
             e == EndOf(last, Len(lines))
             chunk == Edit(Chunk(lines, s, e), old, new, multiple)
             pre == SubSeq(lines, 1, s - 1)
             post == SubSeq(lines, e + 1, Len(lines))
  <1>1. lines \in Seq(Line(C)) /\ Len(lines) \in Nat \ {0}
    <2>1. lines \in LineSeq(C)
      BY SplitAppend
    <2>2. QED
      BY <2>1, LenProperties, EmptySeq DEF LineSeq
  <1>2. s \in Nat \ {0} /\ e \in 1 .. Len(lines)
    BY <1>1, RangeOfLines
  <1>3. s <= Len(lines) /\ s <= e + 1 /\ chunk # Refused
    <2>1. ~ (first <= 0 /\ last <= 0)
      OBVIOUS
    <2>2. ~ (s > Len(lines)) /\ ~ (s > e + 1) /\ chunk # Refused
      BY <2>1, Zenon DEF ReplaceContent
    <2>3. QED
      BY <1>1, <1>2, <2>2
  <1>4. chunk \in Seq(C)
    <2>1. SubSeq(lines, s, e) \in Seq(Line(C))
      BY <1>1, <1>2, SubLines
    <2>2. Chunk(lines, s, e) \in Seq(C)
      <3> HIDE DEF s, e
      <3>1. SubSeq(lines, s, e) \in Seq(Seq(C))
        BY <2>1, LinesAreTexts
      <3>2. QED
        BY <3>1, JoinAppend DEF Chunk
    <2>3. QED
      BY <1>3, <2>2, EditType
  <1>5. result = (Before(lines, s) \o chunk) \o After(lines, e)
    <2>1. ~ (first <= 0 /\ last <= 0) /\ ~ (s > Len(lines)) /\ ~ (s > e + 1)
      BY <1>1, <1>2, <1>3
    <2>2. QED
      BY <1>3, <2>1, Zenon DEF ReplaceContent
  <1>6. /\ pre \in Seq(Line(C)) /\ Len(pre) = s - 1
        /\ post \in Seq(Line(C)) /\ Len(post) = Len(lines) - e
        /\ pre # << <<>> >> => edited = (pre \o Split(chunk)) \o post
    <2>1. lines \in LineSeq(C)
      BY SplitAppend
    <2>2. s \in 1 .. Len(lines) /\ e \in 1 .. Len(lines)
      BY <1>1, <1>2, <1>3
    <2> HIDE DEF chunk, s, e
    <2>3. QED
      <3> DEFINE w == (Before(lines, s) \o chunk) \o After(lines, e)
      <3>1. /\ w \in Seq(C)
            /\ SubSeq(lines, 1, s - 1) \in Seq(Line(C))
            /\ Len(SubSeq(lines, 1, s - 1)) = s - 1
            /\ SubSeq(lines, e + 1, Len(lines)) \in Seq(Line(C))
            /\ Len(SubSeq(lines, e + 1, Len(lines))) = Len(lines) - e
            /\ SubSeq(lines, 1, s - 1) # << <<>> >> =>
                  Split(w) = (SubSeq(lines, 1, s - 1) \o Split(chunk))
                                \o SubSeq(lines, e + 1, Len(lines))
        <4> HIDE DEF w
        <4>1. lines \in LineSeq(C) => ContentIs(C, lines, s, e, chunk)
          BY <1>4, <2>2, ContentParts
        <4>2. QED
          BY <2>1, <4>1 DEF ContentIs, w
      <3>2. edited = Split(w)
        BY <1>5
      <3> HIDE DEF w
      <3>3. QED
        BY <3>1, <3>2
  <1>7. Split(chunk) \in Seq(Line(C)) /\ Len(Split(chunk)) \in Nat
    BY <1>4, SplitAppend, LenProperties DEF LineSeq
  <1>8. /\ Len(edited) = Len(pre) + Len(Split(chunk)) + Len(post)
        /\ SubSeq(edited, 1, Len(pre)) = pre
        /\ SubSeq(edited, Len(edited) - Len(post) + 1, Len(edited)) = post
    <2>1. edited = (pre \o Split(chunk)) \o post
      BY <1>6
    <2>2. pre \in Seq(Line(C)) /\ post \in Seq(Line(C)) /\ Split(chunk) \in Seq(Line(C))
      BY <1>6, <1>7
    <2> HIDE DEF pre, post, chunk, s, e, edited
    <2>3. QED
      BY <2>1, <2>2, ConcatOfThree, SMTT(30)
  <1> HIDE DEF pre, post, chunk, s, e, edited, before, after
  <1>9. before = Len(pre) /\ after = Len(post)
    BY <1>6 DEF s, e, before, after
  <1>10. pre = SubSeq(lines, 1, before) /\ post = SubSeq(lines, Len(lines) - after + 1, Len(lines))
    <2>1. Len(lines) - after + 1 = e + 1
      BY <1>1, <1>2 DEF e, after
    <2>2. QED
      BY <2>1 DEF pre, post, s, before
  <1>11. Len(edited) >= before + after
    <2>1. Len(pre) \in Nat /\ Len(post) \in Nat
      BY <1>6, LenProperties
    <2>2. QED
      BY <1>7, <1>8, <1>9, <2>1
  <1>12. QED
    BY <1>8, <1>9, <1>10, <1>11 DEF Frame, edited, before, after

-----------------------------------------------------------------------------
(* ScanLines and ViewFile *)

\* ScanLines gives texts, no more than Split gives lines, and the same ones if
\* the text has no carriage return.
LEMMA ScanLinesAre ==
  ASSUME NEW C, NEW t \in Seq(C), NEW lines, lines = ScanLines(t)
  PROVE  /\ lines \in Seq(Seq(C)) /\ Len(lines) <= Len(Split(t))
         /\ CR \notin C => \A i \in 1 .. Len(lines) : lines[i] = Split(t)[i]
  <1> DEFINE all == Split(t)
             n == Len(all)
             kept == IF Last(all) = <<>> THEN Front(all) ELSE all
             k == Len(kept)
             dropCR(l) == IF l # <<>> /\ Last(l) = CR THEN Front(l) ELSE l
  <1>1. all \in Seq(Line(C)) /\ n \in Nat \ {0}
    <2>1. all \in LineSeq(C)
      BY SplitAppend
    <2> HIDE DEF all
    <2>2. QED
      BY <2>1, LenProperties, EmptySeq DEF LineSeq
  <1> HIDE DEF all
  <1>2. /\ kept \in Seq(Line(C)) /\ k \in Nat /\ k <= n
        /\ \A i \in 1 .. k : kept[i] = all[i]
    <2>1. n - 1 \in 0 .. Len(all) /\ 1 \in Nat \ {0} /\ (n - 1) - 1 + 1 = n - 1
      BY <1>1
    <2>2. /\ Front(all) \in Seq(Line(C)) /\ Len(Front(all)) = n - 1
          /\ \A i \in 1 .. n - 1 : Front(all)[i] = all[i]
      BY <1>1, <2>1, SubLines DEF Front
    <2>3. QED
      BY <1>1, <2>1, <2>2
  <1> HIDE DEF kept
  <1>3. DOMAIN kept = 1 .. k /\ \A i \in 1 .. k : kept[i] \in Line(C)
    BY <1>2, LenProperties, ElementOfSeq
  <1>4. ASSUME NEW l \in Line(C) PROVE dropCR(l) \in Seq(C) /\ (CR \notin C => dropCR(l) = l)
    <2>1. l \in Seq(C) /\ (l # <<>> => Len(l) \in 1 .. Len(l))
      BY LinesAreTexts, EmptySeq
    <2>2. Front(l) \in Seq(C)
      BY <2>1, LenProperties, ElementOfSeq, SubSeqProperties DEF Front
    <2>3. l # <<>> => Last(l) \in C
      BY <2>1, ElementOfSeq DEF Last
    <2>4. QED
      BY <2>1, <2>2, <2>3
  <1>5. ScanLines(t) = [i \in DOMAIN kept |-> dropCR(kept[i])]
    BY Zenon DEF ScanLines, kept, all
  <1> HIDE DEF dropCR, k
  <1>6. lines \in Seq(Seq(C)) /\ Len(lines) = k /\ \A i \in 1 .. k : lines[i] = dropCR(kept[i])
    <2>1. \A i \in 1 .. k : dropCR(kept[i]) \in Seq(C)
      BY <1>3, <1>4
    <2>2. lines = [i \in 1 .. k |-> dropCR(kept[i])]
      BY <1>3, <1>5
    <2>3. QED
      BY <1>2, <2>1, <2>2
  <1>7. QED
    BY <1>2, <1>3, <1>4, <1>6 DEF all

\* A part of one element.
LEMMA OneElement ==
  ASSUME NEW C, NEW s \in Seq(C), NEW i \in 1 .. Len(s)
  PROVE  SubSeq(s, i, i) = <<s[i]>>
  <1>1. SubSeq(s, i, i) = <<s[i]>> \o SubSeq(s, i + 1, i)
    <2>1. i \in i .. Len(s)
      BY LenProperties
    <2>2. QED
      BY <2>1, SubSeqRecursiveFirst
  <1>2. SubSeq(s, i + 1, i) = <<>>
    BY SubSeqEmpty
  <1>3. <<s[i]>> \in Seq(C)
    BY ElementOfSeq
  <1>4. QED
    BY <1>1, <1>2, <1>3, ConcatEmptySeq

\* One line takes LineSize characters of a page.
LEMMA SizeOfOne ==
  ASSUME NEW C, NEW l \in Seq(C)
  PROVE  PageSize(<<l>>) = LineSize(l)
  <1> DEFINE f == CHOOSE h : h = [n \in 0 .. Len(<<l>>) |->
                                IF n = 0 THEN 0 ELSE h[n - 1] + LineSize(<<l>>[n])]
             g == [n \in 0 .. 1 |-> IF n = 0 THEN 0 ELSE 0 + LineSize(<<l>>[n])]
  <1>1. Len(<<l>>) = 1 /\ <<l>>[1] = l /\ LineSize(l) \in Nat
    BY LenProperties DEF LineSize
  <1>2. g = [n \in 0 .. Len(<<l>>) |-> IF n = 0 THEN 0 ELSE g[n - 1] + LineSize(<<l>>[n])]
    <2>1. \A n \in 0 .. 1 : g[n] = IF n = 0 THEN 0 ELSE g[n - 1] + LineSize(<<l>>[n])
      <3>1. \A n \in 0 .. 1 : n = 0 \/ n = 1
        OBVIOUS
      <3>2. g[0] = 0 /\ g[1] = 0 + LineSize(<<l>>[1])
        OBVIOUS
      <3> HIDE DEF g
      <3>3. QED
        BY <3>1, <3>2
    <2>2. g = [n \in 0 .. 1 |-> g[n]]
      OBVIOUS
    <2> HIDE DEF g
    <2>3. QED
      BY <1>1, <2>1, <2>2
  <1> HIDE DEF g
  <1>3. f = [n \in 0 .. Len(<<l>>) |-> IF n = 0 THEN 0 ELSE f[n - 1] + LineSize(<<l>>[n])]
    BY <1>2, Zenon
  <1>4. PageSize(<<l>>) = f[Len(<<l>>)]
    BY Zenon DEF PageSize
  <1> HIDE DEF f
  <1>5. \A n \in 0 .. 1 : f[n] = IF n = 0 THEN 0 ELSE f[n - 1] + LineSize(<<l>>[n])
    BY <1>1, <1>3
  <1>6. f[0] = 0 /\ f[1] = f[0] + LineSize(<<l>>[1])
    BY <1>5
  <1>7. QED
    BY <1>1, <1>4, <1>6

\* What a page holds.
LEMMA PageFields ==
  ASSUME NEW page, NEW all, NEW s, NEW e, NEW shown, NEW truncated,
         page = Page(all, s, e, shown, truncated)
  PROVE  page.start = s /\ page.end = e /\ page.lines = shown /\ page.truncated = truncated
  BY DEF Page

\* The page that begins at line s of the lines up to e and shows those up to
\* end: it ends within the range unless it shows none, and shows one at least
\* if the first one fits.
PageIs(page, lines, s, e, max, end) ==
  /\ end \in s - 1 .. Len(lines)
  /\ page = Page(Len(lines), s, IF end <= e THEN end ELSE e, SubSeq(lines, s, end), end < e)
  /\ end >= s => end <= e
  /\ s <= e /\ LineSize(lines[s]) <= max => end >= s

\* Every page is one of these, the page of an empty file, or refused.
ViewIs(page, lines, first, last, max) ==
  /\ Len(lines) = 0 => page = Page(0, 1, 0, <<>>, FALSE)
  /\ Len(lines) # 0 /\ StartOf(first) > Len(lines) => page = Refused
  /\ Len(lines) # 0 /\ StartOf(first) <= Len(lines) =>
        \E end : PageIs(page, lines, StartOf(first), EndOf(last, Len(lines)), max, end)

\* ViewFile's result is.
LEMMA ViewFileIs ==
  ASSUME NEW C, NEW t \in Seq(C), NEW first \in Nat, NEW last \in Nat, NEW max
  PROVE  ViewIs(ViewFile(t, first, last, max), ScanLines(t), first, last, max)
  <1> DEFINE lines == ScanLines(t)
             page == ViewFile(t, first, last, max)
             all == Len(lines)
             s == StartOf(first)
             e == EndOf(last, all)
             fits == {n \in s .. e : PageSize(SubSeq(lines, s, n)) <= max}
             S == {s - 1} \cup fits
             end == Max(S)
  <1>1. lines \in Seq(Seq(C)) /\ all \in Nat /\ \A i \in 1 .. all : lines[i] \in Seq(C)
    <2>1. lines \in Seq(Seq(C))
      BY ScanLinesAre
    <2> HIDE DEF all, lines
    <2>2. QED
      BY <2>1, LenProperties, ElementOfSeq DEF all
  <1>2. page = IF all = 0 THEN Page(0, 1, 0, <<>>, FALSE)
               ELSE IF s > all THEN Refused
               ELSE Page(all, s, Min({end, e}), SubSeq(lines, s, end), end < e)
    BY Zenon DEF ViewFile
  <1> HIDE DEF lines, page
  <1>3. ASSUME all # 0, s <= all PROVE PageIs(page, lines, s, e, max, end)
    <2>1. s \in 1 .. all /\ e \in 1 .. all
      <3>1. all \in Nat \ {0}
        BY <1>1, <1>3
      <3> HIDE DEF all
      <3>2. s \in Nat \ {0} /\ e \in 1 .. all
        BY <3>1, RangeOfLines
      <3> HIDE DEF s
      <3>3. QED
        BY <1>3, <3>1, <3>2
    <2> HIDE DEF s, e, all
    <2>2. end \in S /\ \A n \in S : n <= end
      <3>1. S \in SUBSET (s - 1 .. all) /\ S # {} /\ s - 1 \in Int /\ all \in Int
        BY <1>1, <2>1
      <3> HIDE DEF S
      <3>2. QED
        BY <3>1, MaxOfRange
    <2> HIDE DEF end
    <2>3. end \in s - 1 .. all /\ (end >= s => end <= e) /\ end \in Int
      BY <1>1, <2>1, <2>2
    <2>4. Min({end, e}) = IF end <= e THEN end ELSE e
      <3> DEFINE m == IF end <= e THEN end ELSE e
      <3>1. {end, e} \in SUBSET Int /\ m \in {end, e} /\ \A i \in {end, e} : m <= i
        BY <2>1, <2>3
      <3> HIDE DEF m
      <3>2. Min({end, e}) = m
        BY <3>1, MinIs
      <3>3. QED
        BY <3>2 DEF m
    <2>5. page = Page(all, s, IF end <= e THEN end ELSE e, SubSeq(lines, s, end), end < e)
      <3>1. ~ (all = 0) /\ ~ (s > all)
        BY <1>1, <1>3, <2>1
      <3>2. QED
        BY <1>2, <2>4, <3>1, Zenon
    <2>6. ASSUME s <= e, LineSize(lines[s]) <= max PROVE end >= s
      <3>1. SubSeq(lines, s, s) = <<lines[s]>>
        <4>1. lines \in Seq(Seq(C)) /\ s \in 1 .. Len(lines)
          BY <1>1, <2>1 DEF all
        <4>2. QED
          BY <4>1, OneElement
      <3>2. PageSize(SubSeq(lines, s, s)) <= max
        <4>1. lines[s] \in Seq(C)
          BY <1>1, <2>1
        <4>2. QED
          BY <2>6, <3>1, <4>1, SizeOfOne
      <3>3. s \in S
        BY <2>1, <2>6, <3>2
      <3>4. QED
        BY <2>2, <3>3
    <2>7. QED
      BY <2>3, <2>5, <2>6 DEF PageIs, all
  <1>4. ViewIs(page, lines, first, last, max)
    <2>1. all # 0 /\ s > all => ~ (all = 0)
      OBVIOUS
    <2>2. QED
      BY <1>2, <1>3 DEF ViewIs
  <1>5. QED
    BY <1>4 DEF page, lines

\* What remote_view_file shows of a file without carriage returns is what
\* remote_replace_file_content looks for it in: giving back the lines and the
\* range of a page is never refused.
THEOREM ViewedIsAccepted ==
  ASSUME NEW C, NL \in C, CR \notin C, NEW t \in Seq(C), NEW new \in Seq(C),
         NEW first \in Nat, NEW last \in Nat, NEW max,
         NEW page, page = ViewFile(t, first, last, max), page # Refused,
         NEW shown, shown = Join(page.lines), shown # <<>>
  PROVE  ReplaceContent(t, shown, new, page.start, page.end, TRUE) \in Seq(C)
  <1> DEFINE lines == ScanLines(t)
             all == Len(lines)
             s == StartOf(first)
             e == EndOf(last, all)
             parts == Split(t)
  <1>1. /\ lines \in Seq(Seq(C)) /\ all \in Nat /\ all <= Len(parts)
        /\ \A i \in 1 .. all : lines[i] = parts[i]
    <2>1. /\ lines \in Seq(Seq(C)) /\ Len(lines) <= Len(Split(t))
          /\ \A i \in 1 .. Len(lines) : lines[i] = Split(t)[i]
      BY ScanLinesAre
    <2> HIDE DEF lines
    <2>2. QED
      BY <2>1, LenProperties
  <1>2. parts \in LineSeq(C) /\ parts \in Seq(Line(C)) /\ Len(parts) \in Nat
    <2>1. parts \in LineSeq(C)
      BY SplitAppend
    <2> HIDE DEF parts
    <2>2. QED
      BY <2>1, LenProperties DEF LineSeq
  <1>3. /\ all = 0 => page = Page(0, 1, 0, <<>>, FALSE)
        /\ all # 0 /\ s > all => page = Refused
        /\ all # 0 /\ s <= all => \E end : PageIs(page, lines, s, e, max, end)
    <2>1. ViewIs(ViewFile(t, first, last, max), ScanLines(t), first, last, max)
      BY ViewFileIs
    <2>2. ViewIs(page, lines, first, last, max)
      BY <2>1
    <2> HIDE DEF lines
    <2>3. QED
      BY <2>2 DEF ViewIs
  <1> HIDE DEF lines, parts
  <1>4. all # 0
    <2>1. page = Page(0, 1, 0, <<>>, FALSE) => page.lines = <<>>
      BY DEF Page
    <2>2. Join(<<>>) = <<>>
      BY JoinAppend
    <2>3. QED
      BY <1>3, <2>1, <2>2
  <1>5. s \in 1 .. all /\ e \in 1 .. all
    <2>1. all \in Nat \ {0}
      BY <1>1, <1>4
    <2> HIDE DEF all
    <2>2. s \in Nat \ {0} /\ e \in 1 .. all
      BY <2>1, RangeOfLines
    <2>3. ~ (s > all)
      BY <1>3, <1>4
    <2> HIDE DEF s
    <2>4. QED
      BY <2>1, <2>2, <2>3
  <1> HIDE DEF s, e
  <1>6. PICK end : PageIs(page, lines, s, e, max, end)
    BY <1>1, <1>3, <1>4, <1>5
  <1>7. /\ end \in s - 1 .. all
        /\ page.start = s /\ page.end = (IF end <= e THEN end ELSE e)
        /\ page.lines = SubSeq(lines, s, end)
        /\ end >= s => end <= e
    <2>1. /\ end \in s - 1 .. all /\ (end >= s => end <= e)
          /\ page = Page(all, s, IF end <= e THEN end ELSE e, SubSeq(lines, s, end), end < e)
      BY <1>6 DEF PageIs
    <2> HIDE DEF all
    <2> DEFINE until == IF end <= e THEN end ELSE e
               piece == SubSeq(lines, s, end)
    <2>2. page = Page(all, s, until, piece, end < e)
      BY <2>1
    <2> HIDE DEF until, piece
    <2>3. page.start = s /\ page.end = until /\ page.lines = piece
      BY <2>2, PageFields
    <2> USE DEF until, piece
    <2>4. QED
      BY <2>1, <2>3
  <1>8. end >= s
    <2>1. SUFFICES ASSUME end < s PROVE FALSE
      BY <1>1, <1>5, <1>7
    <2>2. SubSeq(lines, s, end) = <<>>
      BY <1>1, <1>5, <1>7, <2>1, SubSeqEmpty
    <2>3. QED
      BY <1>7, <2>2, JoinAppend
  <1>9. end \in 1 .. all /\ end \in s .. all /\ page.end = end
    BY <1>1, <1>5, <1>7, <1>8
  <1>10. SubSeq(lines, s, end) = SubSeq(parts, s, end)
    <2>1. \A i \in s .. end : lines[i] \in Seq(C) /\ parts[i] \in Seq(C) /\ lines[i] = parts[i]
      <3>1. \A i \in 1 .. all : lines[i] \in Seq(C)
        BY <1>1, ElementOfSeq
      <3>2. QED
        BY <1>1, <1>5, <1>9, <3>1, SMTT(30)
    <2>2. s \in Int /\ end \in Int
      BY <1>1, <1>5, <1>9
    <2>3. /\ SubSeq(lines, s, end) \in Seq(Seq(C)) /\ Len(SubSeq(lines, s, end)) = end - s + 1
          /\ \A i \in 1 .. end - s + 1 : SubSeq(lines, s, end)[i] = lines[s + i - 1]
      BY <1>8, <2>1, <2>2, SubSeqProperties
    <2>4. /\ SubSeq(parts, s, end) \in Seq(Seq(C)) /\ Len(SubSeq(parts, s, end)) = end - s + 1
          /\ \A i \in 1 .. end - s + 1 : SubSeq(parts, s, end)[i] = parts[s + i - 1]
      BY <1>8, <2>1, <2>2, SubSeqProperties
    <2>5. \A i \in 1 .. end - s + 1 : s + i - 1 \in s .. end
      BY <2>2
    <2>6. \A i \in 1 .. end - s + 1 : SubSeq(lines, s, end)[i] = SubSeq(parts, s, end)[i]
      BY <2>1, <2>3, <2>4, <2>5
    <2>7. QED
      BY <2>3, <2>4, <2>6, SeqEqual
  <1>11. Chunk(parts, s, end) = shown
    BY <1>7, <1>10 DEF Chunk
  <1>12. shown \in Seq(C)
    <2>1. end \in 0 .. Len(parts) /\ s \in Nat \ {0}
      BY <1>1, <1>2, <1>5, <1>9
    <2>2. SubSeq(parts, s, end) \in Seq(Line(C))
      BY <1>2, <2>1, SubLines
    <2>3. SubSeq(parts, s, end) \in Seq(Seq(C))
      BY <2>2, LinesAreTexts
    <2>4. Join(SubSeq(parts, s, end)) \in Seq(C)
      BY <2>3, JoinAppend
    <2>5. QED
      BY <1>11, <2>4 DEF Chunk
  <1> DEFINE chunk == Edit(shown, shown, new, TRUE)
  <1>13. chunk \in Seq(C)
    BY <1>12, EditType
  <1>14. StartOf(s) = s /\ EndOf(end, Len(parts)) = end
    <2>1. s \in 1 .. Len(parts) /\ end \in 1 .. Len(parts)
      BY <1>1, <1>2, <1>5, <1>9
    <2>2. QED
      BY <1>2, <2>1 DEF StartOf, EndOf
  <1> DEFINE whole == (Before(parts, s) \o chunk) \o After(parts, end)
  <1>15. whole \in Seq(C)
    <2>1. s \in 1 .. Len(parts) /\ end \in 1 .. Len(parts)
      BY <1>1, <1>2, <1>5, <1>9
    <2> HIDE DEF chunk
    <2>2. ContentIs(C, parts, s, end, chunk)
      BY <1>2, <1>13, <2>1, ContentParts
    <2>3. QED
      BY <2>2 DEF ContentIs
  <1>16. ReplaceContent(t, shown, new, s, end, TRUE) = IF chunk = Refused THEN Refused ELSE whole
    <2>1. ~ (s <= 0 /\ end <= 0) /\ ~ (s > Len(parts)) /\ ~ (s > end + 1)
      BY <1>1, <1>2, <1>5, <1>9
    <2>2. QED
      BY <1>11, <1>14, <2>1, Zenon DEF ReplaceContent, parts
  <1> HIDE DEF chunk, whole
  <1>17. QED
    BY <1>7, <1>9, <1>13, <1>15, <1>16

=============================================================================
