---------------------------- MODULE ValuesProofs ----------------------------
(***************************************************************************)
(* The properties of MCValues, for every text and every argument: what     *)
(* parseCommandMarkers recovers, for which the proofs say what stands at   *)
(* each place of a wrapped command's output (ConcatOfFour, TokensBetween); *)
(* which settings reach the configuration; and what TextsProofs proves of  *)
(* the operators of Texts says of tails, edits and pages.                  *)
(***************************************************************************)
EXTENDS MCValues, TextsProofs

\* Concatenation of four parts: where each begins in the whole.
LEMMA ConcatOfFour ==
  ASSUME NEW C, NEW r \in Seq(C), NEW s \in Seq(C), NEW t \in Seq(C), NEW u \in Seq(C),
         NEW w, w = r \o s \o t \o u
  PROVE  /\ w \in Seq(C)
         /\ Len(w) = Len(r) + Len(s) + Len(t) + Len(u)
         /\ \A i \in 1 .. Len(r) : w[i] = r[i]
         /\ \A i \in 1 .. Len(s) : w[Len(r) + i] = s[i]
         /\ \A i \in 1 .. Len(t) : w[Len(r) + Len(s) + i] = t[i]
         /\ \A i \in 1 .. Len(u) : w[Len(r) + Len(s) + Len(t) + i] = u[i]
  <1> DEFINE a == r \o s  b == a \o t
  <1>1. a \in Seq(C) /\ Len(r) \in Nat /\ Len(s) \in Nat /\ Len(a) = Len(r) + Len(s)
        /\ (\A i \in 1 .. Len(r) : a[i] = r[i])
        /\ (\A i \in 1 .. Len(s) : a[Len(r) + i] = s[i])
    BY Concat
  <1>0. w = b \o u
    OBVIOUS
  <1> HIDE DEF a
  <1>2. a \in Seq(C)
    BY <1>1
  <1>2a. b \in Seq(C) /\ Len(t) \in Nat /\ Len(b) = Len(a) + Len(t)
    BY <1>2, Concat
  <1>2b. (\A i \in 1 .. Len(a) : b[i] = a[i])
        /\ (\A i \in 1 .. Len(t) : b[Len(a) + i] = t[i])
    BY <1>2, Concat
  <1> HIDE DEF b
  <1>3. b \in Seq(C)
    BY <1>2a
  <1>3a. w \in Seq(C) /\ Len(u) \in Nat /\ Len(w) = Len(b) + Len(u)
    BY <1>0, <1>3, Concat
  <1>3b. (\A i \in 1 .. Len(b) : w[i] = b[i])
        /\ (\A i \in 1 .. Len(u) : w[Len(b) + i] = u[i])
    BY <1>0, <1>3, Concat
  <1>4. \A i \in 1 .. Len(r) : w[i] = r[i]
    BY <1>1, <1>2a, <1>2b, <1>3b
  <1>5. \A i \in 1 .. Len(s) : w[Len(r) + i] = s[i]
    <2> TAKE i \in 1 .. Len(s)
    <2>1. Len(r) + i \in 1 .. Len(a) /\ Len(r) + i \in 1 .. Len(b)
      BY <1>1, <1>2a
    <2>2. QED
      BY <2>1, <1>1, <1>2b, <1>3b
  <1>6. \A i \in 1 .. Len(t) : w[Len(r) + Len(s) + i] = t[i]
    <2> TAKE i \in 1 .. Len(t)
    <2>1. Len(a) + i \in 1 .. Len(b) /\ Len(r) + Len(s) + i = Len(a) + i
      BY <1>1, <1>2a
    <2>2. QED
      BY <2>1, <1>2b, <1>3b
  <1>7. \A i \in 1 .. Len(u) : w[Len(r) + Len(s) + Len(t) + i] = u[i]
    BY <1>1, <1>2a, <1>3b
  <1>8. QED
    BY <1>1, <1>2a, <1>3a, <1>4, <1>5, <1>6, <1>7

-----------------------------------------------------------------------------
(* The markers of a command's output *)

\* The script's tokens e, c and d stand between out and dir, n after them.
LEMMA TokensBetween ==
  ASSUME NEW C, NEW out \in Seq(C), NEW dir \in Seq(C), NEW e \in C, NEW c \in C, NEW d \in C, NEW n \in C,
         NEW w, w = out \o <<e,c,d>> \o dir \o <<n>>
  PROVE  /\ w \in Seq(C)
         /\ Len(w) = Len(out) + Len(dir) + 4
         /\ \A i \in 1 .. Len(out) : w[i] = out[i]
         /\ w[Len(out) + 1] = e /\ w[Len(out) + 2] = c /\ w[Len(out) + 3] = d
         /\ \A i \in 1 .. Len(dir) : w[Len(out) + 3 + i] = dir[i]
         /\ w[Len(out) + Len(dir) + 4] = n
  <1> DEFINE m == <<e, c, d>>  l == <<n>>
  <1>1. m \in Seq(C) /\ Len(m) = 3 /\ m[1] = e /\ m[2] = c /\ m[3] = d
    OBVIOUS
  <1>2. l \in Seq(C) /\ Len(l) = 1 /\ l[1] = n
    OBVIOUS
  <1>3. w = out \o m \o dir \o l
    OBVIOUS
  <1> HIDE DEF m, l
  <1>4. /\ w \in Seq(C)
        /\ Len(w) = Len(out) + Len(m) + Len(dir) + Len(l)
        /\ \A i \in 1 .. Len(out) : w[i] = out[i]
    BY <1>1, <1>2, <1>3, ConcatOfFour
  <1>4a. \A i \in 1 .. Len(m) : w[Len(out) + i] = m[i]
    BY <1>1, <1>2, <1>3, ConcatOfFour, SMTT(30)
  <1>4b. /\ \A i \in 1 .. Len(dir) : w[Len(out) + Len(m) + i] = dir[i]
    BY <1>1, <1>2, <1>3, ConcatOfFour
  <1>4c. \A i \in 1 .. Len(l) : w[Len(out) + Len(m) + Len(dir) + i] = l[i]
    BY <1>1, <1>2, <1>3, ConcatOfFour
  <1>5. Len(out) \in Nat /\ Len(dir) \in Nat
    BY LenProperties
  <1>6. QED
    BY <1>1, <1>2, <1>3, <1>4, <1>4a, <1>4b, <1>4c, <1>5, SMTT(30)

\* w is the output out, the status code and the directory dir, with the markers.
Spells(w, C, out, code, dir) ==
  /\ w \in Seq(C)
  /\ Len(w) = Len(out) + Len(dir) + 4
  /\ \A i \in 1 .. Len(out) : w[i] = out[i]
  /\ w[Len(out) + 1] = Exit /\ w[Len(out) + 2] = code /\ w[Len(out) + 3] = Cwd
  /\ \A i \in 1 .. Len(dir) : w[Len(out) + 3 + i] = dir[i]
  /\ w[Len(out) + Len(dir) + 4] = NL

\* That is what the script of WrapCommand leaves.
LEMMA WrappedSpells ==
  ASSUME NEW C, {NL, Exit, Cwd} \cup Digits \subseteq C,
         NEW out \in Seq(C), NEW code \in Digits, NEW dir \in Seq(C)
  PROVE  Spells(Wrapped(out, code, dir), C, out, code, dir)
  <1>1. NL \in C /\ Exit \in C /\ Cwd \in C /\ code \in C
    OBVIOUS
  <1>2. Wrapped(out, code, dir) = out \o <<Exit, code, Cwd>> \o dir \o <<NL>>
    BY DEF Wrapped
  <1>3. QED
    BY <1>1, <1>2, TokensBetween DEF Spells

\* What comes after the last of the markers is what the script wrote there.
LEMMA LastMarker ==
  ASSUME NEW C, NEW out \in Seq(C), NEW code \in Digits, NEW dir \in Seq(C),
         \A i \in 1 .. Len(dir) : dir[i] # Exit,
         NEW w, Spells(w, C, out, code, dir)
  PROVE  Positions(w, Exit) # {} /\ MarkerAt(w) = Len(out) + 1
  <1>1. Exit # Cwd /\ Exit # NL /\ Exit # code
    BY DEF Exit, Cwd, NL, Digits
  <1>a. Len(out) \in Nat /\ Len(dir) \in Nat
    BY LenProperties
  <1>b. /\ w \in Seq(C)
        /\ Len(w) = Len(out) + Len(dir) + 4
        /\ \A i \in 1 .. Len(out) : w[i] = out[i]
        /\ w[Len(out) + 1] = Exit /\ w[Len(out) + 2] = code /\ w[Len(out) + 3] = Cwd
        /\ \A i \in 1 .. Len(dir) : w[Len(out) + 3 + i] = dir[i]
        /\ w[Len(out) + Len(dir) + 4] = NL
    BY DEF Spells
  <1>c. DOMAIN w = 1 .. Len(out) + Len(dir) + 4
    BY <1>b, LenProperties
  <1>2. /\ w[Len(out) + 1] = Exit /\ w[Len(out) + 2] = code /\ w[Len(out) + 3] = Cwd
        /\ w[Len(out) + Len(dir) + 4] = NL
    BY <1>b
  <1>d. \A i \in 1 .. Len(dir) : w[Len(out) + 3 + i] = dir[i]
    BY <1>b
  <1>3. ASSUME NEW i \in Positions(w, Exit) PROVE i \in Int /\ i <= Len(out) + 1
    <2>1. i \in 1 .. Len(out) + Len(dir) + 4 /\ w[i] = Exit
      BY <1>c DEF Positions
    <2>2. ASSUME i \in Len(out) + 4 .. Len(out) + Len(dir) + 3 PROVE FALSE
      <3>1. PICK j \in 1 .. Len(dir) : i = Len(out) + 3 + j
        <4>1. i - (Len(out) + 3) \in 1 .. Len(dir) /\ i = Len(out) + 3 + (i - (Len(out) + 3))
          BY <1>a, <2>2
        <4>2. QED
          BY <4>1
      <3>2. QED
        BY <1>d, <2>1, <3>1
    <2>3. i # Len(out) + 2 /\ i # Len(out) + 3 /\ i # Len(out) + Len(dir) + 4
      BY <1>1, <1>2, <2>1
    <2>4. QED
      BY <1>a, <2>1, <2>2, <2>3
  <1>4. Len(out) + 1 \in Positions(w, Exit)
    BY <1>a, <1>c, <1>2 DEF Positions
  <1>5. Positions(w, Exit) \in SUBSET Int
    BY <1>3
  <1>6. QED
    BY <1>3, <1>4, <1>5, MaxIs DEF MarkerAt

\* meta is the status, the second marker and the directory dir, with the line feed.
Tells(meta, C, code, dir) ==
  /\ meta \in Seq(C) /\ Len(meta) = Len(dir) + 3
  /\ meta[1] = code
  /\ \A i \in 1 .. Len(dir) : meta[2 + i] = dir[i]
  /\ meta[Len(dir) + 3] = NL
  /\ Positions(meta, Cwd) # {} /\ Min(Positions(meta, Cwd)) = 2

\* The first marker after that is the one before the directory.
LEMMA CwdMarker ==
  ASSUME NEW C, NEW out \in Seq(C), NEW code \in Digits, NEW dir \in Seq(C),
         NEW w, Spells(w, C, out, code, dir),
         NEW meta, meta = SubSeq(w, Len(out) + 2, Len(w))
  PROVE  Tells(meta, C, code, dir)
  <1>1. Cwd # code
    BY DEF Cwd, Digits
  <1>a. Len(out) \in Nat /\ Len(dir) \in Nat
    BY LenProperties
  <1>b. /\ w \in Seq(C)
        /\ Len(w) = Len(out) + Len(dir) + 4
        /\ \A i \in 1 .. Len(out) : w[i] = out[i]
        /\ w[Len(out) + 1] = Exit /\ w[Len(out) + 2] = code /\ w[Len(out) + 3] = Cwd
        /\ \A i \in 1 .. Len(dir) : w[Len(out) + 3 + i] = dir[i]
        /\ w[Len(out) + Len(dir) + 4] = NL
    BY DEF Spells
  <1>2. /\ w[Len(out) + 2] = code /\ w[Len(out) + 3] = Cwd
        /\ w[Len(out) + Len(dir) + 4] = NL
    BY <1>b
  <1>d. \A i \in 1 .. Len(dir) : w[Len(out) + 3 + i] = dir[i]
    BY <1>b
  <1>3. \A i \in Len(out) + 2 .. Len(w) : w[i] \in C
    BY <1>a, <1>b, ElementOfSeq
  <1>4. /\ meta \in Seq(C) /\ Len(meta) = Len(dir) + 3
        /\ \A i \in 1 .. Len(dir) + 3 : meta[i] = w[Len(out) + 1 + i]
    <2>1. Len(out) + 2 \in Int /\ Len(w) \in Int /\ Len(out) + 2 <= Len(w)
          /\ Len(w) - (Len(out) + 2) + 1 = Len(dir) + 3
      BY <1>a, <1>b
    <2>2. meta \in Seq(C) /\ Len(meta) = Len(w) - (Len(out) + 2) + 1
      BY <1>3, <2>1, SubSeqProperties
    <2>3. \A i \in 1 .. Len(w) - (Len(out) + 2) + 1 : meta[i] = w[(Len(out) + 2) + i - 1]
      BY <1>3, <2>1, SubSeqProperties
    <2>4. QED
      BY <1>a, <2>1, <2>2, <2>3
  <1>5. meta[1] = code /\ meta[2] = Cwd /\ meta[Len(dir) + 3] = NL
    BY <1>a, <1>2, <1>4
  <1>6. ASSUME NEW i \in 1 .. Len(dir) PROVE meta[2 + i] = dir[i]
    <2>1. 2 + i \in 1 .. Len(dir) + 3 /\ Len(out) + 1 + (2 + i) = Len(out) + 3 + i
      BY <1>a
    <2>2. QED
      BY <1>d, <1>4, <2>1
  <1>7. 2 \in Positions(meta, Cwd) /\ Positions(meta, Cwd) \in SUBSET Int
        /\ \A i \in Positions(meta, Cwd) : 2 <= i
    <2>1. DOMAIN meta = 1 .. Len(dir) + 3
      BY <1>4, LenProperties
    <2>2. QED
      BY <1>a, <1>1, <1>5, <2>1 DEF Positions
  <1>8. QED
    BY <1>4, <1>5, <1>6, <1>7, MinIs DEF Tells

\* The line feed after the directory is all that is trimmed.
LEMMA TrimmedDirectory ==
  ASSUME NEW C, NEW dir \in Seq(C), dir # <<>>, dir[1] \notin {SP, NL}, dir[Len(dir)] \notin {SP, NL},
         NEW t \in Seq(C), Len(t) = Len(dir) + 1, t[Len(t)] = NL,
         \A i \in 1 .. Len(dir) : t[i] = dir[i]
  PROVE  TrimSpace(t) = dir
  <1> DEFINE ink == {i \in DOMAIN t : t[i] \notin {SP, NL}}
  <1>1. Len(dir) \in Nat \ {0} /\ DOMAIN t = 1 .. Len(dir) + 1
    BY LenProperties, EmptySeq
  <1>2. /\ ink \in SUBSET Int /\ 1 \in ink /\ Len(dir) \in ink
        /\ \A i \in ink : 1 <= i /\ i <= Len(dir)
    BY <1>1
  <1>3. ink # {} /\ Min(ink) = 1 /\ Max(ink) = Len(dir)
    BY <1>2, MinIs, MaxIs
  <1>4. TrimSpace(t) = SubSeq(t, 1, Len(dir))
    BY <1>3, Zenon DEF TrimSpace
  <1>5. /\ SubSeq(t, 1, Len(dir)) \in Seq(C) /\ Len(SubSeq(t, 1, Len(dir))) = Len(dir)
        /\ \A i \in 1 .. Len(dir) : SubSeq(t, 1, Len(dir))[i] = t[i]
    <2>1. \A i \in 1 .. Len(dir) : t[i] \in C
      BY <1>1, ElementOfSeq
    <2>2. 1 \in Int /\ Len(dir) \in Int /\ 1 <= Len(dir) /\ Len(dir) - 1 + 1 = Len(dir)
      BY <1>1
    <2>3. SubSeq(t, 1, Len(dir)) \in Seq(C) /\ Len(SubSeq(t, 1, Len(dir))) = Len(dir) - 1 + 1
      BY <2>1, <2>2, SubSeqProperties
    <2>4. \A i \in 1 .. Len(dir) - 1 + 1 : SubSeq(t, 1, Len(dir))[i] = t[1 + i - 1]
      BY <2>1, <2>2, SubSeqProperties
    <2>5. QED
      BY <2>2, <2>3, <2>4
  <1>6. QED
    BY <1>4, <1>5, SeqEqual

\* Whatever a command prints, also the markers themselves, its output, its status
\* and the directory it ends in are parsed as they were, provided the directory's
\* name does not hold the first marker or begin or end with a space.
THEOREM MarkersRecovered ==
  ASSUME NEW C, {NL, SP, Exit, Cwd} \cup Digits \subseteq C,
         NEW out \in Seq(C), NEW code \in Digits, NEW dir \in Seq(C), dir # <<>>,
         \A i \in 1 .. Len(dir) : dir[i] # Exit,
         dir[1] \notin {SP, NL}, dir[Len(dir)] \notin {SP, NL}
  PROVE  ParseCommandMarkers(Wrapped(out, code, dir)) = <<out, dir, code>>
  <1> DEFINE w    == Wrapped(out, code, dir)
             meta == SubSeq(w, Len(out) + 2, Len(w))
             rest == SubSeq(meta, 3, Len(meta))
  <1>1. Spells(w, C, out, code, dir)
    BY WrappedSpells
  <1> HIDE DEF w
  <1>2. Positions(w, Exit) # {} /\ MarkerAt(w) = Len(out) + 1
    BY <1>1, LastMarker
  <1>3. /\ meta \in Seq(C) /\ Len(meta) = Len(dir) + 3
        /\ meta[1] = code
        /\ \A i \in 1 .. Len(dir) : meta[2 + i] = dir[i]
        /\ meta[Len(dir) + 3] = NL
        /\ Positions(meta, Cwd) # {} /\ Min(Positions(meta, Cwd)) = 2
    <2>1. meta = SubSeq(w, Len(out) + 2, Len(w))
      OBVIOUS
    <2> HIDE DEF meta
    <2>2. Tells(meta, C, code, dir)
      BY <1>1, <2>1, CwdMarker
    <2>3. QED
      BY <2>2 DEF Tells
  <1>4. Len(out) \in Nat /\ Len(dir) \in Nat
    BY LenProperties
  <1>5. SubSeq(w, 1, Len(out)) = out
    <2>1. /\ SubSeq(w, 1, Len(out)) \in Seq(C)
          /\ Len(SubSeq(w, 1, Len(out))) = IF 1 <= Len(out) THEN Len(out) - 1 + 1 ELSE 0
          /\ \A i \in 1 .. Len(out) - 1 + 1 : SubSeq(w, 1, Len(out))[i] = w[1 + i - 1]
      <3>1. \A i \in 1 .. Len(out) : w[i] \in C
        BY <1>1, <1>4, ElementOfSeq DEF Spells
      <3>2. QED
        BY <1>4, <3>1, SubSeqProperties
    <2>2. Len(SubSeq(w, 1, Len(out))) = Len(out)
      BY <1>4, <2>1
    <2>3. \A i \in 1 .. Len(out) : SubSeq(w, 1, Len(out))[i] = out[i]
      BY <1>1, <1>4, <2>1 DEF Spells
    <2>4. QED
      BY <2>1, <2>2, <2>3, SeqEqual
  <1> HIDE DEF meta
  <1>6. /\ rest \in Seq(C) /\ Len(rest) = Len(dir) + 1
        /\ \A i \in 1 .. Len(dir) + 1 : rest[i] = meta[2 + i]
    <2>1. \A i \in 3 .. Len(meta) : meta[i] \in C
      BY <1>3, <1>4, ElementOfSeq
    <2>2. 3 <= Len(meta) /\ Len(meta) \in Int /\ Len(meta) - 3 + 1 = Len(dir) + 1
      BY <1>3, <1>4
    <2>3. rest \in Seq(C) /\ Len(rest) = Len(meta) - 3 + 1
      BY <2>1, <2>2, SubSeqProperties
    <2>4. \A i \in 1 .. Len(meta) - 3 + 1 : rest[i] = meta[3 + i - 1]
      BY <2>1, <2>2, SubSeqProperties
    <2>5. QED
      BY <1>4, <2>2, <2>3, <2>4
  <1> HIDE DEF rest
  <1>7. TrimSpace(rest) = dir
    <2>1. Len(dir) + 1 \in 1 .. Len(dir) + 1 /\ 2 + (Len(dir) + 1) = Len(dir) + 3
      BY <1>4
    <2>2. rest[Len(rest)] = NL
      BY <1>3, <1>6, <2>1
    <2>3. ASSUME NEW i \in 1 .. Len(dir) PROVE rest[i] = dir[i]
      <3>1. i \in 1 .. Len(dir) + 1
        BY <1>4
      <3>2. QED
        BY <1>3, <1>6, <3>1
    <2>4. QED
      BY <1>6, <2>2, <2>3, TrimmedDirectory
  <1>8. meta # <<>> /\ meta[1] \in Digits
    BY <1>3, <1>4, EmptySeq
  <1>9. MarkerAt(w) + 1 = Len(out) + 2 /\ MarkerAt(w) - 1 = Len(out)
    BY <1>2, <1>4
  <1>10. ParseCommandMarkers(w) = <<SubSeq(w, 1, Len(out)), TrimSpace(rest), code>>
    BY <1>2, <1>3, <1>8, <1>9, SMTT(30) DEF ParseCommandMarkers, meta, rest
  <1>11. QED
    BY <1>5, <1>7, <1>10 DEF w

\* The output, status and directory of every command that is evaluated are
\* recovered (parseCommandMarkers after the script of WrapCommand).
THEOREM RoundTrip == Spec => []MarkersRoundTrip
  <1>1. Init => MarkersRoundTrip
    BY DEF Init, MarkersRoundTrip, Done, NotYet
  <1>2. ASSUME MarkersRoundTrip, [Next]_vars PROVE MarkersRoundTrip'
    <2>1. CASE Command
      <3> DEFINE C == {"x", NL, SP, Exit, Cwd, "1"} \cup Digits
      <3>1. PICK out \in Over({"x", NL, Exit, Cwd, "1"}, 3), code \in Digits, dir \in Dirs :
               call' = [done |-> TRUE, out |-> out, code |-> code, dir |-> dir,
                        parsed |-> ParseCommandMarkers(Wrapped(out, code, dir))]
        BY <2>1 DEF Command
      <3>a. PICK l \in 0 .. 3 : out \in [1 .. l -> {"x", NL, Exit, Cwd, "1"}]
        BY DEF Over
      <3>2. out \in Seq(C)
        BY <3>a
      <3>3. PICK m \in 0 .. 3 : dir \in [1 .. m -> {"x", SP, Cwd}]
        BY DEF Dirs, Over
      <3>4. /\ dir \in Seq(C) /\ Len(dir) = m
            /\ \A i \in 1 .. m : dir[i] \in {"x", SP, Cwd}
        BY <3>3
      <3>5. dir # <<>> /\ dir[1] # SP /\ dir[Len(dir)] # SP
        BY <3>4 DEF Dirs, Last
      <3>6. m # 0
        BY <3>3, <3>4, <3>5, EmptySeq
      <3>7. \A i \in 1 .. Len(dir) : dir[i] # Exit /\ dir[i] # NL
        BY <3>4 DEF Exit, NL, SP, Cwd
      <3>8. dir[1] \notin {SP, NL} /\ dir[Len(dir)] \notin {SP, NL}
        BY <3>4, <3>5, <3>6, <3>7
      <3>9. {NL, SP, Exit, Cwd} \cup Digits \subseteq C
        OBVIOUS
      <3> HIDE DEF C
      <3>10. ParseCommandMarkers(Wrapped(out, code, dir)) = <<out, dir, code>>
        BY <3>2, <3>4, <3>5, <3>7, <3>8, <3>9, MarkersRecovered
      <3>11. QED
        BY <3>1, <3>10 DEF MarkersRoundTrip
    <2>2. CASE View \/ Change \/ TailOf \/ Connect \/ BootUp
      BY <2>2 DEF View, Change, TailOf, Connect, BootUp, Evaluates, MarkersRoundTrip, Done
    <2>3. CASE UNCHANGED vars
      BY <1>2, <2>3 DEF vars, MarkersRoundTrip, Done
    <2>4. QED
      BY <1>2, <2>1, <2>2, <2>3 DEF Next
  <1>3. QED
    BY <1>1, <1>2, PTL DEF Spec

-----------------------------------------------------------------------------
(* Settings *)

\* The first of at most three.
LEMMA FirstOfThree ==
  ASSUME NEW S \in SUBSET (1 .. 3), S # {}
  PROVE  Min(S) \in S
  <1>1. S \in SUBSET Int
    OBVIOUS
  <1>2. \E m \in S : \A n \in S : m <= n
    <2>1. CASE 1 \in S
      BY <2>1
    <2>2. CASE 1 \notin S /\ 2 \in S
      BY <2>2
    <2>3. CASE 1 \notin S /\ 2 \notin S
      <3>1. \A n \in S : n = 3
        <4> TAKE n \in S
        <4>1. n \in 1 .. 3 /\ n # 1 /\ n # 2
          BY <2>3
        <4>2. QED
          BY <4>1
      <3>2. PICK m \in S : m = 3
        BY <3>1
      <3>3. m \in S /\ \A n \in S : m <= n
        BY <3>1, <3>2
      <3>4. QED
        BY <3>3
    <2>4. QED
      BY <2>1, <2>2, <2>3
  <1>3. QED
    BY <1>1, <1>2, MinIs

\* The values given under the names in N.
Values(args, N) == {args[n] : n \in N \cap DOMAIN args}

\* A string argument that is not empty is found under whichever of its names
\* it is given (getParamString).
LEMMA StringFound ==
  ASSUME NEW args, NEW N, NEW names,
         DOMAIN names \subseteq 1 .. 3, \A i \in DOMAIN names : names[i] \in N,
         NEW j \in DOMAIN names, names[j] \in DOMAIN args, args[names[j]] # ""
  PROVE  ParamString(args, names) # "" /\ ParamString(args, names) \in Values(args, N)
  <1> DEFINE at == {i \in DOMAIN names : names[i] \in DOMAIN args /\ args[names[i]] # ""}
  <1>1. at \in SUBSET (1 .. 3) /\ at # {}
    OBVIOUS
  <1>2. Min(at) \in at
    BY <1>1, FirstOfThree
  <1>3. ParamString(args, names) = args[names[Min(at)]]
    BY <1>1, Zenon DEF ParamString
  <1>4. QED
    BY <1>2, <1>3 DEF Values

\* An integer argument is found under whichever of its names it is given
\* (getParamInt).
LEMMA IntFound ==
  ASSUME NEW args, NEW N, NEW names, NEW default,
         DOMAIN names \subseteq 1 .. 3, \A i \in DOMAIN names : names[i] \in N,
         NEW j \in DOMAIN names, names[j] \in DOMAIN args
  PROVE  ParamInt(args, default, names) \in Values(args, N)
  <1> DEFINE at == {i \in DOMAIN names : names[i] \in DOMAIN args}
  <1>1. at \in SUBSET (1 .. 3) /\ at # {}
    OBVIOUS
  <1>2. Min(at) \in at
    BY <1>1, FirstOfThree
  <1>3. ParamInt(args, default, names) = args[names[Min(at)]]
    BY <1>1, Zenon DEF ParamInt
  <1>4. QED
    BY <1>2, <1>3 DEF Values

\* The same for a setting with two names.
LEMMA TwoNames ==
  ASSUME NEW args, NEW a, NEW b
  PROVE  /\ Values(args, {a, b}) \ {""} # {} =>
               /\ ParamString(args, <<a, b>>) # ""
               /\ ParamString(args, <<a, b>>) \in Values(args, {a, b})
         /\ Values(args, {a, b}) # {} =>
               \A default : ParamInt(args, default, <<a, b>>) \in Values(args, {a, b})
  <1> DEFINE names == <<a, b>>  N == {a, b}
  <1>1. /\ DOMAIN names \subseteq 1 .. 3
        /\ \A i \in DOMAIN names : names[i] \in N
        /\ \A n \in N : \E i \in DOMAIN names : names[i] = n
    <2>1. DOMAIN names = {1, 2} /\ names[1] = a /\ names[2] = b
      OBVIOUS
    <2> HIDE DEF names
    <2>2. QED
      BY <2>1
  <1> HIDE DEF names, N
  <1>2. ASSUME Values(args, N) \ {""} # {}
        PROVE  ParamString(args, names) # "" /\ ParamString(args, names) \in Values(args, N)
    <2>1. PICK n \in N \cap DOMAIN args : args[n] # ""
      BY <1>2 DEF Values
    <2>2. QED
      BY <1>1, <2>1, StringFound
  <1>3. ASSUME Values(args, N) # {}, NEW default
        PROVE  ParamInt(args, default, names) \in Values(args, N)
    <2>1. PICK n \in N : n \in DOMAIN args
      BY <1>3 DEF Values
    <2>2. QED
      BY <1>1, <2>1, IntFound
  <1>4. QED
    BY <1>2, <1>3 DEF names, N

\* The same for a setting with three names.
LEMMA ThreeNames ==
  ASSUME NEW args, NEW a, NEW b, NEW c
  PROVE  Values(args, {a, b, c}) \ {""} # {} =>
            /\ ParamString(args, <<a, b, c>>) # ""
            /\ ParamString(args, <<a, b, c>>) \in Values(args, {a, b, c})
  <1> DEFINE names == <<a, b, c>>  N == {a, b, c}
  <1>1. /\ DOMAIN names \subseteq 1 .. 3
        /\ \A i \in DOMAIN names : names[i] \in N
        /\ \A n \in N : \E i \in DOMAIN names : names[i] = n
    <2>1. DOMAIN names = {1, 2, 3} /\ names[1] = a /\ names[2] = b /\ names[3] = c
      OBVIOUS
    <2> HIDE DEF names
    <2>2. QED
      BY <2>1
  <1> HIDE DEF names, N
  <1>2. ASSUME Values(args, N) \ {""} # {}
        PROVE  ParamString(args, names) # "" /\ ParamString(args, names) \in Values(args, N)
    <2>1. PICK n \in N \cap DOMAIN args : args[n] # ""
      BY <1>2 DEF Values
    <2>2. QED
      BY <1>1, <2>1, StringFound
  <1>3. QED
    BY <1>2 DEF names, N

\* ResolveHostConfig keeps what it is given.
LEMMA ResolveKeeps ==
  ASSUME NEW c, NEW file, NEW env
  PROVE  /\ c.user # "" => Resolve(c, file, env).user = c.user
         /\ c.port # "" => Resolve(c, file, env).port = c.port
         /\ c.key # "" => Resolve(c, file, env).key = c.key
         /\ Resolve(c, file, env).password = c.password
  BY DEF Resolve, Or

\* A user, port, key or password given to remote_connect under any of its names
\* reaches the configuration, whatever ~/.ssh/config and the environment say;
\* of the port, only a value that is not the empty one.
THEOREM ArgumentsAreUsed ==
  ASSUME NEW args, NEW file, NEW env,
         NEW cfg, cfg = RemoteConnect(args, file, env)
  PROVE  /\ LET given == Values(args, {"user", "User"})
            IN  given \ {""} # {} => cfg.user \in given
         /\ LET given == Values(args, {"port", "Port"})
            IN  given # {} /\ "" \notin given => cfg.port \in given
         /\ LET given == Values(args, {"keyPath", "KeyPath", "key_path"})
            IN  given \ {""} # {} => cfg.key \in given
         /\ LET given == Values(args, {"password", "Password"})
            IN  given \ {""} # {} => cfg.password \in given
  <1> DEFINE user == ParamString(args, <<"user", "User">>)
             port == ParamInt(args, "22", <<"port", "Port">>)
             key  == ParamString(args, <<"keyPath", "KeyPath", "key_path">>)
             password == ParamString(args, <<"password", "Password">>)
             asked == [host |-> ParamString(args, <<"host", "Host">>), user |-> user,
                       port |-> port, key |-> key, password |-> password]
  <1>0. cfg = Resolve(asked, file, env)
    BY DEF RemoteConnect
  <1>1. asked.user = user /\ asked.port = port /\ asked.key = key
        /\ asked.password = password
    OBVIOUS
  <1> HIDE DEF asked
  <1>2. LET given == Values(args, {"user", "User"})
        IN  given \ {""} # {} => user # "" /\ user \in given
    BY TwoNames
  <1>3. LET given == Values(args, {"port", "Port"})
        IN  given # {} => port \in given
    BY TwoNames
  <1>4. LET given == Values(args, {"keyPath", "KeyPath", "key_path"})
        IN  given \ {""} # {} => key # "" /\ key \in given
    BY ThreeNames
  <1>5. LET given == Values(args, {"password", "Password"})
        IN  given \ {""} # {} => password \in given
    BY TwoNames
  <1> HIDE DEF user, port, key, password
  <1>6. /\ user # "" => cfg.user = user
        /\ port # "" => cfg.port = port
        /\ key # "" => cfg.key = key
        /\ cfg.password = password
    <2>1. /\ asked.user # "" => Resolve(asked, file, env).user = asked.user
          /\ asked.port # "" => Resolve(asked, file, env).port = asked.port
          /\ asked.key # "" => Resolve(asked, file, env).key = asked.key
          /\ Resolve(asked, file, env).password = asked.password
      BY ResolveKeeps
    <2>2. QED
      BY <1>0, <1>1, <2>1
  <1>7. QED
    BY <1>2, <1>3, <1>4, <1>5, <1>6

\* A user, port or key that is given to the boot is the configuration's.
FlagsReach(flags, env, cfg) ==
    LET user == Flag(flags, "user", env.SSH_USER)
        port == Flag(flags, "port", "")
        key  == Flag(flags, "key", env.SSH_KEY)
    IN  /\ user # "" => cfg.user = user
        /\ port # "" => cfg.port = port
        /\ key # "" => cfg.key = key

\* A boot under long flags alone uses every flag, or its variable, whatever
\* ~/.ssh/config says.
LEMMA FlagsAreUsed ==
  ASSUME NEW flags, NEW argument, NEW file, NEW env, DOMAIN flags \subseteq LongFlags
  PROVE  FlagsReach(flags, env, Boot(flags, argument, file, env))
  <1> DEFINE c == Parse(flags, argument, env)
             user == Flag(flags, "user", env.SSH_USER)
             port == Flag(flags, "port", "")
             key  == Flag(flags, "key", env.SSH_KEY)
  <1>1. (user # "" => c.user = user) /\ c.port = port /\ c.key = key
    <2> DEFINE host == Flag(flags, "host", env.SSH_HOST)
               password == Flag(flags, "password", env.SSH_PASSWORD)
    <2>1. c = [host |-> Or(host, argument.host),
               user |-> IF host = "" THEN Or(user, argument.user) ELSE user,
               port |-> port, key |-> key, password |-> password]
      BY DEF Parse
    <2> HIDE DEF c, user, port, key, host, password
    <2>2. QED
      BY <2>1 DEF Or
  <1>2. Boot(flags, argument, file, env) = IF c.host = "" THEN c ELSE Resolve(c, file, env)
    BY DEF Boot
  <1> HIDE DEF c, user, port, key
  <1>3. /\ c.user # "" => Resolve(c, file, env).user = c.user
        /\ c.port # "" => Resolve(c, file, env).port = c.port
        /\ c.key # "" => Resolve(c, file, env).key = c.key
    BY ResolveKeeps
  <1> DEFINE cfg == Boot(flags, argument, file, env)
  <1>4. /\ user # "" => cfg.user = user
        /\ port # "" => cfg.port = port
        /\ key # "" => cfg.key = key
    BY <1>1, <1>2, <1>3
  <1>5. QED
    BY <1>4 DEF FlagsReach, user, port, key

\* A setting that is given is used, in every evaluation of the model.
THEOREM GivenUsed == Spec => []GivenIsUsed
  <1>1. Init => GivenIsUsed
    BY DEF Init, GivenIsUsed, Done, NotYet
  <1>2. ASSUME GivenIsUsed, [Next]_vars PROVE GivenIsUsed'
    <2>1. CASE Connect
      <3>1. PICK file \in Files, env \in Envs, h \in Hosts, given \in SUBSET Given :
               call' = [done |-> TRUE, file |-> file, host |-> h, given |-> given,
                        cfg |-> RemoteConnect([n \in {"host"} \cup given |->
                                                  IF n = "host" THEN h ELSE "given"], file, env)]
        BY <2>1 DEF Connect
      <3> DEFINE args == [n \in {"host"} \cup given |-> IF n = "host" THEN h ELSE "given"]
                 cfg  == RemoteConnect(args, file, env)
      <3>2. /\ DOMAIN args = {"host"} \cup given
            /\ \A n \in DOMAIN args \ {"host"} : args[n] = "given"
        OBVIOUS
      <3>3. call'.given = given /\ call'.cfg = cfg /\ kind' = "connect"
        BY <2>1, <3>1 DEF Connect, Evaluates
      <3> HIDE DEF args
      <3>a. cfg = RemoteConnect(args, file, env)
        OBVIOUS
      <3> HIDE DEF cfg
      <3>b. Values(args, {"user", "User"}) \subseteq {"given"} /\
            Values(args, {"port", "Port"}) \subseteq {"given"} /\
            Values(args, {"keyPath", "KeyPath", "key_path"}) \subseteq {"given"} /\
            Values(args, {"password", "Password"}) \subseteq {"given"}
        BY <3>2 DEF Values
      <3>c. \A n \in given : n # "host" => n \in DOMAIN args /\ args[n] = "given"
        BY <3>2
      <3>4. "User" \in given => cfg.user = "given"
        BY <3>2, <3>a, <3>b, ArgumentsAreUsed DEF Values
      <3>5. ASSUME "KeyPath" \in given PROVE cfg.key = "given"
        <4>1. "given" \in Values(args, {"keyPath", "KeyPath", "key_path"})
          BY <3>c, <3>5 DEF Values
        <4>2. QED
          BY <3>a, <3>b, <4>1, ArgumentsAreUsed
      <3>6. "password" \in given => cfg.password = "given"
        BY <3>2, <3>a, <3>b, ArgumentsAreUsed DEF Values
      <3>7. ASSUME {"port", "Port"} \cap given # {} PROVE cfg.port = "given"
        <4>1. PICK n \in {"port", "Port"} : n \in given
          BY <3>7
        <4>2. "given" \in Values(args, {"port", "Port"})
          BY <3>c, <4>1 DEF Values
        <4>3. QED
          BY <3>a, <3>b, <4>2, ArgumentsAreUsed
      <3> HIDE DEF cfg
      <3>8. QED
        BY <3>3, <3>4, <3>5, <3>6, <3>7 DEF GivenIsUsed, Done
    <2>2. CASE BootUp
      <3>1. PICK file \in Files, env \in BootEnvs, h \in Hosts, names \in FlagNames :
               LET flags == [n \in names |-> IF n \in {"host", "H"} THEN h ELSE "given"]
               IN  call' = [done |-> TRUE, flags |-> flags, env |-> env,
                            cfg |-> Boot(flags, [host |-> "alias", user |-> "argument"], file, env)]
        BY <2>2 DEF BootUp
      <3> DEFINE flags == [n \in names |-> IF n \in {"host", "H"} THEN h ELSE "given"]
                 argument == [host |-> "alias", user |-> "argument"]
                 cfg == Boot(flags, argument, file, env)
      <3>2. /\ call'.flags = flags /\ call'.env = env
            /\ call'.cfg = cfg /\ kind' = "boot"
        BY <2>2, <3>1 DEF BootUp, Evaluates
      <3>3. DOMAIN flags \subseteq LongFlags => FlagsReach(flags, env, cfg)
        <4> HIDE DEF flags, argument
        <4>1. QED
          BY FlagsAreUsed
      <3> HIDE DEF flags, cfg
      <3>4. QED
        BY <3>2, <3>3 DEF GivenIsUsed, FlagsReach, Done
    <2>3. CASE View \/ Change \/ TailOf \/ Command
      BY <2>3 DEF View, Change, TailOf, Command, Evaluates, GivenIsUsed, Done
    <2>4. CASE UNCHANGED vars
      BY <1>2, <2>4 DEF vars, GivenIsUsed, Done
    <2>5. QED
      BY <1>2, <2>1, <2>2, <2>3, <2>4 DEF Next
  <1>3. QED
    BY <1>1, <1>2, PTL DEF Spec
-----------------------------------------------------------------------------
(* Tails, edits and pages *)

\* Every text that is evaluated is one of these characters.
TextOK == text \in Seq(Chars)

\* A text of some of the characters.
LEMMA SmallTexts ==
  ASSUME NEW S \in SUBSET Chars, NEW n \in Nat
  PROVE  Over(S, n) \subseteq Seq(Chars)
  <1>1. ASSUME NEW m \in 0 .. n, NEW t \in [1 .. m -> S] PROVE t \in Seq(Chars)
    <2>1. m \in Nat
      OBVIOUS
    <2>2. t \in [1 .. m -> Chars]
      OBVIOUS
    <2> HIDE DEF Chars
    <2>3. QED
      BY <2>1, <2>2, IsASeq
  <1> HIDE DEF Chars
  <1>2. QED
    BY <1>1 DEF Over

\* The texts of the model are texts, and no evaluation changes its text.
LEMMA TextStays == Spec => []TextOK
  <1>1. Init => TextOK
    <2>1. Small \subseteq Seq(Chars) /\ Over({"x", NL, CR}, 3) \subseteq Seq(Chars)
      <3>1. {"x", NL} \in SUBSET Chars /\ {"x", NL, CR} \in SUBSET Chars
        BY DEF Chars
      <3>2. MaxText \in Nat /\ 3 \in Nat
        BY BoundsAssumption
      <3>3. QED
        BY <3>1, <3>2, SmallTexts DEF Small
    <2>2. <<>> \in Seq(Chars)
      BY EmptySeq
    <2>3. QED
      BY <2>1, <2>2 DEF Init, TextOK
  <1>2. TextOK /\ [Next]_vars => TextOK'
    BY DEF TextOK, Next, View, Change, TailOf, Command, Connect, BootUp, Evaluates, vars
  <1>3. QED
    BY <1>1, <1>2, PTL DEF Spec

\* The tail that remote_manage_task shows is the end of the output, for every
\* text and every number of lines.
THEOREM TailShown == Spec => []TailIsTheEnd
  <1>1. Init => TailIsTheEnd
    BY DEF Init, TailIsTheEnd, Done, NotYet
  <1>2. ASSUME TextOK, TailIsTheEnd, [Next]_vars PROVE TailIsTheEnd'
    <2>1. CASE TailOf
      <3>1. PICK n \in Lines : call' = [done |-> TRUE, n |-> n, tail |-> Tail50(text, n)]
        BY <2>1 DEF TailOf
      <3>2. n \in Nat /\ call'.n = n /\ call'.tail = Tail50(text, n) /\ text' = text
        BY <2>1, <3>1, BoundsAssumption DEF TailOf, Evaluates, Lines
      <3>3. ASSUME n > 0
            PROVE  LET all   == Split(TrimRight(text, NL))
                       lines == Split(TrimRight(Tail50(text, n), NL))
                   IN  Len(lines) = Min({n, Len(all)}) /\ IsSuffix(lines, all)
        <4>1. Tail50(text, n) = TailLines(text, n)
          BY <3>2, <3>3 DEF Tail50
        <4>2. n \in Nat \ {0} /\ text \in Seq(Chars) /\ NL \in Chars
          BY <1>2, <3>2, <3>3 DEF TextOK, Chars
        <4>3. QED
          BY <4>1, <4>2, TailIsLast, Zenon
      <3>4. QED
        BY <3>2, <3>3, Zenon DEF TailIsTheEnd
    <2>2. CASE View \/ Change \/ Command \/ Connect \/ BootUp
      BY <2>2 DEF View, Change, Command, Connect, BootUp, Evaluates, TailIsTheEnd, Done
    <2>3. CASE UNCHANGED vars
      BY <1>2, <2>3 DEF vars, TailIsTheEnd, Done
    <2>4. QED
      BY <1>2, <2>1, <2>2, <2>3 DEF Next
  <1>3. QED
    BY <1>1, <1>2, TextStays, PTL DEF Spec

\* A replacement keeps what is outside its range, for every text and whatever
\* is replaced in it.
THEOREM OutsideKept == Spec => []OutsideIsKept
  <1>1. Init => OutsideIsKept
    BY DEF Init, OutsideIsKept, Done, NotYet
  <1>2. ASSUME TextOK, OutsideIsKept, [Next]_vars PROVE OutsideIsKept'
    <2>1. CASE Change
      <3>1. PICK old \in Over({"x", NL}, 2) \ {<<>>}, new \in {<<>>, <<"y">>, <<"y", NL>>},
                 s \in Lines, e \in Lines, multiple \in BOOLEAN :
               call' = [done |-> TRUE, first |-> s, last |-> e,
                        result |-> ReplaceContent(text, old, new, s, e, multiple)]
        BY <2>1 DEF Change
      <3> DEFINE result == ReplaceContent(text, old, new, s, e, multiple)
      <3>2. /\ call'.first = s /\ call'.last = e /\ call'.result = result /\ text' = text
            /\ s \in Nat /\ e \in Nat
        BY <2>1, <3>1, BoundsAssumption DEF Change, Evaluates, Lines
      <3>3. old \in Seq(Chars)
        <4>1. {"x", NL} \in SUBSET Chars
          BY DEF Chars
        <4>2. QED
          BY <4>1, SmallTexts
      <3>4. new \in Seq(Chars)
        <4>1. <<>> \in Seq(Chars) /\ "y" \in Chars /\ NL \in Chars
          BY EmptySeq DEF Chars
        <4> HIDE DEF Chars
        <4>2. <<"y">> \in Seq(Chars) /\ <<"y", NL>> \in Seq(Chars)
          BY <4>1
        <4>3. QED
          BY <4>1, <4>2
      <3>5. text \in Seq(Chars) /\ NL \in Chars
        BY <1>2 DEF TextOK, Chars
      <3> HIDE DEF Chars, result
      <3>6. ASSUME s + e > 0, result \notin {Refused, Panic},
                   SubSeq(Split(text), 1, StartOf(s) - 1) # << <<>> >>
            PROVE  Frame(Split(text), Split(result), StartOf(s) - 1,
                         Len(Split(text)) - EndOf(e, Len(Split(text))))
        <4>1. result = ReplaceContent(text, old, new, s, e, multiple)
          BY DEF result
        <4> DEFINE lines == Split(text)
        <4>2. lines = Split(text) /\ SubSeq(lines, 1, StartOf(s) - 1) # << <<>> >>
          BY <3>6
        <4> HIDE DEF lines
        <4>3. Frame(lines, Split(result), StartOf(s) - 1, Len(lines) - EndOf(e, Len(lines)))
          BY <3>2, <3>3, <3>4, <3>5, <3>6, <4>1, <4>2, OutsideStays
        <4>4. QED
          BY <4>3 DEF lines
      <3>7. QED
        BY <3>2, <3>6, Zenon DEF OutsideIsKept, Frame
    <2>2. CASE View \/ TailOf \/ Command \/ Connect \/ BootUp
      BY <2>2 DEF View, TailOf, Command, Connect, BootUp, Evaluates, OutsideIsKept, Done
    <2>3. CASE UNCHANGED vars
      BY <1>2, <2>3 DEF vars, OutsideIsKept, Done
    <2>4. QED
      BY <1>2, <2>1, <2>2, <2>3 DEF Next
  <1>3. QED
    BY <1>1, <1>2, TextStays, PTL DEF Spec

\* What a page shows is found again by a replacement in its range, for every
\* text without carriage returns, every range and every size of the page.
THEOREM ViewedFound == Spec => []ViewedIsFound
  <1>1. Init => ViewedIsFound
    BY DEF Init, ViewedIsFound, Done, NotYet
  <1>2. ASSUME TextOK, ViewedIsFound, [Next]_vars PROVE ViewedIsFound'
    <2>1. CASE View
      <3>1. PICK s \in Lines, e \in Lines, m \in {10, 12, 22, 25, 40} :
               call' = [done |-> TRUE, first |-> s, max |-> m, page |-> ViewFile(text, s, e, m)]
        BY <2>1 DEF View
      <3> DEFINE page == ViewFile(text, s, e, m)
                 C == Chars \ {CR}
      <3>2. call'.page = page /\ text' = text /\ s \in Nat /\ e \in Nat
        BY <2>1, <3>1, BoundsAssumption DEF View, Evaluates, Lines
      <3>3. NL \in C /\ CR \notin C /\ "y" \in C /\ C \subseteq Chars
        BY DEF Chars, NL, CR
      <3>4. ASSUME CR \notin Range(text) PROVE text \in Seq(C)
        <4>1. \A i \in 1 .. Len(text) : text[i] \in Chars /\ text[i] # CR
          <5>1. DOMAIN text = 1 .. Len(text)
            BY <1>2, LenProperties DEF TextOK
          <5>2. \A i \in 1 .. Len(text) : text[i] \in Chars
            BY <1>2, ElementOfSeq DEF TextOK
          <5>3. \A i \in 1 .. Len(text) : text[i] \in Range(text)
            BY <5>1 DEF Range
          <5>4. QED
            BY <3>4, <5>2, <5>3
        <4>2. Len(text) \in Nat /\ text \in [1 .. Len(text) -> Chars]
          BY <1>2, LenProperties DEF TextOK
        <4> HIDE DEF Chars
        <4>3. text \in [1 .. Len(text) -> C]
          BY <4>1, <4>2
        <4> HIDE DEF C
        <4>4. QED
          BY <4>2, <4>3, IsASeq
      <3>5. <<"y">> \in Seq(C)
        <4> HIDE DEF C
        <4> QED
          BY <3>3
      <3>6. ASSUME NEW t \in Seq(C) PROVE t \notin {Refused, Panic}
        <4>1. t \in Seq(Chars)
          <5> HIDE DEF C
          <5> QED
            BY <3>3
        <4>2. QED
          BY <4>1, OutcomesAssumption
      <3> HIDE DEF C, page
      <3>7. ASSUME CR \notin Range(text), page # Refused, Join(page.lines) # <<>>
            PROVE  ReplaceContent(text, Join(page.lines), <<"y">>, page.start, page.end, TRUE)
                      \notin {Refused, Panic}
        <4>1. page = ViewFile(text, s, e, m)
          BY DEF page
        <4>2. text \in Seq(C)
          BY <3>4, <3>7
        <4>3. ReplaceContent(text, Join(page.lines), <<"y">>, page.start, page.end, TRUE) \in Seq(C)
          BY <3>2, <3>3, <3>5, <3>7, <4>1, <4>2, ViewedIsAccepted
        <4>4. QED
          BY <3>6, <4>3
      <3>8. QED
        BY <3>2, <3>7, Zenon DEF ViewedIsFound
    <2>2. CASE Change \/ TailOf \/ Command \/ Connect \/ BootUp
      BY <2>2 DEF Change, TailOf, Command, Connect, BootUp, Evaluates, ViewedIsFound, Done
    <2>3. CASE UNCHANGED vars
      BY <1>2, <2>3 DEF vars, ViewedIsFound, Done
    <2>4. QED
      BY <1>2, <2>1, <2>2, <2>3 DEF Next
  <1>3. QED
    BY <1>1, <1>2, TextStays, PTL DEF Spec

\* What reading on from line s yields when reading on from line n yields
\* rest[n] (the body of Paged).
Onward(t, max, rest, s) ==
  LET page == ViewFile(t, s, 0, max)
  IN  IF page = Refused THEN <<>>
      ELSE IF page.truncated /\ page.end >= s
      THEN page.lines \o rest[page.end + 1]
      ELSE page.lines

\* The lines from line s on.
Rest(lines, s) == SubSeq(lines, StartOf(s), Len(lines))

\* The page of the lines from first to the end of the file, when every line
\* fits in a page: it is none, or shows at least one line.
Shows(page, lines, first) ==
  /\ Len(lines) = 0 => page # Refused /\ page.lines = <<>> /\ page.truncated = FALSE
  /\ Len(lines) # 0 /\ first > Len(lines) => page = Refused
  /\ Len(lines) # 0 /\ first <= Len(lines) =>
        \E end \in first .. Len(lines) :
           /\ page # Refused /\ page.lines = SubSeq(lines, first, end)
           /\ page.end = end /\ page.truncated = (end < Len(lines))

\* ViewFile's page is.
LEMMA OpenPage ==
  ASSUME NEW t \in Seq(Chars), NEW max, NEW lines, lines = ScanLines(t),
         \A i \in 1 .. Len(lines) : LineSize(lines[i]) <= max,
         NEW s \in Nat, NEW page, page = ViewFile(t, s, 0, max)
  PROVE  Shows(page, lines, StartOf(s))
  <1> DEFINE n == Len(lines)
             first == StartOf(s)
  <1>1. lines \in Seq(Seq(Chars)) /\ n \in Nat
    <2>1. lines \in Seq(Seq(Chars))
      BY ScanLinesAre
    <2> QED
      BY <2>1, LenProperties
  <1>2. ViewIs(page, lines, s, 0, max)
    <2>1. 0 \in Nat
      OBVIOUS
    <2>2. ViewIs(ViewFile(t, s, 0, max), ScanLines(t), s, 0, max)
      BY <2>1, ViewFileIs
    <2>3. QED
      BY <2>2
  <1>3. EndOf(0, n) = n /\ first \in Nat \ {0}
    BY DEF EndOf, StartOf
  <1>4. n = 0 => page # Refused /\ page.lines = <<>> /\ page.truncated = FALSE
    <2>1. SUFFICES ASSUME n = 0 PROVE page # Refused /\ page.lines = <<>> /\ page.truncated = FALSE
      OBVIOUS
    <2>2. page = Page(0, 1, 0, <<>>, FALSE)
      BY <1>2, <2>1 DEF ViewIs
    <2>3. Page(0, 1, 0, <<>>, FALSE) \in Pages
      BY EmptySeq DEF Page, Pages
    <2>4. page.lines = <<>> /\ page.truncated = FALSE
      BY <2>2 DEF Page
    <2>5. QED
      BY <2>2, <2>3, <2>4, OutcomesAssumption
  <1>5. ASSUME n # 0, first <= n
        PROVE  \E end \in first .. n :
                  /\ page # Refused /\ page.lines = SubSeq(lines, first, end)
                  /\ page.end = end /\ page.truncated = (end < n)
    <2>1. PICK end : PageIs(page, lines, first, n, max, end)
      BY <1>2, <1>3, <1>5 DEF ViewIs
    <2>2. end \in first .. n
      <3>1. end \in first - 1 .. n /\ (first <= n /\ LineSize(lines[first]) <= max => end >= first)
        BY <2>1 DEF PageIs
      <3>2. LineSize(lines[first]) <= max
        BY <1>1, <1>3, <1>5
      <3> HIDE DEF n, first
      <3>3. QED
        BY <1>1, <1>3, <1>5, <3>1, <3>2
    <2>3. page = Page(n, first, end, SubSeq(lines, first, end), end < n)
      <3>1. page = Page(n, first, IF end <= n THEN end ELSE n, SubSeq(lines, first, end), end < n)
        BY <2>1 DEF PageIs
      <3>2. (IF end <= n THEN end ELSE n) = end
        BY <1>1, <1>3, <2>2
      <3>3. QED
        BY <3>1, <3>2, Zenon
    <2> DEFINE shown == SubSeq(lines, first, end)
               more == end < n
    <2>4. shown \in Seq(Seq(Chars)) /\ more \in BOOLEAN
      <3>1. \A i \in first .. end : lines[i] \in Seq(Chars)
        <4>1. \A i \in 1 .. n : lines[i] \in Seq(Chars)
          BY <1>1, ElementOfSeq
        <4> HIDE DEF n, first
        <4>2. QED
          BY <1>1, <1>3, <2>2, <4>1
      <3>2. first \in Int /\ end \in Int
        BY <1>1, <1>3, <2>2
      <3> HIDE DEF first
      <3>3. QED
        BY <3>1, <3>2, SubSeqProperties
    <2>5. page = Page(n, first, end, shown, more) /\ n \in Nat /\ first \in Nat /\ end \in Nat
      BY <1>1, <1>3, <2>2, <2>3
    <2> HIDE DEF shown, more, n, first
    <2>6. page \in Pages
      BY <2>4, <2>5 DEF Page, Pages
    <2>7. page.lines = shown /\ page.end = end /\ page.truncated = more
      BY <2>5, PageFields
    <2>8. page # Refused
      BY <2>6, OutcomesAssumption
    <2>9. QED
      BY <2>2, <2>7, <2>8 DEF shown, more
  <1>6. QED
    BY <1>2, <1>3, <1>4, <1>5 DEF ViewIs, Shows

\* If reading on after line s yields the rest of the file, so does reading on
\* from line s.
LEMMA OnwardIsRest ==
  ASSUME NEW t \in Seq(Chars), NEW max, NEW lines, lines = ScanLines(t),
         \A i \in 1 .. Len(lines) : LineSize(lines[i]) <= max,
         NEW s \in Nat, NEW rest, \A i \in s + 1 .. Len(lines) : rest[i] = Rest(lines, i)
  PROVE  Onward(t, max, rest, s) = Rest(lines, s)
  <1> DEFINE n == Len(lines)
             first == StartOf(s)
             page == ViewFile(t, s, 0, max)
  <1>1. lines \in Seq(Seq(Chars)) /\ n \in Nat
    <2>1. lines \in Seq(Seq(Chars))
      BY ScanLinesAre
    <2> QED
      BY <2>1, LenProperties
  <1>2. first \in Nat \ {0} /\ s <= first
    BY DEF StartOf
  <1>3. Rest(lines, s) = SubSeq(lines, first, n)
    BY DEF Rest
  <1>4. Onward(t, max, rest, s) = IF page = Refused THEN <<>>
                                  ELSE IF page.truncated /\ page.end >= s
                                  THEN page.lines \o rest[page.end + 1] ELSE page.lines
    BY Zenon DEF Onward
  <1>5. /\ n = 0 => page # Refused /\ page.lines = <<>> /\ page.truncated = FALSE
        /\ n # 0 /\ first > n => page = Refused
        /\ n # 0 /\ first <= n =>
              \E end \in first .. n :
                 /\ page # Refused /\ page.lines = SubSeq(lines, first, end)
                 /\ page.end = end /\ page.truncated = (end < n)
    <2>1. page = ViewFile(t, s, 0, max)
      OBVIOUS
    <2> HIDE DEF page
    <2>2. Shows(page, lines, StartOf(s))
      BY <2>1, OpenPage
    <2>3. QED
      BY <2>2 DEF Shows
  <1> HIDE DEF n, first, page
  <1>6. CASE n = 0 \/ first > n
    <2>1. SubSeq(lines, first, n) = <<>>
      BY <1>1, <1>2, <1>6, SubSeqEmpty
    <2>2. Onward(t, max, rest, s) = <<>>
      BY <1>2, <1>4, <1>5, <1>6
    <2>3. QED
      BY <1>3, <2>1, <2>2
  <1>7. CASE n # 0 /\ first <= n
    <2>1. PICK end \in first .. n :
             /\ page # Refused /\ page.lines = SubSeq(lines, first, end)
             /\ page.end = end /\ page.truncated = (end < n)
      BY <1>5, <1>7
    <2>2. end \in Nat /\ end >= s
      BY <1>1, <1>2, <2>1
    <2>3. CASE end < n
      <3>1. end + 1 \in s + 1 .. n /\ StartOf(end + 1) = end + 1
        BY <1>1, <2>2, <2>3 DEF StartOf
      <3>2. rest[end + 1] = SubSeq(lines, end + 1, n)
        BY <3>1 DEF Rest, n
      <3>3. Onward(t, max, rest, s) = SubSeq(lines, first, end) \o SubSeq(lines, end + 1, n)
        BY <1>4, <2>1, <2>2, <2>3, <3>2
      <3>4. SubSeq(lines, first, end) \o SubSeq(lines, end + 1, n) = SubSeq(lines, first, n)
        <4>1. lines \in Seq(Seq(Chars)) /\ first \in 1 .. Len(lines) + 1
              /\ end \in first - 1 .. Len(lines) /\ n \in end .. Len(lines)
          BY <1>1, <1>2, <2>1, <2>2 DEF n
        <4>2. QED
          BY <4>1, ConcatAdjacentSubSeq
      <3>5. QED
        BY <1>3, <3>3, <3>4
    <2>4. CASE end = n
      <3>1. Onward(t, max, rest, s) = SubSeq(lines, first, n)
        <4>1. ~ (end < n)
          BY <1>1, <2>4
        <4>2. QED
          BY <1>4, <2>1, <2>4, <4>1, Zenon
      <3>2. QED
        BY <1>3, <3>1
    <2>5. QED
      BY <1>1, <2>1, <2>3, <2>4
  <1>8. QED
    BY <1>1, <1>2, <1>6, <1>7

\* Read page by page, a file shows all its lines, for every file and every size
\* of the page that each line alone fits in.
THEOREM PagedIsAll ==
  ASSUME NEW t \in Seq(Chars), NEW max, NEW lines, lines = ScanLines(t),
         \A i \in 1 .. Len(lines) : LineSize(lines[i]) <= max
  PROVE  Paged(t, max) = lines
  <1> DEFINE n == Len(lines)
             from == CHOOSE f : f = [s \in Nat |-> Onward(t, max, f, s)]
             all == [s \in Nat |-> Rest(lines, s)]
  <1>1. lines \in Seq(Seq(Chars)) /\ n \in Nat
    <2>1. lines \in Seq(Seq(Chars))
      BY ScanLinesAre
    <2> QED
      BY <2>1, LenProperties
  <1>2. all = [s \in Nat |-> Onward(t, max, all, s)]
    <2>1. ASSUME NEW s \in Nat PROVE all[s] = Onward(t, max, all, s)
      <3>1. \A i \in s + 1 .. n : all[i] = Rest(lines, i)
        BY <1>1
      <3>2. all[s] = Rest(lines, s)
        OBVIOUS
      <3> HIDE DEF all
      <3>3. QED
        BY <3>1, <3>2, OnwardIsRest
    <2>2. all = [s \in Nat |-> all[s]]
      OBVIOUS
    <2> HIDE DEF all
    <2>3. QED
      BY <2>1, <2>2, Zenon
  <1>3. from = [s \in Nat |-> Onward(t, max, from, s)]
    <2> HIDE DEF all
    <2> QED
      BY <1>2, Zenon
  <1>4. Paged(t, max) = from[1]
    BY Zenon DEF Paged, Onward
  <1> HIDE DEF from, all
  <1>5. \A s \in Nat : from[s] = Onward(t, max, from, s)
    BY <1>3, Zenon
  <1> DEFINE S == {d \in Nat : \A s \in Nat : s + d > n => from[s] = Rest(lines, s)}
  <1>6. 0 \in S
    <2>1. ASSUME NEW s \in Nat, s > n PROVE from[s] = Rest(lines, s)
      <3>1. \A i \in s + 1 .. n : from[i] = Rest(lines, i)
        BY <1>1, <2>1
      <3>2. Onward(t, max, from, s) = Rest(lines, s)
        BY <3>1, OnwardIsRest
      <3>3. QED
        BY <1>5, <3>2
    <2>2. QED
      BY <1>1, <2>1
  <1>7. ASSUME NEW d \in Nat, d \in S PROVE d + 1 \in S
    <2>1. ASSUME NEW s \in Nat, s + (d + 1) > n PROVE from[s] = Rest(lines, s)
      <3>1. \A i \in s + 1 .. n : i \in Nat /\ i + d > n
        BY <1>1, <2>1
      <3>2. \A i \in s + 1 .. n : from[i] = Rest(lines, i)
        BY <1>7, <3>1
      <3>3. Onward(t, max, from, s) = Rest(lines, s)
        BY <3>2, OnwardIsRest
      <3>4. QED
        BY <1>5, <3>3
    <2>2. QED
      BY <2>1
  <1>8. Nat \subseteq S
    <2> HIDE DEF S
    <2> QED
      BY <1>6, <1>7, Induction, Zenon
  <1>9. from[1] = Rest(lines, 1)
    <2>1. n \in S
      BY <1>1, <1>8
    <2>2. QED
      BY <1>1, <2>1
  <1>10. Rest(lines, 1) = lines
    <2>1. StartOf(1) = 1
      BY DEF StartOf
    <2>2. QED
      BY <1>1, <2>1, SubSeqFull DEF Rest
  <1>11. QED
    BY <1>4, <1>9, <1>10

\* Reading on page by page shows every line, in every evaluation of the model.
THEOREM PagesCover == Spec => []PagesCoverFile
  <1>1. Init => PagesCoverFile
    BY DEF Init, PagesCoverFile, Done, NotYet
  <1>2. ASSUME TextOK, PagesCoverFile, [Next]_vars PROVE PagesCoverFile'
    <2>1. CASE View
      <3>1. PICK s \in Lines, e \in Lines, m \in {10, 12, 22, 25, 40} :
               call' = [done |-> TRUE, first |-> s, max |-> m, page |-> ViewFile(text, s, e, m)]
        BY <2>1 DEF View
      <3>2. call'.max = m /\ text' = text
        BY <2>1, <3>1 DEF View, Evaluates
      <3>3. ASSUME \A l \in Range(ScanLines(text)) : LineSize(l) <= m
            PROVE  Paged(text, m) = ScanLines(text)
        <4> DEFINE lines == ScanLines(text)
        <4>1. lines = ScanLines(text) /\ lines \in Seq(Seq(Chars))
          BY <1>2, ScanLinesAre DEF TextOK
        <4>2. \A l \in Range(lines) : LineSize(l) <= m
          BY <3>3
        <4> HIDE DEF lines
        <4>3. \A i \in 1 .. Len(lines) : lines[i] \in Range(lines)
          BY <4>1, LenProperties DEF Range
        <4>4. \A i \in 1 .. Len(lines) : LineSize(lines[i]) <= m
          BY <4>2, <4>3
        <4>5. Paged(text, m) = lines
          BY <1>2, <4>1, <4>4, PagedIsAll DEF TextOK
        <4>6. QED
          BY <4>1, <4>5
      <3>4. QED
        BY <3>2, <3>3, Zenon DEF PagesCoverFile
    <2>2. CASE Change \/ TailOf \/ Command \/ Connect \/ BootUp
      BY <2>2 DEF Change, TailOf, Command, Connect, BootUp, Evaluates, PagesCoverFile, Done
    <2>3. CASE UNCHANGED vars
      BY <1>2, <2>3 DEF vars, PagesCoverFile, Done
    <2>4. QED
      BY <1>2, <2>1, <2>2, <2>3 DEF Next
  <1>3. QED
    BY <1>1, <1>2, TextStays, PTL DEF Spec

=============================================================================
