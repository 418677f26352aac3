----------------------------- MODULE ReadingProofs -----------------------------
(***************************************************************************)
(* What holds of Reading for every library of documents, every reply of    *)
(* the model and all limits.  The folds of the model are library operators *)
(* with an operator for parameter, which no theorem can quantify over: for *)
(* each of them a lemma FoldOf... says what it computes step by step, and  *)
(* all else is proved from that.                                           *)
(***************************************************************************)
EXTENDS Reading, FoldTheorems

-----------------------------------------------------------------------------
(* Lines and chunks of a text.                                             *)

(* Lines of text, as far as chunking looks at them. *)
AreLines(L) == \A line \in L : line.chars \in Nat \ {0}

(* The sizes of the lines.                                                 *)
CharsOf(lines) == [i \in DOMAIN lines |-> lines[i].chars]

(* No lines, no characters.                                                *)
LEMMA CharsOfEmpty == Chars(<<>>) = 0
  <1> DEFINE f == [i \in DOMAIN <<>> |-> <<>>[i].chars]
  <1>1. DOMAIN f = {}
    OBVIOUS
  <1>2. IsFiniteSet({}) /\ \A x \in {} : f[x] \in Int
    BY FS_EmptySet
  <1> DEFINE none == {}
  <1>3. Sums(f, none)
    <2>1. IsFiniteSet(none) /\ \A x \in none : f[x] \in Int
      BY <1>2
    <2> HIDE DEF f, none
    <2>2. QED BY <2>1, SumProperties, Zenon
  <1>4. SumFunction(f) = 0
    BY <1>1, <1>3 DEF SumFunction, Sums
  <1>5. QED BY <1>4 DEF Chars

(* A line more adds its characters.                                        *)
LEMMA CharsOfAppend ==
    ASSUME NEW L, AreLines(L), NEW lines \in Seq(L), NEW line \in L
    PROVE  /\ Chars(lines) \in Nat
           /\ Chars(Append(lines, line))
                = Chars(lines) + line.chars + (IF lines = <<>> THEN 0 ELSE 1)
  <1> DEFINE n == Len(lines)
             more == Append(lines, line)
             f == CharsOf(lines)
             g == CharsOf(more)
  <1>1. /\ n \in Nat /\ DOMAIN lines = 1..n /\ more \in Seq(L) /\ Len(more) = n + 1
        /\ more[n + 1] = line /\ \A i \in 1..n : more[i] = lines[i]
    BY AppendProperties
  <1> HIDE DEF more
  <1>2. DOMAIN more = 1..(n + 1) /\ n + 1 \in 1..(n + 1)
    BY <1>1
  <1>3. DOMAIN f = 1..n /\ DOMAIN g = 1..(n + 1)
    BY <1>1, <1>2 DEF CharsOf
  <1>4. ASSUME NEW i \in 1..n PROVE i \in 1..(n + 1) /\ f[i] = lines[i].chars /\ g[i] = f[i] /\ f[i] \in Nat
    <2>1. i \in 1..(n + 1)
      BY <1>1
    <2>2. f[i] = lines[i].chars /\ g[i] = more[i].chars /\ lines[i] \in L
      BY <1>1, <1>2, <2>1 DEF CharsOf
    <2>3. QED BY <1>1, <2>1, <2>2 DEF AreLines
  <1>5. g[n + 1] = line.chars /\ line.chars \in Nat
    BY <1>1, <1>2 DEF CharsOf, AreLines
  <1> HIDE DEF f, g
  <1>6. IsFiniteSet(1..n) /\ IsFiniteSet(1..(n + 1))
    BY <1>1, FS_Interval
  <1>7. SumFunctionOnSet(f, 1..n) \in Nat
    <2>1. \A x \in 1..n : f[x] \in Nat
      BY <1>4
    <2>2. \A s \in SUBSET (1..n) : SumFunctionOnSet(f, s) \in Nat
      BY <1>6, <2>1, SumOfNumbers
    <2>3. QED BY <2>2
  <1>8. SumFunctionOnSet(g, 1..n) = SumFunctionOnSet(f, 1..n)
    <2>1. \A x \in 1..n : f[x] \in Int /\ g[x] = f[x]
      BY <1>4
    <2>2. 1..n \in SUBSET (1..n) /\ \A x \in (1..n) \ (1..n) : g[x] = 0
      OBVIOUS
    <2>3. QED BY <1>6, <2>1, <2>2, SumExtended, Zenon
  <1>9. SumFunctionOnSet(g, 1..(n + 1)) = line.chars + SumFunctionOnSet(g, 1..n)
    <2>1. \A x \in 1..(n + 1) : g[x] \in Int
      BY <1>1, <1>4, <1>5
    <2>2. Sums(g, 1..(n + 1))
      BY <1>6, <2>1, SumProperties, Zenon
    <2>3. SumFunctionOnSet(g, 1..(n + 1)) = g[n + 1] + SumFunctionOnSet(g, (1..(n + 1)) \ {n + 1})
      BY <1>2, <2>2 DEF Sums
    <2>4. (1..(n + 1)) \ {n + 1} = 1..n
      BY <1>1
    <2>5. QED BY <1>5, <2>3, <2>4
  <1>10. Chars(lines) = SumFunctionOnSet(f, 1..n) + (IF lines = <<>> THEN 0 ELSE n - 1)
    BY <1>3 DEF Chars, SumFunction, CharsOf, f
  <1>11. Chars(more) = SumFunctionOnSet(g, 1..(n + 1)) + n
    <2>1. more # <<>> /\ Len(more) - 1 = n
      BY <1>1
    <2>2. QED BY <1>3, <2>1 DEF Chars, SumFunction, CharsOf, g
  <1>12. lines = <<>> <=> n = 0
    OBVIOUS
  <1> HIDE DEF n
  <1>13. QED BY <1>1, <1>5, <1>7, <1>8, <1>9, <1>10, <1>11, <1>12 DEF more

(* A single line.                                                          *)
LEMMA CharsOfOne ==
    ASSUME NEW L, AreLines(L), NEW line \in L
    PROVE  Chars(<<line>>) = line.chars
  <1>1. <<>> \in Seq(L) /\ Append(<<>>, line) = <<line>> /\ line.chars \in Nat
    BY DEF AreLines
  <1>2. Chars(Append(<<>>, line)) = Chars(<<>>) + line.chars + (IF <<>> = <<>> THEN 0 ELSE 1)
    BY <1>1, CharsOfAppend, Zenon
  <1>3. QED BY <1>1, <1>2, CharsOfEmpty

-----------------------------------------------------------------------------
(* The text of a sequence of chunks.                                       *)
LinesOf(chunks) == FlattenSeq([i \in DOMAIN chunks |-> chunks[i].lines])

(* Chunks of at most that many characters, none of them empty. *)
ChunksUpTo(L, most) == {c \in [lines : Seq(L), chars : Nat] : c.lines # <<>> /\ c.chars <= most}

(* Chunks of any size.                                                     *)
ChunkSet(L) == [lines : Seq(L), chars : Nat]

(* A chunk more adds its lines.                                            *)
LEMMA LinesOfAppend ==
    ASSUME NEW L, NEW chunks \in Seq(ChunkSet(L)), NEW c \in ChunkSet(L)
    PROVE  LinesOf(chunks) \in Seq(L) /\ LinesOf(Append(chunks, c)) = LinesOf(chunks) \o c.lines
  <1> DEFINE A == Seq(L)
             parts == [i \in DOMAIN chunks |-> chunks[i].lines]
             more == Append(chunks, c)
             moreParts == [i \in DOMAIN more |-> more[i].lines]
  <1>1. c.lines \in A /\ \A x \in ChunkSet(L) : x.lines \in A
    BY DEF ChunkSet
  <1>2. parts \in Seq(A)
    <2>1. \A i \in DOMAIN chunks : chunks[i].lines \in A
      BY <1>1
    <2> HIDE DEF A
    <2>2. QED BY <2>1
  <1>3. moreParts = Append(parts, c.lines)
    <2> HIDE DEF A
    <2>1. /\ more \in Seq(ChunkSet(L)) /\ Len(more) = Len(chunks) + 1 /\ more[Len(chunks) + 1] = c
          /\ \A i \in 1..Len(chunks) : more[i] = chunks[i]
      BY AppendProperties
    <2>2. Len(parts) = Len(chunks) /\ DOMAIN parts = 1..Len(chunks) /\ Len(chunks) \in Nat
      BY <1>2
    <2>3. moreParts \in Seq(A) /\ Len(moreParts) = Len(chunks) + 1
      <3> HIDE DEF more
      <3>1. \A i \in DOMAIN more : more[i].lines \in A
        BY <1>1, <2>1
      <3>2. QED BY <2>1, <3>1
    <2>4. Append(parts, c.lines) \in Seq(A) /\ Len(Append(parts, c.lines)) = Len(chunks) + 1
      BY <1>1, <1>2, <2>2
    <2>5. ASSUME NEW i \in 1..(Len(chunks) + 1) PROVE moreParts[i] = Append(parts, c.lines)[i]
      <3>1. moreParts[i] = more[i].lines
        <4> HIDE DEF more
        <4>1. QED BY <2>1
      <3>2. CASE i = Len(chunks) + 1
        <4>1. Append(parts, c.lines)[Len(parts) + 1] = c.lines
          BY <1>1, <1>2, AppendProperties
        <4>2. QED BY <2>1, <2>2, <3>1, <3>2, <4>1
      <3>3. CASE i # Len(chunks) + 1
        <4>1. i \in 1..Len(chunks)
          BY <2>2, <3>3
        <4>2. Append(parts, c.lines)[i] = parts[i]
          BY <1>1, <1>2, <2>2, <4>1, AppendProperties
        <4>3. parts[i] = chunks[i].lines
          BY <2>2, <4>1
        <4>4. QED BY <2>1, <3>1, <4>1, <4>2, <4>3
      <3>4. QED BY <3>2, <3>3
    <2> HIDE DEF parts, moreParts
    <2>6. QED BY <2>3, <2>4, <2>5, SeqEqual
  <1>4. FlattenSeq(parts) \in Seq(L)
    BY <1>2, FlattenIsSeq
  <1>5. FlattenSeq(Append(parts, c.lines)) = FlattenSeq(parts) \o c.lines
    BY <1>1, <1>2, FlattenOfAppend
  <1> HIDE DEF A
  <1>6. QED BY <1>3, <1>4, <1>5 DEF LinesOf

\* What Placed makes of a sequence, element by element.
PlacedFold(A, base, seq, result) ==
    \E acc \in [0..Len(seq) -> A] :
        /\ acc[0] = base
        /\ \A i \in 1..Len(seq) : acc[i] = Placed(acc[i - 1], seq[i])
        /\ result = acc[Len(seq)]

(* The fold of SplitText.                                                  *)
LEMMA FoldOfPlaced ==
    ASSUME NEW X, NEW seq \in Seq(X), NEW A, NEW base \in A,
           \A a \in A, x \in X : Placed(a, x) \in A
    PROVE  PlacedFold(A, base, seq, FoldLeft(Placed, base, seq))
  <1> DEFINE step == [p \in A \X X |-> Placed(p[1], p[2])]
             Folds(it) == it = [s \in SUBSET DOMAIN seq |->
                                  IF s = {} THEN base ELSE Placed(it[s \ {Max(s)}], seq[Max(s)])]
             chosen == CHOOSE it : Folds(it)
  <1>1. step \in [A \X X -> A] /\ \A a \in A, x \in X : step[<<a, x>>] = Placed(a, x)
    OBVIOUS
  <1>2. FoldLeft(Placed, base, seq) = chosen[DOMAIN seq]
    BY DEF FoldLeft, MapThenFoldSet
  <1> HIDE DEF step
  <1>3. PICK iter \in [SUBSET DOMAIN seq -> A] : FoldsLeft(seq, step, base, iter)
    BY <1>1, FoldLeftExists
  <1>4. \A s \in SUBSET DOMAIN seq : s # {} => Max(s) \in s /\ seq[Max(s)] \in X
    BY LastPlace
  <1>5. Folds(iter)
    <2>1. ASSUME NEW s \in SUBSET DOMAIN seq, s # {}
          PROVE  iter[s] = Placed(iter[s \ {Max(s)}], seq[Max(s)])
      <3>1. iter[s] = step[<<iter[s \ {Max(s)}], seq[Max(s)]>>]
        BY <1>3, <2>1 DEF FoldsLeft
      <3>2. iter[s \ {Max(s)}] \in A /\ seq[Max(s)] \in X
        BY <1>4, <2>1
      <3>3. QED BY <1>1, <3>1, <3>2
    <2>2. iter[{}] = base
      BY <1>3 DEF FoldsLeft
    <2>3. QED BY <2>1, <2>2
  <1>6. Folds(chosen)
    BY <1>5
  <1> HIDE DEF chosen
  <1>7. FoldsLeftIn(A, seq, step, base, chosen)
    <2>1. chosen[{}] = base
      BY <1>6
    <2>2. ASSUME NEW s \in SUBSET DOMAIN seq, s # {}, chosen[s \ {Max(s)}] \in A
          PROVE  chosen[s] = step[<<chosen[s \ {Max(s)}], seq[Max(s)]>>]
      <3>1. chosen[s] = Placed(chosen[s \ {Max(s)}], seq[Max(s)])
        BY <1>6, <2>2
      <3>2. QED BY <1>1, <1>4, <2>2, <3>1
    <2>3. QED BY <2>1, <2>2 DEF FoldsLeftIn
  <1>8. Accumulated(A, seq, step, base, chosen[DOMAIN seq])
    BY <1>1, <1>7, FoldLeftAccumulates, Zenon
  <1>9. PICK acc \in [0..Len(seq) -> A] : Accumulates(seq, step, base, acc) /\ chosen[DOMAIN seq] = acc[Len(seq)]
    BY <1>8 DEF Accumulated
  <1>10. ASSUME NEW i \in 1..Len(seq)
         PROVE  acc[i] = Placed(acc[i - 1], seq[i])
    <2>1. acc[i - 1] \in A /\ seq[i] \in X
      OBVIOUS
    <2>2. acc[i] = step[<<acc[i - 1], seq[i]>>]
      BY <1>9 DEF Accumulates
    <2>3. QED BY <1>1, <2>1, <2>2
  <1>11. QED BY <1>2, <1>9, <1>10 DEF Accumulates, PlacedFold

\* What Packed makes of a sequence, element by element.
PackedFold(A, base, seq, result) ==
    \E acc \in [0..Len(seq) -> A] :
        /\ acc[0] = base
        /\ \A i \in 1..Len(seq) : acc[i] = Packed(acc[i - 1], seq[i])
        /\ result = acc[Len(seq)]

(* The fold of packing.                                                    *)
LEMMA FoldOfPacked ==
    ASSUME NEW X, NEW seq \in Seq(X), NEW A, NEW base \in A,
           \A a \in A, x \in X : Packed(a, x) \in A
    PROVE  PackedFold(A, base, seq, FoldLeft(Packed, base, seq))
  <1> DEFINE step == [p \in A \X X |-> Packed(p[1], p[2])]
             Folds(it) == it = [s \in SUBSET DOMAIN seq |->
                                  IF s = {} THEN base ELSE Packed(it[s \ {Max(s)}], seq[Max(s)])]
             chosen == CHOOSE it : Folds(it)
  <1>1. step \in [A \X X -> A] /\ \A a \in A, x \in X : step[<<a, x>>] = Packed(a, x)
    OBVIOUS
  <1>2. FoldLeft(Packed, base, seq) = chosen[DOMAIN seq]
    BY DEF FoldLeft, MapThenFoldSet
  <1> HIDE DEF step
  <1>3. PICK iter \in [SUBSET DOMAIN seq -> A] : FoldsLeft(seq, step, base, iter)
    BY <1>1, FoldLeftExists
  <1>4. \A s \in SUBSET DOMAIN seq : s # {} => Max(s) \in s /\ seq[Max(s)] \in X
    BY LastPlace
  <1>5. Folds(iter)
    <2>1. ASSUME NEW s \in SUBSET DOMAIN seq, s # {}
          PROVE  iter[s] = Packed(iter[s \ {Max(s)}], seq[Max(s)])
      <3>1. iter[s] = step[<<iter[s \ {Max(s)}], seq[Max(s)]>>]
        BY <1>3, <2>1 DEF FoldsLeft
      <3>2. iter[s \ {Max(s)}] \in A /\ seq[Max(s)] \in X
        BY <1>4, <2>1
      <3>3. QED BY <1>1, <3>1, <3>2
    <2>2. iter[{}] = base
      BY <1>3 DEF FoldsLeft
    <2>3. QED BY <2>1, <2>2
  <1>6. Folds(chosen)
    BY <1>5
  <1> HIDE DEF chosen
  <1>7. FoldsLeftIn(A, seq, step, base, chosen)
    <2>1. chosen[{}] = base
      BY <1>6
    <2>2. ASSUME NEW s \in SUBSET DOMAIN seq, s # {}, chosen[s \ {Max(s)}] \in A
          PROVE  chosen[s] = step[<<chosen[s \ {Max(s)}], seq[Max(s)]>>]
      <3>1. chosen[s] = Packed(chosen[s \ {Max(s)}], seq[Max(s)])
        BY <1>6, <2>2
      <3>2. QED BY <1>1, <1>4, <2>2, <3>1
    <2>3. QED BY <2>1, <2>2 DEF FoldsLeftIn
  <1>8. Accumulated(A, seq, step, base, chosen[DOMAIN seq])
    BY <1>1, <1>7, FoldLeftAccumulates, Zenon
  <1>9. PICK acc \in [0..Len(seq) -> A] : Accumulates(seq, step, base, acc) /\ chosen[DOMAIN seq] = acc[Len(seq)]
    BY <1>8 DEF Accumulated
  <1>10. ASSUME NEW i \in 1..Len(seq)
         PROVE  acc[i] = Packed(acc[i - 1], seq[i])
    <2>1. acc[i - 1] \in A /\ seq[i] \in X
      OBVIOUS
    <2>2. acc[i] = step[<<acc[i - 1], seq[i]>>]
      BY <1>9 DEF Accumulates
    <2>3. QED BY <1>1, <2>1, <2>2
  <1>11. QED BY <1>2, <1>9, <1>10 DEF Accumulates, PackedFold

\* What Merged makes of a sequence, element by element.
MergedFold(A, base, seq, result) ==
    \E acc \in [0..Len(seq) -> A] :
        /\ acc[0] = base
        /\ \A i \in 1..Len(seq) : acc[i] = Merged(acc[i - 1], seq[i])
        /\ result = acc[Len(seq)]

(* The fold of merging.                                                    *)
LEMMA FoldOfMerged ==
    ASSUME NEW X, NEW seq \in Seq(X), NEW A, NEW base \in A,
           \A a \in A, x \in X : Merged(a, x) \in A
    PROVE  MergedFold(A, base, seq, FoldLeft(Merged, base, seq))
  <1> DEFINE step == [p \in A \X X |-> Merged(p[1], p[2])]
             Folds(it) == it = [s \in SUBSET DOMAIN seq |->
                                  IF s = {} THEN base ELSE Merged(it[s \ {Max(s)}], seq[Max(s)])]
             chosen == CHOOSE it : Folds(it)
  <1>1. step \in [A \X X -> A] /\ \A a \in A, x \in X : step[<<a, x>>] = Merged(a, x)
    OBVIOUS
  <1>2. FoldLeft(Merged, base, seq) = chosen[DOMAIN seq]
    BY DEF FoldLeft, MapThenFoldSet
  <1> HIDE DEF step
  <1>3. PICK iter \in [SUBSET DOMAIN seq -> A] : FoldsLeft(seq, step, base, iter)
    BY <1>1, FoldLeftExists
  <1>4. \A s \in SUBSET DOMAIN seq : s # {} => Max(s) \in s /\ seq[Max(s)] \in X
    BY LastPlace
  <1>5. Folds(iter)
    <2>1. ASSUME NEW s \in SUBSET DOMAIN seq, s # {}
          PROVE  iter[s] = Merged(iter[s \ {Max(s)}], seq[Max(s)])
      <3>1. iter[s] = step[<<iter[s \ {Max(s)}], seq[Max(s)]>>]
        BY <1>3, <2>1 DEF FoldsLeft
      <3>2. iter[s \ {Max(s)}] \in A /\ seq[Max(s)] \in X
        BY <1>4, <2>1
      <3>3. QED BY <1>1, <3>1, <3>2
    <2>2. iter[{}] = base
      BY <1>3 DEF FoldsLeft
    <2>3. QED BY <2>1, <2>2
  <1>6. Folds(chosen)
    BY <1>5
  <1> HIDE DEF chosen
  <1>7. FoldsLeftIn(A, seq, step, base, chosen)
    <2>1. chosen[{}] = base
      BY <1>6
    <2>2. ASSUME NEW s \in SUBSET DOMAIN seq, s # {}, chosen[s \ {Max(s)}] \in A
          PROVE  chosen[s] = step[<<chosen[s \ {Max(s)}], seq[Max(s)]>>]
      <3>1. chosen[s] = Merged(chosen[s \ {Max(s)}], seq[Max(s)])
        BY <1>6, <2>2
      <3>2. QED BY <1>1, <1>4, <2>2, <3>1
    <2>3. QED BY <2>1, <2>2 DEF FoldsLeftIn
  <1>8. Accumulated(A, seq, step, base, chosen[DOMAIN seq])
    BY <1>1, <1>7, FoldLeftAccumulates, Zenon
  <1>9. PICK acc \in [0..Len(seq) -> A] : Accumulates(seq, step, base, acc) /\ chosen[DOMAIN seq] = acc[Len(seq)]
    BY <1>8 DEF Accumulated
  <1>10. ASSUME NEW i \in 1..Len(seq)
         PROVE  acc[i] = Merged(acc[i - 1], seq[i])
    <2>1. acc[i - 1] \in A /\ seq[i] \in X
      OBVIOUS
    <2>2. acc[i] = step[<<acc[i - 1], seq[i]>>]
      BY <1>9 DEF Accumulates
    <2>3. QED BY <1>1, <2>1, <2>2
  <1>11. QED BY <1>2, <1>9, <1>10 DEF Accumulates, MergedFold

(* A sequence is its front and its last element.                           *)
LEMMA FrontAndLast ==
    ASSUME NEW X, NEW s \in Seq(X), s # <<>>
    PROVE  Front(s) \in Seq(X) /\ Last(s) \in X /\ s = Append(Front(s), Last(s))
  <1> DEFINE n == Len(s)
  <1>1. n \in Nat \ {0} /\ DOMAIN s = 1..n /\ \A i \in 1..n : s[i] \in X
    OBVIOUS
  <1>2. Last(s) \in X
    BY <1>1 DEF Last
  <1>3. \A i \in 1..(n - 1) : s[i] \in X
    BY <1>1
  <1>4. /\ Front(s) \in Seq(X) /\ Len(Front(s)) = n - 1
        /\ \A i \in 1..(n - 1) : Front(s)[i] = s[i]
    <2>1. /\ SubSeq(s, 1, n - 1) \in Seq(X)
          /\ Len(SubSeq(s, 1, n - 1)) = IF 1 <= n - 1 THEN (n - 1) - 1 + 1 ELSE 0
          /\ \A i \in 1..((n - 1) - 1 + 1) : SubSeq(s, 1, n - 1)[i] = s[1 + i - 1]
      BY <1>1, <1>3, SubSeqProperties
    <2>2. QED BY <1>1, <2>1 DEF Front
  <1> DEFINE more == Append(Front(s), Last(s))
  <1>5. /\ more \in Seq(X) /\ Len(more) = n /\ more[n] = s[n]
        /\ \A i \in 1..(n - 1) : more[i] = s[i]
    <2>1. /\ more \in Seq(X) /\ Len(more) = Len(Front(s)) + 1
          /\ more[Len(Front(s)) + 1] = Last(s)
          /\ \A i \in 1..Len(Front(s)) : more[i] = Front(s)[i]
      BY <1>2, <1>4, AppendProperties
    <2>2. QED BY <1>1, <1>4, <2>1 DEF Last
  <1> HIDE DEF more
  <1>6. \A i \in 1..n : s[i] = more[i]
    BY <1>1, <1>5
  <1>7. s = more
    BY <1>5, <1>6, SeqEqual
  <1>8. QED BY <1>2, <1>4, <1>7 DEF more

(* A prefix that is one longer has one element more.                       *)
LEMMA PrefixGrows ==
    ASSUME NEW X, NEW s \in Seq(X)
    PROVE  /\ SubSeq(s, 1, 0) = <<>> /\ SubSeq(s, 1, Len(s)) = s
           /\ \A i \in 0..Len(s) : SubSeq(s, 1, i) \in Seq(X) /\ Len(SubSeq(s, 1, i)) = i
           /\ \A i \in 1..Len(s) : SubSeq(s, 1, i) = Append(SubSeq(s, 1, i - 1), s[i])
  <1>1. SubSeq(s, 1, 0) = <<>> /\ SubSeq(s, 1, Len(s)) = s
    BY SubSeqEmpty, SubSeqFull
  <1>2. ASSUME NEW i \in 0..Len(s)
        PROVE  SubSeq(s, 1, i) \in Seq(X) /\ Len(SubSeq(s, 1, i)) = i
    <2>1. i \in Int /\ \A j \in 1..i : s[j] \in X
      OBVIOUS
    <2>2. /\ SubSeq(s, 1, i) \in Seq(X)
          /\ Len(SubSeq(s, 1, i)) = IF 1 <= i THEN i - 1 + 1 ELSE 0
      BY <2>1, SubSeqProperties
    <2>3. QED BY <2>1, <2>2
  <1>3. ASSUME NEW i \in 1..Len(s)
        PROVE  SubSeq(s, 1, i) = Append(SubSeq(s, 1, i - 1), s[i])
    <2>1. 1 \in 1..Len(s) /\ i \in 1..Len(s) /\ i - 1 \in 0..Len(s) /\ s[i] \in X
      OBVIOUS
    <2>2. SubSeq(s, 1, i) = SubSeq(s, 1, i - 1) \o <<s[i]>>
      BY <2>1, SubSeqRecursiveSecond
    <2>3. Append(SubSeq(s, 1, i - 1), s[i]) = SubSeq(s, 1, i - 1) \o <<s[i]>>
      <3>1. SubSeq(s, 1, i - 1) \in Seq(X)
        BY <1>2, <2>1
      <3>2. QED BY <2>1, <3>1, AppendIsConcat
    <2>4. QED BY <2>2, <2>3
  <1>4. QED BY <1>1, <1>2, <1>3

(* Placing a line neither loses nor moves another.                         *)
LEMMA PlacedAddsALine ==
    ASSUME NEW L, NEW raw \in Seq(Seq(L) \ {<<>>}), NEW line \in L
    PROVE  /\ Placed(raw, line) \in Seq(Seq(L) \ {<<>>})
           /\ FlattenSeq(Placed(raw, line)) = Append(FlattenSeq(raw), line)
  <1> DEFINE A == Seq(L)
             N == A \ {<<>>}
  <1>1. <<line>> \in N /\ <<line>> \in A /\ N \subseteq A
    OBVIOUS
  <1>2. \A s \in A : Append(s, line) \in N /\ Append(s, line) = s \o <<line>>
    BY AppendIsConcat
  <1>3. raw \in Seq(N) /\ raw \in Seq(A)
    BY <1>1, SeqMonotonic
  <1>4. FlattenSeq(raw) \in A
    BY <1>3, FlattenIsSeq
  <1>5. CASE line.head \/ raw = <<>>
    <2>1. Placed(raw, line) = Append(raw, <<line>>)
      BY <1>5 DEF Placed
    <2>2. FlattenSeq(Append(raw, <<line>>)) = FlattenSeq(raw) \o <<line>>
      BY <1>1, <1>3, FlattenOfAppend
    <2>3. Append(raw, <<line>>) \in Seq(N)
      <3> HIDE DEF N, A
      <3>1. QED BY <1>1, <1>3
    <2>4. QED BY <1>2, <1>4, <2>1, <2>2, <2>3
  <1>6. CASE ~(line.head \/ raw = <<>>)
    <2> DEFINE front == Front(raw)
               last == Last(raw)
    <2>1. front \in Seq(N) /\ last \in N /\ raw = Append(front, last)
      BY <1>3, <1>6, FrontAndLast
    <2>2. Placed(raw, line) = Append(front, Append(last, line))
      BY <1>6 DEF Placed
    <2> HIDE DEF front, last
    <2>3. front \in Seq(A) /\ last \in A /\ Append(last, line) \in N
      BY <1>1, <1>2, <2>1, SeqMonotonic
    <2>4. Append(front, Append(last, line)) \in Seq(N)
      <3> HIDE DEF N, A
      <3>1. QED BY <2>1, <2>3
    <2> DEFINE u == FlattenSeq(front)
               w == <<line>>
    <2>5. u \in A /\ w \in A
      BY <1>1, <2>3, FlattenIsSeq
    <2>6. FlattenSeq(raw) = u \o last
      BY <2>1, <2>3, FlattenOfAppend
    <2>7. FlattenSeq(Append(front, Append(last, line))) = u \o (last \o w)
      <3>1. FlattenSeq(Append(front, Append(last, line))) = u \o Append(last, line)
        BY <1>1, <2>3, FlattenOfAppend
      <3>2. QED BY <1>2, <2>3, <3>1
    <2>8. Append(FlattenSeq(raw), line) = FlattenSeq(raw) \o w
      BY <1>2, <1>4
    <2> HIDE DEF u, w
    <2>9. (u \o last) \o w = u \o (last \o w)
      <3> DEFINE Associate(x, y, z) == (x \o y) \o z = x \o (y \o z)
      <3>1. ASSUME NEW x \in A, NEW y \in A, NEW z \in A PROVE Associate(x, y, z)
        BY ConcatAssociates
      <3> HIDE DEF A, Associate
      <3>2. Associate(u, last, w)
        BY <2>3, <2>5, <3>1
      <3>3. QED BY <3>2, Zenon DEF Associate
    <2>10. QED BY <2>2, <2>4, <2>6, <2>7, <2>8, <2>9
  <1>7. QED BY <1>5, <1>6

(* Splitting a text at its headings keeps its lines.                       *)
LEMMA SplitKeepsTheText ==
    ASSUME NEW L, NEW text \in Seq(L)
    PROVE  \E raw \in Seq(Seq(L) \ {<<>>}) :
              /\ SplitOnBoundaries(text) = [i \in DOMAIN raw |-> ChunkOf(raw[i])]
              /\ FlattenSeq(raw) = text
  <1> DEFINE A == Seq(Seq(L) \ {<<>>})
             raw == FoldLeft(Placed, <<>>, text)
  <1>1. <<>> \in A /\ \A a \in A, line \in L : Placed(a, line) \in A
    BY PlacedAddsALine
  <1> HIDE DEF A
  <1>2. PICK acc \in [0..Len(text) -> A] :
              /\ acc[0] = <<>>
              /\ \A i \in 1..Len(text) : acc[i] = Placed(acc[i - 1], text[i])
              /\ raw = acc[Len(text)]
    <2> DEFINE base == <<>>
    <2>1. base \in A
      BY <1>1
    <2> HIDE DEF base
    <2>2. PlacedFold(A, base, text, FoldLeft(Placed, base, text))
      BY <1>1, <2>1, FoldOfPlaced, Zenon
    <2>3. QED BY <2>2 DEF PlacedFold, base
  <1> HIDE DEF raw
  <1> DEFINE good == {i \in 0..Len(text) : FlattenSeq(acc[i]) = SubSeq(text, 1, i)}
  <1>3. 0 \in good
    <2>1. acc[0] = <<>> /\ SubSeq(text, 1, 0) = <<>> /\ 0 \in 0..Len(text)
      BY <1>2, PrefixGrows
    <2>2. QED BY <2>1, FlattenOfEmpty
  <1>4. ASSUME NEW i \in 1..Len(text), i - 1 \in good PROVE i \in good
    <2>1. i \in 0..Len(text) /\ i - 1 \in 0..Len(text) /\ text[i] \in L
      OBVIOUS
    <2>2. acc[i - 1] \in A /\ acc[i] = Placed(acc[i - 1], text[i])
      BY <1>2, <2>1
    <2>3. FlattenSeq(acc[i]) = Append(FlattenSeq(acc[i - 1]), text[i])
      BY <2>1, <2>2, PlacedAddsALine DEF A
    <2>4. FlattenSeq(acc[i - 1]) = SubSeq(text, 1, i - 1)
      BY <1>4
    <2>5. SubSeq(text, 1, i) = Append(SubSeq(text, 1, i - 1), text[i])
      BY PrefixGrows
    <2>6. QED BY <2>1, <2>3, <2>4, <2>5
  <1>5. Len(text) \in good
    <2> DEFINE n == Len(text)
    <2>1. n \in Nat /\ n \in 0..n
      OBVIOUS
    <2>2. 0 \in good /\ \A i \in 1..n : i - 1 \in good => i \in good
      BY <1>3, <1>4
    <2> HIDE DEF good, n
    <2>3. \A i \in 0..n : i \in good
      BY <2>1, <2>2, CountingUp
    <2>4. QED BY <2>1, <2>3 DEF n
  <1>6. FlattenSeq(raw) = text
    BY <1>2, <1>5, PrefixGrows
  <1>7. raw \in A
    <2>1. Len(text) \in 0..Len(text)
      OBVIOUS
    <2>2. QED BY <1>2, <2>1
  <1>8. SplitOnBoundaries(text) = [i \in DOMAIN raw |-> ChunkOf(raw[i])]
    BY DEF SplitOnBoundaries, raw
  <1>9. QED BY <1>6, <1>7, <1>8 DEF A

(* No chunks, no lines.                                                    *)
LEMMA LinesOfEmpty == LinesOf(<<>>) = <<>>
  <1>1. [i \in DOMAIN <<>> |-> <<>>[i].lines] = <<>>
    OBVIOUS
  <1>2. QED BY <1>1, FlattenOfEmpty DEF LinesOf

(* No chunk of a split text is empty.                                      *)
LEMMA SplitGivesChunks ==
    ASSUME NEW L, AreLines(L), NEW text \in Seq(L)
    PROVE  /\ SplitOnBoundaries(text) \in Seq(ChunkSet(L))
           /\ LinesOf(SplitOnBoundaries(text)) = text
           /\ \A i \in DOMAIN SplitOnBoundaries(text) : SplitOnBoundaries(text)[i].lines # <<>>
  <1> DEFINE N == Seq(L) \ {<<>>}
             split == SplitOnBoundaries(text)
  <1>1. PICK raw \in Seq(N) : split = [i \in DOMAIN raw |-> ChunkOf(raw[i])] /\ FlattenSeq(raw) = text
    BY SplitKeepsTheText
  <1>2. DOMAIN raw = 1..Len(raw) /\ Len(raw) \in Nat
    OBVIOUS
  <1>3. ASSUME NEW s \in N
        PROVE  ChunkOf(s) \in ChunkSet(L) /\ ChunkOf(s).lines = s /\ s # <<>>
    <2>1. Chars(s) \in Nat
      <3>1. CASE L = {}
        <4>1. s = <<>>
          BY <3>1
        <4>2. QED BY <4>1
      <3>2. CASE L # {}
        BY <3>2, CharsOfAppend
      <3>3. QED BY <3>1, <3>2
    <2>2. QED BY <2>1 DEF ChunkOf, ChunkSet
  <1>4. \A i \in DOMAIN raw : raw[i] \in N
    <2> HIDE DEF N
    <2>1. QED OBVIOUS
  <1> HIDE DEF split, N
  <1>5. DOMAIN split = DOMAIN raw /\ \A i \in DOMAIN raw : split[i] = ChunkOf(raw[i])
    BY <1>1
  <1>6. split \in Seq(ChunkSet(L))
    BY <1>1, <1>2, <1>3, <1>4
  <1>7. [i \in DOMAIN split |-> split[i].lines] = raw
    <2>1. [i \in DOMAIN split |-> split[i].lines] = [i \in DOMAIN raw |-> raw[i]]
      BY <1>3, <1>4, <1>5
    <2>2. QED BY <2>1
  <1>8. LinesOf(split) = text
    BY <1>1, <1>7 DEF LinesOf
  <1>9. QED BY <1>3, <1>4, <1>5, <1>6, <1>8 DEF split

-----------------------------------------------------------------------------
(* Packing: at most "most" characters a piece, where no line is longer and *)
(* MaxChars is not.                                                        *)

(* Lines of which none is longer than that.                                *)
AreLinesUpTo(L, most) ==
    /\ AreLines(L) /\ most \in Nat /\ MaxChars <= most
    /\ \A line \in L : line.chars <= most

(* What packing has got to.                                                *)
Packings(L, most) ==
    {st \in [pieces : Seq(ChunksUpTo(L, most)), current : Seq(L)] : Chars(st.current) <= most}

(* Its lines.                                                              *)
PackedText(st) == LinesOf(st.pieces) \o st.current

(* Chunks of a bounded size are chunks.                                    *)
LEMMA ChunksAreChunks ==
    ASSUME NEW L, NEW most, NEW chunks \in Seq(ChunksUpTo(L, most))
    PROVE  chunks \in Seq(ChunkSet(L)) /\ (L # {} => LinesOf(chunks) \in Seq(L))
  <1>1. ChunksUpTo(L, most) \subseteq ChunkSet(L)
    BY DEF ChunksUpTo, ChunkSet
  <1>2. chunks \in Seq(ChunkSet(L))
    BY <1>1, SeqMonotonic
  <1>3. ASSUME L # {} PROVE LinesOf(chunks) \in Seq(L)
    <2>1. [lines |-> <<>>, chars |-> 0] \in ChunkSet(L)
      BY DEF ChunkSet
    <2>2. QED BY <1>2, <2>1, LinesOfAppend
  <1>4. QED BY <1>2, <1>3

(* The fields of a packing.                                                *)
LEMMA PackingsAre ==
    ASSUME NEW L, NEW most, NEW pieces \in Seq(ChunksUpTo(L, most)), NEW current \in Seq(L),
           Chars(current) <= most
    PROVE  [pieces |-> pieces, current |-> current] \in Packings(L, most)
  <1> DEFINE P == Seq(ChunksUpTo(L, most))
             S == Seq(L)
             st == [pieces |-> pieces, current |-> current]
  <1>1. pieces \in P /\ current \in S
    OBVIOUS
  <1> HIDE DEF P, S
  <1>2. st \in [pieces : P, current : S] /\ st.current = current
    BY <1>1
  <1> HIDE DEF st
  <1>3. QED BY <1>2 DEF Packings, P, S, st

(* Packing one more line keeps the text and the bound.                     *)
LEMMA PackedAddsALine ==
    ASSUME NEW L, NEW most, AreLinesUpTo(L, most), NEW st \in Packings(L, most), NEW line \in L
    PROVE  /\ Packed(st, line) \in Packings(L, most)
           /\ PackedText(Packed(st, line)) = Append(PackedText(st), line)
  <1> DEFINE C == ChunksUpTo(L, most)
             pieces == st.pieces
             current == st.current
             u == LinesOf(pieces)
             w == <<line>>
  <1>1. /\ pieces \in Seq(C) /\ current \in Seq(L) /\ Chars(current) <= most
        /\ pieces \in Seq(ChunkSet(L)) /\ u \in Seq(L) /\ w \in Seq(L)
    <2>1. pieces \in Seq(C) /\ current \in Seq(L) /\ Chars(current) <= most
      BY DEF Packings
    <2>2. QED BY <2>1, ChunksAreChunks
  <1>2. AreLines(L) /\ line.chars \in Nat /\ line.chars <= most /\ MaxChars <= most /\ most \in Nat /\ MaxChars \in Nat
    BY ChunkingAssumption DEF AreLinesUpTo, AreLines
  <1>3. \A s \in Seq(L) : Append(s, line) = s \o w
    BY AppendIsConcat
  <1>4. u \o current \in Seq(L)
    BY <1>1, ConcatProperties
  <1>5. CASE current # <<>> /\ Chars(current) + line.chars + 1 > MaxChars
    <2>1. Packed(st, line) = [pieces |-> Append(pieces, ChunkOf(current)), current |-> w]
      BY <1>5 DEF Packed
    <2>2. ChunkOf(current) \in C /\ ChunkOf(current) \in ChunkSet(L) /\ ChunkOf(current).lines = current
      <3>1. Chars(current) \in Nat
        BY <1>1, <1>2, CharsOfAppend
      <3>2. QED BY <1>1, <1>5, <3>1 DEF ChunkOf, ChunkSet, ChunksUpTo
    <2>3. Chars(w) <= most
      BY <1>2, CharsOfOne
    <2>4. Packed(st, line) \in Packings(L, most)
      <3>1. Append(pieces, ChunkOf(current)) \in Seq(C)
        <4> HIDE DEF C, pieces
        <4>1. QED BY <1>1, <2>2
      <3>2. QED BY <1>1, <2>1, <2>3, <3>1, PackingsAre, Zenon
    <2>5. LinesOf(Append(pieces, ChunkOf(current))) = u \o current
      BY <1>1, <2>2, LinesOfAppend
    <2>6. PackedText(Packed(st, line)) = (u \o current) \o w
      <3>1. Packed(st, line).pieces = Append(pieces, ChunkOf(current)) /\ Packed(st, line).current = w
        BY <2>1
      <3> HIDE DEF u, w, current
      <3>2. QED BY <2>5, <3>1 DEF PackedText
    <2>7. PackedText(st) = u \o current
      BY DEF PackedText
    <2>8. QED BY <1>3, <1>4, <2>4, <2>6, <2>7
  <1>6. CASE ~(current # <<>> /\ Chars(current) + line.chars + 1 > MaxChars)
    <2>1. Packed(st, line) = [pieces |-> pieces, current |-> Append(current, line)]
      BY <1>6 DEF Packed, Packings
    <2>2. Chars(Append(current, line)) <= most
      <3>1. /\ Chars(current) \in Nat
            /\ Chars(Append(current, line)) = Chars(current) + line.chars + (IF current = <<>> THEN 0 ELSE 1)
        BY <1>1, <1>2, CharsOfAppend
      <3>2. CASE current = <<>>
        <4>1. Chars(current) = 0
          BY <3>2, CharsOfEmpty
        <4>2. QED BY <1>2, <3>1, <3>2, <4>1
      <3>3. CASE current # <<>>
        BY <1>2, <1>6, <3>1, <3>3
      <3>4. QED BY <3>2, <3>3
    <2>3. Append(current, line) \in Seq(L)
      BY <1>1
    <2>4. Packed(st, line) \in Packings(L, most)
      BY <1>1, <2>1, <2>2, <2>3, PackingsAre, Zenon
    <2>5. PackedText(Packed(st, line)) = u \o (current \o w)
      <3>1. Packed(st, line).pieces = pieces /\ Packed(st, line).current = Append(current, line)
        BY <2>1
      <3>2. Append(current, line) = current \o w
        BY <1>1, <1>3
      <3>3. LinesOf(Packed(st, line).pieces) = u
        BY <3>1
      <3> HIDE DEF u, w, current
      <3>4. QED BY <3>1, <3>2, <3>3 DEF PackedText
    <2>6. PackedText(st) = u \o current
      BY DEF PackedText
    <2> HIDE DEF u, w, current
    <2>7. (u \o current) \o w = u \o (current \o w)
      BY <1>1, ConcatAssociates, SMT
    <2>8. QED BY <1>3, <1>4, <2>4, <2>5, <2>6, <2>7
  <1>7. QED BY <1>5, <1>6

(* A chunk that is too long is packed into pieces that are not.            *)
LEMMA OversizedInPieces ==
    ASSUME NEW L, NEW most, AreLinesUpTo(L, most), NEW text \in Seq(L)
    PROVE  /\ SplitOversized(text) \in Seq(ChunksUpTo(L, most))
           /\ LinesOf(SplitOversized(text)) = text
  <1> DEFINE A == Packings(L, most)
             base == [pieces |-> <<>>, current |-> <<>>]
             st == FoldLeft(Packed, base, text)
  <1>1. AreLines(L) /\ most \in Nat
    BY DEF AreLinesUpTo
  <1>2. base \in A
    <2>1. <<>> \in Seq(ChunksUpTo(L, most)) /\ <<>> \in Seq(L) /\ Chars(<<>>) <= most
      BY <1>1, CharsOfEmpty
    <2>2. QED BY <2>1, PackingsAre
  <1>3. \A a \in A, line \in L :
            Packed(a, line) \in A /\ PackedText(Packed(a, line)) = Append(PackedText(a), line)
    BY PackedAddsALine
  <1>4. PackedText(base) = <<>>
    <2>1. base.pieces = <<>> /\ base.current = <<>> /\ <<>> \o <<>> = <<>>
      OBVIOUS
    <2>2. QED BY <2>1, LinesOfEmpty DEF PackedText
  <1> HIDE DEF A, base
  <1>5. PICK acc \in [0..Len(text) -> A] :
              /\ acc[0] = base
              /\ \A i \in 1..Len(text) : acc[i] = Packed(acc[i - 1], text[i])
              /\ st = acc[Len(text)]
    <2>1. PackedFold(A, base, text, FoldLeft(Packed, base, text))
      BY <1>2, <1>3, FoldOfPacked, Zenon
    <2>2. QED BY <2>1 DEF PackedFold
  <1> HIDE DEF st
  <1> DEFINE good == {i \in 0..Len(text) : PackedText(acc[i]) = SubSeq(text, 1, i)}
  <1>6. 0 \in good
    <2>1. acc[0] = base /\ SubSeq(text, 1, 0) = <<>> /\ 0 \in 0..Len(text)
      BY <1>5, PrefixGrows
    <2>2. QED BY <1>4, <2>1
  <1>7. ASSUME NEW i \in 1..Len(text), i - 1 \in good PROVE i \in good
    <2>1. i \in 0..Len(text) /\ i - 1 \in 0..Len(text) /\ text[i] \in L
      OBVIOUS
    <2>2. acc[i - 1] \in A /\ acc[i] = Packed(acc[i - 1], text[i])
      BY <1>5, <2>1
    <2>3. PackedText(acc[i]) = Append(PackedText(acc[i - 1]), text[i])
      BY <1>3, <2>1, <2>2
    <2>4. PackedText(acc[i - 1]) = SubSeq(text, 1, i - 1)
      BY <1>7
    <2>5. SubSeq(text, 1, i) = Append(SubSeq(text, 1, i - 1), text[i])
      BY PrefixGrows
    <2>6. QED BY <2>1, <2>3, <2>4, <2>5
  <1>8. Len(text) \in good
    <2> DEFINE n == Len(text)
    <2>1. n \in Nat /\ n \in 0..n
      OBVIOUS
    <2>2. 0 \in good /\ \A i \in 1..n : i - 1 \in good => i \in good
      BY <1>6, <1>7
    <2> HIDE DEF good, n
    <2>3. \A i \in 0..n : i \in good
      BY <2>1, <2>2, CountingUp
    <2>4. QED BY <2>1, <2>3 DEF n
  <1>9. PackedText(st) = text
    BY <1>5, <1>8, PrefixGrows
  <1>10. st \in A
    <2>1. Len(text) \in 0..Len(text)
      OBVIOUS
    <2>2. QED BY <1>5, <2>1
  <1>11. SplitOversized(text) = IF st.current = <<>> THEN st.pieces ELSE Append(st.pieces, ChunkOf(st.current))
    BY DEF SplitOversized, st, base
  <1> DEFINE C == ChunksUpTo(L, most)
             pieces == st.pieces
             current == st.current
  <1>12. pieces \in Seq(C) /\ current \in Seq(L) /\ Chars(current) <= most
    BY <1>10 DEF A, Packings
  <1> HIDE DEF pieces, current
  <1>13. CASE current = <<>>
    <2>1. LinesOf(pieces) \in Seq(L)
      <3>1. CASE L = {}
        <4>1. pieces = <<>>
          <5>1. C = {}
            <6>1. \A s \in Seq(L) : s = <<>>
              BY <3>1
            <6>2. QED BY <6>1 DEF ChunksUpTo
          <5> HIDE DEF C
          <5>2. QED BY <1>12, <5>1
        <4>2. QED BY <4>1, LinesOfEmpty
      <3>2. CASE L # {}
        BY <1>12, <3>2, ChunksAreChunks
      <3>3. QED BY <3>1, <3>2
    <2>2. LinesOf(pieces) = text
      <3>1. LinesOf(pieces) \o <<>> = text
        BY <1>9, <1>13 DEF PackedText, pieces, current
      <3>2. QED BY <2>1, <3>1, ConcatEmptySeq
    <2>3. QED BY <1>11, <1>12, <1>13, <2>2 DEF pieces, current
  <1>14. CASE current # <<>>
    <2>1. L # {}
      BY <1>12, <1>14
    <2>2. Chars(current) \in Nat
      BY <1>1, <1>12, <2>1, CharsOfAppend
    <2>3. ChunkOf(current) \in C /\ ChunkOf(current) \in ChunkSet(L) /\ ChunkOf(current).lines = current
      BY <1>12, <1>14, <2>2 DEF ChunkOf, ChunkSet, ChunksUpTo
    <2>4. Append(pieces, ChunkOf(current)) \in Seq(C)
      <3> HIDE DEF C
      <3>1. QED BY <1>12, <2>3
    <2>5. LinesOf(Append(pieces, ChunkOf(current))) = LinesOf(pieces) \o current
      BY <1>12, <2>3, ChunksAreChunks, LinesOfAppend
    <2>6. LinesOf(pieces) \o current = text
      BY <1>9 DEF PackedText, pieces, current
    <2>7. QED BY <1>11, <1>14, <2>4, <2>5, <2>6 DEF pieces, current
  <1>15. QED BY <1>13, <1>14

-----------------------------------------------------------------------------
(* Merging. *)

(* What merging has got to.                                                *)
Mergings(L, most) ==
    {st \in [merged : Seq(ChunksUpTo(L, most)), buffer : ChunkSet(L)] : st.buffer.chars < MinChars}

(* Its lines.                                                              *)
MergedText(st) == LinesOf(st.merged) \o st.buffer.lines

(* The fields of a merging.                                                *)
LEMMA MergingsAre ==
    ASSUME NEW L, NEW most, NEW merged \in Seq(ChunksUpTo(L, most)), NEW buffer \in ChunkSet(L),
           buffer.chars < MinChars
    PROVE  [merged |-> merged, buffer |-> buffer] \in Mergings(L, most)
  <1> DEFINE P == Seq(ChunksUpTo(L, most))
             S == ChunkSet(L)
             st == [merged |-> merged, buffer |-> buffer]
  <1>1. merged \in P /\ buffer \in S
    OBVIOUS
  <1> HIDE DEF P, S
  <1>2. st \in [merged : P, buffer : S] /\ st.buffer = buffer
    BY <1>1
  <1> HIDE DEF st
  <1>3. QED BY <1>2 DEF Mergings, P, S, st

(* Two chunks joined have the lines of both.                               *)
LEMMA JoinedLines ==
    ASSUME NEW L, NEW chunk \in ChunkSet(L), NEW next \in ChunkSet(L)
    PROVE  /\ Joined(chunk, next) \in ChunkSet(L)
           /\ Joined(chunk, next).lines = chunk.lines \o next.lines
           /\ Joined(chunk, next).chars <= chunk.chars + 2 + next.chars
           /\ next.lines # <<>> => Joined(chunk, next).lines # <<>>
  <1>1. chunk.lines \in Seq(L) /\ next.lines \in Seq(L) /\ chunk.chars \in Nat /\ next.chars \in Nat
    BY DEF ChunkSet
  <1>2. CASE chunk.lines = <<>>
    <2>1. Joined(chunk, next) = next
      BY <1>2 DEF Joined, IsEmpty
    <2>2. next.lines = <<>> \o next.lines
      BY <1>1, ConcatEmptySeq
    <2>3. QED BY <1>1, <1>2, <2>1, <2>2
  <1>3. CASE chunk.lines # <<>>
    <2> DEFINE lines == chunk.lines \o next.lines
               chars == chunk.chars + 2 + next.chars
    <2>1. Joined(chunk, next) = [lines |-> lines, chars |-> chars]
      BY <1>3 DEF Joined, IsEmpty
    <2>2. lines \in Seq(L) /\ chars \in Nat /\ (next.lines # <<>> => lines # <<>>)
      BY <1>1, ConcatProperties, ConcatEqualIffEmpty
    <2> HIDE DEF lines, chars
    <2>3. Joined(chunk, next) \in ChunkSet(L) /\ Joined(chunk, next).lines = lines /\ Joined(chunk, next).chars = chars
      BY <2>1, <2>2 DEF ChunkSet
    <2>4. chars <= chars
      BY <2>2
    <2>5. QED BY <2>2, <2>3, <2>4 DEF lines, chars
  <1>4. QED BY <1>2, <1>3

(* The empty buffer.                                                       *)
LEMMA NoChunkIs == NoChunk.lines = <<>> /\ NoChunk.chars = 0 /\ \A L : NoChunk \in ChunkSet(L)
  <1>1. NoChunk = [lines |-> <<>>, chars |-> 0]
    BY CharsOfEmpty DEF NoChunk, ChunkOf
  <1>2. QED BY <1>1 DEF ChunkSet

\* Before the buffer is flushed, it may be any chunk.
FullBuffers(L, most) == [merged : Seq(ChunksUpTo(L, most)), buffer : ChunksUpTo(L, most)]

(* Flushing the buffer keeps the text.                                     *)
LEMMA FlushedKeepsTheText ==
    ASSUME NEW L, NEW most, NEW merged \in Seq(ChunksUpTo(L, most)), NEW buffer \in ChunksUpTo(L, most)
    PROVE  /\ Flushed([merged |-> merged, buffer |-> buffer]) \in Mergings(L, most)
           /\ MergedText(Flushed([merged |-> merged, buffer |-> buffer])) = LinesOf(merged) \o buffer.lines
  <1> DEFINE C == ChunksUpTo(L, most)
             st == [merged |-> merged, buffer |-> buffer]
             more == Append(merged, buffer)
  <1>1. merged \in Seq(C) /\ buffer \in C /\ merged \in Seq(ChunkSet(L)) /\ buffer \in ChunkSet(L)
    BY ChunksAreChunks DEF ChunksUpTo, ChunkSet
  <1>2. MinChars \in Nat /\ MinChars > 0 /\ buffer.chars \in Nat
    BY <1>1, ChunkingAssumption DEF ChunkSet
  <1>3. more \in Seq(C)
    <2> HIDE DEF C
    <2>1. QED BY <1>1
  <1>4. LinesOf(more) = LinesOf(merged) \o buffer.lines /\ LinesOf(merged) \o buffer.lines \in Seq(L)
    <2>1. LinesOf(more) = LinesOf(merged) \o buffer.lines /\ LinesOf(merged) \in Seq(L)
      BY <1>1, LinesOfAppend
    <2>2. buffer.lines \in Seq(L)
      BY <1>1 DEF ChunkSet
    <2>3. QED BY <2>1, <2>2, ConcatProperties
  <1> HIDE DEF more, C
  <1>5. CASE buffer.chars >= MinChars
    <2> DEFINE next == [merged |-> more, buffer |-> NoChunk]
    <2>1. Flushed(st) = next
      BY <1>5 DEF Flushed, more
    <2>2. next \in Mergings(L, most)
      BY <1>2, <1>3, NoChunkIs, MergingsAre DEF C
    <2>3. MergedText(next) = LinesOf(more) \o <<>>
      BY NoChunkIs DEF MergedText
    <2>4. LinesOf(more) \o <<>> = LinesOf(more)
      BY <1>4, ConcatEmptySeq
    <2> HIDE DEF next
    <2>5. QED BY <1>4, <2>1, <2>2, <2>3, <2>4
  <1>6. CASE ~(buffer.chars >= MinChars)
    <2>1. Flushed(st) = st
      BY <1>6 DEF Flushed
    <2>2. st \in Mergings(L, most)
      <3>1. buffer.chars < MinChars
        BY <1>2, <1>6
      <3>2. QED BY <1>1, <3>1, MergingsAre DEF C
    <2>3. MergedText(st) = LinesOf(merged) \o buffer.lines
      BY DEF MergedText
    <2> HIDE DEF st
    <2>4. QED BY <2>1, <2>2, <2>3 DEF st
  <1>7. QED BY <1>5, <1>6

(* Merging one more chunk adds its lines at the end.                       *)
LEMMA MergedAddsAChunk ==
    ASSUME NEW L, NEW most \in Nat, MaxChars <= most, NEW st \in Mergings(L, most), NEW chunk \in ChunksUpTo(L, most)
    PROVE  /\ Merged(st, chunk) \in Mergings(L, most)
           /\ MergedText(Merged(st, chunk)) = MergedText(st) \o chunk.lines
  <1> DEFINE C == ChunksUpTo(L, most)
             merged == st.merged
             buffer == st.buffer
             candidate == Joined(buffer, chunk)
             u == LinesOf(merged)
             v == buffer.lines
             w == chunk.lines
  <1>1. /\ merged \in Seq(C) /\ merged \in Seq(ChunkSet(L)) /\ buffer \in ChunkSet(L)
        /\ st = [merged |-> merged, buffer |-> buffer]
    BY ChunksAreChunks DEF Mergings
  <1>2. chunk \in ChunkSet(L) /\ chunk \in C /\ w # <<>>
    BY DEF ChunksUpTo, ChunkSet
  <1>3. u \in Seq(L) /\ v \in Seq(L) /\ w \in Seq(L)
    BY <1>1, <1>2, LinesOfAppend DEF ChunkSet
  <1>4. candidate \in ChunkSet(L) /\ candidate.lines = v \o w /\ candidate.lines # <<>>
    BY <1>1, <1>2, JoinedLines
  <1>5. MaxChars \in Nat /\ candidate.chars \in Nat /\ chunk.chars \in Nat
    BY <1>2, <1>4, ChunkingAssumption DEF ChunkSet
  <1>6. MergedText(st) \o w = u \o (v \o w)
    <2>1. MergedText(st) = u \o v
      BY DEF MergedText
    <2> HIDE DEF u, v, w
    <2>2. (u \o v) \o w = u \o (v \o w)
      BY <1>3, ConcatAssociates, SMT
    <2>3. QED BY <2>1, <2>2
  <1>7. CASE candidate.chars <= MaxChars
    <2>1. candidate \in C
      BY <1>4, <1>5, <1>7 DEF ChunksUpTo, ChunkSet
    <2>2. Merged(st, chunk) = Flushed([merged |-> merged, buffer |-> candidate])
      <3>1. [st EXCEPT !.buffer = candidate] = [merged |-> merged, buffer |-> candidate]
        BY <1>1
      <3>2. Merged(st, chunk) = Flushed([st EXCEPT !.buffer = candidate])
        BY <1>5, <1>7 DEF Merged
      <3>3. QED BY <3>1, <3>2
    <2>3. MergedText(Merged(st, chunk)) = u \o candidate.lines /\ Merged(st, chunk) \in Mergings(L, most)
      <3> HIDE DEF candidate, merged
      <3>1. QED BY <1>1, <2>1, <2>2, FlushedKeepsTheText
    <2>4. u \o candidate.lines = u \o (v \o w)
      BY <1>4
    <2> HIDE DEF candidate, u, v
    <2>5. QED BY <1>6, <2>3, <2>4
  <1>8. CASE candidate.chars > MaxChars /\ IsEmpty(buffer)
    <2>1. Merged(st, chunk) = Flushed([merged |-> merged, buffer |-> chunk])
      <3>1. [st EXCEPT !.buffer = chunk] = [merged |-> merged, buffer |-> chunk]
        BY <1>1
      <3>2. Merged(st, chunk) = Flushed([st EXCEPT !.buffer = chunk])
        BY <1>5, <1>8 DEF Merged
      <3>3. QED BY <3>1, <3>2
    <2>2. v \o w = w
      <3>1. v = <<>>
        BY <1>8 DEF IsEmpty
      <3>2. QED BY <1>3, <3>1, ConcatEmptySeq
    <2> HIDE DEF merged, v
    <2>3. QED BY <1>1, <1>2, <1>6, <2>1, <2>2, FlushedKeepsTheText
  <1>9. CASE candidate.chars > MaxChars /\ ~IsEmpty(buffer)
    <2> DEFINE more == Append(merged, buffer)
    <2>1. Merged(st, chunk) = Flushed([merged |-> more, buffer |-> chunk])
      BY <1>5, <1>9 DEF Merged
    <2>2. buffer \in C
      <3>1. buffer.chars < MinChars /\ MinChars \in Nat /\ MinChars <= MaxChars
        BY ChunkingAssumption DEF Mergings
      <3>2. buffer.chars \in Nat
        BY <1>1 DEF ChunkSet
      <3>3. buffer.lines # <<>>
        BY <1>9 DEF IsEmpty
      <3>4. buffer.chars <= most
        BY <1>5, <3>1, <3>2
      <3> HIDE DEF buffer
      <3>5. QED BY <1>1, <3>3, <3>4 DEF ChunksUpTo, ChunkSet
    <2>3. more \in Seq(C)
      <3> HIDE DEF C, merged, buffer
      <3>1. QED BY <1>1, <2>2
    <2>4. LinesOf(more) = u \o v
      BY <1>1, LinesOfAppend
    <2> HIDE DEF more, u, v, w
    <2>5. (u \o v) \o w = u \o (v \o w)
      BY <1>3, ConcatAssociates, SMT
    <2>6. QED BY <1>2, <1>6, <2>1, <2>3, <2>4, <2>5, FlushedKeepsTheText DEF w
  <1>10. QED BY <1>5, <1>7, <1>8, <1>9

(* A larger bound allows more chunks.                                      *)
LEMMA ChunksGrow ==
    ASSUME NEW L, NEW most \in Nat, NEW more \in Nat, most <= more
    PROVE  ChunksUpTo(L, most) \subseteq ChunksUpTo(L, more)
  BY DEF ChunksUpTo

(* A short rest joined to the last chunk keeps the text.                   *)
LEMMA TailKeepsTheText ==
    ASSUME NEW L, NEW most \in Nat, NEW st \in Mergings(L, most), MaxChars <= most
    PROVE  /\ WithTail(st.merged, st.buffer) \in Seq(ChunksUpTo(L, most + MinChars + 1))
           /\ LinesOf(WithTail(st.merged, st.buffer)) = MergedText(st)
  <1> DEFINE more == most + MinChars + 1
             C == ChunksUpTo(L, most)
             D == ChunksUpTo(L, more)
             merged == st.merged
             tail == st.buffer
  <1>1. MinChars \in Nat /\ MaxChars \in Nat /\ MinChars <= MaxChars /\ more \in Nat /\ most <= more
    BY ChunkingAssumption
  <1>2. C \subseteq D
    <2> HIDE DEF more
    <2>1. QED BY <1>1, ChunksGrow
  <1>3. /\ merged \in Seq(C) /\ merged \in Seq(D) /\ merged \in Seq(ChunkSet(L))
        /\ tail \in ChunkSet(L) /\ tail.chars < MinChars /\ tail.chars \in Nat
    <2>1. merged \in Seq(C) /\ tail \in ChunkSet(L) /\ tail.chars < MinChars
      BY DEF Mergings
    <2>2. tail.chars \in Nat
      BY <2>1 DEF ChunkSet
    <2>3. merged \in Seq(D) /\ merged \in Seq(ChunkSet(L))
      <3> HIDE DEF D
      <3>1. QED BY <1>2, <2>1, SeqMonotonic, ChunksAreChunks
    <2>4. QED BY <2>1, <2>2, <2>3
  <1>4. LinesOf(merged) \in Seq(L) /\ tail.lines \in Seq(L) /\ MergedText(st) = LinesOf(merged) \o tail.lines
    BY <1>3, LinesOfAppend DEF ChunkSet, MergedText
  <1>5. CASE tail.lines = <<>>
    <2>1. WithTail(merged, tail) = merged
      BY <1>5 DEF WithTail, IsEmpty
    <2>2. MergedText(st) = LinesOf(merged)
      BY <1>4, <1>5, ConcatEmptySeq
    <2>3. QED BY <1>3, <2>1, <2>2
  <1>6. CASE tail.lines # <<>> /\ merged = <<>>
    <2>1. WithTail(merged, tail) = Append(merged, tail)
      BY <1>6 DEF WithTail, IsEmpty
    <2>2. tail \in D
      <3>1. tail.chars <= more
        BY <1>1, <1>3
      <3> HIDE DEF more, tail
      <3>2. QED BY <1>3, <1>6, <3>1 DEF ChunksUpTo, ChunkSet
    <2>3. Append(merged, tail) \in Seq(D)
      <3> HIDE DEF D, merged, tail
      <3>1. QED BY <1>3, <2>2
    <2>4. LinesOf(Append(merged, tail)) = LinesOf(merged) \o tail.lines
      BY <1>3, LinesOfAppend
    <2>5. QED BY <1>4, <2>1, <2>3, <2>4
  <1>7. CASE tail.lines # <<>> /\ merged # <<>>
    <2> DEFINE front == Front(merged)
               last == Last(merged)
               both == Joined(last, tail)
    <2>1. WithTail(merged, tail) = Append(front, both)
      BY <1>3, <1>7 DEF WithTail, IsEmpty
    <2>2. front \in Seq(C) /\ last \in C /\ merged = Append(front, last)
      BY <1>3, <1>7, FrontAndLast
    <2> HIDE DEF front, last
    <2>3. last \in ChunkSet(L) /\ last.chars <= most /\ last.chars \in Nat
      BY <2>2 DEF ChunksUpTo, ChunkSet
    <2>4. /\ both \in ChunkSet(L) /\ both.lines = last.lines \o tail.lines
          /\ both.chars <= last.chars + 2 + tail.chars /\ both.lines # <<>> /\ both.chars \in Nat
      <3>1. /\ both \in ChunkSet(L) /\ both.lines = last.lines \o tail.lines
            /\ both.chars <= last.chars + 2 + tail.chars
            /\ tail.lines # <<>> => both.lines # <<>>
        BY <1>3, <2>3, JoinedLines
      <3>2. both.chars \in Nat
        BY <3>1 DEF ChunkSet
      <3>3. QED BY <1>7, <3>1, <3>2
    <2>5. both.chars <= more
      <3> HIDE DEF both, tail
      <3>1. QED BY <1>1, <1>3, <2>3, <2>4
    <2> HIDE DEF both
    <2>6. both \in D
      <3> HIDE DEF more
      <3>1. QED BY <2>4, <2>5 DEF ChunksUpTo, ChunkSet
    <2>7. front \in Seq(D) /\ front \in Seq(ChunkSet(L))
      BY <1>2, <2>2, SeqMonotonic, ChunksAreChunks
    <2>8. Append(front, both) \in Seq(D)
      <3> HIDE DEF D
      <3>1. QED BY <2>6, <2>7
    <2>9. LinesOf(Append(front, both)) = LinesOf(front) \o (last.lines \o tail.lines)
      BY <2>4, <2>7, LinesOfAppend
    <2>10. LinesOf(merged) = LinesOf(front) \o last.lines
      BY <2>2, <2>3, <2>7, LinesOfAppend
    <2> DEFINE u == LinesOf(front)
               v == last.lines
               w == tail.lines
    <2>11. u \in Seq(L) /\ v \in Seq(L) /\ w \in Seq(L)
      BY <1>4, <2>3, <2>7, LinesOfAppend DEF ChunkSet
    <2>12. (u \o v) \o w = u \o (v \o w)
      <3> HIDE DEF u, v, w
      <3>1. QED BY <2>11, ConcatAssociates, SMT
    <2>13. QED BY <1>4, <2>1, <2>8, <2>9, <2>10, <2>12
  <1>8. QED BY <1>5, <1>6, <1>7

(* The lines of two sequences of chunks.                                   *)
LEMMA LinesOfConcat ==
    ASSUME NEW L, NEW a \in Seq(ChunkSet(L)), NEW b \in Seq(ChunkSet(L))
    PROVE  LinesOf(a \o b) = LinesOf(a) \o LinesOf(b)
  <1> DEFINE A == Seq(L)
             Parts(chunks) == [i \in DOMAIN chunks |-> chunks[i].lines]
             ab == a \o b
  <1>1. \A c \in ChunkSet(L) : c.lines \in A
    BY DEF ChunkSet
  <1>2. ASSUME NEW chunks \in Seq(ChunkSet(L))
        PROVE  Parts(chunks) \in Seq(A) /\ Len(Parts(chunks)) = Len(chunks)
    <2>1. \A i \in DOMAIN chunks : chunks[i].lines \in A
      BY <1>1
    <2> HIDE DEF A
    <2>2. QED BY <2>1
  <1>3. /\ ab \in Seq(ChunkSet(L)) /\ Len(ab) = Len(a) + Len(b)
        /\ \A i \in 1..(Len(a) + Len(b)) : ab[i] = IF i <= Len(a) THEN a[i] ELSE b[i - Len(a)]
    BY ConcatProperties
  <1>4. /\ Parts(a) \o Parts(b) \in Seq(A) /\ Len(Parts(a) \o Parts(b)) = Len(a) + Len(b)
        /\ \A i \in 1..(Len(a) + Len(b)) :
              (Parts(a) \o Parts(b))[i] = IF i <= Len(a) THEN Parts(a)[i] ELSE Parts(b)[i - Len(a)]
    <2>1. Parts(a) \in Seq(A) /\ Len(Parts(a)) = Len(a) /\ Parts(b) \in Seq(A) /\ Len(Parts(b)) = Len(b)
      BY <1>2
    <2> DEFINE x == Parts(a)
               y == Parts(b)
    <2>2. x \in Seq(A) /\ Len(x) = Len(a) /\ y \in Seq(A) /\ Len(y) = Len(b)
      BY <2>1
    <2> HIDE DEF x, y, A
    <2>3. /\ x \o y \in Seq(A) /\ Len(x \o y) = Len(x) + Len(y)
          /\ \A i \in 1..(Len(x) + Len(y)) : (x \o y)[i] = IF i <= Len(x) THEN x[i] ELSE y[i - Len(x)]
      BY <2>2, ConcatProperties
    <2>4. QED BY <2>2, <2>3 DEF x, y
  <1>5. Parts(ab) = Parts(a) \o Parts(b)
    <2>1. Parts(ab) \in Seq(A) /\ Len(Parts(ab)) = Len(a) + Len(b)
      <3> HIDE DEF ab, A
      <3>1. QED BY <1>2, <1>3
    <2>2. ASSUME NEW i \in 1..(Len(a) + Len(b)) PROVE Parts(ab)[i] = (Parts(a) \o Parts(b))[i]
      <3>1. Parts(ab)[i] = ab[i].lines
        <4> HIDE DEF ab
        <4>1. QED BY <1>3
      <3>2. CASE i <= Len(a)
        <4>1. i \in 1..Len(a) /\ ab[i] = a[i]
          BY <1>3, <3>2
        <4>2. Parts(a)[i] = a[i].lines
          BY <4>1
        <4> HIDE DEF Parts, ab
        <4>3. QED BY <1>4, <3>1, <3>2, <4>1, <4>2
      <3>3. CASE ~(i <= Len(a))
        <4>1. i - Len(a) \in 1..Len(b) /\ ab[i] = b[i - Len(a)]
          BY <1>3, <3>3
        <4>2. Parts(b)[i - Len(a)] = b[i - Len(a)].lines
          BY <4>1
        <4> HIDE DEF Parts, ab
        <4>3. QED BY <1>4, <3>1, <3>3, <4>1, <4>2
      <3>4. QED BY <3>2, <3>3
    <2> DEFINE x == Parts(ab)
               y == Parts(a) \o Parts(b)
    <2>3. x \in Seq(A) /\ y \in Seq(A) /\ Len(x) = Len(y) /\ \A i \in 1..Len(x) : x[i] = y[i]
      BY <1>4, <2>1, <2>2
    <2> HIDE DEF x, y
    <2>4. x = y
      BY <2>3, SeqEqual
    <2>5. QED BY <2>4 DEF x, y
  <1>6. FlattenSeq(Parts(a) \o Parts(b)) = FlattenSeq(Parts(a)) \o FlattenSeq(Parts(b))
    <2>1. Parts(a) \in Seq(A) /\ Parts(b) \in Seq(A)
      BY <1>2
    <2> HIDE DEF Parts
    <2>2. QED BY <2>1, FlattenOfConcat
  <1>7. QED BY <1>5, <1>6 DEF LinesOf

(* The lines of a single chunk.                                            *)
LEMMA LinesOfOne ==
    ASSUME NEW L, NEW c \in ChunkSet(L)
    PROVE  LinesOf(<<c>>) = c.lines
  <1>1. <<>> \in Seq(ChunkSet(L)) /\ Append(<<>>, c) = <<c>> /\ c.lines \in Seq(L)
    BY DEF ChunkSet
  <1>2. LinesOf(Append(<<>>, c)) = LinesOf(<<>>) \o c.lines
    BY <1>1, LinesOfAppend
  <1>3. QED BY <1>1, <1>2, LinesOfEmpty, ConcatEmptySeq

(* Merging small chunks keeps the text.                                    *)
LEMMA MergeKeepsTheText ==
    ASSUME NEW L, NEW most \in Nat, MaxChars <= most, NEW raw \in Seq(ChunksUpTo(L, most))
    PROVE  /\ MergeUndersized(raw) \in Seq(ChunksUpTo(L, most + MinChars + 1))
           /\ LinesOf(MergeUndersized(raw)) = LinesOf(raw)
  <1> DEFINE A == Mergings(L, most)
             C == ChunksUpTo(L, most)
             base == [merged |-> <<>>, buffer |-> NoChunk]
             st == FoldLeft(Merged, base, raw)
  <1>1. base \in A
    <2>1. <<>> \in Seq(C) /\ NoChunk \in ChunkSet(L) /\ NoChunk.chars < MinChars
      BY NoChunkIs, ChunkingAssumption
    <2>2. QED BY <2>1, MergingsAre
  <1>2. \A a \in A, chunk \in C :
            Merged(a, chunk) \in A /\ MergedText(Merged(a, chunk)) = MergedText(a) \o chunk.lines
    BY MergedAddsAChunk
  <1>3. MergedText(base) = <<>>
    <2>1. base.merged = <<>> /\ base.buffer.lines = <<>> /\ <<>> \o <<>> = <<>>
      BY NoChunkIs
    <2>2. QED BY <2>1, LinesOfEmpty DEF MergedText
  <1> HIDE DEF A, base, C
  <1>4. PICK acc \in [0..Len(raw) -> A] :
              /\ acc[0] = base
              /\ \A i \in 1..Len(raw) : acc[i] = Merged(acc[i - 1], raw[i])
              /\ st = acc[Len(raw)]
    <2>1. raw \in Seq(C)
      BY DEF C
    <2>2. MergedFold(A, base, raw, FoldLeft(Merged, base, raw))
      BY <1>1, <1>2, <2>1, FoldOfMerged, Zenon
    <2>3. QED BY <2>2 DEF MergedFold
  <1> HIDE DEF st
  <1>5. raw \in Seq(ChunkSet(L)) /\ \A i \in 1..Len(raw) : raw[i] \in C /\ raw[i] \in ChunkSet(L)
    <2>1. raw \in Seq(ChunkSet(L))
      BY ChunksAreChunks
    <2>2. raw \in Seq(C)
      BY DEF C
    <2>3. QED BY <2>1, <2>2
  <1> DEFINE good == {i \in 0..Len(raw) : MergedText(acc[i]) = LinesOf(SubSeq(raw, 1, i))}
  <1>6. 0 \in good
    <2>1. acc[0] = base /\ SubSeq(raw, 1, 0) = <<>> /\ 0 \in 0..Len(raw)
      BY <1>4, PrefixGrows
    <2>2. QED BY <1>3, <2>1, LinesOfEmpty
  <1>7. ASSUME NEW i \in 1..Len(raw), i - 1 \in good PROVE i \in good
    <2>1. i \in 0..Len(raw) /\ i - 1 \in 0..Len(raw)
      OBVIOUS
    <2>2. acc[i - 1] \in A /\ acc[i] = Merged(acc[i - 1], raw[i])
      BY <1>4, <2>1
    <2>3. MergedText(acc[i]) = MergedText(acc[i - 1]) \o raw[i].lines
      BY <1>2, <1>5, <2>2
    <2>4. MergedText(acc[i - 1]) = LinesOf(SubSeq(raw, 1, i - 1))
      BY <1>7
    <2>5. SubSeq(raw, 1, i) = Append(SubSeq(raw, 1, i - 1), raw[i])
      BY PrefixGrows
    <2>6. SubSeq(raw, 1, i - 1) \in Seq(ChunkSet(L))
      BY <1>5, <2>1, PrefixGrows
    <2>7. LinesOf(SubSeq(raw, 1, i)) = LinesOf(SubSeq(raw, 1, i - 1)) \o raw[i].lines
      BY <1>5, <2>5, <2>6, LinesOfAppend
    <2>8. QED BY <2>1, <2>3, <2>4, <2>7
  <1>8. Len(raw) \in good
    <2> DEFINE n == Len(raw)
    <2>1. n \in Nat /\ n \in 0..n
      OBVIOUS
    <2>2. 0 \in good /\ \A i \in 1..n : i - 1 \in good => i \in good
      BY <1>6, <1>7
    <2> HIDE DEF good, n
    <2>3. \A i \in 0..n : i \in good
      BY <2>1, <2>2, CountingUp
    <2>4. QED BY <2>1, <2>3 DEF n
  <1>9. MergedText(st) = LinesOf(raw)
    BY <1>4, <1>8, PrefixGrows
  <1>10. st \in A
    <2>1. Len(raw) \in 0..Len(raw)
      OBVIOUS
    <2>2. QED BY <1>4, <2>1
  <1>11. MergeUndersized(raw) = WithTail(st.merged, st.buffer)
    BY DEF MergeUndersized, st, base
  <1>12. QED BY <1>9, <1>10, <1>11, TailKeepsTheText DEF A

(* A chunk split to size keeps its lines.                                  *)
LEMMA SizedKeepsTheLines ==
    ASSUME NEW L, NEW most, AreLinesUpTo(L, most), NEW chunk \in ChunkSet(L), chunk.lines # <<>>
    PROVE  Sized(chunk) \in Seq(ChunksUpTo(L, most)) /\ LinesOf(Sized(chunk)) = chunk.lines
  <1>1. chunk.lines \in Seq(L) /\ chunk.chars \in Nat /\ MaxChars \in Nat /\ most \in Nat /\ MaxChars <= most
    BY ChunkingAssumption DEF ChunkSet, AreLinesUpTo
  <1>2. CASE chunk.chars > MaxChars
    BY <1>1, <1>2, OversizedInPieces DEF Sized
  <1>3. CASE ~(chunk.chars > MaxChars)
    <2>1. chunk \in ChunksUpTo(L, most)
      BY <1>1, <1>3 DEF ChunksUpTo, ChunkSet
    <2>2. Sized(chunk) = <<chunk>>
      BY <1>3 DEF Sized
    <2>3. QED BY <2>1, <2>2, LinesOfOne
  <1>4. QED BY <1>2, <1>3

(* Cutting a document at its headings, cutting what is too long, joining   *)
(* what is too short: chunk_document loses, repeats and moves no line.     *)
THEOREM ChunkDocumentKeepsTheText ==
    ASSUME NEW L, NEW most, AreLinesUpTo(L, most), NEW text \in Seq(L)
    PROVE  /\ ChunkDocument(text) \in Seq(ChunksUpTo(L, most + MinChars + 1))
           /\ LinesOf(ChunkDocument(text)) = text
  <1> DEFINE C == ChunksUpTo(L, most)
             raw == SplitOnBoundaries(text)
             parts == [i \in DOMAIN raw |-> Sized(raw[i])]
  <1>1. AreLines(L) /\ most \in Nat /\ MaxChars <= most
    BY DEF AreLinesUpTo
  <1>2. raw \in Seq(ChunkSet(L)) /\ LinesOf(raw) = text /\ \A i \in DOMAIN raw : raw[i].lines # <<>>
    BY <1>1, SplitGivesChunks
  <1>3. CASE Len(raw) <= 1
    <2>1. ChunkDocument(text) = MergeUndersized(SplitOversized(text))
      BY <1>3 DEF ChunkDocument
    <2> DEFINE pieces == SplitOversized(text)
    <2>2. pieces \in Seq(C) /\ LinesOf(pieces) = text
      BY OversizedInPieces
    <2> HIDE DEF pieces
    <2>3. MergeUndersized(pieces) \in Seq(ChunksUpTo(L, most + MinChars + 1)) /\ LinesOf(MergeUndersized(pieces)) = text
      BY <1>1, <2>2, MergeKeepsTheText
    <2>4. QED BY <2>1, <2>3 DEF pieces
  <1>4. CASE ~(Len(raw) <= 1)
    <2>1. ChunkDocument(text) = MergeUndersized(FlattenSeq(parts))
      BY <1>4 DEF ChunkDocument
    <2> HIDE DEF raw
    <2>2. \A i \in DOMAIN raw : Sized(raw[i]) \in Seq(C) /\ LinesOf(Sized(raw[i])) = raw[i].lines
      <3>1. \A i \in DOMAIN raw : raw[i] \in ChunkSet(L)
        BY <1>2
      <3>2. QED BY <1>2, <3>1, SizedKeepsTheLines
    <2> DEFINE n == Len(raw)
    <2>3. n \in Nat /\ DOMAIN raw = 1..n /\ n \in 0..n
      BY <1>2
    <2>4. /\ parts \in Seq(Seq(C)) /\ Len(parts) = n
          /\ \A i \in 1..n : parts[i] = Sized(raw[i]) /\ parts[i] \in Seq(C)
      <3> DEFINE S == Seq(C)
      <3>1. \A i \in 1..n : Sized(raw[i]) \in S
        BY <2>2, <2>3
      <3>2. parts = [i \in 1..n |-> Sized(raw[i])]
        BY <2>3
      <3> HIDE DEF S, n, C, parts
      <3>3. parts \in Seq(S) /\ Len(parts) = n /\ \A i \in 1..n : parts[i] = Sized(raw[i])
        BY <2>3, <3>1, <3>2
      <3>4. QED BY <3>1, <3>3 DEF S
    <2> HIDE DEF parts
    <2>5. PICK acc \in [0..Len(parts) -> Seq(C)] : Flattens(parts, acc) /\ FlattenSeq(parts) = acc[Len(parts)]
      BY <2>4, FlattenAccumulates
    <2> DEFINE good == {i \in 0..n : LinesOf(acc[i]) = LinesOf(SubSeq(raw, 1, i))}
    <2>6. 0 \in good
      <3>1. acc[0] = <<>> /\ SubSeq(raw, 1, 0) = <<>> /\ 0 \in 0..n
        BY <1>2, <2>3, <2>5, PrefixGrows DEF Flattens
      <3>2. QED BY <3>1
    <2>7. ASSUME NEW i \in 1..n, i - 1 \in good PROVE i \in good
      <3>1. i \in 0..n /\ i - 1 \in 0..n /\ i \in 1..Len(parts) /\ i - 1 \in 0..Len(parts)
        BY <2>3, <2>4
      <3>2. acc[i] = acc[i - 1] \o parts[i]
        BY <2>5, <3>1, Zenon DEF Flattens
      <3>3. acc[i - 1] \in Seq(C) /\ parts[i] \in Seq(C)
        <4>1. acc[i - 1] \in Seq(C)
          BY <2>5, <3>1, Zenon
        <4>2. QED BY <2>4, <4>1
      <3>4. acc[i - 1] \in Seq(ChunkSet(L)) /\ parts[i] \in Seq(ChunkSet(L))
        BY <3>3, ChunksAreChunks
      <3>5. LinesOf(acc[i]) = LinesOf(acc[i - 1]) \o LinesOf(parts[i])
        BY <3>2, <3>4, LinesOfConcat
      <3>6. LinesOf(parts[i]) = raw[i].lines /\ raw[i] \in ChunkSet(L)
        <4>1. raw[i] \in ChunkSet(L) /\ i \in DOMAIN raw
          BY <1>2, <2>3
        <4>2. LinesOf(Sized(raw[i])) = raw[i].lines
          BY <2>2, <4>1
        <4>3. parts[i] = Sized(raw[i])
          BY <2>4
        <4>4. QED BY <4>1, <4>2, <4>3
      <3>7. SubSeq(raw, 1, i) = Append(SubSeq(raw, 1, i - 1), raw[i]) /\ SubSeq(raw, 1, i - 1) \in Seq(ChunkSet(L))
        BY <1>2, <3>1, PrefixGrows
      <3>8. LinesOf(SubSeq(raw, 1, i)) = LinesOf(SubSeq(raw, 1, i - 1)) \o raw[i].lines
        BY <3>6, <3>7, LinesOfAppend
      <3>9. LinesOf(acc[i - 1]) = LinesOf(SubSeq(raw, 1, i - 1))
        BY <2>7
      <3>10. QED BY <3>1, <3>5, <3>6, <3>8, <3>9
    <2>8. n \in good
      <3>1. 0 \in good /\ \A i \in 1..n : i - 1 \in good => i \in good
        BY <2>6, <2>7
      <3> HIDE DEF good, n
      <3>2. \A i \in 0..n : i \in good
        BY <2>3, <3>1, CountingUp
      <3>3. QED BY <2>3, <3>2
    <2> DEFINE sized == FlattenSeq(parts)
    <2>9. LinesOf(sized) = text
      <3>1. SubSeq(raw, 1, n) = raw
        BY <1>2, PrefixGrows
      <3>2. QED BY <1>2, <2>4, <2>5, <2>8, <3>1
    <2>10. sized \in Seq(C)
      BY <2>4, FlattenIsSeq
    <2> HIDE DEF sized
    <2>11. MergeUndersized(sized) \in Seq(ChunksUpTo(L, most + MinChars + 1)) /\ LinesOf(MergeUndersized(sized)) = text
      BY <1>1, <2>9, <2>10, MergeKeepsTheText
    <2>12. QED BY <2>1, <2>11 DEF sized
  <1>5. QED BY <1>3, <1>4

-----------------------------------------------------------------------------
(* The stores: what is indexed are the clauses of the text, or nothing.    *)

(* What the stores hold.                                                   *)
StoredInv ==
    /\ pages \in Libraries
    /\ DOMAIN index = Docs
    /\ \A d \in Docs : index[d] \in {<<>>, Clauses(d)}

(* It holds at first.                                                      *)
LEMMA StoredInit == Init => StoredInv
  BY DEF Init, StoredInv

\* The actions that read leave the stores alone.
LEMMA StoresUnread ==
    ASSUME [Next]_vars
    PROVE  \/ \E d \in Docs : DeleteVectors(d)
           \/ UNCHANGED <<pages, index>>
  <1>1. CASE UNCHANGED vars
    BY <1>1 DEF vars
  <1>2. CASE \E d \in Deletable : DeleteVectors(d) \/ DeleteRow(d)
    BY <1>2, ReadingAssumption DEF DeleteRow
  <1>3. CASE \E d \in Docs : GetScans(d)
    BY <1>3 DEF GetScans, Show
  <1>4. CASE \E d, e \in Docs : Compare(d, e)
    BY <1>4 DEF Compare, Show
  <1>5. CASE \E d \in Docs, reply \in ExtractionReplies :
                GetOverview(d, reply) \/ GetReview(d, reply) \/ Summarize(d, reply)
    BY <1>5 DEF GetOverview, GetReview, Summarize, Show
  <1>6. CASE \E d \in Docs : AskChat(d) \/ AskScenario(d)
    BY <1>6 DEF AskChat, AskScenario, Begin
  <1>7. CASE \E ds \in BoundedSeq(Docs, MaxAsked) : AskAcross(ds)
    BY <1>7 DEF AskAcross, Begin
  <1>8. CASE DenseQuery \/ ReadCorpus \/ RankClauses
    BY <1>8 DEF DenseQuery, ReadCorpus, RankClauses, Retrieved
  <1>9. CASE \E reply \in AnswerReplies : AnswerChat(reply) \/ AnswerScenario(reply) \/ AnswerAcross(reply)
    BY <1>9 DEF AnswerChat, AnswerScenario, AnswerAcross, Show
  <1>10. CASE Close
    BY <1>10 DEF Close
  <1>11. QED BY <1>1, <1>2, <1>3, <1>4, <1>5, <1>6, <1>7, <1>8, <1>9, <1>10 DEF Next

(* Every step preserves it.                                                *)
LEMMA StoredStep == ASSUME StoredInv, [Next]_vars PROVE StoredInv'
  <1>1. CASE UNCHANGED <<pages, index>>
    BY <1>1 DEF StoredInv, Clauses
  <1>2. CASE \E d \in Docs : DeleteVectors(d)
    BY <1>2 DEF DeleteVectors, StoredInv, Clauses
  <1>3. QED BY <1>1, <1>2, StoresUnread

(* A text is a sequence of lines.                                          *)
LEMMA TextIsSeq ==
    ASSUME NEW file \in Seq(Page)
    PROVE  TextOf(file) \in Seq(Line)
  <1> DEFINE T == Seq(Line)
             parts == [p \in DOMAIN file |-> PageText(file[p])]
  <1>1. \A p \in DOMAIN file : PageText(file[p]) \in T
    <2>1. \A page \in Page : page.native \in T /\ page.scanned \in T
      BY DEF Page
    <2> HIDE DEF T
    <2>2. QED BY <2>1 DEF PageText
  <1>2. parts \in Seq(T)
    <2> HIDE DEF T
    <2>1. QED BY <1>1
  <1>3. QED BY <1>2, FlattenIsSeq DEF TextOf

(* Text and Clauses are those of the file.                                 *)
LEMMA FilesAreRead ==
    ASSUME StoredInv, NEW d \in Docs
    PROVE  /\ pages[d] \in Seq(Page) /\ Text(d) = TextOf(pages[d]) /\ Clauses(d) = ChunkDocument(Text(d))
           /\ Text(d) \in Seq(Line)
  <1>1. pages \in [Docs -> Seq(Page)] /\ pages[d] \in Seq(Page)
    BY ReadingAssumption DEF StoredInv
  <1>2. pages[d] \in Files
    BY <1>1 DEF StoredInv, Files, Range
  <1>3. Text(d) = TextOf(pages[d]) /\ Clauses(d) = ChunkDocument(Text(d))
    BY <1>2 DEF Text, Clauses, TextIn, ClausesIn
  <1>4. QED BY <1>1, <1>3, TextIsSeq

(* The longest line of a text, or the maximum. *)
Longest(text) == Max({text[i].chars : i \in DOMAIN text} \cup {MaxChars})

(* No line is longer than the longest.                                     *)
LEMMA LongestIs ==
    ASSUME NEW text \in Seq(Line)
    PROVE  AreLinesUpTo(ToSet(text), Longest(text)) /\ text \in Seq(ToSet(text))
  <1> DEFINE sizes == {text[i].chars : i \in DOMAIN text}
             all == sizes \cup {MaxChars}
  <1>1. \A i \in DOMAIN text : text[i] \in Line
    OBVIOUS
  <1>2. \A i \in DOMAIN text : text[i].chars \in Nat \ {0}
    BY <1>1 DEF Line
  <1>3. IsFiniteSet(all)
    <2>1. IsFiniteSet(DOMAIN text)
      <3>1. DOMAIN text = 1..Len(text) /\ 1 \in Int /\ Len(text) \in Int
        OBVIOUS
      <3>2. QED BY <3>1, FS_Interval
    <2>2. IsFiniteSet(sizes)
      <3> DEFINE f == [i \in DOMAIN text |-> text[i].chars]
      <3>1. f \in Surjection(DOMAIN text, sizes)
        BY DEF Surjection
      <3>2. QED BY <2>1, <3>1, FS_Surjection
    <2>3. QED BY <2>2, FS_AddElement
  <1>4. all \in SUBSET Int /\ all # {} /\ MaxChars \in all
    BY <1>2, ChunkingAssumption
  <1>5. Max(all) \in all /\ \A y \in all : Max(all) >= y
    BY <1>3, <1>4, MaxOfNumbers
  <1>6. Longest(text) = Max(all)
    BY DEF Longest
  <1>7. \A line \in ToSet(text) : line.chars \in Nat \ {0} /\ line.chars \in all
    BY <1>2 DEF ToSet
  <1>8. Longest(text) \in Nat
    BY <1>2, <1>5, <1>6, ChunkingAssumption
  <1>9. text \in Seq(ToSet(text))
    BY SeqOfRange DEF Range, ToSet
  <1> HIDE DEF all
  <1>10. QED BY <1>4, <1>5, <1>6, <1>7, <1>8, <1>9, ChunkingAssumption DEF AreLinesUpTo, AreLines

(* A page without text makes the summary say so.                           *)
LEMMA EmptyPagesAreReported ==
    ASSUME NEW file, \E p \in DOMAIN file : PageText(file[p]) = <<>>
    PROVE  QualitySummary(file, TRUE) = "look at it"
  <1> DEFINE report == {PageQuality(file[p]) : p \in DOMAIN file}
  <1>1. PICK p \in DOMAIN file : PageText(file[p]) = <<>>
    OBVIOUS
  <1>2. PageQuality(file[p]).low
    <2>1. Chars(PageText(file[p])) < LowText
      BY <1>1, CharsOfEmpty, ChunkingAssumption
    <2>2. QED BY <2>1 DEF PageQuality
  <1>3. \E q \in report : q.low
    BY <1>2
  <1>4. file # <<>>
    BY <1>1
  <1> HIDE DEF report
  <1>5. QED BY <1>3, <1>4 DEF QualitySummary, report

(* A file that is called clean has native text on every page.              *)
LEMMA CleanFilesAreNative ==
    ASSUME NEW file, NEW detailed \in BOOLEAN, QualitySummary(file, detailed) = "clean"
    PROVE  TextOf(file) = FlattenSeq([p \in DOMAIN file |-> file[p].native])
  <1> DEFINE report == {PageQuality(file[p]) : p \in DOMAIN file}
  <1>1. ASSUME NEW p \in DOMAIN file PROVE PageText(file[p]) = file[p].native
    <2>1. file # <<>>
      BY <1>1
    <2>2. ~(\E q \in report : q.ocr)
      <3>1. detailed
        BY DEF QualitySummary
      <3> HIDE DEF report
      <3>2. QED BY <2>1, <3>1 DEF QualitySummary, report
    <2>3. ~PageQuality(file[p]).ocr
      BY <2>2
    <2>4. ~IsScanned(file[p])
      BY <2>3 DEF PageQuality
    <2>5. QED BY <2>4 DEF PageText
  <1>2. [p \in DOMAIN file |-> PageText(file[p])] = [p \in DOMAIN file |-> file[p].native]
    BY <1>1
  <1>3. QED BY <1>2 DEF TextOf

(* The clauses of a text, of any length.                                   *)
LEMMA ClausesCover ==
    ASSUME NEW text \in Seq(Line)
    PROVE  LET clauses == ChunkDocument(text)
           IN  /\ LinesOf(clauses) = text
               /\ clauses \in Seq(ChunksUpTo(ToSet(text), Longest(text) + MinChars + 1))
  BY LongestIs, ChunkDocumentKeepsTheText

(* The first part of the property: the clauses of each document.           *)
LEMMA ClausesAreTheText ==
    ASSUME StoredInv, NEW d \in Docs, index[d] # <<>>
    PROVE  /\ FlattenSeq([i \in DOMAIN index[d] |-> index[d][i].lines]) = Text(d)
           /\ \A i \in DOMAIN index[d] :
                /\ index[d][i].lines # <<>>
                /\ index[d][i].chars <= Longest(Text(d)) + MinChars + 1
  <1> DEFINE text == Text(d)
             clauses == ChunkDocument(text)
             most == Longest(text) + MinChars + 1
  <1>1. index[d] = clauses /\ text \in Seq(Line)
    BY FilesAreRead DEF StoredInv
  <1>2. LinesOf(clauses) = text /\ clauses \in Seq(ChunksUpTo(ToSet(text), most))
    BY <1>1, ClausesCover
  <1> HIDE DEF clauses, most, text
  <1>3. \A i \in DOMAIN clauses : clauses[i].lines # <<>> /\ clauses[i].chars <= most
    <2>1. \A i \in DOMAIN clauses : clauses[i] \in ChunksUpTo(ToSet(text), most)
      BY <1>2
    <2>2. QED BY <2>1 DEF ChunksUpTo
  <1>4. QED BY <1>1, <1>2, <1>3 DEF LinesOf, most, text

(* The quality on the screen is that of the file.                          *)
QualityShown ==
    shown.kind = "scans" =>
        shown.doc \in Docs /\ shown.quality = QualitySummary(pages[shown.doc], shown.doc \notin old)

-----------------------------------------------------------------------------
(* Lists with a condition.                                                 *)

\* What is kept of a sequence, element by element.
KeptFold(X, s, S, result) ==
    \E acc \in [0..Len(s) -> Seq(X)] :
        /\ acc[0] = <<>>
        /\ \A i \in 1..Len(s) : acc[i] = IF s[i] \in S THEN Append(acc[i - 1], s[i]) ELSE acc[i - 1]
        /\ result = acc[Len(s)]

(* Kept is such a fold.                                                    *)
LEMMA FoldOfKept ==
    ASSUME NEW X, NEW s \in Seq(X), NEW S
    PROVE  KeptFold(X, s, S, Kept(s, S))
  <1> DEFINE A == Seq(X)
             Op(kept, x) == IF x \in S THEN Append(kept, x) ELSE kept
             base == <<>>
             step == [p \in A \X X |-> Op(p[1], p[2])]
             Folds(it) == it = [d \in SUBSET DOMAIN s |->
                                  IF d = {} THEN base ELSE Op(it[d \ {Max(d)}], s[Max(d)])]
             chosen == CHOOSE it : Folds(it)
  <1>1. base \in A /\ step \in [A \X X -> A]
    OBVIOUS
  <1>2. \A a \in A, x \in X : step[<<a, x>>] = Op(a, x)
    OBVIOUS
  <1>3. Kept(s, S) = chosen[DOMAIN s]
    BY DEF Kept, FoldLeft, MapThenFoldSet
  <1> HIDE DEF A, base, step, Op
  <1>4. PICK iter \in [SUBSET DOMAIN s -> A] : FoldsLeft(s, step, base, iter)
    BY <1>1, FoldLeftExists
  <1>5. \A d \in SUBSET DOMAIN s : d # {} => Max(d) \in d /\ s[Max(d)] \in X
    BY LastPlace
  <1>6. Folds(iter)
    <2>1. ASSUME NEW d \in SUBSET DOMAIN s
          PROVE  iter[d] = IF d = {} THEN base ELSE Op(iter[d \ {Max(d)}], s[Max(d)])
      <3>1. CASE d = {}
        BY <1>4, <3>1 DEF FoldsLeft
      <3>2. CASE d # {}
        <4>1. iter[d] = step[<<iter[d \ {Max(d)}], s[Max(d)]>>]
          BY <1>4, <3>2 DEF FoldsLeft
        <4>2. iter[d \ {Max(d)}] \in A /\ s[Max(d)] \in X
          BY <1>5, <3>2
        <4>3. QED BY <1>2, <3>2, <4>1, <4>2
      <3>3. QED BY <3>1, <3>2
    <2>2. QED BY <2>1
  <1>7. Folds(chosen)
    BY <1>6
  <1> HIDE DEF chosen
  <1>8. FoldsLeftIn(A, s, step, base, chosen)
    <2>1. chosen[{}] = base
      BY <1>7
    <2>2. ASSUME NEW d \in SUBSET DOMAIN s, d # {}, chosen[d \ {Max(d)}] \in A
          PROVE  chosen[d] = step[<<chosen[d \ {Max(d)}], s[Max(d)]>>]
      <3>1. chosen[d] = Op(chosen[d \ {Max(d)}], s[Max(d)])
        BY <1>7, <2>2
      <3>2. QED BY <1>2, <1>5, <2>2, <3>1
    <2>3. QED BY <2>1, <2>2 DEF FoldsLeftIn
  <1>9. Accumulated(A, s, step, base, Kept(s, S))
    <2>1. Accumulated(A, s, step, base, chosen[DOMAIN s])
      BY <1>1, <1>8, FoldLeftAccumulates, Zenon
    <2>2. QED BY <1>3, <2>1
  <1>10. PICK acc \in [0..Len(s) -> A] : Accumulates(s, step, base, acc) /\ Kept(s, S) = acc[Len(s)]
    BY <1>9 DEF Accumulated
  <1>11. ASSUME NEW i \in 1..Len(s)
         PROVE  acc[i] = Op(acc[i - 1], s[i])
    <2>1. acc[i - 1] \in A /\ s[i] \in X
      OBVIOUS
    <2>2. QED BY <1>2, <1>10, <2>1 DEF Accumulates
  <1>12. QED BY <1>10, <1>11 DEF Accumulates, A, base, Op, KeptFold

(* What Kept keeps.                                                        *)
LEMMA KeptProperties ==
    ASSUME NEW X, NEW s \in Seq(X), NEW S
    PROVE  Kept(s, S) \in Seq(X) /\ ToSet(Kept(s, S)) = ToSet(s) \cap S /\ Len(Kept(s, S)) <= Len(s)
  <1> DEFINE n == Len(s)
             A == Seq(X)
  <1>1. PICK acc \in [0..n -> A] :
              /\ acc[0] = <<>>
              /\ \A i \in 1..n : acc[i] = IF s[i] \in S THEN Append(acc[i - 1], s[i]) ELSE acc[i - 1]
              /\ Kept(s, S) = acc[n]
    <2>1. KeptFold(X, s, S, Kept(s, S))
      BY FoldOfKept, Zenon
    <2>2. QED BY <2>1 DEF KeptFold
  <1>2. n \in Nat /\ DOMAIN s = 1..n /\ \A i \in 1..n : s[i] \in X
    OBVIOUS
  <1> HIDE DEF n
  <1> DEFINE Upto(i) == {s[j] : j \in 1..i}
             good == {i \in 0..n : ToSet(acc[i]) = Upto(i) \cap S /\ Len(acc[i]) <= i}
  <1>3. 0 \in good
    <2>1. ToSet(acc[0]) = {} /\ Len(acc[0]) = 0 /\ Upto(0) = {}
      BY <1>1 DEF ToSet
    <2>2. QED BY <1>2, <2>1
  <1>4. ASSUME NEW i \in 1..n, i - 1 \in good PROVE i \in good
    <2>1. /\ i - 1 \in 0..n /\ i \in 0..n /\ s[i] \in X
      BY <1>2
    <2>2. acc[i - 1] \in A /\ acc[i] \in A
      BY <1>1, <2>1
    <2>3. Upto(i) = Upto(i - 1) \cup {s[i]}
      <3>1. 1..i = 1..(i - 1) \cup {i}
        BY <1>2
      <3>2. QED BY <3>1
    <2>4. ToSet(acc[i - 1]) = Upto(i - 1) \cap S /\ Len(acc[i - 1]) <= i - 1
      BY <1>4
    <2> HIDE DEF Upto
    <2>5. CASE s[i] \in S
      <3>1. acc[i] = Append(acc[i - 1], s[i])
        BY <1>1, <2>5
      <3>2. ToSet(acc[i]) = ToSet(acc[i - 1]) \cup {s[i]}
        BY <2>1, <2>2, <3>1, ElementsOfAppend
      <3>3. Len(acc[i]) = Len(acc[i - 1]) + 1 /\ Len(acc[i - 1]) \in Nat
        BY <2>2, <3>1, <2>1, AppendProperties
      <3>4. ToSet(acc[i]) = Upto(i) \cap S
        BY <2>3, <2>4, <2>5, <3>2
      <3>5. Len(acc[i]) <= i
        BY <2>4, <3>3, <1>2
      <3>6. QED BY <2>1, <3>4, <3>5
    <2>6. CASE s[i] \notin S
      <3>1. acc[i] = acc[i - 1]
        BY <1>1, <2>6
      <3>2. Len(acc[i - 1]) \in Nat
        BY <2>2
      <3>3. ToSet(acc[i]) = Upto(i) \cap S
        BY <2>3, <2>4, <2>6, <3>1
      <3>4. Len(acc[i]) <= i
        BY <2>4, <3>1, <3>2, <1>2
      <3>5. QED BY <2>1, <3>3, <3>4
    <2>7. QED BY <2>5, <2>6
  <1>5. n \in good
    <2>1. \A i \in 0..n : i \in good
      <3> HIDE DEF good
      <3>1. QED BY <1>2, <1>3, <1>4, CountingUp
    <2>2. QED BY <1>2, <2>1
  <1>6. Upto(n) = ToSet(s)
    BY <1>2 DEF ToSet
  <1>7. Kept(s, S) \in Seq(X)
    <2>1. n \in 0..n
      BY <1>2
    <2>2. QED BY <1>1, <2>1
  <1>8. QED BY <1>1, <1>5, <1>6, <1>7 DEF n

-----------------------------------------------------------------------------
(* Evidence: where a quote is found.                                       *)

(* A count of matched words.                                               *)
LEMMA MatchedIsNumber ==
    ASSUME NEW W, NEW quote \in Seq(W), NEW words
    PROVE  /\ Matched(quote, words) \in Nat
           /\ Matched(quote, words) <= Len(ContentWords(quote)) /\ Len(ContentWords(quote)) \in Nat
  <1> DEFINE content == ContentWords(quote)
             D == {i \in DOMAIN content : content[i] \in ToSet(ContentWords(words))}
  <1>1. content \in Seq(W)
    BY KeptProperties DEF ContentWords
  <1> HIDE DEF content
  <1>2. Len(content) \in Nat /\ DOMAIN content = 1..Len(content)
    BY <1>1
  <1>3. IsFiniteSet(1..Len(content)) /\ Cardinality(1..Len(content)) = Len(content)
    <2>1. /\ 1 \in Int /\ Len(content) \in Int /\ (1 > Len(content) => Len(content) = 0)
          /\ Len(content) - 1 + 1 = Len(content)
      BY <1>2
    <2>2. QED BY <2>1, FS_Interval
  <1>4. D \subseteq 1..Len(content)
    BY <1>2
  <1>5. IsFiniteSet(D) /\ Cardinality(D) <= Len(content)
    BY <1>3, <1>4, FS_Subset
  <1>6. Cardinality(D) \in Nat
    BY <1>5, FS_CardinalityType
  <1>7. Matched(quote, words) = Cardinality(D)
    BY DEF Matched, content
  <1>8. QED BY <1>2, <1>5, <1>6, <1>7 DEF content

(* What a quote needs to be shown as evidence, blank or not.               *)
Backs(quote, words) == IsIn(quote, words) \/ Overlaps(quote, words)

(* The first clause with the quote, or one that supports it, or none if only the text does. *)
Points(quote, i, chunks, text) ==
    /\ quote # NoQuote
    /\ i # NoIndex => i \in DOMAIN chunks /\ Backs(quote, WordsOf(chunks[i].lines))
    /\ i = NoIndex => Backs(quote, WordsOf(text))
    /\ \A j \in DOMAIN chunks : IsIn(quote, WordsOf(chunks[j].lines)) => i \in 1..j

(* The evidence found for a quote points to it.                            *)
Backed(quote, evidence, chunks, text) ==
    evidence.grounded => Points(quote, evidence.index, chunks, text)

(* The closest clause is one of them.                                      *)
LEMMA SomeClauseIsClosest ==
    ASSUME NEW W, NEW quote \in Seq(W), NEW words, NEW n \in Nat, DOMAIN words = 1..n,
           NEW j \in DOMAIN words, Overlaps(quote, words[j])
    PROVE  Closest(quote, words) # {} /\ \A i \in Closest(quote, words) : Overlaps(quote, words[i])
  <1> DEFINE many == {Matched(quote, words[i]) : i \in DOMAIN words}
             f == [i \in DOMAIN words |-> Matched(quote, words[i])]
  <1>1. \A i \in DOMAIN words : Matched(quote, words[i]) \in Nat
    BY MatchedIsNumber
  <1>2. Len(ContentWords(quote)) \in Nat
    BY MatchedIsNumber
  <1>3. IsFiniteSet(many)
    <2>1. IsFiniteSet(DOMAIN words)
      BY FS_Interval
    <2>2. f \in Surjection(DOMAIN words, many)
      BY DEF Surjection
    <2>3. QED BY <2>1, <2>2, FS_Surjection
  <1>4. many \in SUBSET Int /\ many # {}
    BY <1>1
  <1>5. Max(many) \in many /\ \A y \in many : Max(many) >= y
    BY <1>3, <1>4, MaxOfNumbers
  <1>6. PICK i \in DOMAIN words : Matched(quote, words[i]) = Max(many)
    BY <1>5
  <1>7. i \in Closest(quote, words)
    <2>1. \A k \in DOMAIN words : Matched(quote, words[k]) <= Matched(quote, words[i])
      BY <1>1, <1>5, <1>6
    <2>2. QED BY <2>1 DEF Closest
  <1>8. ASSUME NEW k \in Closest(quote, words) PROVE Overlaps(quote, words[k])
    <2>1. k \in DOMAIN words /\ Matched(quote, words[j]) <= Matched(quote, words[k])
      BY <1>8 DEF Closest
    <2>2. Matched(quote, words[j]) * 100 <= Matched(quote, words[k]) * 100
      BY <1>1, <2>1
    <2>3. OverlapPercent * Len(ContentWords(quote)) \in Int
      BY <1>2, GroundingAssumption
    <2>4. Matched(quote, words[k]) * 100 >= OverlapPercent * Len(ContentWords(quote))
      <3> DEFINE p == OverlapPercent * Len(ContentWords(quote))
      <3>1. Matched(quote, words[j]) * 100 >= p
        BY DEF Overlaps
      <3>2. p \in Int
        BY <2>3
      <3> HIDE DEF p
      <3>3. Matched(quote, words[k]) * 100 >= p
        BY <1>1, <2>1, <3>1, <3>2
      <3>4. QED BY <3>3 DEF p
    <2>5. QED BY <2>4 DEF Overlaps
  <1>9. QED BY <1>7, <1>8

(* Evidence that is grounded points to where the quote is.                 *)
LEMMA EvidenceIsBacked ==
    ASSUME NEW quote \in Quotes, NEW X, NEW chunks \in Seq(X), NEW text
    PROVE  Backed(quote, FindEvidence(quote, chunks, text), chunks, text)
  <1> DEFINE n == Len(chunks)
             words == [i \in DOMAIN chunks |-> WordsOf(chunks[i].lines)]
             exact == {i \in DOMAIN chunks : IsIn(quote, words[i])}
             close == IF \E i \in DOMAIN chunks : Overlaps(quote, words[i]) THEN Closest(quote, words) ELSE {}
             whole == IsIn(quote, WordsOf(text)) \/ Overlaps(quote, WordsOf(text))
             evidence == FindEvidence(quote, chunks, text)
  <1> SUFFICES Backed(quote, evidence, chunks, text)
    OBVIOUS
  <1>1. n \in Nat /\ DOMAIN chunks = 1..n /\ DOMAIN words = 1..n
    OBVIOUS
  <1>2. \A i \in 1..n : words[i] = WordsOf(chunks[i].lines)
    BY <1>1
  <1>3. exact \subseteq 1..n /\ close \subseteq 1..n
    BY <1>1 DEF Closest
  <1>4. \A S \in SUBSET (1..n) : S # {} => Min(S) \in S /\ \A y \in S : Min(S) <= y
    <2>1. ASSUME NEW S \in SUBSET (1..n), S # {} PROVE Min(S) \in S /\ \A y \in S : Min(S) <= y
      <3>1. S \in SUBSET Nat
        OBVIOUS
      <3>2. QED BY <2>1, <3>1, MinOfNumbers
    <2>2. QED BY <2>1
  <1>5. CASE quote = NoQuote
    <2>1. evidence = Ungrounded
      BY <1>5 DEF FindEvidence
    <2>2. QED BY <2>1 DEF Backed, Ungrounded
  <1>6. CASE quote # NoQuote /\ exact # {}
    <2>1. evidence = [grounded |-> TRUE, index |-> Min(exact)]
      BY <1>6 DEF FindEvidence
    <2>2. Min(exact) \in exact /\ \A y \in exact : Min(exact) <= y
      BY <1>3, <1>4, <1>6
    <2>3. Min(exact) \in 1..n /\ IsIn(quote, words[Min(exact)])
      BY <1>3, <2>2
    <2>4. evidence.index = Min(exact) /\ Min(exact) # 0
      BY <2>1, <2>3
    <2>5. ASSUME NEW i \in 1..n, IsIn(quote, words[i]) PROVE Min(exact) \in 1..i
      <3>1. i \in exact
        BY <1>1, <2>5
      <3>2. Min(exact) <= i
        BY <2>2, <3>1
      <3>3. QED BY <2>3, <3>2
    <2>6. Backs(quote, WordsOf(chunks[Min(exact)].lines))
      <3> HIDE DEF exact, words
      <3>1. QED BY <1>2, <2>3 DEF Backs
    <2>7. \A i \in DOMAIN chunks : IsIn(quote, WordsOf(chunks[i].lines)) => Min(exact) \in 1..i
      <3> HIDE DEF exact, words
      <3>1. QED BY <1>1, <1>2, <2>5
    <2>8. evidence.index \in DOMAIN chunks /\ evidence.index # NoIndex
      BY <1>1, <2>3, <2>4 DEF NoIndex
    <2> HIDE DEF evidence, exact, words
    <2>9. QED BY <1>6, <2>4, <2>6, <2>7, <2>8, Zenon DEF Backed, Points
  <1>7. CASE quote # NoQuote /\ exact = {} /\ close # {}
    <2>1. evidence = [grounded |-> TRUE, index |-> Min(close)]
      BY <1>7 DEF FindEvidence
    <2>2. Min(close) \in close /\ Min(close) \in 1..n
      BY <1>3, <1>4, <1>7
    <2>3. PICK j \in 1..n : Overlaps(quote, words[j])
      BY <1>1, <1>7
    <2>4. close = Closest(quote, words)
      BY <1>7
    <2>5. quote \in Seq(STRING)
      BY <1>7 DEF Quotes
    <2>6. Overlaps(quote, words[Min(close)])
      <3> HIDE DEF words, close
      <3>1. \A i \in Closest(quote, words) : Overlaps(quote, words[i])
        BY <1>1, <2>3, <2>5, SomeClauseIsClosest
      <3>2. QED BY <2>2, <2>4, <3>1
    <2>7. evidence.index = Min(close) /\ Min(close) # 0
      BY <2>1, <2>2
    <2>8. \A i \in 1..n : ~IsIn(quote, words[i])
      BY <1>1, <1>7
    <2>9. Backs(quote, WordsOf(chunks[Min(close)].lines))
      <3> HIDE DEF close, words
      <3>1. QED BY <1>2, <2>2, <2>6 DEF Backs
    <2>10. \A i \in DOMAIN chunks : ~IsIn(quote, WordsOf(chunks[i].lines))
      <3> HIDE DEF words
      <3>1. QED BY <1>1, <1>2, <2>8
    <2>11. evidence.index \in DOMAIN chunks /\ evidence.index # NoIndex
      BY <1>1, <2>2, <2>7 DEF NoIndex
    <2> HIDE DEF evidence, exact, words, close
    <2>12. QED BY <1>7, <2>7, <2>9, <2>10, <2>11, Zenon DEF Backed, Points
  <1>8. CASE quote # NoQuote /\ exact = {} /\ close = {}
    <2>1. evidence = [grounded |-> whole, index |-> NoIndex]
      BY <1>8 DEF FindEvidence
    <2>2. \A i \in 1..n : ~IsIn(quote, words[i])
      BY <1>1, <1>8
    <2>3. evidence.index = NoIndex /\ evidence.grounded = whole
      <3> HIDE DEF whole
      <3>1. QED BY <2>1
    <2>4. evidence.grounded => Backs(quote, WordsOf(text))
      <3> HIDE DEF evidence
      <3>1. QED BY <2>3, Zenon DEF Backs
    <2>5. \A i \in DOMAIN chunks : ~IsIn(quote, WordsOf(chunks[i].lines))
      <3> HIDE DEF words
      <3>1. QED BY <1>1, <1>2, <2>2
    <2> HIDE DEF evidence, exact, words, close, whole
    <2>6. QED BY <1>8, <2>3, <2>4, <2>5, Zenon DEF Backed, Points
  <1>9. QED BY <1>5, <1>6, <1>7, <1>8

-----------------------------------------------------------------------------
(* Obligations of a reply.                                                 *)

\* What AddNew makes of a sequence, element by element.
AddNewFold(A, base, seq, result) ==
    \E acc \in [0..Len(seq) -> A] :
        /\ acc[0] = base
        /\ \A i \in 1..Len(seq) : acc[i] = AddNew(acc[i - 1], seq[i])
        /\ result = acc[Len(seq)]

(* The fold of ParseObligations.                                           *)
LEMMA FoldOfAddNew ==
    ASSUME NEW X, NEW seq \in Seq(X), NEW A, NEW base \in A,
           \A a \in A, x \in X : AddNew(a, x) \in A
    PROVE  AddNewFold(A, base, seq, FoldLeft(AddNew, base, seq))
  <1> DEFINE step == [p \in A \X X |-> AddNew(p[1], p[2])]
             Folds(it) == it = [s \in SUBSET DOMAIN seq |->
                                  IF s = {} THEN base ELSE AddNew(it[s \ {Max(s)}], seq[Max(s)])]
             chosen == CHOOSE it : Folds(it)
  <1>1. step \in [A \X X -> A] /\ \A a \in A, x \in X : step[<<a, x>>] = AddNew(a, x)
    OBVIOUS
  <1>2. FoldLeft(AddNew, base, seq) = chosen[DOMAIN seq]
    BY DEF FoldLeft, MapThenFoldSet
  <1> HIDE DEF step
  <1>3. PICK iter \in [SUBSET DOMAIN seq -> A] : FoldsLeft(seq, step, base, iter)
    BY <1>1, FoldLeftExists
  <1>4. \A s \in SUBSET DOMAIN seq : s # {} => Max(s) \in s /\ seq[Max(s)] \in X
    BY LastPlace
  <1>5. Folds(iter)
    <2>1. ASSUME NEW s \in SUBSET DOMAIN seq, s # {}
          PROVE  iter[s] = AddNew(iter[s \ {Max(s)}], seq[Max(s)])
      <3>1. iter[s] = step[<<iter[s \ {Max(s)}], seq[Max(s)]>>]
        BY <1>3, <2>1 DEF FoldsLeft
      <3>2. iter[s \ {Max(s)}] \in A /\ seq[Max(s)] \in X
        BY <1>4, <2>1
      <3>3. QED BY <1>1, <3>1, <3>2
    <2>2. iter[{}] = base
      BY <1>3 DEF FoldsLeft
    <2>3. QED BY <2>1, <2>2
  <1>6. Folds(chosen)
    BY <1>5
  <1> HIDE DEF chosen
  <1>7. FoldsLeftIn(A, seq, step, base, chosen)
    <2>1. chosen[{}] = base
      BY <1>6
    <2>2. ASSUME NEW s \in SUBSET DOMAIN seq, s # {}, chosen[s \ {Max(s)}] \in A
          PROVE  chosen[s] = step[<<chosen[s \ {Max(s)}], seq[Max(s)]>>]
      <3>1. chosen[s] = AddNew(chosen[s \ {Max(s)}], seq[Max(s)])
        BY <1>6, <2>2
      <3>2. QED BY <1>1, <1>4, <2>2, <3>1
    <2>3. QED BY <2>1, <2>2 DEF FoldsLeftIn
  <1>8. Accumulated(A, seq, step, base, chosen[DOMAIN seq])
    BY <1>1, <1>7, FoldLeftAccumulates, Zenon
  <1>9. PICK acc \in [0..Len(seq) -> A] : Accumulates(seq, step, base, acc) /\ chosen[DOMAIN seq] = acc[Len(seq)]
    BY <1>8 DEF Accumulated
  <1>10. ASSUME NEW i \in 1..Len(seq)
         PROVE  acc[i] = AddNew(acc[i - 1], seq[i])
    <2>1. acc[i - 1] \in A /\ seq[i] \in X
      OBVIOUS
    <2>2. acc[i] = step[<<acc[i - 1], seq[i]>>]
      BY <1>9 DEF Accumulates
    <2>3. QED BY <1>1, <2>1, <2>2
  <1>11. QED BY <1>2, <1>9, <1>10 DEF Accumulates, AddNewFold

(* Obligations whose evidence is where they say, if they have any.         *)
ObligationsBacked(obligations, chunks, text) ==
    /\ obligations \in Seq(ToSet(obligations))
    /\ \A o \in ToSet(obligations) :
          o.quote \in Quotes /\ (o.grounded => Points(o.quote, o.index, chunks, text))

(* So does that of every obligation that a reply gives.                    *)
LEMMA ObligationsAreBacked ==
    ASSUME NEW items \in Seq(Item), NEW X, NEW chunks \in Seq(X), NEW text
    PROVE  ObligationsBacked(ParseObligations(items, chunks, text), chunks, text)
  <1> DEFINE given == Kept(items, {item \in ToSet(items) : item.isObject})
             Obligation(item) ==
               LET evidence == FindEvidence(item.quote, chunks, text)
               IN  [duty |-> item.duty, deadline |-> item.deadline, quote |-> item.quote,
                    category |-> IF item.category \in Categories THEN item.category ELSE "other",
                    grounded |-> evidence.grounded, index |-> evidence.index]
             parsed == [i \in DOMAIN given |-> Obligation(given[i])]
             obligations == FoldLeft(AddNew, <<>>, parsed)
             P == ToSet(parsed)
  <1>1. given \in Seq(Item) /\ ToSet(given) = ToSet(items) \cap {item \in ToSet(items) : item.isObject}
    BY KeptProperties
  <1> HIDE DEF given
  <1>2. ASSUME NEW i \in DOMAIN given
        PROVE  /\ parsed[i].quote \in Quotes
               /\ parsed[i].grounded => Points(parsed[i].quote, parsed[i].index, chunks, text)
    <2> DEFINE evidence == FindEvidence(given[i].quote, chunks, text)
    <2>1. given[i] \in ToSet(given)
      BY DEF ToSet
    <2>2. given[i] \in Item /\ given[i].isObject
      BY <1>1, <2>1
    <2>3. given[i].quote \in Quotes
      BY <2>2 DEF Item
    <2>4. Backed(given[i].quote, evidence, chunks, text)
      BY <2>3, EvidenceIsBacked
    <2>5. /\ parsed[i].grounded = evidence.grounded /\ parsed[i].quote = given[i].quote
          /\ parsed[i].index = evidence.index
      OBVIOUS
    <2> HIDE DEF evidence, parsed
    <2>6. QED BY <2>3, <2>4, <2>5 DEF Backed
  <1>3. parsed \in Seq(P)
    <2>1. DOMAIN parsed = 1..Len(given) /\ Len(given) \in Nat
      BY <1>1
    <2> HIDE DEF parsed, P
    <2>2. parsed = [i \in 1..Len(given) |-> parsed[i]]
      BY <2>1 DEF parsed
    <2>3. \A i \in 1..Len(given) : parsed[i] \in P
      BY <2>1 DEF P, ToSet
    <2>4. QED BY <2>1, <2>2, <2>3
  <1>4. \A o \in P : o.quote \in Quotes /\ (o.grounded => Points(o.quote, o.index, chunks, text))
    <2> HIDE DEF parsed
    <2>1. ASSUME NEW o \in P PROVE o.quote \in Quotes /\ (o.grounded => Points(o.quote, o.index, chunks, text))
      <3>1. PICK i \in DOMAIN given : o = parsed[i]
        BY DEF ToSet, parsed
      <3>2. QED BY <1>2, <3>1
    <2>2. QED BY <2>1
  <1>5. obligations \in Seq(P)
    <2> DEFINE A == Seq(P)
               base == <<>>
    <2>1. base \in A
      OBVIOUS
    <2>2. ASSUME NEW a \in A, NEW o \in P PROVE AddNew(a, o) \in A
      BY DEF AddNew
    <2> HIDE DEF A, P, parsed, base
    <2>3. AddNewFold(A, base, parsed, FoldLeft(AddNew, base, parsed))
      BY <1>3, <2>1, <2>2, FoldOfAddNew, Zenon
    <2>4. Len(parsed) \in 0..Len(parsed)
      BY <1>3
    <2>5. FoldLeft(AddNew, base, parsed) \in A
      BY <2>3, <2>4 DEF AddNewFold
    <2>6. QED BY <2>5 DEF A, base
  <1>6. ParseObligations(items, chunks, text) = obligations
    BY DEF ParseObligations, given
  <1> HIDE DEF obligations, P
  <1>7. obligations \in Seq(ToSet(obligations)) /\ ToSet(obligations) \subseteq P
    BY <1>5, SeqOfItsElements
  <1>8. QED BY <1>4, <1>6, <1>7 DEF ObligationsBacked

-----------------------------------------------------------------------------
(* Overviews.                                                              *)

(* An overview whose evidence is where it says, if it has any.             *)
OverviewBacked(result, chunks, text) ==
    /\ \A o \in ToSet(result.obligations) : o.grounded => Points(o.quote, o.index, chunks, text)
    /\ \A k \in OverviewFields :
          result.fields[k].status \in {"found", "unclear"}
            => Points(result.fields[k].quote, result.fields[k].index, chunks, text)

(* A field of an overview that has a value is quoted.                      *)
LEMMA FieldIsBacked ==
    ASSUME NEW entry, entry.quote \in Quotes, NEW X, NEW chunks \in Seq(X), NEW text,
           GroundField(entry, chunks, text).status \in {"found", "unclear"}
    PROVE  Points(GroundField(entry, chunks, text).quote, GroundField(entry, chunks, text).index, chunks, text)
  <1> DEFINE status == IF entry.status \in Statuses THEN entry.status ELSE "insufficient_evidence"
             claims == status \in {"found", "unclear"}
             evidence == FindEvidence(entry.quote, chunks, text)
             f == GroundField(entry, chunks, text)
  <1>1. Backed(entry.quote, evidence, chunks, text)
    BY EvidenceIsBacked
  <1> HIDE DEF evidence
  <1>2. CASE claims /\ evidence.grounded
    <2>1. f = [status |-> status, quote |-> entry.quote, index |-> evidence.index]
      BY <1>2 DEF GroundField, evidence
    <2>2. f.quote = entry.quote /\ f.index = evidence.index
      BY <2>1
    <2> HIDE DEF f
    <2>3. Points(f.quote, f.index, chunks, text)
      BY <1>1, <1>2, <2>2 DEF Backed
    <2>4. QED BY <2>3 DEF f
  <1>3. CASE claims /\ ~evidence.grounded
    <2>1. f = [status |-> "insufficient_evidence", quote |-> NoQuote, index |-> NoIndex]
      BY <1>3 DEF GroundField, evidence
    <2>2. QED BY <2>1
  <1>4. CASE ~claims
    <2>1. f = [status |-> status, quote |-> NoQuote, index |-> NoIndex]
      BY <1>4 DEF GroundField, evidence
    <2>2. QED BY <1>4, <2>1
  <1>5. QED BY <1>2, <1>3, <1>4

(* So are its obligations.                                                 *)
LEMMA ItemsAreBacked ==
    ASSUME NEW items \in Seq(Item), NEW X, NEW chunks \in Seq(X), NEW text
    PROVE  \A o \in ToSet(GroundItems(items, chunks, text)) :
              o.grounded => Points(o.quote, o.index, chunks, text)
  <1> DEFINE nonempty == Kept(items, {item \in ToSet(items) : item.duty.name # ""})
             QuoteOf(item) == IF item.isObject THEN item.quote ELSE NoQuote
             Grounded(item) ==
               LET evidence == FindEvidence(QuoteOf(item), chunks, text)
               IN  [duty |-> item.duty, quote |-> QuoteOf(item),
                    grounded |-> evidence.grounded, index |-> evidence.index]
             result == [i \in DOMAIN nonempty |-> Grounded(nonempty[i])]
  <1>1. nonempty \in Seq(Item)
    BY KeptProperties
  <1> HIDE DEF nonempty
  <1>2. ASSUME NEW i \in DOMAIN nonempty
        PROVE  result[i].grounded => Points(result[i].quote, result[i].index, chunks, text)
    <2> DEFINE q == QuoteOf(nonempty[i])
               evidence == FindEvidence(q, chunks, text)
    <2>1. nonempty[i] \in Item
      BY <1>1
    <2>2. q \in Quotes
      BY <2>1 DEF Item, Quotes
    <2>3. Backed(q, evidence, chunks, text)
      BY <2>2, EvidenceIsBacked
    <2>4. result[i].grounded = evidence.grounded /\ result[i].quote = q /\ result[i].index = evidence.index
      OBVIOUS
    <2> HIDE DEF evidence, q, result
    <2>5. QED BY <2>3, <2>4 DEF Backed
  <1>3. GroundItems(items, chunks, text) = result
    BY DEF GroundItems, nonempty
  <1>4. DOMAIN result = DOMAIN nonempty
    OBVIOUS
  <1> HIDE DEF result
  <1>5. QED BY <1>2, <1>3, <1>4 DEF ToSet

(* The whole overview.                                                     *)
LEMMA OverviewIsBacked ==
    ASSUME NEW reply \in ExtractionReplies, NEW X, NEW chunks \in Seq(X), NEW text
    PROVE  OverviewBacked(ParseOverview(reply, chunks, text), chunks, text)
  <1> DEFINE none == [status |-> "", quote |-> NoQuote]
             Entry(f) == IF f \in DOMAIN reply.fields THEN reply.fields[f] ELSE none
             fields == [f \in OverviewFields |-> GroundField(Entry(f), chunks, text)]
             result == ParseOverview(reply, chunks, text)
  <1>1. result = [fields |-> fields, obligations |-> GroundItems(reply.items, chunks, text)]
    BY DEF ParseOverview
  <1>2. result.fields = fields /\ result.obligations = GroundItems(reply.items, chunks, text)
    <2> HIDE DEF fields, result
    <2>1. QED BY <1>1
  <1>3. \A f \in OverviewFields : Entry(f).quote \in Quotes
    BY ReadingAssumption DEF Quotes
  <1>4. ASSUME NEW k \in OverviewFields, fields[k].status \in {"found", "unclear"}
        PROVE  Points(fields[k].quote, fields[k].index, chunks, text)
    <2>1. fields[k] = GroundField(Entry(k), chunks, text) /\ Entry(k).quote \in Quotes
      BY <1>3
    <2> HIDE DEF fields, Entry
    <2>2. QED BY <1>4, <2>1, FieldIsBacked
  <1>5. \A o \in ToSet(GroundItems(reply.items, chunks, text)) :
           o.grounded => Points(o.quote, o.index, chunks, text)
    BY ItemsAreBacked, ReadingAssumption
  <1> HIDE DEF fields, result
  <1>6. QED BY <1>2, <1>4, <1>5 DEF OverviewBacked, result

-----------------------------------------------------------------------------
(* What a step may put on the screen.                                      *)
Screens ==
    \/ \E d \in Docs : GetScans(d)
    \/ \E d, e \in Docs : Compare(d, e)
    \/ \E d \in Docs, reply \in ExtractionReplies : GetOverview(d, reply)
    \/ \E d \in Docs, reply \in ExtractionReplies : GetReview(d, reply)
    \/ \E d \in Docs, reply \in ExtractionReplies : Summarize(d, reply)
    \/ \E reply \in AnswerReplies : AnswerChat(reply) \/ AnswerScenario(reply) \/ AnswerAcross(reply)

(* What a step shows is one of these, the same as before, or nothing.      *)
LEMMA ScreenSteps ==
    ASSUME [Next]_vars
    PROVE  /\ pages' = pages /\ old' = old
           /\ Screens \/ shown' \in {shown, Nothing}
  <1>1. CASE UNCHANGED vars
    BY <1>1 DEF vars
  <1>2. CASE \E d \in Deletable : DeleteVectors(d) \/ DeleteRow(d)
    BY <1>2 DEF DeleteVectors, DeleteRow
  <1>3. CASE \E d \in Docs : GetScans(d)
    BY <1>3 DEF Screens, GetScans, Show
  <1>4. CASE \E d, e \in Docs : Compare(d, e)
    BY <1>4 DEF Screens, Compare, Show
  <1>5. CASE \E d \in Docs, reply \in ExtractionReplies :
                GetOverview(d, reply) \/ GetReview(d, reply) \/ Summarize(d, reply)
    BY <1>5 DEF Screens, GetOverview, GetReview, Summarize, Show
  <1>6. CASE \E d \in Docs : AskChat(d) \/ AskScenario(d)
    BY <1>6 DEF AskChat, AskScenario, Begin
  <1>7. CASE \E ds \in BoundedSeq(Docs, MaxAsked) : AskAcross(ds)
    BY <1>7 DEF AskAcross, Begin
  <1>8. CASE DenseQuery \/ ReadCorpus \/ RankClauses
    BY <1>8 DEF DenseQuery, ReadCorpus, RankClauses, Retrieved
  <1>9. CASE \E reply \in AnswerReplies : AnswerChat(reply) \/ AnswerScenario(reply) \/ AnswerAcross(reply)
    BY <1>9 DEF Screens, AnswerChat, AnswerScenario, AnswerAcross, Show
  <1>10. CASE Close
    BY <1>10 DEF Close
  <1>11. QED BY <1>1, <1>2, <1>3, <1>4, <1>5, <1>6, <1>7, <1>8, <1>9, <1>10 DEF Next

-----------------------------------------------------------------------------
(* What a report quotes.                                                   *)

(* The clauses of a document and their lines.                              *)
LEMMA ClausesAreChunks ==
    ASSUME StoredInv, NEW d \in Docs
    PROVE  Clauses(d) \in Seq(ChunkSet(ToSet(Text(d)))) /\ LinesOf(Clauses(d)) = Text(d)
  <1>1. Clauses(d) = ChunkDocument(Text(d)) /\ Text(d) \in Seq(Line)
    BY FilesAreRead
  <1> DEFINE text == Text(d)
             clauses == Clauses(d)
             L == ToSet(text)
             most == Longest(text) + MinChars + 1
  <1>2. LinesOf(clauses) = text /\ clauses \in Seq(ChunksUpTo(L, most))
    <2> HIDE DEF text, clauses
    <2>1. QED BY <1>1, ClausesCover DEF text, clauses
  <1> HIDE DEF L, most, text, clauses
  <1>3. clauses \in Seq(ChunkSet(L))
    BY <1>2, ChunksAreChunks
  <1>4. QED BY <1>2, <1>3 DEF L, text, clauses

(* A report is shown unless there is an error.                             *)
LEMMA ShownReport ==
    ASSUME NEW reply, NEW result
    PROVE  /\ Generated(reply, result) \in {[kind |-> "error_503"], [kind |-> "error_500"], result}
           /\ Parsed(reply, result) \in {[kind |-> "parse_error"], result}
  BY DEF Generated, Parsed

(* Without a report there is nothing to show.                              *)
LEMMA QuotedOnlyInReports ==
    ASSUME shown'.kind \notin {"review", "overview"}
    PROVE  EvidenceIsWhereItPoints'
  <1>1. Quoted' = {}
    BY DEF Quoted
  <1>2. QED BY <1>1 DEF EvidenceIsWhereItPoints

(* The property, with Points for its body.                                 *)
LEMMA QuotedIsBacked ==
    ASSUME \A o \in Quoted' : Points(o.quote, o.index, Clauses(shown.doc)', Text(shown.doc)')
    PROVE  EvidenceIsWhereItPoints'
  BY DEF EvidenceIsWhereItPoints, Points, Supports, Backs, IsBlank

(* An error is no report.                                                  *)
LEMMA ErrorIsNoReport ==
    ASSUME NEW screen, shown' # screen,
           shown' \in {[kind |-> "error_503"], [kind |-> "error_500"], [kind |-> "parse_error"], screen}
    PROVE  shown'.kind \notin {"review", "overview"}
  <1>1. CASE shown' = [kind |-> "error_503"]
    BY <1>1
  <1>2. CASE shown' = [kind |-> "error_500"]
    BY <1>2
  <1>3. CASE shown' = [kind |-> "parse_error"]
    BY <1>3
  <1>4. QED BY <1>1, <1>2, <1>3

(* Showing an overview.                                                    *)
LEMMA OverviewShown ==
    ASSUME StoredInv, NEW d \in Docs, NEW reply \in ExtractionReplies, GetOverview(d, reply)
    PROVE  EvidenceIsWhereItPoints'
  <1> DEFINE result == ParseOverview(reply, Clauses(d), Text(d))
             screen == [kind |-> "overview", doc |-> d, result |-> result]
  <1>1. shown' = Generated(reply, Parsed(reply, screen)) /\ pages' = pages
    BY DEF GetOverview, Show
  <1> HIDE DEF result
  <1>2. shown' \in {[kind |-> "error_503"], [kind |-> "error_500"], [kind |-> "parse_error"], screen}
    <2>1. Generated(reply, Parsed(reply, screen))
             \in {[kind |-> "error_503"], [kind |-> "error_500"], Parsed(reply, screen)}
      BY ShownReport, Zenon
    <2>2. Parsed(reply, screen) \in {[kind |-> "parse_error"], screen}
      BY ShownReport, Zenon
    <2> HIDE DEF screen
    <2>3. QED BY <1>1, <2>1, <2>2
  <1>3. CASE shown' = screen
    <2>1. OverviewBacked(result, Clauses(d), Text(d))
      BY ClausesAreChunks, OverviewIsBacked DEF result
    <2>2. shown'.kind = "overview" /\ shown'.doc = d /\ shown'.result = result
      BY <1>3
    <2>3. Clauses(d)' = Clauses(d) /\ Text(d)' = Text(d)
      BY <1>1 DEF Clauses, Text
    <2>4. \A o \in Quoted' : Points(o.quote, o.index, Clauses(d), Text(d))
      BY <2>1, <2>2 DEF Quoted, OverviewBacked
    <2>5. \A o \in Quoted' : Points(o.quote, o.index, Clauses(shown.doc)', Text(shown.doc)')
      BY <1>1, <2>2, <2>4 DEF Clauses, Text
    <2>6. QED BY <2>5, QuotedIsBacked
  <1>4. CASE shown' # screen
    <2>1. shown'.kind \notin {"review", "overview"}
      <3> HIDE DEF screen
      <3>1. QED BY <1>2, <1>4, ErrorIsNoReport
    <2>2. QED BY <2>1, QuotedOnlyInReports
  <1>5. QED BY <1>3, <1>4

(* Showing a review.                                                       *)
LEMMA ReviewShown ==
    ASSUME StoredInv, NEW d \in Docs, NEW reply \in ExtractionReplies, GetReview(d, reply)
    PROVE  EvidenceIsWhereItPoints'
  <1> DEFINE items == IF reply.form = "prose" THEN <<>> ELSE reply.items
             obligations == ParseObligations(items, Clauses(d), Text(d))
             result == BuildReview(FlagRisks(Clauses(d)), CheckCoverage(Clauses(d)), FindContradictions(obligations))
             screen == [kind |-> "review", doc |-> d, obligations |-> obligations, result |-> result]
  <1>1. shown' = Generated(reply, screen) /\ pages' = pages
    BY DEF GetReview, Show
  <1>2. items \in Seq(Item)
    BY ReadingAssumption
  <1> HIDE DEF items
  <1>3. ObligationsBacked(obligations, Clauses(d), Text(d))
    BY <1>2, ClausesAreChunks, ObligationsAreBacked
  <1> HIDE DEF result, obligations
  <1>4. shown' \in {[kind |-> "error_503"], [kind |-> "error_500"], screen}
    BY <1>1, ShownReport, Zenon
  <1>5. CASE shown' = screen
    <2>1. shown'.kind = "review" /\ shown'.doc = d /\ shown'.obligations = obligations
      BY <1>5
    <2>2. \A o \in Quoted' : Points(o.quote, o.index, Clauses(d), Text(d))
      BY <1>3, <2>1 DEF Quoted, ObligationsBacked
    <2>3. \A o \in Quoted' : Points(o.quote, o.index, Clauses(shown.doc)', Text(shown.doc)')
      BY <1>1, <2>1, <2>2 DEF Clauses, Text
    <2>4. QED BY <2>3, QuotedIsBacked
  <1>6. CASE shown' # screen
    <2>1. shown'.kind \notin {"review", "overview"}
      <3> HIDE DEF screen
      <3>1. QED BY <1>4, <1>6, ErrorIsNoReport
    <2>2. QED BY <2>1, QuotedOnlyInReports
  <1>7. QED BY <1>5, <1>6

(* The kinds of the errors.                                                *)
LEMMA ErrorKinds ==
    \A x : x \in {[kind |-> "error_503"], [kind |-> "error_500"]} => x.kind \in {"error_500", "error_503"}
  OBVIOUS

(* Showing an answer.                                                      *)
LEMMA ResultShown ==
    ASSUME NEW reply, NEW answer, NEW trace, shown' = Result(reply, answer, trace)
    PROVE  shown'.kind \in {"answer", "error_500", "error_503"}
  <1> DEFINE screen == [kind |-> "answer", question |-> asked.kind, docs |-> asked.docs,
                        answer |-> answer, trace |-> trace]
  <1>1. shown' = (IF asked.hits = <<>> THEN screen ELSE Generated(reply, screen)) /\ screen.kind = "answer"
    BY DEF Result
  <1> HIDE DEF screen
  <1>2. Generated(reply, screen) \in {[kind |-> "error_503"], [kind |-> "error_500"], screen}
    BY ShownReport, Zenon
  <1>3. \A x : x \in {[kind |-> "error_503"], [kind |-> "error_500"]} => x.kind \in {"error_500", "error_503"}
    BY ErrorKinds
  <1>4. shown' \in {[kind |-> "error_503"], [kind |-> "error_500"]} \/ shown' = screen
    BY <1>1, <1>2
  <1>5. QED BY <1>1, <1>3, <1>4

(* The other screens.                                                      *)
LEMMA OtherScreens ==
    ASSUME \/ \E d \in Docs : GetScans(d)
           \/ \E d, e \in Docs : Compare(d, e)
           \/ \E d \in Docs, reply \in ExtractionReplies : Summarize(d, reply)
           \/ \E reply \in AnswerReplies : AnswerChat(reply) \/ AnswerScenario(reply) \/ AnswerAcross(reply)
    PROVE  shown'.kind \notin {"review", "overview"}
  <1>1. CASE \E d \in Docs : GetScans(d)
    BY <1>1 DEF GetScans, Show
  <1>2. CASE \E d, e \in Docs : Compare(d, e)
    BY <1>2 DEF Compare, Show
  <1>3. CASE \E d \in Docs, reply \in ExtractionReplies : Summarize(d, reply)
    <2>1. PICK d \in Docs, reply \in ExtractionReplies : Summarize(d, reply)
      BY <1>3
    <2> DEFINE screen == [kind |-> "summary", doc |-> d,
                          obligations |-> [i \in DOMAIN reply.items |-> reply.items[i].duty]]
    <2>2. shown' = Generated(reply, Parsed(reply, screen)) /\ screen.kind = "summary"
      BY <2>1 DEF Summarize, Show
    <2> HIDE DEF screen
    <2>3. /\ Generated(reply, Parsed(reply, screen))
                \in {[kind |-> "error_503"], [kind |-> "error_500"], Parsed(reply, screen)}
          /\ Parsed(reply, screen) \in {[kind |-> "parse_error"], screen}
      BY ShownReport, Zenon
    <2>4. shown' \in {[kind |-> "error_503"], [kind |-> "error_500"], [kind |-> "parse_error"], screen}
      BY <2>2, <2>3
    <2>5. QED BY <2>2, <2>4, ErrorIsNoReport
  <1>4. CASE \E reply \in AnswerReplies : AnswerChat(reply) \/ AnswerScenario(reply) \/ AnswerAcross(reply)
    <2>1. PICK reply \in AnswerReplies : AnswerChat(reply) \/ AnswerScenario(reply) \/ AnswerAcross(reply)
      BY <1>4
    <2>2. PICK answer, trace : shown' = Result(reply, answer, trace)
      BY <2>1 DEF AnswerChat, AnswerScenario, AnswerAcross, Show
    <2>3. QED BY <2>2, ResultShown
  <1>5. QED BY <1>1, <1>2, <1>3, <1>4

(* A finding that is shown as grounded, an obligation or a field, has its  *)
(* quote in the clause it points to, or supported by it.                   *)
THEOREM EvidencePointsRight == Spec => []EvidenceIsWhereItPoints
  <1> DEFINE IInv == StoredInv /\ EvidenceIsWhereItPoints
  <1>1. ASSUME Init PROVE IInv
    <2>1. shown.kind = "nothing"
      BY <1>1 DEF Init, Nothing
    <2>2. EvidenceIsWhereItPoints
      BY <2>1 DEF EvidenceIsWhereItPoints, Quoted
    <2>3. QED BY <1>1, <2>2, StoredInit
  <1>2. ASSUME IInv, [Next]_vars PROVE IInv'
    <2>1. StoredInv'
      BY <1>2, StoredStep
    <2>2. pages' = pages
      BY <1>2, ScreenSteps
    <2>3. CASE shown' = shown
      BY <1>2, <2>1, <2>2, <2>3 DEF EvidenceIsWhereItPoints, Quoted, Clauses, Text
    <2>4. CASE shown' = Nothing
      <3>1. shown'.kind = "nothing"
        BY <2>4 DEF Nothing
      <3>2. EvidenceIsWhereItPoints'
        BY <3>1, QuotedOnlyInReports
      <3>3. QED BY <2>1, <3>2
    <2>5. CASE \E d \in Docs, reply \in ExtractionReplies : GetOverview(d, reply)
      BY <1>2, <2>1, <2>5, OverviewShown
    <2>6. CASE \E d \in Docs, reply \in ExtractionReplies : GetReview(d, reply)
      BY <1>2, <2>1, <2>6, ReviewShown
    <2>7. ASSUME shown'.kind \notin {"review", "overview"} PROVE EvidenceIsWhereItPoints'
      BY <2>7, QuotedOnlyInReports
    <2>8. QED BY <1>2, <2>1, <2>3, <2>4, <2>5, <2>6, <2>7, ScreenSteps, OtherScreens DEF Screens
  <1>3. QED BY <1>1, <1>2, PTL DEF Spec

-----------------------------------------------------------------------------
(* Rule-based scans.                                                       *)
Severities == {"high", "medium", "low"}

(* The names of the rules.                                                 *)
RuleNames == {RiskRules[i].rule : i \in DOMAIN RiskRules}

(* A rule.                                                                 *)
RiskRule == [severity : Severities, rule : RuleNames]

(* The rules are listed by severity, and no low one shares a name with a higher one. *)
LEMMA RiskRulesAre ==
    /\ RiskRules \in Seq(RiskRule) /\ DOMAIN RiskRules = 1..13
    /\ \A i \in 1..6 : RiskRules[i].severity = "high"
    /\ \A i \in 7..11 : RiskRules[i].severity = "medium"
    /\ \A i \in 12..13 : RiskRules[i].severity = "low" /\ \A j \in 1..11 : RiskRules[i].rule # RiskRules[j].rule
  <1>1. RiskRules \in Seq(RiskRule)
    <2>1. Len(RiskRules) = 13 /\ DOMAIN RiskRules = 1..13
      BY DEF RiskRules
    <2>2. \A i \in 1..13 : RiskRules[i] \in RiskRule
      <3>1. \A i \in 1..13 : RiskRules[i].severity \in Severities
        BY DEF RiskRules, Risk, Severities
      <3>2. \A i \in 1..13 : RiskRules[i].rule \in RuleNames
        BY <2>1 DEF RuleNames
      <3>3. \A i \in 1..13 : RiskRules[i] = [severity |-> RiskRules[i].severity, rule |-> RiskRules[i].rule]
        BY DEF RiskRules, Risk
      <3>4. QED BY <3>1, <3>2, <3>3 DEF RiskRule
    <2>3. RiskRules = [i \in 1..13 |-> RiskRules[i]]
      BY DEF RiskRules
    <2>4. QED BY <2>1, <2>2, <2>3
  <1>2. Len(RiskRules) = 13
    BY DEF RiskRules
  <1>3. \A i \in 1..6 : RiskRules[i].severity = "high"
    BY DEF RiskRules, Risk
  <1>4. \A i \in 7..11 : RiskRules[i].severity = "medium"
    BY DEF RiskRules, Risk
  <1>5. \A i \in 12..13 : RiskRules[i].severity = "low" /\ \A j \in 1..11 : RiskRules[i].rule # RiskRules[j].rule
    BY DEF RiskRules, Risk
  <1>6. QED BY <1>1, <1>2, <1>3, <1>4, <1>5

(* Sorting findings by severity neither loses nor adds any.                *)
LEMMA BySeverityOnlyOrders ==
    ASSUME NEW X, NEW items \in Seq(X), \A x \in X : x.severity \in Severities
    PROVE  BySeverity(items) \in Seq(X) /\ ToSet(BySeverity(items)) = ToSet(items)
  <1> DEFINE With(s) == {x \in ToSet(items) : x.severity = s}
             Of(s) == Kept(items, With(s))
  <1>1. \A s \in Severities : Of(s) \in Seq(X) /\ ToSet(Of(s)) = With(s)
    BY KeptProperties
  <1>2. BySeverity(items) = Of("high") \o Of("medium") \o Of("low")
    BY DEF BySeverity
  <1>3. \A x \in ToSet(items) : x.severity \in Severities
    BY DEF ToSet
  <1>4. ToSet(items) = With("high") \cup With("medium") \cup With("low")
    BY <1>3 DEF Severities
  <1> DEFINE h == Of("high")
             m == Of("medium")
             l == Of("low")
  <1>5. /\ h \in Seq(X) /\ m \in Seq(X) /\ l \in Seq(X)
        /\ ToSet(h) = With("high") /\ ToSet(m) = With("medium") /\ ToSet(l) = With("low")
        /\ BySeverity(items) = h \o m \o l
    BY <1>1, <1>2 DEF Severities
  <1> HIDE DEF h, m, l, With
  <1> DEFINE hm == h \o m
  <1>6. hm \in Seq(X) /\ ToSet(hm) = ToSet(h) \cup ToSet(m)
    BY <1>5, ElementsOfConcat
  <1> HIDE DEF hm
  <1>7. hm \o l \in Seq(X) /\ ToSet(hm \o l) = ToSet(hm) \cup ToSet(l)
    BY <1>5, <1>6, ElementsOfConcat
  <1>8. QED BY <1>4, <1>5, <1>6, <1>7 DEF hm

-----------------------------------------------------------------------------
(* Findings of the scans.                                                  *)

(* A finding.                                                              *)
Finding == [rule : RuleNames, severity : Severities, index : Nat]

(* One finding for each rule that matches in a clause.                     *)
IsFinding(f, chunks) ==
    \E i \in DOMAIN chunks, r \in ToSet(RiskRules) :
        r.rule \in RulesIn(chunks[i]) /\ f = [rule |-> r.rule, severity |-> r.severity, index |-> i]

(* The findings of a document are those of its clauses.                    *)
LEMMA FindingsAre ==
    ASSUME NEW X, NEW chunks \in Seq(X)
    PROVE  /\ FlagRisks(chunks) \in Seq(Finding)
           /\ \A f : f \in ToSet(FlagRisks(chunks)) <=> IsFinding(f, chunks)
  <1> DEFINE Fires(i) == {r \in ToSet(RiskRules) : r.rule \in RulesIn(chunks[i])}
             In(i) == Kept(RiskRules, Fires(i))
             Found(i) == [k \in DOMAIN In(i) |->
                            [rule |-> In(i)[k].rule, severity |-> In(i)[k].severity, index |-> i]]
             parts == [i \in DOMAIN chunks |-> Found(i)]
             all == FlattenSeq(parts)
             A == Seq(Finding)
  <1>1. DOMAIN chunks = 1..Len(chunks) /\ Len(chunks) \in Nat
    OBVIOUS
  <1>2. ASSUME NEW i \in DOMAIN chunks
        PROVE  /\ Found(i) \in A
               /\ \A f : f \in ToSet(Found(i)) <=>
                     \E r \in Fires(i) : f = [rule |-> r.rule, severity |-> r.severity, index |-> i]
    <2> DEFINE in == In(i)
    <2>1. in \in Seq(RiskRule) /\ ToSet(in) = ToSet(RiskRules) \cap Fires(i)
      BY RiskRulesAre, KeptProperties
    <2>2. ToSet(in) = Fires(i)
      BY <2>1
    <2>3. Found(i) = [k \in DOMAIN in |-> [rule |-> in[k].rule, severity |-> in[k].severity, index |-> i]]
      OBVIOUS
    <2> DEFINE found == Found(i)
    <2> HIDE DEF in, Fires, found
    <2>4. i \in Nat
      BY <1>1
    <2>5. \A k \in DOMAIN in : in[k] \in RiskRule /\ in[k] \in ToSet(in)
      BY <2>1 DEF ToSet
    <2>6. found \in Seq(Finding)
      <3>1. \A k \in DOMAIN in : [rule |-> in[k].rule, severity |-> in[k].severity, index |-> i] \in Finding
        BY <2>4, <2>5 DEF RiskRule, Finding
      <3>2. DOMAIN in = 1..Len(in) /\ Len(in) \in Nat
        BY <2>1
      <3>3. found = [k \in 1..Len(in) |-> found[k]] /\ DOMAIN found = 1..Len(in)
        BY <2>3, <3>2 DEF found
      <3>4. \A k \in 1..Len(in) : found[k] \in Finding
        BY <2>3, <3>1, <3>2 DEF found
      <3>5. QED BY <3>2, <3>3, <3>4
    <2>7. ASSUME NEW f
          PROVE  f \in ToSet(found) <=>
                    \E r \in Fires(i) : f = [rule |-> r.rule, severity |-> r.severity, index |-> i]
      <3>1. ASSUME f \in ToSet(found)
            PROVE  \E r \in Fires(i) : f = [rule |-> r.rule, severity |-> r.severity, index |-> i]
        <4>1. DOMAIN found = DOMAIN in
          BY <2>3 DEF found
        <4>2. PICK k \in DOMAIN in : f = found[k]
          BY <3>1, <4>1 DEF ToSet
        <4>3. f = [rule |-> in[k].rule, severity |-> in[k].severity, index |-> i]
          BY <2>3, <4>2 DEF found
        <4>4. QED BY <2>2, <2>5, <4>3
      <3>2. ASSUME NEW r \in Fires(i), f = [rule |-> r.rule, severity |-> r.severity, index |-> i]
            PROVE  f \in ToSet(found)
        <4>1. PICK k \in DOMAIN in : r = in[k]
          BY <2>2 DEF ToSet
        <4>2. DOMAIN found = DOMAIN in /\ found[k] = f
          BY <2>3, <3>2, <4>1 DEF found
        <4>3. QED BY <4>2 DEF ToSet
      <3>3. QED BY <3>1, <3>2
    <2>8. QED BY <2>6, <2>7 DEF found
  <1> HIDE DEF Found, A
  <1>3. parts \in Seq(A)
    BY <1>1, <1>2
  <1>4. all \in Seq(Finding) /\ ToSet(all) = UNION {ToSet(parts[i]) : i \in DOMAIN parts}
    BY <1>3, FlattenIsSeq, FlattenElements DEF A
  <1>5. FlagRisks(chunks) = BySeverity(all)
    BY DEF FlagRisks, Found
  <1>6. \A f \in Finding : f.severity \in Severities
    BY DEF Finding
  <1>7. DOMAIN parts = DOMAIN chunks /\ \A i \in DOMAIN chunks : parts[i] = Found(i)
    OBVIOUS
  <1> HIDE DEF all, parts
  <1>8. FlagRisks(chunks) \in Seq(Finding) /\ ToSet(FlagRisks(chunks)) = ToSet(all)
    BY <1>4, <1>5, <1>6, BySeverityOnlyOrders
  <1>9. ASSUME NEW f PROVE f \in ToSet(all) <=> IsFinding(f, chunks)
    <2>1. f \in ToSet(all) <=> \E i \in DOMAIN chunks : f \in ToSet(Found(i))
      BY <1>4, <1>7
    <2>2. f \in ToSet(all) <=> \E i \in DOMAIN chunks : \E r \in Fires(i) :
                                  f = [rule |-> r.rule, severity |-> r.severity, index |-> i]
      BY <1>2, <2>1
    <2>3. QED BY <2>2 DEF IsFinding
  <1>10. QED BY <1>8, <1>9

-----------------------------------------------------------------------------
(* What the clauses say, the text says.                                    *)

(* The rules that match in a text.                                         *)
RulesOf(text) == UNION {text[i].rules : i \in DOMAIN text}

(* The topics that occur in it.                                            *)
TopicsOf(text) == UNION {text[i].topics : i \in DOMAIN text}

(* A line is in the text when it is in a clause.                           *)
LEMMA TextInClauses ==
    ASSUME NEW L, NEW chunks \in Seq(ChunkSet(L))
    PROVE  ToSet(LinesOf(chunks)) = UNION {ToSet(chunks[i].lines) : i \in DOMAIN chunks}
  <1> DEFINE A == Seq(L)
             parts == [i \in DOMAIN chunks |-> chunks[i].lines]
  <1>1. \A i \in DOMAIN chunks : chunks[i].lines \in A
    <2>1. \A c \in ChunkSet(L) : c.lines \in A
      BY DEF ChunkSet
    <2> HIDE DEF A
    <2>2. QED BY <2>1
  <1>2. parts \in Seq(A)
    <2> HIDE DEF A
    <2>1. QED BY <1>1
  <1>3. ToSet(FlattenSeq(parts)) = UNION {ToSet(parts[i]) : i \in DOMAIN parts}
    BY <1>2, FlattenElements
  <1>4. QED BY <1>3 DEF LinesOf

(* Rules and topics of the text are those of the clauses.                  *)
LEMMA WhatClausesSay ==
    ASSUME NEW L, NEW chunks \in Seq(ChunkSet(L)), NEW text \in Seq(L), LinesOf(chunks) = text
    PROVE  /\ \A r : r \in RulesOf(text) <=> \E i \in DOMAIN chunks : r \in RulesIn(chunks[i])
           /\ \A t : t \in TopicsOf(text) <=> \E i \in DOMAIN chunks : t \in TopicsIn(chunks[i])
  <1>1. ToSet(text) = UNION {ToSet(chunks[i].lines) : i \in DOMAIN chunks}
    BY TextInClauses
  <1>2. \A line : line \in ToSet(text) <=> \E i \in DOMAIN chunks : line \in ToSet(chunks[i].lines)
    BY <1>1
  <1>3. ASSUME NEW r
        PROVE  r \in RulesOf(text) <=> \E i \in DOMAIN chunks : r \in RulesIn(chunks[i])
    <2>1. \A lines : r \in RulesOf(lines) <=> \E line \in ToSet(lines) : r \in line.rules
      BY DEF RulesOf, ToSet
    <2>2. \A c : RulesIn(c) = RulesOf(c.lines)
      BY DEF RulesIn, RulesOf
    <2>3. QED BY <1>2, <2>1, <2>2, Zenon
  <1>4. ASSUME NEW t
        PROVE  t \in TopicsOf(text) <=> \E i \in DOMAIN chunks : t \in TopicsIn(chunks[i])
    <2>1. \A lines : t \in TopicsOf(lines) <=> \E line \in ToSet(lines) : t \in line.topics
      BY DEF TopicsOf, ToSet
    <2>2. \A c : TopicsIn(c) = TopicsOf(c.lines)
      BY DEF TopicsIn, TopicsOf
    <2>3. QED BY <1>2, <2>1, <2>2, Zenon
  <1>5. QED BY <1>3, <1>4

(* The same of a document.                                                 *)
LEMMA DocumentsSay ==
    ASSUME StoredInv, NEW d \in Docs
    PROVE  /\ \A r : r \in RulesOf(Text(d)) <=> \E i \in DOMAIN Clauses(d) : r \in RulesIn(Clauses(d)[i])
           /\ \A t : t \in TopicsOf(Text(d)) <=> \E i \in DOMAIN Clauses(d) : t \in TopicsIn(Clauses(d)[i])
           /\ RulesOf(Text(d)) \subseteq RuleNames
  <1> DEFINE text == Text(d)
             chunks == Clauses(d)
             L == ToSet(text)
  <1>1. chunks \in Seq(ChunkSet(L)) /\ LinesOf(chunks) = text
    BY ClausesAreChunks
  <1>2. text \in Seq(Line)
    BY FilesAreRead
  <1>3. text \in Seq(L)
    BY <1>2, SeqOfItsElements
  <1>4. RulesOf(text) \subseteq RuleNames
    <2>1. \A i \in DOMAIN text : text[i] \in Line
      BY <1>2
    <2>2. \A i \in DOMAIN text : text[i].rules \subseteq RuleNames
      BY <2>1 DEF Line, RuleNames
    <2> HIDE DEF text
    <2>3. QED BY <2>2 DEF RulesOf
  <1> HIDE DEF text, chunks, L
  <1>5. /\ \A r : r \in RulesOf(text) <=> \E i \in DOMAIN chunks : r \in RulesIn(chunks[i])
        /\ \A t : t \in TopicsOf(text) <=> \E i \in DOMAIN chunks : t \in TopicsIn(chunks[i])
    BY <1>1, <1>3, WhatClausesSay
  <1>6. QED BY <1>4, <1>5 DEF text, chunks

(* The rules that fire are those that match in the text.                   *)
LEMMA RulesThatFire ==
    ASSUME StoredInv, NEW d \in Docs
    PROVE  /\ {f.rule : f \in ToSet(FlagRisks(Clauses(d)))} = RulesOf(Text(d))
           /\ FlagRisks(Clauses(d)) \in Seq(Finding)
  <1> DEFINE text == Text(d)
             chunks == Clauses(d)
             risks == FlagRisks(chunks)
  <1>1. chunks \in Seq(ChunkSet(ToSet(text)))
    BY ClausesAreChunks
  <1>2. /\ risks \in Seq(Finding)
        /\ \A f : f \in ToSet(risks) <=> IsFinding(f, chunks)
    <2> HIDE DEF chunks
    <2>1. QED BY <1>1, FindingsAre
  <1>3. /\ \A r : r \in RulesOf(text) <=> \E i \in DOMAIN chunks : r \in RulesIn(chunks[i])
        /\ RulesOf(text) \subseteq RuleNames
    BY DocumentsSay
  <1> HIDE DEF text, chunks, risks
  <1>4. ASSUME NEW f \in ToSet(risks) PROVE f.rule \in RulesOf(text)
    BY <1>2, <1>3 DEF IsFinding
  <1>5. ASSUME NEW r \in RulesOf(text) PROVE \E f \in ToSet(risks) : f.rule = r
    <2>1. PICK i \in DOMAIN chunks : r \in RulesIn(chunks[i])
      BY <1>3
    <2>2. PICK k \in DOMAIN RiskRules : RiskRules[k].rule = r
      BY <1>3 DEF RuleNames
    <2> DEFINE rule == RiskRules[k]
               f == [rule |-> rule.rule, severity |-> rule.severity, index |-> i]
    <2>3. rule \in ToSet(RiskRules)
      BY DEF ToSet
    <2>4. IsFinding(f, chunks)
      <3> HIDE DEF rule
      <3>1. rule.rule = r
        BY <2>2 DEF rule
      <3>2. QED BY <2>1, <2>3, <3>1 DEF IsFinding
    <2>5. f \in ToSet(risks) /\ f.rule = r
      BY <1>2, <2>2, <2>4
    <2>6. QED BY <2>5
  <1>6. QED BY <1>2, <1>4, <1>5 DEF text, risks, chunks

(* The kinds of the screens.                                               *)
LEMMA ScreenKinds ==
    /\ (\E d \in Docs : GetScans(d)) => shown'.kind = "scans"
    /\ (\E d, e \in Docs : Compare(d, e)) => shown'.kind = "comparison"
    /\ (\E d \in Docs, reply \in ExtractionReplies : GetOverview(d, reply)) =>
          shown'.kind \in {"overview", "parse_error", "error_500", "error_503"}
    /\ (\E d \in Docs, reply \in ExtractionReplies : GetReview(d, reply)) =>
          shown'.kind \in {"review", "error_500", "error_503"}
    /\ (\E d \in Docs, reply \in ExtractionReplies : Summarize(d, reply)) =>
          shown'.kind \in {"summary", "parse_error", "error_500", "error_503"}
    /\ (\E reply \in AnswerReplies : AnswerChat(reply) \/ AnswerScenario(reply) \/ AnswerAcross(reply)) =>
          shown'.kind \in {"answer", "error_500", "error_503"}
  <1>1. ASSUME NEW reply, NEW result, NEW more,
               shown' = Generated(reply, result), result.kind \in more
        PROVE  shown'.kind \in more \cup {"error_500", "error_503"}
    <2>1. shown' \in {[kind |-> "error_503"], [kind |-> "error_500"], result}
      BY <1>1, ShownReport, Zenon
    <2>2. CASE shown' = [kind |-> "error_503"]
      BY <2>2
    <2>3. CASE shown' = [kind |-> "error_500"]
      BY <2>3
    <2>4. QED BY <1>1, <2>1, <2>2, <2>3
  <1>2. ASSUME NEW reply, NEW result
        PROVE  Parsed(reply, result).kind \in {"parse_error", result.kind}
    <2>1. CASE Parsed(reply, result) = [kind |-> "parse_error"]
      BY <2>1
    <2>2. CASE Parsed(reply, result) = result
      BY <2>2
    <2>3. QED BY <2>1, <2>2, ShownReport
  <1>3. ASSUME NEW d \in Docs, NEW reply \in ExtractionReplies, GetOverview(d, reply)
        PROVE  shown'.kind \in {"overview", "parse_error", "error_500", "error_503"}
    <2> DEFINE screen == [kind |-> "overview", doc |-> d, result |-> ParseOverview(reply, Clauses(d), Text(d))]
    <2>1. shown' = Generated(reply, Parsed(reply, screen)) /\ screen.kind = "overview"
      BY <1>3 DEF GetOverview, Show
    <2> HIDE DEF screen
    <2>2. Parsed(reply, screen).kind \in {"parse_error", "overview"}
      BY <1>2, <2>1
    <2>3. shown'.kind \in {"parse_error", "overview"} \cup {"error_500", "error_503"}
      BY <1>1, <2>1, <2>2
    <2>4. QED BY <2>3
  <1>4. ASSUME NEW d \in Docs, NEW reply \in ExtractionReplies, GetReview(d, reply)
        PROVE  shown'.kind \in {"review", "error_500", "error_503"}
    <2>1. PICK obligations, result :
            shown' = Generated(reply, [kind |-> "review", doc |-> d, obligations |-> obligations, result |-> result])
      BY <1>4 DEF GetReview, Show
    <2> DEFINE screen == [kind |-> "review", doc |-> d, obligations |-> obligations, result |-> result]
    <2>2. screen.kind \in {"review"}
      OBVIOUS
    <2> HIDE DEF screen
    <2>3. shown'.kind \in {"review"} \cup {"error_500", "error_503"}
      BY <1>1, <2>1, <2>2 DEF screen
    <2>4. QED BY <2>3
  <1>5. ASSUME NEW d \in Docs, NEW reply \in ExtractionReplies, Summarize(d, reply)
        PROVE  shown'.kind \in {"summary", "parse_error", "error_500", "error_503"}
    <2> DEFINE screen == [kind |-> "summary", doc |-> d,
                          obligations |-> [i \in DOMAIN reply.items |-> reply.items[i].duty]]
    <2>1. shown' = Generated(reply, Parsed(reply, screen)) /\ screen.kind = "summary"
      BY <1>5 DEF Summarize, Show
    <2> HIDE DEF screen
    <2>2. Parsed(reply, screen).kind \in {"parse_error", "summary"}
      BY <1>2, <2>1
    <2>3. shown'.kind \in {"parse_error", "summary"} \cup {"error_500", "error_503"}
      BY <1>1, <2>1, <2>2
    <2>4. QED BY <2>3
  <1>6. ASSUME NEW reply, AnswerChat(reply) \/ AnswerScenario(reply) \/ AnswerAcross(reply)
        PROVE  shown'.kind \in {"answer", "error_500", "error_503"}
    <2>1. PICK answer, trace : shown' = Result(reply, answer, trace)
      BY <1>6 DEF AnswerChat, AnswerScenario, AnswerAcross, Show
    <2>2. QED BY <2>1, ResultShown
  <1>7. (\E d \in Docs : GetScans(d)) => shown'.kind = "scans"
    BY DEF GetScans, Show
  <1>8. (\E d, e \in Docs : Compare(d, e)) => shown'.kind = "comparison"
    BY DEF Compare, Show
  <1>9. QED BY <1>3, <1>4, <1>5, <1>6, <1>7, <1>8

(* Every step keeps the quality on the screen right.                       *)
LEMMA QualityStep ==
    ASSUME QualityShown, [Next]_vars
    PROVE  QualityShown'
  <1>1. pages' = pages /\ old' = old
    BY ScreenSteps
  <1>2. CASE \E d \in Docs : GetScans(d)
    <2>1. PICK d \in Docs : GetScans(d)
      BY <1>2
    <2>2. shown'.doc = d /\ shown'.quality = QualitySummary(pages[d], d \notin old)
      BY <2>1 DEF GetScans, Show
    <2>3. QED BY <1>1, <2>2 DEF QualityShown
  <1>3. CASE shown' = shown
    BY <1>1, <1>3 DEF QualityShown
  <1>4. ASSUME shown'.kind # "scans" PROVE QualityShown'
    BY <1>4 DEF QualityShown
  <1>5. CASE shown' = Nothing
    BY <1>4, <1>5 DEF Nothing
  <1>6. CASE Screens /\ ~(\E d \in Docs : GetScans(d))
    BY <1>4, <1>6, ScreenKinds DEF Screens
  <1>7. QED BY <1>2, <1>3, <1>5, <1>6, ScreenSteps

(* The clauses that are indexed for a document are its text, and none is   *)
(* longer than a tail or a single sentence explains, for any file; and the *)
(* report on a file says so if one of its pages gave no text, or if they   *)
(* were not all read as they were written.                                 *)
THEOREM ClausesCovered == Spec => []ClausesCoverTheText
  <1>1. ASSUME StoredInv, QualityShown PROVE ClausesCoverTheText
    <2>1. ASSUME shown.kind = "scans"
          PROVE  LET file == pages[shown.doc]
                 IN  /\ (\E p \in DOMAIN file : PageText(file[p]) = <<>>)
                           => shown.quality = "look at it" \/ shown.doc \in old
                     /\ shown.quality = "clean"
                           => Text(shown.doc) = FlattenSeq([p \in DOMAIN file |-> file[p].native])
      <3> DEFINE file == pages[shown.doc]
      <3>1. Text(shown.doc) = TextOf(file) /\ shown.quality = QualitySummary(file, shown.doc \notin old)
        BY <1>1, <2>1, FilesAreRead DEF QualityShown
      <3>2. (shown.doc \notin old) \in BOOLEAN
        OBVIOUS
      <3> HIDE DEF file
      <3>3. ASSUME \E p \in DOMAIN file : PageText(file[p]) = <<>>, shown.doc \notin old
            PROVE  shown.quality = "look at it"
        <4>1. (shown.doc \notin old) = TRUE
          BY <3>3
        <4>2. QualitySummary(file, TRUE) = "look at it"
          BY <3>3, EmptyPagesAreReported
        <4>3. QED BY <3>1, <4>1, <4>2
      <3>4. ASSUME shown.quality = "clean"
            PROVE  Text(shown.doc) = FlattenSeq([p \in DOMAIN file |-> file[p].native])
        BY <3>1, <3>2, <3>4, CleanFilesAreNative
      <3>5. QED BY <3>3, <3>4 DEF file
    <2>2. QED BY <1>1, <2>1, ClausesAreTheText DEF ClausesCoverTheText, Longest
  <1>2. Init => QualityShown
    BY DEF Init, QualityShown, Nothing
  <1>3. QED BY <1>1, <1>2, StoredInit, StoredStep, QualityStep, PTL DEF Spec

(* Showing a comparison.                                                   *)
LEMMA ComparisonShown ==
    ASSUME StoredInv, NEW d \in Docs, NEW e \in Docs, Compare(d, e)
    PROVE  ComparisonMatchesTheScans'
  <1> DEFINE a == FlagRisks(Clauses(d))
             b == FlagRisks(Clauses(e))
             ra == RulesOf(Text(d))
             rb == RulesOf(Text(e))
             result == CompareRiskReports(a, b)
             screen == [kind |-> "comparison", docs |-> <<d, e>>, result |-> result]
  <1>1. shown' = screen /\ pages' = pages
    BY DEF Compare, Show
  <1>2. {f.rule : f \in ToSet(a)} = ra /\ {f.rule : f \in ToSet(b)} = rb
    BY RulesThatFire
  <1>3. {a[i].rule : i \in DOMAIN a} = ra /\ {b[i].rule : i \in DOMAIN b} = rb
    <2> HIDE DEF a, b, ra, rb
    <2>1. QED BY <1>2 DEF ToSet
  <1>4. result.only_in_a = ra \ rb /\ result.only_in_b = rb \ ra /\ result.shared = ra \cap rb
    <2> DEFINE fa == {a[i].rule : i \in DOMAIN a}
               fb == {b[i].rule : i \in DOMAIN b}
    <2>1. result = [counts_a |-> Counts(a), counts_b |-> Counts(b),
                    only_in_a |-> fa \ fb, only_in_b |-> fb \ fa, shared |-> fa \cap fb]
      BY DEF CompareRiskReports
    <2> HIDE DEF fa, fb, result
    <2>2. result.only_in_a = fa \ fb /\ result.only_in_b = fb \ fa /\ result.shared = fa \cap fb
      BY <2>1
    <2>3. QED BY <1>3, <2>2 DEF fa, fb
  <1> HIDE DEF result
  <1>5. shown'.docs[1] = d /\ shown'.docs[2] = e /\ shown'.result = result
    BY <1>1
  <1>6. ra = UNION {Text(d)'[i].rules : i \in DOMAIN Text(d)'} /\ rb = UNION {Text(e)'[i].rules : i \in DOMAIN Text(e)'}
    BY <1>1 DEF RulesOf, Text
  <1> HIDE DEF ra, rb, screen
  <1>7. QED BY <1>4, <1>5, <1>6 DEF ComparisonMatchesTheScans

(* What a comparison says of two contracts, the scans say of their texts.  *)
THEOREM ComparisonsMatch == Spec => []ComparisonMatchesTheScans
  <1> DEFINE IInv == StoredInv /\ ComparisonMatchesTheScans
  <1>1. ASSUME Init PROVE IInv
    <2>1. shown.kind = "nothing"
      BY <1>1 DEF Init, Nothing
    <2>2. QED BY <1>1, <2>1, StoredInit DEF ComparisonMatchesTheScans
  <1>2. ASSUME IInv, [Next]_vars PROVE IInv'
    <2>1. StoredInv'
      BY <1>2, StoredStep
    <2>2. pages' = pages
      BY <1>2, ScreenSteps
    <2>3. CASE shown' = shown
      BY <1>2, <2>1, <2>2, <2>3 DEF ComparisonMatchesTheScans, Text
    <2>4. CASE \E d, e \in Docs : Compare(d, e)
      BY <1>2, <2>1, <2>4, ComparisonShown
    <2>5. ASSUME shown'.kind # "comparison" PROVE ComparisonMatchesTheScans'
      BY <2>5 DEF ComparisonMatchesTheScans
    <2>6. CASE shown' = Nothing
      BY <2>1, <2>5, <2>6 DEF Nothing
    <2>7. CASE Screens /\ ~(\E d, e \in Docs : Compare(d, e))
      <3>1. shown'.kind # "comparison"
        BY <2>7, ScreenKinds DEF Screens
      <3>2. QED BY <2>1, <2>5, <3>1
    <2>8. QED BY <1>2, <2>3, <2>4, <2>6, <2>7, ScreenSteps
  <1>3. QED BY <1>1, <1>2, PTL DEF Spec

-----------------------------------------------------------------------------
(* Words.                                                                  *)

(* The words of two texts.                                                 *)
LEMMA WordsOfConcat ==
    ASSUME NEW a \in Seq(Line), NEW b \in Seq(Line)
    PROVE  WordsOf(a \o b) = WordsOf(a) \o WordsOf(b)
  <1> DEFINE A == Seq(STRING)
             Parts(lines) == [i \in DOMAIN lines |-> lines[i].words]
             ab == a \o b
  <1>1. \A line \in Line : line.words \in A
    BY DEF Line
  <1>2. ASSUME NEW lines \in Seq(Line)
        PROVE  Parts(lines) \in Seq(A) /\ Len(Parts(lines)) = Len(lines)
    <2>1. \A i \in DOMAIN lines : lines[i].words \in A
      BY <1>1
    <2> HIDE DEF A
    <2>2. QED BY <2>1
  <1>3. /\ ab \in Seq(Line) /\ Len(ab) = Len(a) + Len(b)
        /\ \A i \in 1..(Len(a) + Len(b)) : ab[i] = IF i <= Len(a) THEN a[i] ELSE b[i - Len(a)]
    BY ConcatProperties
  <1>4. /\ Parts(a) \o Parts(b) \in Seq(A) /\ Len(Parts(a) \o Parts(b)) = Len(a) + Len(b)
        /\ \A i \in 1..(Len(a) + Len(b)) :
              (Parts(a) \o Parts(b))[i] = IF i <= Len(a) THEN Parts(a)[i] ELSE Parts(b)[i - Len(a)]
    <2>1. Parts(a) \in Seq(A) /\ Len(Parts(a)) = Len(a) /\ Parts(b) \in Seq(A) /\ Len(Parts(b)) = Len(b)
      BY <1>2
    <2> DEFINE x == Parts(a)
               y == Parts(b)
    <2>2. x \in Seq(A) /\ Len(x) = Len(a) /\ y \in Seq(A) /\ Len(y) = Len(b)
      BY <2>1
    <2> HIDE DEF x, y, A
    <2>3. /\ x \o y \in Seq(A) /\ Len(x \o y) = Len(x) + Len(y)
          /\ \A i \in 1..(Len(x) + Len(y)) : (x \o y)[i] = IF i <= Len(x) THEN x[i] ELSE y[i - Len(x)]
      BY <2>2, ConcatProperties
    <2>4. QED BY <2>2, <2>3 DEF x, y
  <1>5. Parts(ab) = Parts(a) \o Parts(b)
    <2>1. Parts(ab) \in Seq(A) /\ Len(Parts(ab)) = Len(a) + Len(b)
      <3> HIDE DEF ab, A
      <3>1. QED BY <1>2, <1>3
    <2>2. ASSUME NEW i \in 1..(Len(a) + Len(b)) PROVE Parts(ab)[i] = (Parts(a) \o Parts(b))[i]
      <3>1. Parts(ab)[i] = ab[i].words
        <4> HIDE DEF ab
        <4>1. QED BY <1>3
      <3>2. CASE i <= Len(a)
        <4>1. i \in 1..Len(a) /\ ab[i] = a[i]
          BY <1>3, <3>2
        <4>2. Parts(a)[i] = a[i].words
          BY <4>1
        <4> HIDE DEF Parts, ab
        <4>3. QED BY <1>4, <3>1, <3>2, <4>1, <4>2
      <3>3. CASE ~(i <= Len(a))
        <4>1. i - Len(a) \in 1..Len(b) /\ ab[i] = b[i - Len(a)]
          BY <1>3, <3>3
        <4>2. Parts(b)[i - Len(a)] = b[i - Len(a)].words
          BY <4>1
        <4> HIDE DEF Parts, ab
        <4>3. QED BY <1>4, <3>1, <3>3, <4>1, <4>2
      <3>4. QED BY <3>2, <3>3
    <2> DEFINE x == Parts(ab)
               y == Parts(a) \o Parts(b)
    <2>3. x \in Seq(A) /\ y \in Seq(A) /\ Len(x) = Len(y) /\ \A i \in 1..Len(x) : x[i] = y[i]
      BY <1>4, <2>1, <2>2
    <2> HIDE DEF x, y
    <2>4. x = y
      BY <2>3, SeqEqual
    <2>5. QED BY <2>4 DEF x, y
  <1>6. FlattenSeq(Parts(a) \o Parts(b)) = FlattenSeq(Parts(a)) \o FlattenSeq(Parts(b))
    <2>1. Parts(a) \in Seq(A) /\ Parts(b) \in Seq(A)
      BY <1>2
    <2> HIDE DEF Parts
    <2>2. QED BY <2>1, FlattenOfConcat
  <1>7. QED BY <1>5, <1>6 DEF WordsOf

(* Words are strings.                                                      *)
LEMMA WordsAreWords ==
    ASSUME NEW lines \in Seq(Line)
    PROVE  WordsOf(lines) \in Seq(STRING)
  <1> DEFINE A == Seq(STRING)
             parts == [i \in DOMAIN lines |-> lines[i].words]
  <1>1. \A line \in Line : line.words \in A
    BY DEF Line
  <1>2. parts \in Seq(A)
    <2>1. \A i \in DOMAIN lines : lines[i].words \in A
      BY <1>1
    <2> HIDE DEF A
    <2>2. QED BY <2>1
  <1>3. QED BY <1>2, FlattenIsSeq DEF WordsOf

(* One sequence stands in another, element after element.                  *)
PartOf(s, t) ==
    \E k \in Nat : /\ k + Len(s) <= Len(t)
                   /\ \A i \in 1..Len(s) : t[k + i] = s[i]

(* The two texts are parts.                                                *)
LEMMA PartsOfConcat ==
    ASSUME NEW X, NEW s \in Seq(X), NEW t \in Seq(X)
    PROVE  /\ PartOf(t, s \o t)
           /\ \A r \in Seq(X) : PartOf(r, s) => PartOf(r, s \o t)
  <1> DEFINE m == Len(s)
             n == Len(t)
             st == s \o t
  <1>1. /\ m \in Nat /\ n \in Nat /\ Len(st) = m + n
        /\ \A i \in 1..(m + n) : st[i] = IF i <= m THEN s[i] ELSE t[i - m]
    BY ConcatProperties
  <1> HIDE DEF m, n, st
  <1>2. PartOf(t, st)
    <2>1. ASSUME NEW i \in 1..n PROVE st[m + i] = t[i]
      <3>1. m + i \in 1..(m + n) /\ ~(m + i <= m) /\ (m + i) - m = i
        BY <1>1
      <3>2. QED BY <1>1, <3>1
    <2>2. QED BY <1>1, <2>1 DEF PartOf, n
  <1>3. ASSUME NEW r \in Seq(X), PartOf(r, s) PROVE PartOf(r, st)
    <2>1. PICK k \in Nat : k + Len(r) <= m /\ \A i \in 1..Len(r) : s[k + i] = r[i]
      BY <1>3 DEF PartOf, m
    <2>2. Len(r) \in Nat
      OBVIOUS
    <2>3. ASSUME NEW i \in 1..Len(r) PROVE st[k + i] = r[i]
      <3>1. k + i \in 1..(m + n) /\ k + i <= m
        BY <1>1, <2>1, <2>2
      <3>2. QED BY <1>1, <2>1, <3>1
    <2>4. k + Len(r) <= Len(st)
      BY <1>1, <2>1, <2>2
    <2>5. QED BY <2>3, <2>4 DEF PartOf
  <1>4. QED BY <1>2, <1>3 DEF st

(* Without parts there are no elements.                                    *)
LEMMA FlattenFromEmpty ==
    ASSUME NEW seqs, NEW acc, Flattens(seqs, acc)
    PROVE  acc[0] = <<>> /\ \A i \in 1..Len(seqs) : acc[i] = acc[i - 1] \o seqs[i]
  BY DEF Flattens

(* The words of each part of a text stand in the text.                     *)
LEMMA WordsOfParts ==
    ASSUME NEW parts \in Seq(Seq(Line)), NEW k \in DOMAIN parts
    PROVE  PartOf(WordsOf(parts[k]), WordsOf(FlattenSeq(parts)))
  <1> DEFINE A == Seq(Line)
             n == Len(parts)
             W == Seq(STRING)
  <1>1. PICK acc \in [0..n -> A] : Flattens(parts, acc) /\ FlattenSeq(parts) = acc[n]
    BY FlattenAccumulates
  <1>2. acc[0] = <<>> /\ \A i \in 1..n : acc[i] = acc[i - 1] \o parts[i]
    BY <1>1, FlattenFromEmpty
  <1>3. n \in Nat /\ DOMAIN parts = 1..n
    OBVIOUS
  <1>4. \A i \in 1..n : parts[i] \in A
    <2> HIDE DEF A
    <2>1. parts \in Seq(A)
      BY DEF A
    <2>2. QED BY <2>1
  <1> HIDE DEF n, A, W
  <1> DEFINE good == {i \in 0..n : \A j \in 1..i : PartOf(WordsOf(parts[j]), WordsOf(acc[i]))}
  <1>5. 0 \in good
    BY <1>3
  <1>6. ASSUME NEW i \in 1..n, i - 1 \in good PROVE i \in good
    <2>1. i - 1 \in 0..n /\ i \in 0..n
      BY <1>3
    <2>2. acc[i - 1] \in A /\ parts[i] \in A
      BY <1>1, <1>4, <2>1
    <2> DEFINE s == WordsOf(acc[i - 1])
               t == WordsOf(parts[i])
    <2>3. WordsOf(acc[i]) = s \o t
      BY <1>2, <2>2, WordsOfConcat DEF A
    <2>4. s \in W /\ t \in W
      BY <2>2, WordsAreWords DEF A, W
    <2>5. \A j \in 1..(i - 1) : PartOf(WordsOf(parts[j]), s) /\ WordsOf(parts[j]) \in W
      <3>1. \A j \in 1..(i - 1) : PartOf(WordsOf(parts[j]), s)
        BY <1>6
      <3>2. \A j \in 1..(i - 1) : j \in 1..n
        BY <2>1, <1>3
      <3>3. QED BY <1>4, <3>1, <3>2, WordsAreWords DEF A, W
    <2> HIDE DEF s, t
    <2>6. PartOf(t, s \o t) /\ \A r \in W : PartOf(r, s) => PartOf(r, s \o t)
      BY <2>4, PartsOfConcat DEF W
    <2>7. \A j \in 1..(i - 1) : PartOf(WordsOf(parts[j]), s \o t)
      BY <2>5, <2>6
    <2>8. PartOf(WordsOf(parts[i]), s \o t)
      BY <2>6 DEF t
    <2>9. \A j \in 1..i : j = i \/ j \in 1..(i - 1)
      BY <1>3
    <2>10. QED BY <2>1, <2>3, <2>7, <2>8, <2>9
  <1>7. \A i \in 0..n : i \in good
    <2> HIDE DEF good
    <2>1. QED BY <1>3, <1>5, <1>6, CountingUp
  <1>8. n \in good
    BY <1>3, <1>7
  <1>9. QED BY <1>1, <1>3, <1>8

(* What is in a part is in the whole.                                      *)
LEMMA InPartInWhole ==
    ASSUME NEW X, NEW w \in Seq(X), NEW t \in Seq(X), PartOf(w, t), NEW quote, IsIn(quote, w)
    PROVE  IsIn(quote, t)
  <1>1. PICK k \in Nat : k + Len(w) <= Len(t) /\ \A i \in 1..Len(w) : t[k + i] = w[i]
    BY DEF PartOf
  <1>2. PICK i \in 0..Len(w), j \in 0..Len(w) : quote = SubSeq(w, i + 1, j)
    BY DEF IsIn, SubSeqs
  <1>3. Len(w) \in Nat /\ Len(t) \in Nat /\ (\A p \in 1..Len(w) : w[p] \in X) /\ (\A p \in 1..Len(t) : t[p] \in X)
    OBVIOUS
  <1>4. CASE j < i + 1
    <2>1. quote = <<>>
      BY <1>2, <1>4, SubSeqEmpty
    <2>2. SubSeq(t, 0 + 1, 0) = <<>>
      BY SubSeqEmpty
    <2>3. 0 \in 0..Len(t)
      BY <1>3
    <2>4. QED BY <2>1, <2>2, <2>3 DEF IsIn, SubSeqs
  <1>5. CASE i + 1 <= j
    <2> DEFINE a == SubSeq(w, i + 1, j)
               b == SubSeq(t, (k + i) + 1, k + j)
               n == j - i
    <2>1. /\ n \in Nat /\ n > 0 /\ i + 1 \in Int /\ j \in Int /\ (k + i) + 1 \in Int /\ k + j \in Int
          /\ j - (i + 1) + 1 = n /\ (k + j) - ((k + i) + 1) + 1 = n /\ (k + i) + 1 <= k + j
      BY <1>2, <1>5
    <2>2. \A p \in (i + 1)..j : w[p] \in X
      BY <1>2, <1>3
    <2>3. \A p \in ((k + i) + 1)..(k + j) : t[p] \in X
      BY <1>1, <1>2, <1>3
    <2>4. a \in Seq(X) /\ Len(a) = n /\ \A p \in 1..n : a[p] = w[(i + 1) + p - 1]
      <3>1. /\ a \in Seq(X)
            /\ Len(a) = IF i + 1 <= j THEN j - (i + 1) + 1 ELSE 0
            /\ \A p \in 1..(j - (i + 1) + 1) : a[p] = w[(i + 1) + p - 1]
        BY <2>1, <2>2, SubSeqProperties
      <3> HIDE DEF a, n
      <3>2. QED BY <1>5, <2>1, <3>1
    <2>5. b \in Seq(X) /\ Len(b) = n /\ \A p \in 1..n : b[p] = t[((k + i) + 1) + p - 1]
      <3>1. /\ b \in Seq(X)
            /\ Len(b) = IF (k + i) + 1 <= k + j THEN (k + j) - ((k + i) + 1) + 1 ELSE 0
            /\ \A p \in 1..((k + j) - ((k + i) + 1) + 1) : b[p] = t[((k + i) + 1) + p - 1]
        BY <2>1, <2>3, SubSeqProperties
      <3> HIDE DEF b, n
      <3>2. QED BY <2>1, <3>1
    <2> HIDE DEF a, b
    <2>6. \A p \in 1..n : a[p] = b[p]
      <3>1. ASSUME NEW p \in 1..n PROVE a[p] = b[p]
        <4>1. i + p \in 1..Len(w) /\ (i + 1) + p - 1 = i + p /\ ((k + i) + 1) + p - 1 = k + (i + p)
          BY <1>2, <1>3
        <4> HIDE DEF n
        <4>2. a[p] = w[i + p] /\ b[p] = t[k + (i + p)]
          BY <2>4, <2>5, <4>1
        <4>3. QED BY <1>1, <4>1, <4>2
      <3>2. QED BY <3>1
    <2> HIDE DEF n
    <2>7. a = b
      BY <2>4, <2>5, <2>6, SeqEqual
    <2>8. k + i \in 0..Len(t) /\ k + j \in 0..Len(t)
      BY <1>1, <1>2, <1>3
    <2>9. quote = SubSeq(t, (k + i) + 1, k + j)
      BY <1>2, <2>7 DEF a, b
    <2>10. QED BY <2>8, <2>9 DEF IsIn, SubSeqs
  <1>6. QED BY <1>2, <1>3, <1>4, <1>5

(* The elements of a part.                                                 *)
LEMMA PartElements ==
    ASSUME NEW X, NEW w \in Seq(X), NEW t \in Seq(X), PartOf(w, t)
    PROVE  ToSet(w) \subseteq ToSet(t)
  <1>1. PICK k \in Nat : k + Len(w) <= Len(t) /\ \A i \in 1..Len(w) : t[k + i] = w[i]
    BY DEF PartOf
  <1>2. Len(w) \in Nat /\ Len(t) \in Nat /\ DOMAIN w = 1..Len(w) /\ DOMAIN t = 1..Len(t)
    OBVIOUS
  <1>3. ASSUME NEW i \in 1..Len(w) PROVE w[i] \in ToSet(t)
    <2>1. k + i \in 1..Len(t) /\ t[k + i] = w[i]
      BY <1>1, <1>2
    <2>2. QED BY <1>2, <2>1 DEF ToSet
  <1>4. QED BY <1>2, <1>3 DEF ToSet

(* A larger set overlaps no less.                                          *)
LEMMA OverlapsMore ==
    ASSUME NEW X, NEW quote \in Seq(X), NEW w \in Seq(X), NEW t \in Seq(X), ToSet(w) \subseteq ToSet(t),
           Overlaps(quote, w)
    PROVE  Overlaps(quote, t)
  <1> DEFINE content == ContentWords(quote)
             D(words) == {i \in DOMAIN content : content[i] \in ToSet(ContentWords(words))}
  <1>1. content \in Seq(X)
    BY KeptProperties DEF ContentWords
  <1>2. ToSet(ContentWords(w)) = ToSet(w) \cap (ToSet(w) \ Stopwords)
    BY KeptProperties DEF ContentWords
  <1>3. ToSet(ContentWords(t)) = ToSet(t) \cap (ToSet(t) \ Stopwords)
    BY KeptProperties DEF ContentWords
  <1>4. ToSet(ContentWords(w)) \subseteq ToSet(ContentWords(t))
    BY <1>2, <1>3
  <1>5. D(w) \subseteq D(t)
    BY <1>4
  <1>6. IsFiniteSet(D(t))
    <2> HIDE DEF content
    <2>1. DOMAIN content = 1..Len(content) /\ Len(content) \in Nat
      BY <1>1
    <2>2. IsFiniteSet(DOMAIN content)
      BY <2>1, FS_Interval
    <2>3. QED BY <2>2, FS_Subset
  <1>7. Cardinality(D(w)) <= Cardinality(D(t))
    BY <1>5, <1>6, FS_Subset
  <1>8. Matched(quote, w) = Cardinality(D(w)) /\ Matched(quote, t) = Cardinality(D(t))
    BY DEF Matched
  <1>9. Matched(quote, w) \in Nat /\ Matched(quote, t) \in Nat /\ Len(content) \in Nat
    BY MatchedIsNumber
  <1> DEFINE p == OverlapPercent * Len(content)
  <1>10. p \in Int
    BY <1>9, GroundingAssumption
  <1>11. Len(content) >= MinContentWords /\ Len(content) > 0 /\ Matched(quote, w) * 100 >= p
    BY DEF Overlaps
  <1>12. Matched(quote, w) <= Matched(quote, t)
    BY <1>7, <1>8
  <1> HIDE DEF p
  <1>13. Matched(quote, t) * 100 >= p
    BY <1>9, <1>10, <1>11, <1>12
  <1>14. QED BY <1>11, <1>13 DEF Overlaps, p

(* What a clause of a document backs, the document backs.                  *)
LEMMA BackedByTheText ==
    ASSUME StoredInv, NEW d \in Docs, NEW i \in DOMAIN Clauses(d), NEW quote \in Seq(STRING),
           Backs(quote, WordsOf(Clauses(d)[i].lines))
    PROVE  Backs(quote, WordsOf(Text(d)))
  <1> DEFINE text == Text(d)
             chunks == Clauses(d)
             L == ToSet(text)
             A == Seq(Line)
             parts == [k \in DOMAIN chunks |-> chunks[k].lines]
             w == WordsOf(chunks[i].lines)
             t == WordsOf(text)
  <1>1. chunks \in Seq(ChunkSet(L)) /\ LinesOf(chunks) = text /\ text \in Seq(Line)
    BY ClausesAreChunks, FilesAreRead
  <1>2. L \subseteq Line
    BY <1>1, SeqOfItsElements
  <1> HIDE DEF L, chunks, text
  <1>3. \A k \in DOMAIN chunks : chunks[k].lines \in A
    <2>1. \A c \in ChunkSet(L) : c.lines \in A
      BY <1>2 DEF ChunkSet
    <2> HIDE DEF A
    <2>2. QED BY <1>1, <2>1
  <1>4. parts \in Seq(A) /\ i \in DOMAIN parts /\ parts[i] = chunks[i].lines
    <2> HIDE DEF A
    <2>1. i \in DOMAIN chunks
      BY DEF chunks
    <2>2. QED BY <1>1, <1>3, <2>1
  <1>5. FlattenSeq(parts) = text
    BY <1>1 DEF LinesOf
  <1> HIDE DEF parts
  <1>6. PartOf(w, t)
    BY <1>4, <1>5, WordsOfParts
  <1>7. w \in Seq(STRING) /\ t \in Seq(STRING)
    <2>1. chunks[i].lines \in Seq(Line)
      BY <1>3 DEF chunks
    <2>2. QED BY <1>1, <2>1, WordsAreWords
  <1>8. Backs(quote, w)
    BY DEF chunks
  <1> HIDE DEF w, t
  <1>9. CASE IsIn(quote, w)
    <2>1. IsIn(quote, t)
      BY <1>6, <1>7, <1>9, InPartInWhole
    <2>2. QED BY <2>1 DEF Backs, t, text
  <1>10. CASE Overlaps(quote, w)
    <2>1. ToSet(w) \subseteq ToSet(t)
      BY <1>6, <1>7, PartElements
    <2>2. Overlaps(quote, t)
      BY <1>7, <1>10, <2>1, OverlapsMore
    <2>3. QED BY <2>2 DEF Backs, t, text
  <1>11. QED BY <1>8, <1>9, <1>10 DEF Backs

-----------------------------------------------------------------------------
(* Conflicts and missing topics.                                           *)

(* A conflict is between two obligations that the text backs.              *)
LEMMA ConflictsAreBacked ==
    ASSUME StoredInv, NEW d \in Docs, NEW obligations,
           ObligationsBacked(obligations, Clauses(d), Text(d)),
           NEW c \in FindContradictions(obligations)
    PROVE  \E o, p \in c.entries :
              /\ DaysOf(o) # DaysOf(p)
              /\ \A q \in {o, p} :
                    q.quote # NoQuote /\ (IsBlank(q.quote) \/ Supports(q, WordsOf(Text(d))))
  <1> DEFINE timed == {obligations[i] : i \in {j \in DOMAIN obligations :
                         /\ obligations[j].category \in CheckedCategories
                         /\ obligations[j].grounded
                         /\ DaysOf(obligations[j]) # NoDays}}
             Entries(k) == {o \in timed : o.category = k}
             Conflict(k) == [category |-> k, days |-> {DaysOf(o) : o \in Entries(k)}, entries |-> Entries(k)]
  <1>1. c \in {Conflict(k) : k \in CheckedCategories} /\ Cardinality(c.days) > 1
    BY DEF FindContradictions
  <1>2. PICK k \in CheckedCategories : c = Conflict(k)
    BY <1>1
  <1>3. c.entries = Entries(k) /\ c.days = {DaysOf(o) : o \in Entries(k)}
    <2> HIDE DEF Entries
    <2>1. QED BY <1>2
  <1>4. \E x, y \in c.days : x # y
    BY <1>1, TwoOfMany
  <1>5. PICK o \in c.entries, p \in c.entries : DaysOf(o) # DaysOf(p)
    <2> HIDE DEF Entries
    <2>1. QED BY <1>3, <1>4
  <1>6. ASSUME NEW q \in c.entries
        PROVE  q.quote # NoQuote /\ (IsBlank(q.quote) \/ Supports(q, WordsOf(Text(d))))
    <2>1. q \in timed
      BY <1>3
    <2>2. q \in ToSet(obligations) /\ q.grounded
      BY <2>1 DEF ToSet
    <2>3. Points(q.quote, q.index, Clauses(d), Text(d)) /\ q.quote \in Quotes
      BY <2>2 DEF ObligationsBacked
    <2>4. q.quote # NoQuote /\ q.quote \in Seq(STRING)
      BY <2>3 DEF Points, Quotes
    <2>5. Backs(q.quote, WordsOf(Text(d)))
      <3>1. CASE q.index = NoIndex
        BY <2>3, <3>1 DEF Points
      <3>2. CASE q.index # NoIndex
        <4>1. q.index \in DOMAIN Clauses(d) /\ Backs(q.quote, WordsOf(Clauses(d)[q.index].lines))
          BY <2>3, <3>2 DEF Points
        <4>2. QED BY <2>4, <4>1, BackedByTheText
      <3>3. QED BY <3>1, <3>2
    <2>6. QED BY <2>4, <2>5 DEF Backs, Supports
  <1>7. QED BY <1>5, <1>6

(* A selection that is empty selects no element.                           *)
LEMMA NoneSelected ==
    ASSUME NEW X, NEW s \in Seq(X), NEW t, SelectInSeq(s, LAMBDA c : t \in TopicsIn(c)) = 0
    PROVE  \A i \in DOMAIN s : t \notin TopicsIn(s[i])
  <1> DEFINE I == {i \in 1..Len(s) : t \in TopicsIn(s[i])}
  <1>1. SelectInSeq(s, LAMBDA c : t \in TopicsIn(c)) = IF I # {} THEN Min(I) ELSE 0
    BY DEF SelectInSeq
  <1>2. CASE I # {}
    <2>1. I \in SUBSET Nat
      OBVIOUS
    <2> HIDE DEF I
    <2>2. Min(I) \in I
      BY <1>2, <2>1, MinOfNumbers
    <2>3. Min(I) = 0
      BY <1>1, <1>2
    <2>4. Min(I) # 0
      BY <2>2 DEF I
    <2>5. QED BY <2>3, <2>4
  <1>3. CASE I = {}
    BY <1>3
  <1>4. QED BY <1>2, <1>3

(* A topic reported as missing is in no line.                              *)
LEMMA MissingIsMissing ==
    ASSUME StoredInv, NEW d \in Docs
    PROVE  NotFound(CheckCoverage(Clauses(d))) \cap TopicsOf(Text(d)) = {}
  <1> DEFINE chunks == Clauses(d)
             coverage == CheckCoverage(chunks)
  <1>1. chunks \in Seq(ChunkSet(ToSet(Text(d))))
    BY ClausesAreChunks
  <1>2. \A t : t \in TopicsOf(Text(d)) <=> \E i \in DOMAIN chunks : t \in TopicsIn(chunks[i])
    BY DocumentsSay
  <1> HIDE DEF chunks
  <1>3. ASSUME NEW t \in NotFound(coverage) PROVE t \notin TopicsOf(Text(d))
    <2>1. t \in DOMAIN coverage /\ coverage[t] = 0
      BY <1>3 DEF NotFound, NoIndex
    <2>2. SelectInSeq(chunks, LAMBDA c : t \in TopicsIn(c)) = 0
      BY <2>1 DEF CheckCoverage
    <2>3. \A i \in DOMAIN chunks : t \notin TopicsIn(chunks[i])
      BY <1>1, <2>2, NoneSelected
    <2>4. QED BY <1>2, <2>3
  <1>4. QED BY <1>3 DEF chunks

-----------------------------------------------------------------------------
(* Reviews.                                                                *)

(* The findings of some severities.                                        *)
Worst(risks, S) == {f \in ToSet(risks) : f.severity \in S}

(* The high risks are all there.                                           *)
LEMMA RisksBySeverity ==
    ASSUME StoredInv, NEW d \in Docs, NEW S
    PROVE  {f.rule : f \in Worst(FlagRisks(Clauses(d)), S)}
              = RulesOf(Text(d)) \cap {RiskRules[i].rule : i \in {j \in DOMAIN RiskRules : RiskRules[j].severity \in S}}
  <1> DEFINE text == Text(d)
             chunks == Clauses(d)
             risks == FlagRisks(chunks)
             names == {RiskRules[i].rule : i \in {j \in DOMAIN RiskRules : RiskRules[j].severity \in S}}
  <1>1. chunks \in Seq(ChunkSet(ToSet(text)))
    BY ClausesAreChunks
  <1>2. \A f : f \in ToSet(risks) <=> IsFinding(f, chunks)
    <2> HIDE DEF chunks
    <2>1. QED BY <1>1, FindingsAre
  <1>3. \A r : r \in RulesOf(text) <=> \E i \in DOMAIN chunks : r \in RulesIn(chunks[i])
    BY DocumentsSay
  <1> HIDE DEF text, chunks, risks
  <1>4. ASSUME NEW f \in Worst(risks, S) PROVE f.rule \in RulesOf(text) \cap names
    <2>1. f \in ToSet(risks) /\ f.severity \in S
      BY <1>4 DEF Worst
    <2>2. PICK i \in DOMAIN chunks, r \in ToSet(RiskRules) :
             r.rule \in RulesIn(chunks[i]) /\ f = [rule |-> r.rule, severity |-> r.severity, index |-> i]
      BY <1>2, <2>1 DEF IsFinding
    <2>3. f.rule = r.rule /\ f.severity = r.severity
      BY <2>2
    <2>4. PICK k \in DOMAIN RiskRules : r = RiskRules[k]
      BY DEF ToSet
    <2>5. r.rule \in names
      BY <2>1, <2>3, <2>4
    <2>6. QED BY <1>3, <2>2, <2>3, <2>5
  <1>5. ASSUME NEW n \in RulesOf(text) \cap names PROVE \E f \in Worst(risks, S) : f.rule = n
    <2>1. PICK i \in DOMAIN chunks : n \in RulesIn(chunks[i])
      BY <1>3
    <2>2. PICK k \in DOMAIN RiskRules : RiskRules[k].rule = n /\ RiskRules[k].severity \in S
      OBVIOUS
    <2> DEFINE r == RiskRules[k]
               f == [rule |-> r.rule, severity |-> r.severity, index |-> i]
    <2>3. r \in ToSet(RiskRules)
      BY DEF ToSet
    <2>4. r.rule = n /\ r.severity \in S
      BY <2>2
    <2> HIDE DEF r
    <2>5. f.rule = n /\ f.severity \in S
      BY <2>4
    <2>6. IsFinding(f, chunks)
      BY <2>1, <2>3, <2>4 DEF IsFinding
    <2> HIDE DEF f
    <2>7. QED BY <1>2, <2>5, <2>6 DEF Worst
  <1> HIDE DEF names
  <1>6. QED BY <1>4, <1>5 DEF text, chunks, risks, names

(* Every risk worth negotiating has its question.                          *)
LEMMA QuestionsAreNegotiable ==
    NegotiationQuestions
        = {RiskRules[i].rule : i \in {j \in DOMAIN RiskRules : RiskRules[j].severity \in {"high", "medium"}}}
  <1>1. \A i \in 1..11 : RiskRules[i].severity \in {"high", "medium"}
    <2>1. \A i \in 1..11 : i \in 1..6 \/ i \in 7..11
      OBVIOUS
    <2>2. QED BY <2>1, RiskRulesAre
  <1>2. \A i \in DOMAIN RiskRules : RiskRules[i].severity \in {"high", "medium"} <=> i \in 1..11
    <2>1. \A i \in 1..13 : i \in 1..11 \/ i \in 12..13
      OBVIOUS
    <2>2. \A i \in 12..13 : RiskRules[i].severity = "low" /\ i \notin 1..11
      BY RiskRulesAre
    <2>3. QED BY <1>1, <2>1, <2>2, RiskRulesAre
  <1>3. NegotiationQuestions = {RiskRules[i].rule : i \in 1..11}
    BY DEF NegotiationQuestions
  <1>4. 1..11 \subseteq DOMAIN RiskRules
    BY RiskRulesAre
  <1>5. QED BY <1>2, <1>3, <1>4

(* Showing a review.                                                       *)
LEMMA BackedReviewShown ==
    ASSUME StoredInv, NEW d \in Docs, NEW reply \in ExtractionReplies, GetReview(d, reply)
    PROVE  ReviewIsBacked'
  <1> DEFINE items == IF reply.form = "prose" THEN <<>> ELSE reply.items
             text == Text(d)
             chunks == Clauses(d)
             obligations == ParseObligations(items, chunks, text)
             risks == FlagRisks(chunks)
             coverage == CheckCoverage(chunks)
             conflicts == FindContradictions(obligations)
             missing == {t \in NotFound(coverage) : CoverageCategories[t] = "high"}
             questions == {f.rule : f \in ToSet(risks)} \cap NegotiationQuestions
             result == BuildReview(risks, coverage, conflicts)
             screen == [kind |-> "review", doc |-> d, obligations |-> obligations, result |-> result]
             rules == RulesOf(text)
             high == {RiskRules[i].rule : i \in {j \in DOMAIN RiskRules : RiskRules[j].severity = "high"}}
  <1>1. shown' = Generated(reply, screen) /\ pages' = pages
    BY DEF GetReview, Show
  <1>2. items \in Seq(Item)
    BY ReadingAssumption
  <1> HIDE DEF items
  <1>3. ObligationsBacked(obligations, chunks, text)
    BY <1>2, ClausesAreChunks, ObligationsAreBacked
  <1>4. \A c \in conflicts : \E o, p \in c.entries :
           /\ DaysOf(o) # DaysOf(p)
           /\ \A q \in {o, p} :
                 q.quote # NoQuote /\ (IsBlank(q.quote) \/ Supports(q, WordsOf(text)))
    <2> HIDE DEF obligations
    <2>1. QED BY <1>3, ConflictsAreBacked
  <1>5. missing \cap TopicsOf(text) = {}
    BY MissingIsMissing
  <1>6. {f.rule : f \in Worst(risks, {"high"})} = rules \cap high
    <2>1. \A x : x \in {"high"} <=> x = "high"
      OBVIOUS
    <2>2. {f.rule : f \in Worst(risks, {"high"})}
             = rules \cap {RiskRules[i].rule : i \in {j \in DOMAIN RiskRules : RiskRules[j].severity \in {"high"}}}
      BY RisksBySeverity
    <2>3. QED BY <2>1, <2>2
  <1>7. {f.rule : f \in Worst(risks, {"high", "medium"})} = questions
    <2>1. {f.rule : f \in Worst(risks, {"high", "medium"})} = rules \cap NegotiationQuestions
      BY RisksBySeverity, QuestionsAreNegotiable
    <2>2. {f.rule : f \in ToSet(risks)} = rules
      BY RulesThatFire
    <2> HIDE DEF risks, rules
    <2>3. QED BY <2>1, <2>2
  <1>8. result = [risks |-> Worst(risks, {"high"}), conflicts |-> conflicts, missing |-> missing,
                  negotiable |-> Worst(risks, {"high", "medium"}), questions |-> questions,
                  clarifications |-> NotFound(coverage)]
    BY DEF BuildReview, Worst
  <1> HIDE DEF risks, conflicts, missing, questions, result
  <1>9. /\ result.conflicts = conflicts /\ result.missing = missing /\ result.questions = questions
        /\ result.risks = Worst(risks, {"high"}) /\ result.negotiable = Worst(risks, {"high", "medium"})
    BY <1>8
  <1>10. shown' \in {[kind |-> "error_503"], [kind |-> "error_500"], screen}
    <2> HIDE DEF screen
    <2>1. QED BY <1>1, ShownReport, Zenon
  <1>11. CASE shown' = screen
    <2>1. shown'.doc = d /\ shown'.result = result
      <3> HIDE DEF obligations
      <3>1. QED BY <1>11
    <2>2. text = Text(d)' /\ rules = UNION {Text(d)'[i].rules : i \in DOMAIN Text(d)'}
          /\ TopicsOf(text) = UNION {Text(d)'[i].topics : i \in DOMAIN Text(d)'}
      BY <1>1 DEF RulesOf, TopicsOf, Text
    <2> HIDE DEF rules, text, high, screen
    <2>3. QED BY <1>4, <1>5, <1>6, <1>7, <1>9, <2>1, <2>2 DEF ReviewIsBacked, high
  <1>12. CASE shown' # screen
    <2>1. shown'.kind # "review"
      <3> HIDE DEF screen
      <3>1. QED BY <1>10, <1>12, ErrorIsNoReport
    <2>2. QED BY <2>1 DEF ReviewIsBacked
  <1>13. QED BY <1>11, <1>12

(* All that a review says can be traced to the text: its risks and their   *)
(* questions, its conflicts and the topics it misses.                      *)
THEOREM ReviewsAreBacked == Spec => []ReviewIsBacked
  <1> DEFINE IInv == StoredInv /\ ReviewIsBacked
  <1>1. ASSUME Init PROVE IInv
    <2>1. shown.kind = "nothing"
      BY <1>1 DEF Init, Nothing
    <2>2. QED BY <1>1, <2>1, StoredInit DEF ReviewIsBacked
  <1>2. ASSUME IInv, [Next]_vars PROVE IInv'
    <2>1. StoredInv'
      BY <1>2, StoredStep
    <2>2. pages' = pages
      BY <1>2, ScreenSteps
    <2>3. CASE shown' = shown
      BY <1>2, <2>1, <2>2, <2>3 DEF ReviewIsBacked, Text
    <2>4. CASE \E d \in Docs, reply \in ExtractionReplies : GetReview(d, reply)
      BY <1>2, <2>1, <2>4, BackedReviewShown
    <2>5. ASSUME shown'.kind # "review" PROVE ReviewIsBacked'
      BY <2>5 DEF ReviewIsBacked
    <2>6. CASE shown' = Nothing
      BY <2>1, <2>5, <2>6 DEF Nothing
    <2>7. CASE Screens /\ ~(\E d \in Docs, reply \in ExtractionReplies : GetReview(d, reply))
      <3>1. shown'.kind # "review"
        BY <2>7, ScreenKinds DEF Screens
      <3>2. QED BY <2>1, <2>5, <3>1
    <2>8. QED BY <1>2, <2>3, <2>4, <2>6, <2>7, ScreenSteps
  <1>3. QED BY <1>1, <1>2, PTL DEF Spec

-----------------------------------------------------------------------------
(* Ranking. The two folds of Answers.                                      *)

\* What Added makes of a sequence, element by element.
AddedFold(A, base, seq, result, item) ==
    \E acc \in [0..Len(seq) -> A] :
        /\ acc[0] = base
        /\ \A i \in 1..Len(seq) : acc[i] = Added(item, acc[i - 1], seq[i])
        /\ result = acc[Len(seq)]

(* The fold of Score.                                                      *)
LEMMA FoldOfAdded ==
    ASSUME NEW X, NEW seq \in Seq(X), NEW A, NEW base \in A, NEW item,
           \A a \in A, x \in X : Added(item, a, x) \in A
    PROVE  AddedFold(A, base, seq, FoldLeft(LAMBDA sum, ranking : Added(item, sum, ranking), base, seq), item)
  <1> DEFINE step == [p \in A \X X |-> Added(item, p[1], p[2])]
             Folds(it) == it = [s \in SUBSET DOMAIN seq |->
                                  IF s = {} THEN base ELSE Added(item, it[s \ {Max(s)}], seq[Max(s)])]
             chosen == CHOOSE it : Folds(it)
  <1>1. step \in [A \X X -> A] /\ \A a \in A, x \in X : step[<<a, x>>] = Added(item, a, x)
    OBVIOUS
  <1>2. FoldLeft(LAMBDA sum, ranking : Added(item, sum, ranking), base, seq) = chosen[DOMAIN seq]
    BY DEF FoldLeft, MapThenFoldSet
  <1> HIDE DEF step
  <1>3. PICK iter \in [SUBSET DOMAIN seq -> A] : FoldsLeft(seq, step, base, iter)
    BY <1>1, FoldLeftExists
  <1>4. \A s \in SUBSET DOMAIN seq : s # {} => Max(s) \in s /\ seq[Max(s)] \in X
    BY LastPlace
  <1>5. Folds(iter)
    <2>1. ASSUME NEW s \in SUBSET DOMAIN seq, s # {}
          PROVE  iter[s] = Added(item, iter[s \ {Max(s)}], seq[Max(s)])
      <3>1. iter[s] = step[<<iter[s \ {Max(s)}], seq[Max(s)]>>]
        BY <1>3, <2>1 DEF FoldsLeft
      <3>2. iter[s \ {Max(s)}] \in A /\ seq[Max(s)] \in X
        BY <1>4, <2>1
      <3>3. QED BY <1>1, <3>1, <3>2
    <2>2. iter[{}] = base
      BY <1>3 DEF FoldsLeft
    <2>3. QED BY <2>1, <2>2
  <1>6. Folds(chosen)
    BY <1>5
  <1> HIDE DEF chosen
  <1>7. FoldsLeftIn(A, seq, step, base, chosen)
    <2>1. chosen[{}] = base
      BY <1>6
    <2>2. ASSUME NEW s \in SUBSET DOMAIN seq, s # {}, chosen[s \ {Max(s)}] \in A
          PROVE  chosen[s] = step[<<chosen[s \ {Max(s)}], seq[Max(s)]>>]
      <3>1. chosen[s] = Added(item, chosen[s \ {Max(s)}], seq[Max(s)])
        BY <1>6, <2>2
      <3>2. QED BY <1>1, <1>4, <2>2, <3>1
    <2>3. QED BY <2>1, <2>2 DEF FoldsLeftIn
  <1>8. Accumulated(A, seq, step, base, chosen[DOMAIN seq])
    BY <1>1, <1>7, FoldLeftAccumulates, Zenon
  <1>9. PICK acc \in [0..Len(seq) -> A] : Accumulates(seq, step, base, acc) /\ chosen[DOMAIN seq] = acc[Len(seq)]
    BY <1>8 DEF Accumulated
  <1>10. ASSUME NEW i \in 1..Len(seq)
         PROVE  acc[i] = Added(item, acc[i - 1], seq[i])
    <2>1. acc[i - 1] \in A /\ seq[i] \in X
      OBVIOUS
    <2>2. acc[i] = step[<<acc[i - 1], seq[i]>>]
      BY <1>9 DEF Accumulates
    <2>3. QED BY <1>1, <2>1, <2>2
  <1>11. QED BY <1>2, <1>9, <1>10 DEF Accumulates, AddedFold

\* What Better makes of a sequence, element by element.
BetterFold(A, base, seq, result, claim, pool) ==
    \E acc \in [0..Len(seq) -> A] :
        /\ acc[0] = base
        /\ \A i \in 1..Len(seq) : acc[i] = Better(claim, pool, acc[i - 1], seq[i])
        /\ result = acc[Len(seq)]

(* The fold of VerifyClaim.                                                *)
BestOf(claim, pool, base, seq) == FoldLeft(LAMBDA found, i : Better(claim, pool, found, i), base, seq)

(* The best evidence, step by step.                                        *)
LEMMA FoldOfBetter ==
    ASSUME NEW X, NEW seq \in Seq(X), NEW A, NEW base \in A, NEW claim, NEW pool,
           \A a \in A, x \in X : Better(claim, pool, a, x) \in A
    PROVE  BetterFold(A, base, seq, BestOf(claim, pool, base, seq), claim, pool)
  <1> DEFINE step == [p \in A \X X |-> Better(claim, pool, p[1], p[2])]
             Folds(it) == it = [s \in SUBSET DOMAIN seq |->
                                  IF s = {} THEN base ELSE Better(claim, pool, it[s \ {Max(s)}], seq[Max(s)])]
             chosen == CHOOSE it : Folds(it)
  <1>1. step \in [A \X X -> A] /\ \A a \in A, x \in X : step[<<a, x>>] = Better(claim, pool, a, x)
    OBVIOUS
  <1>2. BestOf(claim, pool, base, seq) = chosen[DOMAIN seq]
    BY DEF BestOf, FoldLeft, MapThenFoldSet
  <1> HIDE DEF step
  <1>3. PICK iter \in [SUBSET DOMAIN seq -> A] : FoldsLeft(seq, step, base, iter)
    BY <1>1, FoldLeftExists
  <1>4. \A s \in SUBSET DOMAIN seq : s # {} => Max(s) \in s /\ seq[Max(s)] \in X
    BY LastPlace
  <1>5. Folds(iter)
    <2>1. ASSUME NEW s \in SUBSET DOMAIN seq, s # {}
          PROVE  iter[s] = Better(claim, pool, iter[s \ {Max(s)}], seq[Max(s)])
      <3>1. iter[s] = step[<<iter[s \ {Max(s)}], seq[Max(s)]>>]
        BY <1>3, <2>1 DEF FoldsLeft
      <3>2. iter[s \ {Max(s)}] \in A /\ seq[Max(s)] \in X
        BY <1>4, <2>1
      <3>3. QED BY <1>1, <3>1, <3>2
    <2>2. iter[{}] = base
      BY <1>3 DEF FoldsLeft
    <2>3. QED BY <2>1, <2>2
  <1>6. Folds(chosen)
    BY <1>5
  <1> HIDE DEF chosen
  <1>7. FoldsLeftIn(A, seq, step, base, chosen)
    <2>1. chosen[{}] = base
      BY <1>6
    <2>2. ASSUME NEW s \in SUBSET DOMAIN seq, s # {}, chosen[s \ {Max(s)}] \in A
          PROVE  chosen[s] = step[<<chosen[s \ {Max(s)}], seq[Max(s)]>>]
      <3>1. chosen[s] = Better(claim, pool, chosen[s \ {Max(s)}], seq[Max(s)])
        BY <1>6, <2>2
      <3>2. QED BY <1>1, <1>4, <2>2, <3>1
    <2>3. QED BY <2>1, <2>2 DEF FoldsLeftIn
  <1>8. Accumulated(A, seq, step, base, chosen[DOMAIN seq])
    BY <1>1, <1>7, FoldLeftAccumulates, Zenon
  <1>9. PICK acc \in [0..Len(seq) -> A] : Accumulates(seq, step, base, acc) /\ chosen[DOMAIN seq] = acc[Len(seq)]
    BY <1>8 DEF Accumulated
  <1>10. ASSUME NEW i \in 1..Len(seq)
         PROVE  acc[i] = Better(claim, pool, acc[i - 1], seq[i])
    <2>1. acc[i - 1] \in A /\ seq[i] \in X
      OBVIOUS
    <2>2. acc[i] = step[<<acc[i - 1], seq[i]>>]
      BY <1>9 DEF Accumulates
    <2>3. QED BY <1>1, <2>1, <2>2
  <1>11. QED BY <1>2, <1>9, <1>10 DEF Accumulates, BetterFold

-----------------------------------------------------------------------------
(* All clauses of a document, in some order.                               *)
Permutes(s, n) ==
    /\ s \in [1..n -> 1..n] /\ s \in Seq(1..n) /\ Len(s) = n
    /\ \A i, j \in 1..n : s[i] = s[j] => i = j
    /\ ToSet(s) = 1..n

(* An order of all clauses has each of them once.                          *)
LEMMA AllInSomeOrder ==
    ASSUME NEW n \in Nat, NEW s, s \in SetToSeqs(1..n)
    PROVE  Permutes(s, n)
PROOF
  <1>1. IsFiniteSet(1..n) /\ Cardinality(1..n) = n
    <2>1. 1 \in Int /\ n \in Int /\ (1 > n => n = 0) /\ n - 1 + 1 = n
      OBVIOUS
    <2>2. QED BY <2>1, FS_Interval
  <1>2. s \in [1..n -> 1..n] /\ \A i, j \in 1..n : i # j => s[i] # s[j]
    <2>1. s \in {f \in [1..n -> 1..n] : \A i, j \in 1..n : i # j => f[i] # f[j]}
      BY <1>1 DEF SetToSeqs
    <2>2. QED BY <2>1
  <1>3. Injects(s, 1..n, 1..n)
    BY <1>2 DEF Injects
  <1>4. {s[i] : i \in 1..n} = 1..n
    <2>1. ImageOf(s, 1..n) = 1..n
      BY <1>1, <1>3, InjectionOnto
    <2>2. QED BY <2>1 DEF ImageOf
  <1>5. DOMAIN s = 1..n /\ s \in Seq(1..n) /\ Len(s) = n
    BY <1>2
  <1>6. ToSet(s) = 1..n
    BY <1>4, <1>5 DEF ToSet
  <1>7. QED BY <1>2, <1>3, <1>5, <1>6 DEF Permutes, Injects

(* The rank of a clause in a ranking.                                      *)
RankIn(s, x) == SelectInSeq(s, LAMBDA y : y = x)

(* A clause is where its rank says.                                        *)
LEMMA RankIsPlace ==
    ASSUME NEW X, NEW s \in Seq(X), NEW x \in ToSet(s)
    PROVE  RankIn(s, x) \in 1..Len(s) /\ s[RankIn(s, x)] = x /\ Contains(s, x)
  <1> DEFINE I == {i \in 1..Len(s) : s[i] = x}
  <1>1. Len(s) \in Nat /\ DOMAIN s = 1..Len(s)
    OBVIOUS
  <1>2. I # {}
    BY <1>1 DEF ToSet
  <1>3. RankIn(s, x) = Min(I)
    BY <1>2 DEF RankIn, SelectInSeq
  <1>4. I \in SUBSET Nat
    OBVIOUS
  <1> HIDE DEF I
  <1>5. Min(I) \in I
    BY <1>2, <1>4, MinOfNumbers
  <1>6. QED BY <1>3, <1>5 DEF I, Contains

-----------------------------------------------------------------------------
(* Scores are fractions.                                                   *)

(* Scores are fractions.                                                   *)
Fraction == [num : Nat, den : Nat \ {0}]

(* A greater fraction, without division.                                   *)
Above(p, q) == p.num * q.den > q.num * p.den

(* What is used of multiplication.                                         *)
LEMMA Products ==
    /\ \A a, b \in Nat : a * b \in Nat /\ a * b = b * a
    /\ \A a, b, c \in Nat : a * (b * c) = (a * b) * c
    /\ \A a, b, c \in Nat : a <= b => a * c <= b * c
    /\ \A a, b \in Nat, c \in Nat \ {0} : a < b <=> a * c < b * c
  OBVIOUS

(* Comparing fractions is transitive.                                      *)
LEMMA FractionsInOrder ==
    ASSUME NEW a \in Nat, NEW b \in Nat \ {0}, NEW c \in Nat, NEW d \in Nat \ {0}, NEW e \in Nat, NEW f \in Nat \ {0},
           a * d >= c * b, c * f >= e * d
    PROVE  a * f >= e * b /\ (a * d > c * b \/ c * f > e * d => a * f > e * b)
  <1>1. (a * d) * f >= (c * b) * f /\ (a * d > c * b => (a * d) * f > (c * b) * f)
    BY Products
  <1>2. (c * f) * b >= (e * d) * b /\ (c * f > e * d => (c * f) * b > (e * d) * b)
    BY Products
  <1>3. (c * b) * f = (c * f) * b
    OBVIOUS
  <1>4. (a * d) * f = (a * f) * d /\ (e * d) * b = (e * b) * d
    OBVIOUS
  <1>5. a * d \in Nat /\ c * b \in Nat /\ c * f \in Nat /\ e * d \in Nat /\ a * f \in Nat /\ e * b \in Nat
        /\ (c * f) * b \in Nat
    OBVIOUS
  <1>6. (a * f) * d >= (e * b) * d /\ (a * d > c * b \/ c * f > e * d => (a * f) * d > (e * b) * d)
        /\ (a * f) * d \in Nat /\ (e * b) * d \in Nat
    BY <1>1, <1>2, <1>3, <1>4, <1>5
  <1>7. (a * f < e * b => (a * f) * d < (e * b) * d) /\ ((e * b) * d < (a * f) * d => e * b < a * f)
    BY <1>5, Products
  <1>8. QED BY <1>5, <1>6, <1>7

(* A ranking of the clauses 1..n, or none.                                 *)
Ranking(n) == {s \in Seq(1..n) : Permutes(s, n)}

(* What the code ranks by is a ranking.                                    *)
LEMMA RankingsAre ==
    ASSUME NEW n \in Nat
    PROVE  SetToSeqs(1..n) \subseteq Ranking(n)
  <1>1. ASSUME NEW s \in SetToSeqs(1..n) PROVE s \in Ranking(n)
    <2>1. Permutes(s, n)
      BY AllInSomeOrder
    <2>2. s \in Seq(1..n)
      BY <2>1 DEF Permutes
    <2>3. QED BY <2>1, <2>2, Zenon DEF Ranking
  <1>2. QED BY <1>1, Zenon

(* In a ranking every clause has a rank.                                   *)
LEMMA RanksAre ==
    ASSUME NEW n \in Nat, NEW s \in Ranking(n)
    PROVE  \A x \in 1..n : /\ RankIn(s, x) \in 1..n /\ Contains(s, x)
                           /\ s[RankIn(s, x)] = x
  <1>1. s \in Seq(1..n) /\ Len(s) = n /\ ToSet(s) = 1..n
    BY DEF Ranking, Permutes
  <1> TAKE x \in 1..n
  <1>2. RankIn(s, x) \in 1..Len(s) /\ s[RankIn(s, x)] = x /\ Contains(s, x)
    BY <1>1, RankIsPlace
  <1>3. QED BY <1>1, <1>2

(* Nothing is in the empty ranking.                                        *)
LEMMA NothingInEmpty == \A x : ~Contains(<<>>, x)
  BY DEF Contains

(* What the rank of a clause puts below the line.                          *)
Den(s, x) == K + RankIn(s, x)

(* It is a positive number, and the greater the greater the rank.          *)
LEMMA DenIs ==
    ASSUME NEW n \in Nat, NEW s \in Ranking(n), NEW x \in 1..n
    PROVE  /\ Den(s, x) \in Nat \ {0}
           /\ \A y \in 1..n : RankIn(s, x) < RankIn(s, y) => Den(s, x) < Den(s, y)
  <1>1. \A y \in 1..n : RankIn(s, y) \in 1..n
    BY RanksAre, Zenon
  <1>2. K \in Nat /\ RankIn(s, x) \in 1..n
    BY <1>1 DEF K
  <1>3. ASSUME NEW y \in 1..n, RankIn(s, x) < RankIn(s, y) PROVE Den(s, x) < Den(s, y)
    <2>1. RankIn(s, y) \in 1..n
      BY <1>1
    <2>2. QED BY <1>2, <1>3, <2>1 DEF Den
  <1>4. Den(s, x) \in Nat \ {0}
    BY <1>2 DEF Den
  <1>5. QED BY <1>3, <1>4

(* The score to start from.                                                *)
Zero == [num |-> 0, den |-> 1]

(* A ranking adds 1 / (K + rank).                                          *)
LEMMA AddedIs ==
    ASSUME NEW n \in Nat, NEW s \in Ranking(n), NEW x \in 1..n, NEW sum \in Fraction
    PROVE  /\ Added(x, sum, s) \in Fraction
           /\ Added(x, sum, s).num = sum.num * Den(s, x) + sum.den
           /\ Added(x, sum, s).den = sum.den * Den(s, x)
  <1> DEFINE d == Den(s, x)
  <1>1. Contains(s, x) /\ d \in Nat \ {0}
    BY RanksAre, DenIs, Zenon
  <1>2. Added(x, sum, s) = [num |-> sum.num * d + sum.den, den |-> sum.den * d]
    BY <1>1 DEF Added, RankIn, Den
  <1>3. sum.num \in Nat /\ sum.den \in Nat \ {0}
    BY DEF Fraction
  <1> HIDE DEF d
  <1>4. sum.num * d + sum.den \in Nat /\ sum.den * d \in Nat \ {0}
    BY <1>1, <1>3
  <1>5. QED BY <1>2, <1>4 DEF Fraction, d

(* The rank of a clause in the words' ranking, and in the meanings' when   *)
(* there is one, gives its score.                                          *)
ScoreFrom(score, dense, sparse, x) ==
    LET p == Den(dense, x)
        q == Den(sparse, x)
    IN  /\ score \in Fraction
        /\ dense = <<>> => score.num = 1 /\ score.den = q
        /\ dense # <<>> => score.num = q + p /\ score.den = p * q

(* The scores of two rankings.                                             *)
LEMMA ScoresAre ==
    ASSUME NEW n \in Nat, NEW dense \in Ranking(n) \cup {<<>>}, NEW sparse \in Ranking(n), NEW x \in 1..n
    PROVE  ScoreFrom(Score(x, <<dense, sparse>>), dense, sparse, x)
  <1> DEFINE X == Ranking(n) \cup {<<>>}
             both == <<dense, sparse>>
             result == Score(x, both)
  <1>1. both \in Seq(X) /\ Len(both) = 2 /\ both[1] = dense /\ both[2] = sparse
    OBVIOUS
  <1>2. Zero \in Fraction
    BY DEF Zero, Fraction
  <1>3. \A a \in Fraction, r \in X : Added(x, a, r) \in Fraction
    <2> TAKE a \in Fraction, r \in X
    <2>1. CASE r \in Ranking(n)
      BY <2>1, AddedIs
    <2>2. CASE r = <<>>
      BY <2>2, NothingInEmpty DEF Added
    <2>3. QED BY <2>1, <2>2
  <1> HIDE DEF X, both
  <1>4. AddedFold(Fraction, Zero, both, FoldLeft(LAMBDA sum, ranking : Added(x, sum, ranking), Zero, both), x)
    BY <1>1, <1>2, <1>3, FoldOfAdded, Zenon
  <1>5. AddedFold(Fraction, Zero, both, result, x)
    BY <1>4 DEF Score, Zero
  <1> HIDE DEF result
  <1>6. PICK acc \in [0..2 -> Fraction] :
               /\ acc[0] = Zero /\ result = acc[2]
               /\ acc[1] = Added(x, acc[0], dense) /\ acc[2] = Added(x, acc[1], sparse)
    <2>1. PICK acc \in [0..Len(both) -> Fraction] :
               /\ acc[0] = Zero /\ result = acc[Len(both)]
               /\ \A i \in 1..Len(both) : acc[i] = Added(x, acc[i - 1], both[i])
      BY <1>5 DEF AddedFold
    <2>2. 1 \in 1..2 /\ 2 \in 1..2 /\ 1 - 1 = 0 /\ 2 - 1 = 1
      OBVIOUS
    <2>3. QED BY <1>1, <2>1, <2>2
  <1> DEFINE p == Den(dense, x)
             q == Den(sparse, x)
             one == acc[1]
  <1>7. one \in Fraction /\ one = Added(x, Zero, dense)
    BY <1>6
  <1>8. Zero.num = 0 /\ Zero.den = 1
    BY DEF Zero
  <1>9. result \in Fraction /\ result.num = one.num * q + one.den /\ result.den = one.den * q
    <2>1. result = Added(x, one, sparse)
      BY <1>6
    <2>2. QED BY <1>7, <2>1, AddedIs, Zenon
  <1>10. q \in Nat
    BY DenIs
  <1> HIDE DEF q, one
  <1>11. CASE dense = <<>>
    <2>1. one = Zero
      BY <1>7, <1>11, NothingInEmpty DEF Added
    <2>2. result.num = 1 /\ result.den = q
      BY <1>8, <1>9, <1>10, <2>1
    <2>3. dense = <<>> => result.num = 1 /\ result.den = Den(sparse, x)
      BY <2>2 DEF q
    <2> HIDE DEF result
    <2>4. ScoreFrom(result, dense, sparse, x)
      BY <1>9, <1>11, <2>3 DEF ScoreFrom
    <2>5. QED BY <2>4, Zenon DEF result, both
  <1>12. CASE dense # <<>>
    <2>1. dense \in Ranking(n)
      BY <1>12
    <2>2. one.num = Zero.num * p + Zero.den /\ one.den = Zero.den * p
      BY <1>2, <1>7, <2>1, AddedIs, Zenon
    <2>3. p \in Nat
      BY <2>1, DenIs
    <2> HIDE DEF p
    <2>4. one.num = 1 /\ one.den = p
      BY <1>8, <2>2, <2>3
    <2>5. result.num = q + p /\ result.den = p * q
      BY <1>9, <1>10, <2>3, <2>4
    <2>6. result.num = Den(sparse, x) + Den(dense, x) /\ result.den = Den(dense, x) * Den(sparse, x)
      BY <2>5 DEF p, q
    <2> HIDE DEF result
    <2>7. ScoreFrom(result, dense, sparse, x)
      BY <1>9, <1>12, <2>6 DEF ScoreFrom
    <2>8. QED BY <2>7, Zenon DEF result, both
  <1>13. QED BY <1>11, <1>12

(* Ahead in the ranking by words, and in the one by meaning unless that is *)
(* empty, is ahead in score.                                               *)
AheadIn(s, x, y) == s = <<>> \/ RankIn(s, x) < RankIn(s, y)

(* Two smaller denominators make a greater sum.                            *)
LEMMA SumOfInverses ==
    ASSUME NEW p \in Nat \ {0}, NEW q \in Nat \ {0}, NEW r \in Nat \ {0}, NEW s \in Nat \ {0}, p < r, q < s
    PROVE  (q + p) * (r * s) > (s + r) * (p * q)
  <1>1. q * (r * s) > s * (p * q)
    <2>1. q * (r * s) = r * (s * q) /\ s * (p * q) = p * (s * q) /\ s * q \in Nat \ {0}
      OBVIOUS
    <2>2. QED BY <2>1, Products
  <1>2. p * (r * s) > r * (p * q)
    <2>1. p * (r * s) = s * (p * r) /\ r * (p * q) = q * (p * r) /\ p * r \in Nat \ {0}
      OBVIOUS
    <2>2. QED BY <2>1, Products
  <1>3. (q + p) * (r * s) = q * (r * s) + p * (r * s) /\ (s + r) * (p * q) = s * (p * q) + r * (p * q)
    OBVIOUS
  <1>4. q * (r * s) \in Nat /\ p * (r * s) \in Nat /\ s * (p * q) \in Nat /\ r * (p * q) \in Nat
    OBVIOUS
  <1>5. QED BY <1>1, <1>2, <1>3, <1>4

(* And so a higher score.                                                  *)
LEMMA AheadIsAbove ==
    ASSUME NEW n \in Nat, NEW dense \in Ranking(n) \cup {<<>>}, NEW sparse \in Ranking(n),
           NEW x \in 1..n, NEW y \in 1..n, NEW v, NEW w,
           ScoreFrom(v, dense, sparse, x), ScoreFrom(w, dense, sparse, y),
           AheadIn(dense, x, y), AheadIn(sparse, x, y)
    PROVE  Above(v, w)
  <1> DEFINE p == Den(dense, x)
             q == Den(sparse, x)
             r == Den(dense, y)
             s == Den(sparse, y)
  <1>0. sparse # <<>>
    <2>1. Len(sparse) = n /\ n # 0
      BY DEF Ranking, Permutes
    <2>2. QED BY <2>1
  <1>1. q \in Nat \ {0} /\ s \in Nat \ {0} /\ q < s
    <2>1. RankIn(sparse, x) < RankIn(sparse, y)
      BY <1>0, Zenon DEF AheadIn
    <2>2. QED BY <2>1, DenIs, Zenon
  <1>2. CASE dense = <<>>
    <2>1. v.num = 1 /\ v.den = q /\ w.num = 1 /\ w.den = s
      BY <1>2 DEF ScoreFrom
    <2> HIDE DEF q, s
    <2>2. QED BY <1>1, <2>1 DEF Above
  <1>3. CASE dense # <<>>
    <2>1. v.num = q + p /\ v.den = p * q /\ w.num = s + r /\ w.den = r * s
      BY <1>3 DEF ScoreFrom
    <2>2. p \in Nat \ {0} /\ r \in Nat \ {0} /\ p < r
      <3>1. RankIn(dense, x) < RankIn(dense, y) /\ dense \in Ranking(n)
        BY <1>3 DEF AheadIn
      <3>2. QED BY <3>1, DenIs, Zenon
    <2> HIDE DEF p, q, r, s
    <2>3. (q + p) * (r * s) > (s + r) * (p * q)
      BY <1>1, <2>2, SumOfInverses
    <2>4. QED BY <2>1, <2>3 DEF Above
  <1>4. QED BY <1>2, <1>3

-----------------------------------------------------------------------------
(* The fused ranking.                                                      *)

(* By score, and by place among those with the same.                       *)
Wins(score, place, x, y) ==
    \/ score[x].num * score[y].den > score[y].num * score[x].den
    \/ /\ score[x].num * score[y].den = score[y].num * score[x].den
       /\ place[x] < place[y]

(* The pairs of which the first wins.                                      *)
ByScore(score, place, S) == {p \in S \X S : Wins(score, place, p[1], p[2])}

(* A pair is in when its first wins.                                       *)
LEMMA ByScoreWins ==
    ASSUME NEW S, NEW score, NEW place, NEW x \in S, NEW y \in S
    PROVE  <<x, y>> \in ByScore(score, place, S) <=> Wins(score, place, x, y)
  <1>1. <<x, y>> \in S \X S /\ <<x, y>>[1] = x /\ <<x, y>>[2] = y
    OBVIOUS
  <1>2. QED BY <1>1 DEF ByScore

(* Winning is transitive.                                                  *)
LEMMA WinsTransitively ==
    ASSUME NEW S, NEW score \in [S -> Fraction], NEW place \in [S -> Nat],
           NEW x \in S, NEW y \in S, NEW z \in S, Wins(score, place, x, y), Wins(score, place, y, z)
    PROVE  Wins(score, place, x, z)
  <1> DEFINE a == score[x].num
             b == score[x].den
             c == score[y].num
             d == score[y].den
             e == score[z].num
             f == score[z].den
  <1>1. a \in Nat /\ b \in Nat \ {0} /\ c \in Nat /\ d \in Nat \ {0} /\ e \in Nat /\ f \in Nat \ {0}
    <2>1. \A p \in Fraction : p.num \in Nat /\ p.den \in Nat \ {0}
      BY DEF Fraction
    <2>2. score[x] \in Fraction /\ score[y] \in Fraction /\ score[z] \in Fraction
      OBVIOUS
    <2>3. QED BY <2>1, <2>2
  <1>2. place[x] \in Nat /\ place[y] \in Nat /\ place[z] \in Nat
    OBVIOUS
  <1>3. a * d > c * b \/ (a * d = c * b /\ place[x] < place[y])
    BY DEF Wins
  <1>4. c * f > e * d \/ (c * f = e * d /\ place[y] < place[z])
    BY DEF Wins
  <1> HIDE DEF a, b, c, d, e, f
  <1>5. /\ a * d \in Nat /\ c * b \in Nat /\ c * f \in Nat /\ e * d \in Nat /\ a * f \in Nat /\ e * b \in Nat
    BY <1>1
  <1>6. a * d >= c * b /\ c * f >= e * d
    BY <1>3, <1>4, <1>5
  <1>7. a * f >= e * b /\ (a * d > c * b \/ c * f > e * d => a * f > e * b)
    BY <1>1, <1>6, FractionsInOrder
  <1>8. a * f > e * b \/ (a * f = e * b /\ place[x] < place[z])
    BY <1>2, <1>3, <1>4, <1>5, <1>7
  <1>9. QED BY <1>8 DEF Wins, a, b, c, d, e, f

(* Nobody wins against himself; of two at different places one wins.       *)
LEMMA OneWins ==
    ASSUME NEW S, NEW score \in [S -> Fraction], NEW place \in [S -> Nat], NEW x \in S, NEW y \in S
    PROVE  /\ ~Wins(score, place, x, x)
           /\ place[x] # place[y] => Wins(score, place, x, y) \/ Wins(score, place, y, x)
  <1>1. \A p \in Fraction : p.num \in Nat /\ p.den \in Nat \ {0}
    BY DEF Fraction
  <1>2. score[x] \in Fraction /\ score[y] \in Fraction /\ place[x] \in Nat /\ place[y] \in Nat
    OBVIOUS
  <1>3. /\ score[x].num * score[y].den \in Nat /\ score[y].num * score[x].den \in Nat
        /\ score[x].num * score[x].den \in Nat
    BY <1>1, <1>2
  <1>4. QED BY <1>2, <1>3 DEF Wins

(* Winning is a strict total order.                                        *)
LEMMA ByScoreOrders ==
    ASSUME NEW S, NEW score \in [S -> Fraction], NEW place \in [S -> Nat],
           \A x, y \in S : place[x] = place[y] => x = y
    PROVE  Orders(ByScore(score, place, S), S)
  <1>1. \A x \in S : <<x, x>> \notin ByScore(score, place, S)
    BY ByScoreWins, OneWins
  <1>2. \A x, y, z \in S : <<x, y>> \in ByScore(score, place, S) /\ <<y, z>> \in ByScore(score, place, S)
                              => <<x, z>> \in ByScore(score, place, S)
    BY ByScoreWins, WinsTransitively
  <1>3. \A x, y \in S : x = y \/ <<x, y>> \in ByScore(score, place, S) \/ <<y, x>> \in ByScore(score, place, S)
    BY ByScoreWins, OneWins
  <1>4. QED BY <1>1, <1>2, <1>3 DEF Orders

(* The ranking by score: each clause once, and none before another that is *)
(* ahead of it in both rankings.                                           *)
FusedRight(f, dense, sparse, n) ==
    /\ f \in [1..n -> 1..n] /\ f \in Seq(1..n) /\ Len(f) = n /\ DOMAIN f = 1..n
    /\ \A i, j \in 1..n : f[i] = f[j] => i = j
    /\ \A i, j \in 1..n : AheadIn(dense, f[i], f[j]) /\ AheadIn(sparse, f[i], f[j]) => i < j

(* Reciprocal rank fusion of any two rankings has each clause once, and    *)
(* one that is ahead in both is ahead in it.                               *)
THEOREM FusedIsRight ==
    ASSUME NEW n \in Nat, NEW dense \in Ranking(n) \cup {<<>>}, NEW sparse \in Ranking(n)
    PROVE  FusedRight(Fused(<<dense, sparse>>), dense, sparse, n)
  <1> DEFINE both == <<dense, sparse>>
             met == FlattenSeq(both)
             items == ToSet(met)
             score == [x \in items |-> Score(x, both)]
             place == [x \in items |-> RankIn(met, x)]
             R == ByScore(score, place, items)
             C(x) == {y \in items : \/ score[y].num * score[x].den > score[x].num * score[y].den
                                     \/ /\ score[y].num * score[x].den = score[x].num * score[y].den
                                        /\ RankIn(met, y) < RankIn(met, x)}
             f == Fused(both)
  <1>1. met \in Seq(1..n) /\ items = 1..n
    <2> DEFINE S == 1..n
               X == Seq(S)
    <2>1. sparse \in X /\ ToSet(sparse) = S
      BY DEF Ranking, Permutes
    <2>2. dense \in X /\ ToSet(dense) \subseteq S
      <3>1. CASE dense = <<>>
        BY <3>1 DEF ToSet
      <3>2. CASE dense # <<>>
        BY <3>2 DEF Ranking, Permutes
      <3>3. QED BY <3>1, <3>2
    <2> HIDE DEF met, S, items, X
    <2>3. <<dense>> \in Seq(X) /\ both = Append(<<dense>>, sparse)
      BY <2>2
    <2>4. FlattenSeq(both) = FlattenSeq(<<dense>>) \o sparse
      BY <2>1, <2>3, FlattenOfAppend DEF X
    <2>5. FlattenSeq(both) = dense \o sparse
      BY <2>2, <2>4, FlattenOfOne DEF X
    <2>6. met \in Seq(S) /\ ToSet(met) = ToSet(dense) \cup ToSet(sparse)
      <3>1. met = dense \o sparse /\ dense \in Seq(S) /\ sparse \in Seq(S)
        BY <2>1, <2>2, <2>5 DEF met, X
      <3>2. QED BY <3>1, ElementsOfConcat
    <2>7. QED BY <2>1, <2>2, <2>6 DEF items, S
  <1>2. \A x \in 1..n : ScoreFrom(Score(x, both), dense, sparse, x)
    BY ScoresAre
  <1>3. \A x \in items : RankIn(met, x) \in 1..Len(met) /\ met[RankIn(met, x)] = x
    <2> HIDE DEF met
    <2>1. QED BY <1>1, RankIsPlace
  <1>4. f = [k \in 1..Cardinality(items) |-> CHOOSE x \in items : Cardinality(C(x)) = k - 1]
    BY DEF Fused, RankIn
  <1> HIDE DEF met, both, f, items
  <1>5. score \in [items -> Fraction] /\ \A x \in items : score[x] = Score(x, both)
    <2>1. \A x \in 1..n : Score(x, both) \in Fraction
      BY <1>2 DEF ScoreFrom
    <2>2. \A x \in items : Score(x, both) \in Fraction
      BY <1>1, <2>1
    <2>3. QED BY <2>2
  <1>6. /\ place \in [items -> Nat] /\ \A x, y \in items : place[x] = place[y] => x = y
        /\ \A x \in items : place[x] = RankIn(met, x)
    <2>1. \A x \in items : RankIn(met, x) \in Nat
      BY <1>1, <1>3
    <2>2. QED BY <1>3, <2>1
  <1> HIDE DEF score, place
  <1>7. \A x \in items : C(x) = BeforeIn(R, items, x)
    <2> TAKE x \in items
    <2>1. \A y \in items : <<y, x>> \in R
             <=> (\/ score[y].num * score[x].den > score[x].num * score[y].den
                  \/ /\ score[y].num * score[x].den = score[x].num * score[y].den
                     /\ RankIn(met, y) < RankIn(met, x))
      BY <1>6, ByScoreWins DEF Wins
    <2> HIDE DEF R
    <2>2. QED BY <2>1 DEF BeforeIn
  <1>8. IsFiniteSet(items) /\ Cardinality(items) = n
    <2>1. 1 \in Int /\ n \in Int /\ (1 > n => n = 0) /\ n - 1 + 1 = n
      OBVIOUS
    <2>2. QED BY <1>1, <2>1, FS_Interval
  <1>9. Orders(R, items)
    BY <1>5, <1>6, ByScoreOrders
  <1>10. \A x, y \in items : AheadIn(dense, x, y) /\ AheadIn(sparse, x, y) => <<x, y>> \in R
    <2> TAKE x, y \in items
    <2> HAVE AheadIn(dense, x, y) /\ AheadIn(sparse, x, y)
    <2>1. Above(Score(x, both), Score(y, both))
      BY <1>1, <1>2, AheadIsAbove
    <2>2. Wins(score, place, x, y)
      BY <1>5, <2>1 DEF Above, Wins
    <2>3. QED BY <2>2, ByScoreWins
  <1> HIDE DEF R, C
  <1>11. /\ \A x, y \in items : <<x, y>> \in R => Cardinality(BeforeIn(R, items, x)) < Cardinality(BeforeIn(R, items, y))
         /\ \A k \in 1..Cardinality(items) : \E x \in items : Cardinality(BeforeIn(R, items, x)) = k - 1
    <2>1. PlacesGiven(R, items)
      BY <1>8, <1>9, PlacesInOrder
    <2>2. QED BY <2>1 DEF PlacesGiven
  <1>12. \A k \in 1..n : f[k] \in items /\ Cardinality(BeforeIn(R, items, f[k])) = k - 1
    <2> TAKE k \in 1..n
    <2>1. f[k] = CHOOSE x \in items : Cardinality(C(x)) = k - 1
      BY <1>4, <1>8
    <2>2. \E x \in items : Cardinality(C(x)) = k - 1
      BY <1>7, <1>8, <1>11
    <2>3. f[k] \in items /\ Cardinality(C(f[k])) = k - 1
      BY <2>1, <2>2
    <2>4. QED BY <1>7, <2>3
  <1>13. f \in [1..n -> 1..n] /\ f \in Seq(1..n) /\ Len(f) = n /\ DOMAIN f = 1..n
    <2>1. f = [k \in 1..n |-> f[k]]
      BY <1>4, <1>8
    <2>2. f \in [1..n -> 1..n]
      BY <1>1, <1>12, <2>1
    <2>3. QED BY <2>2
  <1>14. \A i, j \in 1..n : f[i] = f[j] => i = j
    <2> TAKE i, j \in 1..n
    <2>1. i - 1 = Cardinality(BeforeIn(R, items, f[i])) /\ j - 1 = Cardinality(BeforeIn(R, items, f[j]))
      BY <1>12
    <2>2. f[i] = f[j] => i - 1 = j - 1
      BY <2>1
    <2>3. QED BY <2>2
  <1>15. \A i, j \in 1..n : AheadIn(dense, f[i], f[j]) /\ AheadIn(sparse, f[i], f[j]) => i < j
    <2> TAKE i, j \in 1..n
    <2> HAVE AheadIn(dense, f[i], f[j]) /\ AheadIn(sparse, f[i], f[j])
    <2>1. Cardinality(BeforeIn(R, items, f[i])) < Cardinality(BeforeIn(R, items, f[j]))
      BY <1>10, <1>11, <1>12
    <2>2. i - 1 < j - 1
      BY <1>12, <2>1
    <2>3. QED BY <2>2
  <1>16. QED BY <1>13, <1>14, <1>15 DEF FusedRight, f, both

-----------------------------------------------------------------------------
(* Hits.                                                                   *)

(* The first few of a sequence.                                            *)
LEMMA UpToIs ==
    ASSUME NEW X, NEW s \in Seq(X), NEW n \in Nat
    PROVE  LET m == Min({n, Len(s)})
           IN  /\ m \in 0..Len(s) /\ m <= n /\ (m = n \/ m = Len(s))
               /\ UpTo(n, s) \in Seq(X) /\ Len(UpTo(n, s)) = m
               /\ \A i \in 1..m : UpTo(n, s)[i] = s[i]
  <1> DEFINE m == Min({n, Len(s)})
  <1>1. Len(s) \in Nat
    OBVIOUS
  <1>2. m \in {n, Len(s)} /\ \A y \in {n, Len(s)} : m <= y
    <2>1. {n, Len(s)} \in SUBSET Nat /\ {n, Len(s)} # {}
      BY <1>1
    <2>2. QED BY <2>1, MinOfNumbers
  <1> HIDE DEF m
  <1>3. m \in 0..Len(s) /\ m <= n /\ (m = n \/ m = Len(s))
    BY <1>1, <1>2
  <1>4. UpTo(n, s) = SubSeq(s, 1, m)
    BY DEF UpTo, m
  <1>5. /\ SubSeq(s, 1, m) \in Seq(X) /\ Len(SubSeq(s, 1, m)) = m
        /\ \A i \in 1..m : SubSeq(s, 1, m)[i] = s[i]
    BY <1>1, <1>3
  <1>6. QED BY <1>3, <1>4, <1>5 DEF m

(* Hits in one document.                                                   *)
HitsOf(hits, d) == hits \in Seq(Hit) /\ \A i \in DOMAIN hits : hits[i].doc = d

(* The hits of the hybrid search, element by element.                      *)
HybridRight(hits, d, m, n, f, dense) ==
    /\ m \in 1..n /\ Len(hits) = m /\ HitsOf(hits, d)
    /\ \A i \in 1..m : hits[i].index = f[i] /\ (hits[i].measured \/ dense = <<>>)

(* They are the first of the fused ranking.                                *)
LEMMA HybridHitsAre ==
    ASSUME NEW n \in Nat \ {0}, NEW dense \in Ranking(n) \cup {<<>>}, NEW sparse \in Ranking(n),
           NEW d \in Docs, NEW top \in Nat \ {0}
    PROVE  HybridRight(HybridHits(d, dense, sparse, top), d, Min({top, Len(sparse)}), n,
                       Fused(<<dense, sparse>>), dense)
  <1> DEFINE hits == HybridHits(d, dense, sparse, top)
             m == Min({top, Len(sparse)})
             f == Fused(<<dense, sparse>>)
             up == UpTo(top, f)
  <1>1. f \in Seq(1..n) /\ Len(f) = n /\ Len(sparse) = n
    BY FusedIsRight DEF FusedRight, Ranking, Permutes
  <1> HIDE DEF f
  <1>2. /\ m \in 1..n
        /\ up \in Seq(1..n) /\ Len(up) = m /\ \A i \in 1..m : up[i] = f[i] /\ f[i] \in 1..n
    <2>1. LET k == Min({top, Len(f)})
          IN  /\ k \in 0..Len(f) /\ k <= top /\ (k = top \/ k = Len(f))
              /\ up \in Seq(1..n) /\ Len(up) = k /\ \A i \in 1..k : up[i] = f[i]
      BY <1>1, UpToIs
    <2>2. m \in 0..n /\ (m = top \/ m = n) /\ up \in Seq(1..n) /\ Len(up) = m /\ \A i \in 1..m : up[i] = f[i]
      BY <1>1, <2>1
    <2> HIDE DEF m, up
    <2>3. m \in 1..n
      BY <2>2
    <2>4. QED BY <1>1, <2>2, <2>3
  <1>3. hits = [i \in DOMAIN up |-> [doc |-> d, index |-> up[i], measured |-> Contains(dense, up[i])]]
    BY DEF HybridHits, f
  <1> HIDE DEF hits, up, m
  <1>4. DOMAIN up = 1..m
    BY <1>2
  <1>5. \A i \in 1..m : /\ hits[i] = [doc |-> d, index |-> f[i], measured |-> Contains(dense, f[i])]
                        /\ hits[i] \in Hit
    <2> TAKE i \in 1..m
    <2>1. hits[i] = [doc |-> d, index |-> f[i], measured |-> Contains(dense, f[i])]
      BY <1>2, <1>3, <1>4
    <2>2. f[i] \in Nat \ {0} /\ Contains(dense, f[i]) \in BOOLEAN
      BY <1>2 DEF Contains
    <2>3. QED BY <2>1, <2>2 DEF Hit
  <1>6. hits \in Seq(Hit) /\ Len(hits) = m
    BY <1>2, <1>3, <1>4, <1>5
  <1>7. \A i \in 1..m : dense # <<>> => Contains(dense, f[i])
    BY <1>2, RanksAre
  <1>8. \A i \in 1..m : hits[i].doc = d /\ hits[i].index = f[i] /\ (hits[i].measured \/ dense = <<>>)
    <2> TAKE i \in 1..m
    <2>1. hits[i] = [doc |-> d, index |-> f[i], measured |-> Contains(dense, f[i])]
      BY <1>5
    <2>2. hits[i].doc = d /\ hits[i].index = f[i] /\ hits[i].measured = Contains(dense, f[i])
      BY <2>1
    <2>3. QED BY <1>7, <2>2
  <1>9. HitsOf(hits, d)
    <2>1. DOMAIN hits = 1..m
      BY <1>6
    <2>2. QED BY <1>6, <1>8, <2>1 DEF HitsOf
  <1>10. QED BY <1>2, <1>6, <1>8, <1>9 DEF hits, f, m, HybridRight

(* The hits of the dense search.                                           *)
LEMMA DenseHitsAre ==
    ASSUME NEW n \in Nat, NEW dense \in Ranking(n), NEW d \in Docs, NEW top \in Nat \ {0}
    PROVE  HitsOf(DenseHits(d, dense, top), d)
  <1> DEFINE hits == DenseHits(d, dense, top)
             up == UpTo(top, dense)
  <1>1. up \in Seq(1..n)
    <2>1. dense \in Seq(1..n)
      BY DEF Ranking
    <2>2. QED BY <2>1, UpToIs
  <1>2. hits = [i \in DOMAIN up |-> [doc |-> d, index |-> up[i], measured |-> TRUE]]
    BY DEF DenseHits
  <1> HIDE DEF hits, up
  <1>3. \A i \in DOMAIN up : hits[i] \in Hit /\ hits[i].doc = d
    <2> TAKE i \in DOMAIN up
    <2>1. hits[i] = [doc |-> d, index |-> up[i], measured |-> TRUE] /\ up[i] \in Nat \ {0}
      BY <1>1, <1>2
    <2>2. QED BY <2>1 DEF Hit
  <1>4. DOMAIN up = 1..Len(up) /\ Len(up) \in Nat
    BY <1>1
  <1>5. hits \in Seq(Hit) /\ DOMAIN hits = DOMAIN up
    BY <1>2, <1>3, <1>4
  <1>6. QED BY <1>3, <1>5 DEF HitsOf, hits

-----------------------------------------------------------------------------
(* The question.                                                           *)
Kinds == {"none", "chat", "scenario", "cross"}

(* How many documents a question of a kind may name.                       *)
HowMany(kind) == CASE kind = "none" -> {0} [] kind = "cross" -> 2..MaxAsked [] OTHER -> {1}

(* What holds of the question being answered.                              *)
QuestionInv ==
    /\ DOMAIN asked = DOMAIN NoQuestion
    /\ asked.kind \in Kinds
    /\ asked.docs \in Seq(Docs) /\ Len(asked.docs) \in HowMany(asked.kind)
    /\ asked.todo \in Seq(Docs) /\ Len(asked.todo) <= Len(asked.docs)
    /\ ToSet(asked.todo) \subseteq ToSet(asked.docs)
    /\ asked.hits \in Seq(Hit) /\ \A i \in DOMAIN asked.hits : asked.hits[i].doc \in ToSet(asked.docs)
    /\ asked.corpus # <<>> => asked.todo # <<>> /\ asked.corpus = Clauses(Head(asked.todo))

(* Only a deletion removes clauses from the vector store.                  *)
DeletionInv ==
    /\ rows \subseteq Docs /\ deleting \subseteq Docs
    /\ \A d \in Docs : index[d] # Clauses(d) => d \in deleting

(* The fields of a question.                                               *)
LEMMA QuestionFields == DOMAIN NoQuestion = {"kind", "docs", "todo", "corpus", "dense", "sparse", "hits"}
  BY DEF NoQuestion

(* No question is being answered.                                          *)
LEMMA NoQuestionIs ==
    ASSUME asked' = NoQuestion
    PROVE  QuestionInv'
  <1>1. ToSet(<<>>) = {}
    BY DEF ToSet
  <1>2. QED BY <1>1 DEF QuestionInv, NoQuestion, Kinds, HowMany

(* A question begins.                                                      *)
LEMMA BeginsRight ==
    ASSUME QuestionInv, NEW kind \in Kinds, NEW ds \in Seq(Docs), Len(ds) \in HowMany(kind), Begin(kind, ds)
    PROVE  QuestionInv'
  <1>1. asked' = [NoQuestion EXCEPT !.kind = kind, !.docs = ds, !.todo = ds]
    BY DEF Begin
  <1>2. /\ DOMAIN asked' = DOMAIN NoQuestion /\ asked'.kind = kind /\ asked'.docs = ds /\ asked'.todo = ds
        /\ asked'.hits = <<>> /\ asked'.corpus = <<>>
    BY <1>1 DEF NoQuestion
  <1>3. Len(ds) <= Len(ds)
    OBVIOUS
  <1>4. QED BY <1>2, <1>3 DEF QuestionInv

(* The hits of the next document arrive.                                   *)
LEMMA RetrievedRight ==
    ASSUME QuestionInv, asked.todo # <<>>, NEW hits, HitsOf(hits, Head(asked.todo)),
           NEW dense, NEW sparse, Retrieved(hits, dense, sparse)
    PROVE  QuestionInv'
  <1> DEFINE todo == asked.todo
             more == asked.hits \o hits
  <1>1. asked' = [asked EXCEPT !.todo = Tail(todo), !.hits = more, !.corpus = <<>>,
                               !.dense = dense, !.sparse = sparse]
    BY DEF Retrieved
  <1> HIDE DEF more
  <1>2. /\ DOMAIN asked' = DOMAIN NoQuestion /\ asked'.kind = asked.kind /\ asked'.docs = asked.docs
        /\ asked'.todo = Tail(todo) /\ asked'.hits = more /\ asked'.corpus = <<>>
    BY <1>1, QuestionFields DEF QuestionInv
  <1>3. todo \in Seq(Docs) /\ Len(todo) <= Len(asked.docs) /\ ToSet(todo) \subseteq ToSet(asked.docs)
        /\ Len(asked.docs) \in Nat
    BY DEF QuestionInv
  <1>4. /\ Tail(todo) \in Seq(Docs) /\ Len(Tail(todo)) <= Len(asked.docs)
        /\ ToSet(Tail(todo)) \subseteq ToSet(asked.docs) /\ Head(todo) \in ToSet(asked.docs)
    <2> HIDE DEF todo
    <2>1. Tail(todo) \in Seq(Docs) /\ Len(Tail(todo)) = Len(todo) - 1
          /\ \A i \in 1..Len(Tail(todo)) : Tail(todo)[i] = todo[i + 1] /\ i + 1 \in 1..Len(todo)
      BY <1>3 DEF todo
    <2>2. ToSet(Tail(todo)) \subseteq ToSet(todo)
      BY <1>3, <2>1 DEF ToSet
    <2>3. Head(todo) \in ToSet(todo)
      BY <1>3 DEF ToSet, todo
    <2>4. QED BY <1>3, <2>1, <2>2, <2>3
  <1>5. more \in Seq(Hit) /\ ToSet(more) = ToSet(asked.hits) \cup ToSet(hits)
    BY ElementsOfConcat DEF QuestionInv, HitsOf, more
  <1>6. \A h \in ToSet(more) : h.doc \in ToSet(asked.docs)
    <2>1. \A h \in ToSet(asked.hits) : h.doc \in ToSet(asked.docs)
      BY DEF QuestionInv, ToSet
    <2>2. \A h \in ToSet(hits) : h.doc \in ToSet(asked.docs)
      BY <1>4 DEF HitsOf, ToSet
    <2>3. QED BY <1>5, <2>1, <2>2
  <1>7. \A i \in DOMAIN more : more[i].doc \in ToSet(asked.docs)
    BY <1>6 DEF ToSet
  <1>8. asked.kind \in Kinds /\ Len(asked.docs) \in HowMany(asked.kind) /\ asked.docs \in Seq(Docs)
    BY DEF QuestionInv
  <1> HIDE DEF todo
  <1>9. QED BY <1>2, <1>4, <1>5, <1>7, <1>8 DEF QuestionInv

-----------------------------------------------------------------------------
(* The hits of a document are its best clauses.                            *)

(* What HitsAreTheBest says of the hits of the last document.              *)
BestHits(latest, n, dense, sparse, gone) ==
    LET taken == {latest[i].index : i \in DOMAIN latest}
    IN  /\ Cardinality(taken) = n
        /\ \A x \in ToSet(sparse) \ taken, y \in taken : ~(AheadIn(dense, x, y) /\ AheadIn(sparse, x, y))
        /\ \A i \in DOMAIN latest : latest[i].measured \/ latest[i].doc \in gone

(* The hits of the hybrid search are the best clauses.                     *)
LEMMA HybridHitsAreBest ==
    ASSUME NEW n \in Nat \ {0}, NEW dense \in Ranking(n) \cup {<<>>}, NEW sparse \in Ranking(n),
           NEW d \in Docs, NEW top \in Nat \ {0}, NEW gone, dense = <<>> => d \in gone
    PROVE  BestHits(HybridHits(d, dense, sparse, top), Min({top, Len(sparse)}), dense, sparse, gone)
  <1> DEFINE hits == HybridHits(d, dense, sparse, top)
             m == Min({top, Len(sparse)})
             f == Fused(<<dense, sparse>>)
             taken == {hits[i].index : i \in DOMAIN hits}
  <1>1. /\ m \in 1..n /\ Len(hits) = m /\ HitsOf(hits, d)
        /\ \A i \in 1..m : hits[i].index = f[i] /\ (hits[i].measured \/ dense = <<>>)
    <2>1. HybridRight(hits, d, m, n, f, dense)
      BY HybridHitsAre
    <2>2. QED BY <2>1 DEF HybridRight
  <1>2. FusedRight(f, dense, sparse, n)
    BY FusedIsRight
  <1>3. ToSet(sparse) = 1..n
    BY DEF Ranking, Permutes
  <1> HIDE DEF hits, m, f
  <1>4. DOMAIN hits = 1..m
    BY <1>1 DEF HitsOf
  <1>5. \A i \in 1..m : i \in 1..n /\ hits[i].index = f[i]
    BY <1>1
  <1>6. Cardinality(taken) = m
    <2> DEFINE g == [i \in 1..m |-> f[i]]
               S == 1..m
               T == 1..n
    <2>1. Injects(g, S, T)
      BY <1>2, <1>5 DEF FusedRight, Injects
    <2>2. IsFiniteSet(S) /\ Cardinality(S) = m
      <3>1. 1 \in Int /\ m \in Int /\ (1 > m => m = 0) /\ m - 1 + 1 = m
        BY <1>1
      <3>2. QED BY <3>1, FS_Interval
    <2>3. taken = ImageOf(g, S)
      BY <1>4, <1>5 DEF ImageOf
    <2> HIDE DEF g, S, T, taken
    <2>4. Cardinality(ImageOf(g, S)) = Cardinality(S)
      BY <2>1, <2>2, ImageSize
    <2>5. QED BY <2>2, <2>3, <2>4
  <1>7. ASSUME NEW x \in (1..n) \ taken, NEW y \in taken, AheadIn(dense, x, y), AheadIn(sparse, x, y)
        PROVE  FALSE
    <2>1. PICK j \in 1..m : y = f[j] /\ j \in 1..n
      BY <1>4, <1>5
    <2>2. PICK i \in 1..n : x = f[i]
      <3> DEFINE T == 1..n
      <3>1. Injects(f, T, T)
        BY <1>2 DEF FusedRight, Injects
      <3>2. IsFiniteSet(T)
        <4>1. 1 \in Int /\ n \in Int
          OBVIOUS
        <4>2. QED BY <4>1, FS_Interval
      <3>3. x \in T
        OBVIOUS
      <3> HIDE DEF T
      <3>4. ImageOf(f, T) = T
        BY <3>1, <3>2, InjectionOnto
      <3>5. QED BY <3>3, <3>4 DEF T, ImageOf
    <2>3. i < j
      BY <1>2, <1>7, <2>1, <2>2 DEF FusedRight
    <2>4. i \in 1..m
      BY <1>1, <2>1, <2>2, <2>3
    <2>5. x \in taken
      BY <1>4, <1>5, <2>2, <2>4
    <2>6. QED BY <2>5
  <1>8. \A i \in DOMAIN hits : hits[i].measured \/ hits[i].doc \in gone
    <2> TAKE i \in DOMAIN hits
    <2>1. hits[i].doc = d /\ (hits[i].measured \/ dense = <<>>)
      BY <1>1, <1>4 DEF HitsOf
    <2>2. QED BY <2>1
  <1> HIDE DEF taken
  <1>9. /\ Cardinality(taken) = m
        /\ \A x \in ToSet(sparse) \ taken, y \in taken : ~(AheadIn(dense, x, y) /\ AheadIn(sparse, x, y))
        /\ \A i \in DOMAIN hits : hits[i].measured \/ hits[i].doc \in gone
    BY <1>3, <1>6, <1>7, <1>8
  <1>10. QED BY <1>9 DEF BestHits, taken, hits, m

-----------------------------------------------------------------------------
(* Reading the stores.                                                     *)

(* The inductive invariant.                                                *)
ReadInv == StoredInv /\ DeletionInv /\ QuestionInv

(* It holds at first.                                                      *)
LEMMA ReadInit == Init => ReadInv
  <1> SUFFICES ASSUME Init PROVE ReadInv
    OBVIOUS
  <1>1. StoredInv
    BY StoredInit
  <1>2. DeletionInv
    BY DEF Init, DeletionInv
  <1>3. QuestionInv
    <2>1. ToSet(<<>>) = {}
      BY DEF ToSet
    <2>2. asked = NoQuestion
      BY DEF Init
    <2>3. QED BY <2>1, <2>2 DEF QuestionInv, NoQuestion, Kinds, HowMany
  <1>4. QED BY <1>1, <1>2, <1>3 DEF ReadInv

(* What a step does to the question and to the stores.                     *)
LEMMA QuestionSteps ==
    ASSUME [Next]_vars
    PROVE  \/ \E d \in Docs : DeleteVectors(d) \/ DeleteRow(d)
           \/ /\ UNCHANGED <<pages, rows, deleting, index>>
              /\ \/ UNCHANGED asked
                 \/ asked' = NoQuestion
                 \/ \E d \in Docs : AskChat(d) \/ AskScenario(d)
                 \/ \E ds \in BoundedSeq(Docs, MaxAsked) : AskAcross(ds)
                 \/ DenseQuery \/ ReadCorpus \/ RankClauses
  <1>1. CASE UNCHANGED vars
    BY <1>1 DEF vars
  <1>2. CASE \E d \in Deletable : DeleteVectors(d) \/ DeleteRow(d)
    BY <1>2, ReadingAssumption
  <1>3. CASE \E d \in Docs : GetScans(d)
    BY <1>3 DEF GetScans, Show
  <1>4. CASE \E d, e \in Docs : Compare(d, e)
    BY <1>4 DEF Compare, Show
  <1>5. CASE \E d \in Docs, reply \in ExtractionReplies :
                GetOverview(d, reply) \/ GetReview(d, reply) \/ Summarize(d, reply)
    BY <1>5 DEF GetOverview, GetReview, Summarize, Show
  <1>6. CASE \E d \in Docs : AskChat(d) \/ AskScenario(d)
    BY <1>6 DEF AskChat, AskScenario, Begin
  <1>7. CASE \E ds \in BoundedSeq(Docs, MaxAsked) : AskAcross(ds)
    BY <1>7 DEF AskAcross, Begin
  <1>8. CASE DenseQuery \/ ReadCorpus \/ RankClauses
    BY <1>8 DEF DenseQuery, ReadCorpus, RankClauses, Retrieved
  <1>9. CASE \E reply \in AnswerReplies : AnswerChat(reply) \/ AnswerScenario(reply) \/ AnswerAcross(reply)
    BY <1>9 DEF AnswerChat, AnswerScenario, AnswerAcross, Show
  <1>10. CASE Close
    BY <1>10 DEF Close
  <1>11. QED BY <1>1, <1>2, <1>3, <1>4, <1>5, <1>6, <1>7, <1>8, <1>9, <1>10 DEF Next

(* How many clauses a document may give.                                   *)
LEMMA TopIs == Top \in Nat \ {0}
  BY ReadingAssumption DEF Top

(* The document that is read next.                                         *)
LEMMA NextDocument ==
    ASSUME QuestionInv, asked.todo # <<>>
    PROVE  Head(asked.todo) \in Docs
  <1>1. asked.todo \in Seq(Docs)
    BY DEF QuestionInv
  <1>2. QED BY <1>1

(* What the vector store has of a document.                                *)
LEMMA IndexIs ==
    ASSUME StoredInv, NEW d \in Docs
    PROVE  /\ index[d] \in {<<>>, Clauses(d)}
           /\ Len(index[d]) \in Nat /\ DOMAIN index[d] = 1..Len(index[d])
           /\ index[d] # <<>> => Len(index[d]) # 0
  <1>1. Clauses(d) \in Seq(ChunkSet(ToSet(Text(d))))
    BY ClausesAreChunks
  <1>2. index[d] \in {<<>>, Clauses(d)}
    BY DEF StoredInv
  <1> DEFINE X == ChunkSet(ToSet(Text(d)))
  <1>3. Clauses(d) \in Seq(X)
    BY <1>1
  <1> HIDE DEF X
  <1>4. index[d] \in Seq(X)
    <2>1. <<>> \in Seq(X)
      OBVIOUS
    <2>2. QED BY <1>2, <1>3, <2>1, Zenon
  <1>5. QED BY <1>2, <1>4

(* The two rankings of the hybrid search.                                  *)
LEMMA RankingsRead ==
    ASSUME ReadInv, asked.corpus # <<>>, NEW dense \in SetToSeqs(DOMAIN index[Head(asked.todo)]),
           NEW sparse \in SetToSeqs(DOMAIN asked.corpus)
    PROVE  LET n == Len(asked.corpus)
               d == Head(asked.todo)
           IN  /\ n \in Nat \ {0} /\ d \in Docs /\ asked.todo # <<>>
               /\ dense \in Ranking(n) \cup {<<>>} /\ sparse \in Ranking(n)
               /\ dense = <<>> => d \in deleting
  <1> DEFINE n == Len(asked.corpus)
             d == Head(asked.todo)
  <1>1. asked.todo # <<>> /\ asked.corpus = Clauses(d) /\ d \in Docs
    BY NextDocument DEF ReadInv, QuestionInv
  <1>2. Clauses(d) \in Seq(ChunkSet(ToSet(Text(d))))
    BY <1>1, ClausesAreChunks DEF ReadInv
  <1>3. n \in Nat \ {0} /\ DOMAIN asked.corpus = 1..n
    <2> DEFINE X == ChunkSet(ToSet(Text(d)))
    <2>1. asked.corpus \in Seq(X)
      BY <1>1, <1>2
    <2> HIDE DEF X
    <2>2. QED BY <2>1
  <1>4. sparse \in Ranking(n)
    BY <1>3, RankingsAre
  <1>5. CASE index[d] = Clauses(d)
    <2>1. dense \in Ranking(n)
      BY <1>1, <1>3, <1>5, RankingsAre
    <2>2. Len(dense) = n
      BY <2>1 DEF Ranking, Permutes
    <2>3. dense # <<>>
      BY <1>3, <2>2
    <2>4. QED BY <1>1, <1>3, <1>4, <2>1, <2>3
  <1>6. CASE index[d] # Clauses(d)
    <2>1. index[d] = <<>> /\ d \in deleting
      BY <1>1, <1>6, IndexIs DEF ReadInv, DeletionInv
    <2>2. DOMAIN index[d] = 1..0
      BY <2>1
    <2>3. dense \in Ranking(0)
      BY <2>2, RankingsAre
    <2>4. dense = <<>>
      BY <2>3 DEF Ranking, Permutes
    <2>5. QED BY <1>1, <1>3, <1>4, <2>1, <2>4
  <1>7. QED BY <1>5, <1>6

(* Every step preserves QuestionInv.                                       *)
LEMMA QuestionStep == ASSUME ReadInv, [Next]_vars PROVE QuestionInv'
  <1>1. CASE \E d \in Docs : DeleteVectors(d) \/ DeleteRow(d)
    BY <1>1 DEF DeleteVectors, DeleteRow, ReadInv, QuestionInv, Clauses
  <1>2. CASE UNCHANGED <<pages, rows, deleting, index>> /\ UNCHANGED asked
    BY <1>2 DEF ReadInv, QuestionInv, Clauses
  <1>3. CASE asked' = NoQuestion
    BY <1>3, NoQuestionIs
  <1>4. CASE \E d \in Docs : AskChat(d) \/ AskScenario(d)
    <2>1. PICK d \in Docs : AskChat(d) \/ AskScenario(d)
      BY <1>4
    <2>2. <<d>> \in Seq(Docs) /\ Len(<<d>>) = 1
      OBVIOUS
    <2>3. PICK kind \in {"chat", "scenario"} : Begin(kind, <<d>>)
      BY <2>1 DEF AskChat, AskScenario
    <2>4. kind \in Kinds /\ HowMany(kind) = {1}
      BY DEF Kinds, HowMany
    <2>5. QED BY <2>2, <2>3, <2>4, BeginsRight DEF ReadInv
  <1>5. CASE \E ds \in BoundedSeq(Docs, MaxAsked) : AskAcross(ds)
    <2>1. PICK ds \in BoundedSeq(Docs, MaxAsked) : AskAcross(ds)
      BY <1>5
    <2>2. ds \in Seq(Docs) /\ Len(ds) <= MaxAsked /\ Len(ds) \in Nat
      BY ReadingAssumption DEF BoundedSeq, SeqOf
    <2>3. Len(ds) \in HowMany("cross") /\ "cross" \in Kinds /\ Begin("cross", ds)
      BY <2>1, <2>2, ReadingAssumption DEF HowMany, Kinds, AskAcross
    <2>4. QED BY <2>2, <2>3, BeginsRight DEF ReadInv
  <1>6. CASE DenseQuery
    <2> DEFINE d == Head(asked.todo)
    <2>1. PICK dense \in SetToSeqs(DOMAIN index[d]) : Retrieved(DenseHits(d, dense, Top), dense, <<>>)
      BY <1>6 DEF DenseQuery
    <2>2. asked.todo # <<>> /\ d \in Docs
      BY <1>6, NextDocument DEF DenseQuery, ReadInv
    <2>3. Len(index[d]) \in Nat /\ dense \in Ranking(Len(index[d]))
      BY <2>2, IndexIs, RankingsAre DEF ReadInv
    <2>4. HitsOf(DenseHits(d, dense, Top), d)
      BY <2>2, <2>3, TopIs, DenseHitsAre
    <2>5. QED BY <2>1, <2>2, <2>4, RetrievedRight DEF ReadInv
  <1>7. CASE ReadCorpus
    <2> DEFINE d == Head(asked.todo)
    <2>1. asked.todo # <<>> /\ d \in Docs
      BY <1>7, NextDocument DEF ReadCorpus, ReadInv
    <2>2. CASE index[d] = <<>>
      <3>1. Retrieved(<<>>, <<>>, <<>>)
        BY <1>7, <2>2 DEF ReadCorpus
      <3>2. HitsOf(<<>>, d)
        BY DEF HitsOf
      <3>3. QED BY <2>1, <3>1, <3>2, RetrievedRight DEF ReadInv
    <2>3. CASE index[d] # <<>>
      <3>1. asked' = [asked EXCEPT !.corpus = index[d]] /\ pages' = pages
        BY <1>7, <2>3 DEF ReadCorpus
      <3>2. index[d] = Clauses(d)
        BY <2>1, <2>3, IndexIs DEF ReadInv
      <3>3. /\ DOMAIN asked' = DOMAIN NoQuestion /\ asked'.kind = asked.kind /\ asked'.docs = asked.docs
            /\ asked'.todo = asked.todo /\ asked'.hits = asked.hits /\ asked'.corpus = Clauses(d)
        BY <3>1, <3>2, QuestionFields DEF ReadInv, QuestionInv
      <3>4. Clauses(d)' = Clauses(d)
        BY <3>1, <3>3 DEF Clauses
      <3>5. QED BY <2>1, <3>3, <3>4 DEF ReadInv, QuestionInv
    <2>4. QED BY <2>2, <2>3
  <1>8. CASE RankClauses
    <2> DEFINE d == Head(asked.todo)
    <2>1. asked.corpus # <<>>
      BY <1>8 DEF RankClauses
    <2>2. PICK dense \in SetToSeqs(DOMAIN index[d]), sparse \in SetToSeqs(DOMAIN asked.corpus) :
                Retrieved(HybridHits(d, dense, sparse, Top), dense, sparse)
      BY <1>8 DEF RankClauses
    <2>3. /\ Len(asked.corpus) \in Nat \ {0} /\ d \in Docs /\ asked.todo # <<>>
          /\ dense \in Ranking(Len(asked.corpus)) \cup {<<>>} /\ sparse \in Ranking(Len(asked.corpus))
      BY <2>1, RankingsRead
    <2>4. HitsOf(HybridHits(d, dense, sparse, Top), d)
      BY <2>3, TopIs, HybridHitsAre DEF HybridRight
    <2>5. QED BY <2>2, <2>3, <2>4, RetrievedRight DEF ReadInv
  <1>9. QED BY <1>1, <1>2, <1>3, <1>4, <1>5, <1>6, <1>7, <1>8, QuestionSteps

(* Every step preserves ReadInv.                                           *)
LEMMA ReadStep == ASSUME ReadInv, [Next]_vars PROVE ReadInv'
  <1>1. StoredInv'
    BY StoredStep DEF ReadInv
  <1>2. QuestionInv'
    BY QuestionStep
  <1>3. DeletionInv'
    <2>1. CASE \E d \in Docs : DeleteVectors(d) \/ DeleteRow(d)
      BY <2>1 DEF DeleteVectors, DeleteRow, ReadInv, DeletionInv, Clauses, StoredInv
    <2>2. CASE UNCHANGED <<pages, rows, deleting, index>>
      BY <2>2 DEF ReadInv, DeletionInv, Clauses
    <2>3. QED BY <2>1, <2>2, QuestionSteps
  <1>4. QED BY <1>1, <1>2, <1>3 DEF ReadInv

-----------------------------------------------------------------------------
(* The hits in the state of a question.                                    *)

(* The property, by way of BestHits.                                       *)
LatestAreBest ==
    LET n == Min({Top, Len(asked.sparse)})
    IN  asked.sparse # <<>> =>
            BestHits(SubSeq(asked.hits, Len(asked.hits) - n + 1, Len(asked.hits)), n,
                     asked.dense, asked.sparse, deleting)

(* They are the same ...                                                   *)
LEMMA BestSaid == HitsAreTheBest <=> LatestAreBest
  BY DEF HitsAreTheBest, LatestAreBest, BestHits, AheadIn, RankIn

(* ... also in the next state.                                             *)
LEMMA BestSaidNext == HitsAreTheBest' <=> LatestAreBest'
  BY BestSaid, PTL

(* Deleting more documents or reading the clauses of the next changes      *)
(* nothing of the hits there are.                                          *)
LEMMA BestStays ==
    ASSUME HitsAreTheBest, asked'.kind = asked.kind, asked'.hits = asked.hits, asked'.dense = asked.dense,
           asked'.sparse = asked.sparse, deleting \subseteq deleting'
    PROVE  HitsAreTheBest'
  <1> DEFINE n == Min({Top, Len(asked.sparse)})
             latest == SubSeq(asked.hits, Len(asked.hits) - n + 1, Len(asked.hits))
  <1>1. Top' = Top
    BY DEF Top
  <1>2. asked.sparse # <<>> => BestHits(latest, n, asked.dense, asked.sparse, deleting)
    BY BestSaid DEF LatestAreBest
  <1> HIDE DEF n, latest
  <1>3. asked.sparse # <<>> => BestHits(latest, n, asked.dense, asked.sparse, deleting')
    BY <1>2 DEF BestHits
  <1>4. QED BY <1>1, <1>3, BestSaidNext DEF n, latest, LatestAreBest

(* Without a ranking there is nothing to show.                             *)
LEMMA NotRanked == ASSUME asked'.sparse = <<>> PROVE HitsAreTheBest'
  BY DEF HitsAreTheBest

(* RankClauses establishes the property.                                   *)
LEMMA RankedAreBest ==
    ASSUME ReadInv, RankClauses
    PROVE  HitsAreTheBest'
  <1> DEFINE d == Head(asked.todo)
             n == Len(asked.corpus)
  <1>1. asked.corpus # <<>>
    BY DEF RankClauses
  <1>2. PICK dense \in SetToSeqs(DOMAIN index[d]), sparse \in SetToSeqs(DOMAIN asked.corpus) :
              Retrieved(HybridHits(d, dense, sparse, Top), dense, sparse)
    BY DEF RankClauses
  <1>3. /\ n \in Nat \ {0} /\ d \in Docs /\ asked.todo # <<>>
        /\ dense \in Ranking(n) \cup {<<>>} /\ sparse \in Ranking(n) /\ (dense = <<>> => d \in deleting)
    BY <1>1, RankingsRead
  <1> DEFINE hits == HybridHits(d, dense, sparse, Top)
             m == Min({Top, Len(sparse)})
             more == asked.hits \o hits
  <1>4. BestHits(hits, m, dense, sparse, deleting)
    BY <1>3, TopIs, HybridHitsAreBest
  <1>5. m \in 1..n /\ Len(hits) = m /\ HitsOf(hits, d)
    <2>1. HybridRight(hits, d, m, n, Fused(<<dense, sparse>>), dense)
      BY <1>3, TopIs, HybridHitsAre
    <2>2. QED BY <2>1 DEF HybridRight
  <1>6. asked' = [asked EXCEPT !.todo = Tail(@), !.hits = more, !.corpus = <<>>,
                               !.dense = dense, !.sparse = sparse] /\ deleting' = deleting
    BY <1>2 DEF Retrieved
  <1> HIDE DEF hits, m, more, n
  <1>7. asked'.kind = asked.kind /\ asked'.hits = more /\ asked'.dense = dense /\ asked'.sparse = sparse
    BY <1>6, QuestionFields DEF ReadInv, QuestionInv
  <1>8. Top' = Top
    BY <1>7 DEF Top
  <1>9. SubSeq(more, Len(more) - m + 1, Len(more)) = hits
    <2>1. asked.hits \in Seq(Hit) /\ hits \in Seq(Hit) /\ Len(hits) # 0
      BY <1>3, <1>5 DEF ReadInv, QuestionInv, HitsOf
    <2>2. QED BY <1>5, <2>1, LatestOfConcat DEF more
  <1>10. Min({Top', Len(asked'.sparse)}) = m
    BY <1>7, <1>8 DEF m
  <1>11. QED BY <1>4, <1>6, <1>7, <1>9, <1>10, BestSaidNext DEF LatestAreBest

(***************************************************************************)
(* Reciprocal rank fusion puts the best clauses before the model, each     *)
(* once, and makes no distance up unless the document is being deleted;    *)
(* for every ranking, whatever the number of clauses.                      *)
(***************************************************************************)
THEOREM HitsAreBest == Spec => []HitsAreTheBest
  <1> DEFINE IInv == ReadInv /\ HitsAreTheBest
  <1>1. Init => IInv
    <2>1. Init => HitsAreTheBest
      BY DEF Init, NoQuestion, HitsAreTheBest
    <2>2. QED BY <2>1, ReadInit
  <1>2. IInv /\ [Next]_vars => IInv'
    <2> SUFFICES ASSUME IInv, [Next]_vars PROVE IInv'
      OBVIOUS
    <2>1. ReadInv'
      BY ReadStep
    <2>2. CASE \E d \in Docs : DeleteVectors(d) \/ DeleteRow(d)
      <3>1. asked' = asked /\ deleting \subseteq deleting'
        BY <2>2 DEF DeleteVectors, DeleteRow
      <3>2. QED BY <2>1, <3>1, BestStays
    <2>3. CASE UNCHANGED <<pages, rows, deleting, index>> /\ UNCHANGED asked
      BY <2>1, <2>3, BestStays
    <2>4. CASE asked' = NoQuestion
      BY <2>1, <2>4, NotRanked DEF NoQuestion
    <2>5. CASE \E d \in Docs : AskChat(d) \/ AskScenario(d)
      <3>1. asked'.sparse = <<>>
        BY <2>5 DEF AskChat, AskScenario, Begin, NoQuestion
      <3>2. QED BY <2>1, <3>1, NotRanked
    <2>6. CASE \E ds \in BoundedSeq(Docs, MaxAsked) : AskAcross(ds)
      <3>1. asked'.sparse = <<>>
        BY <2>6 DEF AskAcross, Begin, NoQuestion
      <3>2. QED BY <2>1, <3>1, NotRanked
    <2>7. DOMAIN asked = {"kind", "docs", "todo", "corpus", "dense", "sparse", "hits"}
      BY QuestionFields DEF ReadInv, QuestionInv
    <2>8. CASE DenseQuery
      <3>1. asked'.sparse = <<>>
        BY <2>7, <2>8 DEF DenseQuery, Retrieved
      <3>2. QED BY <2>1, <3>1, NotRanked
    <2>9. CASE ReadCorpus
      <3> DEFINE d == Head(asked.todo)
      <3>1. CASE index[d] = <<>>
        <4>1. asked'.sparse = <<>>
          BY <2>7, <2>9, <3>1 DEF ReadCorpus, Retrieved
        <4>2. QED BY <2>1, <4>1, NotRanked
      <3>2. CASE index[d] # <<>>
        <4>1. asked' = [asked EXCEPT !.corpus = index[d]] /\ deleting' = deleting
          BY <2>9, <3>2 DEF ReadCorpus
        <4>2. asked'.kind = asked.kind /\ asked'.hits = asked.hits /\ asked'.dense = asked.dense
              /\ asked'.sparse = asked.sparse
          BY <2>7, <4>1
        <4>3. QED BY <2>1, <4>1, <4>2, BestStays
      <3>3. QED BY <3>1, <3>2
    <2>10. CASE RankClauses
      BY <2>1, <2>10, RankedAreBest
    <2>11. QED BY <2>2, <2>3, <2>4, <2>5, <2>6, <2>8, <2>9, <2>10, QuestionSteps
  <1>3. QED BY <1>1, <1>2, PTL DEF Spec

-----------------------------------------------------------------------------
(* What is shown is of a kind that is known.                               *)

(* The kinds of what is shown.                                             *)
ShownInv ==
    shown.kind \in {"nothing", "scans", "comparison", "overview", "review", "summary",
                    "parse_error", "error_500", "error_503", "answer"}

(* Every step preserves it.                                                *)
LEMMA ShownStep == ASSUME ShownInv, [Next]_vars PROVE ShownInv'
  <1>1. CASE Screens
    <2>1. shown'.kind \in {"scans", "comparison", "overview", "review", "summary", "parse_error", "error_500",
                           "error_503", "answer"}
      BY <1>1, ScreenKinds DEF Screens
    <2>2. QED BY <2>1 DEF ShownInv
  <1>2. CASE shown' \in {shown, Nothing}
    BY <1>2 DEF ShownInv, Nothing
  <1>3. QED BY <1>1, <1>2, ScreenSteps

(***************************************************************************)
(* Every state of Sanad's reading side is well formed, for any documents,  *)
(* replies and limits.                                                     *)
(***************************************************************************)
THEOREM TypeCorrect == Spec => []TypeOK
  <1> DEFINE IInv == ReadInv /\ ShownInv /\ hybrid \in BOOLEAN /\ old \subseteq Docs
  <1>1. Init => IInv
    <2> SUFFICES ASSUME Init PROVE IInv
      OBVIOUS
    <2>1. old \subseteq Docs
      BY ReadingAssumption DEF Init
    <2>2. QED BY <2>1, ReadInit DEF Init, ShownInv, Nothing
  <1>2. IInv /\ [Next]_vars => IInv'
    <2> SUFFICES ASSUME IInv, [Next]_vars PROVE IInv'
      OBVIOUS
    <2>1. hybrid' = hybrid /\ old' = old
      BY DEF Next, vars, DeleteVectors, DeleteRow, GetScans, Compare, GetOverview, GetReview, Summarize, Show,
             AskChat, AskScenario, AskAcross, Begin, DenseQuery, ReadCorpus, RankClauses, Retrieved,
             AnswerChat, AnswerScenario, AnswerAcross, Close
    <2>2. QED BY <2>1, ReadStep, ShownStep
  <1>3. ASSUME IInv PROVE TypeOK
    <2>1. pages \in Libraries /\ old \subseteq Docs /\ hybrid \in BOOLEAN /\ rows \subseteq Docs /\ deleting \subseteq Docs
      BY <1>3 DEF ReadInv, StoredInv, DeletionInv
    <2>2. ASSUME NEW d \in Docs, NEW i \in DOMAIN index[d] PROVE index[d][i].chars \in Nat
      <3> DEFINE X == ToSet(Text(d))
      <3>1. Clauses(d) \in Seq(ChunkSet(X))
        BY <1>3, ClausesAreChunks DEF ReadInv
      <3> HIDE DEF X
      <3>2. index[d] = Clauses(d)
        BY <1>3, <2>2, IndexIs DEF ReadInv
      <3>3. index[d][i] \in ChunkSet(X)
        BY <2>2, <3>1, <3>2
      <3>4. QED BY <3>3 DEF ChunkSet
    <2>3. asked.kind \in {"none", "chat", "scenario", "cross"} /\ Len(asked.docs) \in HowMany(asked.kind)
      BY <1>3 DEF ReadInv, QuestionInv, Kinds
    <2>4. asked.todo \in BoundedSeq(Docs, MaxAsked)
      <3>1. /\ asked.todo \in Seq(Docs) /\ Len(asked.todo) <= Len(asked.docs) /\ Len(asked.docs) \in Nat
            /\ MaxAsked \in Nat \ {0}
        BY <1>3, ReadingAssumption DEF ReadInv, QuestionInv
      <3>2. Len(asked.docs) <= MaxAsked
        BY <2>3, <3>1 DEF HowMany
      <3>3. Len(asked.todo) \in 0..MaxAsked /\ asked.todo \in [1..Len(asked.todo) -> Docs]
        BY <3>1, <3>2
      <3>4. QED BY <3>3 DEF BoundedSeq, SeqOf
    <2>5. ToSet(asked.hits) \subseteq Hit
      <3>1. asked.hits \in Seq(Hit)
        BY <1>3 DEF ReadInv, QuestionInv
      <3>2. QED BY <3>1 DEF ToSet
    <2>6. QED BY <1>3, <2>1, <2>2, <2>3, <2>4, <2>5 DEF TypeOK, HowMany, ShownInv
  <1>4. QED BY <1>1, <1>2, <1>3, PTL DEF Spec

-----------------------------------------------------------------------------
(* The reply.                                                              *)
LEMMA CitedAreHits ==
    ASSUME NEW citations \in Seq(Citation), NEW types, NEW hits \in Seq(Hit)
    PROVE  LET cited == Cited(citations, types, hits)
           IN  cited \in Seq(Hit) /\ ToSet(cited) \subseteq ToSet(hits) /\ Len(cited) <= Len(citations)
  <1> DEFINE S == {c \in ToSet(citations) : c.type \in types /\ c.n \in DOMAIN hits}
             valid == Kept(citations, S)
             cited == Cited(citations, types, hits)
  <1>1. valid \in Seq(Citation) /\ ToSet(valid) = ToSet(citations) \cap S /\ Len(valid) <= Len(citations)
    <2> HIDE DEF S
    <2>1. QED BY KeptProperties
  <1>2. \A i \in DOMAIN valid : valid[i].n \in DOMAIN hits
    BY <1>1 DEF ToSet
  <1>3. cited = [i \in DOMAIN valid |-> hits[valid[i].n]]
    BY DEF Cited
  <1> HIDE DEF valid, cited
  <1>4. DOMAIN valid = 1..Len(valid) /\ Len(valid) \in Nat
    BY <1>1
  <1>5. \A i \in DOMAIN valid : hits[valid[i].n] \in Hit /\ hits[valid[i].n] \in ToSet(hits)
    BY <1>2 DEF ToSet
  <1>6. cited \in Seq(Hit) /\ Len(cited) = Len(valid) /\ \A i \in DOMAIN cited : cited[i] \in ToSet(hits)
    BY <1>3, <1>4, <1>5
  <1>7. ToSet(cited) \subseteq ToSet(hits)
    BY <1>6 DEF ToSet
  <1>8. QED BY <1>1, <1>6, <1>7 DEF cited

(* What is said of an answer, grounded or not.                             *)
AnswerRight(answer, hits) ==
    /\ answer.grounded <=> answer.cited # <<>>
    /\ answer.grounded => answer.own
    /\ answer.cited \in Seq(Hit) /\ answer.retrieved = hits
    /\ ToSet(answer.cited) \subseteq ToSet(hits)
    /\ Len(answer.cited) <= answer.requested

(* A refusal cites nothing.                                                *)
LEMMA RefusalIsRight ==
    ASSUME NEW hits, NEW requested \in Nat, NEW parseError
    PROVE  AnswerRight(Refusal(hits, requested, parseError), hits)
  <1>1. ToSet(<<>>) = {} /\ Len(<<>>) = 0
    BY DEF ToSet
  <1>2. QED BY <1>1 DEF AnswerRight, Refusal

(* What is made of a reply cites hits only.                                *)
LEMMA ParsedIsRight ==
    ASSUME NEW reply \in AnswerReplies, NEW types, NEW hits \in Seq(Hit)
    PROVE  AnswerRight(ParseAnswer(reply, types, hits), hits)
  <1> DEFINE cited == Cited(reply.citations, types, hits)
             requested == Len(reply.citations)
             answer == [Refusal(hits, requested, FALSE) EXCEPT
                           !.grounded = cited # <<>>, !.own = TRUE, !.cited = cited]
  <1>1. reply.citations \in Seq(Citation)
    BY ReadingAssumption
  <1>2. cited \in Seq(Hit) /\ ToSet(cited) \subseteq ToSet(hits) /\ Len(cited) <= requested /\ requested \in Nat
    BY <1>1, CitedAreHits
  <1>3. ParseAnswer(reply, types, hits) \in {Refusal(hits, 0, TRUE), Refusal(hits, requested, FALSE), answer}
    BY DEF ParseAnswer
  <1> HIDE DEF cited, requested
  <1>4. /\ answer.grounded = (cited # <<>>) /\ answer.own = TRUE /\ answer.cited = cited
        /\ answer.retrieved = hits /\ answer.requested = requested
    BY DEF Refusal
  <1>5. AnswerRight(answer, hits)
    <2> HIDE DEF answer
    <2>1. QED BY <1>2, <1>4 DEF AnswerRight
  <1>6. AnswerRight(Refusal(hits, 0, TRUE), hits) /\ AnswerRight(Refusal(hits, requested, FALSE), hits)
    BY <1>2, RefusalIsRight
  <1> HIDE DEF answer
  <1>7. QED BY <1>3, <1>5, <1>6

(* So does the answer, also without clauses.                               *)
LEMMA AnswerGivenIsRight ==
    ASSUME QuestionInv, NEW reply \in AnswerReplies, NEW types
    PROVE  AnswerRight(AnswerOf(reply, ParseAnswer(reply, types, asked.hits)), asked.hits)
  <1>1. CASE asked.hits = <<>>
    BY <1>1, RefusalIsRight DEF AnswerOf, NoContext
  <1>2. CASE asked.hits # <<>>
    <2>1. asked.hits \in Seq(Hit)
      BY DEF QuestionInv
    <2>2. QED BY <1>2, <2>1, ParsedIsRight DEF AnswerOf
  <1>3. QED BY <1>1, <1>2

-----------------------------------------------------------------------------
(* The trace.                                                              *)
LEMMA BestIsInPool ==
    ASSUME NEW claim, NEW X, NEW pool \in Seq(X), pool # <<>>
    PROVE  \E i \in DOMAIN pool : VerifyClaim(claim, pool).index = pool[i].index
  <1> DEFINE n == Len(pool)
             places == [i \in DOMAIN pool |-> i]
             best == FoldLeftDomain(LAMBDA found, i : Better(claim, pool, found, i), 0, pool)
             A == 0..n
             P == 1..n
  <1>1. n \in Nat \ {0} /\ DOMAIN pool = 1..n
    OBVIOUS
  <1> HIDE DEF n
  <1>2. places \in Seq(P) /\ Len(places) = n /\ \A i \in 1..n : places[i] = i
    BY <1>1
  <1>3. \A a \in A, x \in P : Better(claim, pool, a, x) \in A
    BY <1>1 DEF Better
  <1>4. best = BestOf(claim, pool, 0, places)
    BY DEF FoldLeftDomain, BestOf
  <1>5. 0 \in A
    BY <1>1
  <1> HIDE DEF places, A, P, best
  <1>6. BetterFold(A, 0, places, BestOf(claim, pool, 0, places), claim, pool)
    BY <1>2, <1>3, <1>5, FoldOfBetter
  <1>7. BetterFold(A, 0, places, best, claim, pool)
    BY <1>4, <1>6
  <1>8. PICK acc \in [0..n -> A] : best = acc[n] /\ acc[n] = Better(claim, pool, acc[n - 1], n)
    <2>1. PICK acc \in [0..Len(places) -> A] :
               /\ best = acc[Len(places)]
               /\ \A i \in 1..Len(places) : acc[i] = Better(claim, pool, acc[i - 1], places[i])
      BY <1>7 DEF BetterFold
    <2>2. n \in 1..n /\ places[n] = n
      BY <1>1, <1>2
    <2>3. QED BY <1>2, <2>1, <2>2
  <1>9. acc[n - 1] \in A
    BY <1>1
  <1>10. best \in 1..n
    BY <1>1, <1>8, <1>9 DEF A, Better
  <1>11. VerifyClaim(claim, pool).index = pool[best].index
    BY DEF VerifyClaim, best
  <1>12. QED BY <1>1, <1>10, <1>11

-----------------------------------------------------------------------------
(* Claims and their evidence.                                              *)

(* The clauses of hits.                                                    *)
IndicesOf(hits) == {hits[i].index : i \in DOMAIN hits}

(* What is said of the trace of an answer.                                 *)
TraceRight(trace, answer) ==
    /\ \A i \in DOMAIN trace.claims : trace.claims[i].index \in IndicesOf(answer.cited)
    /\ trace.grounding[1] <= trace.grounding[2]
    /\ \A i \in DOMAIN trace.retrieval :
          trace.retrieval[i].cited <=> trace.retrieval[i].index \in IndicesOf(answer.cited)

(* No more credit than claims.                                             *)
LEMMA CreditIsBounded ==
    ASSUME NEW X, NEW claims \in Seq(X)
    PROVE  Credit(claims) <= 2 * Len(claims)
  <1> DEFINE Weight(status) == CASE status = "supported" -> 2 [] status = "partial" -> 1 [] OTHER -> 0
             f == [i \in DOMAIN claims |-> Weight(claims[i].status)]
             n == Len(claims)
             S == 1..n
  <1>1. Credit(claims) = SumFunctionOnSet(f, DOMAIN f)
    BY DEF Credit, SumFunction
  <1>2. \A i \in DOMAIN claims : f[i] \in {0, 1, 2}
    OBVIOUS
  <1>3. n \in Nat /\ DOMAIN claims = S /\ DOMAIN f = S
    OBVIOUS
  <1>4. IsFiniteSet(S) /\ Cardinality(S) = n
    <2> HIDE DEF n
    <2>1. 1 \in Int /\ n \in Int /\ (1 > n => n = 0) /\ n - 1 + 1 = n
      BY <1>3
    <2>2. QED BY <1>3, <2>1, FS_Interval
  <1> HIDE DEF f, S, n
  <1>5. \A i \in S : f[i] \in Nat /\ f[i] <= 2
    BY <1>2, <1>3
  <1>6. 2 \in Nat
    OBVIOUS
  <1>7. SumFunctionOnSet(f, S) <= 2 * Cardinality(S)
    BY <1>4, <1>5, <1>6, SumBounded
  <1>8. QED BY <1>1, <1>3, <1>4, <1>7 DEF n

(* The trace of an answer that is right.                                   *)
LEMMA TraceIsRight ==
    ASSUME NEW hits \in Seq(Hit), NEW answer, AnswerRight(answer, hits), NEW reply \in AnswerReplies
    PROVE  TraceRight(BuildTrace(answer, reply), answer)
  <1> DEFINE pool == EvidencePool(answer)
             verified == [i \in DOMAIN reply.claims |-> VerifyClaim(reply.claims[i], pool)]
             claims == IF answer.grounded /\ answer.own THEN verified ELSE <<>>
             retrieval == [i \in DOMAIN answer.retrieved |->
                             [index |-> answer.retrieved[i].index, measured |-> answer.retrieved[i].measured,
                              cited |-> answer.retrieved[i].index \in IndicesOf(answer.cited)]]
             trace == BuildTrace(answer, reply)
             X == {VerifyClaim(claim, pool) : claim \in Seq(Nat)}
  <1>1. trace.claims = claims /\ trace.retrieval = retrieval /\ trace.grounding = <<Credit(claims), 2 * Len(claims)>>
    BY DEF BuildTrace, IndicesOf
  <1>2. reply.claims \in Seq(Seq(Nat))
    BY ReadingAssumption
  <1>3. verified \in Seq(X) /\ DOMAIN verified = DOMAIN reply.claims
    <2>1. \A i \in DOMAIN reply.claims : VerifyClaim(reply.claims[i], pool) \in X
      <3>1. \A i \in DOMAIN reply.claims : reply.claims[i] \in Seq(Nat)
        BY <1>2
      <3>2. QED BY <3>1
    <2>2. DOMAIN reply.claims = 1..Len(reply.claims) /\ Len(reply.claims) \in Nat
      BY <1>2
    <2> HIDE DEF X, pool
    <2>3. QED BY <2>1, <2>2
  <1>4. claims \in Seq(X)
    <2> HIDE DEF X, verified
    <2>1. <<>> \in Seq(X)
      OBVIOUS
    <2>2. QED BY <1>3, <2>1
  <1>5. ASSUME NEW i \in DOMAIN claims PROVE claims[i].index \in IndicesOf(answer.cited)
    <2>1. answer.grounded /\ answer.own
      BY <1>5
    <2>2. answer.cited # <<>> /\ answer.cited \in Seq(Hit)
      BY <2>1 DEF AnswerRight
    <2>3. pool = answer.cited
      BY <2>2 DEF EvidencePool
    <2>4. claims[i] = VerifyClaim(reply.claims[i], answer.cited)
      BY <1>3, <1>5, <2>1, <2>3
    <2>5. PICK best \in DOMAIN answer.cited :
                VerifyClaim(reply.claims[i], answer.cited).index = answer.cited[best].index
      BY <2>2, BestIsInPool
    <2> HIDE DEF claims
    <2>6. claims[i].index = answer.cited[best].index
      BY <2>4, <2>5
    <2>7. QED BY <2>6 DEF IndicesOf
  <1>6. Credit(claims) <= 2 * Len(claims)
    <2> HIDE DEF claims, X
    <2>1. QED BY <1>4, CreditIsBounded
  <1>7. \A i \in DOMAIN retrieval : retrieval[i].cited <=> retrieval[i].index \in IndicesOf(answer.cited)
    OBVIOUS
  <1> HIDE DEF trace, claims, retrieval
  <1>8. trace.grounding[1] <= trace.grounding[2]
    BY <1>1, <1>6
  <1>9. TraceRight(trace, answer)
    BY <1>1, <1>5, <1>7, <1>8 DEF TraceRight
  <1>10. QED BY <1>9 DEF trace

-----------------------------------------------------------------------------
(* The answer is shown as it is.                                           *)
LEMMA AnswerShown ==
    ASSUME NEW reply, NEW answer, NEW trace, shown' = Result(reply, answer, trace), shown'.kind = "answer"
    PROVE  /\ shown'.question = asked.kind /\ shown'.docs = asked.docs
           /\ shown'.answer = answer /\ shown'.trace = trace
  <1> DEFINE screen == [kind |-> "answer", question |-> asked.kind, docs |-> asked.docs,
                        answer |-> answer, trace |-> trace]
  <1>1. shown' = (IF asked.hits = <<>> THEN screen ELSE Generated(reply, screen))
    BY DEF Result
  <1>2. /\ screen.question = asked.kind /\ screen.docs = asked.docs
        /\ screen.answer = answer /\ screen.trace = trace
    OBVIOUS
  <1> HIDE DEF screen
  <1>3. Generated(reply, screen) \in {[kind |-> "error_503"], [kind |-> "error_500"], screen}
    BY ShownReport, Zenon
  <1>4. shown' \notin {[kind |-> "error_503"], [kind |-> "error_500"]}
    <2>1. shown' \in {[kind |-> "error_503"], [kind |-> "error_500"]} => shown'.kind \in {"error_500", "error_503"}
      BY ErrorKinds
    <2>2. QED BY <2>1
  <1>5. shown' = screen
    BY <1>1, <1>3, <1>4
  <1>6. QED BY <1>2, <1>5

(* The property, of an answer to a question of a kind, about documents.    *)
RestsOnClauses(question, docs, answer, trace) ==
    /\ answer.grounded <=> answer.cited # <<>>
    /\ answer.grounded => answer.own
    /\ ToSet(answer.cited) \subseteq ToSet(answer.retrieved)
    /\ {h.doc : h \in ToSet(answer.retrieved)} \subseteq ToSet(docs)
    /\ Len(answer.cited) <= answer.requested
    /\ question = "chat" => TraceRight(trace, answer)

(* The property, by way of RestsOnClauses.                                 *)
AnswerRests == shown.kind = "answer" => RestsOnClauses(shown.question, shown.docs, shown.answer, shown.trace)

(* They are the same ...                                                   *)
LEMMA AnswerSaid == AnswersRestOnClauses <=> AnswerRests
  BY DEF AnswersRestOnClauses, AnswerRests, RestsOnClauses, TraceRight, IndicesOf

(* ... also in the next state.                                             *)
LEMMA AnswerSaidNext == AnswersRestOnClauses' <=> AnswerRests'
  BY AnswerSaid, PTL

(* Showing an answer that is right.                                        *)
LEMMA AnswerGivenRests ==
    ASSUME QuestionInv, NEW answer, AnswerRight(answer, asked.hits), NEW reply, NEW trace,
           asked.kind = "chat" => TraceRight(trace, answer), shown' = Result(reply, answer, trace)
    PROVE  AnswersRestOnClauses'
  <1>1. CASE shown'.kind = "answer"
    <2>1. /\ shown'.question = asked.kind /\ shown'.docs = asked.docs
          /\ shown'.answer = answer /\ shown'.trace = trace
      BY <1>1, AnswerShown
    <2>2. {h.doc : h \in ToSet(asked.hits)} \subseteq ToSet(asked.docs)
      BY DEF QuestionInv, ToSet
    <2>3. RestsOnClauses(asked.kind, asked.docs, answer, trace)
      BY <2>2 DEF RestsOnClauses, AnswerRight
    <2>4. QED BY <2>1, <2>3, AnswerSaidNext DEF AnswerRests
  <1>2. CASE shown'.kind # "answer"
    BY <1>2, AnswerSaidNext DEF AnswerRests
  <1>3. QED BY <1>1, <1>2

(***************************************************************************)
(* Whatever the model replies: an answer shown as grounded cites clauses   *)
(* that were retrieved, and each claim that counts as supported rests on   *)
(* one of them.                                                            *)
(***************************************************************************)
THEOREM AnswersRest == Spec => []AnswersRestOnClauses
  <1> DEFINE IInv == ReadInv /\ AnswersRestOnClauses
  <1>1. Init => IInv
    <2>1. Init => AnswersRestOnClauses
      BY DEF Init, Nothing, AnswersRestOnClauses
    <2>2. QED BY <2>1, ReadInit
  <1>2. IInv /\ [Next]_vars => IInv'
    <2> SUFFICES ASSUME IInv, [Next]_vars PROVE IInv'
      OBVIOUS
    <2>1. ReadInv'
      BY ReadStep
    <2>2. CASE \E reply \in AnswerReplies : AnswerChat(reply) \/ AnswerScenario(reply) \/ AnswerAcross(reply)
      <3>1. PICK reply \in AnswerReplies : AnswerChat(reply) \/ AnswerScenario(reply) \/ AnswerAcross(reply)
        BY <2>2
      <3>2. QuestionInv /\ asked.hits \in Seq(Hit)
        BY DEF ReadInv, QuestionInv
      <3>3. CASE AnswerChat(reply)
        <4> DEFINE answer == AnswerOf(reply, ParseAnswer(reply, {"int", "bool"}, asked.hits))
                   trace == BuildTrace(answer, reply)
        <4>1. shown' = Result(reply, answer, trace)
          BY <3>3 DEF AnswerChat, Show, ParseChat
        <4>2. AnswerRight(answer, asked.hits)
          BY <3>2, AnswerGivenIsRight
        <4> HIDE DEF answer
        <4>3. TraceRight(trace, answer)
          BY <3>2, <4>2, TraceIsRight
        <4> HIDE DEF trace
        <4>4. QED BY <2>1, <3>2, <4>1, <4>2, <4>3, AnswerGivenRests
      <3>4. CASE AnswerScenario(reply) \/ AnswerAcross(reply)
        <4>1. PICK types : shown' = Result(reply, AnswerOf(reply, ParseAnswer(reply, types, asked.hits)), Nothing)
          BY <3>4 DEF AnswerScenario, AnswerAcross, Show, ParseScenario, ParseAcross
        <4> DEFINE answer == AnswerOf(reply, ParseAnswer(reply, types, asked.hits))
        <4>2. AnswerRight(answer, asked.hits)
          BY <3>2, AnswerGivenIsRight
        <4>3. asked.kind # "chat"
          BY <3>4 DEF AnswerScenario, AnswerAcross, AllRetrieved
        <4> HIDE DEF answer
        <4>4. QED BY <2>1, <3>2, <4>1, <4>2, <4>3, AnswerGivenRests DEF answer
      <3>5. QED BY <3>1, <3>3, <3>4
    <2>3. CASE ~(\E reply \in AnswerReplies : AnswerChat(reply) \/ AnswerScenario(reply) \/ AnswerAcross(reply))
      <3>1. CASE Screens
        <4>1. shown'.kind \in {"scans", "comparison", "overview", "review", "summary", "parse_error",
                               "error_500", "error_503"}
          BY <2>3, <3>1, ScreenKinds DEF Screens
        <4>2. shown'.kind # "answer"
          BY <4>1
        <4>3. QED BY <2>1, <4>2, AnswerSaidNext DEF AnswerRests
      <3>2. CASE shown' = Nothing
        <4>1. shown'.kind # "answer"
          BY <3>2 DEF Nothing
        <4>2. QED BY <2>1, <4>1, AnswerSaidNext DEF AnswerRests
      <3>3. CASE shown' = shown
        <4>1. AnswerRests
          BY AnswerSaid
        <4>2. QED BY <2>1, <3>3, <4>1, AnswerSaidNext DEF AnswerRests
      <3>4. QED BY <3>1, <3>2, <3>3, ScreenSteps
    <2>4. QED BY <2>2, <2>3
  <1>3. QED BY <1>1, <1>2, PTL DEF Spec
==============================================================================
