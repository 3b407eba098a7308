-------------------------- MODULE UndervoltProofs ---------------------------
(***************************************************************************)
(* What the copy of intel-undervolt.conf is, for any number of domains and *)
(* any file: lemmas about module Undervolt.                                *)
(***************************************************************************)
EXTENDS Undervolt, FiniteSetTheorems, SequenceTheorems, TLAPS

LEMMA DomainsFinite == IsFiniteSet(Domains) /\ Domains \subseteq Int
BY DomainCountAssumption, FS_Interval DEF Domains

----------------------------------------------------------------------------
\* A finite set of integers has an ascending enumeration: the inverse of
\* "how many are not above it".
Rank(S) == [d \in S |-> Cardinality({x \in S : x <= d})]

LEMMA RankBijection ==
  ASSUME NEW S, S \subseteq Int, IsFiniteSet(S)
  PROVE  /\ Rank(S) \in Bijection(S, 1..Cardinality(S))
         /\ \A d, e \in S : d < e => Rank(S)[d] < Rank(S)[e]
<1> DEFINE Upto(d) == {x \in S : x <= d}
<1>1. Cardinality(S) \in Nat
  BY FS_CardinalityType
<1>2. \A d \in S : /\ IsFiniteSet(Upto(d)) /\ Cardinality(Upto(d)) \in Nat
                   /\ Cardinality(Upto(d)) <= Cardinality(S)
  <2> TAKE d \in S
  <2>1. Upto(d) \in SUBSET S
    OBVIOUS
  <2> QED BY <2>1, FS_Subset, FS_CardinalityType
<1>3. \A d \in S : Cardinality(Upto(d)) # 0
  <2> TAKE d \in S
  <2>1. d \in Upto(d)
    OBVIOUS
  <2> QED BY <1>2, <2>1, FS_EmptySet
<1>4. \A d, e \in S : d < e => Cardinality(Upto(d)) < Cardinality(Upto(e))
  <2> SUFFICES ASSUME NEW d \in S, NEW e \in S, d < e
               PROVE  Cardinality(Upto(d)) < Cardinality(Upto(e))
    OBVIOUS
  <2>0. d \in Int /\ e \in Int /\ \A x \in S : x \in Int /\ (x <= d => x <= e)
    OBVIOUS
  <2>1. /\ Upto(d) \in SUBSET Upto(e)
        /\ e \in Upto(e)
        /\ e \notin Upto(d)
    <3>1. \A x : x \in Upto(d) => x \in Upto(e)
      BY <2>0
    <3>2. e \in Upto(e) /\ e \notin Upto(d)
      BY <2>0
    <3> HIDE DEF Upto
    <3> QED BY <3>1, <3>2
  <2>2. /\ Cardinality(Upto(d)) <= Cardinality(Upto(e))
        /\ Cardinality(Upto(d)) # Cardinality(Upto(e))
    BY <1>2, <2>1, FS_Subset
  <2> QED BY <1>2, <2>2
<1> HIDE DEF Upto
<1>5. Rank(S) = [d \in S |-> Cardinality(Upto(d))]
  BY DEF Rank, Upto
<1>6. Rank(S) \in [S -> 1..Cardinality(S)]
  BY <1>1, <1>2, <1>3, <1>5
<1>7. \A d, e \in S : d < e => Rank(S)[d] < Rank(S)[e]
  BY <1>4, <1>5
<1>8. Rank(S) \in Injection(S, 1..Cardinality(S))
  <2>1. \A d, e \in S : Rank(S)[d] = Rank(S)[e] => d = e
    <3> SUFFICES ASSUME NEW d \in S, NEW e \in S, d # e
                 PROVE  Rank(S)[d] # Rank(S)[e]
      OBVIOUS
    <3>1. Rank(S)[d] \in Int /\ Rank(S)[e] \in Int /\ (d < e \/ e < d)
      BY <1>6
    <3> QED BY <1>7, <3>1
  <2> QED BY <1>6, <2>1 DEF Injection, IsInjective
<1>9. IsFiniteSet(1..Cardinality(S)) /\ Cardinality(1..Cardinality(S)) = Cardinality(S)
  BY <1>1, FS_Interval
<1>10. Rank(S) \in Surjection(S, 1..Cardinality(S))
  BY <1>8, <1>9, FS_Injection
<1> QED BY <1>7, <1>8, <1>10 DEF Bijection

LEMMA AscendingProperties ==
  ASSUME NEW S, S \subseteq Int, IsFiniteSet(S)
  PROVE  /\ Ascending(S) \in [1..Cardinality(S) -> S]
         /\ \A i, j \in 1..Cardinality(S) : i < j => Ascending(S)[i] < Ascending(S)[j]
         /\ \A d \in S : \E i \in 1..Cardinality(S) : Ascending(S)[i] = d
<1> DEFINE n == Cardinality(S)
           IsAscending(s) == \A i, j \in 1..n : i < j => s[i] < s[j]
<1>1. n \in Nat /\ IsFiniteSet(1..n) /\ Cardinality(1..n) = n
  BY FS_CardinalityType, FS_Interval
<1>2. /\ Rank(S) \in [S -> 1..n]
      /\ \A i \in 1..n : \E d \in S : Rank(S)[d] = i
      /\ \A d, e \in S : d < e => Rank(S)[d] < Rank(S)[e]
  BY RankBijection DEF Bijection, Surjection
<1>3. \E s \in [1..n -> S] : IsAscending(s)
  <2> DEFINE s == [i \in 1..n |-> CHOOSE d \in S : Rank(S)[d] = i]
  <2>1. \A i \in 1..n : s[i] \in S /\ Rank(S)[s[i]] = i
    BY <1>2
  <2>2. s \in [1..n -> S]
    BY <2>1
  <2> HIDE DEF s
  <2>3. ASSUME NEW i \in 1..n, NEW j \in 1..n, i < j
        PROVE  s[i] < s[j]
    <3>1. s[i] \in Int /\ s[j] \in Int
      BY <2>1
    <3>2. /\ s[i] \in S /\ s[j] \in S
          /\ Rank(S)[s[i]] = i /\ Rank(S)[s[j]] = j
      BY <2>1
    <3>3. i \in Int /\ j \in Int
      BY <1>1
    <3>4. s[i] # s[j]
      BY <2>3, <3>2, <3>3
    <3>5. s[j] < s[i] => j < i
      BY <1>2, <3>2
    <3> HIDE DEF n
    <3> QED BY <2>3, <3>1, <3>3, <3>4, <3>5
  <2> QED BY <2>2, <2>3
<1>4. Ascending(S) \in [1..n -> S] /\ IsAscending(Ascending(S))
  BY <1>3 DEF Ascending
<1>5. Ascending(S) \in Injection(1..n, S)
  <2>1. \A i, j \in 1..n : Ascending(S)[i] = Ascending(S)[j] => i = j
    <3> SUFFICES ASSUME NEW i \in 1..n, NEW j \in 1..n, i # j
                 PROVE  Ascending(S)[i] # Ascending(S)[j]
      OBVIOUS
    <3>1. Ascending(S)[i] \in Int /\ Ascending(S)[j] \in Int
      BY <1>4
    <3>2. i < j \/ j < i
      BY <1>1
    <3> QED BY <1>4, <3>1, <3>2
  <2> QED BY <1>4, <2>1 DEF Injection, IsInjective
<1>6. Ascending(S) \in Surjection(1..n, S)
  BY <1>1, <1>5, FS_Injection
<1> QED BY <1>4, <1>6 DEF Surjection

\* A domain with a line has a last one ...
LEMMA LastLine ==
  ASSUME NEW lines \in Seq(Line), NEW d, LinesOf(lines, d) # {}
  PROVE  (CHOOSE i \in LinesOf(lines, d) : \A j \in LinesOf(lines, d) : j <= i)
           \in LinesOf(lines, d)
<1> DEFINE S == LinesOf(lines, d)
           last == Ascending(S)[Cardinality(S)]
<1>1. Len(lines) \in Nat /\ DOMAIN lines = 1..Len(lines)
  BY LenProperties
<1>2. S \in SUBSET (1..Len(lines)) /\ IsFiniteSet(1..Len(lines))
  BY <1>1, FS_Interval DEF LinesOf
<1>3. IsFiniteSet(S) /\ S \subseteq Int
  BY <1>2, FS_Subset
<1>4. Cardinality(S) \in Nat /\ Cardinality(S) # 0
  BY <1>3, FS_CardinalityType, FS_EmptySet
<1> HIDE DEF S
<1>5. last \in S /\ \A j \in S : j <= last
  <2>1. Cardinality(S) \in 1..Cardinality(S)
    BY <1>4
  <2>2. last \in S
    BY <1>3, <2>1, AscendingProperties
  <2>3. ASSUME NEW j \in S PROVE j <= last
    <3>1. PICK i \in 1..Cardinality(S) : Ascending(S)[i] = j
      BY <1>3, AscendingProperties
    <3>2. i = Cardinality(S) \/ i < Cardinality(S)
      BY <1>4
    <3>3. j \in Int /\ last \in Int
      BY <1>3, <2>2
    <3>4. i < Cardinality(S) => j < last
      BY <1>3, <2>1, <3>1, AscendingProperties DEF last
    <3>5. i = Cardinality(S) => j = last
      BY <3>1 DEF last
    <3> HIDE DEF last
    <3> QED BY <3>2, <3>3, <3>4, <3>5
  <2> QED BY <2>2, <2>3
<1> HIDE DEF last
<1>6. \E i \in S : \A j \in S : j <= i
  BY <1>5
<1>7. (CHOOSE i \in S : \A j \in S : j <= i) \in S
  BY <1>6
<1> QED BY <1>7 DEF S

\* ... and the offset that counts is the one of that line.
LEMMA LastOffsetOfLine ==
  ASSUME NEW lines \in Seq(Line), NEW d, LinesOf(lines, d) # {}
  PROVE  \E i \in LinesOf(lines, d) : LastOffset(lines, d) = lines[i].offset
BY LastLine DEF LastOffset

----------------------------------------------------------------------------
\* undervolt_write_config_copy_masked.

LEMMA OwnLineIsLine ==
  ASSUME NEW d \in Domains, NEW offset \in Int
  PROVE  OwnLine(d, offset) \in Line
BY DEF OwnLine, Line, Printed

LEMMA OwnLineEnded == \A d, offset : OwnLine(d, offset).ended
BY DEF OwnLine

LEMMA SourceIsText ==
  ASSUME NEW contents \in Text \cup {Missing}
  PROVE  Source(contents) \in Text
<1>1. Header \in Seq(Line) /\ Len(Header) = 1 /\ DOMAIN Header = {1}
  BY DEF Header, Line
<1>2. Header \in Text
  BY <1>1 DEF Text
<1> QED BY <1>2 DEF Source

LEMMA CopiedLines ==
  ASSUME NEW lines \in Text, NEW offsets \in [Domains -> Int],
         NEW selected \in SUBSET Domains
  PROVE  LET copied == Copied(lines, offsets, selected)
         IN  /\ copied \in Seq(Line) /\ Len(copied) = Len(lines)
             /\ \A i \in 1..Len(lines) :
                  /\ copied[i] = IF lines[i].domain \in selected
                                   THEN OwnLine(lines[i].domain, offsets[lines[i].domain])
                                   ELSE lines[i]
                  /\ lines[i].ended => copied[i].ended
             /\ \A i \in 1..Len(lines) : i < Len(lines) => copied[i].ended
<1> DEFINE copied == Copied(lines, offsets, selected)
<1>1. /\ lines \in Seq(Line) /\ Len(lines) \in Nat
      /\ \A i \in 1..Len(lines) : lines[i] \in Line /\ (i < Len(lines) => lines[i].ended)
  BY LenProperties, ElementOfSeq DEF Text
<1>2. \A i \in 1..Len(lines) :
        copied[i] = IF lines[i].domain \in selected
                      THEN OwnLine(lines[i].domain, offsets[lines[i].domain])
                      ELSE lines[i]
  BY DEF Copied
<1>3. \A i \in 1..Len(lines) : copied[i] \in Line
  BY <1>1, <1>2, OwnLineIsLine
<1>4. copied = [i \in 1..Len(lines) |-> copied[i]]
  BY DEF Copied
<1>5. \A i \in 1..Len(lines) : lines[i].ended => copied[i].ended
  <2> SUFFICES ASSUME NEW i \in 1..Len(lines), lines[i].ended PROVE copied[i].ended
    OBVIOUS
  <2>1. CASE lines[i].domain \in selected
    BY <1>2, <2>1, OwnLineEnded
  <2>2. CASE lines[i].domain \notin selected
    BY <1>2, <2>2
  <2> QED BY <2>1, <2>2
<1> HIDE DEF copied
<1>6. copied \in [1..Len(lines) -> Line]
  BY <1>3, <1>4
<1>7. copied \in Seq(Line) /\ Len(copied) = Len(lines)
  BY <1>1, <1>6
<1> QED BY <1>1, <1>2, <1>5, <1>7 DEF copied

LEMMA AppendedLines ==
  ASSUME NEW lines, NEW offsets \in [Domains -> Int], NEW selected \in SUBSET Domains
  PROVE  /\ Appended(lines, offsets, selected) \in Seq(Line)
         /\ \A i \in 1..Len(Appended(lines, offsets, selected)) :
              LET line == Appended(lines, offsets, selected)[i]
              IN  /\ line.domain \in Unwritten(lines, selected)
                  /\ line.offset = Printed(offsets[line.domain])
                  /\ line = OwnLine(line.domain, offsets[line.domain])
                  /\ line.ended
         /\ \A d \in Unwritten(lines, selected) :
              LinesOf(Appended(lines, offsets, selected), d) # {}
         /\ Appended(lines, offsets, selected) # <<>> <=> Unwritten(lines, selected) # {}
<1> DEFINE appended == Appended(lines, offsets, selected)
           rest == Unwritten(lines, selected)
<1>1. rest \in SUBSET Domains
  BY DEF Unwritten
<1>2. rest \subseteq Int /\ IsFiniteSet(rest) /\ Cardinality(rest) \in Nat
  BY <1>1, DomainsFinite, FS_Subset, FS_CardinalityType
<1>3. appended = [i \in 1..Cardinality(rest) |->
                    OwnLine(Ascending(rest)[i], offsets[Ascending(rest)[i]])]
  BY DEF Appended
<1> HIDE DEF appended, rest
<1>4. /\ \A i \in 1..Cardinality(rest) : Ascending(rest)[i] \in rest
      /\ \A d \in rest : \E i \in 1..Cardinality(rest) : Ascending(rest)[i] = d
  BY <1>2, AscendingProperties
<1>5. \A i \in 1..Cardinality(rest) : appended[i] \in Line
  BY <1>1, <1>3, <1>4, OwnLineIsLine
<1>6. appended \in [1..Cardinality(rest) -> Line]
  BY <1>3, <1>5
<1>7. appended \in Seq(Line) /\ Len(appended) = Cardinality(rest)
  BY <1>2, <1>6
<1>8. \A i \in 1..Len(appended) : \E d \in rest : appended[i] = OwnLine(d, offsets[d])
  BY <1>3, <1>4, <1>7
<1>9. \A d \in rest : \E i \in 1..Len(appended) : appended[i].domain = d
  BY <1>3, <1>4, <1>7 DEF OwnLine
<1>10. appended # <<>> <=> rest # {}
  <2>1. appended # <<>> <=> Len(appended) # 0
    BY <1>7, EmptySeq
  <2>2. Cardinality(rest) # 0 <=> rest # {}
    BY <1>2, FS_EmptySet
  <2> QED BY <1>7, <2>1, <2>2
<1>11. ASSUME NEW i \in 1..Len(appended)
       PROVE  /\ appended[i].domain \in rest
              /\ appended[i].offset = Printed(offsets[appended[i].domain])
              /\ appended[i] = OwnLine(appended[i].domain, offsets[appended[i].domain])
              /\ appended[i].ended
  <2>1. PICK d \in rest : appended[i] = OwnLine(d, offsets[d])
    BY <1>8
  <2> QED BY <2>1 DEF OwnLine
<1>12. \A d \in rest : LinesOf(appended, d) # {}
  BY <1>7, <1>9, LenProperties DEF LinesOf
<1> QED BY <1>7, <1>8, <1>10, <1>11, <1>12 DEF appended, rest

LEMMA FollowedIsText ==
  ASSUME NEW first \in Text, NEW second \in Seq(Line),
         \A i \in 1..Len(second) : second[i].ended
  PROVE  Followed(first, second) \in Text
<1>1. /\ first \in Seq(Line) /\ Len(first) \in Nat /\ DOMAIN first = 1..Len(first)
      /\ \A i \in 1..Len(first) : first[i] \in Line /\ (i < Len(first) => first[i].ended)
      /\ Len(second) \in Nat /\ \A i \in 1..Len(second) : second[i] \in Line
  BY LenProperties, ElementOfSeq DEF Text
<1>2. CASE second # <<>> /\ first # <<>> /\ ~first[Len(first)].ended
  <2> DEFINE fused == Fused(first[Len(first)], second[1])
             front == [first EXCEPT ![Len(first)] = fused]
  <2>1. Len(first) \in 1..Len(first) /\ 1 \in 1..Len(second)
    BY <1>1, <1>2, EmptySeq
  <2>2. first[Len(first)] \in Line /\ second[1] \in Line /\ second[1].ended
    BY <1>1, <2>1
  <2>3. fused \in Line /\ fused.ended
    BY <2>2 DEF Fused, Line
  <2> HIDE DEF fused
  <2>4. /\ front \in Seq(Line) /\ Len(front) = Len(first)
        /\ \A i \in 1..Len(first) :
             front[i] = IF i = Len(first) THEN fused ELSE first[i]
    BY <1>1, <2>1, <2>3, ExceptSeq
  <2> HIDE DEF front
  <2>5. \A i \in 1..Len(first) : front[i].ended
    <3> TAKE i \in 1..Len(first)
    <3>1. CASE i = Len(first)
      BY <2>3, <2>4, <3>1
    <3>2. CASE i # Len(first)
      <4>0. Len(first) \in Nat
        BY <1>1
      <4>1. i < Len(first)
        BY <3>2, <4>0, Z3
      <4>2. front[i] = first[i]
        BY <2>4, <3>2
      <4>3. first[i].ended
        BY <1>1, <4>1
      <4> QED BY <4>2, <4>3
    <3> QED BY <3>1, <3>2
  <2>6. /\ Tail(second) \in Seq(Line) /\ Len(Tail(second)) = Len(second) - 1
        /\ \A i \in 1..Len(Tail(second)) : Tail(second)[i] = second[i + 1]
    BY <1>2, HeadTailProperties
  <2> DEFINE whole == front \o Tail(second)
  <2>7. /\ whole \in Seq(Line) /\ Len(whole) = Len(first) + Len(Tail(second))
        /\ \A i \in 1..Len(first) + Len(Tail(second)) :
             whole[i] = IF i <= Len(first) THEN front[i] ELSE Tail(second)[i - Len(first)]
    <3>1. front \in Seq(Line) /\ Tail(second) \in Seq(Line) /\ Len(front) = Len(first)
      BY <2>4, <2>6
    <3> DEFINE rest == Tail(second)
    <3> HIDE DEF rest
    <3>2. rest \in Seq(Line)
      BY <3>1 DEF rest
    <3>3. /\ front \o rest \in Seq(Line) /\ Len(front \o rest) = Len(front) + Len(rest)
          /\ \A i \in 1..Len(front) + Len(rest) :
               (front \o rest)[i] = IF i <= Len(front) THEN front[i] ELSE rest[i - Len(front)]
      BY <3>1, <3>2, ConcatProperties
    <3> QED BY <3>1, <3>3 DEF rest
  <2> HIDE DEF whole
  <2>8. \A i \in 1..Len(whole) : whole[i].ended
    <3> TAKE i \in 1..Len(whole)
    <3>0. Len(Tail(second)) \in Nat /\ i \in 1..Len(first) + Len(Tail(second))
      BY <1>1, <2>1, <2>6, <2>7
    <3>1. CASE i <= Len(first)
      <4>1. i \in 1..Len(first) /\ whole[i] = front[i]
        BY <1>1, <2>7, <3>0, <3>1
      <4> QED BY <2>5, <4>1
    <3>2. CASE ~(i <= Len(first))
      <4> DEFINE k == i - Len(first)
      <4>1. k \in 1..Len(Tail(second)) /\ k + 1 \in 1..Len(second)
        BY <1>1, <2>6, <3>0, <3>2
      <4>2. whole[i] = second[k + 1]
        BY <2>6, <2>7, <3>0, <3>2, <4>1
      <4> QED BY <4>1, <4>2
    <3> QED BY <3>1, <3>2
  <2>9. whole \in Text
    BY <2>7, <2>8, LenProperties DEF Text
  <2>10. Followed(first, second) = whole
    BY <1>2 DEF Followed, whole, front, fused
  <2> QED BY <2>9, <2>10
<1>3. CASE ~(second # <<>> /\ first # <<>> /\ ~first[Len(first)].ended)
  <2> DEFINE whole == first \o second
  <2>1. /\ whole \in Seq(Line) /\ Len(whole) = Len(first) + Len(second)
        /\ \A i \in 1..Len(first) + Len(second) :
             whole[i] = IF i <= Len(first) THEN first[i] ELSE second[i - Len(first)]
    BY <1>1, ConcatProperties
  <2>4. second = <<>> => Len(second) = 0
    BY EmptySeq
  <2>5. first = <<>> => Len(first) = 0
    BY EmptySeq
  <2> HIDE DEF whole
  <2>6. \A i \in 1..Len(whole) : i < Len(whole) => whole[i].ended
    <3> SUFFICES ASSUME NEW i \in 1..Len(whole), i < Len(whole) PROVE whole[i].ended
      OBVIOUS
    <3>1. CASE i <= Len(first)
      <4>1. i \in 1..Len(first) /\ whole[i] = first[i]
        BY <1>1, <2>1, <3>1
      <4>2. CASE i < Len(first)
        BY <1>1, <4>1, <4>2
      <4>3. CASE i = Len(first)
        <5>1. Len(second) # 0 /\ Len(first) # 0
          BY <1>1, <2>1, <4>1, <4>3
        <5> QED BY <1>3, <2>4, <2>5, <4>1, <4>3, <5>1
      <4> QED BY <1>1, <4>1, <4>2, <4>3
    <3>2. CASE ~(i <= Len(first))
      <4>1. i - Len(first) \in 1..Len(second) /\ whole[i] = second[i - Len(first)]
        BY <1>1, <2>1, <3>2
      <4> QED BY <4>1
    <3> QED BY <3>1, <3>2
  <2>7. whole \in Text
    BY <2>1, <2>6, LenProperties DEF Text
  <2>8. Followed(first, second) = whole
    BY <1>3 DEF Followed, whole
  <2> QED BY <2>7, <2>8
<1> QED BY <1>2, <1>3

LEMMA RewrittenIsText ==
  ASSUME NEW contents \in Text \cup {Missing}, NEW offsets \in [Domains -> Int],
         NEW selected \in SUBSET Domains
  PROVE  Rewritten(contents, offsets, selected) \in Text
<1> DEFINE lines == Source(contents)
           copied == Copied(lines, offsets, selected)
           appended == Appended(lines, offsets, selected)
<1>1. lines \in Text
  BY SourceIsText
<1> HIDE DEF lines
<1>2. /\ copied \in Seq(Line) /\ Len(copied) = Len(lines)
      /\ \A i \in 1..Len(lines) : i < Len(lines) => copied[i].ended
  BY <1>1, CopiedLines
<1>3. /\ appended \in Seq(Line)
      /\ \A i \in 1..Len(appended) : appended[i].ended
  BY AppendedLines
<1> HIDE DEF copied, appended
<1>4. copied \in Text
  BY <1>2, LenProperties DEF Text
<1>5. Followed(copied, appended) \in Text
  BY <1>3, <1>4, FollowedIsText
<1> QED BY <1>5 DEF Rewritten, lines, copied, appended

\* Where no two lines are fused, the copy is the two loops one after the other.
TwoLoops(lines, offsets, selected) ==
  Copied(lines, offsets, selected) \o Appended(lines, offsets, selected)

LEMMA RewrittenApart ==
  ASSUME NEW contents \in Text \cup {Missing}, NEW offsets \in [Domains -> Int],
         NEW selected \in SUBSET Domains,
         LET lines == Source(contents)
             r == Rewritten(contents, offsets, selected)
         IN  \/ Unwritten(lines, selected) = {}
             \/ lines = <<>>
             \/ lines[Len(lines)].ended
             \/ \A i \in DOMAIN r : r[i].text # "fused"
  PROVE  Rewritten(contents, offsets, selected)
           = TwoLoops(Source(contents), offsets, selected)
<1> DEFINE lines == Source(contents)
           copied == Copied(lines, offsets, selected)
           appended == Appended(lines, offsets, selected)
           r == Rewritten(contents, offsets, selected)
<1>1. lines \in Text /\ lines \in Seq(Line) /\ Len(lines) \in Nat
  BY SourceIsText, LenProperties DEF Text
<1>2. r = Followed(copied, appended)
  BY DEF Rewritten
<1>3. \/ Unwritten(lines, selected) = {}
      \/ lines = <<>>
      \/ lines[Len(lines)].ended
      \/ \A i \in DOMAIN r : r[i].text # "fused"
  OBVIOUS
<1> HIDE DEF lines, r
<1>4. /\ copied \in Seq(Line) /\ Len(copied) = Len(lines)
      /\ \A i \in 1..Len(lines) : lines[i].ended => copied[i].ended
  BY <1>1, CopiedLines
<1>5. appended \in Seq(Line) /\ (appended # <<>> <=> Unwritten(lines, selected) # {})
  BY AppendedLines
<1> HIDE DEF copied, appended
<1>6. ASSUME appended # <<>>, copied # <<>>, ~copied[Len(copied)].ended
      PROVE  FALSE
  <2>1. Unwritten(lines, selected) # {}
    BY <1>5, <1>6
  <2>2. Len(copied) # 0 /\ lines # <<>>
    BY <1>1, <1>4, <1>6, EmptySeq
  <2>3. Len(copied) \in 1..Len(copied) /\ DOMAIN copied = 1..Len(copied)
    BY <1>4, <2>2, LenProperties
  <2>4. ~lines[Len(lines)].ended
    BY <1>4, <1>6, <2>3
  <2>5. Len(copied) \in DOMAIN r /\ r[Len(copied)].text = "fused"
    <3> DEFINE fused == Fused(copied[Len(copied)], appended[1])
               front == [copied EXCEPT ![Len(copied)] = fused]
    <3>1. r = front \o Tail(appended)
      BY <1>2, <1>6 DEF Followed
    <3>2. copied[Len(copied)] \in Line /\ appended[1] \in Line
      <4>1. 1 \in 1..Len(appended)
        BY <1>5, <1>6, EmptySeq
      <4> QED BY <1>4, <1>5, <2>3, <4>1, ElementOfSeq
    <3>3. fused \in Line /\ fused.text = "fused"
      BY <3>2 DEF Fused, Line
    <3> HIDE DEF fused
    <3>4. /\ front \in Seq(Line) /\ Len(front) = Len(copied)
          /\ front[Len(copied)] = fused
      BY <1>4, <2>3, <3>3, ExceptSeq
    <3> HIDE DEF front
    <3>5. Tail(appended) \in Seq(Line) /\ Len(Tail(appended)) \in Nat
      BY <1>5, <1>6, HeadTailProperties, LenProperties
    <3>6. /\ r \in Seq(Line) /\ Len(r) = Len(front) + Len(Tail(appended))
          /\ \A i \in 1..Len(front) + Len(Tail(appended)) :
               r[i] = IF i <= Len(front) THEN front[i] ELSE Tail(appended)[i - Len(front)]
      BY <3>1, <3>4, <3>5, ConcatProperties
    <3>7. DOMAIN r = 1..Len(r) /\ Len(copied) \in 1..Len(r)
      BY <2>3, <3>4, <3>5, <3>6, LenProperties
    <3> QED BY <3>3, <3>4, <3>6, <3>7
  <2> QED BY <1>3, <2>1, <2>2, <2>4, <2>5
<1>7. r = copied \o appended
  BY <1>2, <1>6 DEF Followed
<1> QED BY <1>7 DEF r, copied, appended, lines, TwoLoops

\* ... and then every line of a selected domain, and there is one, has what is
\* wanted of it.
LEMMA SelectedWritten ==
  ASSUME NEW lines \in Text, NEW offsets \in [Domains -> Int],
         NEW selected \in SUBSET Domains, NEW d \in selected
  PROVE  LET r == TwoLoops(lines, offsets, selected)
         IN  /\ LinesOf(r, d) # {}
             /\ \A i \in LinesOf(r, d) : r[i].offset = Printed(offsets[d])
<1> DEFINE copied == Copied(lines, offsets, selected)
           appended == Appended(lines, offsets, selected)
           r == TwoLoops(lines, offsets, selected)
           rest == Unwritten(lines, selected)
<1>1. /\ copied \in Seq(Line) /\ Len(copied) = Len(lines)
      /\ \A i \in 1..Len(lines) :
           copied[i] = IF lines[i].domain \in selected
                         THEN OwnLine(lines[i].domain, offsets[lines[i].domain])
                         ELSE lines[i]
  BY CopiedLines
<1>2. /\ appended \in Seq(Line)
      /\ \A i \in 1..Len(appended) :
           /\ appended[i].domain \in rest
           /\ appended[i].offset = Printed(offsets[appended[i].domain])
      /\ \A e \in rest : LinesOf(appended, e) # {}
  <2>1. appended \in Seq(Line)
    BY AppendedLines
  <2>2. \A i \in 1..Len(appended) : appended[i].domain \in rest
    BY AppendedLines
  <2>3. \A i \in 1..Len(appended) : appended[i].offset = Printed(offsets[appended[i].domain])
    <3>1. offsets \in [Domains -> Int] /\ selected \in SUBSET Domains
      OBVIOUS
    <3> QED BY ONLY <3>1, AppendedLines DEF appended
  <2>4. \A e \in rest : LinesOf(appended, e) # {}
    <3>1. offsets \in [Domains -> Int] /\ selected \in SUBSET Domains
      OBVIOUS
    <3> QED BY ONLY <3>1, AppendedLines DEF appended, rest
  <2> QED BY <2>1, <2>2, <2>3, <2>4
<1>3. d \in rest <=> LinesOf(lines, d) = {}
  BY DEF Unwritten
<1>4. LinesOf(lines, d) = {i \in 1..Len(lines) : lines[i].domain = d} /\ Len(lines) \in Nat
  BY LenProperties DEF LinesOf, Text
<1>5. r = copied \o appended
  BY DEF TwoLoops
<1> HIDE DEF copied, appended, r, rest
<1>6. /\ r \in Seq(Line) /\ Len(r) = Len(copied) + Len(appended)
      /\ \A i \in 1..Len(copied) + Len(appended) :
           r[i] = IF i <= Len(copied) THEN copied[i] ELSE appended[i - Len(copied)]
  <2>1. copied \in Seq(Line) /\ appended \in Seq(Line)
    BY <1>1, <1>2
  <2> QED BY <1>5, <2>1, ConcatProperties
<1>7. LinesOf(r, d) = {i \in 1..Len(r) : r[i].domain = d} /\ Len(appended) \in Nat
  BY <1>2, <1>6, LenProperties DEF LinesOf
<1>8. LinesOf(r, d) # {}
  <2>1. CASE d \in rest
    <3>1. PICK i \in 1..Len(appended) : appended[i].domain = d
      BY <1>2, <2>1, LenProperties DEF LinesOf
    <3> DEFINE k == Len(copied) + i
    <3>2. k \in 1..Len(r) /\ k \in 1..Len(copied) + Len(appended)
          /\ ~(k <= Len(copied)) /\ k - Len(copied) = i
      BY <1>1, <1>4, <1>6, <1>7
    <3>3. r[k] = appended[i]
      BY <1>6, <3>2
    <3> HIDE DEF k
    <3> QED BY <1>7, <3>1, <3>2, <3>3
  <2>2. CASE d \notin rest
    <3>1. PICK i \in 1..Len(lines) : lines[i].domain = d
      BY <1>3, <1>4, <2>2
    <3>2. copied[i] = OwnLine(d, offsets[d])
      BY <1>1, <3>1
    <3>3. copied[i].domain = d
      BY <3>2 DEF OwnLine
    <3>4. i \in 1..Len(r) /\ r[i] = copied[i]
      BY <1>1, <1>4, <1>6, <1>7
    <3> QED BY <1>7, <3>3, <3>4
  <2> QED BY <2>1, <2>2
<1>9. ASSUME NEW i \in LinesOf(r, d) PROVE r[i].offset = Printed(offsets[d])
  <2>1. i \in 1..Len(r) /\ r[i].domain = d
    BY <1>7
  <2>2. CASE i <= Len(copied)
    <3>1. i \in 1..Len(lines) /\ r[i] = copied[i]
      BY <1>1, <1>4, <1>6, <1>7, <2>1, <2>2
    <3>2. copied[i] = OwnLine(d, offsets[d])
      <4>1. CASE lines[i].domain \in selected
        <5>1. copied[i] = OwnLine(lines[i].domain, offsets[lines[i].domain])
          BY <1>1, <3>1, <4>1
        <5>2. copied[i].domain = lines[i].domain
          BY <5>1 DEF OwnLine
        <5> QED BY <2>1, <3>1, <5>1, <5>2
      <4>2. CASE lines[i].domain \notin selected
        BY <1>1, <2>1, <3>1, <4>2
      <4> QED BY <4>1, <4>2
    <3> QED BY <3>1, <3>2 DEF OwnLine
  <2>3. CASE ~(i <= Len(copied))
    <3>1. i - Len(copied) \in 1..Len(appended) /\ r[i] = appended[i - Len(copied)]
      BY <1>1, <1>4, <1>6, <1>7, <2>1, <2>3
    <3> QED BY <1>2, <2>1, <3>1
  <2> QED BY <2>2, <2>3
<1> QED BY <1>8, <1>9 DEF r

\* Where each line of the copy comes from, fused or not.
Origin(lines, offsets, selected, i, line) ==
  \/ /\ i <= Len(lines) /\ lines[i].domain \notin selected
     /\ line = lines[i]
  \/ /\ i <= Len(lines) /\ lines[i].domain \in selected
     /\ line = OwnLine(lines[i].domain, offsets[lines[i].domain])
  \/ /\ i = Len(lines) /\ lines[i].domain \notin selected /\ ~lines[i].ended
     /\ Unwritten(lines, selected) # {}
     /\ line.domain = lines[i].domain /\ line.text = "fused" /\ line.ended
     /\ line.domain # NoDomain =>
          line.offset \in {Printed(offsets[d]) : d \in Unwritten(lines, selected)}
  \/ /\ i > Len(lines)
     /\ line.domain \in Unwritten(lines, selected)
     /\ line = OwnLine(line.domain, offsets[line.domain])

LEMMA RewrittenLines ==
  ASSUME NEW contents \in Text \cup {Missing}, NEW offsets \in [Domains -> Int],
         NEW selected \in SUBSET Domains
  PROVE  LET lines == Source(contents)
             r == Rewritten(contents, offsets, selected)
         IN  /\ Len(lines) <= Len(r)
             /\ \A i \in 1..Len(r) : Origin(lines, offsets, selected, i, r[i])
<1> DEFINE lines == Source(contents)
           copied == Copied(lines, offsets, selected)
           appended == Appended(lines, offsets, selected)
           rest == Unwritten(lines, selected)
           r == Rewritten(contents, offsets, selected)
<1>1. lines \in Text /\ lines \in Seq(Line) /\ Len(lines) \in Nat
  BY SourceIsText, LenProperties DEF Text
<1>2. r = Followed(copied, appended)
  BY DEF Rewritten
<1> HIDE DEF lines, r
<1>3. /\ copied \in Seq(Line) /\ Len(copied) = Len(lines)
      /\ \A i \in 1..Len(lines) :
           copied[i] = IF lines[i].domain \in selected
                         THEN OwnLine(lines[i].domain, offsets[lines[i].domain])
                         ELSE lines[i]
  BY <1>1, CopiedLines
<1>4. /\ appended \in Seq(Line) /\ Len(appended) \in Nat
      /\ (appended # <<>> <=> rest # {})
      /\ \A i \in 1..Len(appended) :
           /\ appended[i].domain \in rest
           /\ appended[i] = OwnLine(appended[i].domain, offsets[appended[i].domain])
  BY AppendedLines, LenProperties
<1> HIDE DEF copied, appended, rest
<1>5. ASSUME NEW i \in 1..Len(lines)
      PROVE  Origin(lines, offsets, selected, i, copied[i])
  BY <1>1, <1>3, <1>5 DEF Origin
<1>6. ASSUME NEW i \in 1..Len(appended), NEW k \in Int, k > Len(lines)
      PROVE  Origin(lines, offsets, selected, k, appended[i])
  BY <1>4, <1>6 DEF Origin, rest
<1>7. CASE appended # <<>> /\ copied # <<>> /\ ~copied[Len(copied)].ended
  <2> DEFINE fused == Fused(copied[Len(copied)], appended[1])
             front == [copied EXCEPT ![Len(copied)] = fused]
             tail == Tail(appended)
  <2>1. Len(lines) \in 1..Len(lines) /\ 1 \in 1..Len(appended)
    BY <1>1, <1>3, <1>4, <1>7, EmptySeq
  <2>2. /\ lines[Len(lines)].domain \notin selected
        /\ copied[Len(lines)] = lines[Len(lines)]
        /\ ~lines[Len(lines)].ended
    BY <1>3, <1>7, <2>1, OwnLineEnded
  <2>3. copied[Len(copied)] \in Line /\ appended[1] \in Line /\ appended[1].ended
    BY <1>3, <1>4, <2>1, ElementOfSeq, OwnLineEnded
  <2>4. /\ fused \in Line /\ fused.text = "fused" /\ fused.ended
        /\ fused.domain = lines[Len(lines)].domain
        /\ fused.domain # NoDomain => fused.offset = appended[1].offset
    BY <1>3, <2>2, <2>3 DEF Fused, Line
  <2>5. Origin(lines, offsets, selected, Len(lines), fused)
    <3>1. appended[1].domain \in rest
          /\ appended[1] = OwnLine(appended[1].domain, offsets[appended[1].domain])
      BY <1>4, <2>1
    <3>2. appended[1].offset = Printed(offsets[appended[1].domain])
      BY <3>1 DEF OwnLine
    <3>3. fused.domain # NoDomain => fused.offset \in {Printed(offsets[d]) : d \in rest}
      BY <2>4, <3>1, <3>2
    <3> HIDE DEF fused
    <3> QED BY <1>4, <1>7, <2>2, <2>4, <3>3 DEF Origin, rest
  <2>6. r = front \o tail
    BY <1>2, <1>7 DEF Followed
  <2> HIDE DEF fused
  <2>7. /\ front \in Seq(Line) /\ Len(front) = Len(lines)
        /\ \A i \in 1..Len(lines) :
             front[i] = IF i = Len(lines) THEN fused ELSE copied[i]
    BY <1>3, <2>1, <2>4, ExceptSeq
  <2>8. /\ tail \in Seq(Line) /\ Len(tail) = Len(appended) - 1
        /\ \A i \in 1..Len(tail) : tail[i] = appended[i + 1]
    BY <1>4, <1>7, HeadTailProperties
  <2> HIDE DEF front, tail
  <2>9. /\ Len(r) = Len(lines) + Len(tail) /\ Len(tail) \in Nat
        /\ \A i \in 1..Len(lines) + Len(tail) :
             r[i] = IF i <= Len(lines) THEN front[i] ELSE tail[i - Len(lines)]
    <3>1. front \in Seq(Line) /\ tail \in Seq(Line)
      BY <2>7, <2>8
    <3>2. /\ Len(r) = Len(front) + Len(tail)
          /\ \A i \in 1..Len(front) + Len(tail) :
               r[i] = IF i <= Len(front) THEN front[i] ELSE tail[i - Len(front)]
      BY <2>6, <3>1, ConcatProperties
    <3>3. Len(tail) \in Nat
      BY <3>1, LenProperties
    <3> QED BY <2>7, <3>2, <3>3
  <2>10. ASSUME NEW i \in 1..Len(r) PROVE Origin(lines, offsets, selected, i, r[i])
    <3>1. CASE i = Len(lines)
      BY <2>1, <2>5, <2>7, <2>9, <3>1
    <3>2. CASE i < Len(lines)
      <4>1. i \in 1..Len(lines) /\ r[i] = copied[i]
        BY <1>1, <2>7, <2>9, <3>2
      <4> QED BY <1>5, <4>1
    <3>3. CASE i > Len(lines)
      <4>1. i - Len(lines) + 1 \in 1..Len(appended) /\ i \in Int
            /\ r[i] = appended[i - Len(lines) + 1]
        BY <1>1, <1>4, <2>8, <2>9, <3>3
      <4> QED BY <1>6, <3>3, <4>1
    <3> QED BY <1>1, <2>9, <3>1, <3>2, <3>3
  <2> QED BY <1>1, <2>9, <2>10 DEF r, lines
<1>8. CASE ~(appended # <<>> /\ copied # <<>> /\ ~copied[Len(copied)].ended)
  <2>1. r = copied \o appended
    BY <1>2, <1>8 DEF Followed
  <2>2. /\ Len(r) = Len(lines) + Len(appended)
        /\ \A i \in 1..Len(lines) + Len(appended) :
             r[i] = IF i <= Len(lines) THEN copied[i] ELSE appended[i - Len(lines)]
    <3>1. copied \in Seq(Line) /\ appended \in Seq(Line)
      BY <1>3, <1>4
    <3>2. /\ Len(r) = Len(copied) + Len(appended)
          /\ \A i \in 1..Len(copied) + Len(appended) :
               r[i] = IF i <= Len(copied) THEN copied[i] ELSE appended[i - Len(copied)]
      BY <2>1, <3>1, ConcatProperties
    <3> QED BY <1>3, <3>2
  <2>3. ASSUME NEW i \in 1..Len(r) PROVE Origin(lines, offsets, selected, i, r[i])
    <3>1. CASE i <= Len(lines)
      <4>1. i \in 1..Len(lines) /\ r[i] = copied[i]
        BY <1>1, <1>4, <2>2, <3>1
      <4> QED BY <1>5, <4>1
    <3>2. CASE ~(i <= Len(lines))
      <4>1. i - Len(lines) \in 1..Len(appended) /\ i \in Int /\ i > Len(lines)
            /\ r[i] = appended[i - Len(lines)]
        BY <1>1, <1>4, <2>2, <3>2
      <4> QED BY <1>6, <4>1
    <3> QED BY <3>1, <3>2
  <2> QED BY <1>1, <1>4, <2>2, <2>3 DEF r, lines
<1> QED BY <1>7, <1>8

\* The rounding to two decimals keeps an offset within the limits.
LEMMA PrintedWithin ==
  \A offset \in MinMv..MaxMv : Printed(offset) \in MinMv..MaxMv
<1> SUFFICES ASSUME NEW offset \in Int, MinMv <= offset, offset <= MaxMv
             PROVE  Printed(offset) \in Int /\ MinMv <= Printed(offset) /\ Printed(offset) <= MaxMv
  <2>1. MinMv \in Int /\ MaxMv \in Int
    BY DEF MinMv, MaxMv
  <2> QED BY <2>1, Z3
<1> QED BY DEF Printed, MinMv, MaxMv

\* The lines of the others are in the copy where they were, and only there.
LEMMA OthersCopied ==
  ASSUME NEW lines \in Text, NEW offsets \in [Domains -> Int],
         NEW selected \in SUBSET Domains
  PROVE  LET r == TwoLoops(lines, offsets, selected)
         IN  /\ \A i \in DOMAIN lines :
                  lines[i].domain \notin selected => i \in DOMAIN r /\ r[i] = lines[i]
             /\ \A i \in DOMAIN r :
                  r[i].domain \notin selected => i \in DOMAIN lines /\ r[i] = lines[i]
<1> DEFINE copied == Copied(lines, offsets, selected)
           appended == Appended(lines, offsets, selected)
           r == TwoLoops(lines, offsets, selected)
<1>1. /\ copied \in Seq(Line) /\ Len(copied) = Len(lines)
      /\ \A i \in 1..Len(lines) :
           copied[i] = IF lines[i].domain \in selected
                         THEN OwnLine(lines[i].domain, offsets[lines[i].domain])
                         ELSE lines[i]
  BY CopiedLines
<1>2. appended \in Seq(Line) /\ \A i \in 1..Len(appended) : appended[i].domain \in selected
  <2>1. \A i \in 1..Len(appended) : appended[i].domain \in Unwritten(lines, selected)
    BY AppendedLines
  <2>2. appended \in Seq(Line)
    BY AppendedLines
  <2> QED BY <2>1, <2>2 DEF Unwritten
<1>3. DOMAIN lines = 1..Len(lines) /\ Len(lines) \in Nat
  BY LenProperties DEF Text
<1>4. r = copied \o appended
  BY DEF TwoLoops
<1> HIDE DEF copied, appended, r
<1>5. /\ r \in Seq(Line) /\ Len(r) = Len(copied) + Len(appended)
      /\ \A i \in 1..Len(copied) + Len(appended) :
           r[i] = IF i <= Len(copied) THEN copied[i] ELSE appended[i - Len(copied)]
  <2>1. copied \in Seq(Line) /\ appended \in Seq(Line)
    BY <1>1, <1>2
  <2> QED BY <1>4, <2>1, ConcatProperties
<1>6. DOMAIN r = 1..Len(r) /\ Len(appended) \in Nat
  BY <1>2, <1>5, LenProperties
<1>7. \A i \in 1..Len(lines) : i \in 1..Len(r) /\ r[i] = copied[i]
  BY <1>1, <1>3, <1>5, <1>6
<1>8. ASSUME NEW i \in DOMAIN lines, lines[i].domain \notin selected
      PROVE  i \in DOMAIN r /\ r[i] = lines[i]
  BY <1>1, <1>3, <1>6, <1>7, <1>8
<1>9. ASSUME NEW i \in DOMAIN r, r[i].domain \notin selected
      PROVE  i \in DOMAIN lines /\ r[i] = lines[i]
  <2>1. CASE i \in 1..Len(lines)
    <3>1. lines[i].domain \in selected => r[i] = OwnLine(lines[i].domain, offsets[lines[i].domain])
      BY <1>1, <1>7, <2>1
    <3>2. lines[i].domain \notin selected
      BY <1>9, <3>1 DEF OwnLine
    <3> QED BY <1>1, <1>3, <1>7, <2>1, <3>2
  <2>2. CASE i \notin 1..Len(lines)
    <3>1. i - Len(copied) \in 1..Len(appended) /\ r[i] = appended[i - Len(copied)]
      BY <1>1, <1>3, <1>5, <1>6, <2>2
    <3> QED BY <1>2, <1>9, <3>1
  <2> QED BY <2>1, <2>2
<1> QED BY <1>8, <1>9 DEF r

----------------------------------------------------------------------------
\* undervolt_load_config.

LEMMA LastOffsetType ==
  ASSUME NEW lines \in Text, NEW d, LinesOf(lines, d) # {}
  PROVE  LastOffset(lines, d) \in Int \cup {Garbage}
<1>1. lines \in Seq(Line) /\ DOMAIN lines = 1..Len(lines)
  BY LenProperties DEF Text
<1>2. PICK i \in LinesOf(lines, d) : LastOffset(lines, d) = lines[i].offset
  BY <1>1, LastOffsetOfLine
<1>3. lines[i] \in Line
  BY <1>1, ElementOfSeq DEF LinesOf
<1> QED BY <1>2, <1>3 DEF Line

LEMMA LoadedType ==
  ASSUME NEW contents \in {Missing, Unreadable} \cup Text, LoadSucceeds(contents)
  PROVE  Loaded(contents) \in [Domains -> Int]
<1> SUFFICES ASSUME NEW d \in Domains, contents # Missing, LinesOf(contents, d) # {}
             PROVE  LastOffset(contents, d) \in Int
  BY DEF Loaded
<1>1. contents \in Text /\ contents \in Seq(Line)
  BY DEF LoadSucceeds, Text
<1>2. PICK i \in LinesOf(contents, d) : LastOffset(contents, d) = contents[i].offset
  BY <1>1, LastOffsetOfLine
<1>3. d # NoDomain
  BY DomainsFinite, NoNumbersAssumption
<1>4. contents[i].offset # Garbage
  BY <1>3 DEF LoadSucceeds, LinesOf
<1> QED BY <1>1, <1>2, <1>4, LastOffsetType

----------------------------------------------------------------------------
\* What undervolt_load_config makes of what undervolt_write_config_copy_masked
\* wrote.

\* Nothing is fused: a domain's line is appended behind a newline, or none is.
Unfused(contents, selected) ==
  LET lines == Source(contents)
  IN  \/ Unwritten(lines, selected) = {}
      \/ lines = <<>>
      \/ lines[Len(lines)].ended

LEMMA HeaderHasNoDomain == \A d \in Domains : LinesOf(Header, d) = {}
<1>1. DOMAIN Header = {1} /\ Header[1].domain = NoDomain
  BY DEF Header
<1> QED BY <1>1, DomainsFinite, NoNumbersAssumption DEF LinesOf

\* The lines of a domain that is not selected are the same ones in the copy.
LEMMA OthersLines ==
  ASSUME NEW lines \in Text, NEW offsets \in [Domains -> Int],
         NEW selected \in SUBSET Domains, NEW d \in Domains \ selected
  PROVE  LET r == TwoLoops(lines, offsets, selected)
         IN  /\ LinesOf(r, d) = LinesOf(lines, d)
             /\ \A i \in LinesOf(lines, d) : r[i] = lines[i]
<1> DEFINE r == TwoLoops(lines, offsets, selected)
<1>1. /\ \A i \in DOMAIN lines :
           lines[i].domain \notin selected => i \in DOMAIN r /\ r[i] = lines[i]
      /\ \A i \in DOMAIN r :
           r[i].domain \notin selected => i \in DOMAIN lines /\ r[i] = lines[i]
  BY OthersCopied
<1> HIDE DEF r
<1>2. \A i : i \in LinesOf(lines, d) => i \in LinesOf(r, d) /\ r[i] = lines[i]
  BY <1>1 DEF LinesOf
<1>3. \A i : i \in LinesOf(r, d) => i \in LinesOf(lines, d)
  BY <1>1 DEF LinesOf
<1>4. LinesOf(r, d) = LinesOf(lines, d)
  BY <1>2, <1>3
<1> QED BY <1>2, <1>4 DEF r

\* The copy loads when the file does, and gives the offsets of the form,
\* rounded, for the domains that were selected and what the file gave for the
\* others.
THEOREM CopyLoads ==
  ASSUME NEW contents \in Text \cup {Missing}, NEW offsets \in [Domains -> Int],
         NEW selected \in SUBSET Domains, Unfused(contents, selected)
  PROVE  LET r == Rewritten(contents, offsets, selected)
         IN  /\ LoadSucceeds(contents) => LoadSucceeds(r)
             /\ Loaded(r) = [d \in Domains |-> IF d \in selected
                                                 THEN Printed(offsets[d])
                                                 ELSE Loaded(contents)[d]]
<1> DEFINE lines == Source(contents)
           r == Rewritten(contents, offsets, selected)
<1>1. lines \in Text /\ r \in Text /\ r # Missing /\ r # Unreadable
  BY SourceIsText, RewrittenIsText, FilesAssumption
<1>2. r = TwoLoops(lines, offsets, selected)
  BY RewrittenApart DEF Unfused
<1>3. ASSUME NEW d \in selected
      PROVE  /\ LinesOf(r, d) # {}
             /\ \A i \in LinesOf(r, d) : r[i].offset = Printed(offsets[d])
  BY <1>1, <1>2, SelectedWritten
<1>4. ASSUME NEW d \in Domains, d \notin selected
      PROVE  /\ LinesOf(r, d) = LinesOf(lines, d)
             /\ \A i \in LinesOf(lines, d) : r[i] = lines[i]
  <2>1. d \in Domains \ selected
    BY <1>4
  <2> HIDE DEF lines, r
  <2> QED BY <1>1, <1>2, <2>1, OthersLines
<1>5. contents = Missing => \A d \in Domains : LinesOf(lines, d) = {}
  BY HeaderHasNoDomain DEF Source
<1>6. contents # Missing => lines = contents
  BY DEF Source
<1> HIDE DEF lines, r
<1>7. /\ r \in Seq(Line)
      /\ \A i \in DOMAIN r : r[i].domain \in Domains \cup {NoDomain} /\ i \in LinesOf(r, r[i].domain)
  <2>1. r \in Seq(Line) /\ DOMAIN r = 1..Len(r)
    BY <1>1, LenProperties DEF Text
  <2>2. \A i \in DOMAIN r : r[i] \in Line
    BY <2>1, ElementOfSeq
  <2> QED BY <2>1, <2>2 DEF Line, LinesOf
<1>8. ASSUME LoadSucceeds(contents) PROVE LoadSucceeds(r)
  <2> SUFFICES ASSUME NEW i \in DOMAIN r, r[i].domain # NoDomain
               PROVE  r[i].offset # Garbage
    BY <1>1 DEF LoadSucceeds
  <2> DEFINE d == r[i].domain
  <2>1. d \in Domains /\ i \in LinesOf(r, d)
    BY <1>7
  <2>2. CASE d \in selected
    <3>1. r[i].offset = Printed(offsets[d]) /\ offsets[d] \in Int
      BY <1>3, <2>1, <2>2
    <3> QED BY <3>1, NoNumbersAssumption DEF Printed
  <2>3. CASE d \notin selected
    <3>1. i \in LinesOf(lines, d) /\ r[i] = lines[i]
      BY <1>4, <2>1, <2>3
    <3>2. contents # Missing /\ lines = contents /\ i \in DOMAIN lines
      BY <1>5, <1>6, <2>1, <3>1 DEF LinesOf
    <3> QED BY <1>8, <3>1, <3>2 DEF LoadSucceeds
  <2> QED BY <2>2, <2>3
<1>9. ASSUME NEW d \in Domains
      PROVE  Loaded(r)[d] = IF d \in selected THEN Printed(offsets[d]) ELSE Loaded(contents)[d]
  <2>1. Loaded(r)[d] = IF LinesOf(r, d) = {} THEN 0 ELSE LastOffset(r, d)
    BY <1>1 DEF Loaded
  <2>2. CASE d \in selected
    <3>1. LinesOf(r, d) # {} /\ \A i \in LinesOf(r, d) : r[i].offset = Printed(offsets[d])
      BY <1>3, <2>2
    <3>2. \E i \in LinesOf(r, d) : LastOffset(r, d) = r[i].offset
      BY <1>7, <3>1, LastOffsetOfLine
    <3> QED BY <2>1, <2>2, <3>1, <3>2
  <2>3. CASE d \notin selected
    <3>1. LinesOf(r, d) = LinesOf(lines, d) /\ \A i \in LinesOf(lines, d) : r[i] = lines[i]
      BY <1>4, <2>3
    <3>2. CASE LinesOf(lines, d) = {}
      BY <1>6, <2>1, <2>3, <3>1, <3>2 DEF Loaded
    <3>3. CASE LinesOf(lines, d) # {}
      <4>1. contents # Missing /\ lines = contents
        BY <1>5, <1>6, <3>3
      <4>2. lines \in Seq(Line)
        BY <1>1 DEF Text
      <4>3. (CHOOSE i \in LinesOf(lines, d) : \A j \in LinesOf(lines, d) : j <= i)
              \in LinesOf(lines, d)
        BY <3>3, <4>2, LastLine
      <4>4. LastOffset(r, d) = LastOffset(lines, d)
        BY <3>1, <4>3 DEF LastOffset
      <4> QED BY <2>1, <2>3, <3>1, <3>3, <4>1, <4>4 DEF Loaded
    <3> QED BY <3>2, <3>3
  <2> QED BY <2>2, <2>3
<1>10. Loaded(r) = [d \in Domains |-> Loaded(r)[d]]
  BY DEF Loaded
<1> QED BY <1>8, <1>9, <1>10 DEF r

\* Saving the same form again changes nothing: the copy of the copy is the copy.
THEOREM CopyOnce ==
  ASSUME NEW contents \in Text \cup {Missing}, NEW offsets \in [Domains -> Int],
         NEW selected \in SUBSET Domains, Unfused(contents, selected)
  PROVE  LET r == Rewritten(contents, offsets, selected)
         IN  Rewritten(r, offsets, selected) = r
<1> DEFINE lines == Source(contents)
           r == Rewritten(contents, offsets, selected)
<1>1. lines \in Text /\ r \in Text /\ r # Missing
  BY SourceIsText, RewrittenIsText, FilesAssumption
<1>2. r = TwoLoops(lines, offsets, selected)
  BY RewrittenApart DEF Unfused
<1>3. \A i \in 1..Len(r) : Origin(lines, offsets, selected, i, r[i])
  BY RewrittenLines
<1>4. Source(r) = r
  BY <1>1 DEF Source
<1>5. Unwritten(r, selected) = {}
  <2>1. \A d \in selected : LinesOf(r, d) # {}
    BY <1>1, <1>2, SelectedWritten
  <2> QED BY <2>1 DEF Unwritten
<1> HIDE DEF lines, r
<1>6. Appended(r, offsets, selected) = <<>>
  BY <1>5, AppendedLines
<1>7. r \in Seq(Line) /\ Len(r) \in Nat /\ DOMAIN r = 1..Len(r)
  BY <1>1, LenProperties DEF Text
<1>8. \A i \in 1..Len(r) :
        r[i].domain \in selected => r[i] = OwnLine(r[i].domain, offsets[r[i].domain])
  <2> SUFFICES ASSUME NEW i \in 1..Len(r), r[i].domain \in selected
               PROVE  r[i] = OwnLine(r[i].domain, offsets[r[i].domain])
    OBVIOUS
  <2>1. Origin(lines, offsets, selected, i, r[i])
    BY <1>3
  <2>2. CASE r[i] = OwnLine(lines[i].domain, offsets[lines[i].domain])
    <3>1. r[i].domain = lines[i].domain
      BY <2>2 DEF OwnLine
    <3> QED BY <2>2, <3>1
  <2> QED BY <2>1, <2>2 DEF Origin
<1>9. Copied(r, offsets, selected) = r
  <2>1. Copied(r, offsets, selected) = [i \in 1..Len(r) |-> r[i]]
    BY <1>8 DEF Copied
  <2> QED BY <1>7, <2>1
<1>10. Rewritten(r, offsets, selected) = Followed(r, <<>>)
  BY <1>4, <1>6, <1>9 DEF Rewritten
<1>11. Followed(r, <<>>) = r \o <<>>
  BY DEF Followed
<1>12. r \o <<>> = r
  BY <1>7, ConcatEmptySeq
<1> QED BY <1>10, <1>11, <1>12 DEF r
============================================================================
