--------------------------- MODULE ArchiverProofs ---------------------------
(***************************************************************************)
(* Proofs about the archiver, for every base of bytes, threshold, window    *)
(* and limit, whatever is compressed or put in an archive.  Each decoder is *)
(* followed token by token through what its encoder wrote: whatever comes   *)
(* behind the tokens so far, the decoder has gone through them and written  *)
(* the bytes before the place where the encoder stands.  Then the stages    *)
(* one after the other, and the file of an archive.                        *)
(***************************************************************************)
EXTENDS Archiver, Extremes, SequenceTheorems, FiniteSetTheorems, TLAPS

-----------------------------------------------------------------------------
(* The archiver: loops *)

\* A sequence with its length.
LEMMA BytesAre ==
    ASSUME NEW T, NEW n \in Nat, NEW a \in [1..n -> T]
    PROVE  a \in Seq(T) /\ Len(a) = n
  OBVIOUS

\* h goes on by steps from the start as long as it is in S, n of them.
Steps(h, S, start, step, n) ==
    h[0] = start /\ \A k \in 0..n : k # n /\ h[k] \in S => h[k + 1] = step[h[k]]

\* h goes on by steps from the start, n of them.
Along(h, start, step, n) == h[0] = start /\ \A k \in 0..n : k # n => h[k + 1] = step[h[k]]

\* A loop has its states, ...
LEMMA LoopGoes ==
    ASSUME NEW S, NEW start \in S, NEW step \in [S -> S], NEW n \in Nat
    PROVE  \E h \in [0..n -> S] : Along(h, start, step, n)
  <1> DEFINE next == [p \in Nat \X S |-> step[p[2]]]
  <1>1. next \in [Nat \X S -> S]
    OBVIOUS
  <1>2. \A k \in Nat, r \in S : next[<<k, r>>] = step[r]
    OBVIOUS
  <1> HIDE DEF next
  <1>3. PICK h \in [0..n -> S] : GoesBy(h, start, next, n)
    BY <1>1, Iterates
  <1>4. ASSUME NEW k \in 0..n, k # n PROVE h[k + 1] = step[h[k]]
    <2>1. h[k] \in S /\ k \in Nat
      OBVIOUS
    <2>2. h[k + 1] = next[<<k, h[k]>>]
      BY <1>3, <1>4 DEF GoesBy
    <2> QED BY <1>2, <2>1, <2>2
  <1> QED BY <1>3, <1>4 DEF GoesBy, Along

\* ... and stays in the set that its steps stay in.
LEMMA LoopStays ==
    ASSUME NEW S, NEW start \in S, NEW step \in [S -> S], NEW n \in Nat, NEW h,
           Steps(h, S, start, step, n)
    PROVE  \A k \in 0..n : h[k] \in S
  <1> DEFINE G == {k \in Nat : h[k] \in S}
  <1>1. 0 \in G
    BY DEF Steps
  <1>2. ASSUME NEW k \in 0..n, k # n, k \in G PROVE k + 1 \in G
    <2>1. h[k + 1] = step[h[k]] /\ h[k] \in S
      BY <1>2 DEF Steps
    <2> QED BY <2>1
  <1> HIDE DEF G
  <1>3. \A k \in 0..n : k \in G
    BY <1>1, <1>2, CountingUp
  <1> QED BY <1>3 DEF G

-----------------------------------------------------------------------------
(* The archiver: runs and matches *)

Byte == 0..ByteBase - 1

\* What the constants are.
LEMMA BytesBase ==
    /\ ByteBase \in Nat /\ ByteBase >= 3 /\ Threshold \in Nat /\ Threshold >= 2 /\ Threshold < ByteBase
    /\ Longest \in Nat /\ Longest = ByteBase - 1 /\ Longest >= 2
    /\ RunMark \in Byte /\ MatchMark \in Byte /\ RunMark # 0 /\ MatchMark # 0 /\ 0 \in Byte
    /\ \A n \in 1..Longest : n \in Byte /\ n # 0
    /\ Bytes = Seq(Byte)
  <1>1. ByteBase \in Nat /\ Threshold \in 2..(ByteBase - 1)
    BY ArchiverAssumption
  <1> QED BY <1>1 DEF Longest, RunMark, MatchMark, Byte, Bytes

\* What two places have in common is as long as it is, and no longer than the bytes.
LEMMA CommonIs ==
    ASSUME NEW s \in Bytes, NEW i \in 1..Len(s), NEW j \in 1..Len(s) + 1, i < j
    PROVE  /\ Common(s, i, j) \in 0..Longest
           /\ j + Common(s, i, j) <= Len(s) + 1
           /\ \A k \in 0..Common(s, i, j) - 1 : s[i + k] = s[j + k]
  <1>1. PICK l \in Nat : l = Len(s)
    BY BytesBase
  <1>2. PICK top \in Nat : top = Longest
    BY BytesBase
  <1> DEFINE Alike(n) == \A k \in 0..n - 1 : j + k <= l /\ s[i + k] = s[j + k]
             S == {n \in 0..top : Alike(n)}
  <1>3. 0 \in S
    OBVIOUS
  <1>4. PICK n \in S : \A m \in S : n >= m
    <2>1. S \in SUBSET (0..top)
      OBVIOUS
    <2> HIDE DEF S
    <2> QED BY <1>3, <2>1, GreatestExists
  <1>5. n = top \/ j + n > l \/ s[i + n] # s[j + n]
    <2> SUFFICES ASSUME n # top, ~(j + n > l), s[i + n] = s[j + n] PROVE FALSE
      OBVIOUS
    <2>1. n + 1 \in 0..top
      OBVIOUS
    <2>2. Alike(n + 1)
      <3> SUFFICES ASSUME NEW k \in 0..n PROVE j + k <= l /\ s[i + k] = s[j + k]
        OBVIOUS
      <3>1. CASE k = n
        BY <1>1, <3>1
      <3>2. CASE k # n
        <4>1. k \in 0..n - 1
          BY <3>2
        <4> QED BY <4>1
      <3> QED BY <3>1, <3>2
    <2>3. n >= n + 1
      BY <1>4, <2>1, <2>2
    <2> QED BY <2>3
  <1>6. /\ Common(s, i, j) \in 0..top
        /\ \A k \in 0..Common(s, i, j) - 1 : j + k <= l /\ s[i + k] = s[j + k]
    BY <1>1, <1>2, <1>4, <1>5 DEF Common
  <1>7. PICK c \in 0..top : c = Common(s, i, j)
    BY <1>6
  <1>8. j + c <= l + 1
    <2>1. CASE c = 0
      BY <1>1, <2>1
    <2>2. CASE c # 0
      <3>1. c - 1 \in 0..c - 1
        BY <2>2
      <3> QED BY <1>6, <1>7, <3>1
    <2> QED BY <2>1, <2>2
  <1> QED BY <1>1, <1>2, <1>6, <1>7, <1>8

\* A run is of one byte.
LEMMA RunLengthIs ==
    ASSUME NEW s \in Bytes, NEW i \in 1..Len(s)
    PROVE  /\ RunLength(s, i) \in 1..Longest
           /\ i + RunLength(s, i) <= Len(s) + 1
           /\ \A k \in 0..RunLength(s, i) - 1 : s[i + k] = s[i]
  <1>1. PICK l \in Nat : l = Len(s)
    BY BytesBase
  <1>2. PICK top \in Nat : top = Longest /\ top >= 2
    BY BytesBase
  <1>3. i + 1 \in 1..l + 1 /\ i < i + 1 /\ i \in 1..l
    BY <1>1
  <1>4. PICK c \in 0..top : /\ c = Common(s, i, i + 1)
                            /\ i + 1 + c <= l + 1
                            /\ \A k \in 0..c - 1 : s[i + k] = s[i + 1 + k]
    <2>1. /\ Common(s, i, i + 1) \in 0..Longest
          /\ i + 1 + Common(s, i, i + 1) <= Len(s) + 1
          /\ \A k \in 0..Common(s, i, i + 1) - 1 : s[i + k] = s[i + 1 + k]
      BY <1>1, <1>3, CommonIs
    <2> QED BY <1>1, <1>2, <2>1
  <1> DEFINE G == {k \in Nat : s[i + k] = s[i]}
  <1>5. 0 \in G
    OBVIOUS
  <1>6. ASSUME NEW k \in 0..c, k # c, k \in G PROVE k + 1 \in G
    <2>1. k \in 0..c - 1 /\ i + 1 + k = i + (k + 1)
      BY <1>6
    <2>2. s[i + k] = s[i + 1 + k] /\ s[i + k] = s[i]
      BY <1>4, <1>6, <2>1
    <2>3. s[i + (k + 1)] = s[i]
      BY <2>1, <2>2
    <2>4. k + 1 \in Nat
      OBVIOUS
    <2> QED BY <2>3, <2>4
  <1> HIDE DEF G
  <1>7. \A k \in 0..c : k \in G
    BY <1>5, <1>6, CountingUp
  <1>8. \A k \in 0..c : s[i + k] = s[i]
    BY <1>7 DEF G
  <1>9. PICK n : n = RunLength(s, i)
    OBVIOUS
  <1>10. n = IF c = top THEN top ELSE c + 1
    BY <1>2, <1>4, <1>9 DEF RunLength
  <1>11. n \in 1..top /\ i + n <= l + 1 /\ \A k \in 0..n - 1 : k \in 0..c
    BY <1>2, <1>4, <1>10
  <1> QED BY <1>1, <1>2, <1>8, <1>9, <1>11

\* A match is of bytes that come back, at a distance within the window.
LEMMA MatchIs ==
    ASSUME NEW s \in Bytes, NEW j \in 1..Len(s)
    PROVE  LET m == Match(s, j)
           IN  \/ m.len = 0
               \/ /\ m.len \in 1..Longest /\ m.distance \in 1..j - 1 /\ m.distance < Window
                  /\ j + m.len <= Len(s) + 1
                  /\ \A k \in 0..m.len - 1 : s[j - m.distance + k] = s[j + k]
  <1>1. PICK l \in Nat : l = Len(s)
    BY BytesBase
  <1>2. j \in 1..l /\ Window \in Nat
    BY <1>1, BytesBase, ArchiverAssumption
  <1> DEFINE from == {i \in 1..j - 1 : j - i <= Window}
             C(i) == Common(s, i, j)
  <1>3. \A i \in from : C(i) \in 0..Longest
    <2> TAKE i \in from
    <2>1. i \in 1..Len(s) /\ j \in 1..Len(s) + 1 /\ i < j
      BY <1>1, <1>2
    <2> QED BY <2>1, CommonIs
  <1>4. ASSUME from # {}
        PROVE  \E i \in from : \A h \in from : C(i) > C(h) \/ (C(i) = C(h) /\ i <= h)
    <2> DEFINE values == {C(i) : i \in from}
    <2>1. PICK top \in Nat : top = Longest
      BY BytesBase
    <2>2. values \in SUBSET (0..top) /\ values # {}
      BY <1>3, <1>4, <2>1
    <2>3. \A i \in from : C(i) \in values
      OBVIOUS
    <2>4. \A v \in values : \E i \in from : v = C(i)
      OBVIOUS
    <2> HIDE DEF values
    <2>5. PICK most \in values : \A v \in values : most >= v
      BY <2>2, GreatestExists
    <2> DEFINE firsts == {i \in from : C(i) = most}
    <2>6. firsts \in SUBSET Nat /\ firsts # {}
      BY <2>4, <2>5
    <2>7. \A i \in firsts : i \in from /\ C(i) = most
      OBVIOUS
    <2>8. \A i \in from : C(i) = most => i \in firsts
      OBVIOUS
    <2> HIDE DEF firsts
    <2>9. PICK i \in firsts : \A h \in firsts : i <= h
      BY <2>6, LeastExists
    <2>10. ASSUME NEW h \in from PROVE C(i) > C(h) \/ (C(i) = C(h) /\ i <= h)
      <3>1. C(i) \in Nat /\ C(h) \in Nat /\ C(i) = most /\ most >= C(h)
        BY <1>3, <2>1, <2>3, <2>5, <2>7
      <3>2. CASE C(h) = most
        <4>1. i <= h
          BY <2>8, <2>9, <3>2
        <4> QED BY <3>1, <3>2, <4>1
      <3>3. CASE C(h) # most
        BY <3>1, <3>3
      <3> QED BY <3>2, <3>3
    <2> QED BY <2>7, <2>10
  <1>5. PICK best : best = CHOOSE i \in from : \A h \in from : C(i) > C(h) \/ (C(i) = C(h) /\ i <= h)
    OBVIOUS
  <1>6. from # {} => best \in from
    BY <1>4, <1>5
  <1>7. Match(s, j) = IF from = {} \/ C(best) < Threshold \/ j - best >= Window
                      THEN [len |-> 0, distance |-> 0] ELSE [len |-> C(best), distance |-> j - best]
    BY <1>5 DEF Match
  <1>8. CASE from = {} \/ C(best) < Threshold \/ j - best >= Window
    BY <1>7, <1>8
  <1>9. CASE ~(from = {} \/ C(best) < Threshold \/ j - best >= Window)
    <2>1. best \in from /\ Match(s, j) = [len |-> C(best), distance |-> j - best]
      BY <1>6, <1>7, <1>9
    <2>2. best \in 1..j - 1 /\ best \in 1..Len(s) /\ j \in 1..Len(s) + 1 /\ best < j
      BY <1>1, <1>2, <2>1
    <2>3. /\ C(best) \in 0..Longest
          /\ j + C(best) <= Len(s) + 1
          /\ \A k \in 0..C(best) - 1 : s[best + k] = s[j + k]
      BY <2>2, CommonIs
    <2>4. PICK n, d : n = C(best) /\ d = j - best
      OBVIOUS
    <2>5. n \in 1..Longest
      BY <1>9, <2>3, <2>4, BytesBase
    <2>6. d \in 1..j - 1 /\ d < Window /\ j - d = best
      BY <1>2, <1>9, <2>2, <2>4
    <2>7. Match(s, j).len = n /\ Match(s, j).distance = d
      BY <2>1, <2>4
    <2> QED BY <2>3, <2>4, <2>5, <2>6, <2>7
  <1> QED BY <1>8, <1>9

-----------------------------------------------------------------------------
(* The archiver: the loops stay within the bytes *)

\* The states of a loop over s that writes bytes, or fails.
Coded(s) == [at : 1..Len(s) + 1, out : Bytes]
Uncoded(s) == [at : 1..Len(s) + 1, out : Bytes \cup {Failed}]

\* Bytes one after the other, with one more, or with two or more sequences of them.
LEMMA BytesJoin ==
    ASSUME NEW a \in Bytes, NEW b \in Bytes
    PROVE  /\ a \o b \in Bytes /\ Len(a \o b) = Len(a) + Len(b)
           /\ \A i \in 1..Len(a) : (a \o b)[i] = a[i]
           /\ \A i \in 1..Len(b) : (a \o b)[Len(a) + i] = b[i]
  BY BytesBase

LEMMA BytesGrow ==
    ASSUME NEW a \in Bytes, NEW b \in Byte
    PROVE  /\ Append(a, b) \in Bytes /\ Len(Append(a, b)) = Len(a) + 1
           /\ \A i \in 1..Len(a) : Append(a, b)[i] = a[i]
           /\ Append(a, b)[Len(a) + 1] = b
  BY BytesBase

\* The same byte a number of times.
LEMMA SameIs ==
    ASSUME NEW b \in Byte, NEW n \in Nat
    PROVE  /\ Same(b, n) \in Bytes /\ Len(Same(b, n)) = n
           /\ \A i \in 1..n : Same(b, n)[i] = b
  <1>1. Same(b, n) \in [1..n -> Byte]
    BY DEF Same
  <1>2. Same(b, n) \in Bytes /\ Len(Same(b, n)) = n
    BY <1>1, BytesAre, BytesBase
  <1> QED BY <1>2 DEF Same

\* The tokens are bytes.
LEMMA TokensAre ==
    /\ \A a \in Byte : <<a>> \in Bytes /\ Len(<<a>>) = 1
    /\ \A a, b \in Byte : <<a, b>> \in Bytes /\ Len(<<a, b>>) = 2
    /\ \A a, b, c \in Byte : <<a, b, c>> \in Bytes /\ Len(<<a, b, c>>) = 3
    /\ \A a, b, c, d \in Byte : <<a, b, c, d>> \in Bytes /\ Len(<<a, b, c, d>>) = 4
  BY BytesBase

\* So are what a run and a marker become.
LEMMA EncodedIs ==
    /\ \A b \in Byte, n \in 1..Longest : EncodedRun(b, n) \in Bytes
    /\ \A mark \in Byte, b \in Byte : Escape(mark, b) \in Bytes
  <1>1. ASSUME NEW b \in Byte, NEW n \in 1..Longest PROVE EncodedRun(b, n) \in Bytes
    <2>1. n \in Byte /\ n \in Nat /\ RunMark \in Byte /\ 0 \in Byte
      BY BytesBase
    <2>2. <<RunMark, n, b>> \in Bytes /\ Same(b, n) \in Bytes
      BY <2>1, TokensAre, SameIs
    <2>3. [k \in 1..2 * n |-> IF k % 2 = 1 THEN b ELSE 0] \in Bytes
      <3>1. PICK l \in Nat : l = 2 * n
        BY <2>1
      <3>2. [k \in 1..l |-> IF k % 2 = 1 THEN b ELSE 0] \in [1..l -> Byte]
        BY <2>1
      <3> QED BY <3>1, <3>2, BytesAre, BytesBase
    <2> QED BY <2>2, <2>3 DEF EncodedRun
  <1>2. ASSUME NEW mark \in Byte, NEW b \in Byte PROVE Escape(mark, b) \in Bytes
    BY BytesBase, TokensAre DEF Escape
  <1> QED BY <1>1, <1>2

\* One step of each loop.
LEMMA RunStepIs ==
    ASSUME NEW s \in Bytes, NEW r \in Coded(s)
    PROVE  RunStep(s, r) \in Coded(s)
  <1>1. CASE r.at > Len(s)
    BY <1>1 DEF RunStep
  <1>2. CASE ~(r.at > Len(s))
    <2>1. PICK i \in 1..Len(s) : i = r.at
      BY <1>2, BytesBase DEF Coded
    <2>2. PICK n \in 1..Longest : n = RunLength(s, i) /\ i + n <= Len(s) + 1
      BY RunLengthIs
    <2>3. s[i] \in Byte /\ r.out \in Bytes
      BY BytesBase DEF Coded
    <2>4. PICK e \in Bytes : e = EncodedRun(s[i], n)
      BY <2>3, EncodedIs
    <2>5. r.out \o e \in Bytes
      BY <2>3, BytesJoin
    <2>6. i + n \in 1..Len(s) + 1
      BY <2>2, BytesBase
    <2>7. RunStep(s, r) = [at |-> i + n, out |-> r.out \o e]
      BY <1>2, <2>1, <2>2, <2>4 DEF RunStep
    <2> QED BY <2>5, <2>6, <2>7 DEF Coded
  <1> QED BY <1>1, <1>2

LEMMA MatchStepIs ==
    ASSUME NEW s \in Bytes, NEW r \in Coded(s)
    PROVE  MatchStep(s, r) \in Coded(s)
  <1>1. CASE r.at > Len(s)
    BY <1>1 DEF MatchStep
  <1>2. CASE ~(r.at > Len(s))
    <2>1. PICK j \in 1..Len(s) : j = r.at
      BY <1>2, BytesBase DEF Coded
    <2>2. s[j] \in Byte /\ r.out \in Bytes /\ Len(s) \in Nat
      BY BytesBase DEF Coded
    <2>3. PICK m : m = Match(s, j)
      OBVIOUS
    <2>4. CASE m.len = 0
      <3>1. PICK e \in Bytes : e = Escape(MatchMark, s[j])
        BY <2>2, BytesBase, EncodedIs
      <3>2. MatchStep(s, r) = [at |-> j + 1, out |-> r.out \o e]
        BY <1>2, <2>1, <2>3, <2>4, <3>1 DEF MatchStep
      <3>3. r.out \o e \in Bytes /\ j + 1 \in 1..Len(s) + 1
        BY <2>2, BytesJoin
      <3> QED BY <3>2, <3>3 DEF Coded
    <2>5. CASE m.len # 0
      <3>1. /\ m.len \in 1..Longest /\ m.distance \in 1..j - 1 /\ m.distance < Window
            /\ j + m.len <= Len(s) + 1
        BY <2>3, <2>5, MatchIs
      <3>2. PICK n, d : n = m.len /\ d = m.distance
        OBVIOUS
      <3>3. d \div ByteBase \in Byte /\ d % ByteBase \in Byte /\ n \in Byte
        <4>1. d \in Nat /\ d < ByteBase * ByteBase /\ ByteBase \in Nat /\ ByteBase > 0 /\ n \in Byte
          BY <3>1, <3>2, BytesBase, ArchiverAssumption
        <4>2. d % ByteBase \in Byte
          BY <4>1 DEF Byte
        <4>3. d \div ByteBase \in Nat /\ d \div ByteBase < ByteBase
          BY <4>1
        <4> QED BY <4>1, <4>2, <4>3 DEF Byte
      <3>4. PICK e \in Bytes : e = <<MatchMark, d \div ByteBase, d % ByteBase, n>>
        BY <3>3, BytesBase, TokensAre
      <3>5. MatchStep(s, r) = [at |-> j + n, out |-> r.out \o e]
        BY <1>2, <2>1, <2>3, <2>5, <3>2, <3>4 DEF MatchStep
      <3>6. r.out \o e \in Bytes /\ j + n \in 1..Len(s) + 1
        BY <2>2, <3>1, <3>2, BytesBase, BytesJoin
      <3> QED BY <3>5, <3>6 DEF Coded
    <2> QED BY <2>4, <2>5
  <1> QED BY <1>1, <1>2

LEMMA UnRunStepIs ==
    ASSUME NEW s \in Bytes, NEW r \in Uncoded(s)
    PROVE  UnRunStep(s, r) \in Uncoded(s)
  <1>1. CASE r.at > Len(s) \/ r.out = Failed
    BY <1>1 DEF UnRunStep
  <1>2. CASE ~(r.at > Len(s) \/ r.out = Failed)
    <2>1. PICK i \in 1..Len(s) : i = r.at
      BY <1>2, BytesBase DEF Uncoded
    <2>2. PICK o \in Bytes : o = r.out
      BY <1>2 DEF Uncoded
    <2>3. Len(s) \in Nat /\ \A k \in 1..Len(s) : s[k] \in Byte
      BY BytesBase
    <2>4. CASE s[i] # RunMark \/ i = Len(s)
      <3>1. UnRunStep(s, r) = [at |-> i + 1, out |-> Append(o, s[i])]
        BY <1>2, <2>1, <2>2, <2>4 DEF UnRunStep
      <3>2. Append(o, s[i]) \in Bytes /\ i + 1 \in 1..Len(s) + 1
        BY <2>3, BytesGrow
      <3> QED BY <3>1, <3>2 DEF Uncoded
    <2>5. CASE s[i] = RunMark /\ i < Len(s) /\ s[i + 1] = 0
      <3>1. UnRunStep(s, r) = [at |-> i + 2, out |-> Append(o, RunMark)]
        BY <1>2, <2>1, <2>2, <2>3, <2>5 DEF UnRunStep
      <3>2. Append(o, RunMark) \in Bytes /\ i + 2 \in 1..Len(s) + 1
        BY <2>3, <2>5, BytesGrow, BytesBase
      <3> QED BY <3>1, <3>2 DEF Uncoded
    <2>6. CASE s[i] = RunMark /\ i + 1 < Len(s) /\ s[i + 1] # 0
      <3>1. i + 1 \in 1..Len(s) /\ i + 2 \in 1..Len(s) /\ i + 3 \in 1..Len(s) + 1 /\ i # Len(s)
        BY <2>3, <2>6
      <3>2. UnRunStep(s, r) = [at |-> i + 3, out |-> o \o Same(s[i + 2], s[i + 1])]
        BY <1>2, <2>1, <2>2, <2>6, <3>1 DEF UnRunStep
      <3>3. s[i + 2] \in Byte /\ s[i + 1] \in Nat
        BY <2>3, <3>1 DEF Byte
      <3>4. o \o Same(s[i + 2], s[i + 1]) \in Bytes
        BY <3>3, SameIs, BytesJoin
      <3> QED BY <3>1, <3>2, <3>4 DEF Uncoded
    <2>7. CASE ~(s[i] # RunMark \/ i = Len(s)) /\ ~(s[i] = RunMark /\ i < Len(s) /\ s[i + 1] = 0)
               /\ ~(s[i] = RunMark /\ i + 1 < Len(s) /\ s[i + 1] # 0)
      <3>1. UnRunStep(s, r) = [r EXCEPT !.out = Failed]
        BY <1>2, <2>1, <2>2, <2>7 DEF UnRunStep
      <3> QED BY <3>1 DEF Uncoded
    <2> QED BY <2>4, <2>5, <2>6, <2>7
  <1> QED BY <1>1, <1>2

\* One more byte is copied.
CopyStep(out, distance) == Append(out, out[Len(out) + 1 - distance])

\* A copy continues what is there with itself.
LEMMA CopiedIs ==
    ASSUME NEW o \in Bytes, NEW d \in 1..Len(o), NEW n \in Nat
    PROVE  /\ Copied(o, d, n) \in Bytes /\ Len(Copied(o, d, n)) = Len(o) + n
           /\ \A i \in 1..Len(o) : Copied(o, d, n)[i] = o[i]
           /\ \A i \in Len(o) + 1..Len(o) + n : Copied(o, d, n)[i] = Copied(o, d, n)[i - d]
  <1>1. PICK l \in Nat : l = Len(o)
    BY BytesBase
  <1> DEFINE S == {c \in Bytes : Len(c) >= l}
             step == [c \in S |-> CopyStep(c, d)]
             Is(h) == h = [k \in 0..n |-> IF k = 0 THEN o ELSE Append(h[k - 1], h[k - 1][Len(o) + k - d])]
             Good(c, k) == /\ c \in Bytes /\ Len(c) = l + k
                           /\ \A i \in 1..l : c[i] = o[i]
                           /\ \A i \in l + 1..l + k : c[i] = c[i - d]
  <1>2. d \in 1..l
    BY <1>1
  <1>3. ASSUME NEW c \in Bytes, NEW k \in Nat, Good(c, k)
        PROVE  Good(Append(c, c[l + (k + 1) - d]), k + 1)
    <2>1. PICK j \in 1..l + k : j = l + (k + 1) - d /\ j = (l + k) + 1 - d
      BY <1>2
    <2>2. c[j] \in Byte
      BY <1>3, <2>1, BytesBase
    <2>3. PICK e : e = Append(c, c[j])
      OBVIOUS
    <2>4. /\ e \in Bytes /\ Len(e) = l + k + 1 /\ e[l + k + 1] = c[j]
          /\ \A i \in 1..l + k : e[i] = c[i]
      BY <1>3, <2>2, <2>3, BytesGrow
    <2>5. \A i \in 1..l : e[i] = o[i]
      BY <1>3, <2>4
    <2>6. ASSUME NEW i \in l + 1..l + (k + 1) PROVE e[i] = e[i - d]
      <3>1. CASE i = l + k + 1
        <4>1. i - d = j /\ e[i] = c[j] /\ e[j] = c[j]
          BY <2>1, <2>4, <3>1
        <4> QED BY <4>1
      <3>2. CASE i # l + k + 1
        <4>1. i \in l + 1..l + k /\ i \in 1..l + k /\ i - d \in 1..l + k
          BY <1>2, <3>2
        <4>2. c[i] = c[i - d]
          BY <1>3, <4>1
        <4> QED BY <2>4, <4>1, <4>2
      <3> QED BY <3>1, <3>2
    <2>7. l + k + 1 = l + (k + 1)
      OBVIOUS
    <2> QED BY <2>1, <2>3, <2>4, <2>5, <2>6, <2>7
  <1>4. \E h : Is(h)
    <2>1. o \in S
      BY <1>1
    <2>2. step \in [S -> S]
      <3> SUFFICES ASSUME NEW c \in S PROVE CopyStep(c, d) \in S
        OBVIOUS
      <3>1. PICK m \in Nat : m = Len(c) /\ m >= l
        BY BytesBase
      <3>2. m + 1 - d \in 1..m
        BY <1>2, <3>1
      <3>3. c[m + 1 - d] \in Byte
        BY <3>1, <3>2, BytesBase
      <3>4. Append(c, c[m + 1 - d]) \in Bytes /\ Len(Append(c, c[m + 1 - d])) = m + 1
        BY <3>1, <3>3, BytesGrow
      <3> QED BY <3>1, <3>4 DEF CopyStep
    <2>3. \A c \in S : step[c] = CopyStep(c, d)
      OBVIOUS
    <2>4. \A c \in S : c \in Bytes
      OBVIOUS
    <2> HIDE DEF S, step
    <2>12. PICK h \in [0..n -> S] : Along(h, o, step, n)
      BY <2>1, <2>2, LoopGoes
    <2>5. h \in [0..n -> S] /\ h[0] = o /\ \A k \in 0..n : k # n => h[k + 1] = step[h[k]]
      BY <2>12 DEF Along
    <2> DEFINE G == {k \in Nat : Len(h[k]) = l + k}
    <2>6. 0 \in G
      BY <1>1, <2>5
    <2>7. ASSUME NEW k \in 0..n, k # n, k \in G PROVE k + 1 \in G
      <3>1. h[k] \in Bytes /\ Len(h[k]) = l + k /\ k \in Nat
        BY <2>4, <2>5, <2>7
      <3>4. h[k][Len(h[k]) + 1 - d] \in Byte
        <4>1. PICK m \in Nat : m = l + k /\ m + 1 - d \in 1..m
          BY <1>2
        <4> QED BY <3>1, <4>1, BytesBase
      <3>2. h[k + 1] = Append(h[k], h[k][Len(h[k]) + 1 - d])
        BY <2>3, <2>5, <2>7 DEF CopyStep
      <3>3. Len(h[k + 1]) = Len(h[k]) + 1
        BY <3>1, <3>2, <3>4, BytesGrow
      <3> QED BY <3>1, <3>3
    <2> HIDE DEF G
    <2>8. \A k \in 0..n : k \in G
      BY <2>6, <2>7, CountingUp
    <2>9. ASSUME NEW k \in 0..n
          PROVE  h[k] = IF k = 0 THEN o ELSE Append(h[k - 1], h[k - 1][Len(o) + k - d])
      <3>1. CASE k = 0
        BY <2>5, <3>1
      <3>2. CASE k # 0
        <4>1. PICK j \in 0..n : j = k - 1 /\ j # n /\ j + 1 = k
          BY <3>2
        <4>2. h[k] = Append(h[j], h[j][Len(h[j]) + 1 - d])
          <5>1. h[j] \in S /\ h[j + 1] = step[h[j]]
            BY <2>5, <4>1
          <5> QED BY <2>3, <4>1, <5>1 DEF CopyStep
        <4>3. Len(h[j]) = l + j
          BY <2>8, <4>1 DEF G
        <4>4. Len(h[j]) + 1 - d = Len(o) + k - d
          BY <1>1, <4>1, <4>3
        <4> QED BY <3>2, <4>1, <4>2, <4>4
      <3> QED BY <3>1, <3>2
    <2>10. h = [k \in 0..n |-> h[k]]
      BY <2>5
    <2>11. Is(h)
      BY <2>9, <2>10
    <2> QED BY <2>11
  <1>5. PICK h : h = CHOOSE g : Is(g)
    OBVIOUS
  <1>6. Is(h)
    BY <1>4, <1>5
  <1>7. Copied(o, d, n) = h[n]
    BY <1>5 DEF Copied
  <1>8. \A k \in 0..n : h[k] = IF k = 0 THEN o ELSE Append(h[k - 1], h[k - 1][l + k - d])
    BY <1>1, <1>6
  <1> DEFINE G == {k \in Nat : Good(h[k], k)}
  <1> HIDE DEF Is
  <1>9. 0 \in G
    <2>1. h[0] = o
      BY <1>8
    <2>2. Good(o, 0)
      BY <1>1
    <2> QED BY <2>1, <2>2
  <1>10. ASSUME NEW k \in 0..n, k # n, k \in G PROVE k + 1 \in G
    <2>1. k + 1 \in 0..n /\ k + 1 # 0 /\ (k + 1) - 1 = k /\ k \in Nat /\ k + 1 \in Nat
      BY <1>10
    <2>2. Good(h[k], k)
      BY <1>10
    <2> HIDE DEF Good
    <2>3. h[k + 1] = Append(h[k], h[k][l + (k + 1) - d])
      BY <1>8, <2>1
    <2>4. h[k] \in Bytes
      BY <2>2 DEF Good
    <2>5. Good(h[k + 1], k + 1)
      BY <1>3, <2>1, <2>2, <2>3, <2>4
    <2> QED BY <2>1, <2>5
  <1> HIDE DEF G
  <1>11. \A k \in 0..n : k \in G
    BY <1>9, <1>10, CountingUp
  <1>12. Good(h[n], n)
    BY <1>11 DEF G
  <1> QED BY <1>1, <1>7, <1>12

LEMMA UnMatchStepIs ==
    ASSUME NEW s \in Bytes, NEW r \in Uncoded(s)
    PROVE  UnMatchStep(s, r) \in Uncoded(s)
  <1>1. CASE r.at > Len(s) \/ r.out = Failed
    BY <1>1 DEF UnMatchStep
  <1>2. CASE ~(r.at > Len(s) \/ r.out = Failed)
    <2>1. PICK i \in 1..Len(s) : i = r.at
      BY <1>2, BytesBase DEF Uncoded
    <2>2. PICK o \in Bytes : o = r.out
      BY <1>2 DEF Uncoded
    <2>3. Len(s) \in Nat /\ \A k \in 1..Len(s) : s[k] \in Byte
      BY BytesBase
    <2>4. PICK d : d = s[i + 1] * ByteBase + s[i + 2]
      OBVIOUS
    <2>5. UnMatchStep(s, r) =
            CASE s[i] # MatchMark \/ i = Len(s) -> [at |-> i + 1, out |-> Append(o, s[i])]
              [] s[i] = MatchMark /\ i < Len(s) /\ s[i + 1] = 0 ->
                    [at |-> i + 2, out |-> Append(o, MatchMark)]
              [] s[i] = MatchMark /\ i + 2 < Len(s) /\ s[i + 1] # 0 /\ d <= Len(o) ->
                    [at |-> i + 4, out |-> Copied(o, d, s[i + 3])]
              [] OTHER -> [r EXCEPT !.out = Failed]
      BY <1>2, <2>1, <2>2, <2>4 DEF UnMatchStep
    <2>6. CASE s[i] # MatchMark \/ i = Len(s)
      <3>1. UnMatchStep(s, r) = [at |-> i + 1, out |-> Append(o, s[i])]
        BY <2>5, <2>6
      <3>2. Append(o, s[i]) \in Bytes /\ i + 1 \in 1..Len(s) + 1
        BY <2>3, BytesGrow
      <3> QED BY <3>1, <3>2 DEF Uncoded
    <2>7. CASE s[i] = MatchMark /\ i < Len(s) /\ s[i + 1] = 0
      <3>1. UnMatchStep(s, r) = [at |-> i + 2, out |-> Append(o, MatchMark)]
        BY <2>3, <2>5, <2>7
      <3>2. Append(o, MatchMark) \in Bytes /\ i + 2 \in 1..Len(s) + 1
        BY <2>3, <2>7, BytesGrow, BytesBase
      <3> QED BY <3>1, <3>2 DEF Uncoded
    <2>8. CASE s[i] = MatchMark /\ i + 2 < Len(s) /\ s[i + 1] # 0 /\ d <= Len(o)
      <3>1. /\ i + 1 \in 1..Len(s) /\ i + 2 \in 1..Len(s) /\ i + 3 \in 1..Len(s)
            /\ i + 4 \in 1..Len(s) + 1 /\ i # Len(s)
        BY <2>3, <2>8
      <3>2. UnMatchStep(s, r) = [at |-> i + 4, out |-> Copied(o, d, s[i + 3])]
        BY <2>5, <2>8, <3>1
      <3>3. s[i + 1] \in Byte /\ s[i + 2] \in Byte /\ s[i + 3] \in Nat /\ ByteBase \in Nat /\ ByteBase > 0
        BY <2>3, <3>1, BytesBase DEF Byte
      <3>4. d \in Nat /\ d > 0
        <4>1. PICK a \in Nat, b \in Nat : a = s[i + 1] /\ b = s[i + 2] /\ a > 0
          BY <2>8, <3>3 DEF Byte
        <4>2. a * ByteBase \in Nat /\ a * ByteBase > 0
          BY <3>3, <4>1
        <4> QED BY <2>4, <4>1, <4>2
      <3>5. d \in 1..Len(o)
        BY <2>8, <3>4, BytesBase
      <3>6. Copied(o, d, s[i + 3]) \in Bytes
        BY <3>3, <3>5, CopiedIs
      <3> QED BY <3>1, <3>2, <3>6 DEF Uncoded
    <2>9. CASE ~(s[i] # MatchMark \/ i = Len(s)) /\ ~(s[i] = MatchMark /\ i < Len(s) /\ s[i + 1] = 0)
               /\ ~(s[i] = MatchMark /\ i + 2 < Len(s) /\ s[i + 1] # 0 /\ d <= Len(o))
      <3>1. UnMatchStep(s, r) = [r EXCEPT !.out = Failed]
        BY <2>5, <2>9
      <3> QED BY <3>1 DEF Uncoded
    <2> QED BY <2>6, <2>7, <2>8, <2>9
  <1> QED BY <1>1, <1>2

-----------------------------------------------------------------------------
(* The archiver: what the loops go through *)

\* h is what a stage goes through with s: its states, step by step.
RunsThrough(h, s) ==
    /\ h \in [0..Len(s) -> Coded(s)] /\ h[0] = Start
    /\ \A k \in 0..Len(s) : k # Len(s) => h[k + 1] = RunStep(s, h[k])
UnRunsThrough(h, s) ==
    /\ h \in [0..Len(s) -> Uncoded(s)] /\ h[0] = Start
    /\ \A k \in 0..Len(s) : k # Len(s) => h[k + 1] = UnRunStep(s, h[k])
MatchesThrough(h, s) ==
    /\ h \in [0..Len(s) -> Coded(s)] /\ h[0] = Start
    /\ \A k \in 0..Len(s) : k # Len(s) => h[k + 1] = MatchStep(s, h[k])
UnMatchesThrough(h, s) ==
    /\ h \in [0..Len(s) -> Uncoded(s)] /\ h[0] = Start
    /\ \A k \in 0..Len(s) : k # Len(s) => h[k + 1] = UnMatchStep(s, h[k])

\* Each stage goes through something, and its result is what it has written in the end.
LEMMA RunsGoes ==
    ASSUME NEW s \in Bytes
    PROVE  \E h : RunsThrough(h, s) /\ AsRuns(s) = h[Len(s)].out
  <1>1. PICK n \in Nat : n = Len(s)
    BY BytesBase
  <1> DEFINE S == Coded(s)
             step == [r \in S |-> RunStep(s, r)]
             Is(h) == h = [k \in 0..n |-> IF k = 0 THEN Start ELSE RunStep(s, h[k - 1])]
  <1>2. Start \in S
    BY <1>1, BytesBase DEF Start, Coded
  <1>3. step \in [S -> S]
    BY RunStepIs
  <1>4. \A r \in S : step[r] = RunStep(s, r)
    OBVIOUS
  <1> HIDE DEF S, step
  <1>5. \E h : Is(h)
    <2>1. PICK h \in [0..n -> S] : Along(h, Start, step, n)
      BY <1>2, <1>3, LoopGoes
    <2>2. ASSUME NEW k \in 0..n PROVE h[k] = IF k = 0 THEN Start ELSE RunStep(s, h[k - 1])
      <3>1. CASE k = 0
        BY <2>1, <3>1 DEF Along
      <3>2. CASE k # 0
        <4>1. PICK j \in 0..n : j = k - 1 /\ j # n /\ j + 1 = k
          BY <3>2
        <4>2. h[j] \in S /\ h[j + 1] = step[h[j]]
          BY <2>1, <4>1 DEF Along
        <4> QED BY <1>4, <3>2, <4>1, <4>2
      <3> QED BY <3>1, <3>2
    <2>3. h = [k \in 0..n |-> h[k]]
      BY <2>1
    <2> QED BY <2>2, <2>3
  <1>6. PICK h : h = CHOOSE g : Is(g)
    OBVIOUS
  <1>7. Is(h)
    BY <1>5, <1>6
  <1>8. AsRuns(s) = h[n].out
    BY <1>1, <1>6 DEF AsRuns
  <1>9. \A k \in 0..n : h[k] = IF k = 0 THEN Start ELSE RunStep(s, h[k - 1])
    BY <1>7
  <1>10. h = [k \in 0..n |-> h[k]]
    BY <1>7
  <1> HIDE DEF Is
  <1>11. h[0] = Start
    BY <1>9
  <1>12. ASSUME NEW k \in 0..n, k # n PROVE h[k + 1] = RunStep(s, h[k])
    <2>1. k + 1 \in 0..n /\ k + 1 # 0 /\ (k + 1) - 1 = k
      BY <1>12
    <2> QED BY <1>9, <2>1
  <1>13. Steps(h, S, Start, step, n)
    BY <1>4, <1>11, <1>12 DEF Steps
  <1>14. \A k \in 0..n : h[k] \in S
    BY <1>2, <1>3, <1>13, LoopStays
  <1>15. h \in [0..n -> S]
    BY <1>10, <1>14
  <1> QED BY <1>1, <1>8, <1>11, <1>12, <1>15 DEF S, RunsThrough

LEMMA UnRunGoes ==
    ASSUME NEW s \in Bytes
    PROVE  \E h : UnRunsThrough(h, s) /\ UnRun(s) = h[Len(s)].out
  <1>1. PICK n \in Nat : n = Len(s)
    BY BytesBase
  <1> DEFINE S == Uncoded(s)
             step == [r \in S |-> UnRunStep(s, r)]
             Is(h) == h = [k \in 0..n |-> IF k = 0 THEN Start ELSE UnRunStep(s, h[k - 1])]
  <1>2. Start \in S
    BY <1>1, BytesBase DEF Start, Uncoded
  <1>3. step \in [S -> S]
    BY UnRunStepIs
  <1>4. \A r \in S : step[r] = UnRunStep(s, r)
    OBVIOUS
  <1> HIDE DEF S, step
  <1>5. \E h : Is(h)
    <2>1. PICK h \in [0..n -> S] : Along(h, Start, step, n)
      BY <1>2, <1>3, LoopGoes
    <2>2. ASSUME NEW k \in 0..n PROVE h[k] = IF k = 0 THEN Start ELSE UnRunStep(s, h[k - 1])
      <3>1. CASE k = 0
        BY <2>1, <3>1 DEF Along
      <3>2. CASE k # 0
        <4>1. PICK j \in 0..n : j = k - 1 /\ j # n /\ j + 1 = k
          BY <3>2
        <4>2. h[j] \in S /\ h[j + 1] = step[h[j]]
          BY <2>1, <4>1 DEF Along
        <4> QED BY <1>4, <3>2, <4>1, <4>2
      <3> QED BY <3>1, <3>2
    <2>3. h = [k \in 0..n |-> h[k]]
      BY <2>1
    <2> QED BY <2>2, <2>3
  <1>6. PICK h : h = CHOOSE g : Is(g)
    OBVIOUS
  <1>7. Is(h)
    BY <1>5, <1>6
  <1>8. UnRun(s) = h[n].out
    BY <1>1, <1>6 DEF UnRun
  <1>9. \A k \in 0..n : h[k] = IF k = 0 THEN Start ELSE UnRunStep(s, h[k - 1])
    BY <1>7
  <1>10. h = [k \in 0..n |-> h[k]]
    BY <1>7
  <1> HIDE DEF Is
  <1>11. h[0] = Start
    BY <1>9
  <1>12. ASSUME NEW k \in 0..n, k # n PROVE h[k + 1] = UnRunStep(s, h[k])
    <2>1. k + 1 \in 0..n /\ k + 1 # 0 /\ (k + 1) - 1 = k
      BY <1>12
    <2> QED BY <1>9, <2>1
  <1>13. Steps(h, S, Start, step, n)
    BY <1>4, <1>11, <1>12 DEF Steps
  <1>14. \A k \in 0..n : h[k] \in S
    BY <1>2, <1>3, <1>13, LoopStays
  <1>15. h \in [0..n -> S]
    BY <1>10, <1>14
  <1> QED BY <1>1, <1>8, <1>11, <1>12, <1>15 DEF S, UnRunsThrough

LEMMA MatchesGoes ==
    ASSUME NEW s \in Bytes
    PROVE  \E h : MatchesThrough(h, s) /\ AsMatches(s) = h[Len(s)].out
  <1>1. PICK n \in Nat : n = Len(s)
    BY BytesBase
  <1> DEFINE S == Coded(s)
             step == [r \in S |-> MatchStep(s, r)]
             Is(h) == h = [k \in 0..n |-> IF k = 0 THEN Start ELSE MatchStep(s, h[k - 1])]
  <1>2. Start \in S
    BY <1>1, BytesBase DEF Start, Coded
  <1>3. step \in [S -> S]
    BY MatchStepIs
  <1>4. \A r \in S : step[r] = MatchStep(s, r)
    OBVIOUS
  <1> HIDE DEF S, step
  <1>5. \E h : Is(h)
    <2>1. PICK h \in [0..n -> S] : Along(h, Start, step, n)
      BY <1>2, <1>3, LoopGoes
    <2>2. ASSUME NEW k \in 0..n PROVE h[k] = IF k = 0 THEN Start ELSE MatchStep(s, h[k - 1])
      <3>1. CASE k = 0
        BY <2>1, <3>1 DEF Along
      <3>2. CASE k # 0
        <4>1. PICK j \in 0..n : j = k - 1 /\ j # n /\ j + 1 = k
          BY <3>2
        <4>2. h[j] \in S /\ h[j + 1] = step[h[j]]
          BY <2>1, <4>1 DEF Along
        <4> QED BY <1>4, <3>2, <4>1, <4>2
      <3> QED BY <3>1, <3>2
    <2>3. h = [k \in 0..n |-> h[k]]
      BY <2>1
    <2> QED BY <2>2, <2>3
  <1>6. PICK h : h = CHOOSE g : Is(g)
    OBVIOUS
  <1>7. Is(h)
    BY <1>5, <1>6
  <1>8. AsMatches(s) = h[n].out
    BY <1>1, <1>6 DEF AsMatches
  <1>9. \A k \in 0..n : h[k] = IF k = 0 THEN Start ELSE MatchStep(s, h[k - 1])
    BY <1>7
  <1>10. h = [k \in 0..n |-> h[k]]
    BY <1>7
  <1> HIDE DEF Is
  <1>11. h[0] = Start
    BY <1>9
  <1>12. ASSUME NEW k \in 0..n, k # n PROVE h[k + 1] = MatchStep(s, h[k])
    <2>1. k + 1 \in 0..n /\ k + 1 # 0 /\ (k + 1) - 1 = k
      BY <1>12
    <2> QED BY <1>9, <2>1
  <1>13. Steps(h, S, Start, step, n)
    BY <1>4, <1>11, <1>12 DEF Steps
  <1>14. \A k \in 0..n : h[k] \in S
    BY <1>2, <1>3, <1>13, LoopStays
  <1>15. h \in [0..n -> S]
    BY <1>10, <1>14
  <1> QED BY <1>1, <1>8, <1>11, <1>12, <1>15 DEF S, MatchesThrough

LEMMA UnMatchGoes ==
    ASSUME NEW s \in Bytes
    PROVE  \E h : UnMatchesThrough(h, s) /\ UnMatch(s) = h[Len(s)].out
  <1>1. PICK n \in Nat : n = Len(s)
    BY BytesBase
  <1> DEFINE S == Uncoded(s)
             step == [r \in S |-> UnMatchStep(s, r)]
             Is(h) == h = [k \in 0..n |-> IF k = 0 THEN Start ELSE UnMatchStep(s, h[k - 1])]
  <1>2. Start \in S
    BY <1>1, BytesBase DEF Start, Uncoded
  <1>3. step \in [S -> S]
    BY UnMatchStepIs
  <1>4. \A r \in S : step[r] = UnMatchStep(s, r)
    OBVIOUS
  <1> HIDE DEF S, step
  <1>5. \E h : Is(h)
    <2>1. PICK h \in [0..n -> S] : Along(h, Start, step, n)
      BY <1>2, <1>3, LoopGoes
    <2>2. ASSUME NEW k \in 0..n PROVE h[k] = IF k = 0 THEN Start ELSE UnMatchStep(s, h[k - 1])
      <3>1. CASE k = 0
        BY <2>1, <3>1 DEF Along
      <3>2. CASE k # 0
        <4>1. PICK j \in 0..n : j = k - 1 /\ j # n /\ j + 1 = k
          BY <3>2
        <4>2. h[j] \in S /\ h[j + 1] = step[h[j]]
          BY <2>1, <4>1 DEF Along
        <4> QED BY <1>4, <3>2, <4>1, <4>2
      <3> QED BY <3>1, <3>2
    <2>3. h = [k \in 0..n |-> h[k]]
      BY <2>1
    <2> QED BY <2>2, <2>3
  <1>6. PICK h : h = CHOOSE g : Is(g)
    OBVIOUS
  <1>7. Is(h)
    BY <1>5, <1>6
  <1>8. UnMatch(s) = h[n].out
    BY <1>1, <1>6 DEF UnMatch
  <1>9. \A k \in 0..n : h[k] = IF k = 0 THEN Start ELSE UnMatchStep(s, h[k - 1])
    BY <1>7
  <1>10. h = [k \in 0..n |-> h[k]]
    BY <1>7
  <1> HIDE DEF Is
  <1>11. h[0] = Start
    BY <1>9
  <1>12. ASSUME NEW k \in 0..n, k # n PROVE h[k + 1] = UnMatchStep(s, h[k])
    <2>1. k + 1 \in 0..n /\ k + 1 # 0 /\ (k + 1) - 1 = k
      BY <1>12
    <2> QED BY <1>9, <2>1
  <1>13. Steps(h, S, Start, step, n)
    BY <1>4, <1>11, <1>12 DEF Steps
  <1>14. \A k \in 0..n : h[k] \in S
    BY <1>2, <1>3, <1>13, LoopStays
  <1>15. h \in [0..n -> S]
    BY <1>10, <1>14
  <1> QED BY <1>1, <1>8, <1>11, <1>12, <1>15 DEF S, UnMatchesThrough

-----------------------------------------------------------------------------
(* The archiver: decoding, token by token *)

\* The bytes before the i-th.
Upto(s, i) == [k \in 1..i - 1 |-> s[k]]

\* t begins with e; x comes in t behind its first m bytes.
Extends(t, e) == Len(e) <= Len(t) /\ \A i \in 1..Len(e) : t[i] = e[i]
Follows(t, m, x) == m + Len(x) <= Len(t) /\ \A i \in 1..Len(x) : t[m + i] = x[i]

\* Whatever comes behind e, what has gone through it has written o.
UnRunsTo(e, o) == \A t \in Bytes : \A g :
    UnRunsThrough(g, t) /\ Extends(t, e) =>
        \E k \in 0..Len(e) : g[k] = [at |-> Len(e) + 1, out |-> o]
UnMatchesTo(e, o) == \A t \in Bytes : \A g :
    UnMatchesThrough(g, t) /\ Extends(t, e) =>
        \E k \in 0..Len(e) : g[k] = [at |-> Len(e) + 1, out |-> o]

\* Where x comes, one step goes past it and turns what was written into w.
UnRunReads(x, o, w) == \A t \in Bytes, m \in Nat :
    Follows(t, m, x) => UnRunStep(t, [at |-> m + 1, out |-> o]) = [at |-> m + 1 + Len(x), out |-> w]
UnMatchReads(x, o, w) == \A t \in Bytes, m \in Nat :
    Follows(t, m, x) => UnMatchStep(t, [at |-> m + 1, out |-> o]) = [at |-> m + 1 + Len(x), out |-> w]

\* Bytes are never what a failure is.
LEMMA NotFailed == \A o \in Bytes : o # Failed
  <1> SUFFICES ASSUME NEW o \in Bytes, o = Failed PROVE FALSE
    OBVIOUS
  <1>1. Len(o) = 1 /\ o[1] = -1
    BY DEF Failed
  <1>2. o[1] \in Byte
    <2>1. o \in Seq(Byte)
      BY BytesBase
    <2>2. 1 \in 1..Len(o)
      BY <1>1
    <2> QED BY <2>1, <2>2
  <1> QED BY <1>1, <1>2, BytesBase DEF Byte

\* What begins with two one after the other begins with the first, and the second follows.
LEMMA ExtendsBoth ==
    ASSUME NEW t \in Bytes, NEW e \in Bytes, NEW x \in Bytes, Extends(t, e \o x)
    PROVE  Extends(t, e) /\ Follows(t, Len(e), x)
  <1>1. PICK m \in Nat, n \in Nat, l \in Nat : m = Len(e) /\ n = Len(x) /\ l = Len(t)
    BY BytesBase
  <1>2. PICK f : f = e \o x
    OBVIOUS
  <1>3. /\ Len(f) = m + n
        /\ \A i \in 1..m : f[i] = e[i]
        /\ \A i \in 1..n : f[m + i] = x[i]
    BY <1>1, <1>2, BytesJoin
  <1>4. m + n <= l /\ \A i \in 1..m + n : t[i] = f[i]
    BY <1>1, <1>2, <1>3 DEF Extends
  <1>5. \A i \in 1..m : i \in 1..m + n
    OBVIOUS
  <1>6. \A i \in 1..n : m + i \in 1..m + n
    OBVIOUS
  <1>7. m <= l
    BY <1>4
  <1> QED BY <1>1, <1>3, <1>4, <1>5, <1>6, <1>7 DEF Extends, Follows

\* At first, nothing is written.
LEMMA NothingYet == UnRunsTo(<<>>, <<>>) /\ UnMatchesTo(<<>>, <<>>)
  <1>1. Len(<<>>) = 0 /\ Start = [at |-> Len(<<>>) + 1, out |-> <<>>]
    BY DEF Start
  <1>2. ASSUME NEW g, g[0] = Start PROVE \E k \in 0..Len(<<>>) : g[k] = [at |-> Len(<<>>) + 1, out |-> <<>>]
    <2>1. 0 \in 0..Len(<<>>)
      BY <1>1
    <2> QED BY <1>1, <1>2, <2>1
  <1> QED BY <1>2 DEF UnRunsTo, UnMatchesTo, UnRunsThrough, UnMatchesThrough

\* One thing read after what was.
LEMMA UnRunNext ==
    ASSUME NEW e \in Bytes, NEW o, NEW x \in Bytes, NEW w, Len(x) > 0,
           UnRunsTo(e, o), UnRunReads(x, o, w)
    PROVE  UnRunsTo(e \o x, w)
  <1>1. PICK f, m, n : f = e \o x /\ m = Len(e) /\ n = Len(x)
    OBVIOUS
  <1>0. f \in Bytes /\ m \in Nat /\ n \in Nat /\ Len(f) = m + n
    BY <1>1, BytesBase, BytesJoin
  <1>2. ASSUME NEW t \in Bytes, NEW g, UnRunsThrough(g, t), Extends(t, f)
        PROVE  \E k \in 0..Len(f) : g[k] = [at |-> Len(f) + 1, out |-> w]
    <2>1. Extends(t, e) /\ Follows(t, m, x)
      BY <1>1, <1>2, ExtendsBoth
    <2>2. PICK k \in 0..m : g[k] = [at |-> m + 1, out |-> o]
      BY <1>1, <1>2, <2>1 DEF UnRunsTo
    <2>3. PICK l \in Nat : l = Len(t)
      BY BytesBase
    <2>4. m + n <= l /\ n > 0 /\ m \in Nat /\ n \in Nat
      BY <1>0, <1>1, <2>1, <2>3 DEF Follows
    <2>5. k \in 0..l /\ k # l /\ k + 1 \in 0..m + n /\ m + n + 1 = m + 1 + n
      BY <2>4
    <2>6. g[k + 1] = UnRunStep(t, g[k])
      BY <1>2, <2>3, <2>5 DEF UnRunsThrough
    <2>7. UnRunStep(t, [at |-> m + 1, out |-> o]) = [at |-> m + 1 + n, out |-> w]
      BY <1>0, <1>1, <2>1 DEF UnRunReads
    <2>8. g[k + 1] = [at |-> m + n + 1, out |-> w]
      BY <2>2, <2>5, <2>6, <2>7
    <2> QED BY <1>0, <2>5, <2>8
  <1>3. UnRunsTo(f, w)
    BY <1>2 DEF UnRunsTo
  <1> QED BY <1>1, <1>3

\* The same for the other stage.
LEMMA UnMatchNext ==
    ASSUME NEW e \in Bytes, NEW o, NEW x \in Bytes, NEW w, Len(x) > 0,
           UnMatchesTo(e, o), UnMatchReads(x, o, w)
    PROVE  UnMatchesTo(e \o x, w)
  <1>1. PICK f, m, n : f = e \o x /\ m = Len(e) /\ n = Len(x)
    OBVIOUS
  <1>0. f \in Bytes /\ m \in Nat /\ n \in Nat /\ Len(f) = m + n
    BY <1>1, BytesBase, BytesJoin
  <1>2. ASSUME NEW t \in Bytes, NEW g, UnMatchesThrough(g, t), Extends(t, f)
        PROVE  \E k \in 0..Len(f) : g[k] = [at |-> Len(f) + 1, out |-> w]
    <2>1. Extends(t, e) /\ Follows(t, m, x)
      BY <1>1, <1>2, ExtendsBoth
    <2>2. PICK k \in 0..m : g[k] = [at |-> m + 1, out |-> o]
      BY <1>1, <1>2, <2>1 DEF UnMatchesTo
    <2>3. PICK l \in Nat : l = Len(t)
      BY BytesBase
    <2>4. m + n <= l /\ n > 0 /\ m \in Nat /\ n \in Nat
      BY <1>0, <1>1, <2>1, <2>3 DEF Follows
    <2>5. k \in 0..l /\ k # l /\ k + 1 \in 0..m + n /\ m + n + 1 = m + 1 + n
      BY <2>4
    <2>6. g[k + 1] = UnMatchStep(t, g[k])
      BY <1>2, <2>3, <2>5 DEF UnMatchesThrough
    <2>7. UnMatchStep(t, [at |-> m + 1, out |-> o]) = [at |-> m + 1 + n, out |-> w]
      BY <1>0, <1>1, <2>1 DEF UnMatchReads
    <2>8. g[k + 1] = [at |-> m + n + 1, out |-> w]
      BY <2>2, <2>5, <2>6, <2>7
    <2> QED BY <1>0, <2>5, <2>8
  <1>3. UnMatchesTo(f, w)
    BY <1>2 DEF UnMatchesTo
  <1> QED BY <1>1, <1>3

\* A byte that is no marker is written, ...
LEMMA UnRunByte ==
    ASSUME NEW o \in Bytes, NEW b \in Byte, b # RunMark
    PROVE  UnRunReads(<<b>>, o, Append(o, b))
  <1>1. ASSUME NEW t \in Bytes, NEW m \in Nat, Follows(t, m, <<b>>)
        PROVE  UnRunStep(t, [at |-> m + 1, out |-> o]) = [at |-> m + 1 + Len(<<b>>), out |-> Append(o, b)]
    <2>1. PICK l \in Nat, p \in Nat : l = Len(t) /\ p = m + 1
      BY BytesBase
    <2>2. PICK x \in Bytes : x = <<b>> /\ Len(x) = 1
      BY TokensAre
    <2>3. x[1] = b
      BY <2>2
    <2>4. m + 1 <= l /\ \A i \in 1..1 : t[m + i] = x[i]
      BY <1>1, <2>1, <2>2 DEF Follows
    <2>5. t[p] = b
      BY <2>1, <2>3, <2>4
    <2>6. ~(p > l) /\ o # Failed
      BY <2>1, <2>4, NotFailed, BytesBase
    <2>7. PICK r : r = [at |-> p, out |-> o]
      OBVIOUS
    <2>8. r.at = p /\ r.out = o
      BY <2>7
    <2>9. UnRunStep(t, r) = [at |-> p + 1, out |-> Append(o, b)]
      BY <2>1, <2>5, <2>6, <2>8 DEF UnRunStep
    <2> QED BY <2>1, <2>2, <2>7, <2>9
  <1> QED BY <1>1 DEF UnRunReads

\* ... a marker with 0 behind it is the marker, ...
LEMMA UnRunMark ==
    ASSUME NEW o \in Bytes
    PROVE  UnRunReads(<<RunMark, 0>>, o, Append(o, RunMark))
  <1>1. ASSUME NEW t \in Bytes, NEW m \in Nat, Follows(t, m, <<RunMark, 0>>)
        PROVE  UnRunStep(t, [at |-> m + 1, out |-> o]) = [at |-> m + 1 + Len(<<RunMark, 0>>), out |-> Append(o, RunMark)]
    <2>1. PICK l \in Nat, p \in Nat : l = Len(t) /\ p = m + 1
      BY BytesBase
    <2>2. PICK x \in Bytes : x = <<RunMark, 0>> /\ Len(x) = 2
      BY BytesBase, TokensAre
    <2>3. x[1] = RunMark /\ x[2] = 0
      BY <2>2
    <2>4. m + 2 <= l /\ \A i \in 1..2 : t[m + i] = x[i]
      BY <1>1, <2>1, <2>2 DEF Follows
    <2>5. t[p] = RunMark /\ t[p + 1] = 0
      BY <2>1, <2>3, <2>4
    <2>6. ~(p > l) /\ p # l /\ p < l /\ o # Failed
      BY <2>1, <2>4, NotFailed, BytesBase
    <2>7. PICK r : r = [at |-> p, out |-> o]
      OBVIOUS
    <2>8. r.at = p /\ r.out = o
      BY <2>7
    <2>9. UnRunStep(t, r) = [at |-> p + 2, out |-> Append(o, RunMark)]
      BY <2>1, <2>5, <2>6, <2>8 DEF UnRunStep
    <2> QED BY <2>1, <2>2, <2>7, <2>9
  <1> QED BY <1>1 DEF UnRunReads

\* ... and a marker with a length and a byte is a run.
LEMMA UnRunRun ==
    ASSUME NEW o \in Bytes, NEW n \in 1..Longest, NEW b \in Byte
    PROVE  UnRunReads(<<RunMark, n, b>>, o, o \o Same(b, n))
  <1>1. ASSUME NEW t \in Bytes, NEW m \in Nat, Follows(t, m, <<RunMark, n, b>>)
        PROVE  UnRunStep(t, [at |-> m + 1, out |-> o]) = [at |-> m + 1 + Len(<<RunMark, n, b>>), out |-> o \o Same(b, n)]
    <2>1. PICK l \in Nat, p \in Nat : l = Len(t) /\ p = m + 1
      BY BytesBase
    <2>2. PICK x \in Bytes : x = <<RunMark, n, b>> /\ Len(x) = 3
      <3>1. RunMark \in Byte /\ n \in Byte
        BY BytesBase
      <3> QED BY <3>1, TokensAre
    <2>3. x[1] = RunMark /\ x[2] = n /\ x[3] = b
      BY <2>2
    <2>4. m + 3 <= l /\ \A i \in 1..3 : t[m + i] = x[i]
      BY <1>1, <2>1, <2>2 DEF Follows
    <2>5. t[p] = RunMark /\ t[p + 1] = n /\ t[p + 2] = b
      BY <2>1, <2>3, <2>4
    <2>6. ~(p > l) /\ p # l /\ p < l /\ p + 1 < l /\ n # 0 /\ o # Failed
      BY <2>1, <2>4, NotFailed, BytesBase
    <2>7. PICK r : r = [at |-> p, out |-> o]
      OBVIOUS
    <2>8. r.at = p /\ r.out = o
      BY <2>7
    <2>9. UnRunStep(t, r) = [at |-> p + 3, out |-> o \o Same(b, n)]
      BY <2>1, <2>5, <2>6, <2>8 DEF UnRunStep
    <2> QED BY <2>1, <2>2, <2>7, <2>9
  <1> QED BY <1>1 DEF UnRunReads

\* The same for the other stage, ...
LEMMA UnMatchByte ==
    ASSUME NEW o \in Bytes, NEW b \in Byte, b # MatchMark
    PROVE  UnMatchReads(<<b>>, o, Append(o, b))
  <1>1. ASSUME NEW t \in Bytes, NEW m \in Nat, Follows(t, m, <<b>>)
        PROVE  UnMatchStep(t, [at |-> m + 1, out |-> o]) = [at |-> m + 1 + Len(<<b>>), out |-> Append(o, b)]
    <2>1. PICK l \in Nat, p \in Nat : l = Len(t) /\ p = m + 1
      BY BytesBase
    <2>2. PICK x \in Bytes : x = <<b>> /\ Len(x) = 1
      BY TokensAre
    <2>3. x[1] = b
      BY <2>2
    <2>4. m + 1 <= l /\ \A i \in 1..1 : t[m + i] = x[i]
      BY <1>1, <2>1, <2>2 DEF Follows
    <2>5. t[p] = b
      BY <2>1, <2>3, <2>4
    <2>6. ~(p > l) /\ o # Failed
      BY <2>1, <2>4, NotFailed, BytesBase
    <2>7. PICK r : r = [at |-> p, out |-> o]
      OBVIOUS
    <2>8. r.at = p /\ r.out = o
      BY <2>7
    <2>9. UnMatchStep(t, r) = [at |-> p + 1, out |-> Append(o, b)]
      BY <2>1, <2>5, <2>6, <2>8 DEF UnMatchStep
    <2> QED BY <2>1, <2>2, <2>7, <2>9
  <1> QED BY <1>1 DEF UnMatchReads

\* ... its marker, ...
LEMMA UnMatchMark ==
    ASSUME NEW o \in Bytes
    PROVE  UnMatchReads(<<MatchMark, 0>>, o, Append(o, MatchMark))
  <1>1. ASSUME NEW t \in Bytes, NEW m \in Nat, Follows(t, m, <<MatchMark, 0>>)
        PROVE  UnMatchStep(t, [at |-> m + 1, out |-> o]) = [at |-> m + 1 + Len(<<MatchMark, 0>>), out |-> Append(o, MatchMark)]
    <2>1. PICK l \in Nat, p \in Nat : l = Len(t) /\ p = m + 1
      BY BytesBase
    <2>2. PICK x \in Bytes : x = <<MatchMark, 0>> /\ Len(x) = 2
      BY BytesBase, TokensAre
    <2>3. x[1] = MatchMark /\ x[2] = 0
      BY <2>2
    <2>4. m + 2 <= l /\ \A i \in 1..2 : t[m + i] = x[i]
      BY <1>1, <2>1, <2>2 DEF Follows
    <2>5. t[p] = MatchMark /\ t[p + 1] = 0
      BY <2>1, <2>3, <2>4
    <2>6. ~(p > l) /\ p # l /\ p < l /\ o # Failed
      BY <2>1, <2>4, NotFailed, BytesBase
    <2>7. PICK r : r = [at |-> p, out |-> o]
      OBVIOUS
    <2>8. r.at = p /\ r.out = o
      BY <2>7
    <2>9. UnMatchStep(t, r) = [at |-> p + 2, out |-> Append(o, MatchMark)]
      BY <2>1, <2>5, <2>6, <2>8 DEF UnMatchStep
    <2> QED BY <2>1, <2>2, <2>7, <2>9
  <1> QED BY <1>1 DEF UnMatchReads

\* ... and a marker with a distance, that does not begin with 0, and a length.
LEMMA UnMatchCopy ==
    ASSUME NEW o \in Bytes, NEW a \in Byte, NEW b \in Byte, NEW n \in 1..Longest,
           a # 0, a * ByteBase + b <= Len(o)
    PROVE  UnMatchReads(<<MatchMark, a, b, n>>, o, Copied(o, a * ByteBase + b, n))
  <1>1. ASSUME NEW t \in Bytes, NEW m \in Nat, Follows(t, m, <<MatchMark, a, b, n>>)
        PROVE  UnMatchStep(t, [at |-> m + 1, out |-> o]) = [at |-> m + 1 + Len(<<MatchMark, a, b, n>>), out |-> Copied(o, a * ByteBase + b, n)]
    <2>1. PICK l \in Nat, p \in Nat : l = Len(t) /\ p = m + 1
      BY BytesBase
    <2>2. PICK x \in Bytes : x = <<MatchMark, a, b, n>> /\ Len(x) = 4
      <3>1. MatchMark \in Byte /\ n \in Byte
        BY BytesBase
      <3>2. /\ <<MatchMark, a, b, n>> \in Bytes
            /\ Len(<<MatchMark, a, b, n>>) = 4
        BY <3>1, TokensAre, Zenon
      <3> QED BY <3>2
    <2>3. x[1] = MatchMark /\ x[2] = a /\ x[3] = b /\ x[4] = n
      BY <2>2
    <2>4. m + 4 <= l /\ \A i \in 1..4 : t[m + i] = x[i]
      BY <1>1, <2>1, <2>2 DEF Follows
    <2>5. t[p] = MatchMark /\ t[p + 1] = a /\ t[p + 2] = b /\ t[p + 3] = n
      BY <2>1, <2>3, <2>4
    <2>6. ~(p > l) /\ p # l /\ p < l /\ p + 2 < l /\ o # Failed
      BY <2>1, <2>4, NotFailed, BytesBase
    <2>7. PICK r : r = [at |-> p, out |-> o]
      OBVIOUS
    <2>8. r.at = p /\ r.out = o
      BY <2>7
    <2>9. UnMatchStep(t, r) = [at |-> p + 4, out |-> Copied(o, a * ByteBase + b, n)]
      <3>1. PICK d : d = a * ByteBase + b /\ d <= Len(o)
        OBVIOUS
      <3>2. d = t[p + 1] * ByteBase + t[p + 2]
        BY <2>5, <3>1
      <3>3. UnMatchStep(t, r) = [at |-> p + 4, out |-> Copied(o, d, n)]
        BY <2>1, <2>5, <2>6, <2>8, <3>1, <3>2 DEF UnMatchStep
      <3> QED BY <3>1, <3>3
    <2> QED BY <2>1, <2>2, <2>7, <2>9
  <1> QED BY <1>1 DEF UnMatchReads

-----------------------------------------------------------------------------
(* The archiver: what was encoded is decoded *)

\* Two sequences of bytes of a length, byte for byte the same.
LEMMA BytesEqual ==
    ASSUME NEW a \in Bytes, NEW c \in Bytes, Len(a) = Len(c), \A i \in 1..Len(a) : a[i] = c[i]
    PROVE  a = c
  <1>1. a \in Seq(Byte) /\ c \in Seq(Byte)
    BY BytesBase
  <1> QED BY <1>1, SeqEqual

\* What comes before a place.
LEMMA UptoIs ==
    ASSUME NEW s \in Bytes, NEW i \in 1..Len(s) + 1
    PROVE  /\ Upto(s, i) \in Bytes /\ Len(Upto(s, i)) = i - 1
           /\ \A k \in 1..i - 1 : Upto(s, i)[k] = s[k]
  <1>1. PICK n \in Nat : n = i - 1 /\ \A k \in 1..n : k \in 1..Len(s)
    BY BytesBase
  <1>2. Upto(s, i) \in [1..n -> Byte]
    <2>1. \A k \in 1..n : s[k] \in Byte
      BY <1>1, BytesBase
    <2> QED BY <1>1, <2>1 DEF Upto
  <1>3. Upto(s, i) \in Bytes /\ Len(Upto(s, i)) = n
    BY <1>2, BytesAre, BytesBase
  <1> QED BY <1>1, <1>3 DEF Upto

\* Before the first place there is nothing, and before the end everything.
LEMMA UptoEnds ==
    ASSUME NEW s \in Bytes
    PROVE  Upto(s, 1) = <<>> /\ Upto(s, Len(s) + 1) = s
  <1>1. PICK l \in Nat : l = Len(s)
    BY BytesBase
  <1>2. 1 \in 1..l + 1 /\ l + 1 \in 1..l + 1 /\ (l + 1) - 1 = l /\ <<>> \in Bytes /\ Len(<<>>) = 0
    BY BytesBase
  <1>3. Upto(s, 1) \in Bytes /\ Len(Upto(s, 1)) = 0
    BY <1>1, <1>2, UptoIs
  <1>4. Upto(s, 1) = <<>>
    BY <1>2, <1>3, BytesEqual
  <1>5. PICK u : u = Upto(s, l + 1)
    OBVIOUS
  <1>6. u \in Bytes /\ Len(u) = l /\ \A k \in 1..l : u[k] = s[k]
    <2>1. /\ Upto(s, l + 1) \in Bytes /\ Len(Upto(s, l + 1)) = (l + 1) - 1
          /\ \A k \in 1..(l + 1) - 1 : Upto(s, l + 1)[k] = s[k]
      BY <1>1, <1>2, UptoIs
    <2> QED BY <1>2, <1>5, <2>1
  <1>7. u = s
    BY <1>1, <1>6, BytesEqual
  <1> QED BY <1>1, <1>4, <1>5, <1>7

\* What c continues, c being what comes before a later place.
LEMMA UptoLater ==
    ASSUME NEW s \in Bytes, NEW i \in 1..Len(s) + 1, NEW n \in Nat, i + n <= Len(s) + 1,
           NEW c \in Bytes, Len(c) = i - 1 + n, \A k \in 1..i - 1 + n : c[k] = s[k]
    PROVE  c = Upto(s, i + n)
  <1>1. PICK p : p = i + n
    OBVIOUS
  <1>2. p \in 1..Len(s) + 1 /\ p - 1 = i - 1 + n
    BY <1>1, BytesBase
  <1>3. /\ Upto(s, p) \in Bytes /\ Len(Upto(s, p)) = p - 1
        /\ \A k \in 1..p - 1 : Upto(s, p)[k] = s[k]
    BY <1>2, UptoIs
  <1>4. c = Upto(s, p)
    BY <1>2, <1>3, BytesEqual
  <1> QED BY <1>1, <1>4

\* One more byte, and a run.
LEMMA UptoNext ==
    ASSUME NEW s \in Bytes, NEW i \in 1..Len(s)
    PROVE  Append(Upto(s, i), s[i]) = Upto(s, i + 1)
  <1>1. PICK l \in Nat : l = Len(s)
    BY BytesBase
  <1>2. i \in 1..Len(s) + 1 /\ i \in 1..l /\ s[i] \in Byte
    BY <1>1, BytesBase
  <1>3. PICK u \in Bytes : u = Upto(s, i) /\ Len(u) = i - 1 /\ \A k \in 1..i - 1 : u[k] = s[k]
    BY <1>2, UptoIs
  <1>4. PICK c : c = Append(u, s[i])
    OBVIOUS
  <1>5. /\ c \in Bytes /\ Len(c) = i - 1 + 1 /\ c[i - 1 + 1] = s[i]
        /\ \A k \in 1..i - 1 : c[k] = u[k]
    BY <1>2, <1>3, <1>4, BytesGrow
  <1>6. ASSUME NEW k \in 1..i - 1 + 1 PROVE c[k] = s[k]
    <2>1. k \in 1..i - 1 \/ (k = i /\ i - 1 + 1 = i)
      BY <1>2
    <2> QED BY <1>3, <1>5, <2>1
  <1>7. i + 1 <= Len(s) + 1 /\ 1 \in Nat
    BY <1>1, <1>2
  <1>8. c = Upto(s, i + 1)
    BY <1>2, <1>5, <1>6, <1>7, UptoLater
  <1> QED BY <1>3, <1>4, <1>8

LEMMA UptoRun ==
    ASSUME NEW s \in Bytes, NEW i \in 1..Len(s), NEW n \in Nat, i + n <= Len(s) + 1,
           \A k \in 0..n - 1 : s[i + k] = s[i]
    PROVE  Upto(s, i) \o Same(s[i], n) = Upto(s, i + n)
  <1>1. PICK l \in Nat : l = Len(s)
    BY BytesBase
  <1>2. i \in 1..Len(s) + 1 /\ i \in 1..l /\ s[i] \in Byte
    BY <1>1, BytesBase
  <1>3. PICK u \in Bytes : u = Upto(s, i) /\ Len(u) = i - 1 /\ \A k \in 1..i - 1 : u[k] = s[k]
    BY <1>2, UptoIs
  <1>4. PICK v \in Bytes : v = Same(s[i], n) /\ Len(v) = n /\ \A k \in 1..n : v[k] = s[i]
    BY <1>2, SameIs
  <1>5. PICK c : c = u \o v
    OBVIOUS
  <1>6. /\ c \in Bytes /\ Len(c) = i - 1 + n
        /\ \A k \in 1..i - 1 : c[k] = u[k]
        /\ \A k \in 1..n : c[i - 1 + k] = v[k]
    <2>1. /\ u \o v \in Bytes /\ Len(u \o v) = Len(u) + Len(v)
          /\ \A k \in 1..Len(u) : (u \o v)[k] = u[k]
          /\ \A k \in 1..Len(v) : (u \o v)[Len(u) + k] = v[k]
      BY BytesJoin
    <2>2. Len(u) = i - 1 /\ Len(v) = n
      BY <1>3, <1>4
    <2> QED BY <1>5, <2>1, <2>2
  <1>7. ASSUME NEW k \in 1..i - 1 + n PROVE c[k] = s[k]
    <2>1. CASE k <= i - 1
      <3>1. k \in 1..i - 1
        BY <2>1
      <3> QED BY <1>3, <1>6, <3>1
    <2>2. CASE ~(k <= i - 1)
      <3>1. PICK q : q = k - i
        OBVIOUS
      <3>2. q \in 0..n - 1 /\ i + q = k /\ q + 1 \in 1..n /\ i - 1 + (q + 1) = k
        BY <1>2, <2>2, <3>1
      <3>3. c[k] = v[q + 1] /\ v[q + 1] = s[i]
        BY <1>4, <1>6, <3>2
      <3>4. s[k] = s[i]
        BY <3>2
      <3> QED BY <3>3, <3>4
    <2> QED BY <2>1, <2>2
  <1>8. c = Upto(s, i + n)
    BY <1>2, <1>6, <1>7, UptoLater
  <1> QED BY <1>3, <1>4, <1>5, <1>8

\* A run that is too short is written as its bytes, the marker twice as many.
Doubled(b, n) == [k \in 1..2 * n |-> IF k % 2 = 1 THEN b ELSE 0]

LEMMA DoubledIs ==
    ASSUME NEW b \in Byte, NEW n \in Nat
    PROVE  /\ Doubled(b, n) \in Bytes /\ Len(Doubled(b, n)) = 2 * n
           /\ \A k \in 1..2 * n : Doubled(b, n)[k] = IF k % 2 = 1 THEN b ELSE 0
  <1>1. PICK l \in Nat : l = 2 * n
    OBVIOUS
  <1>2. Doubled(b, n) \in [1..l -> Byte]
    BY <1>1, BytesBase DEF Doubled
  <1>3. Doubled(b, n) \in Bytes /\ Len(Doubled(b, n)) = l
    BY <1>2, BytesAre, BytesBase
  <1> QED BY <1>1, <1>3 DEF Doubled

\* One more of them.
LEMMA SameNext ==
    ASSUME NEW b \in Byte, NEW n \in Nat
    PROVE  Same(b, n + 1) = Append(Same(b, n), b)
  <1>1. PICK a \in Bytes : a = Same(b, n) /\ Len(a) = n /\ \A i \in 1..n : a[i] = b
    BY SameIs
  <1>2. PICK c \in Bytes : c = Same(b, n + 1) /\ Len(c) = n + 1 /\ \A i \in 1..n + 1 : c[i] = b
    BY SameIs
  <1>3. PICK e : e = Append(a, b)
    OBVIOUS
  <1>4. e \in Bytes /\ Len(e) = n + 1 /\ e[n + 1] = b /\ \A i \in 1..n : e[i] = a[i]
    BY <1>1, <1>3, BytesGrow
  <1>5. ASSUME NEW i \in 1..n + 1 PROVE e[i] = c[i]
    <2>1. i \in 1..n \/ i = n + 1
      OBVIOUS
    <2> QED BY <1>1, <1>2, <1>4, <2>1
  <1>6. e = c
    BY <1>2, <1>4, <1>5, BytesEqual
  <1> QED BY <1>1, <1>2, <1>3, <1>6

LEMMA DoubledNext ==
    ASSUME NEW b \in Byte, NEW n \in Nat
    PROVE  Doubled(b, n + 1) = Doubled(b, n) \o <<b, 0>>
  <1>1. PICK a \in Bytes : /\ a = Doubled(b, n) /\ Len(a) = 2 * n
                           /\ \A i \in 1..2 * n : a[i] = IF i % 2 = 1 THEN b ELSE 0
    BY DoubledIs
  <1>2. PICK l \in Nat : l = 2 * n /\ 2 * (n + 1) = l + 2 /\ (l + 1) % 2 = 1 /\ (l + 2) % 2 = 0
    OBVIOUS
  <1>3. PICK c \in Bytes : /\ c = Doubled(b, n + 1) /\ Len(c) = l + 2
                           /\ \A i \in 1..l + 2 : c[i] = IF i % 2 = 1 THEN b ELSE 0
    <2>1. n + 1 \in Nat
      OBVIOUS
    <2>2. /\ Doubled(b, n + 1) \in Bytes /\ Len(Doubled(b, n + 1)) = 2 * (n + 1)
          /\ \A k \in 1..2 * (n + 1) : Doubled(b, n + 1)[k] = IF k % 2 = 1 THEN b ELSE 0
      BY <2>1, DoubledIs
    <2> QED BY <1>2, <2>2
  <1>4. PICK x \in Bytes : x = <<b, 0>> /\ Len(x) = 2 /\ x[1] = b /\ x[2] = 0
    <2>1. 0 \in Byte
      BY BytesBase
    <2>2. <<b, 0>> \in Bytes /\ Len(<<b, 0>>) = 2
      BY <2>1, TokensAre, Zenon
    <2> QED BY <2>2
  <1>5. PICK e : e = a \o x
    OBVIOUS
  <1>6. /\ e \in Bytes /\ Len(e) = l + 2
        /\ \A i \in 1..l : e[i] = a[i]
        /\ \A i \in 1..2 : e[l + i] = x[i]
    <2>1. /\ a \o x \in Bytes /\ Len(a \o x) = Len(a) + Len(x)
          /\ \A k \in 1..Len(a) : (a \o x)[k] = a[k]
          /\ \A k \in 1..Len(x) : (a \o x)[Len(a) + k] = x[k]
      BY BytesJoin
    <2>2. Len(a) = l /\ Len(x) = 2
      BY <1>1, <1>2, <1>4
    <2> QED BY <1>5, <2>1, <2>2
  <1>7. ASSUME NEW i \in 1..l + 2 PROVE e[i] = c[i]
    <2>1. i \in 1..l \/ i = l + 1 \/ i = l + 2
      BY <1>2
    <2>2. CASE i \in 1..l
      BY <1>1, <1>2, <1>3, <1>6, <2>2
    <2>3. CASE i = l + 1
      <3>1. e[l + 1] = b
        BY <1>4, <1>6
      <3> QED BY <1>2, <1>3, <2>3, <3>1
    <2>4. CASE i = l + 2
      <3>1. e[l + 2] = 0
        BY <1>4, <1>6
      <3> QED BY <1>2, <1>3, <2>4, <3>1
    <2> QED BY <2>1, <2>2, <2>3, <2>4
  <1>8. e = c
    BY <1>3, <1>6, <1>7, BytesEqual
  <1> QED BY <1>1, <1>3, <1>4, <1>5, <1>8

\* Joining bytes, then more.
LEMMA JoinMore ==
    ASSUME NEW a \in Bytes, NEW b \in Bytes, NEW c \in Bytes
    PROVE  (a \o b) \o c = a \o (b \o c)
  <1>1. a \in Seq(Byte) /\ b \in Seq(Byte) /\ c \in Seq(Byte)
    BY BytesBase
  <1> QED BY <1>1, ConcatAssociative

\* The same as a name, for the places where the equation itself is too much.
Regroups(a, b, c) == (a \o b) \o c = a \o (b \o c)

\* How three runs of bytes are grouped makes no difference.
LEMMA JoinRegroups ==
    ASSUME NEW a \in Bytes, NEW b \in Bytes, NEW c \in Bytes
    PROVE  Regroups(a, b, c)
  BY JoinMore DEF Regroups

\* Appending a byte is joining it.
LEMMA AppendIs ==
    ASSUME NEW a \in Bytes, NEW b \in Byte
    PROVE  Append(a, b) = a \o <<b>>
  <1>1. a \in Seq(Byte)
    BY BytesBase
  <1> QED BY <1>1, AppendIsConcat

LEMMA JoinNone ==
    ASSUME NEW a \in Bytes
    PROVE  a \o <<>> = a
  <1>1. a \in Seq(Byte)
    BY BytesBase
  <1> QED BY <1>1, ConcatEmptySeq

\* Bytes that are no markers are read one after the other; ...
LEMMA UnRunLiterals ==
    ASSUME NEW e \in Bytes, NEW o \in Bytes, NEW b \in Byte, NEW n \in Nat, b # RunMark, UnRunsTo(e, o)
    PROVE  UnRunsTo(e \o Same(b, n), o \o Same(b, n))
  <1> DEFINE G == {k \in Nat : UnRunsTo(e \o Same(b, k), o \o Same(b, k))}
  <1>1. 0 \in G
    <2>1. Same(b, 0) = <<>>
      BY DEF Same
    <2>2. e \o Same(b, 0) = e /\ o \o Same(b, 0) = o
      BY <2>1, JoinNone
    <2> QED BY <2>2
  <1>2. ASSUME NEW k \in 0..n, k # n, k \in G PROVE k + 1 \in G
    <2>1. k \in Nat /\ k + 1 \in Nat
      OBVIOUS
    <2>2. PICK z \in Bytes : z = Same(b, k)
      BY <2>1, SameIs
    <2>3. PICK f, p, x : f = e \o z /\ p = o \o z /\ x = <<b>>
      OBVIOUS
    <2>4. f \in Bytes /\ p \in Bytes /\ x \in Bytes /\ Len(x) > 0
      BY <2>3, BytesJoin, TokensAre
    <2>5. UnRunsTo(f, p)
      BY <1>2, <2>2, <2>3
    <2>6. UnRunReads(x, p, Append(p, b))
      BY <2>3, <2>4, UnRunByte
    <2>7. UnRunsTo(f \o x, Append(p, b))
      BY <2>4, <2>5, <2>6, UnRunNext
    <2>8. Append(p, b) = p \o x
      BY <2>3, <2>4, AppendIs
    <2>9. Same(b, k + 1) = z \o x
      BY <2>1, <2>2, <2>3, SameNext, AppendIs
    <2>10. f \o x = e \o (z \o x) /\ p \o x = o \o (z \o x)
      <3>1. (e \o z) \o x = e \o (z \o x) /\ (o \o z) \o x = o \o (z \o x)
        <4>1. z \in Bytes /\ x \in Bytes
          BY <2>2, <2>4
        <4>2. (e \o z) \o x = e \o (z \o x)
          BY <4>1, JoinMore, Zenon
        <4>3. (o \o z) \o x = o \o (z \o x)
          BY <4>1, JoinMore, Zenon
        <4> QED BY <4>2, <4>3
      <3> QED BY <2>3, <3>1, Zenon
    <2>11. UnRunsTo(e \o Same(b, k + 1), o \o Same(b, k + 1))
      BY <2>7, <2>8, <2>9, <2>10
    <2> QED BY <2>1, <2>11
  <1> HIDE DEF G
  <1>3. \A k \in 0..n : k \in G
    BY <1>1, <1>2, CountingUp
  <1>4. n \in G
    BY <1>3
  <1> QED BY <1>4 DEF G

\* ... markers are, with the 0 behind each.
LEMMA UnRunMarks ==
    ASSUME NEW e \in Bytes, NEW o \in Bytes, NEW n \in Nat, UnRunsTo(e, o)
    PROVE  UnRunsTo(e \o Doubled(RunMark, n), o \o Same(RunMark, n))
  <1> DEFINE G == {k \in Nat : UnRunsTo(e \o Doubled(RunMark, k), o \o Same(RunMark, k))}
  <1>0. RunMark \in Byte
    BY BytesBase
  <1>1. 0 \in G
    <2>1. Same(RunMark, 0) = <<>> /\ Doubled(RunMark, 0) = <<>>
      BY DEF Same, Doubled
    <2>2. e \o Doubled(RunMark, 0) = e /\ o \o Same(RunMark, 0) = o
      BY <2>1, JoinNone
    <2> QED BY <2>2
  <1>2. ASSUME NEW k \in 0..n, k # n, k \in G PROVE k + 1 \in G
    <2>1. k \in Nat /\ k + 1 \in Nat
      OBVIOUS
    <2>2. PICK z \in Bytes, y \in Bytes : z = Same(RunMark, k) /\ y = Doubled(RunMark, k)
      BY <1>0, <2>1, SameIs, DoubledIs
    <2>3. PICK f, p, x : f = e \o y /\ p = o \o z /\ x = <<RunMark, 0>>
      OBVIOUS
    <2>4. f \in Bytes /\ p \in Bytes /\ x \in Bytes /\ Len(x) > 0
      <3>1. 0 \in Byte
        BY BytesBase
      <3> QED BY <1>0, <2>3, <3>1, BytesJoin, TokensAre
    <2>5. UnRunsTo(f, p)
      BY <1>2, <2>2, <2>3
    <2>6. UnRunReads(x, p, Append(p, RunMark))
      BY <2>3, <2>4, UnRunMark
    <2>7. UnRunsTo(f \o x, Append(p, RunMark))
      BY <2>4, <2>5, <2>6, UnRunNext
    <2>8. Append(p, RunMark) = p \o <<RunMark>> /\ <<RunMark>> \in Bytes
      BY <1>0, <2>4, AppendIs, TokensAre
    <2>9. Same(RunMark, k + 1) = z \o <<RunMark>> /\ Doubled(RunMark, k + 1) = y \o x
      BY <1>0, <2>1, <2>2, <2>3, SameNext, DoubledNext, AppendIs
    <2>10. f \o x = e \o (y \o x) /\ p \o <<RunMark>> = o \o (z \o <<RunMark>>)
      <3>1. (e \o y) \o x = e \o (y \o x)
        <4>1. y \in Bytes /\ x \in Bytes
          BY <2>2, <2>4
        <4>2. Regroups(e, y, x)
          BY <4>1, JoinRegroups
        <4> QED BY <4>2 DEF Regroups
      <3>2. (o \o z) \o <<RunMark>> = o \o (z \o <<RunMark>>)
        <4>1. PICK r \in Bytes : r = <<RunMark>>
          BY <2>8
        <4>2. z \in Bytes
          BY <2>2
        <4>3. (o \o z) \o r = o \o (z \o r)
          <5>1. Regroups(o, z, r)
            BY <4>1, <4>2, JoinRegroups
          <5> QED BY <5>1 DEF Regroups
        <4> QED BY <4>1, <4>3
      <3> QED BY <2>3, <3>1, <3>2, Zenon
    <2>11. UnRunsTo(e \o Doubled(RunMark, k + 1), o \o Same(RunMark, k + 1))
      BY <2>7, <2>8, <2>9, <2>10
    <2> QED BY <2>1, <2>11
  <1> HIDE DEF G
  <1>3. \A k \in 0..n : k \in G
    BY <1>1, <1>2, CountingUp
  <1>4. n \in G
    BY <1>3
  <1> QED BY <1>4 DEF G

\* One step of the encoder keeps what was read in step with what is written.
LEMMA RunStepReads ==
    ASSUME NEW s \in Bytes, NEW r \in Coded(s), UnRunsTo(r.out, Upto(s, r.at))
    PROVE  UnRunsTo(RunStep(s, r).out, Upto(s, RunStep(s, r).at))
  <1>1. CASE r.at > Len(s)
    <2>1. RunStep(s, r) = r
      BY <1>1 DEF RunStep
    <2> QED BY <2>1
  <1>2. CASE ~(r.at > Len(s))
    <2>1. PICK i \in 1..Len(s) : i = r.at
      BY <1>2, BytesBase DEF Coded
    <2>2. PICK n \in 1..Longest : /\ n = RunLength(s, i) /\ i + n <= Len(s) + 1
                                  /\ \A k \in 0..n - 1 : s[i + k] = s[i]
      BY RunLengthIs
    <2>3. PICK b \in Byte : b = s[i]
      BY BytesBase
    <2>4. PICK e \in Bytes : e = r.out
      BY DEF Coded
    <2>5. PICK q : q = RunStep(s, r)
      OBVIOUS
    <2>6. q.at = i + n /\ q.out = e \o EncodedRun(b, n)
      <3>1. q = [at |-> i + n, out |-> e \o EncodedRun(b, n)]
        BY <1>2, <2>1, <2>2, <2>3, <2>4, <2>5 DEF RunStep
      <3> QED BY <3>1
    <2>7. n \in Nat /\ i \in 1..Len(s) + 1
      BY BytesBase
    <2>8. PICK o \in Bytes : o = Upto(s, i)
      BY <2>7, UptoIs
    <2>9. UnRunsTo(e, o)
      BY <2>1, <2>4, <2>8
    <2>10. Upto(s, i + n) = o \o Same(b, n)
      BY <2>2, <2>3, <2>7, <2>8, UptoRun
    <2>11. UnRunsTo(e \o EncodedRun(b, n), o \o Same(b, n))
      <3>1. CASE n >= Threshold
        <4>1. PICK x : x = <<RunMark, n, b>>
          OBVIOUS
        <4>2. x \in Bytes /\ Len(x) > 0
          <5>1. n \in Byte /\ RunMark \in Byte
            BY BytesBase
          <5> QED BY <4>1, <5>1, TokensAre
        <4>3. UnRunReads(x, o, o \o Same(b, n))
          BY <4>1, UnRunRun
        <4>4. EncodedRun(b, n) = x
          BY <3>1, <4>1 DEF EncodedRun
        <4> QED BY <2>9, <4>2, <4>3, <4>4, UnRunNext
      <3>2. CASE ~(n >= Threshold) /\ b = RunMark
        <4>1. EncodedRun(b, n) = Doubled(RunMark, n)
          BY <3>2 DEF EncodedRun, Doubled
        <4>2. UnRunsTo(e \o Doubled(RunMark, n), o \o Same(RunMark, n))
          BY <2>7, <2>9, UnRunMarks
        <4> QED BY <3>2, <4>1, <4>2
      <3>3. CASE ~(n >= Threshold) /\ b # RunMark
        <4>1. EncodedRun(b, n) = Same(b, n)
          BY <3>3 DEF EncodedRun
        <4>2. UnRunsTo(e \o Same(b, n), o \o Same(b, n))
          BY <2>7, <2>9, <3>3, UnRunLiterals
        <4> QED BY <4>1, <4>2
      <3> QED BY <3>1, <3>2, <3>3
    <2> QED BY <2>5, <2>6, <2>10, <2>11
  <1> QED BY <1>1, <1>2

\* The encoder reaches the end.
LEMMA RunsEnd ==
    ASSUME NEW s \in Bytes, NEW h, RunsThrough(h, s)
    PROVE  /\ h[Len(s)].at = Len(s) + 1 /\ h[Len(s)].out \in Bytes
           /\ UnRunsTo(h[Len(s)].out, s)
  <1>1. PICK l \in Nat : l = Len(s)
    BY BytesBase
  <1> DEFINE G == {k \in 0..l : h[k].at >= k + 1 /\ UnRunsTo(h[k].out, Upto(s, h[k].at))}
  <1>2. \A k \in 0..l : h[k] \in Coded(s)
    BY <1>1 DEF RunsThrough
  <1>3. 0 \in G
    <2>1. h[0].at = 1 /\ h[0].out = <<>>
      BY DEF RunsThrough, Start
    <2>2. UnRunsTo(<<>>, Upto(s, 1))
      BY UptoEnds, NothingYet
    <2> QED BY <2>1, <2>2
  <1>4. ASSUME NEW k \in 0..l, k # l, k \in G PROVE k + 1 \in G
    <2>1. PICK r \in Coded(s) : r = h[k]
      BY <1>2
    <2>2. h[k + 1] = RunStep(s, r)
      BY <1>1, <1>4, <2>1 DEF RunsThrough
    <2>3. r.at >= k + 1 /\ UnRunsTo(r.out, Upto(s, r.at))
      BY <1>4, <2>1
    <2>4. UnRunsTo(RunStep(s, r).out, Upto(s, RunStep(s, r).at))
      BY <2>3, RunStepReads
    <2>5. k + 1 \in 0..l
      BY <1>4
    <2>6. RunStep(s, r).at >= (k + 1) + 1
      <3>1. r.at \in 1..l + 1
        BY <1>1 DEF Coded
      <3>2. CASE r.at > l
        <4>1. RunStep(s, r) = r
          BY <1>1, <3>2 DEF RunStep
        <4> QED BY <2>5, <3>1, <3>2, <4>1
      <3>3. CASE ~(r.at > l)
        <4>1. PICK i \in 1..Len(s) : i = r.at
          BY <1>1, <3>1, <3>3
        <4>2. PICK n \in 1..Longest : n = RunLength(s, i)
          BY RunLengthIs
        <4>3. RunStep(s, r) = [at |-> i + n, out |-> r.out \o EncodedRun(s[i], n)]
          BY <1>1, <3>3, <4>1, <4>2 DEF RunStep
        <4>4. RunStep(s, r).at = i + n
          BY <4>3
        <4>5. n >= 1 /\ n \in Nat /\ i \in Nat
          BY BytesBase
        <4> QED BY <2>3, <4>1, <4>4, <4>5
      <3> QED BY <3>2, <3>3
    <2> QED BY <2>2, <2>4, <2>5, <2>6
  <1> HIDE DEF G
  <1>5. \A k \in 0..l : k \in G
    BY <1>3, <1>4, CountingUp
  <1>6. l \in 0..l
    OBVIOUS
  <1>7. h[l].at >= l + 1 /\ UnRunsTo(h[l].out, Upto(s, h[l].at))
    BY <1>5, <1>6 DEF G
  <1>8. h[l].at \in 1..l + 1 /\ h[l].out \in Bytes
    BY <1>1, <1>2, <1>6 DEF Coded
  <1>9. h[l].at = l + 1
    BY <1>7, <1>8
  <1> QED BY <1>1, <1>7, <1>8, <1>9, UptoEnds

\* The decoder, at the end, stays there.
LEMMA UnRunEnds ==
    ASSUME NEW t \in Bytes, NEW o, UnRunsTo(t, o)
    PROVE  UnRun(t) = o
  <1>1. PICK l \in Nat : l = Len(t)
    BY BytesBase
  <1>2. PICK g : UnRunsThrough(g, t) /\ UnRun(t) = g[l].out
    BY <1>1, UnRunGoes
  <1>3. Extends(t, t)
    BY BytesBase DEF Extends
  <1>4. PICK k \in 0..l : g[k] = [at |-> l + 1, out |-> o]
    BY <1>1, <1>2, <1>3 DEF UnRunsTo
  <1> DEFINE G == {q \in Nat : k + q <= l => g[k + q] = g[k]}
  <1>5. 0 \in G
    OBVIOUS
  <1>6. ASSUME NEW q \in 0..l - k, q # l - k, q \in G PROVE q + 1 \in G
    <2>1. k + q \in 0..l /\ k + q # l /\ k + (q + 1) = (k + q) + 1 /\ q + 1 \in Nat /\ k + q <= l
      BY <1>6
    <2>2. g[k + q] = g[k]
      BY <1>6, <2>1
    <2>3. g[(k + q) + 1] = UnRunStep(t, g[k + q])
      BY <1>1, <1>2, <2>1 DEF UnRunsThrough
    <2>4. g[k].at = l + 1 /\ g[k].at > Len(t)
      BY <1>1, <1>4
    <2>5. UnRunStep(t, g[k]) = g[k]
      BY <2>4 DEF UnRunStep
    <2>6. g[k + (q + 1)] = g[k]
      BY <2>1, <2>2, <2>3, <2>5
    <2> QED BY <2>1, <2>6
  <1> HIDE DEF G
  <1>7. l - k \in Nat /\ l - k \in 0..l - k /\ k + (l - k) = l
    OBVIOUS
  <1>8. \A q \in 0..l - k : q \in G
    BY <1>5, <1>6, <1>7, CountingUp
  <1>9. g[l] = g[k]
    BY <1>7, <1>8 DEF G
  <1> QED BY <1>2, <1>4, <1>9

\* decompress_rle reverses compress_rle.
LEMMA UnRunsBack ==
    ASSUME NEW s \in Bytes
    PROVE  AsRuns(s) \in Bytes /\ UnRun(AsRuns(s)) = s
  <1>1. PICK h : RunsThrough(h, s) /\ AsRuns(s) = h[Len(s)].out
    BY RunsGoes
  <1>2. AsRuns(s) \in Bytes /\ UnRunsTo(AsRuns(s), s)
    BY <1>1, RunsEnd
  <1> QED BY <1>2, UnRunEnds

-----------------------------------------------------------------------------
(* The archiver: matches are put back *)

\* A match, copied from what comes before it, is what comes there.
LEMMA UptoCopied ==
    ASSUME NEW s \in Bytes, NEW j \in 1..Len(s), NEW d \in 1..j - 1, NEW n \in Nat, j + n <= Len(s) + 1,
           \A k \in 0..n - 1 : s[j - d + k] = s[j + k]
    PROVE  Copied(Upto(s, j), d, n) = Upto(s, j + n)
  <1>1. PICK l \in Nat : l = Len(s)
    BY BytesBase
  <1>2. j \in 1..Len(s) + 1 /\ j \in 1..l /\ j \in Nat /\ j - 1 \in Nat
    BY <1>1
  <1>3. PICK u \in Bytes : u = Upto(s, j) /\ Len(u) = j - 1 /\ \A k \in 1..j - 1 : u[k] = s[k]
    BY <1>2, UptoIs
  <1>4. d \in 1..Len(u)
    BY <1>3
  <1>5. PICK c : c = Copied(u, d, n)
    OBVIOUS
  <1>6. /\ c \in Bytes /\ Len(c) = j - 1 + n
        /\ \A i \in 1..j - 1 : c[i] = u[i]
        /\ \A i \in (j - 1) + 1..(j - 1) + n : c[i] = c[i - d]
    <2>1. /\ Copied(u, d, n) \in Bytes /\ Len(Copied(u, d, n)) = Len(u) + n
          /\ \A i \in 1..Len(u) : Copied(u, d, n)[i] = u[i]
          /\ \A i \in Len(u) + 1..Len(u) + n : Copied(u, d, n)[i] = Copied(u, d, n)[i - d]
      BY <1>4, CopiedIs
    <2> QED BY <1>3, <1>5, <2>1
  <1> DEFINE Wrong == {i \in 1..j - 1 + n : c[i] # s[i]}
  <1>7. ASSUME Wrong # {} PROVE FALSE
    <2>1. Wrong \in SUBSET Nat
      BY <1>2
    <2>2. \A i \in Wrong : i \in 1..j - 1 + n /\ c[i] # s[i]
      OBVIOUS
    <2>3. \A i \in 1..j - 1 + n : i \notin Wrong => c[i] = s[i]
      OBVIOUS
    <2> HIDE DEF Wrong
    <2>4. PICK i \in Wrong : \A h \in Wrong : i <= h
      BY <1>7, <2>1, LeastExists
    <2>5. i \in 1..j - 1 + n /\ c[i] # s[i]
      BY <2>2
    <2>6. ~(i \in 1..j - 1)
      BY <1>3, <1>6, <2>5
    <2>7. i \in (j - 1) + 1..(j - 1) + n /\ i - d \in 1..j - 1 + n /\ i - d < i
      BY <1>2, <2>5, <2>6
    <2>8. ~(i <= i - d)
      BY <2>7
    <2>9. i - d \notin Wrong
      BY <2>4, <2>8
    <2>10. c[i - d] = s[i - d] /\ c[i] = c[i - d]
      BY <1>6, <2>3, <2>7, <2>9
    <2>11. PICK k \in 0..n - 1 : k = i - j /\ j - d + k = i - d /\ j + k = i
      BY <1>2, <2>7
    <2>12. s[i - d] = s[i]
      BY <2>11
    <2> QED BY <2>5, <2>10, <2>12
  <1>8. \A i \in 1..j - 1 + n : c[i] = s[i]
    BY <1>7
  <1>9. c = Upto(s, j + n)
    BY <1>2, <1>6, <1>8, UptoLater
  <1> QED BY <1>3, <1>5, <1>9

\* What of a distance of two bytes the two bytes are.
LEMMA DistanceIs ==
    ASSUME NEW d \in Nat, NEW q, NEW m, d >= ByteBase, d < ByteBase * ByteBase,
           q = d \div ByteBase, m = d % ByteBase
    PROVE  q \in Byte /\ m \in Byte /\ q # 0 /\ q * ByteBase + m = d
  <1>1. PICK B \in Nat : B = ByteBase /\ B > 0
    BY BytesBase
  <1>2. q = d \div B /\ m = d % B
    BY <1>1
  <1>3. q \in Int /\ m \in 0..B - 1 /\ d = B * q + m
    BY <1>1, <1>2
  <1>4. q >= 1
    <2>1. ASSUME q <= 0 PROVE FALSE
      <3>1. B * q <= 0
        BY <1>1, <1>3, <2>1
      <3> QED BY <1>1, <1>3, <3>1
    <2> QED BY <1>3, <2>1
  <1>5. q < B
    <2>1. ASSUME q >= B PROVE FALSE
      <3>1. B * q >= B * B
        BY <1>1, <1>3, <2>1
      <3>2. d < B * B
        BY <1>1
      <3> QED BY <1>1, <1>3, <3>1, <3>2
    <2> QED BY <1>1, <1>3, <2>1
  <1>6. q * B + m = d
    BY <1>1, <1>3
  <1>7. q \in 0..B - 1
    BY <1>3, <1>4, <1>5
  <1>8. Byte = 0..B - 1
    BY <1>1 DEF Byte
  <1>9. q \in Byte /\ m \in Byte /\ q # 0
    BY <1>3, <1>4, <1>7, <1>8
  <1> QED BY <1>1, <1>6, <1>9

\* One step of the encoder keeps what was read in step with what is written.
LEMMA MatchStepReads ==
    ASSUME NEW s \in Bytes, NEW r \in Coded(s), ~NearMatch(s), UnMatchesTo(r.out, Upto(s, r.at))
    PROVE  UnMatchesTo(MatchStep(s, r).out, Upto(s, MatchStep(s, r).at))
  <1>1. CASE r.at > Len(s)
    <2>1. MatchStep(s, r) = r
      BY <1>1 DEF MatchStep
    <2> QED BY <2>1
  <1>2. CASE ~(r.at > Len(s))
    <2>1. PICK j \in 1..Len(s) : j = r.at
      BY <1>2, BytesBase DEF Coded
    <2>2. PICK b \in Byte : b = s[j]
      BY BytesBase
    <2>3. PICK e \in Bytes : e = r.out
      BY DEF Coded
    <2>4. PICK q : q = MatchStep(s, r)
      OBVIOUS
    <2>5. j \in 1..Len(s) + 1
      BY BytesBase
    <2>6. PICK o \in Bytes : o = Upto(s, j) /\ Len(o) = j - 1
      BY <2>5, UptoIs
    <2>7. UnMatchesTo(e, o)
      BY <2>1, <2>3, <2>6
    <2>8. PICK m : m = Match(s, j)
      OBVIOUS
    <2>9. CASE m.len = 0
      <3>1. q.at = j + 1 /\ q.out = e \o Escape(MatchMark, b)
        <4>1. q = [at |-> j + 1, out |-> e \o Escape(MatchMark, b)]
          BY <1>2, <2>1, <2>2, <2>3, <2>4, <2>8, <2>9 DEF MatchStep
        <4> QED BY <4>1
      <3>2. Upto(s, j + 1) = Append(o, b)
        BY <2>2, <2>6, UptoNext
      <3>3. UnMatchesTo(e \o Escape(MatchMark, b), Append(o, b))
        <4>1. CASE b = MatchMark
          <5>1. PICK x : x = <<MatchMark, 0>>
            OBVIOUS
          <5>2. x \in Bytes /\ Len(x) > 0
            <6>1. MatchMark \in Byte /\ 0 \in Byte
              BY BytesBase
            <6> QED BY <5>1, <6>1, TokensAre
          <5>3. UnMatchReads(x, o, Append(o, MatchMark))
            BY <5>1, UnMatchMark
          <5>4. Escape(MatchMark, b) = x
            BY <4>1, <5>1 DEF Escape
          <5>5. UnMatchesTo(e \o x, Append(o, MatchMark))
            BY <2>7, <5>2, <5>3, UnMatchNext
          <5> QED BY <4>1, <5>4, <5>5
        <4>2. CASE b # MatchMark
          <5>1. PICK x : x = <<b>>
            OBVIOUS
          <5>2. x \in Bytes /\ Len(x) > 0
            BY <5>1, TokensAre
          <5>3. UnMatchReads(x, o, Append(o, b))
            BY <4>2, <5>1, UnMatchByte
          <5>4. Escape(MatchMark, b) = x
            BY <4>2, <5>1 DEF Escape
          <5>5. UnMatchesTo(e \o x, Append(o, b))
            BY <2>7, <5>2, <5>3, UnMatchNext
          <5> QED BY <5>4, <5>5
        <4> QED BY <4>1, <4>2
      <3> QED BY <2>4, <3>1, <3>2, <3>3
    <2>10. CASE m.len # 0
      <3>1. /\ m.len \in 1..Longest /\ m.distance \in 1..j - 1 /\ m.distance < Window
            /\ j + m.len <= Len(s) + 1
            /\ \A k \in 0..m.len - 1 : s[j - m.distance + k] = s[j + k]
        BY <2>8, <2>10, MatchIs
      <3>2. PICK n \in 1..Longest, d \in 1..j - 1 : n = m.len /\ d = m.distance
        BY <3>1
      <3>3. /\ d < Window /\ j + n <= Len(s) + 1 /\ n \in Nat
            /\ \A k \in 0..n - 1 : s[j - d + k] = s[j + k]
        BY <3>1, <3>2, BytesBase
      <3>4. d \in Nat /\ d >= ByteBase /\ d < ByteBase * ByteBase
        <4>1. n > 0 /\ d \in Nat /\ ByteBase \in Nat /\ Window \in Nat /\ Window <= ByteBase * ByteBase
          BY <2>5, BytesBase, ArchiverAssumption
        <4>2. ~(d < ByteBase)
          <5>1. j \in DOMAIN s
            BY BytesBase
          <5> QED BY <2>8, <3>2, <4>1, <5>1 DEF NearMatch
        <4> QED BY <3>3, <4>1, <4>2
      <3>5. PICK high, low : high = d \div ByteBase /\ low = d % ByteBase
        OBVIOUS
      <3>6. high \in Byte /\ low \in Byte /\ high # 0 /\ high * ByteBase + low = d
        BY <3>4, <3>5, DistanceIs
      <3>7. high * ByteBase + low <= Len(o)
        <4>1. d <= j - 1
          BY <2>5
        <4> QED BY <2>6, <3>6, <4>1
      <3>8. PICK x : x = <<MatchMark, high, low, n>>
        OBVIOUS
      <3>9. x \in Bytes /\ Len(x) > 0
        <4>1. MatchMark \in Byte /\ n \in Byte
          BY BytesBase
        <4> QED BY <3>6, <3>8, <4>1, TokensAre
      <3>10. UnMatchReads(x, o, Copied(o, d, n))
        <4>1. UnMatchReads(x, o, Copied(o, high * ByteBase + low, n))
          BY <3>6, <3>7, <3>8, UnMatchCopy
        <4> QED BY <3>6, <4>1
      <3>11. UnMatchesTo(e \o x, Copied(o, d, n))
        BY <2>7, <3>9, <3>10, UnMatchNext
      <3>12. Copied(o, d, n) = Upto(s, j + n)
        BY <2>6, <3>3, UptoCopied
      <3>13. q.at = j + n /\ q.out = e \o x
        <4>1. q = [at |-> j + n, out |-> e \o x]
          BY <1>2, <2>1, <2>3, <2>4, <2>8, <2>10, <3>2, <3>5, <3>8 DEF MatchStep
        <4> QED BY <4>1
      <3> QED BY <2>4, <3>11, <3>12, <3>13
    <2> QED BY <2>9, <2>10
  <1> QED BY <1>1, <1>2

\* The encoder reaches the end.
LEMMA MatchesEnd ==
    ASSUME NEW s \in Bytes, NEW h, MatchesThrough(h, s), ~NearMatch(s)
    PROVE  /\ h[Len(s)].at = Len(s) + 1 /\ h[Len(s)].out \in Bytes
           /\ UnMatchesTo(h[Len(s)].out, s)
  <1>1. PICK l \in Nat : l = Len(s)
    BY BytesBase
  <1> DEFINE G == {k \in 0..l : h[k].at >= k + 1 /\ UnMatchesTo(h[k].out, Upto(s, h[k].at))}
  <1>2. \A k \in 0..l : h[k] \in Coded(s)
    BY <1>1 DEF MatchesThrough
  <1>3. 0 \in G
    <2>1. h[0].at = 1 /\ h[0].out = <<>>
      BY DEF MatchesThrough, Start
    <2>2. UnMatchesTo(<<>>, Upto(s, 1))
      BY UptoEnds, NothingYet
    <2> QED BY <2>1, <2>2
  <1>4. ASSUME NEW k \in 0..l, k # l, k \in G PROVE k + 1 \in G
    <2>1. PICK r \in Coded(s) : r = h[k]
      BY <1>2
    <2>2. h[k + 1] = MatchStep(s, r)
      BY <1>1, <1>4, <2>1 DEF MatchesThrough
    <2>3. r.at >= k + 1 /\ UnMatchesTo(r.out, Upto(s, r.at))
      BY <1>4, <2>1
    <2>4. UnMatchesTo(MatchStep(s, r).out, Upto(s, MatchStep(s, r).at))
      BY <2>3, MatchStepReads
    <2>5. k + 1 \in 0..l
      BY <1>4
    <2>6. MatchStep(s, r).at >= (k + 1) + 1
      <3>1. r.at \in 1..l + 1
        BY <1>1 DEF Coded
      <3>2. CASE r.at > l
        <4>1. MatchStep(s, r) = r
          BY <1>1, <3>2 DEF MatchStep
        <4> QED BY <2>5, <3>1, <3>2, <4>1
      <3>3. CASE ~(r.at > l)
        <4>1. PICK i \in 1..Len(s) : i = r.at
          BY <1>1, <3>1, <3>3
        <4>2. PICK m : m = Match(s, i)
          OBVIOUS
        <4>3. m.len = 0 \/ m.len \in 1..Longest
          BY <4>2, MatchIs
        <4>4. MatchStep(s, r).at = IF m.len = 0 THEN i + 1 ELSE i + m.len
          BY <1>1, <3>3, <4>1, <4>2 DEF MatchStep
        <4>5. PICK n : n = m.len
          OBVIOUS
        <4>6. (n = 0 \/ (n >= 1 /\ n \in Nat)) /\ i \in Nat
          BY <4>3, <4>5, BytesBase
        <4>7. MatchStep(s, r).at = IF n = 0 THEN i + 1 ELSE i + n
          BY <4>4, <4>5
        <4> QED BY <2>3, <4>1, <4>6, <4>7
      <3> QED BY <3>2, <3>3
    <2> QED BY <2>2, <2>4, <2>5, <2>6
  <1> HIDE DEF G
  <1>5. \A k \in 0..l : k \in G
    BY <1>3, <1>4, CountingUp
  <1>6. l \in 0..l
    OBVIOUS
  <1>7. h[l].at >= l + 1 /\ UnMatchesTo(h[l].out, Upto(s, h[l].at))
    BY <1>5, <1>6 DEF G
  <1>8. h[l].at \in 1..l + 1 /\ h[l].out \in Bytes
    BY <1>1, <1>2, <1>6 DEF Coded
  <1>9. h[l].at = l + 1
    BY <1>7, <1>8
  <1> QED BY <1>1, <1>7, <1>8, <1>9, UptoEnds

\* The decoder, at the end, stays there.
LEMMA UnMatchEnds ==
    ASSUME NEW t \in Bytes, NEW o, UnMatchesTo(t, o)
    PROVE  UnMatch(t) = o
  <1>1. PICK l \in Nat : l = Len(t)
    BY BytesBase
  <1>2. PICK g : UnMatchesThrough(g, t) /\ UnMatch(t) = g[l].out
    BY <1>1, UnMatchGoes
  <1>3. Extends(t, t)
    BY BytesBase DEF Extends
  <1>4. PICK k \in 0..l : g[k] = [at |-> l + 1, out |-> o]
    BY <1>1, <1>2, <1>3 DEF UnMatchesTo
  <1> DEFINE G == {q \in Nat : k + q <= l => g[k + q] = g[k]}
  <1>5. 0 \in G
    OBVIOUS
  <1>6. ASSUME NEW q \in 0..l - k, q # l - k, q \in G PROVE q + 1 \in G
    <2>1. k + q \in 0..l /\ k + q # l /\ k + (q + 1) = (k + q) + 1 /\ q + 1 \in Nat /\ k + q <= l
      BY <1>6
    <2>2. g[k + q] = g[k]
      BY <1>6, <2>1
    <2>3. g[(k + q) + 1] = UnMatchStep(t, g[k + q])
      BY <1>1, <1>2, <2>1 DEF UnMatchesThrough
    <2>4. g[k].at = l + 1 /\ g[k].at > Len(t)
      BY <1>1, <1>4
    <2>5. UnMatchStep(t, g[k]) = g[k]
      BY <2>4 DEF UnMatchStep
    <2>6. g[k + (q + 1)] = g[k]
      BY <2>1, <2>2, <2>3, <2>5
    <2> QED BY <2>1, <2>6
  <1> HIDE DEF G
  <1>7. l - k \in Nat /\ l - k \in 0..l - k /\ k + (l - k) = l
    OBVIOUS
  <1>8. \A q \in 0..l - k : q \in G
    BY <1>5, <1>6, <1>7, CountingUp
  <1>9. g[l] = g[k]
    BY <1>7, <1>8 DEF G
  <1> QED BY <1>2, <1>4, <1>9


\* decompress_lz77 reverses compress_lz77, but for matches that are too near.
LEMMA UnMatchesBack ==
    ASSUME NEW s \in Bytes
    PROVE  /\ AsMatches(s) \in Bytes
           /\ ~NearMatch(s) => UnMatch(AsMatches(s)) = s
  <1>1. PICK h : MatchesThrough(h, s) /\ AsMatches(s) = h[Len(s)].out
    BY MatchesGoes
  <1>2. AsMatches(s) \in Bytes
    <2>1. Len(s) \in 0..Len(s)
      BY BytesBase
    <2>2. h[Len(s)] \in Coded(s)
      BY <1>1, <2>1 DEF MatchesThrough
    <2> QED BY <1>1, <2>2 DEF Coded
  <1>3. ASSUME ~NearMatch(s) PROVE UnMatch(AsMatches(s)) = s
    <2>1. UnMatchesTo(AsMatches(s), s)
      BY <1>1, <1>3, MatchesEnd
    <2> QED BY <1>2, <2>1, UnMatchEnds
  <1> QED BY <1>2, <1>3

-----------------------------------------------------------------------------
(* The archiver: differences are added up again *)

\* A difference modulo ByteBase, added back.
LEMMA DifferenceBack ==
    ASSUME NEW a \in Byte, NEW b \in Byte, NEW c, c = (b - a) % ByteBase
    PROVE  c \in Byte /\ (a + c) % ByteBase = b
  <1>1. PICK B \in Nat : B = ByteBase /\ B > 0
    BY BytesBase
  <1>2. a \in Int /\ b \in Int /\ 0 <= a /\ a < B /\ 0 <= b /\ b < B
    BY <1>1 DEF Byte
  <1>3. c = (b - a) % B
    BY <1>1
  <1>4. c \in 0..B - 1 /\ (c = b - a \/ c = b - a + B)
    <2>1. CASE b >= a
      <3>1. b - a \in 0..B - 1
        BY <1>1, <1>2, <2>1
      <3>2. (b - a) % B = b - a
        BY <1>1, <3>1
      <3> QED BY <1>3, <3>1, <3>2
    <2>2. CASE ~(b >= a)
      <3>1. b - a + B \in 0..B - 1
        BY <1>1, <1>2, <2>2
      <3>2. (b - a) % B = b - a + B
        <4>1. PICK x \in Int : x = b - a
          BY <1>2
        <4>2. x < 0 /\ x + B >= 0
          BY <1>1, <1>2, <2>2, <4>1
        <4>3. x % B = x + B
          BY <1>1, <4>1, <4>2
        <4> QED BY <4>1, <4>3
      <3> QED BY <1>3, <3>1, <3>2
    <2> QED BY <2>1, <2>2
  <1>5. (a + c) % B = b
    <2>1. CASE c = b - a
      <3>1. a + c = b /\ b \in 0..B - 1
        BY <1>1, <1>2, <2>1
      <3>2. b % B = b
        BY <1>1, <3>1
      <3> QED BY <3>1, <3>2
    <2>2. CASE c = b - a + B
      <3>1. PICK x \in Nat : x = a + c /\ x = b + B /\ x < 2 * B
        BY <1>1, <1>2, <1>4, <2>2
      <3>2. B \in Nat \ {0} /\ ~(x < B) /\ x - B = b
        BY <1>1, <1>2, <3>1
      <3>3. x % B = x - B
        BY <3>1, <3>2, Remainder
      <3> QED BY <3>1, <3>2, <3>3
    <2> QED BY <1>4, <2>1, <2>2
  <1>6. c \in Byte
    BY <1>1, <1>4 DEF Byte
  <1> QED BY <1>1, <1>5, <1>6

\* compress_mathematical writes bytes.
LEMMA DeltasAre ==
    ASSUME NEW s \in Bytes
    PROVE  /\ Deltas(s) \in Bytes /\ Len(Deltas(s)) = Len(s)
           /\ \A i \in 1..Len(s) : Deltas(s)[i] = IF i = 1 THEN s[1] ELSE (s[i] - s[i - 1]) % ByteBase
  <1>1. PICK l \in Nat : l = Len(s) /\ DOMAIN s = 1..l
    BY BytesBase
  <1>2. \A i \in 1..l : s[i] \in Byte
    BY <1>1, BytesBase
  <1>3. \A i \in 1..l : Deltas(s)[i] = IF i = 1 THEN s[1] ELSE (s[i] - s[i - 1]) % ByteBase
    BY <1>1 DEF Deltas
  <1>4. ASSUME NEW i \in 1..l PROVE Deltas(s)[i] \in Byte
    <2>1. CASE i = 1
      BY <1>2, <1>3, <2>1
    <2>2. CASE i # 1
      <3>1. i - 1 \in 1..l
        BY <2>2
      <3>2. s[i] \in Byte /\ s[i - 1] \in Byte
        BY <1>2, <3>1
      <3>3. (s[i] - s[i - 1]) % ByteBase \in Byte
        BY <3>2, DifferenceBack
      <3> QED BY <1>3, <2>2, <3>3
    <2> QED BY <2>1, <2>2
  <1>5. Deltas(s) = [i \in 1..l |-> Deltas(s)[i]]
    BY <1>1 DEF Deltas
  <1>6. Deltas(s) \in [1..l -> Byte]
    BY <1>4, <1>5
  <1>7. Deltas(s) \in Bytes /\ Len(Deltas(s)) = l
    BY <1>6, BytesAre, BytesBase
  <1> QED BY <1>1, <1>3, <1>7

\* decompress_mathematical reverses compress_mathematical.
LEMMA UndeltaBack ==
    ASSUME NEW s \in Bytes
    PROVE  Undelta(Deltas(s)) = s
  <1>1. PICK t : t = Deltas(s)
    OBVIOUS
  <1>2. PICK l \in Nat : l = Len(s) /\ DOMAIN s = 1..l
    BY BytesBase
  <1>3. /\ t \in Bytes /\ Len(t) = l
        /\ \A i \in 1..l : t[i] = IF i = 1 THEN s[1] ELSE (s[i] - s[i - 1]) % ByteBase
    BY <1>1, <1>2, DeltasAre
  <1>4. DOMAIN t = 1..l
    BY <1>3, BytesBase
  <1> DEFINE Is(f) == f = [i \in 1..l |-> IF i = 1 THEN t[1] ELSE (f[i - 1] + t[i]) % ByteBase]
  <1>5. \A i \in 1..l : s[i] \in Byte
    BY <1>2, BytesBase
  <1>6. s = [i \in 1..l |-> s[i]]
    BY <1>2, BytesBase
  <1>7. \A i \in 1..l : s[i] = IF i = 1 THEN t[1] ELSE (s[i - 1] + t[i]) % ByteBase
    <2> TAKE i \in 1..l
    <2>1. CASE i = 1
      BY <1>3, <2>1
    <2>2. CASE i # 1
      <3>1. i - 1 \in 1..l
        BY <2>2
      <3>2. s[i] \in Byte /\ s[i - 1] \in Byte
        BY <1>5, <3>1
      <3>4. t[i] = (s[i] - s[i - 1]) % ByteBase
        BY <1>3, <2>2
      <3>5. s[i] = (s[i - 1] + t[i]) % ByteBase
        BY <3>2, <3>4, DifferenceBack
      <3> QED BY <2>2, <3>5, Zenon
    <2> QED BY <2>1, <2>2
  <1>8. Is(s)
    <2>1. s = [i \in 1..l |-> IF i = 1 THEN t[1] ELSE (s[i - 1] + t[i]) % ByteBase]
      BY <1>6, <1>7
    <2> QED BY <2>1
  <1>9. PICK f : f = CHOOSE g : Is(g)
    OBVIOUS
  <1>10. Is(f)
    BY <1>8, <1>9
  <1>11. Undelta(t) = [i \in 1..l |-> f[i]]
    BY <1>4, <1>9 DEF Undelta
  <1>12. \A i \in 1..l : f[i] = IF i = 1 THEN t[1] ELSE (f[i - 1] + t[i]) % ByteBase
    BY <1>10
  <1> DEFINE G == {k \in Nat : k + 1 <= l => f[k + 1] = s[k + 1]}
  <1> HIDE DEF Is
  <1>13. ASSUME l > 0 PROVE \A i \in 1..l : f[i] = s[i]
    <2>1. 0 \in G
      <3>1. 1 \in 1..l
        BY <1>13
      <3> QED BY <1>7, <1>12, <3>1
    <2>2. ASSUME NEW k \in 0..l - 1, k # l - 1, k \in G PROVE k + 1 \in G
      <3>1. PICK j \in 1..l : j = k + 1 /\ k + 1 <= l /\ j + 1 \in 1..l /\ j + 1 # 1 /\ (j + 1) - 1 = j /\ j \in Nat
        BY <2>2
      <3>2. f[j] = s[j]
        BY <2>2, <3>1
      <3>3. f[j + 1] = s[j + 1]
        <4>1. f[j + 1] = (f[j] + t[j + 1]) % ByteBase
          BY <1>12, <3>1
        <4>2. s[j + 1] = (s[j] + t[j + 1]) % ByteBase
          BY <1>7, <3>1
        <4> QED BY <3>2, <4>1, <4>2
      <3> QED BY <3>1, <3>3
    <2> HIDE DEF G
    <2>3. l - 1 \in Nat
      BY <1>13
    <2>4. \A k \in 0..l - 1 : k \in G
      BY <2>1, <2>2, <2>3, CountingUp
    <2>5. ASSUME NEW i \in 1..l PROVE f[i] = s[i]
      <3>1. PICK k \in 0..l - 1 : k + 1 = i
        BY <1>13
      <3>2. k \in G
        BY <2>4
      <3> QED BY <3>1, <3>2 DEF G
    <2> QED BY <2>5
  <1>14. \A i \in 1..l : f[i] = s[i]
    <2>1. CASE l > 0
      BY <1>13, <2>1
    <2>2. CASE ~(l > 0)
      BY <2>2
    <2> QED BY <2>1, <2>2
  <1> QED BY <1>1, <1>6, <1>11, <1>14

-----------------------------------------------------------------------------
(* The archiver: what is compressed comes back *)

\* Of no bytes comes nothing.
LEMMA NoneStays == Deltas(<<>>) = <<>> /\ AsMatches(<<>>) = <<>> /\ AsRuns(<<>>) = <<>>
  <1>1. <<>> \in Bytes /\ Len(<<>>) = 0
    BY BytesBase
  <1>2. Deltas(<<>>) = <<>>
    <2>1. Deltas(<<>>) \in Bytes /\ Len(Deltas(<<>>)) = 0
      BY <1>1, DeltasAre
    <2> QED BY <1>1, <2>1, BytesEqual
  <1>3. AsMatches(<<>>) = <<>>
    <2>1. PICK h : MatchesThrough(h, <<>>) /\ AsMatches(<<>>) = h[0].out
      BY <1>1, MatchesGoes
    <2> QED BY <2>1 DEF MatchesThrough, Start
  <1>4. AsRuns(<<>>) = <<>>
    <2>1. PICK h : RunsThrough(h, <<>>) /\ AsRuns(<<>>) = h[0].out
      BY <1>1, RunsGoes
    <2> QED BY <2>1 DEF RunsThrough, Start
  <1> QED BY <1>2, <1>3, <1>4

\* What compressing makes.
LEMMA CompressIs ==
    ASSUME NEW d \in Bytes, NEW methods \in SUBSET Methods
    PROVE  LET p == Compress(d, methods)
           IN  /\ p = [used |-> p.used, bytes |-> p.bytes, sum |-> d] /\ p.sum = d
               /\ p.used \subseteq Methods /\ p.bytes \in Bytes
  <1>1. PICK a \in Bytes : a = IF "MATH" \in methods THEN Deltas(d) ELSE d
    BY DeltasAre
  <1>2. PICK b \in Bytes : b = IF "LZ77" \in methods THEN AsMatches(a) ELSE a
    BY UnMatchesBack
  <1>3. PICK runs \in BOOLEAN : runs = ("RLE" \in methods /\ Len(b) <= Len(d))
    OBVIOUS
  <1>4. PICK c \in Bytes : c = IF runs THEN AsRuns(b) ELSE b
    BY UnRunsBack
  <1>5. PICK used : used = IF d = <<>> THEN {} ELSE (methods \ {"RLE"}) \cup (IF runs THEN {"RLE"} ELSE {})
    OBVIOUS
  <1>6. Compress(d, methods) = [used |-> used, bytes |-> c, sum |-> d]
    BY <1>1, <1>2, <1>3, <1>4, <1>5, Zenon DEF Compress
  <1>7. used \subseteq Methods
    BY <1>3, <1>5 DEF Methods
  <1> QED BY <1>6, <1>7

\* What decompressing what was compressed makes, if there is no near match.
LEMMA DecompressIs ==
    ASSUME NEW d \in Bytes, NEW methods \in SUBSET Methods
    PROVE  LET p == Compress(d, methods)
           IN  /\ Decompress(p) \in {d, Failed}
               /\ ~("LZ77" \in p.used /\ NearMatch(Staged(p))) => Decompress(p) = d
  <1>1. PICK p : p = Compress(d, methods)
    OBVIOUS
  <1>2. p.sum = d
    BY <1>1, CompressIs
  <1>3. Decompress(p) \in {d, Failed}
    BY <1>2 DEF Decompress
  <1>4. ASSUME ~("LZ77" \in p.used /\ NearMatch(Staged(p))) PROVE Decompress(p) = d
    <2>1. PICK a \in Bytes : a = IF "MATH" \in methods THEN Deltas(d) ELSE d
      BY DeltasAre
    <2>2. PICK b \in Bytes : b = IF "LZ77" \in methods THEN AsMatches(a) ELSE a
      BY UnMatchesBack
    <2>3. PICK runs \in BOOLEAN : runs = ("RLE" \in methods /\ Len(b) <= Len(d))
      OBVIOUS
    <2>4. PICK c \in Bytes : c = IF runs THEN AsRuns(b) ELSE b
      BY UnRunsBack
    <2>5. PICK used : used = IF d = <<>> THEN {} ELSE (methods \ {"RLE"}) \cup (IF runs THEN {"RLE"} ELSE {})
      OBVIOUS
    <2>6. p = [used |-> used, bytes |-> c, sum |-> d]
      BY <1>1, <2>1, <2>2, <2>3, <2>4, <2>5, Zenon DEF Compress
    <2>7. p.used = used /\ p.bytes = c
      BY <2>6
    <2>8. CASE d = <<>>
      <3>1. a = <<>>
        BY <2>1, <2>8, NoneStays
      <3>2. b = <<>>
        BY <2>2, <3>1, NoneStays
      <3>3. c = <<>>
        BY <2>4, <3>2, NoneStays
      <3>4. used = {}
        BY <2>5, <2>8
      <3> QED BY <1>2, <2>7, <2>8, <3>3, <3>4 DEF Decompress
    <2>9. CASE d # <<>>
      <3>1. /\ "RLE" \in used <=> runs
            /\ "LZ77" \in used <=> "LZ77" \in methods
            /\ "MATH" \in used <=> "MATH" \in methods
        BY <2>5, <2>9
      <3>2. b = IF "RLE" \in used THEN UnRun(c) ELSE c
        BY <2>4, <3>1, UnRunsBack
      <3>3. a = IF "LZ77" \in used THEN UnMatch(b) ELSE b
        <4>1. CASE "LZ77" \in methods
          <5>1. Staged(p) = a
            BY <1>2, <2>1, <2>7, <3>1 DEF Staged
          <5>2. ~NearMatch(a)
            BY <1>4, <2>7, <3>1, <4>1, <5>1
          <5> QED BY <2>2, <3>1, <4>1, <5>2, UnMatchesBack
        <4>2. CASE "LZ77" \notin methods
          BY <2>2, <3>1, <4>2
        <4> QED BY <4>1, <4>2
      <3>4. d = IF "MATH" \in used THEN Undelta(a) ELSE a
        BY <2>1, <3>1, UndeltaBack
      <3>5. b # Failed /\ a # Failed
        BY NotFailed
      <3> QED BY <1>2, <2>7, <3>2, <3>3, <3>4, <3>5 DEF Decompress
    <2> QED BY <2>8, <2>9
  <1> QED BY <1>1, <1>3, <1>4

-----------------------------------------------------------------------------
(* The archiver: the file of an archive *)

\* What is in a cell: the header, some of the table, the header of a file, or a byte.
Cell == {"header", "table"} \cup Byte \cup {Compress(d, Methods) : d \in Filed}

\* What is put in an archive is cells.
LEMMA BlobIs ==
    ASSUME NEW d \in Filed
    PROVE  LET p == Compress(d, Methods)
           IN  /\ d \in Bytes /\ p.bytes \in Bytes
               /\ Blob(p) \in Seq(Cell) /\ Len(Blob(p)) = 1 + Len(p.bytes) /\ Len(Blob(p)) \in Nat
               /\ Blob(p)[1] = p
               /\ \A i \in 1..Len(p.bytes) : Blob(p)[1 + i] = p.bytes[i]
  <1>1. d \in Bytes /\ Methods \in SUBSET Methods
    BY ArchiverAssumption DEF Bytes
  <1>2. PICK p : p = Compress(d, Methods)
    OBVIOUS
  <1>3. p.bytes \in Bytes
    BY <1>1, <1>2, CompressIs
  <1>4. p \in Cell /\ Byte \subseteq Cell
    BY <1>2 DEF Cell
  <1>5. PICK b : b = p.bytes
    OBVIOUS
  <1>6. b \in Seq(Byte)
    BY <1>3, <1>5, BytesBase
  <1>7. b \in Seq(Cell) /\ <<p>> \in Seq(Cell) /\ Len(<<p>>) = 1 /\ <<p>>[1] = p
    BY <1>4, <1>6
  <1>8. PICK x : x = <<p>>
    OBVIOUS
  <1>9. /\ x \o b \in Seq(Cell) /\ Len(x \o b) = 1 + Len(b)
        /\ (x \o b)[1] = p
        /\ \A i \in 1..Len(b) : (x \o b)[1 + i] = b[i]
    BY <1>7, <1>8
  <1>10. Blob(p) = x \o b
    BY <1>5, <1>8 DEF Blob
  <1>11. Len(b) \in Nat
    BY <1>6
  <1>12. 1 + Len(b) \in Nat
    BY <1>11
  <1> QED BY <1>1, <1>2, <1>3, <1>5, <1>9, <1>10, <1>12

-----------------------------------------------------------------------------
(* The archiver: what was stored is restored *)

\* The file of the archive is the cells it is.
FileInv == ArchiverInv /\ cells \in Seq(Cell)

\* A file is where its entry says.
Filled(c, e, b) ==
    /\ e.offset + e.size - 1 <= Len(c)
    /\ \A i \in 1..e.size : c[e.offset + i - 1] = b[i]

\* One entry and the table over it, as StoredInv has them.
Kept(e, a, c, phase, n) ==
    /\ e.name = a.name /\ e.offset > 1 /\ e.size = Len(Blob(Compress(a.data, Methods)))
    /\ phase = "write" \/ e.offset > 1 + EntryCells * n =>
            Filled(c, e, Blob(Compress(a.data, Methods)))

LEMMA StoredIs ==
    /\ StoredInv <=> \A k \in DOMAIN entries : Kept(entries[k], added[k], cells, archive, Len(entries))
    /\ StoredInv' <=> \A k \in DOMAIN entries' : Kept(entries'[k], added'[k], cells', archive', Len(entries'))
  BY DEF StoredInv, Kept, Filled

LEMMA ArchiverStarts == ArchiverInit => FileInv
  <1> SUFFICES ASSUME ArchiverInit PROVE FileInv
    OBVIOUS
  <1> USE DEF ArchiverInit
  <1>1. ArchiverOK
    <2>1. 0 \in 0..MaxWriteErrors /\ MaxEntries \in Nat
      BY ArchiverAssumption
    <2>2. Len(<<>>) = 0
      OBVIOUS
    <2> QED BY <2>1, <2>2 DEF ArchiverOK
  <1>2. PhasesInv /\ PackedInv /\ StoredInv
    BY DEF PhasesInv, PackedInv, StoredInv
  <1>3. RestoresWhatWasStored
    BY DEF RestoresWhatWasStored, UnpacksWhatWasPacked, ExtractsWhatWasAdded
  <1> QED BY <1>1, <1>2, <1>3 DEF FileInv, ArchiverInv

LEMMA PackKeeps ==
    ASSUME FileInv, NEW d \in Originals, NEW methods \in SUBSET Methods, Pack(d, methods)
    PROVE  FileInv'
  <1> USE DEF Pack
  <1>1. d \in Bytes
    BY ArchiverAssumption DEF Bytes
  <1>2. got = <<>>
    BY DEF FileInv, ArchiverInv, PhasesInv
  <1>3. packed'.sum = d /\ packed'.used \subseteq Methods /\ packed'.bytes \in Bytes
    BY <1>1, CompressIs
  <1>4. ArchiverOK'
    BY <1>3 DEF FileInv, ArchiverInv, ArchiverOK
  <1>5. PhasesInv'
    BY <1>2 DEF FileInv, ArchiverInv, PhasesInv
  <1>6. PackedInv'
    BY <1>3 DEF PackedInv
  <1>7. StoredInv'
    BY DEF FileInv, ArchiverInv, StoredInv
  <1>8. RestoresWhatWasStored'
    BY <1>2 DEF RestoresWhatWasStored, UnpacksWhatWasPacked, ExtractsWhatWasAdded
  <1> QED BY <1>4, <1>5, <1>6, <1>7, <1>8 DEF FileInv, ArchiverInv

LEMMA UnpackKeeps ==
    ASSUME FileInv, Unpack
    PROVE  FileInv'
  <1> USE DEF Unpack
  <1>1. PICK methods \in SUBSET Methods : packed = Compress(packed.sum, methods) /\ packed.sum \in Originals
    BY DEF FileInv, ArchiverInv, PackedInv
  <1>2. packed.sum \in Bytes
    BY <1>1, ArchiverAssumption DEF Bytes
  <1>3. PICK d : d = packed.sum
    OBVIOUS
  <1>4. /\ Decompress(packed) \in {d, Failed}
        /\ ~("LZ77" \in packed.used /\ NearMatch(Staged(packed))) => Decompress(packed) = d
    BY <1>1, <1>2, <1>3, DecompressIs
  <1>5. archive = "none"
    BY DEF FileInv, ArchiverInv, PhasesInv, ArchiverOK
  <1>6. got'.data = Decompress(packed)
    OBVIOUS
  <1>7. ArchiverOK'
    BY <1>2, <1>3, <1>4, <1>6 DEF FileInv, ArchiverInv, ArchiverOK
  <1>8. PhasesInv' /\ PackedInv' /\ StoredInv'
    BY DEF FileInv, ArchiverInv, PhasesInv, PackedInv, StoredInv
  <1>9. RestoresWhatWasStored'
    BY <1>3, <1>4, <1>5, <1>6 DEF RestoresWhatWasStored, UnpacksWhatWasPacked, ExtractsWhatWasAdded, Staged
  <1> QED BY <1>7, <1>8, <1>9 DEF FileInv, ArchiverInv

LEMMA CreateKeeps ==
    ASSUME FileInv, CreateArchive
    PROVE  FileInv'
  <1> USE DEF CreateArchive
  <1>1. got = <<>> /\ entries = <<>>
    BY DEF FileInv, ArchiverInv, PhasesInv
  <1>2. Len(cells') > 0 /\ cells' \in Seq(Cell)
    BY DEF Cell
  <1>3. ArchiverOK'
    BY DEF FileInv, ArchiverInv, ArchiverOK
  <1>4. PhasesInv' /\ PackedInv' /\ StoredInv'
    BY <1>1, <1>2 DEF FileInv, ArchiverInv, PhasesInv, PackedInv, StoredInv
  <1>5. RestoresWhatWasStored'
    BY <1>1 DEF RestoresWhatWasStored, UnpacksWhatWasPacked, ExtractsWhatWasAdded
  <1> QED BY <1>2, <1>3, <1>4, <1>5 DEF FileInv, ArchiverInv

\* What was written stays where it is when something is written behind it.
LEMMA FilledStays ==
    ASSUME NEW e, NEW b, NEW c \in Seq(Cell), NEW x \in Seq(Cell),
           e.offset \in Nat, e.size \in Nat, e.offset > 1, Filled(c, e, b)
    PROVE  Filled(c \o x, e, b)
  <1>1. PICK f \in Nat, n \in Nat : f = e.offset /\ n = e.size
    OBVIOUS
  <1>2. PICK l \in Nat, m \in Nat : l = Len(c) /\ m = Len(x)
    OBVIOUS
  <1>3. PICK w : w = c \o x
    OBVIOUS
  <1>4. Len(w) = l + m /\ \A i \in 1..l : w[i] = c[i]
    BY <1>2, <1>3
  <1>5. f + n - 1 <= l /\ \A i \in 1..n : c[f + i - 1] = b[i]
    BY <1>1, <1>2 DEF Filled
  <1>6. f > 1 /\ f + n - 1 <= l + m
    BY <1>1, <1>5
  <1>7. ASSUME NEW i \in 1..n PROVE w[f + i - 1] = b[i]
    <2>1. f + i - 1 \in 1..l
      BY <1>5, <1>6
    <2> QED BY <1>4, <1>5, <2>1
  <1> QED BY <1>1, <1>3, <1>4, <1>6, <1>7 DEF Filled

\* An entry as the types have it.
Entry == [name : FileNames, offset : Nat, size : Nat]

LEMMA AddKeeps ==
    ASSUME FileInv, NEW name \in FileNames, NEW d \in Filed, AddFile(name, d)
    PROVE  FileInv'
  <1>1. PICK b : b = Blob(Compress(d, Methods))
    OBVIOUS
  <1>2. b \in Seq(Cell) /\ Len(b) \in Nat
    BY <1>1, BlobIs
  <1>3. /\ archive = "write" /\ archive' = archive
        /\ got' = got /\ packed' = packed /\ writeErrors' = writeErrors
        /\ cells' = cells \o b /\ Len(entries) < MaxEntries
        /\ entries' = Append(entries, [name |-> name, offset |-> Len(cells) + 1, size |-> Len(b)])
        /\ added' = Append(added, [name |-> name, data |-> d])
    BY <1>1 DEF AddFile
  <1>4. cells \in Seq(Cell) /\ ArchiverOK /\ PhasesInv /\ PackedInv /\ StoredInv
    BY DEF FileInv, ArchiverInv
  <1>5. PICK l \in Nat : l = Len(cells) /\ l > 0
    BY <1>3, <1>4 DEF PhasesInv
  <1>6. got = <<>> /\ packed = <<>>
    BY <1>3, <1>4 DEF PhasesInv
  <1>7. PICK e \in Entry, a \in [name : FileNames, data : Filed] :
            /\ e = [name |-> name, offset |-> l + 1, size |-> Len(b)]
            /\ a = [name |-> name, data |-> d]
    <2>1. PICK m \in Nat, p \in Nat : m = Len(b) /\ p = l + 1
      BY <1>2
    <2>2. [name |-> name, offset |-> p, size |-> m] \in Entry
      BY DEF Entry
    <2>3. [name |-> name, data |-> d] \in [name : FileNames, data : Filed]
      OBVIOUS
    <2> QED BY <2>1, <2>2, <2>3
  <1>8. entries' = Append(entries, e) /\ added' = Append(added, a)
    BY <1>3, <1>5, <1>7
  <1>9. entries \in Seq(Entry) /\ added \in Seq([name : FileNames, data : Filed]) /\ Len(entries) = Len(added)
    BY <1>4 DEF ArchiverOK, Entry
  <1>10. PICK n \in Nat : n = Len(entries) /\ n = Len(added)
    BY <1>9
  <1>11. /\ entries' \in Seq(Entry) /\ Len(entries') = n + 1 /\ DOMAIN entries' = 1..n + 1
         /\ entries'[n + 1] = e /\ \A k \in 1..n : entries'[k] = entries[k]
    BY <1>8, <1>9, <1>10
  <1>12. /\ added' \in Seq([name : FileNames, data : Filed]) /\ Len(added') = n + 1
         /\ added'[n + 1] = a /\ \A k \in 1..n : added'[k] = added[k]
    BY <1>8, <1>9, <1>10
  <1>13. cells' \in Seq(Cell) /\ Len(cells') = l + Len(b) /\ \A i \in 1..Len(b) : cells'[l + i] = b[i]
    BY <1>2, <1>3, <1>4, <1>5
  <1>14. ArchiverOK'
    <2>1. n + 1 <= MaxEntries
      BY <1>3, <1>10, ArchiverAssumption
    <2> QED BY <1>3, <1>4, <1>11, <1>12, <2>1 DEF ArchiverOK, Entry
  <1>15. PhasesInv'
    <2>1. Len(cells') > 0
      BY <1>2, <1>5, <1>13
    <2> QED BY <1>3, <1>6, <2>1 DEF PhasesInv
  <1>16. PackedInv'
    BY <1>3, <1>6 DEF PackedInv
  <1>17. StoredInv'
    <2>1. ASSUME NEW k \in 1..n PROVE Kept(entries[k], added[k], cells', "write", n + 1)
      <3>1. k \in DOMAIN entries
        BY <1>9, <1>10
      <3>2. Kept(entries[k], added[k], cells, archive, Len(entries))
        BY <1>4, <3>1, StoredIs
      <3>3. entries[k].offset \in Nat /\ entries[k].size \in Nat
        <4>1. entries[k] \in Entry
          BY <1>9, <3>1
        <4> QED BY <4>1 DEF Entry
      <3>4. PICK f, g : f = entries[k] /\ g = Blob(Compress(added[k].data, Methods))
        OBVIOUS
      <3>5. Filled(cells, f, g) /\ f.offset > 1
        BY <1>3, <3>2, <3>4 DEF Kept
      <3>6. Filled(cells \o b, f, g)
        BY <1>2, <1>4, <3>3, <3>4, <3>5, FilledStays
      <3> QED BY <1>3, <3>2, <3>4, <3>6 DEF Kept
    <2>2. Kept(e, a, cells', "write", n + 1)
      <3>1. e.offset = l + 1 /\ e.size = Len(b) /\ e.name = a.name /\ a.data = d
        BY <1>7
      <3>2. PICK m \in Nat : m = Len(b)
        BY <1>2
      <3>3. \A i \in 1..m : l + 1 + i - 1 = l + i
        OBVIOUS
      <3>4. Filled(cells', e, b)
        <4>1. l + 1 + m - 1 <= l + m
          OBVIOUS
        <4> QED BY <1>13, <3>1, <3>2, <3>3, <4>1 DEF Filled
      <3>5. l + 1 > 1
        BY <1>5
      <3> QED BY <1>1, <3>1, <3>4, <3>5 DEF Kept
    <2>3. ASSUME NEW k \in 1..n + 1 PROVE Kept(entries'[k], added'[k], cells', archive', Len(entries'))
      <3>1. k \in 1..n \/ k = n + 1
        OBVIOUS
      <3> QED BY <1>3, <1>11, <1>12, <2>1, <2>2, <3>1
    <2> QED BY <1>11, <2>3, StoredIs
  <1>18. RestoresWhatWasStored'
    BY <1>3, <1>6 DEF RestoresWhatWasStored, UnpacksWhatWasPacked, ExtractsWhatWasAdded
  <1> QED BY <1>13, <1>14, <1>15, <1>16, <1>17, <1>18 DEF FileInv, ArchiverInv

LEMMA AddShortKeeps ==
    ASSUME FileInv, NEW d \in Filed, AddFileShort(d)
    PROVE  FileInv'
  <1>1. PICK b : b = Blob(Compress(d, Methods))
    OBVIOUS
  <1>2. b \in Seq(Cell) /\ Len(b) \in Nat
    BY <1>1, BlobIs
  <1>3. PICK j \in 0..Len(b) - 1 : cells' = cells \o SubSeq(b, 1, j)
    BY <1>1 DEF AddFileShort
  <1>4. PICK x \in Seq(Cell) : x = SubSeq(b, 1, j)
    <2>1. \A i \in 1..j : b[i] \in Cell
      BY <1>2
    <2>2. j \in Int /\ 1 \in Int
      BY <1>2
    <2>3. SubSeq(b, 1, j) \in Seq(Cell)
      BY <2>1, <2>2, SubSeqProperties, Zenon
    <2> QED BY <2>3
  <1>5. /\ archive = "write" /\ archive' = archive
        /\ got' = got /\ packed' = packed /\ entries' = entries /\ added' = added
        /\ writeErrors' = writeErrors + 1 /\ writeErrors < MaxWriteErrors
    BY DEF AddFileShort
  <1>6. cells \in Seq(Cell) /\ ArchiverOK /\ PhasesInv /\ PackedInv /\ StoredInv
    BY DEF FileInv, ArchiverInv
  <1>7. got = <<>> /\ packed = <<>> /\ Len(cells) > 0
    BY <1>5, <1>6 DEF PhasesInv
  <1>8. cells' = cells \o x
    BY <1>3, <1>4
  <1>9. cells' \in Seq(Cell) /\ Len(cells') = Len(cells) + Len(x)
    BY <1>6, <1>8
  <1>10. ArchiverOK'
    <2>1. writeErrors + 1 \in 0..MaxWriteErrors
      BY <1>5, <1>6, ArchiverAssumption DEF ArchiverOK
    <2> QED BY <1>5, <1>6, <2>1 DEF ArchiverOK
  <1>11. PhasesInv'
    <2>1. PICK l \in Nat, m \in Nat : l = Len(cells) /\ m = Len(x)
      BY <1>6
    <2>2. Len(cells') > 0
      BY <1>7, <1>9, <2>1
    <2> QED BY <1>5, <1>7, <2>2 DEF PhasesInv
  <1>12. PackedInv'
    BY <1>5, <1>7 DEF PackedInv
  <1>13. StoredInv'
    <2>1. ASSUME NEW k \in DOMAIN entries
          PROVE  Kept(entries[k], added[k], cells', archive, Len(entries))
      <3>1. Kept(entries[k], added[k], cells, archive, Len(entries))
        BY <1>6, StoredIs
      <3>2. entries[k].offset \in Nat /\ entries[k].size \in Nat
        <4>1. entries[k] \in Entry
          <5>1. entries \in Seq(Entry)
            BY <1>6 DEF ArchiverOK, Entry
          <5> QED BY <5>1
        <4> QED BY <4>1 DEF Entry
      <3>3. PICK f, g : f = entries[k] /\ g = Blob(Compress(added[k].data, Methods))
        OBVIOUS
      <3>4. Filled(cells, f, g) /\ f.offset > 1
        BY <1>5, <3>1, <3>3 DEF Kept
      <3>5. Filled(cells \o x, f, g)
        BY <1>6, <3>2, <3>3, <3>4, FilledStays
      <3> QED BY <1>5, <1>8, <3>1, <3>3, <3>5 DEF Kept
    <2> QED BY <1>5, <2>1, StoredIs
  <1>14. RestoresWhatWasStored'
    BY <1>5, <1>7 DEF RestoresWhatWasStored, UnpacksWhatWasPacked, ExtractsWhatWasAdded
  <1> QED BY <1>9, <1>10, <1>11, <1>12, <1>13, <1>14 DEF FileInv, ArchiverInv

\* Cells one after the other.
LEMMA CellsJoin ==
    ASSUME NEW a \in Seq(Cell), NEW b \in Seq(Cell)
    PROVE  /\ a \o b \in Seq(Cell) /\ Len(a \o b) = Len(a) + Len(b)
           /\ \A i \in 1..Len(a) : (a \o b)[i] = a[i]
           /\ \A i \in 1..Len(b) : (a \o b)[Len(a) + i] = b[i]
  OBVIOUS

\* What is behind the table stays where it is when the table is written.
LEMMA FilledBehind ==
    ASSUME NEW e, NEW b, NEW c \in Seq(Cell), NEW x \in Seq(Cell), NEW q \in Nat,
           Len(x) = 1 + q, e.offset \in Nat, e.size \in Nat, e.size > 0, e.offset > 1 + q, Filled(c, e, b)
    PROVE  Filled(x \o SubSeq(c, q + 2, Len(c)), e, b)
  <1>1. PICK f \in Nat, n \in Nat : f = e.offset /\ n = e.size /\ n > 0 /\ f > 1 + q
    OBVIOUS
  <1>2. PICK l \in Nat : l = Len(c)
    OBVIOUS
  <1>3. f + n - 1 <= l /\ \A i \in 1..n : c[f + i - 1] = b[i]
    BY <1>1, <1>2 DEF Filled
  <1>4. PICK y : y = SubSeq(c, q + 2, l)
    OBVIOUS
  <1>5. /\ y \in Seq(Cell) /\ Len(y) = l - (q + 2) + 1
        /\ \A i \in 1..l - (q + 2) + 1 : y[i] = c[q + 2 + i - 1]
    <2>1. q + 2 <= l /\ q + 2 \in 1..l + 1 /\ l \in (q + 2) - 1..l
      BY <1>1, <1>3
    <2>2. q + 2 \in 1..Len(c) + 1 /\ l \in (q + 2) - 1..Len(c)
      BY <1>2, <2>1
    <2> QED BY <1>2, <1>4, <2>1, <2>2, SubSeqProperties
  <1>6. PICK w : w = x \o y
    OBVIOUS
  <1>7. PICK m \in Nat : m = l - (q + 2) + 1 /\ m = Len(y)
    BY <1>1, <1>3, <1>5
  <1>8. Len(w) = 1 + q + m /\ \A i \in 1..m : w[1 + q + i] = y[i]
    <2>1. Len(w) = Len(x) + Len(y) /\ \A i \in 1..Len(y) : w[Len(x) + i] = y[i]
      <3>1. y \in Seq(Cell)
        BY <1>5
      <3> QED BY <1>6, <3>1, CellsJoin
    <2> QED BY <1>7, <2>1
  <1>9. f + n - 1 <= Len(w)
    BY <1>3, <1>7, <1>8
  <1>10. ASSUME NEW i \in 1..n PROVE w[f + i - 1] = b[i]
    <2>1. PICK k \in 1..m : k = f + i - 1 - (1 + q)
      <3>1. PICK k \in Int : k = f + i - 1 - (1 + q)
        BY <1>1
      <3>2. 1 <= k
        BY <1>1, <3>1
      <3>3. k <= l - (q + 2) + 1
        <4>1. i <= n /\ i \in Int
          OBVIOUS
        <4>2. f + n - 1 <= l
          BY <1>3
        <4> QED BY <3>1, <4>1, <4>2
      <3>4. k \in 1..m
        BY <1>7, <3>1, <3>2, <3>3
      <3> QED BY <3>1, <3>4
    <2>2. 1 + q + k = f + i - 1 /\ q + 2 + k - 1 = f + i - 1
      BY <2>1
    <2>3. w[f + i - 1] = y[k] /\ y[k] = c[f + i - 1]
      BY <1>5, <1>7, <1>8, <2>2
    <2> QED BY <1>3, <2>3
  <1> QED BY <1>1, <1>2, <1>4, <1>6, <1>9, <1>10 DEF Filled

LEMMA CloseKeeps ==
    ASSUME FileInv, CloseArchive
    PROVE  FileInv'
  <1>1. cells \in Seq(Cell) /\ ArchiverOK /\ PhasesInv /\ PackedInv /\ StoredInv
    BY DEF FileInv, ArchiverInv
  <1>2. PICK l \in Nat, n \in Nat : l = Len(cells) /\ n = Len(entries)
    BY <1>1 DEF ArchiverOK
  <1>3. PICK q \in Nat : q = EntryCells * n
    BY ArchiverAssumption
  <1>4. PICK table : table = [k \in 1..q |-> "table"]
    OBVIOUS
  <1>5. table \in Seq(Cell) /\ Len(table) = q
    <2>1. table \in [1..q -> Cell]
      BY <1>4 DEF Cell
    <2> QED BY <2>1, BytesAre
  <1>6. /\ archive = "write" /\ archive' = "closed"
        /\ got' = got /\ packed' = packed /\ entries' = entries /\ added' = added /\ writeErrors' = writeErrors
    BY DEF CloseArchive
  <1>7. cells' = <<"header">> \o table \o SubSeq(cells, q + 2, l)
    BY <1>2, <1>3, <1>4, <1>5 DEF CloseArchive
  <1>8. PICK x : x = <<"header">> \o table
    OBVIOUS
  <1>9. x \in Seq(Cell) /\ Len(x) = 1 + q
    <2>1. <<"header">> \in Seq(Cell) /\ Len(<<"header">>) = 1
      BY DEF Cell
    <2> QED BY <1>5, <1>8, <2>1
  <1>10. cells' = x \o SubSeq(cells, q + 2, l)
    BY <1>7, <1>8
  <1>11. PICK y \in Seq(Cell) : y = SubSeq(cells, q + 2, l)
    <2>1. CASE q + 2 <= l
      <3>1. \A i \in q + 2..l : cells[i] \in Cell
        BY <1>1, <1>2
      <3>2. q + 2 \in Int /\ l \in Int
        OBVIOUS
      <3>3. SubSeq(cells, q + 2, l) \in Seq(Cell)
        BY <3>1, <3>2, SubSeqProperties, Zenon
      <3> QED BY <3>3
    <2>2. CASE ~(q + 2 <= l)
      <3>1. SubSeq(cells, q + 2, l) = <<>>
        <4>1. q + 2 \in Int /\ l < q + 2
          BY <2>2
        <4> QED BY <4>1, SubSeqEmpty
      <3>2. <<>> \in Seq(Cell)
        OBVIOUS
      <3> QED BY <3>1, <3>2
    <2> QED BY <2>1, <2>2
  <1>12. cells' \in Seq(Cell) /\ Len(cells') > 0
    <2>1. cells' = x \o y
      BY <1>10, <1>11
    <2>2. x \o y \in Seq(Cell) /\ Len(x \o y) = Len(x) + Len(y)
      <3>1. x \in Seq(Cell)
        BY <1>9
      <3> QED BY <3>1, ConcatProperties
    <2>3. Len(y) \in Nat
      OBVIOUS
    <2>4. Len(x) + Len(y) > 0
      BY <1>9, <2>3
    <2> QED BY <2>1, <2>2, <2>4
  <1>13. got = <<>> /\ packed = <<>>
    BY <1>1, <1>6 DEF PhasesInv
  <1>14. ArchiverOK'
    BY <1>1, <1>6 DEF ArchiverOK
  <1>15. PhasesInv'
    BY <1>6, <1>12, <1>13 DEF PhasesInv
  <1>16. PackedInv'
    BY <1>6, <1>13 DEF PackedInv
  <1>17. StoredInv'
    <2>1. ASSUME NEW k \in DOMAIN entries
          PROVE  Kept(entries[k], added[k], cells', archive', Len(entries))
      <3>1. Kept(entries[k], added[k], cells, archive, Len(entries))
        BY <1>1, StoredIs
      <3>2. entries[k].offset \in Nat /\ entries[k].size \in Nat
        <4>1. entries[k] \in Entry
          <5>1. entries \in Seq(Entry)
            BY <1>1 DEF ArchiverOK, Entry
          <5> QED BY <5>1
        <4> QED BY <4>1 DEF Entry
      <3>3. PICK f, g : f = entries[k] /\ g = Blob(Compress(added[k].data, Methods))
        OBVIOUS
      <3>4. Filled(cells, f, g) /\ f.offset > 1 /\ f.size = Len(g)
        BY <1>6, <3>1, <3>3 DEF Kept
      <3>5. f.size > 0
        <4>1. added[k].data \in Filed
          <5>1. /\ added \in Seq([name : FileNames, data : Filed])
                /\ entries \in Seq(Entry) /\ Len(entries) = Len(added)
            BY <1>1 DEF ArchiverOK, Entry
          <5>2. k \in 1..Len(added)
            BY <5>1
          <5>3. PICK R : R = [name : FileNames, data : Filed]
            OBVIOUS
          <5>4. added \in Seq(R)
            BY <5>1, <5>3
          <5>5. added[k] \in R
            BY <5>2, <5>4
          <5> QED BY <5>3, <5>5
        <4>2. PICK p \in Bytes : Len(g) = 1 + Len(p)
          BY <3>3, <4>1, BlobIs
        <4>3. Len(p) \in Nat
          BY BytesBase
        <4> QED BY <3>4, <4>2, <4>3
      <3>6. ASSUME f.offset > 1 + q PROVE Filled(cells', f, g)
        <4>1. Filled(x \o SubSeq(cells, q + 2, Len(cells)), f, g)
          BY <1>1, <1>9, <3>2, <3>3, <3>4, <3>5, <3>6, FilledBehind
        <4> QED BY <1>2, <1>10, <4>1
      <3> QED BY <1>2, <1>3, <1>6, <3>1, <3>3, <3>6 DEF Kept
    <2> QED BY <1>6, <2>1, StoredIs
  <1>18. RestoresWhatWasStored'
    BY <1>6, <1>13 DEF RestoresWhatWasStored, UnpacksWhatWasPacked, ExtractsWhatWasAdded
  <1> QED BY <1>12, <1>14, <1>15, <1>16, <1>17, <1>18 DEF FileInv, ArchiverInv

LEMMA OpenKeeps ==
    ASSUME FileInv, OpenArchive
    PROVE  FileInv'
  <1> USE DEF OpenArchive
  <1>1. got = <<>> /\ packed = <<>> /\ Len(cells) > 0
    BY DEF FileInv, ArchiverInv, PhasesInv
  <1>2. ArchiverOK' /\ PackedInv'
    BY DEF FileInv, ArchiverInv, ArchiverOK, PackedInv
  <1>3. PhasesInv'
    BY <1>1 DEF PhasesInv
  <1>4. StoredInv'
    BY DEF FileInv, ArchiverInv, StoredInv
  <1>5. RestoresWhatWasStored'
    BY <1>1 DEF RestoresWhatWasStored, UnpacksWhatWasPacked, ExtractsWhatWasAdded
  <1> QED BY <1>2, <1>3, <1>4, <1>5 DEF FileInv, ArchiverInv

\* What a file in an archive is compressed to comes back, or its differences have a near match.
LEMMA FiledBack ==
    ASSUME NEW d \in Filed
    PROVE  LET p == Compress(d, Methods)
           IN  Decompress(p) = d \/ (Decompress(p) = Failed /\ NearMatch(Deltas(d)))
  <1>1. d \in Bytes /\ Methods \in SUBSET Methods
    BY ArchiverAssumption DEF Bytes
  <1>2. PICK p : p = Compress(d, Methods)
    OBVIOUS
  <1>3. /\ Decompress(p) \in {d, Failed}
        /\ ~("LZ77" \in p.used /\ NearMatch(Staged(p))) => Decompress(p) = d
    BY <1>1, <1>2, DecompressIs
  <1>4. p.sum = d
    BY <1>1, <1>2, CompressIs
  <1>5. ASSUME "LZ77" \in p.used PROVE "MATH" \in p.used
    <2>1. PICK a \in BOOLEAN : p.used = IF d = <<>> THEN {} ELSE (Methods \ {"RLE"}) \cup (IF a THEN {"RLE"} ELSE {})
      BY <1>2 DEF Compress
    <2>2. d # <<>>
      BY <1>5, <2>1
    <2> QED BY <2>1, <2>2 DEF Methods
  <1>6. "LZ77" \in p.used => Staged(p) = Deltas(d)
    BY <1>4, <1>5 DEF Staged
  <1> QED BY <1>2, <1>3, <1>6

\* Where a file is, it is read.
LEMMA ReadBack ==
    ASSUME NEW e, NEW d \in Filed, e.offset \in Nat, e.offset > 1,
           e.size = Len(Blob(Compress(d, Methods))), cells \in Seq(Cell),
           Filled(cells, e, Blob(Compress(d, Methods)))
    PROVE  [cells[e.offset] EXCEPT !.bytes = SubSeq(cells, e.offset + 1, e.offset + e.size - 1)]
                = Compress(d, Methods)
  <1>1. PICK p : p = Compress(d, Methods)
    OBVIOUS
  <1>2. d \in Bytes /\ Methods \in SUBSET Methods
    BY ArchiverAssumption DEF Bytes
  <1>3. p = [used |-> p.used, bytes |-> p.bytes, sum |-> d] /\ p.bytes \in Bytes
    BY <1>1, <1>2, CompressIs
  <1>4. PICK b : b = Blob(p)
    OBVIOUS
  <1>5. PICK m \in Nat : m = Len(p.bytes)
    BY <1>3, BytesBase
  <1>6. Len(b) = 1 + m /\ b[1] = p /\ \A i \in 1..m : b[1 + i] = p.bytes[i]
    BY <1>1, <1>4, <1>5, BlobIs
  <1>7. PICK f \in Nat : f = e.offset /\ f > 1
    OBVIOUS
  <1>8. e.size = 1 + m
    BY <1>1, <1>4, <1>6
  <1>9. \A i \in 1..1 + m : cells[f + i - 1] = b[i]
    BY <1>1, <1>4, <1>7, <1>8 DEF Filled
  <1>10. cells[f] = p
    <2>1. 1 \in 1..1 + m /\ f + 1 - 1 = f
      OBVIOUS
    <2> QED BY <1>6, <1>9, <2>1
  <1>11. \A i \in 1..m : cells[f + i] = p.bytes[i]
    <2> TAKE i \in 1..m
    <2>1. 1 + i \in 1..1 + m /\ f + (1 + i) - 1 = f + i
      OBVIOUS
    <2> QED BY <1>6, <1>9, <2>1
  <1>12. PICK y : y = SubSeq(cells, f + 1, f + m)
    OBVIOUS
  <1>13. y = p.bytes
    <2>1. ASSUME NEW k \in f + 1..f + m PROVE cells[k] \in Byte
      <3>1. PICK i \in 1..m : f + i = k /\ i = k - f
        OBVIOUS
      <3>2. p.bytes \in Seq(Byte)
        BY <1>3, BytesBase
      <3>3. p.bytes[i] \in Byte
        BY <1>5, <3>2
      <3> QED BY <1>11, <3>1, <3>3
    <2>2. f + 1 \in Int /\ f + m \in Int /\ (f + m) - (f + 1) + 1 = m
      OBVIOUS
    <2>3. /\ y \in Seq(Byte)
          /\ Len(y) = IF f + 1 <= f + m THEN (f + m) - (f + 1) + 1 ELSE 0
          /\ \A i \in 1..(f + m) - (f + 1) + 1 : y[i] = cells[f + 1 + i - 1]
      <3>1. PICK lo \in Int, hi \in Int : lo = f + 1 /\ hi = f + m
        OBVIOUS
      <3>2. \A k \in lo..hi : cells[k] \in Byte
        BY <2>1, <3>1
      <3>3. /\ SubSeq(cells, lo, hi) \in Seq(Byte)
            /\ Len(SubSeq(cells, lo, hi)) = IF lo <= hi THEN hi - lo + 1 ELSE 0
            /\ \A i \in 1..hi - lo + 1 : SubSeq(cells, lo, hi)[i] = cells[lo + i - 1]
        BY <3>2, SubSeqProperties
      <3>4. y = SubSeq(cells, lo, hi)
        BY <1>12, <3>1
      <3> QED BY <3>1, <3>3, <3>4
    <2>4. Len(y) = m
      <3>1. m = 0 \/ f + 1 <= f + m
        OBVIOUS
      <3>2. ~(f + 1 <= f + m) => m = 0
        OBVIOUS
      <3> QED BY <2>2, <2>3, <3>2
    <2>5. \A i \in 1..m : y[i] = p.bytes[i]
      <3> TAKE i \in 1..m
      <3>1. f + 1 + i - 1 = f + i
        OBVIOUS
      <3> QED BY <1>11, <2>2, <2>3, <3>1
    <2> QED BY <1>3, <1>5, <2>3, <2>4, <2>5, BytesEqual, BytesBase
  <1>14. f + (1 + m) - 1 = f + m
    OBVIOUS
  <1>15. SubSeq(cells, e.offset + 1, e.offset + e.size - 1) = p.bytes
    BY <1>7, <1>8, <1>12, <1>13, <1>14
  <1>16. [p EXCEPT !.bytes = p.bytes] = p
    BY <1>3
  <1> QED BY <1>1, <1>7, <1>10, <1>15, <1>16

LEMMA ExtractKeeps ==
    ASSUME FileInv, NEW name \in FileNames, Extract(name)
    PROVE  FileInv'
  <1>1. cells \in Seq(Cell) /\ ArchiverOK /\ PhasesInv /\ PackedInv /\ StoredInv
    BY DEF FileInv, ArchiverInv
  <1>2. PICK e : e = entries[EntryFor(name)]
    OBVIOUS
  <1>3. /\ archive = "read" /\ archive' = archive /\ cells' = cells /\ entries' = entries
        /\ added' = added /\ packed' = packed /\ writeErrors' = writeErrors
        /\ \E k \in DOMAIN entries : entries[k].name = name
        /\ got'.of = name
        /\ got'.data = IF e.offset <= 1 + EntryCells * Len(entries) THEN Failed
                       ELSE Decompress([cells[e.offset] EXCEPT !.bytes =
                                SubSeq(cells, e.offset + 1, e.offset + e.size - 1)])
    BY <1>2 DEF Extract
  <1>4. PICK n \in Nat : n = Len(entries) /\ n = Len(added) /\ DOMAIN entries = 1..n /\ DOMAIN added = 1..n
    BY <1>1 DEF ArchiverOK
  <1>5. \A k \in 1..n : entries[k].name = added[k].name
    BY <1>1, <1>4 DEF StoredInv
  <1> DEFINE named == {k \in 1..n : entries[k].name = name}
             First(k) == k \in 1..n /\ entries[k].name = name /\ \A j \in 1..k - 1 : entries[j].name # name
  <1>6. \E k \in 1..n : First(k)
    <2>1. named \in SUBSET Nat /\ named # {}
      BY <1>3, <1>4
    <2>2. \A k \in 1..n : k \in named <=> entries[k].name = name
      OBVIOUS
    <2>3. \A k \in named : k \in 1..n
      OBVIOUS
    <2> HIDE DEF named
    <2>4. PICK k \in named : \A j \in named : k <= j
      BY <2>1, LeastExists
    <2>5. ASSUME NEW j \in 1..k - 1, entries[j].name = name PROVE FALSE
      <3>1. j \in 1..n /\ ~(k <= j)
        BY <2>3
      <3> QED BY <2>2, <2>4, <2>5, <3>1
    <2> QED BY <2>2, <2>3, <2>4, <2>5
  <1>7. First(EntryFor(name))
    BY <1>4, <1>6 DEF EntryFor
  <1>8. PICK q : q = CHOOSE k \in DOMAIN added :
                        added[k].name = name /\ \A j \in 1..k - 1 : added[j].name # name
    OBVIOUS
  <1>9. First(q)
    <2>1. PICK k \in 1..n : First(k)
      BY <1>6
    <2>2. \A j \in 1..k - 1 : j \in 1..n
      OBVIOUS
    <2>3. added[k].name = name /\ \A j \in 1..k - 1 : added[j].name # name
      BY <1>5, <2>1, <2>2
    <2>4. q \in 1..n /\ added[q].name = name /\ \A j \in 1..q - 1 : added[j].name # name
      BY <1>4, <1>8, <2>3
    <2>5. \A j \in 1..q - 1 : j \in 1..n
      BY <2>4
    <2> QED BY <1>5, <2>4, <2>5
  <1>10. EntryFor(name) = q
    <2>1. PICK k \in 1..n : k = EntryFor(name)
      BY <1>7
    <2>2. First(k) /\ First(q)
      BY <1>7, <1>9, <2>1
    <2>3. ~(k < q)
      <3>1. ASSUME k < q PROVE FALSE
        <4>1. k \in 1..q - 1
          BY <2>2, <3>1
        <4> QED BY <2>2, <4>1
      <3> QED BY <3>1
    <2>4. ~(q < k)
      <3>1. ASSUME q < k PROVE FALSE
        <4>1. q \in 1..k - 1
          BY <2>2, <3>1
        <4> QED BY <2>2, <4>1
      <3> QED BY <3>1
    <2> QED BY <2>1, <2>2, <2>3, <2>4
  <1>11. q \in 1..n /\ e = entries[q]
    BY <1>2, <1>9, <1>10
  <1>12. PICK d \in Filed : d = added[q].data
    <2>1. PICK R : R = [name : FileNames, data : Filed]
      OBVIOUS
    <2>2. added \in Seq(R)
      BY <1>1, <2>1 DEF ArchiverOK
    <2>3. added[q] \in R
      BY <1>4, <1>11, <2>2
    <2> QED BY <2>1, <2>3
  <1>13. e.offset \in Nat /\ e.size \in Nat
    <2>1. entries \in Seq(Entry)
      BY <1>1 DEF ArchiverOK, Entry
    <2>2. e \in Entry
      BY <1>4, <1>11, <2>1
    <2> QED BY <2>2 DEF Entry
  <1>14. Kept(e, added[q], cells, archive, Len(entries))
    BY <1>1, <1>4, <1>11, StoredIs
  <1>15. \/ got'.data = d
         \/ got'.data = Failed /\ (NearMatch(Deltas(d)) \/ e.offset <= 1 + EntryCells * Len(entries))
    <2>1. CASE e.offset <= 1 + EntryCells * Len(entries)
      BY <1>3, <2>1
    <2>2. CASE ~(e.offset <= 1 + EntryCells * Len(entries))
      <3>1. PICK z \in Nat : z = EntryCells * Len(entries)
        BY <1>4, ArchiverAssumption
      <3>2. e.offset > 1 + z
        BY <1>13, <2>2, <3>1
      <3>3. /\ e.offset > 1 /\ e.size = Len(Blob(Compress(d, Methods)))
            /\ Filled(cells, e, Blob(Compress(d, Methods)))
        BY <1>12, <1>14, <3>1, <3>2 DEF Kept
      <3>4. [cells[e.offset] EXCEPT !.bytes = SubSeq(cells, e.offset + 1, e.offset + e.size - 1)]
                = Compress(d, Methods)
        BY <1>1, <1>13, <3>3, ReadBack
      <3>5. got'.data = Decompress(Compress(d, Methods))
        BY <1>3, <2>2, <3>4
      <3> QED BY <3>5, FiledBack
    <2> QED BY <2>1, <2>2
  <1>16. ArchiverOK'
    <2>1. d \in Bytes
      BY ArchiverAssumption DEF Bytes
    <2>2. got'.data = Failed \/ got'.data \in Bytes
      BY <1>15, <2>1
    <2> QED BY <1>1, <1>3, <2>2 DEF ArchiverOK
  <1>17. packed = <<>>
    BY <1>1, <1>3 DEF PhasesInv
  <1>18. PhasesInv' /\ PackedInv'
    BY <1>1, <1>3, <1>17 DEF PhasesInv, PackedInv
  <1>19. StoredInv'
    BY <1>1, <1>3 DEF StoredInv
  <1>20. RestoresWhatWasStored'
    <2>1. UnpacksWhatWasPacked'
      BY <1>3, <1>17 DEF UnpacksWhatWasPacked
    <2>2. ExtractsWhatWasAdded'
      <3>1. q = CHOOSE k \in DOMAIN added' :
                    added'[k].name = got'.of /\ \A j \in 1..k - 1 : added'[j].name # got'.of
        BY <1>3, <1>8
      <3>2. \/ got'.data = added'[q].data
            \/ got'.data = Failed /\ (NearMatch(Deltas(added'[q].data))
                                      \/ entries'[q].offset <= 1 + EntryCells * Len(entries'))
        BY <1>3, <1>11, <1>12, <1>15
      <3> QED BY <3>1, <3>2 DEF ExtractsWhatWasAdded
    <2> QED BY <2>1, <2>2 DEF RestoresWhatWasStored
  <1>21. cells' \in Seq(Cell)
    BY <1>1, <1>3
  <1> QED BY <1>16, <1>18, <1>19, <1>20, <1>21 DEF FileInv, ArchiverInv

\* What is compressed comes back as it was, and what is put in an archive is taken out
\* of it, unless a near match or the table of the archive is in the way: an archive
\* never returns other data.
THEOREM ArchivesRestore == ArchiverSpec => [](ArchiverInv /\ RestoresWhatWasStored)
  <1>1. ArchiverInit => FileInv
    BY ArchiverStarts
  <1>2. FileInv /\ [ArchiverNext]_archiverVars => FileInv'
    <2> SUFFICES ASSUME FileInv, [ArchiverNext]_archiverVars PROVE FileInv'
      OBVIOUS
    <2>1. ASSUME NEW d \in Originals, NEW methods \in SUBSET Methods \ {{}}, Pack(d, methods) PROVE FileInv'
      <3>1. methods \in SUBSET Methods
        OBVIOUS
      <3> QED BY <2>1, <3>1, PackKeeps
    <2>2. CASE Unpack
      BY <2>2, UnpackKeeps
    <2>3. CASE CreateArchive
      BY <2>3, CreateKeeps
    <2>4. CASE CloseArchive
      BY <2>4, CloseKeeps
    <2>5. CASE OpenArchive
      BY <2>5, OpenKeeps
    <2>6. ASSUME NEW name \in FileNames, NEW d \in Filed, AddFile(name, d) PROVE FileInv'
      BY <2>6, AddKeeps
    <2>7. ASSUME NEW name \in FileNames, Extract(name) PROVE FileInv'
      BY <2>7, ExtractKeeps
    <2>8. ASSUME NEW d \in Filed, AddFileShort(d) PROVE FileInv'
      BY <2>8, AddShortKeeps
    <2>9. CASE UNCHANGED archiverVars
      BY <2>9 DEF archiverVars, FileInv, ArchiverInv, ArchiverOK, PhasesInv, PackedInv, StoredInv,
                  RestoresWhatWasStored, UnpacksWhatWasPacked, ExtractsWhatWasAdded, Staged
    <2> QED BY <2>1, <2>2, <2>3, <2>4, <2>5, <2>6, <2>7, <2>8, <2>9 DEF ArchiverNext
  <1>3. FileInv => ArchiverInv /\ RestoresWhatWasStored
    BY DEF FileInv, ArchiverInv
  <1> QED BY <1>1, <1>2, <1>3, PTL DEF ArchiverSpec
=============================================================================
