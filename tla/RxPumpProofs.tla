---------------------------- MODULE RxPumpProofs ----------------------------
(***************************************************************************)
(* The byte pump finds the frames one pass over the stream would find, for *)
(* any stream, any cut into chunks, and any sizes of frames and buffer     *)
(* that keep the cut at the buffer's end away from the frames.             *)
(***************************************************************************)
EXTENDS RxPump, DataLemmas

-----------------------------------------------------------------------------
(* What the byte at position i of S is when n bytes of S are there.        *)
CrcAt(S, i) ==
  S[i + S[i + 1] - 1] = Crc(SubSeq(S, i, i + S[i + 1] - 2))
VerdictAt(S, n, i) ==
  IF S[i] # Sync THEN "junk"
  ELSE IF i + FrameMin - 1 > n THEN "partial"
  ELSE IF ~LengthOk(S[i + 1]) THEN "junk"
  ELSE IF i + S[i + 1] - 1 > n THEN "partial"
  ELSE IF S[i + 2] # Fixed THEN "junk"
  ELSE IF CrcAt(S, i) THEN "found" ELSE "bad_crc"

LEMMA FrameSizes ==
  FrameMin \in Nat /\ FrameMax \in Nat /\ 4 <= FrameMin /\ FrameMin <= FrameMax
  BY FrameAssumption

LEMMA Piece ==
  ASSUME NEW S \in Seq(Nat), NEW a \in Nat, NEW n \in Nat, a <= n, n <= Len(S)
  PROVE  /\ SubSeq(S, a + 1, n) \in Seq(Nat) /\ Len(SubSeq(S, a + 1, n)) = n - a
         /\ \A j \in 1..(n - a) : SubSeq(S, a + 1, n)[j] = S[a + j]
<1>1. \A i \in (a + 1)..n : S[i] \in Nat
  OBVIOUS
<1>2. /\ SubSeq(S, a + 1, n) \in Seq(Nat)
      /\ Len(SubSeq(S, a + 1, n)) = IF a + 1 <= n THEN n - (a + 1) + 1 ELSE 0
      /\ \A i \in 1..(n - (a + 1) + 1) : SubSeq(S, a + 1, n)[i] = S[(a + 1) + i - 1]
  BY <1>1, SubSeqProperties
<1>3. n - (a + 1) + 1 = n - a /\ \A i \in Nat : (a + 1) + i - 1 = a + i
  OBVIOUS
<1> QED BY <1>2, <1>3

LEMMA PieceOfPiece ==
  ASSUME NEW S \in Seq(Nat), NEW a \in Nat, NEW n \in Nat, a <= n, n <= Len(S),
         NEW i \in 1..(n - a), NEW j \in 1..(n - a)
  PROVE  SubSeq(SubSeq(S, a + 1, n), i, j) = SubSeq(S, a + i, a + j)
<1>1. /\ a + 1 \in 1..Len(S) /\ n \in 1..Len(S)
      /\ i \in 1..(n - (a + 1) + 1) /\ j \in 1..(n - (a + 1) + 1)
  OBVIOUS
<1>2. SubSeq(SubSeq(S, a + 1, n), i, j) = SubSeq(S, (a + 1) + i - 1, (a + 1) + j - 1)
  BY <1>1, SubSeqOfSubSeq
<1>3. (a + 1) + i - 1 = a + i /\ (a + 1) + j - 1 = a + j
  OBVIOUS
<1> QED BY <1>2, <1>3

(* A piece cut out of the stream is read as the stream is. *)
LEMMA VerdictOfPiece ==
  ASSUME NEW S \in Seq(Nat), NEW a \in Nat, NEW n \in Nat, a <= n, n <= Len(S),
         NEW j \in 1..(n - a)
  PROVE  Verdict(SubSeq(S, a + 1, n), j) = VerdictAt(S, n, a + j)
<1> DEFINE buf == SubSeq(S, a + 1, n)
           i == a + j
<1>1. Len(buf) = n - a /\ \A k \in 1..(n - a) : buf[k] = S[a + k]
  BY Piece
<1>0. i = a + j /\ buf = SubSeq(S, a + 1, n)
  OBVIOUS
<1> HIDE DEF buf, i
<1> SUFFICES Verdict(buf, j) = VerdictAt(S, n, i)
  BY <1>0
<1>2. buf[j] = S[i] /\ Len(buf) = n - a /\ i \in Nat /\ i = a + j
  BY <1>0, <1>1
<1>3. CASE j + FrameMin - 1 > Len(buf) \/ S[i] # Sync
  <2>1. j + FrameMin - 1 > Len(buf) <=> i + FrameMin - 1 > n
    BY <1>2, FrameSizes
  <2> QED BY <1>2, <1>3, <2>1 DEF Verdict, VerdictAt
<1>4. CASE j + FrameMin - 1 <= Len(buf) /\ S[i] = Sync
  <2>0. PICK len : len = S[i + 1]
    OBVIOUS
  <2>1. j + 1 \in 1..(n - a) /\ j + 2 \in 1..(n - a) /\ a + (j + 1) = i + 1 /\ a + (j + 2) = i + 2
    BY <1>2, <1>4, FrameSizes
  <2>2. /\ buf[j + 1] = len /\ buf[j + 2] = S[i + 2] /\ len \in Nat
        /\ S[i + 1] = len
    BY <1>1, <2>0, <2>1, SMTT(30)
  <2>3. ~(j + FrameMin - 1 > Len(buf)) /\ ~(i + FrameMin - 1 > n)
    BY <1>2, <1>4, FrameSizes, SMTT(30)
  <2>4. CASE ~LengthOk(len) \/ j + len - 1 > Len(buf) \/ S[i + 2] # Fixed
    <3>1. j + len - 1 > Len(buf) <=> i + len - 1 > n
      BY <1>2, <2>2
    <3> QED BY <1>2, <1>4, <2>2, <2>3, <2>4, <3>1 DEF Verdict, VerdictAt
  <2>5. CASE LengthOk(len) /\ j + len - 1 <= Len(buf) /\ S[i + 2] = Fixed
    <3>1. len >= 4
      BY <2>2, <2>5, FrameSizes DEF LengthOk
    <3>2. j + len - 2 \in 1..(n - a) /\ j + len - 1 \in 1..(n - a)
          /\ a + (j + len - 2) = i + len - 2 /\ a + (j + len - 1) = i + len - 1
      BY <1>2, <2>2, <2>5, <3>1
    <3>3. SubSeq(buf, j, j + len - 2) = SubSeq(S, i, i + len - 2)
      <4>1. PICK k \in 1..(n - a) : k = j + len - 2
        BY <3>2
      <4>2. SubSeq(SubSeq(S, a + 1, n), j, k) = SubSeq(S, a + j, a + k)
        BY PieceOfPiece
      <4> QED BY <1>0, <3>2, <4>1, <4>2
    <3>4. buf[j + len - 1] = S[i + len - 1]
      BY <1>1, <3>2
    <3>5. (j + len - 1) - 1 = j + len - 2
      BY <2>2
    <3>6. CrcOk(buf, j) <=> CrcAt(S, i)
      BY <2>2, <3>3, <3>4, <3>5 DEF CrcOk, CrcAt
    <3>7. ~(j + len - 1 > Len(buf)) /\ ~(i + len - 1 > n)
      BY <1>2, <2>2, <2>5
    <3> QED BY <1>2, <1>4, <2>2, <2>3, <2>5, <3>6, <3>7 DEF Verdict, VerdictAt
  <2> QED BY <1>2, <2>2, <2>4, <2>5
<1> QED BY <1>2, <1>3, <1>4, FrameSizes

(* More bytes settle what was partial and change nothing else. *)
LEMMA VerdictStands ==
  ASSUME NEW S \in Seq(Nat), NEW m \in Nat, NEW n \in Nat, m <= n, n <= Len(S),
         NEW i \in 1..m, VerdictAt(S, m, i) # "partial"
  PROVE  VerdictAt(S, n, i) = VerdictAt(S, m, i)
<1>1. CASE S[i] # Sync
  BY <1>1 DEF VerdictAt
<1>2. CASE S[i] = Sync
  <2>1. ~(i + FrameMin - 1 > m)
    BY <1>2 DEF VerdictAt
  <2>2. ~(i + FrameMin - 1 > n) /\ S[i + 1] \in Nat
    BY <2>1, FrameSizes
  <2>3. CASE ~LengthOk(S[i + 1])
    BY <1>2, <2>1, <2>2, <2>3 DEF VerdictAt
  <2>4. CASE LengthOk(S[i + 1])
    <3>1. ~(i + S[i + 1] - 1 > m)
      BY <1>2, <2>1, <2>4 DEF VerdictAt
    <3>2. \A len \in Nat : ~(i + len - 1 > m) => ~(i + len - 1 > n)
      OBVIOUS
    <3>3. ~(i + S[i + 1] - 1 > n)
      BY <2>2, <3>1, <3>2
    <3> QED BY <1>2, <2>1, <2>2, <2>4, <3>1, <3>3 DEF VerdictAt
  <2> QED BY <2>3, <2>4
<1> QED BY <1>1, <1>2

(* A partial frame is shorter than the longest, a frame found is all there. *)
LEMMA PartialIsShort ==
  ASSUME NEW S \in Seq(Nat), NEW n \in Nat, n <= Len(S), NEW i \in 1..n,
         VerdictAt(S, n, i) = "partial"
  PROVE  n - i + 1 < FrameMax
<1>1. S[i] = Sync
  BY DEF VerdictAt
<1>2. CASE i + FrameMin - 1 > n
  BY <1>2, FrameSizes
<1>3. CASE ~(i + FrameMin - 1 > n)
  <2>1. S[i + 1] \in Nat
    BY <1>3, FrameSizes
  <2>2. LengthOk(S[i + 1]) /\ i + S[i + 1] - 1 > n
    BY <1>1, <1>3 DEF VerdictAt
  <2> QED BY <2>1, <2>2, FrameSizes DEF LengthOk
<1> QED BY <1>2, <1>3

LEMMA FoundIsWhole ==
  ASSUME NEW S \in Seq(Nat), NEW n \in Nat, n <= Len(S), NEW i \in 1..n,
         VerdictAt(S, n, i) = "found"
  PROVE  /\ S[i + 1] \in FrameMin..FrameMax /\ i + S[i + 1] - 1 <= n
         /\ i + S[i + 1] \in (i + 1)..(n + 1)
<1>1. S[i] = Sync /\ ~(i + FrameMin - 1 > n)
  BY DEF VerdictAt
<1>2. S[i + 1] \in Nat
  BY <1>1, FrameSizes
<1>3. LengthOk(S[i + 1]) /\ ~(i + S[i + 1] - 1 > n)
  BY <1>1 DEF VerdictAt
<1>4. PICK len \in Nat : len = S[i + 1]
  BY <1>2
<1>5. len \in FrameMin..FrameMax /\ ~(i + len - 1 > n)
  BY <1>3, <1>4, FrameSizes DEF LengthOk
<1>6. i + len - 1 <= n /\ i + len \in (i + 1)..(n + 1)
  BY <1>5, FrameSizes
<1> QED BY <1>4, <1>5, <1>6

-----------------------------------------------------------------------------
(* The parse, as equations: ParseFrom is a function defined from the end   *)
(* of the string down, which exists because a frame found ends later.      *)
ParseStep(S, n, g, i) ==
  IF i > n THEN <<>>
  ELSE CASE VerdictAt(S, n, i) = "partial" -> <<>>
         [] VerdictAt(S, n, i) = "found" ->
              <<SubSeq(S, i, i + S[i + 1] - 1)>> \o g[i + S[i + 1]]
         [] OTHER -> g[i + 1]

Parses(S, n, g, k) ==
  /\ g \in [(n + 1 - k)..(n + 1) -> Seq(Seq(Nat))]
  /\ \A i \in (n + 1 - k)..(n + 1) : g[i] = ParseStep(S, n, g, i)

LEMMA FrameBytes ==
  ASSUME NEW S \in Seq(Nat), NEW n \in Nat, n <= Len(S), NEW i \in 1..n,
         VerdictAt(S, n, i) = "found"
  PROVE  SubSeq(S, i, i + S[i + 1] - 1) \in Seq(Nat)
<1>1. PICK len \in Nat : len = S[i + 1] /\ i + len - 1 <= n
  BY FoundIsWhole, FrameSizes
<1>2. \A j \in i..(i + len - 1) : S[j] \in Nat
  BY <1>1, SMTT(30)
<1>3. i \in Int /\ i + len - 1 \in Int
  BY <1>1
<1>4. SubSeq(S, i, i + len - 1) \in Seq(Nat)
  BY <1>2, <1>3, SubSeqProperties
<1> QED BY <1>1, <1>4

LEMMA ParseStepTyped ==
  ASSUME NEW S \in Seq(Nat), NEW n \in Nat, n <= Len(S), NEW i \in 1..n, NEW g,
         \A j \in (i + 1)..(n + 1) : g[j] \in Seq(Seq(Nat))
  PROVE  ParseStep(S, n, g, i) \in Seq(Seq(Nat))
<1>1. CASE VerdictAt(S, n, i) = "partial"
  BY <1>1 DEF ParseStep
<1>2. CASE VerdictAt(S, n, i) = "found"
  <2>1. g[i + S[i + 1]] \in Seq(Seq(Nat))
    BY <1>2, FoundIsWhole
  <2>2. <<SubSeq(S, i, i + S[i + 1] - 1)>> \in Seq(Seq(Nat))
    BY <1>2, FrameBytes
  <2>3. ParseStep(S, n, g, i) = <<SubSeq(S, i, i + S[i + 1] - 1)>> \o g[i + S[i + 1]]
    BY <1>2 DEF ParseStep
  <2> QED BY <2>1, <2>2, <2>3, ConcatProperties
<1>3. CASE VerdictAt(S, n, i) \notin {"partial", "found"}
  <2>1. i + 1 \in (i + 1)..(n + 1) /\ ~(i > n)
    OBVIOUS
  <2>2. ParseStep(S, n, g, i) = g[i + 1]
    BY <1>3, <2>1 DEF ParseStep
  <2> QED BY <2>1, <2>2
<1> QED BY <1>1, <1>2, <1>3

(* A step looks only at what lies behind. *)
LEMMA ParseStepLater ==
  ASSUME NEW S \in Seq(Nat), NEW n \in Nat, n <= Len(S), NEW i \in 1..(n + 1), NEW g, NEW h,
         \A j \in (i + 1)..(n + 1) : g[j] = h[j]
  PROVE  ParseStep(S, n, g, i) = ParseStep(S, n, h, i)
<1>1. CASE i > n
  BY <1>1 DEF ParseStep
<1>2. CASE i <= n
  <2>1. i \in 1..n /\ i + 1 \in (i + 1)..(n + 1)
    BY <1>2
  <2>2. VerdictAt(S, n, i) = "found" => g[i + S[i + 1]] = h[i + S[i + 1]]
    BY <2>1, FoundIsWhole
  <2> QED BY <2>1, <2>2 DEF ParseStep
<1> QED BY <1>1, <1>2

LEMMA ParseExists ==
  ASSUME NEW S \in Seq(Nat), NEW n \in Nat, n <= Len(S)
  PROVE  \E g : Parses(S, n, g, n)
<1> DEFINE T == {k \in Nat : k <= n => \E g : Parses(S, n, g, k)}
<1>1. 0 \in T
  <2> DEFINE g == [i \in (n + 1 - 0)..(n + 1) |-> <<>>]
  <2>1. (n + 1 - 0)..(n + 1) = {n + 1} /\ n + 1 > n
    OBVIOUS
  <2>2. g[n + 1] = <<>> /\ g \in [(n + 1 - 0)..(n + 1) -> Seq(Seq(Nat))]
    BY <2>1
  <2> HIDE DEF g
  <2>3. Parses(S, n, g, 0)
    BY <2>1, <2>2 DEF Parses, ParseStep
  <2> QED BY <2>3
<1>2. ASSUME NEW k \in Nat, k + 1 <= n, NEW g, Parses(S, n, g, k)
      PROVE  \E h : Parses(S, n, h, k + 1)
  <2> DEFINE i == n - k
             h == [j \in i..(n + 1) |-> IF j = i THEN ParseStep(S, n, g, i) ELSE g[j]]
  <2>1. /\ i \in 1..n /\ n + 1 - (k + 1) = i /\ n + 1 - k = i + 1
        /\ i..(n + 1) = {i} \cup ((i + 1)..(n + 1)) /\ i \notin (i + 1)..(n + 1)
    BY <1>2
  <2>2. \A j \in (i + 1)..(n + 1) : g[j] \in Seq(Seq(Nat)) /\ g[j] = ParseStep(S, n, g, j)
    BY <1>2, <2>1 DEF Parses
  <2>3. \A j \in (i + 1)..(n + 1) : h[j] = g[j]
    BY <2>1
  <2>4. h[i] = ParseStep(S, n, g, i) /\ h = [j \in i..(n + 1) |-> h[j]]
    BY <2>1
  <2> HIDE DEF h, i
  <2>5. h[i] \in Seq(Seq(Nat))
    BY <2>1, <2>2, <2>4, ParseStepTyped, SMTT(30)
  <2>6. h \in [i..(n + 1) -> Seq(Seq(Nat))]
    BY <2>1, <2>2, <2>3, <2>4, <2>5
  <2>7. ASSUME NEW j \in i..(n + 1) PROVE h[j] = ParseStep(S, n, h, j)
    <3>1. j \in 1..(n + 1) /\ \A m \in (j + 1)..(n + 1) : m \in (i + 1)..(n + 1)
      BY <2>1
    <3>2. ParseStep(S, n, g, j) = ParseStep(S, n, h, j)
      BY <2>3, <3>1, ParseStepLater
    <3> QED BY <2>1, <2>2, <2>3, <2>4, <3>2
  <2>8. Parses(S, n, h, k + 1)
    BY <2>1, <2>6, <2>7 DEF Parses
  <2> QED BY <2>8
<1>3. \A k \in Nat : k \in T => k + 1 \in T
  <2> SUFFICES ASSUME NEW k \in Nat, k <= n => \E g : Parses(S, n, g, k), k + 1 <= n
               PROVE  \E h : Parses(S, n, h, k + 1)
    OBVIOUS
  <2>1. k <= n
    OBVIOUS
  <2> QED BY <1>2, <2>1
<1> HIDE DEF T
<1>4. n \in T
  BY <1>1, <1>3, SetInduction
<1> QED BY <1>4 DEF T

LEMMA ParseEquations ==
  ASSUME NEW S \in Seq(Nat), NEW n \in Nat, n <= Len(S)
  PROVE  Parses(S, n, ParseFrom(SubSeq(S, 1, n)), n)
<1>1. PICK buf : buf = SubSeq(S, 1, n)
  OBVIOUS
<1>2. /\ Len(buf) = n /\ \A j \in 1..n : buf[j] = S[j] /\ Verdict(buf, j) = VerdictAt(S, n, j)
      /\ \A j \in 1..n : VerdictAt(S, n, j) = "found" =>
           buf[j + 1] = S[j + 1]
           /\ SubSeq(buf, j, j + S[j + 1] - 1) = SubSeq(S, j, j + S[j + 1] - 1)
  <2>0. 0 \in Nat /\ 0 <= n /\ 0 + 1 = 1 /\ n - 0 = n /\ \A j \in Nat : 0 + j = j
    OBVIOUS
  <2>1. Len(buf) = n /\ \A j \in 1..n : buf[j] = S[j]
    BY <1>1, <2>0, Piece
  <2>2. ASSUME NEW j \in 1..n PROVE Verdict(buf, j) = VerdictAt(S, n, j)
    <3>1. 0 + j = j /\ j \in 1..(n - 0)
      BY <2>0
    <3>2. Verdict(SubSeq(S, 0 + 1, n), j) = VerdictAt(S, n, 0 + j)
      BY <2>0, <3>1, VerdictOfPiece
    <3> QED BY <1>1, <2>0, <3>1, <3>2
  <2>3. ASSUME NEW j \in 1..n, VerdictAt(S, n, j) = "found"
        PROVE  buf[j + 1] = S[j + 1]
               /\ SubSeq(buf, j, j + S[j + 1] - 1) = SubSeq(S, j, j + S[j + 1] - 1)
    <3>1. PICK len \in Nat : len = S[j + 1] /\ len >= 4 /\ j + len - 1 <= n
      BY <2>3, FoundIsWhole, FrameSizes, SMTT(30)
    <3>2. j + 1 \in 1..n /\ j + len - 1 \in 1..n
      BY <3>1, SMTT(30)
    <3>3. PICK m \in 1..n : m = j + len - 1
      BY <3>2
    <3>4. SubSeq(buf, j, m) = SubSeq(S, j, m)
      BY <1>1, <2>0, PieceOfPiece
    <3> QED BY <2>1, <3>1, <3>2, <3>3, <3>4
  <2> QED BY <2>1, <2>2, <2>3
<1> DEFINE from == ParseFrom(buf)
<1>3. PICK g : Parses(S, n, g, n)
  BY ParseExists
<1>4. n + 1 - n = 1
  OBVIOUS
<1>5. \A i \in 1..(n + 1) : \A h :
        (IF i > Len(buf) THEN <<>>
         ELSE CASE Verdict(buf, i) = "partial" -> <<>>
                [] Verdict(buf, i) = "found" ->
                     <<SubSeq(buf, i, i + buf[i + 1] - 1)>> \o h[i + buf[i + 1]]
                [] OTHER -> h[i + 1])
        = ParseStep(S, n, h, i)
  <2> TAKE i \in 1..(n + 1)
  <2> TAKE h
  <2>1. CASE i > n
    BY <1>2, <2>1 DEF ParseStep
  <2>2. CASE i <= n
    <3>0. i \in 1..n /\ ~(i > n) /\ ~(i > Len(buf)) /\ Verdict(buf, i) = VerdictAt(S, n, i)
      BY <1>2, <2>2
    <3>1. CASE VerdictAt(S, n, i) = "found"
      <4>1. buf[i + 1] = S[i + 1]
            /\ SubSeq(buf, i, i + S[i + 1] - 1) = SubSeq(S, i, i + S[i + 1] - 1)
        BY <1>2, <3>0, <3>1
      <4> QED BY <3>0, <3>1, <4>1 DEF ParseStep
    <3>2. CASE VerdictAt(S, n, i) # "found"
      BY <3>0, <3>2 DEF ParseStep
    <3> QED BY <3>1, <3>2
  <2>3. i > n \/ i <= n
    OBVIOUS
  <2> QED BY <2>1, <2>2, <2>3, Zenon
<1>6. g = [i \in 1..(n + 1) |-> ParseStep(S, n, g, i)]
  BY <1>3, <1>4 DEF Parses
<1>7. g = [i \in 1..(Len(buf) + 1) |->
             IF i > Len(buf) THEN <<>>
             ELSE CASE Verdict(buf, i) = "partial" -> <<>>
                    [] Verdict(buf, i) = "found" ->
                         <<SubSeq(buf, i, i + buf[i + 1] - 1)>> \o g[i + buf[i + 1]]
                    [] OTHER -> g[i + 1]]
  BY <1>2, <1>5, <1>6, ZenonT(60)
<1>8. from = [i \in 1..(Len(buf) + 1) |->
                IF i > Len(buf) THEN <<>>
                ELSE CASE Verdict(buf, i) = "partial" -> <<>>
                       [] Verdict(buf, i) = "found" ->
                            <<SubSeq(buf, i, i + buf[i + 1] - 1)>> \o from[i + buf[i + 1]]
                       [] OTHER -> from[i + 1]]
  BY <1>7 DEF ParseFrom
<1> HIDE DEF from
<1>9. DOMAIN from = 1..(n + 1) /\ \A i \in 1..(n + 1) : from[i] = ParseStep(S, n, from, i)
  BY <1>2, <1>5, <1>8
<1> DEFINE TypedAt(k) == \A i \in (n + 1 - k)..(n + 1) : from[i] \in Seq(Seq(Nat))
           T == {k \in Nat : k <= n => TypedAt(k)}
<1>10. 0 \in T
  <2>1. (n + 1 - 0)..(n + 1) = {n + 1} /\ n + 1 > n /\ n + 1 \in 1..(n + 1)
    OBVIOUS
  <2>2. from[n + 1] = <<>>
    BY <1>9, <2>1 DEF ParseStep
  <2>3. <<>> \in Seq(Seq(Nat))
    BY EmptySeq
  <2>4. TypedAt(0)
    BY <2>1, <2>2, <2>3
  <2> HIDE DEF TypedAt
  <2> QED BY <2>4
<1>11. \A k \in Nat : k \in T => k + 1 \in T
  <2>1. ASSUME NEW k \in Nat, k + 1 <= n, TypedAt(k) PROVE TypedAt(k + 1)
    <3>1. PICK j \in 1..n : j = n - k
      BY <2>1
    <3>2. n + 1 - k = j + 1 /\ n + 1 - (k + 1) = j /\ j \in 1..(n + 1)
      BY <3>1
    <3>3. j..(n + 1) = {j} \cup ((j + 1)..(n + 1))
      OBVIOUS
    <3>4. from[j] \in Seq(Seq(Nat))
      BY <1>9, <2>1, <3>2, ParseStepTyped
    <3> QED BY <2>1, <3>2, <3>3, <3>4
  <2>2. \A k \in Nat : k + 1 <= n => k <= n
    OBVIOUS
  <2> HIDE DEF TypedAt
  <2> QED BY <2>1, <2>2
<1> HIDE DEF T
<1>12. n \in T
  BY <1>10, <1>11, SetInduction
<1>13. \A i \in 1..(n + 1) : from[i] \in Seq(Seq(Nat))
  BY <1>4, <1>12 DEF T
<1>14. from = [i \in 1..(n + 1) |-> from[i]]
  BY <1>8, <1>9
<1>15. from \in [1..(n + 1) -> Seq(Seq(Nat))]
  BY <1>13, <1>14
<1>16. Parses(S, n, from, n)
  BY <1>4, <1>9, <1>15 DEF Parses
<1> QED BY <1>1, <1>16 DEF from

(* What is neither partial nor a frame is stepped over byte by byte. *)
LEMMA SkippedOver ==
  ASSUME NEW S \in Seq(Nat), NEW n \in Nat, n <= Len(S), NEW g, Parses(S, n, g, n),
         NEW i \in 1..(n + 1), NEW j \in i..(n + 1),
         \A k \in i..(j - 1) : VerdictAt(S, n, k) \notin {"partial", "found"}
  PROVE  g[i] = g[j]
<1> DEFINE T == {k \in Nat : i + k <= j => g[i] = g[i + k]}
<1>1. 0 \in T
  OBVIOUS
<1>2. ASSUME NEW k \in Nat, i + (k + 1) <= j, g[i] = g[i + k] PROVE g[i] = g[i + (k + 1)]
  <2>1. PICK m : m = i + k
    OBVIOUS
  <2>2. m \in i..(j - 1) /\ m \in (n + 1 - n)..(n + 1) /\ ~(m > n) /\ m + 1 = i + (k + 1)
    BY <1>2, <2>1
  <2>3. g[m] = g[m + 1]
    BY <2>2 DEF Parses, ParseStep
  <2> QED BY <1>2, <2>1, <2>2, <2>3
<1>3. \A k \in Nat : k \in T => k + 1 \in T
  <2> SUFFICES ASSUME NEW k \in Nat, i + k <= j => g[i] = g[i + k], i + (k + 1) <= j
               PROVE  g[i] = g[i + (k + 1)]
    OBVIOUS
  <2>1. i + k <= j
    OBVIOUS
  <2> QED BY <1>2, <2>1
<1> HIDE DEF T
<1>4. j - i \in Nat /\ i + (j - i) = j
  OBVIOUS
<1>5. Nat \subseteq T
  BY <1>1, <1>3, SetInduction
<1> QED BY <1>4, <1>5 DEF T

-----------------------------------------------------------------------------
(* What scan_frame() makes of a piece of the stream.                       *)
LEMMA FirstStart ==
  ASSUME NEW buf \in Seq(Nat), Starts(buf) # {}
  PROVE  /\ Start(buf) \in 1..Len(buf) /\ Verdict(buf, Start(buf)) # "junk"
         /\ \A i \in 1..(Start(buf) - 1) : Verdict(buf, i) = "junk"
<1>1. Starts(buf) \subseteq 1..Len(buf) /\ Starts(buf) \subseteq Nat
  BY DEF Starts
<1>2. \E i \in Starts(buf) : \A j \in Starts(buf) : i <= j
  BY <1>1, LeastMember
<1>3. Start(buf) \in Starts(buf) /\ \A j \in Starts(buf) : Start(buf) <= j
  BY <1>2 DEF Start
<1>4. Start(buf) \in 1..Len(buf) /\ Verdict(buf, Start(buf)) # "junk"
  BY <1>1, <1>3 DEF Starts
<1>5. ASSUME NEW i \in 1..(Start(buf) - 1), Verdict(buf, i) # "junk" PROVE FALSE
  <2>1. i \in 1..Len(buf) /\ ~(Start(buf) <= i)
    BY <1>4
  <2>2. i \in Starts(buf)
    BY <1>5, <2>1 DEF Starts
  <2> QED BY <1>3, <2>1, <2>2
<1> QED BY <1>4, <1>5

ScanAt(S, a, t, r, q) ==
  /\ \A i \in (a + 1)..(q - 1) : VerdictAt(S, t, i) = "junk"
  /\ r.verdict = VerdictAt(S, t, q) /\ r.verdict # "junk"
  /\ r.verdict = "partial" => r.consumed = q - 1 - a
  /\ r.verdict = "bad_crc" => r.consumed = q - a
  /\ r.verdict = "found" => /\ r.consumed = q + S[q + 1] - 1 - a
                            /\ r.frame = SubSeq(S, q, q + S[q + 1] - 1)

LEMMA ScanReads ==
  ASSUME NEW S \in Seq(Nat), NEW a \in Nat, NEW t \in Nat, a < t, t <= Len(S)
  PROVE  LET r == Scan(SubSeq(S, a + 1, t))
         IN  \/ /\ r.verdict = "junk" /\ r.consumed = t - a
                /\ \A i \in (a + 1)..t : VerdictAt(S, t, i) = "junk"
             \/ \E q \in (a + 1)..t : ScanAt(S, a, t, r, q)
<1>1. PICK buf : buf = SubSeq(S, a + 1, t)
  OBVIOUS
<1>2. /\ buf \in Seq(Nat) /\ Len(buf) = t - a
      /\ \A j \in 1..(t - a) : buf[j] = S[a + j] /\ Verdict(buf, j) = VerdictAt(S, t, a + j)
  <2>1. a <= t
    OBVIOUS
  <2>2. buf \in Seq(Nat) /\ Len(buf) = t - a /\ \A j \in 1..(t - a) : buf[j] = S[a + j]
    BY <1>1, <2>1, Piece
  <2>3. \A j \in 1..(t - a) : Verdict(buf, j) = VerdictAt(S, t, a + j)
    BY <1>1, <2>1, VerdictOfPiece
  <2> QED BY <2>2, <2>3
<1>3. PICK r : r = Scan(buf)
  OBVIOUS
<1> SUFFICES \/ /\ r.verdict = "junk" /\ r.consumed = t - a
                /\ \A i \in (a + 1)..t : VerdictAt(S, t, i) = "junk"
             \/ \E q \in (a + 1)..t : ScanAt(S, a, t, r, q)
  BY <1>1, <1>3
<1>4. CASE Starts(buf) = {}
  <2>1. \A j \in 1..(t - a) : Verdict(buf, j) = "junk"
    BY <1>2, <1>4 DEF Starts
  <2>2. ASSUME NEW i \in (a + 1)..t PROVE VerdictAt(S, t, i) = "junk"
    <3>1. i - a \in 1..(t - a) /\ a + (i - a) = i
      OBVIOUS
    <3> QED BY <1>2, <2>1, <3>1
  <2>3. r.verdict = "junk" /\ r.consumed = Len(buf)
    BY <1>3, <1>4 DEF Scan, Consumed
  <2> QED BY <1>2, <2>2, <2>3
<1>5. CASE Starts(buf) # {}
  <2>1. PICK j : j = Start(buf)
    OBVIOUS
  <2>2. /\ j \in 1..(t - a) /\ Verdict(buf, j) # "junk"
        /\ \A i \in 1..(j - 1) : Verdict(buf, i) = "junk"
    BY <1>2, <1>5, <2>1, FirstStart
  <2>3. PICK q : q = a + j
    OBVIOUS
  <2>4. q \in (a + 1)..t /\ q - a = j /\ q - 1 - a = j - 1
    BY <2>2, <2>3
  <2>5. ASSUME NEW i \in (a + 1)..(q - 1) PROVE VerdictAt(S, t, i) = "junk"
    <3>1. i - a \in 1..(j - 1) /\ i - a \in 1..(t - a) /\ a + (i - a) = i
      BY <2>2, <2>3
    <3> QED BY <1>2, <2>2, <3>1
  <2>6. r.verdict = Verdict(buf, j) /\ r.consumed = Consumed(buf, r.verdict)
        /\ (r.verdict = "found" => r.frame = SubSeq(buf, j, EndOfFrame(buf)))
    BY <1>3, <1>5, <2>1 DEF Scan
  <2>7. r.verdict = VerdictAt(S, t, q) /\ r.verdict # "junk"
    BY <1>2, <2>2, <2>3, <2>6
  <2>8. /\ r.verdict = "partial" => r.consumed = j - 1
        /\ r.verdict = "bad_crc" => r.consumed = j
        /\ r.verdict = "found" => r.consumed = EndOfFrame(buf)
    BY <2>1, <2>6 DEF Consumed
  <2>9. ASSUME r.verdict = "found"
        PROVE  /\ EndOfFrame(buf) = q + S[q + 1] - 1 - a
               /\ r.frame = SubSeq(S, q, q + S[q + 1] - 1)
    <3>0. q \in 1..t /\ VerdictAt(S, t, q) = "found"
      BY <2>4, <2>7, <2>9
    <3>1. PICK len \in Nat : len = S[q + 1] /\ len >= 4 /\ q + len - 1 <= t
      <4>1. S[q + 1] \in FrameMin..FrameMax /\ q + S[q + 1] - 1 <= t
        BY <3>0, FoundIsWhole
      <4>2. S[q + 1] \in Nat /\ S[q + 1] >= 4
        BY <4>1, FrameSizes
      <4> QED BY <4>1, <4>2
    <3>2. /\ j + 1 \in 1..(t - a) /\ a + (j + 1) = q + 1 /\ j + len - 1 \in 1..(t - a)
          /\ a + (j + len - 1) = q + len - 1 /\ j + len - 1 = q + len - 1 - a
      <4>1. j \in Nat /\ 1 <= j /\ a + j + len - 1 <= t /\ len >= 4
        BY <2>2, <2>3, <3>1
      <4>2. j + 1 <= t - a /\ j + len - 1 <= t - a
        BY <4>1
      <4>3. j + 1 \in 1..(t - a) /\ j + len - 1 \in 1..(t - a)
        BY <4>1, <4>2
      <4> QED BY <2>3, <4>1, <4>3
    <3>3. buf[j + 1] = len
      <4>1. buf[j + 1] = S[a + (j + 1)]
        BY <1>2, <3>2
      <4> QED BY <3>1, <3>2, <4>1
    <3>4. PICK m \in 1..(t - a) : m = j + len - 1
      BY <3>2
    <3>5. EndOfFrame(buf) = m
      BY <2>1, <3>3, <3>4 DEF EndOfFrame
    <3>6. SubSeq(SubSeq(S, a + 1, t), j, m) = SubSeq(S, a + j, a + m)
      BY <2>2, PieceOfPiece
    <3> QED BY <1>1, <2>3, <2>6, <2>9, <3>1, <3>2, <3>4, <3>5, <3>6
  <2> HIDE DEF EndOfFrame
  <2>10. ScanAt(S, a, t, r, q)
    BY <2>4, <2>5, <2>7, <2>8, <2>9 DEF ScanAt
  <2> QED BY <2>4, <2>10
<1> QED BY <1>4, <1>5

(* Dropping the first c bytes of the buffer leaves a later piece. *)
LEMMA PieceDropped ==
  ASSUME NEW S \in Seq(Nat), NEW a \in Nat, NEW t \in Nat, a <= t, t <= Len(S),
         NEW c \in 0..(t - a)
  PROVE  LET buf == SubSeq(S, a + 1, t)
         IN  /\ SubSeq(buf, c + 1, Len(buf)) = SubSeq(S, (a + c) + 1, t)
             /\ Len(SubSeq(buf, c + 1, Len(buf))) = t - (a + c)
<1>1. PICK buf : buf = SubSeq(S, a + 1, t)
  OBVIOUS
<1>2. Len(buf) = t - a /\ a + c \in Nat /\ a + c <= t
  BY <1>1, Piece
<1>3. Len(SubSeq(S, (a + c) + 1, t)) = t - (a + c)
  BY <1>2, Piece
<1>4. SubSeq(buf, c + 1, Len(buf)) = SubSeq(S, (a + c) + 1, t)
  <2>1. CASE c = t - a
    <3>1. Len(buf) < c + 1 /\ t < (a + c) + 1
      BY <1>2, <2>1
    <3> QED BY <1>2, <3>1, SubSeqEmpty
  <2>2. CASE c < t - a
    <3>1. PICK i \in 1..(t - a), j \in 1..(t - a) : i = c + 1 /\ j = t - a
      BY <2>2
    <3>2. SubSeq(SubSeq(S, a + 1, t), i, j) = SubSeq(S, a + i, a + j)
      BY PieceOfPiece
    <3>3. a + i = (a + c) + 1 /\ a + j = t
      BY <3>1
    <3> QED BY <1>1, <1>2, <3>1, <3>2, <3>3
  <2> QED BY <2>1, <2>2
<1> QED BY <1>1, <1>3, <1>4

-----------------------------------------------------------------------------
(* Bytes pushed into a buffer with room for them are all there.            *)
LEMMA PushTyped ==
  ASSUME NEW buf \in Seq(Nat), NEW byte \in Nat
  PROVE  /\ Push(buf, byte) \in Seq(Nat)
         /\ Len(buf) < RxCap => Push(buf, byte) = Append(buf, byte)
<1>1. PICK longer : longer = Append(buf, byte)
  OBVIOUS
<1>2. longer \in Seq(Nat) /\ Len(longer) = Len(buf) + 1
  BY <1>1, AppendProperties
<1>3. RxCap \in Nat /\ RxDrop + 1 \in Nat /\ RxDrop + 1 >= 1
  BY PumpAssumption
<1>4. SubSeq(longer, RxDrop + 1, Len(longer)) \in Seq(Nat)
  <2>1. \A i \in (RxDrop + 1)..Len(longer) : longer[i] \in Nat
    BY <1>2, <1>3
  <2>2. RxDrop + 1 \in Int /\ Len(longer) \in Int
    BY <1>2, <1>3
  <2> QED BY <2>1, <2>2, SubSeqProperties
<1> QED BY <1>1, <1>2, <1>3, <1>4 DEF Push

LEMMA PushesAll ==
  ASSUME NEW buf \in Seq(Nat), NEW s \in Seq(Nat), Len(buf) + Len(s) <= RxCap
  PROVE  FoldLeft(Push, buf, s) = buf \o s
<1> DEFINE n == Len(s)
           F == [x \in Seq(Nat) \X (1..n) |-> Push(x[1], s[x[2]])]
<1>1. n \in Nat /\ DOMAIN s = 1..n /\ \A k \in 1..n : s[k] \in Nat
  OBVIOUS
<1>2. /\ F \in [Seq(Nat) \X (1..n) -> Seq(Nat)]
      /\ \A b \in Seq(Nat), k \in 1..n : F[<<b, k>>] = Push(b, s[k])
  BY <1>1, PushTyped
<1> HIDE DEF F
<1>3. PICK h : FoldsOver(h, Seq(Nat), buf, F, n)
  BY <1>1, <1>2, FoldExists
<1>4. h = [i \in SUBSET (DOMAIN s) |->
             IF i = {} THEN buf ELSE Push(h[i \ {Max(i)}], s[Max(i)])]
  <2>1. h = [i \in SUBSET (1..n) |-> h[i]]
    BY <1>3 DEF FoldsOver
  <2>2. ASSUME NEW i \in SUBSET (1..n)
        PROVE  h[i] = IF i = {} THEN buf ELSE Push(h[i \ {Max(i)}], s[Max(i)])
    <3>1. CASE i = {}
      BY <1>3, <3>1 DEF FoldsOver
    <3>2. CASE i # {}
      <4>1. Max(i) \in 1..n /\ i \ {Max(i)} \in SUBSET (1..n)
        BY <1>1, <3>2, MaxIsMember
      <4>2. h[i \ {Max(i)}] \in Seq(Nat)
        BY <1>3, <4>1 DEF FoldsOver
      <4>3. h[i] = F[<<h[i \ {Max(i)}], Max(i)>>]
        BY <1>3, <3>2 DEF FoldsOver
      <4> QED BY <1>2, <3>2, <4>1, <4>2, <4>3
    <3> QED BY <3>1, <3>2
  <2> QED BY <1>1, <2>1, <2>2
<1> DEFINE it == CHOOSE g : g = [i \in SUBSET (DOMAIN s) |->
                    IF i = {} THEN buf ELSE Push(g[i \ {Max(i)}], s[Max(i)])]
<1>5. it = [i \in SUBSET (DOMAIN s) |->
              IF i = {} THEN buf ELSE Push(it[i \ {Max(i)}], s[Max(i)])]
  BY <1>4
<1>6. FoldLeft(Push, buf, s) = it[DOMAIN s]
  BY DEF FoldLeft, MapThenFoldSet
<1> HIDE DEF it
<1>7. \A i \in SUBSET (1..n) :
        it[i] = IF i = {} THEN buf ELSE Push(it[i \ {Max(i)}], s[Max(i)])
  BY <1>1, <1>5
<1> DEFINE Pushed(k) == it[1..k] = buf \o SubSeq(s, 1, k)
           T == {k \in Nat : k <= n => Pushed(k)}
<1>8. 0 \in T
  <2>1. 1..0 = {} /\ {} \in SUBSET (1..n) /\ SubSeq(s, 1, 0) = <<>>
    BY SubSeqEmpty
  <2>2. it[1..0] = buf
    BY <1>7, <2>1
  <2> QED BY <2>1, <2>2, ConcatEmptySeq
<1>9. ASSUME NEW k \in Nat, k + 1 <= n, Pushed(k) PROVE Pushed(k + 1)
  <2>1. /\ 1..(k + 1) \in SUBSET (1..n) /\ k + 1 \in 1..(k + 1) /\ 1..(k + 1) # {}
        /\ (1..(k + 1)) \ {k + 1} = 1..k
    <3>1. \A i \in 1..(k + 1) : i \in 1..n
      BY <1>1, <1>9
    <3>2. k + 1 \in 1..(k + 1) /\ (1..(k + 1)) \ {k + 1} = 1..k
      BY <1>9
    <3> QED BY <3>1, <3>2
  <2>2. Max(1..(k + 1)) = k + 1
    BY <2>1, MaxOfRange
  <2>3. it[1..(k + 1)] = Push(it[1..k], s[k + 1])
    BY <1>7, <2>1, <2>2
  <2>4. k + 1 \in 1..n /\ k \in Nat /\ (k + 1) - 1 = k /\ 1 \in 1..n /\ k + 1 \in 1..Len(s)
    BY <1>1, <1>9
  <2>5. SubSeq(s, 1, k) \in Seq(Nat) /\ Len(SubSeq(s, 1, k)) = k
    <3>1. 0 + 1 = 1 /\ k - 0 = k
      OBVIOUS
    <3> QED BY <1>9, <3>1, Piece
  <2>6. SubSeq(s, 1, k + 1) = SubSeq(s, 1, k) \o <<s[k + 1]>>
    BY <1>1, <2>4, SubSeqRecursiveSecond
  <2>7. buf \o SubSeq(s, 1, k) \in Seq(Nat) /\ Len(buf \o SubSeq(s, 1, k)) = Len(buf) + k
    BY <2>5, ConcatProperties
  <2>8. Len(buf \o SubSeq(s, 1, k)) < RxCap
    <3>1. Len(buf) \in Nat /\ RxCap \in Nat
      BY PumpAssumption
    <3> QED BY <1>1, <1>9, <2>7, <3>1
  <2>9. it[1..(k + 1)] = Append(buf \o SubSeq(s, 1, k), s[k + 1])
    BY <1>1, <1>9, <2>3, <2>4, <2>7, <2>8, PushTyped
  <2>10. s[k + 1] \in Nat /\ <<s[k + 1]>> \in Seq(Nat)
    BY <1>1, <2>4
  <2>11. it[1..(k + 1)] = (buf \o SubSeq(s, 1, k)) \o <<s[k + 1]>>
    BY <2>7, <2>9, <2>10, AppendIsConcat
  <2>12. (buf \o SubSeq(s, 1, k)) \o <<s[k + 1]>> = buf \o (SubSeq(s, 1, k) \o <<s[k + 1]>>)
    <3>1. PICK x \in Seq(Nat), y \in Seq(Nat) : x = SubSeq(s, 1, k) /\ y = <<s[k + 1]>>
      BY <2>5, <2>10
    <3>2. (buf \o x) \o y = buf \o (x \o y)
      BY ConcatAssociative, SMTT(30)
    <3> QED BY <3>1, <3>2
  <2> QED BY <2>6, <2>11, <2>12
<1>10. \A k \in Nat : k \in T => k + 1 \in T
  <2>1. \A k \in Nat : k + 1 <= n => k <= n
    BY <1>1
  <2> HIDE DEF Pushed
  <2> QED BY <1>9, <2>1
<1> HIDE DEF T
<1>11. n \in T
  BY <1>1, <1>8, <1>10, SetInduction
<1>12. it[1..n] = buf \o SubSeq(s, 1, n)
  BY <1>1, <1>11 DEF T
<1> QED BY <1>1, <1>6, <1>12, SubSeqFull

-----------------------------------------------------------------------------
(* The states of the pump.                                                 *)
LEMMA PumpSizes ==
  /\ RxCap \in Nat /\ Chunk \in Nat /\ Chunk >= 1 /\ FrameMax - 1 + Chunk <= RxCap
  BY PumpAssumption

LEMMA StreamTyped == ASSUME Typed PROVE Stream \in Seq(Nat)
<1>1. \A p \in Frames \cup Noise : p \in Seq(Nat)
  BY BytesAssumption DEF Frames
<1>2. PICK m \in 0..MaxPieces : pieces \in [1..m -> Frames \cup Noise]
  BY DEF Typed, BoundedSeq, SeqOf
<1>3. m \in Nat /\ pieces \in [1..m -> Seq(Nat)]
  BY <1>1, <1>2, PumpAssumption
<1>4. pieces \in Seq(Seq(Nat))
  BY <1>3, SeqDef
<1> QED BY <1>4, FlattenContents DEF Stream

LEMMA UpToParses ==
  ASSUME Stream \in Seq(Nat), NEW n \in 0..Len(Stream)
  PROVE  /\ Parses(Stream, n, ParseFrom(UpTo(n)), n)
         /\ \A i \in 1..(n + 1) : ParseFrom(UpTo(n))[i] \in Seq(Seq(Nat))
<1>1. n \in Nat /\ n <= Len(Stream) /\ n + 1 - n = 1
  OBVIOUS
<1>2. Parses(Stream, n, ParseFrom(UpTo(n)), n)
  BY <1>1, ParseEquations DEF UpTo
<1> QED BY <1>1, <1>2 DEF Parses

LEMMA BufferFacts ==
  ASSUME PumpInv
  PROVE  /\ Stream \in Seq(Nat) /\ taken \in Nat /\ Done \in Nat /\ Done <= taken
         /\ taken <= Len(Stream) /\ rx_buf \in Seq(Nat) /\ Len(rx_buf) = taken - Done
         /\ rx_buf = SubSeq(Stream, Done + 1, taken)
         /\ rx_buf = <<>> <=> Done = taken
         /\ ~scanning => Len(rx_buf) < FrameMax
<1>1. /\ Stream \in Seq(Nat) /\ taken \in Nat /\ Done \in Nat /\ Done <= taken
      /\ taken <= Len(Stream) /\ rx_buf = SubSeq(Stream, Done + 1, taken)
  BY StreamTyped DEF PumpInv, BufferIsStream
<1>2. rx_buf \in Seq(Nat) /\ Len(rx_buf) = taken - Done
  BY <1>1, Piece
<1>3. rx_buf = <<>> <=> Done = taken
  BY <1>1, <1>2, EmptySeq
<1>4. ASSUME ~scanning PROVE Len(rx_buf) < FrameMax
  <2>1. CASE rx_buf = <<>>
    <3>1. Len(rx_buf) = 0 /\ 0 < FrameMax
      BY <1>1, <1>2, <1>3, <2>1, FrameSizes
    <3> QED BY <3>1
  <2>2. CASE rx_buf # <<>>
    <3>1. Verdict(rx_buf, 1) = "partial"
      BY <1>4, <2>2 DEF PumpInv, RestsAtPartial
    <3>2. 1 \in 1..(taken - Done) /\ Done + 1 \in 1..taken /\ Done <= taken
      BY <1>1, <1>3, <2>2
    <3>3. VerdictAt(Stream, taken, Done + 1) = "partial"
      BY <1>1, <3>1, <3>2, VerdictOfPiece
    <3>4. taken - (Done + 1) + 1 < FrameMax
      BY <1>1, <3>2, <3>3, PartialIsShort
    <3> QED BY <1>1, <1>2, <3>4, FrameSizes
  <2> QED BY <2>1, <2>2
<1> QED BY <1>1, <1>2, <1>3, <1>4

LEMMA InitPump == Init => PumpInv
<1> SUFFICES ASSUME Init PROVE PumpInv
  OBVIOUS
<1>1. Typed
  BY EmptySeq DEF Init, Typed
<1>2. Stream \in Seq(Nat) /\ Len(Stream) \in Nat
  BY <1>1, StreamTyped
<1>3. taken = 0 /\ rx_buf = <<>> /\ Len(rx_buf) = 0 /\ Done = 0
  <2>1. Len(<<>>) = 0
    BY EmptySeq
  <2>2. taken = 0 /\ rx_buf = <<>>
    BY DEF Init
  <2>3. Len(rx_buf) = 0
    BY <2>1, <2>2
  <2>4. Done = taken - Len(rx_buf)
    BY DEF Done
  <2>5. Done = 0
    BY <2>2, <2>3, <2>4
  <2> QED BY <2>2, <2>3, <2>5
<1>4. BufferIsStream
  <2>1. SubSeq(Stream, 0 + 1, 0) = <<>>
    BY SubSeqEmpty
  <2> QED BY <1>2, <1>3, <2>1, FrameSizes, PumpSizes DEF BufferIsStream
<1>5. ParsedSoFar
  <2> SUFFICES ASSUME NEW n \in 0..Len(Stream)
               PROVE  Parse(UpTo(n)) = handled \o ParseFrom(UpTo(n))[0 + 1]
    BY <1>3 DEF ParsedSoFar
  <2>1. ParseFrom(UpTo(n))[1] \in Seq(Seq(Nat)) /\ 0 + 1 = 1
    BY <1>2, UpToParses
  <2>2. handled = <<>> /\ <<>> \o ParseFrom(UpTo(n))[1] = ParseFrom(UpTo(n))[1]
    BY <2>1, ConcatEmptySeq DEF Init
  <2> QED BY <2>1, <2>2 DEF Parse
<1> QED BY <1>1, <1>3, <1>4, <1>5 DEF PumpInv, RestsAtPartial

LEMMA ReadKeepsPump ==
  ASSUME PumpInv, NEW k \in 1..Chunk, Read(k) PROVE PumpInv'
<1>0. /\ Stream \in Seq(Nat) /\ Len(Stream) \in Nat /\ taken \in Nat /\ Done \in Nat
      /\ Done <= taken /\ taken <= Len(Stream)
      /\ rx_buf \in Seq(Nat) /\ Len(rx_buf) \in Nat /\ Len(rx_buf) = taken - Done
      /\ rx_buf = SubSeq(Stream, Done + 1, taken)
  BY BufferFacts
<1>1. /\ ~scanning /\ scanning' = TRUE /\ taken' = taken + k /\ taken + k <= Len(Stream)
      /\ pieces' = pieces /\ handled' = handled
      /\ rx_buf' = FoldLeft(Push, rx_buf, SubSeq(Stream, taken + 1, taken + k))
  BY DEF Read
<1>2. Stream' = Stream /\ (\A n : UpTo(n)' = UpTo(n)) /\ k \in Nat /\ k <= Chunk
  BY <1>1, PumpSizes DEF Stream, UpTo
<1>3. PICK new : new = SubSeq(Stream, taken + 1, taken + k)
  OBVIOUS
<1>4. new \in Seq(Nat) /\ Len(new) = k
  <2>1. taken + k \in Nat /\ taken <= taken + k /\ (taken + k) - taken = k
    BY <1>0, <1>2
  <2> QED BY <1>0, <1>1, <1>3, <2>1, Piece
<1>5. Len(rx_buf) + k <= FrameMax - 1 + Chunk /\ Len(rx_buf) + Len(new) <= RxCap
  <2>1. Len(rx_buf) < FrameMax
    BY <1>1, BufferFacts
  <2> QED BY <1>0, <1>2, <1>4, <2>1, FrameSizes, PumpSizes
<1>6. rx_buf' = rx_buf \o new
  BY <1>0, <1>1, <1>3, <1>4, <1>5, PushesAll
<1>7. rx_buf' = SubSeq(Stream, Done + 1, taken + k)
  <2>1. Done + 1 \in 1..(Len(Stream) + 1) /\ taken \in ((Done + 1) - 1)..Len(Stream)
        /\ taken + k \in taken..Len(Stream)
    BY <1>0, <1>1, <1>2
  <2>2. SubSeq(Stream, Done + 1, taken) \o SubSeq(Stream, taken + 1, taken + k)
          = SubSeq(Stream, Done + 1, taken + k)
    BY <1>0, <2>1, ConcatAdjacentSubSeq
  <2> QED BY <1>0, <1>3, <1>6, <2>2
<1>8. Len(rx_buf') = Len(rx_buf) + k
  <2>1. Len(rx_buf \o new) = Len(rx_buf) + Len(new)
    BY <1>0, <1>4, ConcatProperties
  <2> QED BY <1>4, <1>6, <2>1
<1>9. Done' = Done
  <2>1. Done' = taken' - Len(rx_buf')
    BY DEF Done
  <2> QED BY <1>0, <1>1, <1>2, <1>8, <2>1
<1>10. BufferIsStream'
  <2>1. taken + k \in 0..Len(Stream) /\ Done \in 0..(taken + k)
    BY <1>0, <1>1, <1>2
  <2>2. Len(rx_buf') < FrameMax + Chunk
    BY <1>0, <1>2, <1>5, <1>8, FrameSizes, PumpSizes
  <2> QED BY <1>1, <1>2, <1>7, <1>9, <2>1, <2>2 DEF BufferIsStream
<1>11. ParsedSoFar'
  <2>1. \A n \in (taken + k)..Len(Stream) : n \in taken..Len(Stream)
    BY <1>0, <1>2
  <2> QED BY <1>1, <1>2, <1>9, <2>1 DEF ParsedSoFar, PumpInv
<1> QED BY <1>1, <1>10, <1>11 DEF PumpInv, Typed, RestsAtPartial

(* The scan goes on by c bytes: what is left is a later piece, and if the  *)
(* parse from there on, behind what was handled, is the same, all is well. *)
LEMMA GoesOn ==
  ASSUME PumpInv, UNCHANGED <<pieces, taken>>, NEW c \in 0..Len(rx_buf),
         rx_buf' = SubSeq(rx_buf, c + 1, Len(rx_buf)),
         scanning' \in BOOLEAN, handled' \in Seq(Seq(Nat)), RestsAtPartial',
         \A n \in taken..Len(Stream) :
           handled \o ParseFrom(UpTo(n))[Done + 1]
             = handled' \o ParseFrom(UpTo(n))[Done + c + 1]
  PROVE  PumpInv'
<1>0. /\ Stream \in Seq(Nat) /\ Len(Stream) \in Nat /\ taken \in Nat /\ Done \in Nat
      /\ Done <= taken /\ taken <= Len(Stream)
      /\ rx_buf \in Seq(Nat) /\ Len(rx_buf) \in Nat /\ Len(rx_buf) = taken - Done
      /\ rx_buf = SubSeq(Stream, Done + 1, taken)
  BY BufferFacts
<1>1. Stream' = Stream /\ (\A n : UpTo(n)' = UpTo(n)) /\ taken' = taken
  BY DEF Stream, UpTo
<1>2. c \in 0..(taken - Done) /\ c \in Nat /\ Done + c \in Nat /\ Done + c <= taken
  BY <1>0
<1>3. rx_buf' = SubSeq(Stream, (Done + c) + 1, taken) /\ Len(rx_buf') = taken - (Done + c)
  BY <1>0, <1>2, PieceDropped
<1>4. Done' = Done + c
  <2>1. Done' = taken' - Len(rx_buf')
    BY DEF Done
  <2> QED BY <1>0, <1>1, <1>2, <1>3, <2>1
<1>5. BufferIsStream'
  <2>1. Len(rx_buf') < FrameMax + Chunk
    <3>1. Len(rx_buf) < FrameMax + Chunk
      BY DEF PumpInv, BufferIsStream
    <3> QED BY <1>0, <1>2, <1>3, <3>1, FrameSizes, PumpSizes
  <2> QED BY <1>0, <1>1, <1>2, <1>3, <1>4, <2>1 DEF BufferIsStream
<1>6. ParsedSoFar'
  <2> SUFFICES ASSUME NEW n \in taken..Len(Stream)
               PROVE  Parse(UpTo(n)) = handled' \o ParseFrom(UpTo(n))[Done + c + 1]
    BY <1>1, <1>4 DEF ParsedSoFar
  <2> QED BY DEF PumpInv, ParsedSoFar
<1> QED BY <1>5, <1>6 DEF PumpInv, Typed

(* The verdict on the buffer, told of the stream; and the bytes before it. *)
LEMMA ScanMeets ==
  ASSUME PumpInv, rx_buf # <<>>
  PROVE  LET r == Scan(rx_buf)
         IN  \/ /\ r.verdict = "junk" /\ r.consumed = Len(rx_buf)
                /\ \A n \in taken..Len(Stream) :
                     ParseFrom(UpTo(n))[Done + 1] = ParseFrom(UpTo(n))[taken + 1]
             \/ \E q \in (Done + 1)..taken :
                  /\ ScanAt(Stream, Done, taken, r, q)
                  /\ \A n \in taken..Len(Stream) :
                       ParseFrom(UpTo(n))[Done + 1] = ParseFrom(UpTo(n))[q]
<1>0. /\ Stream \in Seq(Nat) /\ Len(Stream) \in Nat /\ taken \in Nat /\ Done \in Nat
      /\ Done < taken /\ taken <= Len(Stream) /\ Len(rx_buf) = taken - Done
      /\ rx_buf = SubSeq(Stream, Done + 1, taken)
  BY BufferFacts
<1>1. ASSUME NEW q \in (Done + 1)..(taken + 1), NEW n \in taken..Len(Stream),
             \A i \in (Done + 1)..(q - 1) : VerdictAt(Stream, taken, i) = "junk"
      PROVE  ParseFrom(UpTo(n))[Done + 1] = ParseFrom(UpTo(n))[q]
  <2>1. n \in Nat /\ n <= Len(Stream) /\ taken <= n /\ n \in 0..Len(Stream)
    BY <1>0
  <2>2. \A i \in (Done + 1)..(q - 1) : VerdictAt(Stream, n, i) = "junk"
    <3> TAKE i \in (Done + 1)..(q - 1)
    <3>1. i \in 1..taken /\ VerdictAt(Stream, taken, i) = "junk"
      BY <1>0, <1>1
    <3> QED BY <1>0, <2>1, <3>1, VerdictStands
  <2>3. Parses(Stream, n, ParseFrom(UpTo(n)), n)
    BY <1>0, <2>1, UpToParses
  <2>4. Done + 1 \in 1..(n + 1) /\ q \in (Done + 1)..(n + 1)
    BY <1>0, <2>1
  <2>5. PICK g : g = ParseFrom(UpTo(n))
    OBVIOUS
  <2>6. PICK d : d = Done + 1
    OBVIOUS
  <2>7. /\ d \in 1..(n + 1) /\ q \in d..(n + 1) /\ Parses(Stream, n, g, n)
        /\ \A i \in d..(q - 1) : VerdictAt(Stream, n, i) \notin {"partial", "found"}
    BY <2>2, <2>3, <2>4, <2>5, <2>6
  <2>8. g[d] = g[q]
    BY <1>0, <2>1, <2>7, SkippedOver
  <2> QED BY <2>5, <2>6, <2>8
<1>2. PICK r : r = Scan(rx_buf)
  OBVIOUS
<1>3. \/ /\ r.verdict = "junk" /\ r.consumed = taken - Done
         /\ \A i \in (Done + 1)..taken : VerdictAt(Stream, taken, i) = "junk"
      \/ \E q \in (Done + 1)..taken : ScanAt(Stream, Done, taken, r, q)
  BY <1>0, <1>2, ScanReads
<1>4. CASE /\ r.verdict = "junk" /\ r.consumed = taken - Done
           /\ \A i \in (Done + 1)..taken : VerdictAt(Stream, taken, i) = "junk"
  <2>1. taken + 1 \in (Done + 1)..(taken + 1) /\ (taken + 1) - 1 = taken
    BY <1>0
  <2>2. \A n \in taken..Len(Stream) :
          ParseFrom(UpTo(n))[Done + 1] = ParseFrom(UpTo(n))[taken + 1]
    BY <1>1, <1>4, <2>1
  <2> QED BY <1>0, <1>2, <1>4, <2>2
<1>5. ASSUME NEW q \in (Done + 1)..taken, ScanAt(Stream, Done, taken, r, q)
      PROVE  \A n \in taken..Len(Stream) :
               ParseFrom(UpTo(n))[Done + 1] = ParseFrom(UpTo(n))[q]
  <2>1. q \in (Done + 1)..(taken + 1)
    BY <1>0
  <2> QED BY <1>1, <1>5, <2>1 DEF ScanAt
<1> QED BY <1>2, <1>3, <1>4, <1>5

LEMMA HandleKeepsPump == ASSUME PumpInv, HandleFrame PROVE PumpInv'
<1>0. /\ Stream \in Seq(Nat) /\ Len(Stream) \in Nat /\ taken \in Nat /\ Done \in Nat
      /\ Done <= taken /\ taken <= Len(Stream) /\ Len(rx_buf) = taken - Done
  BY BufferFacts
<1>1. PICK r : r = Scan(rx_buf)
  OBVIOUS
<1>2. /\ rx_buf # <<>> /\ r.verdict = "found" /\ handled' = Append(handled, r.frame)
      /\ rx_buf' = SubSeq(rx_buf, r.consumed + 1, Len(rx_buf))
      /\ UNCHANGED <<pieces, taken, scanning>> /\ scanning
  BY <1>1 DEF HandleFrame, Keep
<1>3. PICK q \in (Done + 1)..taken :
        /\ ScanAt(Stream, Done, taken, r, q)
        /\ \A n \in taken..Len(Stream) :
             ParseFrom(UpTo(n))[Done + 1] = ParseFrom(UpTo(n))[q]
  <2>1. r.verdict # "junk"
    BY <1>2
  <2> QED BY <1>1, <1>2, <2>1, ScanMeets
<1>4. q \in 1..taken /\ VerdictAt(Stream, taken, q) = "found"
  BY <1>0, <1>2, <1>3 DEF ScanAt
<1>5. PICK len \in Nat : len = Stream[q + 1] /\ len >= 4 /\ q + len - 1 <= taken
  <2>1. Stream[q + 1] \in FrameMin..FrameMax /\ q + Stream[q + 1] - 1 <= taken
    BY <1>0, <1>4, FoundIsWhole
  <2> QED BY <2>1, FrameSizes
<1>6. PICK c : c = r.consumed
  OBVIOUS
<1>7. c = q + len - 1 - Done /\ r.frame = SubSeq(Stream, q, q + len - 1)
  BY <1>2, <1>3, <1>5, <1>6 DEF ScanAt
<1>8. c \in 0..Len(rx_buf) /\ Done + c + 1 = q + len
  <2>1. q \in Nat /\ Done + 1 <= q /\ q + len - 1 <= taken /\ len >= 4
    BY <1>0, <1>3, <1>5
  <2> QED BY <1>0, <1>7, <2>1
<1>9. r.frame \in Seq(Nat)
  BY <1>0, <1>4, <1>5, <1>7, FrameBytes
<1>10. handled \in Seq(Seq(Nat)) /\ handled' \in Seq(Seq(Nat))
       /\ handled' = handled \o <<r.frame>>
  <2>1. handled \in Seq(Seq(Nat))
    BY DEF PumpInv, Typed
  <2> QED BY <1>2, <1>9, <2>1, AppendProperties, AppendIsConcat
<1>11. ASSUME NEW n \in taken..Len(Stream)
       PROVE  handled \o ParseFrom(UpTo(n))[Done + 1]
                = handled' \o ParseFrom(UpTo(n))[Done + c + 1]
  <2>1. n \in 0..Len(Stream) /\ n \in Nat /\ n <= Len(Stream) /\ taken <= n /\ q \in 1..n
    BY <1>0, <1>4
  <2>2. VerdictAt(Stream, n, q) = "found"
    BY <1>0, <1>4, <2>1, VerdictStands
  <2>3. PICK rest : rest = ParseFrom(UpTo(n))[q + len]
    OBVIOUS
  <2>4. q + len \in 1..(n + 1) /\ q \in (n + 1 - n)..(n + 1) /\ ~(q > n)
    <3>1. q \in Nat /\ q >= 1 /\ q + len - 1 <= n /\ q <= n
      BY <1>0, <1>5, <2>1
    <3>2. q + len \in Nat /\ q + len >= 1 /\ q + len <= n + 1
      BY <2>1, <3>1
    <3> QED BY <2>1, <3>1, <3>2
  <2>5. rest \in Seq(Seq(Nat)) /\ Parses(Stream, n, ParseFrom(UpTo(n)), n)
    BY <1>0, <2>1, <2>3, <2>4, UpToParses
  <2>6. ParseFrom(UpTo(n))[q] = <<SubSeq(Stream, q, q + Stream[q + 1] - 1)>>
                                  \o ParseFrom(UpTo(n))[q + Stream[q + 1]]
    BY <2>2, <2>4, <2>5 DEF Parses, ParseStep
  <2>7. ParseFrom(UpTo(n))[Done + 1] = <<r.frame>> \o rest
    BY <1>3, <1>5, <1>7, <2>3, <2>6
  <2>8. <<r.frame>> \in Seq(Seq(Nat))
    BY <1>9
  <2>9. PICK f \in Seq(Seq(Nat)) : f = <<r.frame>>
    BY <2>8
  <2>10. handled \o (f \o rest) = (handled \o f) \o rest
    <3>1. PICK g \in Seq(Seq(Nat)), h \in Seq(Seq(Nat)) : g = handled /\ h = rest
      BY <1>10, <2>5
    <3>2. (g \o f) \o h = g \o (f \o h)
      BY ConcatAssociative, SMTT(30)
    <3> QED BY <3>1, <3>2
  <2> QED BY <1>8, <1>10, <2>3, <2>7, <2>9, <2>10
<1>12. RestsAtPartial' /\ scanning' \in BOOLEAN
  BY <1>2 DEF RestsAtPartial, PumpInv, Typed
<1> QED BY <1>2, <1>6, <1>8, <1>10, <1>11, <1>12, GoesOn

LEMMA SkipKeepsPump == ASSUME PumpInv, SkipBadFrame PROVE PumpInv'
<1>0. /\ Stream \in Seq(Nat) /\ Len(Stream) \in Nat /\ taken \in Nat /\ Done \in Nat
      /\ Done <= taken /\ taken <= Len(Stream) /\ Len(rx_buf) = taken - Done
  BY BufferFacts
<1>1. PICK r : r = Scan(rx_buf)
  OBVIOUS
<1>2. /\ rx_buf # <<>> /\ r.verdict = "bad_crc" /\ handled' = handled
      /\ rx_buf' = SubSeq(rx_buf, r.consumed + 1, Len(rx_buf))
      /\ UNCHANGED <<pieces, taken, scanning>> /\ scanning
  BY <1>1 DEF SkipBadFrame, Keep
<1>3. PICK q \in (Done + 1)..taken :
        /\ ScanAt(Stream, Done, taken, r, q)
        /\ \A n \in taken..Len(Stream) :
             ParseFrom(UpTo(n))[Done + 1] = ParseFrom(UpTo(n))[q]
  <2>1. r.verdict # "junk"
    BY <1>2
  <2> QED BY <1>1, <1>2, <2>1, ScanMeets
<1>4. q \in 1..taken /\ VerdictAt(Stream, taken, q) = "bad_crc" /\ r.consumed = q - Done
  BY <1>0, <1>2, <1>3 DEF ScanAt
<1>5. PICK c : c = r.consumed
  OBVIOUS
<1>6. c \in 0..Len(rx_buf) /\ Done + c + 1 = q + 1
  BY <1>0, <1>3, <1>4, <1>5
<1>7. ASSUME NEW n \in taken..Len(Stream)
      PROVE  ParseFrom(UpTo(n))[Done + 1] = ParseFrom(UpTo(n))[q + 1]
  <2>1. n \in 0..Len(Stream) /\ n \in Nat /\ n <= Len(Stream) /\ taken <= n /\ q \in 1..n
    BY <1>0, <1>4
  <2>2. VerdictAt(Stream, n, q) = "bad_crc"
    BY <1>0, <1>4, <2>1, VerdictStands
  <2>3. q \in (n + 1 - n)..(n + 1) /\ ~(q > n) /\ Parses(Stream, n, ParseFrom(UpTo(n)), n)
    BY <1>0, <2>1, UpToParses
  <2>4. ParseFrom(UpTo(n))[q] = ParseFrom(UpTo(n))[q + 1]
    BY <2>2, <2>3 DEF Parses, ParseStep
  <2> QED BY <1>3, <2>4
<1>8. RestsAtPartial' /\ scanning' \in BOOLEAN /\ handled' \in Seq(Seq(Nat))
  BY <1>2 DEF RestsAtPartial, PumpInv, Typed
<1> QED BY <1>2, <1>5, <1>6, <1>7, <1>8, GoesOn

LEMMA WaitKeepsPump == ASSUME PumpInv, WaitForMore PROVE PumpInv'
<1>0. /\ Stream \in Seq(Nat) /\ Len(Stream) \in Nat /\ taken \in Nat /\ Done \in Nat
      /\ Done <= taken /\ taken <= Len(Stream) /\ Len(rx_buf) = taken - Done
      /\ rx_buf \in Seq(Nat) /\ rx_buf = SubSeq(Stream, Done + 1, taken)
  BY BufferFacts, SMTT(30)
<1>1. PICK r : r = Scan(rx_buf)
  OBVIOUS
<1>2. UNCHANGED <<pieces, taken, handled>> /\ scanning' = FALSE
      /\ scanning' \in BOOLEAN /\ handled' \in Seq(Seq(Nat))
  BY DEF WaitForMore, PumpInv, Typed
<1>3. CASE rx_buf = <<>> /\ rx_buf' = rx_buf
  <2>1. Done' = Done /\ Stream' = Stream /\ (\A n : UpTo(n)' = UpTo(n))
    BY <1>2, <1>3 DEF Done, Stream, UpTo
  <2>2. BufferIsStream' /\ ParsedSoFar' /\ Typed'
    BY <1>2, <1>3, <2>1 DEF PumpInv, BufferIsStream, ParsedSoFar, Typed
  <2> QED BY <1>3, <2>2 DEF PumpInv, RestsAtPartial
<1>4. CASE /\ rx_buf # <<>> /\ r.verdict \in {"junk", "partial"}
           /\ rx_buf' = SubSeq(rx_buf, r.consumed + 1, Len(rx_buf))
  <2>1. PICK c : c = r.consumed
    OBVIOUS
  <2>2. CASE /\ r.verdict = "junk" /\ r.consumed = Len(rx_buf)
             /\ \A n \in taken..Len(Stream) :
                  ParseFrom(UpTo(n))[Done + 1] = ParseFrom(UpTo(n))[taken + 1]
    <3>1. c \in 0..Len(rx_buf) /\ Done + c + 1 = taken + 1 /\ c = Len(rx_buf)
      BY <1>0, <2>1, <2>2
    <3>2. Len(rx_buf) < c + 1 /\ c + 1 \in Int /\ Len(rx_buf) \in Int
      BY <1>0, <3>1
    <3>3. rx_buf' = <<>>
      BY <1>4, <2>1, <3>2, SubSeqEmpty
    <3>4. RestsAtPartial'
      BY <3>3 DEF RestsAtPartial
    <3> QED BY <1>2, <1>4, <2>1, <2>2, <3>1, <3>4, GoesOn
  <2>3. ASSUME r.verdict = "partial", NEW q \in (Done + 1)..taken,
               ScanAt(Stream, Done, taken, r, q),
               \A n \in taken..Len(Stream) :
                 ParseFrom(UpTo(n))[Done + 1] = ParseFrom(UpTo(n))[q]
        PROVE  PumpInv'
    <3>1. VerdictAt(Stream, taken, q) = "partial" /\ c = q - 1 - Done
      BY <2>1, <2>3 DEF ScanAt
    <3>2. c \in 0..Len(rx_buf) /\ Done + c + 1 = q /\ c \in Nat /\ Done + c \in Nat
          /\ Done + c < taken /\ c \in 0..(taken - Done)
      BY <1>0, <2>3, <3>1
    <3>3. rx_buf' = SubSeq(Stream, (Done + c) + 1, taken)
      <4>1. /\ SubSeq(rx_buf, c + 1, Len(rx_buf)) = SubSeq(Stream, (Done + c) + 1, taken)
            /\ Done <= taken
        BY <1>0, <3>2, PieceDropped
      <4> QED BY <1>4, <2>1, <4>1
    <3>4. Verdict(rx_buf', 1) = VerdictAt(Stream, taken, (Done + c) + 1)
      <4>1. 1 \in 1..(taken - (Done + c)) /\ Done + c <= taken
        BY <1>0, <3>2
      <4> QED BY <1>0, <3>2, <3>3, <4>1, VerdictOfPiece
    <3>5. RestsAtPartial'
      BY <3>1, <3>2, <3>4 DEF RestsAtPartial
    <3> QED BY <1>2, <1>4, <2>1, <2>3, <3>2, <3>5, GoesOn
  <2>4. CASE r.verdict # "junk"
    <3>1. r.verdict = "partial"
      BY <1>4, <2>4
    <3>2. PICK q \in (Done + 1)..taken :
            /\ ScanAt(Stream, Done, taken, r, q)
            /\ \A n \in taken..Len(Stream) :
                 ParseFrom(UpTo(n))[Done + 1] = ParseFrom(UpTo(n))[q]
      BY <1>1, <1>4, <2>4, ScanMeets
    <3> QED BY <2>3, <3>1, <3>2
  <2>5. CASE r.verdict = "junk"
    <3>1. \A q : ~ScanAt(Stream, Done, taken, r, q)
      BY <2>5 DEF ScanAt
    <3> QED BY <1>1, <1>4, <2>2, <3>1, ScanMeets
  <2> QED BY <2>4, <2>5
<1> QED BY <1>1, <1>3, <1>4 DEF WaitForMore, Keep

(* The buffer is a piece of the stream nothing was cut from, and what was  *)
(* handled and what the parse finds behind it make up the parse.           *)
THEOREM PumpInvariant == Spec => []PumpInv
<1>1. Init => PumpInv
  BY InitPump
<1>2. PumpInv /\ [Next]_vars => PumpInv'
  <2> SUFFICES ASSUME PumpInv, [Next]_vars PROVE PumpInv'
    OBVIOUS
  <2>1. CASE UNCHANGED vars
    <3>1. Done' = Done /\ Stream' = Stream /\ (\A n : UpTo(n)' = UpTo(n))
      BY <2>1 DEF vars, Done, Stream, UpTo
    <3> QED BY <2>1, <3>1 DEF vars, PumpInv, Typed, BufferIsStream, RestsAtPartial, ParsedSoFar
  <2> QED BY <2>1, ReadKeepsPump, HandleKeepsPump, SkipKeepsPump, WaitKeepsPump DEF Next
<1> QED BY <1>1, <1>2, PTL DEF Spec

LEMMA HandledIsParse == PumpInv => ChunkingIrrelevant
<1> SUFFICES ASSUME PumpInv, ~scanning PROVE handled = Parse(UpTo(taken))
  BY DEF ChunkingIrrelevant, UpTo
<1>0. /\ Stream \in Seq(Nat) /\ taken \in Nat /\ Done \in Nat /\ Done <= taken
      /\ taken \in 0..Len(Stream) /\ taken \in taken..Len(Stream)
      /\ rx_buf = SubSeq(Stream, Done + 1, taken)
      /\ handled \in Seq(Seq(Nat)) /\ (rx_buf = <<>> <=> Done = taken)
  BY BufferFacts, SMTT(30) DEF PumpInv, Typed
<1>1. Parses(Stream, taken, ParseFrom(UpTo(taken)), taken)
  BY <1>0, UpToParses
<1>2. Done + 1 \in (taken + 1 - taken)..(taken + 1)
  BY <1>0
<1>3. ParseFrom(UpTo(taken))[Done + 1]
        = ParseStep(Stream, taken, ParseFrom(UpTo(taken)), Done + 1)
  BY <1>1, <1>2 DEF Parses
<1>4. ParseFrom(UpTo(taken))[Done + 1] = <<>>
  <2>1. CASE rx_buf = <<>>
    <3>1. Done = taken
      <4>1. rx_buf = <<>> => Done = taken
        BY <1>0
      <4> QED BY <2>1, <4>1
    <3> HIDE DEF Done
    <3>2. Done \in Nat /\ taken \in Nat
      BY <1>0
    <3>3. Done + 1 > taken
      BY <3>1, <3>2
    <3> QED BY <1>3, <3>3 DEF ParseStep
  <2>2. CASE rx_buf # <<>>
    <3>1. Verdict(rx_buf, 1) = "partial"
      BY <2>2 DEF PumpInv, RestsAtPartial
    <3>2. 1 \in 1..(taken - Done) /\ ~(Done + 1 > taken) /\ taken <= Len(Stream)
      BY <1>0, <2>2
    <3>3. VerdictAt(Stream, taken, Done + 1) = "partial"
      BY <1>0, <3>1, <3>2, VerdictOfPiece
    <3> QED BY <1>3, <3>2, <3>3 DEF ParseStep
  <2> QED BY <2>1, <2>2
<1>5. Parse(UpTo(taken)) = handled \o <<>>
  BY <1>0, <1>4 DEF PumpInv, ParsedSoFar
<1> QED BY <1>0, <1>5, ConcatEmptySeq

(* However the bytes were cut into chunks (pump_rx_ takes what the UART    *)
(* holds), the frames handled are those of one pass over what was read.    *)
THEOREM ChunksDoNotMatter == Spec => []ChunkingIrrelevant
BY HandledIsParse, PumpInvariant, PTL

(* Less than one frame is kept between two pumps, so the cut at RxCap      *)
(* bytes (pump_rx_) never takes a byte.                                    *)
THEOREM BufferStaysSmall == Spec => []BufferBounded
<1>1. PumpInv => BufferBounded
  BY BufferFacts DEF BufferBounded, PumpInv, BufferIsStream
<1> QED BY <1>1, PumpInvariant, PTL

-----------------------------------------------------------------------------
(* Where the pieces of the stream lie.                                     *)
LEMMA PiecesTyped ==
  ASSUME Typed
  PROVE  /\ pieces \in Seq(Seq(Nat)) /\ Len(pieces) \in Nat
         /\ DOMAIN pieces = 1..Len(pieces)
         /\ \A k \in 1..Len(pieces) : pieces[k] \in Seq(Nat) /\ Len(pieces[k]) \in Nat
<1>1. \A p \in Frames \cup Noise : p \in Seq(Nat)
  BY BytesAssumption DEF Frames
<1>2. PICK m \in 0..MaxPieces : pieces \in [1..m -> Frames \cup Noise]
  BY DEF Typed, BoundedSeq, SeqOf
<1>3. m \in Nat /\ pieces \in [1..m -> Seq(Nat)]
  BY <1>1, <1>2, PumpAssumption
<1>4. pieces \in Seq(Seq(Nat))
  BY <1>3, SeqDef
<1>5. /\ Len(pieces) \in Nat /\ DOMAIN pieces = 1..Len(pieces)
      /\ \A k \in 1..Len(pieces) : pieces[k] \in Seq(Nat)
  BY <1>4
<1> QED BY <1>4, <1>5

LEMMA Ends ==
  ASSUME Typed
  PROVE  /\ EndOf(0) = 0 /\ EndOf(Len(pieces)) = Len(Stream)
         /\ \A k \in 0..Len(pieces) : EndOf(k) \in Nat
         /\ \A k \in 1..Len(pieces) : /\ StartOf(k) = EndOf(k - 1) + 1
                                      /\ EndOf(k) = EndOf(k - 1) + Len(pieces[k])
<1>1. /\ \A k : EndOf(k) = Len(FlattenTo(pieces, k))
      /\ \A k : StartOf(k) = EndOf(k - 1) + 1
  BY DEF EndOf, StartOf, FlattenTo
<1>2. pieces \in Seq(Seq(Nat)) /\ Len(pieces) \in Nat
  BY PiecesTyped
<1>3. FlattenTo(pieces, Len(pieces)) = Stream
  BY <1>2, SubSeqFull DEF FlattenTo, Stream
<1>4. FlattenTo(pieces, 0) = <<>> /\ EndOf(0) = 0
  <2>1. FlattenTo(pieces, 0) = <<>>
    BY FlattenToZero
  <2> QED BY <1>1, <2>1
<1>5. \A k \in 0..Len(pieces) : FlattenTo(pieces, k) \in Seq(Nat)
  BY <1>2, FlattenToTyped
<1>6. ASSUME NEW k \in 1..Len(pieces) PROVE EndOf(k) = EndOf(k - 1) + Len(pieces[k])
  <2>1. FlattenTo(pieces, k) = FlattenTo(pieces, k - 1) \o pieces[k]
    BY <1>2, FlattenToNext
  <2>2. k - 1 \in 0..Len(pieces)
    BY <1>2
  <2>3. FlattenTo(pieces, k - 1) \in Seq(Nat) /\ pieces[k] \in Seq(Nat)
    BY <1>5, <2>2, PiecesTyped
  <2>4. Len(FlattenTo(pieces, k - 1) \o pieces[k]) = Len(FlattenTo(pieces, k - 1)) + Len(pieces[k])
    BY <2>3, ConcatProperties
  <2> QED BY <1>1, <2>1, <2>4
<1>7. \A k \in 0..Len(pieces) : EndOf(k) \in Nat
  BY <1>1, <1>5, LenProperties
<1> QED BY <1>1, <1>3, <1>4, <1>6, <1>7

LEMMA EndsInOrder ==
  ASSUME Typed, NEW k \in 0..Len(pieces), NEW m \in k..Len(pieces)
  PROVE  EndOf(k) <= EndOf(m)
<1>1. pieces \in Seq(Seq(Nat)) /\ Len(pieces) \in Nat
  BY PiecesTyped
<1>2. PICK t \in Seq(Nat) : FlattenTo(pieces, m) = FlattenTo(pieces, k) \o t
  BY <1>1, FlattenToGrows
<1>3. FlattenTo(pieces, k) \in Seq(Nat)
  BY <1>1, FlattenToTyped
<1>4. Len(FlattenTo(pieces, m)) = Len(FlattenTo(pieces, k)) + Len(t) /\ Len(t) \in Nat
      /\ Len(FlattenTo(pieces, k)) \in Nat
  BY <1>2, <1>3, ConcatProperties, LenProperties
<1> QED BY <1>4 DEF EndOf, FlattenTo

LEMMA BytesOfPiece ==
  ASSUME Typed, NEW k \in 1..Len(pieces)
  PROVE  /\ \A j \in 1..Len(pieces[k]) : Stream[EndOf(k - 1) + j] = pieces[k][j]
         /\ EndOf(k) <= Len(Stream)
<1>1. pieces \in Seq(Seq(Nat)) /\ Len(pieces) \in Nat /\ pieces[k] \in Seq(Nat)
  BY PiecesTyped
<1>2. k - 1 \in 0..Len(pieces) /\ k \in 0..Len(pieces) /\ Len(pieces) \in k..Len(pieces)
  BY <1>1
<1>3. PICK t \in Seq(Nat) : FlattenTo(pieces, Len(pieces)) = FlattenTo(pieces, k) \o t
  BY <1>1, <1>2, FlattenToGrows
<1>4. FlattenTo(pieces, Len(pieces)) = Stream
  BY <1>1, SubSeqFull DEF FlattenTo, Stream
<1>5. PICK s \in Seq(Nat) : s = FlattenTo(pieces, k - 1)
  BY <1>1, <1>2, FlattenToTyped
<1>6. PICK p \in Seq(Nat) : p = pieces[k]
  BY <1>1
<1>7. FlattenTo(pieces, k) = s \o p
  BY <1>1, <1>5, <1>6, FlattenToNext
<1>8. Stream = (s \o p) \o t
  BY <1>3, <1>4, <1>7
<1>9. /\ s \o p \in Seq(Nat) /\ Len(s \o p) = Len(s) + Len(p)
      /\ \A i \in 1..(Len(s) + Len(p)) :
           (s \o p)[i] = IF i <= Len(s) THEN s[i] ELSE p[i - Len(s)]
  BY ConcatProperties
<1>10. \A i \in 1..(Len(s \o p) + Len(t)) :
         ((s \o p) \o t)[i] = IF i <= Len(s \o p) THEN (s \o p)[i] ELSE t[i - Len(s \o p)]
  BY <1>9, ConcatProperties
<1>11. EndOf(k - 1) = Len(s) /\ EndOf(k) <= Len(Stream)
  <2>1. EndOf(k - 1) = Len(s)
    BY <1>5 DEF EndOf, FlattenTo
  <2>2. EndOf(k) <= EndOf(Len(pieces))
    BY <1>2, EndsInOrder
  <2> QED BY <2>1, <2>2, Ends
<1>12. Len(s) \in Nat /\ Len(p) \in Nat /\ Len(t) \in Nat
  BY LenProperties
<1>13. ASSUME NEW j \in 1..Len(p) PROVE Stream[Len(s) + j] = p[j]
  <2>1. PICK i : i = Len(s) + j
    OBVIOUS
  <2>2. /\ i \in 1..(Len(s) + Len(p)) /\ ~(i <= Len(s)) /\ i - Len(s) = j
        /\ i \in 1..(Len(s \o p) + Len(t)) /\ i <= Len(s \o p)
    BY <1>9, <1>12, <2>1
  <2>3. Stream[i] = (s \o p)[i]
    BY <1>8, <1>10, <2>2
  <2> QED BY <1>9, <2>1, <2>2, <2>3
<1> QED BY <1>6, <1>11, <1>13

LEMMA FrontOfPiece ==
  ASSUME Typed, NEW k \in 1..Len(pieces), NEW j \in 0..Len(pieces[k])
  PROVE  SubSeq(Stream, EndOf(k - 1) + 1, EndOf(k - 1) + j) = SubSeq(pieces[k], 1, j)
<1>1. PICK p \in Seq(Nat) : p = pieces[k]
  BY PiecesTyped
<1>2. PICK a \in Nat : a = EndOf(k - 1)
  BY PiecesTyped, Ends, k - 1 \in 0..Len(pieces)
<1>3. Len(p) \in Nat /\ j \in Nat /\ j <= Len(p)
  BY <1>1
<1>4. PICK n \in Nat : n = a + j
  BY <1>3
<1>5. Stream \in Seq(Nat) /\ Len(Stream) \in Nat
  BY StreamTyped
<1>6. a <= n /\ n <= Len(Stream) /\ n - a = j
  <2>1. EndOf(k) = a + Len(p) /\ EndOf(k) <= Len(Stream)
    BY <1>1, <1>2, Ends, BytesOfPiece
  <2> QED BY <1>3, <1>4, <1>5, <2>1
<1>7. /\ SubSeq(Stream, a + 1, n) \in Seq(Nat) /\ Len(SubSeq(Stream, a + 1, n)) = j
      /\ \A i \in 1..j : SubSeq(Stream, a + 1, n)[i] = Stream[a + i]
  BY <1>5, <1>6, Piece
<1>8. /\ SubSeq(p, 1, j) \in Seq(Nat) /\ Len(SubSeq(p, 1, j)) = j
      /\ \A i \in 1..j : SubSeq(p, 1, j)[i] = p[i]
  <2>1. /\ SubSeq(p, 0 + 1, j) \in Seq(Nat) /\ Len(SubSeq(p, 0 + 1, j)) = j - 0
        /\ \A i \in 1..(j - 0) : SubSeq(p, 0 + 1, j)[i] = p[0 + i]
    BY <1>3, Piece
  <2>2. 0 + 1 = 1 /\ j - 0 = j /\ \A i \in 1..j : 0 + i = i
    BY <1>3
  <2> QED BY <2>1, <2>2
<1>9. \A i \in 1..j : Stream[a + i] = p[i]
  <2>1. \A i \in 1..Len(p) : Stream[a + i] = p[i]
    BY <1>1, <1>2, BytesOfPiece
  <2>2. \A i \in 1..j : i \in 1..Len(p)
    BY <1>3
  <2> QED BY <2>1, <2>2
<1>10. PICK u \in Seq(Nat) : u = SubSeq(Stream, a + 1, n)
  BY <1>7
<1>11. PICK v \in Seq(Nat) : v = SubSeq(p, 1, j)
  BY <1>8
<1>12. Len(u) = Len(v) /\ \A i \in 1..Len(u) : u[i] = v[i]
  BY <1>7, <1>8, <1>9, <1>10, <1>11
<1>13. u = v
  BY <1>12, SeqEqual
<1> QED BY <1>1, <1>2, <1>4, <1>10, <1>11, <1>13

-----------------------------------------------------------------------------
(* A frame reads as one, once it is there; and nothing else does.          *)
LEMMA FrameForm ==
  ASSUME NEW f \in Frames
  PROVE  /\ f \in Seq(Nat) /\ Len(f) \in FrameMin..FrameMax
         /\ f[1] = Sync /\ f[2] = Len(f) /\ f[3] = Fixed
         /\ f[Len(f)] = Crc(SubSeq(f, 1, Len(f) - 1))
<1>1. PICK p \in Payloads : f = Frame(p)
  BY DEF Frames
<1>2. p \in Seq(Nat) /\ Len(p) \in Nat /\ f \in Seq(Nat) /\ Len(p) + 4 \in FrameMin..FrameMax
  BY <1>1, BytesAssumption, PumpAssumption
<1>3. PICK head \in Seq(Nat) : head = <<Sync, Len(p) + 4, Fixed>>
  <2>1. PICK n \in Nat : n = Len(p) + 4
    BY <1>2
  <2>2. Sync \in Nat /\ Fixed \in Nat
    BY DEF Sync, Fixed
  <2>3. <<Sync, n, Fixed>> \in Seq(Nat)
    BY <2>2
  <2> QED BY <2>1, <2>3
<1>4. Len(head) = 3 /\ head[1] = Sync /\ head[2] = Len(p) + 4 /\ head[3] = Fixed
  BY <1>3
<1>5. PICK body \in Seq(Nat) : body = head \o p
  BY <1>2, ConcatProperties
<1>6. /\ Len(body) = Len(p) + 3
      /\ \A i \in 1..3 : body[i] = head[i]
  <2>1. /\ Len(head \o p) = Len(head) + Len(p)
        /\ \A i \in 1..(Len(head) + Len(p)) :
             (head \o p)[i] = IF i <= Len(head) THEN head[i] ELSE p[i - Len(head)]
    BY <1>2, ConcatProperties
  <2>2. \A i \in 1..3 : i \in 1..(3 + Len(p)) /\ i <= 3
    BY <1>2
  <2> QED BY <1>2, <1>4, <1>5, <2>1, <2>2
<1>7. PICK crc : crc = Crc(body)
  OBVIOUS
<1>8. f = Append(body, crc)
  BY <1>1, <1>3, <1>5, <1>7 DEF Frame
<1>9. PICK X : X = Nat \cup {crc}
  OBVIOUS
<1>10. body \in Seq(X) /\ crc \in X
  <2>1. Nat \subseteq X /\ crc \in X
    BY <1>9
  <2> QED BY <2>1, SeqMonotonic
<1>11. /\ Len(f) = Len(body) + 1 /\ f[Len(body) + 1] = crc
       /\ \A i \in 1..Len(body) : f[i] = body[i]
  BY <1>8, <1>10, AppendProperties
<1>12. /\ Len(f) = Len(p) + 4 /\ Len(f) - 1 = Len(p) + 3 /\ Len(f) = Len(body) + 1
       /\ \A i \in 1..3 : f[i] = head[i]
  <2>1. \A i \in 1..3 : i \in 1..Len(body)
    BY <1>2, <1>6
  <2> QED BY <1>2, <1>6, <1>11, <2>1, SMTT(30)
<1>13. SubSeq(f, 1, Len(f) - 1) = body
  <2>1. PICK j \in Nat : j = Len(p) + 3
    BY <1>2
  <2>2. j <= Len(f) /\ Len(f) \in Nat
    BY <1>2, <1>12, <2>1
  <2>3. /\ SubSeq(f, 0 + 1, j) \in Seq(Nat) /\ Len(SubSeq(f, 0 + 1, j)) = j - 0
        /\ \A i \in 1..(j - 0) : SubSeq(f, 0 + 1, j)[i] = f[0 + i]
    BY <1>2, <2>2, Piece
  <2>4. 0 + 1 = 1 /\ j - 0 = j /\ \A i \in 1..j : 0 + i = i
    BY <2>1
  <2>5. PICK u \in Seq(Nat) : u = SubSeq(f, 1, j)
    BY <2>3, <2>4
  <2>6. Len(u) = Len(body) /\ \A i \in 1..Len(u) : u[i] = body[i]
    BY <1>6, <1>11, <2>1, <2>3, <2>4, <2>5
  <2>7. u = body
    BY <2>6, SeqEqual
  <2> QED BY <1>12, <2>1, <2>5, <2>7
<1>14. f[Len(f)] = Crc(SubSeq(f, 1, Len(f) - 1))
  BY <1>7, <1>11, <1>12, <1>13
<1>15. f[1] = head[1] /\ f[2] = head[2] /\ f[3] = head[3]
  BY <1>12
<1> QED BY <1>2, <1>4, <1>12, <1>14, <1>15

LEMMA FrameReads ==
  ASSUME Typed, NEW k \in 1..Len(pieces), IsFrame(pieces[k]),
         NEW n \in Nat, n <= Len(Stream), StartOf(k) <= n
  PROVE  /\ Stream[StartOf(k) + 1] = Len(pieces[k]) /\ StartOf(k) \in 1..n
         /\ EndOf(k) = StartOf(k) + Len(pieces[k]) - 1
         /\ VerdictAt(Stream, n, StartOf(k)) = IF EndOf(k) <= n THEN "found" ELSE "partial"
<1>1. PICK f : f = pieces[k]
  OBVIOUS
<1>2. /\ f \in Seq(Nat) /\ Len(f) \in FrameMin..FrameMax
      /\ f[1] = Sync /\ f[2] = Len(f) /\ f[3] = Fixed
      /\ f[Len(f)] = Crc(SubSeq(f, 1, Len(f) - 1))
  BY <1>1, FrameForm DEF IsFrame
<1>3. PICK a \in Nat : a = EndOf(k - 1)
  BY PiecesTyped, Ends, k - 1 \in 0..Len(pieces)
<1>4. PICK len \in Nat : len = Len(f)
  BY <1>2
<1>5. PICK s \in Nat : s = a + 1
  OBVIOUS
<1>6. StartOf(k) = s /\ EndOf(k) = a + len /\ EndOf(k) = s + len - 1
  <2>1. StartOf(k) = EndOf(k - 1) + 1 /\ EndOf(k) = EndOf(k - 1) + Len(pieces[k])
    BY Ends
  <2>2. EndOf(k) = a + len
    BY <1>1, <1>3, <1>4, <2>1
  <2>3. a + len = s + len - 1
    BY <1>5
  <2> QED BY <1>3, <1>5, <2>1, <2>2, <2>3
<1>7. \A j \in 1..len : Stream[a + j] = f[j]
  BY <1>1, <1>3, <1>4, BytesOfPiece
<1>8. len \in FrameMin..FrameMax /\ 4 <= len /\ FrameMin <= len
  BY <1>2, <1>4, FrameSizes
<1>9. Stream[s] = Sync /\ Stream[s + 1] = len /\ Stream[s + 2] = Fixed
      /\ Stream[s + len - 1] = Crc(SubSeq(f, 1, len - 1))
  <2>1. s = a + 1 /\ s + 1 = a + 2 /\ s + 2 = a + 3 /\ s + len - 1 = a + len
    BY <1>5
  <2>2. 1 \in 1..len /\ 2 \in 1..len /\ 3 \in 1..len /\ len \in 1..len
    BY <1>8
  <2> QED BY <1>2, <1>4, <1>7, <2>1, <2>2
<1>10. SubSeq(Stream, s, s + len - 2) = SubSeq(f, 1, len - 1)
  <2>1. len - 1 \in 0..len /\ s + len - 2 = a + (len - 1)
    BY <1>5, <1>8
  <2>2. len = Len(pieces[k])
    BY <1>1, <1>4
  <2> QED BY <1>1, <1>3, <1>5, <2>1, <2>2, FrontOfPiece
<1>11. CrcAt(Stream, s)
  BY <1>9, <1>10 DEF CrcAt
<1>12. LengthOk(len)
  BY <1>8, FrameSizes DEF LengthOk
<1>13. /\ Stream[StartOf(k) + 1] = Len(pieces[k]) /\ StartOf(k) \in 1..n
       /\ EndOf(k) = StartOf(k) + Len(pieces[k]) - 1
  <2>1. s \in 1..n
    BY <1>5, <1>6
  <2>2. len = Len(pieces[k])
    BY <1>1, <1>4
  <2> QED BY <1>6, <1>9, <2>1, <2>2
<1>14. CASE s + len - 1 <= n
  <2>1. ~(s + FrameMin - 1 > n) /\ ~(s + len - 1 > n)
    BY <1>8, <1>14, FrameSizes
  <2>2. LengthOk(Stream[s + 1]) /\ ~(s + Stream[s + 1] - 1 > n)
    BY <1>9, <1>12, <2>1
  <2>3. VerdictAt(Stream, n, s) = "found"
    BY <1>9, <1>11, <2>1, <2>2 DEF VerdictAt
  <2> QED BY <1>6, <1>14, <1>13, <2>3
<1>15. CASE ~(s + len - 1 <= n)
  <2>1. s + len - 1 > n
    BY <1>15
  <2>2. LengthOk(Stream[s + 1]) /\ s + Stream[s + 1] - 1 > n
    BY <1>9, <1>12, <2>1
  <2>3. VerdictAt(Stream, n, s) = "partial"
    BY <1>9, <2>2 DEF VerdictAt
  <2> QED BY <1>6, <1>15, <1>13, <2>3
<1> QED BY <1>14, <1>15

LEMMA NoFrameInside ==
  ASSUME Typed, NoForgery, NEW k \in 1..Len(pieces), ~IsFrame(pieces[k]),
         NEW n \in Nat, n <= Len(Stream), NEW i \in StartOf(k)..EndOf(k), i \in 1..n
  PROVE  VerdictAt(Stream, n, i) # "found"
<1> SUFFICES ASSUME VerdictAt(Stream, n, i) = "found" PROVE FALSE
  OBVIOUS
<1>1. Stream \in Seq(Nat) /\ Len(Stream) \in Nat /\ Len(pieces) \in Nat
  BY StreamTyped, PiecesTyped
<1>2. PICK N \in Nat : N = Len(Stream)
  BY <1>1
<1>3. VerdictAt(Stream, N, i) = "found"
  BY <1>1, <1>2, VerdictStands
<1>4. Verdict(Stream, i) = "found"
  <2>1. PICK z \in Nat : z = 0
    OBVIOUS
  <2>2. i \in 1..(N - z) /\ z <= N /\ z + i = i /\ z + 1 = 1 /\ N <= Len(Stream)
    BY <1>2, <2>1
  <2>3. SubSeq(Stream, z + 1, N) = Stream
    BY <1>1, <1>2, <2>2, SubSeqFull
  <2>4. Verdict(SubSeq(Stream, z + 1, N), i) = VerdictAt(Stream, N, z + i)
    BY <1>1, <2>2, VerdictOfPiece
  <2> QED BY <1>3, <2>2, <2>3, <2>4
<1>5. i \in DOMAIN Stream
  BY <1>1
<1>6. PICK m \in 1..Len(pieces) : IsFrame(pieces[m]) /\ i = StartOf(m)
  BY <1>4, <1>5, PiecesTyped DEF NoForgery
<1>7. /\ EndOf(k - 1) \in Nat /\ EndOf(m - 1) \in Nat /\ EndOf(k) \in Nat /\ EndOf(m) \in Nat
      /\ StartOf(k) = EndOf(k - 1) + 1 /\ StartOf(m) = EndOf(m - 1) + 1
      /\ EndOf(m) = EndOf(m - 1) + Len(pieces[m])
  <2>1. k - 1 \in 0..Len(pieces) /\ m - 1 \in 0..Len(pieces)
        /\ k \in 0..Len(pieces) /\ m \in 0..Len(pieces)
    BY <1>1
  <2> QED BY <2>1, Ends
<1>8. Len(pieces[m]) \in Nat /\ Len(pieces[m]) >= 1
  BY <1>6, FrameForm, FrameSizes DEF IsFrame
<1>9. CASE m < k
  <2>1. m \in 0..Len(pieces) /\ k - 1 \in m..Len(pieces)
    BY <1>1, <1>9
  <2>2. EndOf(m) <= EndOf(k - 1)
    BY <2>1, EndsInOrder
  <2> QED BY <1>6, <1>7, <1>8, <2>2
<1>10. CASE k < m
  <2>1. k \in 0..Len(pieces) /\ m - 1 \in k..Len(pieces)
    BY <1>1, <1>10
  <2>2. EndOf(k) <= EndOf(m - 1)
    BY <2>1, EndsInOrder
  <2> QED BY <1>6, <1>7, <2>2
<1>11. m # k
  BY <1>6
<1> QED BY <1>9, <1>10, <1>11

-----------------------------------------------------------------------------
(* The parse goes from piece to piece: through each frame that is there,   *)
(* over the noise, until it stops before something that may yet be a frame.*)
LEMMA SentParts ==
  ASSUME Typed
  PROVE  /\ Sent \in Seq(Seq(Seq(Nat))) /\ Len(Sent) = Len(pieces)
         /\ \A k \in 1..Len(pieces) :
              Sent[k] = IF IsFrame(pieces[k]) THEN <<pieces[k]>> ELSE <<>>
<1>1. Len(pieces) \in Nat /\ DOMAIN pieces = 1..Len(pieces)
      /\ \A k \in 1..Len(pieces) : pieces[k] \in Seq(Nat)
  BY PiecesTyped
<1>2. PICK N \in Nat : N = Len(pieces)
  BY <1>1
<1>3. /\ DOMAIN Sent = 1..N
      /\ \A k \in 1..N : Sent[k] = IF IsFrame(pieces[k]) THEN <<pieces[k]>> ELSE <<>>
  BY <1>1, <1>2 DEF Sent
<1>4. \A k \in 1..N : Sent[k] \in Seq(Seq(Nat))
  <2> TAKE k \in 1..N
  <2>1. PICK p \in Seq(Nat) : p = pieces[k]
    BY <1>1, <1>2
  <2>2. <<p>> \in Seq(Seq(Nat)) /\ <<>> \in Seq(Seq(Nat))
    OBVIOUS
  <2> QED BY <1>3, <2>1, <2>2
<1>5. Sent \in [1..N -> Seq(Seq(Nat))]
  BY <1>3, <1>4 DEF Sent
<1>6. Sent \in Seq(Seq(Seq(Nat)))
  BY <1>5, SeqDef
<1>7. Len(Sent) = N
  BY <1>3, <1>6, LenProperties
<1> QED BY <1>2, <1>3, <1>6, <1>7

LEMMA SentGrows ==
  ASSUME Typed
  PROVE  /\ SentUpTo(0) = <<>>
         /\ \A k \in 0..Len(pieces) : SentUpTo(k) \in Seq(Seq(Nat))
         /\ \A k \in 1..Len(pieces) : SentUpTo(k) = SentUpTo(k - 1) \o Sent[k]
         /\ \A k \in 0..Len(pieces) : \A m \in k..Len(pieces) :
              \E t \in Seq(Seq(Nat)) : SentUpTo(m) = SentUpTo(k) \o t
<1>1. Sent \in Seq(Seq(Seq(Nat))) /\ Len(Sent) = Len(pieces)
  BY SentParts
<1>2. \A k : SentUpTo(k) = FlattenTo(Sent, k)
  BY DEF SentUpTo, FlattenTo
<1>3. \A k \in 0..Len(pieces) : FlattenTo(Sent, k) \in Seq(Seq(Nat))
  BY <1>1, FlattenToTyped
<1>4. \A k \in 1..Len(pieces) : FlattenTo(Sent, k) = FlattenTo(Sent, k - 1) \o Sent[k]
  BY <1>1, FlattenToNext
<1>5. ASSUME NEW k \in 0..Len(pieces), NEW m \in k..Len(pieces)
      PROVE  \E t \in Seq(Seq(Nat)) : FlattenTo(Sent, m) = FlattenTo(Sent, k) \o t
  <2>1. k \in 0..Len(Sent) /\ m \in k..Len(Sent)
    BY <1>1
  <2> QED BY <1>1, <2>1, FlattenToGrows
<1>6. FlattenTo(Sent, 0) = <<>>
  BY FlattenToZero
<1> QED BY <1>2, <1>3, <1>4, <1>5, <1>6

StopsIn(n, g, k) ==
  /\ g[StartOf(k)] = <<>>
  /\ IsFrame(pieces[k]) => EndOf(k) > n
  /\ \E i \in StartOf(k)..EndOf(k) : i > n \/ VerdictAt(Stream, n, i) = "partial"
GoesThrough(n, g, k) ==
  EndOf(k) <= n /\ g[StartOf(k)] = Sent[k] \o g[EndOf(k) + 1]

LEMMA PieceBounds ==
  ASSUME Typed, NEW k \in 1..Len(pieces)
  PROVE  /\ EndOf(k - 1) \in Nat /\ EndOf(k) \in Nat /\ StartOf(k) \in Nat
         /\ StartOf(k) = EndOf(k - 1) + 1 /\ EndOf(k - 1) <= EndOf(k)
         /\ EndOf(k) = EndOf(k - 1) + Len(pieces[k]) /\ Len(pieces[k]) \in Nat
         /\ EndOf(k) <= Len(Stream)
<1>1. k - 1 \in 0..Len(pieces) /\ k \in 0..Len(pieces)
  BY PiecesTyped
<1>2. /\ EndOf(k - 1) \in Nat /\ EndOf(k) \in Nat
      /\ StartOf(k) = EndOf(k - 1) + 1
      /\ EndOf(k) = EndOf(k - 1) + Len(pieces[k]) /\ Len(pieces[k]) \in Nat
  BY <1>1, Ends, PiecesTyped
<1> QED BY <1>2, BytesOfPiece

LEMMA ThroughFrame ==
  ASSUME Typed, NEW n \in Nat, n <= Len(Stream), NEW g, Parses(Stream, n, g, n),
         NEW k \in 1..Len(pieces), EndOf(k - 1) <= n, IsFrame(pieces[k])
  PROVE  GoesThrough(n, g, k) \/ StopsIn(n, g, k)
<1>1. PICK a \in Nat : a = EndOf(k - 1)
  BY PieceBounds
<1>2. PICK p \in Seq(Nat) : p = pieces[k]
  BY PiecesTyped
<1>3. PICK len \in Nat : len = Len(p)
  BY <1>2
<1>4. PICK s \in Nat : s = a + 1
  OBVIOUS
<1>5. PICK e \in Nat : e = a + len
  OBVIOUS
<1>6. StartOf(k) = s /\ EndOf(k) = e /\ a <= n
  BY <1>1, <1>2, <1>3, <1>4, <1>5, PieceBounds
<1>7. len >= 4 /\ s \in s..e
  <2>1. Len(pieces[k]) \in FrameMin..FrameMax
    BY FrameForm DEF IsFrame
  <2>2. len >= 4
    BY <1>2, <1>3, <2>1, FrameSizes
  <2> QED BY <1>4, <1>5, <2>2
<1>8. \A i \in 1..(n + 1) : g[i] = ParseStep(Stream, n, g, i)
  <2>1. n + 1 - n = 1
    OBVIOUS
  <2> QED BY <2>1 DEF Parses
<1>9. s \in 1..(n + 1)
  BY <1>4, <1>6
<1>10. CASE s > n
  <2>1. g[s] = <<>>
    BY <1>8, <1>9, <1>10 DEF ParseStep
  <2>2. e > n
    BY <1>4, <1>5, <1>7, <1>10
  <2> QED BY <1>6, <1>7, <1>10, <2>1, <2>2 DEF StopsIn
<1>11. CASE ~(s > n)
  <2>1. s <= n
    BY <1>11
  <2>2. /\ Stream[s + 1] = len /\ e = s + len - 1
        /\ VerdictAt(Stream, n, s) = IF e <= n THEN "found" ELSE "partial"
    BY <1>2, <1>3, <1>6, <2>1, FrameReads
  <2>3. CASE e <= n
    <3>1. VerdictAt(Stream, n, s) = "found"
      BY <2>2, <2>3
    <3>2. g[s] = <<SubSeq(Stream, s, s + len - 1)>> \o g[s + len]
      BY <1>8, <1>9, <1>11, <2>2, <3>1 DEF ParseStep
    <3>3. SubSeq(Stream, s, e) = p
      <4>1. SubSeq(Stream, a + 1, a + len) = SubSeq(p, 1, len)
        <5>1. len \in 0..Len(pieces[k])
          BY <1>2, <1>3
        <5> QED BY <1>1, <1>2, <5>1, FrontOfPiece
      <4>2. SubSeq(p, 1, len) = p
        BY <1>3, SubSeqFull
      <4> QED BY <1>4, <1>5, <4>1, <4>2
    <3>4. s + len - 1 = e /\ s + len = e + 1
      BY <1>4, <1>5
    <3>5. Sent[k] = <<p>>
      BY <1>2, SentParts
    <3>6. g[s] = <<p>> \o g[e + 1]
      BY <3>2, <3>3, <3>4
    <3> QED BY <1>6, <2>3, <3>5, <3>6 DEF GoesThrough
  <2>4. CASE ~(e <= n)
    <3>1. VerdictAt(Stream, n, s) = "partial" /\ e > n
      BY <2>2, <2>4
    <3>2. g[s] = <<>>
      BY <1>8, <1>9, <1>11, <3>1 DEF ParseStep
    <3> QED BY <1>6, <1>7, <3>1, <3>2 DEF StopsIn
  <2> QED BY <2>3, <2>4
<1> QED BY <1>10, <1>11

LEMMA OverNoise ==
  ASSUME Typed, NoForgery, NEW n \in Nat, n <= Len(Stream), NEW g, Parses(Stream, n, g, n),
         NEW k \in 1..Len(pieces), EndOf(k - 1) <= n, ~IsFrame(pieces[k])
  PROVE  GoesThrough(n, g, k) \/ StopsIn(n, g, k)
<1>1. PICK s \in Nat : s = StartOf(k)
  BY PieceBounds
<1>2. PICK e \in Nat : e = EndOf(k)
  BY PieceBounds
<1>3. s >= 1 /\ s <= n + 1 /\ s <= e + 1
  BY <1>1, <1>2, PieceBounds
<1>4. Stream \in Seq(Nat)
  BY StreamTyped
<1>5. \A i \in 1..(n + 1) : g[i] = ParseStep(Stream, n, g, i) /\ g[i] \in Seq(Seq(Nat))
  <2>1. n + 1 - n = 1
    OBVIOUS
  <2> QED BY <2>1 DEF Parses
<1>6. \A i \in s..e : i <= n => VerdictAt(Stream, n, i) # "found"
  <2> TAKE i \in s..e
  <2> HAVE i <= n
  <2>1. i \in 1..n /\ i \in StartOf(k)..EndOf(k)
    BY <1>1, <1>2, <1>3
  <2> QED BY <2>1, NoFrameInside
<1> DEFINE Stop(i) == i > n \/ VerdictAt(Stream, n, i) = "partial"
           T == {i \in s..e : Stop(i)}
<1>7. ASSUME NEW m \in s..(e + 1), \A i \in s..(m - 1) : ~Stop(i)
      PROVE  m <= n + 1 /\ g[s] = g[m]
  <2>1. m <= n + 1
    <3>1. CASE m = s
      BY <1>3, <3>1
    <3>2. CASE m # s
      <4>1. m - 1 \in s..(m - 1)
        BY <3>2
      <4>2. ~(m - 1 > n)
        BY <1>7, <4>1
      <4> QED BY <4>2
    <3> QED BY <3>1, <3>2
  <2>2. \A i \in s..(m - 1) : VerdictAt(Stream, n, i) \notin {"partial", "found"}
    <3> TAKE i \in s..(m - 1)
    <3>1. i \in s..e
      OBVIOUS
    <3>2. i <= n /\ VerdictAt(Stream, n, i) # "partial"
      BY <1>7
    <3> QED BY <1>6, <3>1, <3>2
  <2>3. s \in 1..(n + 1) /\ m \in s..(n + 1)
    BY <1>3, <2>1
  <2>4. g[s] = g[m]
    BY <1>4, <2>2, <2>3, SkippedOver, SMTT(30)
  <2> QED BY <2>1, <2>4
<1>8. CASE T = {}
  <2>1. e + 1 \in s..(e + 1) /\ (e + 1) - 1 = e
    BY <1>3
  <2>2. \A i \in s..e : ~Stop(i)
    BY <1>8
  <2>3. e + 1 <= n + 1 /\ g[s] = g[e + 1]
    BY <1>7, <2>1, <2>2
  <2>4. Sent[k] = <<>>
    BY SentParts
  <2>5. e + 1 \in 1..(n + 1) /\ e <= n
    BY <2>3
  <2>6. <<>> \o g[e + 1] = g[e + 1]
    BY <1>5, <2>5, ConcatEmptySeq
  <2> QED BY <1>1, <1>2, <2>3, <2>4, <2>5, <2>6 DEF GoesThrough
<1>9. CASE T # {}
  <2>1. T \subseteq Nat
    OBVIOUS
  <2>2. PICK i \in T : \A j \in T : i <= j
    BY <1>9, <2>1, LeastMember
  <2>3. i \in s..(e + 1) /\ i \in s..e /\ Stop(i)
    BY <2>2
  <2>4. \A j \in s..(i - 1) : ~Stop(j)
    <3> TAKE j \in s..(i - 1)
    <3>1. j \in s..e /\ ~(i <= j)
      BY <2>3
    <3> QED BY <2>2, <3>1
  <2>5. i <= n + 1 /\ g[s] = g[i]
    BY <1>7, <2>3, <2>4
  <2>6. i \in 1..(n + 1)
    BY <1>3, <2>3, <2>5
  <2>7. g[i] = <<>>
    BY <1>5, <2>3, <2>6 DEF ParseStep
  <2> QED BY <1>1, <1>2, <2>3, <2>5, <2>7 DEF StopsIn
<1> QED BY <1>8, <1>9

LEMMA FramesRegroup ==
  ASSUME NEW q \in Seq(Seq(Nat)), NEW u \in Seq(Seq(Nat)), NEW v \in Seq(Seq(Nat))
  PROVE  (q \o u) \o v = q \o (u \o v)
  BY ConcatAssociative, SMTT(30)

LEMMA Walk ==
  ASSUME Typed, NoForgery, NEW n \in Nat, n <= Len(Stream), NEW g, Parses(Stream, n, g, n),
         NEW k \in 0..Len(pieces)
  PROVE  \/ EndOf(k) <= n /\ g[1] = SentUpTo(k) \o g[EndOf(k) + 1]
         \/ \E j \in 1..k : StopsIn(n, g, j) /\ g[1] = SentUpTo(j - 1)
<1> DEFINE Reaches(i) == EndOf(i) <= n /\ g[1] = SentUpTo(i) \o g[EndOf(i) + 1]
           Stopped(i) == \E j \in 1..i : StopsIn(n, g, j) /\ g[1] = SentUpTo(j - 1)
           T == {i \in Nat : i <= Len(pieces) => Reaches(i) \/ Stopped(i)}
<1>1. Len(pieces) \in Nat
  BY PiecesTyped
<1>2. \A i \in 1..(n + 1) : g[i] \in Seq(Seq(Nat))
  <2>1. n + 1 - n = 1
    OBVIOUS
  <2> QED BY <2>1 DEF Parses
<1>3. Reaches(0)
  <2>1. EndOf(0) = 0 /\ SentUpTo(0) = <<>> /\ 0 + 1 = 1 /\ 1 \in 1..(n + 1)
    BY Ends, SentGrows
  <2>2. PICK r \in Seq(Seq(Nat)) : r = g[1]
    BY <1>2, <2>1
  <2>3. <<>> \o r = r
    BY ConcatEmptySeq
  <2>4. g[EndOf(0) + 1] = r /\ EndOf(0) <= n
    BY <2>1, <2>2
  <2> QED BY <2>1, <2>2, <2>3, <2>4
<1>4. ASSUME NEW i \in 1..Len(pieces), Reaches(i - 1) PROVE Reaches(i) \/ Stopped(i)
  <2>1. EndOf(i - 1) <= n
    BY <1>4
  <2>2. GoesThrough(n, g, i) \/ StopsIn(n, g, i)
    BY <2>1, ThroughFrame, OverNoise
  <2>3. /\ StartOf(i) = EndOf(i - 1) + 1 /\ StartOf(i) \in 1..(n + 1)
        /\ EndOf(i) \in Nat
    BY <2>1, PieceBounds
  <2>4. PICK q \in Seq(Seq(Nat)) : q = SentUpTo(i - 1)
    <3>1. i - 1 \in 0..Len(pieces)
      BY <1>1
    <3> QED BY <3>1, SentGrows
  <2>5. g[1] = q \o g[StartOf(i)]
    BY <1>4, <2>3, <2>4
  <2>6. CASE StopsIn(n, g, i)
    <3>1. g[1] = q \o <<>>
      BY <2>5, <2>6 DEF StopsIn
    <3>2. g[1] = q /\ i \in 1..i
      BY <3>1, ConcatEmptySeq
    <3> QED BY <2>4, <2>6, <3>2
  <2>7. CASE GoesThrough(n, g, i)
    <3>1. EndOf(i) <= n /\ g[StartOf(i)] = Sent[i] \o g[EndOf(i) + 1]
      BY <2>7 DEF GoesThrough
    <3>2. PICK u \in Seq(Seq(Nat)) : u = Sent[i]
      BY SentParts
    <3>3. PICK v \in Seq(Seq(Nat)) : v = g[EndOf(i) + 1]
      BY <1>2, <2>3, <3>1
    <3>4. (q \o u) \o v = q \o (u \o v)
      BY FramesRegroup
    <3>5. SentUpTo(i) = q \o u
      BY <2>4, <3>2, SentGrows
    <3> QED BY <2>5, <3>1, <3>2, <3>3, <3>4, <3>5
  <2> QED BY <2>2, <2>6, <2>7
<1>5. ASSUME NEW i \in 1..Len(pieces), Stopped(i - 1) PROVE Stopped(i)
  BY <1>5
<1> HIDE DEF Reaches, Stopped
<1>6. 0 \in T
  BY <1>3
<1>7. ASSUME NEW i \in Nat, i <= Len(pieces) => Reaches(i) \/ Stopped(i), i + 1 <= Len(pieces)
      PROVE  Reaches(i + 1) \/ Stopped(i + 1)
  <2>1. i + 1 \in 1..Len(pieces) /\ (i + 1) - 1 = i /\ i <= Len(pieces)
    BY <1>1, <1>7
  <2>2. Reaches((i + 1) - 1) \/ Stopped((i + 1) - 1)
    BY <1>7, <2>1
  <2> QED BY <1>4, <1>5, <2>1, <2>2
<1>8. \A i \in Nat : i \in T => i + 1 \in T
  BY <1>7
<1> HIDE DEF T
<1>9. Nat \subseteq T
  BY <1>6, <1>8, SetInduction
<1>10. Reaches(k) \/ Stopped(k)
  BY <1>1, <1>9 DEF T
<1> QED BY <1>10 DEF Reaches, Stopped

-----------------------------------------------------------------------------
LEMMA PrefixOfConcat ==
  ASSUME NEW X, NEW a \in Seq(X), NEW b \in Seq(X)
  PROVE  IsPrefix(a, a \o b) /\ Len(a) <= Len(a \o b)
<1>1. Len(a) \in Nat /\ Len(b) \in Nat /\ Len(a \o b) = Len(a) + Len(b)
  BY ConcatProperties, LenProperties
<1>2. Len(a) <= Len(a \o b)
  BY <1>1
<1>3. SubSeq(a, 1, Len(a)) = SubSeq(a \o b, 1, Len(a))
  <2>1. CASE Len(a) = 0
    <3>1. SubSeq(a, 1, 0) = <<>> /\ SubSeq(a \o b, 1, 0) = <<>>
      BY 0 < 1, SubSeqEmpty
    <3> QED BY <2>1, <3>1
  <2>2. CASE Len(a) # 0
    <3>1. 1 \in 1..Len(a) /\ Len(a) \in 1..Len(a)
      BY <1>1, <2>2
    <3> QED BY <3>1, SubSeqOfConcat1
  <2> QED BY <2>1, <2>2
<1> QED BY <1>2, <1>3 DEF IsPrefix

(* One pass over what was read finds the first of the frames sent. *)
LEMMA ParseIsSent ==
  ASSUME PumpInv, NoForgery
  PROVE  \E j \in 0..Len(pieces) : Parse(UpTo(taken)) = SentUpTo(j)
<1>1. /\ Typed /\ Stream \in Seq(Nat) /\ taken \in Nat /\ taken <= Len(Stream)
      /\ taken \in 0..Len(Stream) /\ Len(Stream) \in Nat /\ Len(pieces) \in Nat
  BY BufferFacts, PiecesTyped DEF PumpInv
<1>2. PICK g : g = ParseFrom(UpTo(taken))
  OBVIOUS
<1>3. Parses(Stream, taken, g, taken) /\ Parse(UpTo(taken)) = g[1]
  BY <1>1, <1>2, UpToParses DEF Parse
<1>4. PICK N \in Nat : N = Len(pieces)
  BY <1>1
<1>5. N \in 0..Len(pieces) /\ EndOf(N) = Len(Stream)
  BY <1>1, <1>4, Ends
<1>6. \/ EndOf(N) <= taken /\ g[1] = SentUpTo(N) \o g[EndOf(N) + 1]
      \/ \E j \in 1..N : StopsIn(taken, g, j) /\ g[1] = SentUpTo(j - 1)
  BY <1>1, <1>3, <1>5, Walk
<1>7. CASE EndOf(N) <= taken /\ g[1] = SentUpTo(N) \o g[EndOf(N) + 1]
  <2>1. EndOf(N) = taken
    BY <1>1, <1>5, <1>7
  <2>2. taken + 1 \in (taken + 1 - taken)..(taken + 1) /\ taken + 1 > taken
    BY <1>1
  <2>3. g[taken + 1] = <<>>
    BY <1>3, <2>2 DEF Parses, ParseStep
  <2>4. PICK q \in Seq(Seq(Nat)) : q = SentUpTo(N)
    BY <1>1, <1>5, SentGrows
  <2>5. g[1] = q \o <<>>
    BY <1>7, <2>1, <2>3, <2>4
  <2>6. g[1] = q
    BY <2>5, ConcatEmptySeq
  <2> QED BY <1>3, <1>5, <2>4, <2>6
<1>8. CASE \E j \in 1..N : StopsIn(taken, g, j) /\ g[1] = SentUpTo(j - 1)
  <2>1. PICK j \in 1..N : g[1] = SentUpTo(j - 1)
    BY <1>8
  <2>2. j - 1 \in 0..Len(pieces)
    BY <1>4
  <2> QED BY <1>3, <2>1, <2>2
<1> QED BY <1>6, <1>7, <1>8

(* None of the frames sent is lost, none handled twice or out of turn,     *)
(* and none made up, as long as no other bytes happen to form one.         *)
THEOREM FramesInOrder == Spec /\ []NoForgery => []HandledInOrder
<1>1. PumpInv /\ NoForgery => HandledInOrder
  <2> SUFFICES ASSUME PumpInv, NoForgery PROVE IsPrefix(handled, SentUpTo(Len(pieces)))
    BY DEF HandledInOrder
  <2>1. /\ Typed /\ Stream \in Seq(Nat) /\ taken \in Nat /\ Done \in Nat /\ Done <= taken
        /\ taken \in 0..Len(Stream) /\ taken \in taken..Len(Stream) /\ Len(pieces) \in Nat
    BY BufferFacts, PiecesTyped DEF PumpInv
  <2>2. PICK N \in Nat : N = Len(pieces)
    BY <2>1
  <2>3. PICK j \in 0..N : Parse(UpTo(taken)) = SentUpTo(j)
    BY <2>2, ParseIsSent
  <2>4. PICK t \in Seq(Seq(Nat)) : SentUpTo(N) = SentUpTo(j) \o t
    BY <2>1, <2>2, SentGrows, N \in j..Len(pieces), j \in 0..Len(pieces)
  <2>5. PICK rest \in Seq(Seq(Nat)) : rest = ParseFrom(UpTo(taken))[Done + 1]
    BY <2>1, UpToParses, Done + 1 \in 1..(taken + 1)
  <2>6. Parse(UpTo(taken)) = handled \o rest
    BY <2>1, <2>5 DEF PumpInv, ParsedSoFar
  <2>7. PICK h \in Seq(Seq(Nat)) : h = handled
    BY DEF PumpInv, Typed
  <2>8. SentUpTo(N) = (h \o rest) \o t
    BY <2>3, <2>4, <2>6, <2>7
  <2>9. (h \o rest) \o t = h \o (rest \o t)
    BY FramesRegroup
  <2>10. PICK u \in Seq(Seq(Nat)) : u = rest \o t
    BY ConcatProperties
  <2>11. IsPrefix(h, h \o u)
    BY PrefixOfConcat
  <2> QED BY <2>2, <2>7, <2>8, <2>9, <2>10, <2>11
<1> QED BY <1>1, PumpInvariant, PTL

(* A frame is handled as soon as its last byte is read; behind noise, at   *)
(* the latest when the longest frame that could begin in the noise would   *)
(* be complete: pump_rx_ waits for no more than that.                      *)
THEOREM PumpResynchronises == Spec /\ []NoForgery => []Resynchronises
<1>1. PumpInv /\ NoForgery => Resynchronises
  <2> SUFFICES ASSUME PumpInv, NoForgery, ~scanning, NEW k \in DOMAIN pieces,
                      IsFrame(pieces[k]), taken >= EndOf(k),
                      \/ \A j \in 1..k : IsFrame(pieces[j])
                      \/ taken >= StartOf(k) + FrameMax - 2
               PROVE  Len(handled) >= Len(SentUpTo(k))
    BY DEF Resynchronises
  <2>1. /\ Typed /\ Stream \in Seq(Nat) /\ taken \in Nat /\ taken <= Len(Stream)
        /\ taken \in 0..Len(Stream) /\ Len(pieces) \in Nat /\ k \in 1..Len(pieces)
        /\ k \in 0..Len(pieces) /\ FrameMax \in Nat
    BY BufferFacts, PiecesTyped, FrameSizes DEF PumpInv
  <2>2. PICK g : g = ParseFrom(UpTo(taken))
    OBVIOUS
  <2>3. Parses(Stream, taken, g, taken) /\ handled = g[1]
    BY <2>1, <2>2, UpToParses, HandledIsParse DEF Parse, ChunkingIrrelevant, UpTo
  <2>4. \/ EndOf(k) <= taken /\ g[1] = SentUpTo(k) \o g[EndOf(k) + 1]
        \/ \E j \in 1..k : StopsIn(taken, g, j) /\ g[1] = SentUpTo(j - 1)
    BY <2>1, <2>3, Walk
  <2>5. CASE EndOf(k) <= taken /\ g[1] = SentUpTo(k) \o g[EndOf(k) + 1]
    <3>1. PICK q \in Seq(Seq(Nat)) : q = SentUpTo(k)
      BY <2>1, SentGrows
    <3>2. EndOf(k) + 1 \in 1..(taken + 1)
      BY <2>1, <2>5, PieceBounds, SMTT(30)
    <3>3. PICK r \in Seq(Seq(Nat)) : r = g[EndOf(k) + 1]
      <4>1. taken + 1 - taken = 1
        BY <2>1
      <4> QED BY <2>3, <3>2, <4>1 DEF Parses
    <3>4. handled = q \o r
      BY <2>3, <2>5, <3>1, <3>3
    <3>5. Len(q \o r) = Len(q) + Len(r) /\ Len(q) \in Nat /\ Len(r) \in Nat
      BY ConcatProperties, LenProperties
    <3> QED BY <3>1, <3>4, <3>5
  <2>6. ASSUME NEW j \in 1..k, StopsIn(taken, g, j) PROVE FALSE
    <3>1. j \in 1..Len(pieces) /\ j \in 0..Len(pieces) /\ k \in j..Len(pieces)
      BY <2>1
    <3>2. /\ EndOf(j) \in Nat /\ EndOf(k) \in Nat /\ EndOf(k - 1) \in Nat
          /\ StartOf(k) = EndOf(k - 1) + 1 /\ EndOf(k - 1) <= EndOf(k)
          /\ StartOf(j) \in Nat /\ StartOf(j) >= 1
      <4>1. /\ EndOf(k) \in Nat /\ EndOf(k - 1) \in Nat
            /\ StartOf(k) = EndOf(k - 1) + 1 /\ EndOf(k - 1) <= EndOf(k)
        BY <2>1, PieceBounds
      <4>2. /\ EndOf(j) \in Nat /\ EndOf(j - 1) \in Nat /\ StartOf(j) \in Nat
            /\ StartOf(j) = EndOf(j - 1) + 1
        BY <2>1, <3>1, PieceBounds
      <4>3. StartOf(j) >= 1
        BY <4>2
      <4> QED BY <4>1, <4>2, <4>3
    <3>3. EndOf(j) <= EndOf(k) /\ EndOf(j) <= taken
      BY <2>1, <3>1, <3>2, EndsInOrder
    <3>4. ~IsFrame(pieces[j])
      BY <2>1, <2>6, <3>2, <3>3 DEF StopsIn
    <3>5. j # k /\ taken >= StartOf(k) + FrameMax - 2
      BY <3>4
    <3>6. k - 1 \in j..Len(pieces)
      BY <2>1, <3>5
    <3>7. EndOf(j) <= EndOf(k - 1)
      BY <2>1, <3>1, <3>6, EndsInOrder
    <3>8. PICK i \in StartOf(j)..EndOf(j) :
            i > taken \/ VerdictAt(Stream, taken, i) = "partial"
      BY <2>6 DEF StopsIn
    <3>9. i \in 1..taken /\ i + 1 <= StartOf(k)
      BY <2>1, <3>2, <3>3, <3>7
    <3>10. VerdictAt(Stream, taken, i) = "partial"
      BY <2>1, <3>8, <3>9
    <3>11. taken - i + 1 < FrameMax
      BY <2>1, <3>9, <3>10, PartialIsShort
    <3> QED BY <2>1, <3>2, <3>5, <3>9, <3>11, SMTT(30)
  <2> QED BY <2>4, <2>5, <2>6
<1> QED BY <1>1, PumpInvariant, PTL
=============================================================================
