----------------------------- MODULE DataLemmas -----------------------------
(***************************************************************************)
(* Facts about the sequence operators of the models whose definitions are  *)
(* recursive: FlattenSeq and FoldLeft.  The recursion is taken apart by    *)
(* induction on the natural numbers, and that from their being well        *)
(* founded.                                                                *)
(***************************************************************************)
EXTENDS Integers, SequencesExt, SequenceTheorems, WellFoundedInduction, TLAPS

(* Induction on the natural numbers, for a property given as a set.        *)
LEMMA SetInduction ==
  ASSUME NEW S, 0 \in S, \A n \in Nat : n \in S => n + 1 \in S
  PROVE  Nat \subseteq S
<1> DEFINE T == Nat \ S
<1> SUFFICES ASSUME T # {} PROVE FALSE
  OBVIOUS
<1>1. PICK x \in T : \A y \in T : <<y, x>> \notin OpToRel(<, Nat)
  BY NatLessThanWellFounded, WFMin, T \subseteq Nat
<1>2. x \in Nat /\ x # 0 /\ x - 1 \in Nat
  OBVIOUS
<1>3. <<x - 1, x>> \in OpToRel(<, Nat)
  BY <1>2 DEF OpToRel
<1>4. x - 1 \in S
  BY <1>1, <1>2, <1>3
<1>5. (x - 1) + 1 \in S
  BY <1>2, <1>4
<1>6. (x - 1) + 1 = x
  BY <1>2
<1> QED BY <1>5, <1>6

(* A set of natural numbers that is not empty has a least member. *)
LEMMA LeastMember ==
  ASSUME NEW S, S \subseteq Nat, S # {}
  PROVE  \E x \in S : \A y \in S : x <= y
<1>1. PICK x \in S : \A y \in S : <<y, x>> \notin OpToRel(<, Nat)
  BY NatLessThanWellFounded, WFMin
<1>2. ASSUME NEW y \in S PROVE x <= y
  <2>1. ~(y < x)
    BY <1>1 DEF OpToRel
  <2> QED BY <2>1
<1> QED BY <1>2

-----------------------------------------------------------------------------
(* FlattenSeq holds what its parts hold.                                   *)

Has(s, x) == \E i \in DOMAIN s : s[i] = x

Joined(ss, g, m) ==
  g = [i \in 1..m |-> IF i = 1 THEN ss[i] ELSE g[i - 1] \o ss[i]]

LEMMA JoinedExists ==
  ASSUME NEW ss PROVE \A m \in Nat : \E g : Joined(ss, g, m)
<1> DEFINE S == {m \in Nat : \E g : Joined(ss, g, m)}
<1>1. 0 \in S
  <2> DEFINE g == [i \in 1..0 |-> ss[i]]
  <2>1. Joined(ss, g, 0)
    BY DEF Joined
  <2> QED BY <2>1
<1>2. ASSUME NEW m \in Nat, m \in S PROVE m + 1 \in S
  <2>1. PICK g : Joined(ss, g, m)
    BY <1>2
  <2> DEFINE h == [i \in 1..(m + 1) |-> IF i <= m THEN g[i]
                     ELSE IF m = 0 THEN ss[1] ELSE g[m] \o ss[m + 1]]
  <2>2. \A i \in 1..m : h[i] = g[i]
    OBVIOUS
  <2>3. h[m + 1] = IF m = 0 THEN ss[1] ELSE g[m] \o ss[m + 1]
    OBVIOUS
  <2>4. h = [i \in 1..(m + 1) |-> h[i]]
    OBVIOUS
  <2> HIDE DEF h
  <2>5. ASSUME NEW i \in 1..(m + 1)
        PROVE  h[i] = IF i = 1 THEN ss[i] ELSE h[i - 1] \o ss[i]
    <3>1. CASE i = m + 1 /\ m = 0
      BY <2>3, <3>1
    <3>2. CASE i = m + 1 /\ m # 0
      <4>1. i - 1 = m /\ m \in 1..m /\ i # 1
        BY <3>2
      <4>2. h[m] = g[m]
        BY <2>2, <4>1
      <4> QED BY <2>3, <3>2, <4>1, <4>2
    <3>3. CASE i \in 1..m
      <4>1. i = 1 \/ i - 1 \in 1..m
        BY <3>3
      <4>2. g[i] = IF i = 1 THEN ss[i] ELSE g[i - 1] \o ss[i]
        BY <2>1, <3>3 DEF Joined
      <4> QED BY <2>2, <3>3, <4>1, <4>2
    <3> QED BY <3>1, <3>2, <3>3
  <2>6. Joined(ss, h, m + 1)
    BY <2>4, <2>5 DEF Joined
  <2> QED BY <2>6
<1> HIDE DEF S
<1>3. Nat \subseteq S
  BY <1>1, <1>2, SetInduction
<1> QED BY <1>3 DEF S

LEMMA FlattenIsJoined ==
  ASSUME NEW ss, Len(ss) \in Nat, Len(ss) # 0
  PROVE  \E g : Joined(ss, g, Len(ss)) /\ FlattenSeq(ss) = g[Len(ss)]
<1> DEFINE n == Len(ss)
           flatten == CHOOSE f : f = [i \in 1..n |-> IF i = 1 THEN ss[i] ELSE f[i - 1] \o ss[i]]
<1>1. PICK g : Joined(ss, g, n)
  BY JoinedExists
<1>2. g = [i \in 1..n |-> IF i = 1 THEN ss[i] ELSE g[i - 1] \o ss[i]]
  BY <1>1 DEF Joined
<1>3. flatten = [i \in 1..n |-> IF i = 1 THEN ss[i] ELSE flatten[i - 1] \o ss[i]]
  BY <1>2
<1>4. FlattenSeq(ss) = flatten[n]
  BY DEF FlattenSeq
<1> HIDE DEF flatten
<1>5. Joined(ss, flatten, n)
  BY <1>3 DEF Joined
<1> QED BY <1>4, <1>5

LEMMA HasTyped ==
  ASSUME NEW X, NEW s \in Seq(X), NEW x, Has(s, x) PROVE x \in X
BY DEF Has

LEMMA ConcatHas ==
  ASSUME NEW X, NEW s \in Seq(X), NEW t \in Seq(X), NEW x
  PROVE  Has(s \o t, x) <=> Has(s, x) \/ Has(t, x)
<1> USE DEF Has
<1>1. /\ DOMAIN s = 1..Len(s) /\ DOMAIN t = 1..Len(t) /\ Len(s) \in Nat /\ Len(t) \in Nat
      /\ DOMAIN (s \o t) = 1..(Len(s) + Len(t))
      /\ \A i \in 1..Len(s) : (s \o t)[i] = s[i]
      /\ \A i \in (Len(s) + 1)..(Len(s) + Len(t)) : (s \o t)[i] = t[i - Len(s)]
  BY ConcatProperties
<1>2. ASSUME Has(s \o t, x) PROVE Has(s, x) \/ Has(t, x)
  <2>1. PICK i \in 1..(Len(s) + Len(t)) : (s \o t)[i] = x
    BY <1>1, <1>2
  <2>2. CASE i \in 1..Len(s)
    BY <1>1, <2>1, <2>2
  <2>3. CASE i \in (Len(s) + 1)..(Len(s) + Len(t))
    <3>1. i - Len(s) \in 1..Len(t)
      BY <1>1, <2>3
    <3> QED BY <1>1, <2>1, <2>3, <3>1
  <2> QED BY <1>1, <2>2, <2>3
<1>3. ASSUME Has(s, x) PROVE Has(s \o t, x)
  <2>1. PICK i \in 1..Len(s) : s[i] = x
    BY <1>1, <1>3
  <2>2. i \in 1..(Len(s) + Len(t))
    BY <1>1
  <2> QED BY <1>1, <2>1, <2>2
<1>4. ASSUME Has(t, x) PROVE Has(s \o t, x)
  <2>1. PICK i \in 1..Len(t) : t[i] = x
    BY <1>1, <1>4
  <2>2. i + Len(s) \in (Len(s) + 1)..(Len(s) + Len(t)) /\ (i + Len(s)) - Len(s) = i
        /\ i + Len(s) \in 1..(Len(s) + Len(t))
    BY <1>1
  <2> QED BY <1>1, <2>1, <2>2
<1> QED BY <1>2, <1>3, <1>4

LEMMA FlattenContents ==
  ASSUME NEW X, NEW ss \in Seq(Seq(X))
  PROVE  /\ FlattenSeq(ss) \in Seq(X)
         /\ \A x : Has(FlattenSeq(ss), x) <=> \E k \in DOMAIN ss : Has(ss[k], x)
<1> DEFINE n == Len(ss)
<1>1. n \in Nat /\ DOMAIN ss = 1..n /\ \A i \in 1..n : ss[i] \in Seq(X)
  OBVIOUS
<1> SUFFICES /\ FlattenSeq(ss) \in Seq(X)
             /\ \A x : Has(FlattenSeq(ss), x) <=> \E k \in 1..n : Has(ss[k], x)
  BY <1>1
<1>2. ASSUME NEW s \in Seq(X), NEW t \in Seq(X), NEW x
      PROVE  Has(s \o t, x) <=> Has(s, x) \/ Has(t, x)
  BY ConcatHas
<1>3. CASE n = 0
  <2>1. FlattenSeq(ss) = ss /\ ss = <<>>
    BY <1>3 DEF FlattenSeq
  <2> QED BY <1>3, <2>1 DEF Has
<1>4. CASE n # 0
  <2>1. PICK g : Joined(ss, g, n) /\ FlattenSeq(ss) = g[n]
    BY <1>1, <1>4, FlattenIsJoined
  <2> DEFINE Good(m) == /\ g[m] \in Seq(X)
                        /\ \A x : Has(g[m], x) <=> \E k \in 1..m : Has(ss[k], x)
             S == {m \in Nat : m \in 1..n => Good(m)}
  <2>2. 0 \in S
    OBVIOUS
  <2> HIDE DEF Good
  <2>3. ASSUME NEW m \in Nat, m \in 1..n => Good(m), m + 1 \in 1..n PROVE Good(m + 1)
    <3>1. g[m + 1] = IF m + 1 = 1 THEN ss[m + 1] ELSE g[(m + 1) - 1] \o ss[m + 1]
      BY <2>1, <2>3 DEF Joined
    <3>2. CASE m = 0
      <4>1. g[1] = ss[1] /\ 1..1 = {1}
        BY <3>1, <3>2
      <4>2. m + 1 = 1 /\ 1 \in 1..n
        BY <2>3, <3>2
      <4> QED BY <1>1, <4>1, <4>2 DEF Good
    <3>3. CASE m # 0
      <4>0. (m + 1) - 1 = m /\ m + 1 # 1 /\ m \in 1..n
        BY <1>1, <2>3, <3>3
      <4>1. g[m + 1] = g[m] \o ss[m + 1] /\ m \in 1..n
        BY <3>1, <4>0
      <4>2. Good(m) /\ ss[m + 1] \in Seq(X)
        BY <1>1, <2>3, <4>1
      <4>3. g[m + 1] \in Seq(X)
        BY <4>1, <4>2 DEF Good
      <4>4. \A x : Has(g[m + 1], x) <=> Has(g[m], x) \/ Has(ss[m + 1], x)
        BY <1>2, <4>1, <4>2 DEF Good
      <4>5. 1..(m + 1) = (1..m) \cup {m + 1}
        OBVIOUS
      <4>6. \A x : Has(g[m + 1], x) <=> \E k \in 1..(m + 1) : Has(ss[k], x)
        BY <4>2, <4>4, <4>5 DEF Good
      <4> QED BY <4>3, <4>6 DEF Good
    <3> QED BY <3>2, <3>3, m = 0 \/ m # 0
  <2>6. \A m \in Nat : (m \in 1..n => Good(m)) => (m + 1 \in 1..n => Good(m + 1))
    <3> TAKE m \in Nat
    <3> HAVE m \in 1..n => Good(m)
    <3> HAVE m + 1 \in 1..n
    <3> QED BY <2>3
  <2>8. \A m \in Nat : m \in S <=> (m \in 1..n => Good(m))
    OBVIOUS
  <2> HIDE DEF S
  <2>7. \A m \in Nat : m \in S => m + 1 \in S
    BY <2>6, <2>8
  <2>4. n \in S
    BY <1>1, <2>2, <2>7, SetInduction
  <2>5. n \in 1..n
    BY <1>1, <1>4
  <2> QED BY <1>1, <2>1, <2>4, <2>5, <2>8 DEF Good
<1> QED BY <1>3, <1>4

-----------------------------------------------------------------------------
(* FoldLeft goes through a function on sets of indices, from the greatest  *)
(* index down: it exists for every step F that stays in D.                 *)

LEMMA MaxOfRange ==
  ASSUME NEW n \in Nat, NEW s \in SUBSET (1..(n + 1)), n + 1 \in s PROVE Max(s) = n + 1
<1>1. \A y \in s : n + 1 >= y
  OBVIOUS
<1>2. \A x \in s : (\A y \in s : x >= y) => x = n + 1
  OBVIOUS
<1> QED BY <1>1, <1>2 DEF Max

LEMMA MaxIsMember ==
  ASSUME NEW n \in Nat, NEW s \in SUBSET (1..n), s # {}
  PROVE  Max(s) \in s /\ s \ {Max(s)} \in SUBSET (1..n)
<1> DEFINE T == {n - y : y \in s}
<1>0. \A y \in s : y \in Nat /\ n - y \in Nat
  OBVIOUS
<1>1. T \subseteq Nat /\ T # {}
  BY <1>0
<1>2. PICK x \in T : \A y \in T : x <= y
  BY <1>1, LeastMember
<1>3. PICK m \in s : x = n - m
  BY <1>2
<1>4. \A y \in s : m >= y
  <2> TAKE y \in s
  <2>1. n - m <= n - y
    BY <1>2, <1>3
  <2> QED BY <2>1
<1> QED BY <1>4 DEF Max

FoldsOver(h, D, base, F, n) ==
  /\ h \in [SUBSET (1..n) -> D]
  /\ \A s \in SUBSET (1..n) :
       h[s] = IF s = {} THEN base ELSE F[<<h[s \ {Max(s)}], Max(s)>>]

LEMMA FoldExists ==
  ASSUME NEW D, NEW base \in D, NEW n \in Nat, NEW F \in [D \X (1..n) -> D]
  PROVE  \E h : FoldsOver(h, D, base, F, n)
<1> DEFINE S == {m \in Nat : m <= n => \E h : FoldsOver(h, D, base, F, m)}
<1>1. 0 \in S
  <2> DEFINE h == [s \in SUBSET (1..0) |-> base]
  <2>1. 1..0 = {} /\ SUBSET (1..0) = {{}}
    OBVIOUS
  <2>2. h \in [SUBSET (1..0) -> D] /\ \A s \in SUBSET (1..0) : h[s] = base /\ s = {}
    BY <2>1
  <2> HIDE DEF h
  <2>3. FoldsOver(h, D, base, F, 0)
    BY <2>2 DEF FoldsOver
  <2> QED BY <2>3
<1>2. ASSUME NEW m \in Nat, m + 1 <= n, NEW g, FoldsOver(g, D, base, F, m)
      PROVE  \E h : FoldsOver(h, D, base, F, m + 1)
  <2> DEFINE k == m + 1
             h == [s \in SUBSET (1..k) |->
                     IF k \in s THEN F[<<g[s \ {k}], k>>] ELSE g[s]]
  <2>1. k \in 1..n /\ m <= n
    BY <1>2
  <2>2. \A s \in SUBSET (1..k) : k \notin s => s \in SUBSET (1..m)
    OBVIOUS
  <2>3. \A s \in SUBSET (1..k) : s \ {k} \in SUBSET (1..m)
    OBVIOUS
  <2>4. g \in [SUBSET (1..m) -> D]
    BY <1>2 DEF FoldsOver
  <2>5. \A s \in SUBSET (1..m) : g[s] \in D
    BY <2>4
  <2>6. /\ \A s \in SUBSET (1..k) : k \in s => h[s] = F[<<g[s \ {k}], k>>]
        /\ \A s \in SUBSET (1..k) : k \notin s => h[s] = g[s]
        /\ DOMAIN h = SUBSET (1..k) /\ h = [s \in SUBSET (1..k) |-> h[s]]
    OBVIOUS
  <2> HIDE DEF h
  <2>7. ASSUME NEW s \in SUBSET (1..k) PROVE h[s] \in D
    <3>1. CASE k \in s
      <4>1. <<g[s \ {k}], k>> \in D \X (1..n)
        BY <2>1, <2>3, <2>5
      <4> QED BY <2>6, <3>1, <4>1
    <3>2. CASE k \notin s
      BY <2>2, <2>5, <2>6, <3>2
    <3> QED BY <3>1, <3>2
  <2>8. ASSUME NEW s \in SUBSET (1..k)
        PROVE  h[s] = IF s = {} THEN base ELSE F[<<h[s \ {Max(s)}], Max(s)>>]
    <3>1. CASE k \in s
      <4>1. Max(s) = k
        BY <3>1, MaxOfRange
      <4>2. s \ {k} \in SUBSET (1..k) /\ k \notin s \ {k}
        OBVIOUS
      <4>3. h[s \ {k}] = g[s \ {k}]
        BY <2>6, <4>2
      <4> QED BY <2>6, <3>1, <4>1, <4>3
    <3>2. CASE k \notin s
      <4>1. s \in SUBSET (1..m) /\ h[s] = g[s]
        BY <2>2, <2>6, <3>2
      <4>2. g[s] = IF s = {} THEN base ELSE F[<<g[s \ {Max(s)}], Max(s)>>]
        BY <1>2, <4>1 DEF FoldsOver
      <4>3. s \ {Max(s)} \in SUBSET (1..k) /\ k \notin s \ {Max(s)}
        BY <3>2
      <4>4. h[s \ {Max(s)}] = g[s \ {Max(s)}]
        BY <2>6, <4>3
      <4> QED BY <4>1, <4>2, <4>4
    <3> QED BY <3>1, <3>2
  <2>9. h \in [SUBSET (1..k) -> D]
    BY <2>6, <2>7
  <2> QED BY <2>8, <2>9 DEF FoldsOver
<1>3. \A m \in Nat : m \in S => m + 1 \in S
  <2> SUFFICES ASSUME NEW m \in Nat, m <= n => \E h : FoldsOver(h, D, base, F, m),
                      m + 1 <= n
               PROVE  \E h : FoldsOver(h, D, base, F, m + 1)
    OBVIOUS
  <2>1. m <= n
    OBVIOUS
  <2> QED BY <1>2, <2>1
<1> HIDE DEF S
<1>4. n \in S
  BY <1>1, <1>3, SetInduction
<1> QED BY <1>4 DEF S

(* One more index at the end is one more step. *)
LEMMA FoldsStep ==
  ASSUME NEW D, NEW base, NEW n \in Nat, NEW F, NEW h, FoldsOver(h, D, base, F, n)
  PROVE  /\ h[1..0] = base /\ \A k \in 0..n : h[1..k] \in D
         /\ \A k \in 1..n : h[1..k] = F[<<h[1..(k - 1)], k>>]
<1>1. 1..0 = {} /\ \A k \in 0..n : 1..k \in SUBSET (1..n)
  OBVIOUS
<1>2. ASSUME NEW k \in 1..n PROVE h[1..k] = F[<<h[1..(k - 1)], k>>]
  <2>1. k - 1 \in Nat /\ (k - 1) + 1 = k /\ k \in 1..k /\ 1..k # {}
    OBVIOUS
  <2>2. Max(1..k) = k
    BY <2>1, MaxOfRange
  <2>3. (1..k) \ {k} = 1..(k - 1)
    OBVIOUS
  <2>4. 1..k \in SUBSET (1..n)
    OBVIOUS
  <2> QED BY <2>1, <2>2, <2>3, <2>4 DEF FoldsOver
<1> QED BY <1>1, <1>2 DEF FoldsOver

-----------------------------------------------------------------------------
(* FlattenSeq of the first k parts, and what one part more adds to it.     *)
FlattenTo(ss, k) == FlattenSeq(SubSeq(ss, 1, k))

LEMMA JoinedAlike ==
  ASSUME NEW ss, NEW tt, NEW g, NEW h, NEW m \in Nat, NEW k \in Nat,
         Joined(ss, g, m), Joined(tt, h, k), k <= m, \A i \in 1..k : ss[i] = tt[i]
  PROVE  \A i \in 1..k : g[i] = h[i]
<1> DEFINE T == {i \in Nat : i \in 1..k => g[i] = h[i]}
<1>1. 0 \in T
  OBVIOUS
<1>2. ASSUME NEW i \in Nat, i \in 1..k => g[i] = h[i], i + 1 \in 1..k PROVE g[i + 1] = h[i + 1]
  <2>1. i + 1 \in 1..m /\ i + 1 \in 1..k /\ (i + 1) - 1 = i
    BY <1>2
  <2>2. /\ g[i + 1] = IF i + 1 = 1 THEN ss[i + 1] ELSE g[i] \o ss[i + 1]
        /\ h[i + 1] = IF i + 1 = 1 THEN tt[i + 1] ELSE h[i] \o tt[i + 1]
    BY <2>1 DEF Joined
  <2>3. i + 1 # 1 => i \in 1..k
    BY <1>2
  <2> QED BY <1>2, <2>2, <2>3
<1>3. \A i \in Nat : i \in T => i + 1 \in T
  BY <1>2
<1> HIDE DEF T
<1>4. Nat \subseteq T
  BY <1>1, <1>3, SetInduction
<1> QED BY <1>4 DEF T

LEMMA FlattenToZero == ASSUME NEW ss PROVE FlattenTo(ss, 0) = <<>>
<1>1. SubSeq(ss, 1, 0) = <<>>
  BY 0 < 1, SubSeqEmpty
<1>2. FlattenSeq(<<>>) = <<>>
  BY DEF FlattenSeq
<1> QED BY <1>1, <1>2 DEF FlattenTo

LEMMA FlattenToNext ==
  ASSUME NEW X, NEW ss \in Seq(Seq(X)), NEW k \in 1..Len(ss)
  PROVE  FlattenTo(ss, k) = FlattenTo(ss, k - 1) \o ss[k]
<1>1. FlattenTo(ss, 0) = <<>>
  BY FlattenToZero
<1>2. PICK s : s = SubSeq(ss, 1, k)
  OBVIOUS
<1>3. PICK t : t = SubSeq(ss, 1, k - 1)
  OBVIOUS
<1>4. /\ Len(s) = k /\ Len(t) = k - 1 /\ s[k] = ss[k] /\ k \in Nat /\ k - 1 \in Nat
      /\ \A i \in 1..(k - 1) : s[i] = t[i]
  <2>1. (\A i \in 1..k : ss[i] \in Seq(X)) /\ (\A i \in 1..(k - 1) : ss[i] \in Seq(X))
    OBVIOUS
  <2>2. Len(s) = k /\ \A i \in 1..(k - 1 + 1) : s[i] = ss[1 + i - 1]
    BY <1>2, <2>1, SubSeqProperties
  <2>3. /\ Len(t) = (IF 1 <= k - 1 THEN (k - 1) - 1 + 1 ELSE 0)
        /\ \A i \in 1..(k - 1 - 1 + 1) : t[i] = ss[1 + i - 1]
    BY <1>3, <2>1, SubSeqProperties
  <2>4. \A i \in Int : 1 + i - 1 = i
    OBVIOUS
  <2> QED BY <2>2, <2>3, <2>4
<1>5. FlattenTo(ss, k) = FlattenSeq(s) /\ FlattenTo(ss, k - 1) = FlattenSeq(t)
  BY <1>2, <1>3 DEF FlattenTo
<1>6. PICK g : Joined(s, g, k) /\ FlattenSeq(s) = g[k]
  <2>1. Len(s) \in Nat /\ Len(s) # 0
    BY <1>4
  <2>2. \E g : Joined(s, g, Len(s)) /\ FlattenSeq(s) = g[Len(s)]
    BY <2>1, FlattenIsJoined
  <2> QED BY <1>4, <2>2
<1>7. g[k] = IF k = 1 THEN s[k] ELSE g[k - 1] \o s[k]
  <2>1. k \in 1..k
    BY <1>4
  <2> QED BY <1>6, <2>1 DEF Joined
<1>8. CASE k = 1
  <2>1. ss[k] \in Seq(X)
    OBVIOUS
  <2>2. FlattenTo(ss, k - 1) \o ss[k] = ss[k]
    BY <1>1, <1>8, <2>1, ConcatEmptySeq
  <2> QED BY <1>5, <1>4, <1>6, <1>7, <1>8, <2>2
<1>9. CASE k # 1
  <2>1. k - 1 # 0
    BY <1>4, <1>9
  <2>2. PICK h : Joined(t, h, k - 1) /\ FlattenSeq(t) = h[k - 1]
    <3>1. Len(t) \in Nat /\ Len(t) # 0
      BY <1>4, <2>1
    <3>2. \E h : Joined(t, h, Len(t)) /\ FlattenSeq(t) = h[Len(t)]
      BY <3>1, FlattenIsJoined
    <3> QED BY <1>4, <3>2
  <2>3. k - 1 <= k /\ k - 1 <= k - 1 /\ k - 1 \in 1..(k - 1)
    BY <1>4, <2>1
  <2>4. \A i \in 1..(k - 1) : g[i] = h[i]
    <3>1. PICK j \in Nat : j = k - 1
      BY <1>4
    <3>2. Joined(t, h, j)
      BY <2>2, <3>1
    <3>3. j <= k
      BY <1>4, <3>1
    <3>4. \A i \in 1..j : s[i] = t[i]
      BY <1>4, <3>1
    <3>5. k \in Nat
      BY <1>4
    <3>6. \A i \in 1..j : g[i] = h[i]
      <4>1. Joined(s, g, k)
        BY <1>6
      <4>2. \A m \in Nat, n \in Nat :
              Joined(s, g, m) /\ Joined(t, h, n) /\ n <= m /\ (\A i \in 1..n : s[i] = t[i])
              => \A i \in 1..n : g[i] = h[i]
        BY JoinedAlike
      <4> QED BY <3>2, <3>5, <3>3, <3>4, <4>1, <4>2
    <3> QED BY <3>1, <3>6
  <2> QED BY <1>5, <1>4, <1>6, <1>7, <1>9, <2>2, <2>3, <2>4
<1> QED BY <1>8, <1>9

LEMMA FlattenToTyped ==
  ASSUME NEW X, NEW ss \in Seq(Seq(X)), NEW k \in 0..Len(ss)
  PROVE  FlattenTo(ss, k) \in Seq(X)
<1>1. \A i \in 1..k : ss[i] \in Seq(X)
  OBVIOUS
<1>2. SubSeq(ss, 1, k) \in Seq(Seq(X))
  BY <1>1, SubSeqProperties
<1> QED BY <1>2, FlattenContents DEF FlattenTo

(* Parts more only add at the end. *)
LEMMA FlattenToGrows ==
  ASSUME NEW X, NEW ss \in Seq(Seq(X)), NEW k \in 0..Len(ss), NEW m \in k..Len(ss)
  PROVE  \E t \in Seq(X) : FlattenTo(ss, m) = FlattenTo(ss, k) \o t
<1> DEFINE Good(j) == \E t \in Seq(X) : FlattenTo(ss, j) = FlattenTo(ss, k) \o t
           T == {i \in Nat : k + i <= Len(ss) => Good(k + i)}
<1>1. Good(k)
  <2>1. FlattenTo(ss, k) = FlattenTo(ss, k) \o <<>> /\ <<>> \in Seq(X)
    BY FlattenToTyped, ConcatEmptySeq
  <2> QED BY <2>1
<1>2. ASSUME NEW j \in k..(Len(ss) - 1), Good(j) PROVE Good(j + 1)
  <2>1. PICK t \in Seq(X) : FlattenTo(ss, j) = FlattenTo(ss, k) \o t
    BY <1>2
  <2>2. j + 1 \in 1..Len(ss) /\ (j + 1) - 1 = j /\ ss[j + 1] \in Seq(X)
    OBVIOUS
  <2>3. FlattenTo(ss, j + 1) = FlattenTo(ss, j) \o ss[j + 1]
    BY <2>2, FlattenToNext
  <2>4. FlattenTo(ss, k) \in Seq(X)
    BY FlattenToTyped
  <2>5. PICK u \in Seq(X) : u = ss[j + 1]
    BY <2>2
  <2>6. (FlattenTo(ss, k) \o t) \o u = FlattenTo(ss, k) \o (t \o u) /\ t \o u \in Seq(X)
    BY <2>4, ConcatAssociative, ConcatProperties
  <2> QED BY <2>1, <2>3, <2>5, <2>6
<1> HIDE DEF Good
<1>3. 0 \in T
  BY <1>1
<1>4. ASSUME NEW i \in Nat, k + i <= Len(ss) => Good(k + i), k + (i + 1) <= Len(ss)
      PROVE  Good(k + (i + 1))
  <2>1. k + i \in k..(Len(ss) - 1) /\ (k + i) + 1 = k + (i + 1)
    BY <1>4
  <2>2. Good((k + i) + 1)
    BY <1>2, <1>4, <2>1
  <2> QED BY <2>1, <2>2
<1>5. \A i \in Nat : i \in T => i + 1 \in T
  BY <1>4
<1> HIDE DEF T
<1>6. Nat \subseteq T
  BY <1>3, <1>5, SetInduction
<1>7. m - k \in Nat /\ k + (m - k) = m /\ m <= Len(ss)
  OBVIOUS
<1>8. Good(k + (m - k))
  BY <1>6, <1>7 DEF T
<1> QED BY <1>7, <1>8 DEF Good
=============================================================================
