---------------------------- MODULE QueueLemmas -----------------------------
(***************************************************************************)
(* Facts of sequences for the proofs about queues of commands and events:  *)
(* what a channel holds after a send and after a receive, and how to get   *)
(* at what a recursive function makes of a sequence of any length.         *)
(*                                                                         *)
(* The library's induction theorems take an operator, which the provers    *)
(* cannot instantiate. A set can be: Least and Induct are induction over   *)
(* the numbers of a set, from the well-foundedness of <; StepByStep and    *)
(* ChainsAgree say that a function defined step by step exists and is the  *)
(* only one; GrowingSequences is induction over sequences that grow.       *)
(***************************************************************************)
EXTENDS Integers, SequencesExt, SequenceTheorems, WellFoundedInduction, TLAPS

(* A message sent comes last, the others keep their places.                *)
LEMMA Sent ==
  ASSUME NEW S, NEW s \in Seq(S), NEW e \in S
  PROVE  /\ Append(s, e) \in Seq(S)
         /\ Len(s) \in Nat /\ DOMAIN s = 1..Len(s)
         /\ Len(Append(s, e)) = Len(s) + 1 /\ DOMAIN Append(s, e) = 1..(Len(s) + 1)
         /\ \A i \in 1..Len(s) : Append(s, e)[i] = s[i]
         /\ Append(s, e)[Len(s) + 1] = e
BY AppendProperties, LenProperties

(* A message received was the first, the others move up by one.            *)
LEMMA Received ==
  ASSUME NEW S, NEW s \in Seq(S), s # <<>>
  PROVE  /\ Head(s) \in S /\ Head(s) = s[1]
         /\ Tail(s) \in Seq(S)
         /\ Len(s) \in Nat \ {0} /\ DOMAIN s = 1..Len(s)
         /\ Len(Tail(s)) = Len(s) - 1 /\ DOMAIN Tail(s) = 1..(Len(s) - 1)
         /\ \A i \in 1..(Len(s) - 1) : Tail(s)[i] = s[i + 1]
<1>1. Len(s) \in Nat /\ DOMAIN s = 1..Len(s) /\ Len(s) # 0
  BY LenProperties, EmptySeq
<1>2. Head(s) = s[1]
  OBVIOUS
<1>3. QED
  BY <1>1, <1>2, HeadTailProperties, LenProperties

(* Messages sent together follow what was there.                           *)
LEMMA SentTogether ==
  ASSUME NEW S, NEW s \in Seq(S), NEW t \in Seq(S)
  PROVE  /\ s \o t \in Seq(S)
         /\ Len(s) \in Nat /\ DOMAIN s = 1..Len(s)
         /\ Len(t) \in Nat /\ DOMAIN t = 1..Len(t)
         /\ Len(s \o t) = Len(s) + Len(t) /\ DOMAIN (s \o t) = 1..(Len(s) + Len(t))
         /\ \A i \in 1..Len(s) : (s \o t)[i] = s[i]
         /\ \A i \in 1..Len(t) : (s \o t)[Len(s) + i] = t[i]
<1>1. /\ Len(s) \in Nat /\ DOMAIN s = 1..Len(s)
      /\ Len(t) \in Nat /\ DOMAIN t = 1..Len(t)
  BY LenProperties
<1>2. /\ s \o t \in Seq(S) /\ Len(s \o t) = Len(s) + Len(t)
      /\ \A i \in 1..(Len(s) + Len(t)) :
           (s \o t)[i] = IF i <= Len(s) THEN s[i] ELSE t[i - Len(s)]
  BY ConcatProperties
<1>3. DOMAIN (s \o t) = 1..(Len(s) + Len(t))
  BY <1>2, LenProperties
<1>4. QED
  BY <1>1, <1>2, <1>3

(* A set of numbers that is not empty has a least one.                    *)
LEMMA Least ==
  ASSUME NEW T, T \subseteq Nat, T # {}
  PROVE  \E x \in T : \A y \in T : x <= y
<1>1. IsWellFoundedOn(OpToRel(<,Nat), Nat)
  BY NatLessThanWellFounded
<1>2. PICK x \in T : \A y \in T : ~ (<<y, x>> \in OpToRel(<,Nat))
  BY <1>1, WFMin
<1>3. ASSUME NEW y \in T PROVE x <= y
  <2>1. <<y, x>> \notin {ss \in Nat \X Nat : ss[1] < ss[2]}
    BY <1>2 DEF OpToRel
  <2> QED BY <2>1
<1> QED BY <1>3

(* Induction: a set with 0, and with n + 1 if n is in it, has them all.   *)
LEMMA Induct ==
  ASSUME NEW T, 0 \in T, \A n \in Nat : n \in T => n + 1 \in T
  PROVE  Nat \subseteq T
<1>1. SUFFICES ASSUME Nat \ T # {} PROVE FALSE
  OBVIOUS
<1>2. PICK m \in Nat \ T : \A y \in Nat \ T : m <= y
  BY <1>1, Least
<1>3. m # 0 /\ m - 1 \in Nat /\ m - 1 \notin Nat \ T
  BY <1>2
<1> QED BY <1>3

(* The functions defined step by step on 0..n.                           *)
Chains(V, base, n, step) ==
  {f \in [0..n -> V] : f[0] = base /\ \A i \in 1..n : f[i] = step[i][f[i - 1]]}

(* There is one.                                                         *)
LEMMA StepByStep ==
  ASSUME NEW V, NEW base \in V, NEW n \in Nat, NEW step \in [1..n -> [V -> V]]
  PROVE  Chains(V, base, n, step) # {}
<1> DEFINE Upto(m) == \E f \in [0..m -> V] : f[0] = base /\ \A i \in 1..m : f[i] = step[i][f[i - 1]]
           T == {m \in Nat : m <= n => Upto(m)}
<1>1. 0 \in T
  <2> DEFINE g == [i \in 0..0 |-> base]
  <2>1. g \in [0..0 -> V] /\ g[0] = base /\ \A i \in 1..0 : g[i] = step[i][g[i - 1]]
    OBVIOUS
  <2> HIDE DEF g
  <2>2. Upto(0)
    BY <2>1
  <2> HIDE DEF Upto
  <2> QED BY <2>2
<1>2. ASSUME NEW m \in Nat, m \in T PROVE m + 1 \in T
  <2>1. SUFFICES ASSUME m + 1 <= n PROVE Upto(m + 1)
    OBVIOUS
  <2>2. PICK f \in [0..m -> V] : f[0] = base /\ \A i \in 1..m : f[i] = step[i][f[i - 1]]
    BY <1>2, <2>1
  <2> DEFINE g == [i \in 0..(m + 1) |-> IF i = m + 1 THEN step[m + 1][f[m]] ELSE f[i]]
  <2>3. m \in 0..m /\ m + 1 \in 1..n
    BY <2>1
  <2>4. g \in [0..(m + 1) -> V]
    <3>1. step[m + 1][f[m]] \in V
      BY <2>2, <2>3
    <3>2. \A i \in 0..(m + 1) : i # m + 1 => i \in 0..m
      OBVIOUS
    <3> QED BY <3>1, <3>2, <2>2
  <2>5. g[0] = base
    BY <2>2
  <2>6. ASSUME NEW i \in 1..(m + 1) PROVE g[i] = step[i][g[i - 1]]
    <3>1. i - 1 \in 0..m /\ i - 1 \in 0..(m + 1) /\ i - 1 # m + 1 /\ g[i - 1] = f[i - 1]
      OBVIOUS
    <3>2. CASE i = m + 1
      BY <3>1, <3>2
    <3>3. CASE i # m + 1
      <4>1. i \in 1..m /\ g[i] = f[i]
        BY <3>3
      <4> QED BY <4>1, <3>1, <2>2
    <3> QED BY <3>2, <3>3
  <2> HIDE DEF g
  <2> QED BY <2>4, <2>5, <2>6
<1> HIDE DEF Upto
<1>3. Nat \subseteq T
  <2> HIDE DEF T
  <2> QED BY <1>1, <1>2, Induct
<1>4. n \in T
  BY <1>3
<1> QED BY <1>4 DEF Upto, Chains

(* Two functions that start alike and step alike agree.                  *)
LEMMA ChainsAgree ==
  ASSUME NEW n \in Nat, NEW f, NEW g, f[0] = g[0],
         \A i \in 1..n : f[i - 1] = g[i - 1] => f[i] = g[i]
  PROVE  f[n] = g[n]
<1> DEFINE T == {i \in Nat : i <= n => f[i] = g[i]}
<1>1. 0 \in T
  OBVIOUS
<1>2. ASSUME NEW i \in Nat, i \in T PROVE i + 1 \in T
  <2>1. SUFFICES ASSUME i + 1 <= n PROVE f[i + 1] = g[i + 1]
    OBVIOUS
  <2>2. i + 1 \in 1..n /\ (i + 1) - 1 = i /\ f[i] = g[i]
    BY <1>2, <2>1
  <2> QED BY <2>2
<1>3. Nat \subseteq T
  <2> HIDE DEF T
  <2> QED BY <1>1, <1>2, Induct
<1> QED BY <1>3

(* Induction over sequences: a set with the empty one, and with every one *)
(* that has an element more than one of the set, has them all.           *)
LEMMA GrowingSequences ==
  ASSUME NEW S, NEW T, <<>> \in T,
         \A s \in Seq(S), e \in S : s \in T => Append(s, e) \in T
  PROVE  Seq(S) \subseteq T
<1> DEFINE L == {n \in Nat : \A s \in Seq(S) : Len(s) = n => s \in T}
<1>1. 0 \in L
  <2>1. ASSUME NEW s \in Seq(S), Len(s) = 0 PROVE s = <<>>
    BY <2>1, EmptySeq
  <2> QED BY <2>1
<1>2. ASSUME NEW n \in Nat, n \in L PROVE n + 1 \in L
  <2>1. SUFFICES ASSUME NEW s \in Seq(S), Len(s) = n + 1 PROVE s \in T
    OBVIOUS
  <2> DEFINE t == SubSeq(s, 1, n)
  <2>2. t \in Seq(S) /\ Len(t) = n /\ s[n + 1] \in S /\ s = Append(t, s[n + 1])
    BY <2>1, SubSeqProperties, AppendProperties, LenProperties
  <2> HIDE DEF t
  <2> QED BY <2>2, <1>2
<1>3. Nat \subseteq L
  <2> HIDE DEF L
  <2> QED BY <1>1, <1>2, Induct
<1>4. ASSUME NEW s \in Seq(S) PROVE s \in T
  <2>1. Len(s) \in Nat
    BY LenProperties
  <2> QED BY <2>1, <1>3
<1> QED BY <1>4

(* A sequence whose elements are all of a kind.                            *)
LEMMA AllOf ==
  ASSUME NEW X, NEW s \in Seq(X), NEW S, \A i \in 1..Len(s) : s[i] \in S
  PROVE  s \in Seq(S)
<1>1. Len(s) \in Nat /\ s \in [1..Len(s) -> S]
  BY LenProperties
<1>2. Seq(S) = UNION {[1..n -> S] : n \in Nat}
  BY SeqDef
<1>3. s \in UNION {[1..n -> S] : n \in Nat}
  BY <1>1, Zenon
<1> QED BY <1>2, <1>3, Zenon

(* A sequence and what is left of it.                                      *)
LEMMA Cut ==
  ASSUME NEW X, NEW s \in Seq(X), NEW k \in 0..Len(s)
  PROVE  /\ SubSeq(s, 1, k) \in Seq(X) /\ SubSeq(s, k + 1, Len(s)) \in Seq(X)
         /\ s = SubSeq(s, 1, k) \o SubSeq(s, k + 1, Len(s))
<1> DEFINE a == SubSeq(s, 1, k)
           b == SubSeq(s, k + 1, Len(s))
<1>0. Len(s) \in Nat /\ \A i \in 1..Len(s) : s[i] \in X
  BY LenProperties
<1>1. a \in Seq(X) /\ Len(a) = k /\ \A i \in 1..k : a[i] = s[i]
  BY <1>0, SubSeqProperties
<1>2. b \in Seq(X) /\ Len(b) = Len(s) - k /\ \A i \in 1..(Len(s) - k) : b[i] = s[k + i]
  <2>1. \A i \in (k + 1)..Len(s) : s[i] \in X
    BY <1>0
  <2>2. /\ b \in Seq(X) /\ Len(b) = IF k + 1 <= Len(s) THEN Len(s) - (k + 1) + 1 ELSE 0
        /\ \A i \in 1..(Len(s) - (k + 1) + 1) : b[i] = s[(k + 1) + i - 1]
    BY <2>1, <1>0, SubSeqProperties
  <2>3. \A i \in 1..(Len(s) - k) : i \in 1..(Len(s) - (k + 1) + 1) /\ (k + 1) + i - 1 = k + i
    BY <1>0
  <2> HIDE DEF b
  <2> QED BY <1>0, <2>2, <2>3
<1> HIDE DEF a, b
<1>3. /\ Len(a \o b) = Len(s) /\ a \o b \in Seq(X)
      /\ \A i \in 1..Len(s) : (a \o b)[i] = IF i <= k THEN a[i] ELSE b[i - k]
  <2>1. /\ a \o b \in Seq(X) /\ Len(a \o b) = Len(a) + Len(b)
        /\ \A i \in 1..(Len(a) + Len(b)) : (a \o b)[i] = IF i <= Len(a) THEN a[i] ELSE b[i - Len(a)]
    BY <1>1, <1>2, ConcatProperties
  <2>2. Len(a) + Len(b) = Len(s) /\ Len(a) = k
    BY <1>0, <1>1, <1>2
  <2> QED BY <2>1, <2>2
<1>4. \A i \in 1..Len(s) : (a \o b)[i] = s[i]
  <2>1. SUFFICES ASSUME NEW i \in 1..Len(s) PROVE (a \o b)[i] = s[i]
    OBVIOUS
  <2>2. CASE i <= k
    BY <1>0, <1>1, <1>3, <2>2
  <2>3. CASE i > k
    <3>1. i - k \in 1..(Len(s) - k) /\ k + (i - k) = i
      BY <1>0, <2>3
    <3> QED BY <3>1, <2>3, <1>2, <1>3
  <2>4. i <= k \/ i > k
    BY <1>0
  <2> QED BY <2>2, <2>3, <2>4
<1>5. s = a \o b
  BY <1>3, <1>4, SeqEqual
<1> QED BY <1>1, <1>2, <1>5 DEF a, b

(* A piece moved from the one side of a cut to the other.                  *)
LEMMA Regroup ==
  ASSUME NEW X, NEW a \in Seq(X), NEW b \in Seq(X), NEW c \in Seq(X), NEW d \in Seq(X)
  PROVE  /\ a \o ((b \o c) \o d) = (a \o b) \o (c \o d)
         /\ a \o b \in Seq(X)
<1>1. (b \o c) \o d = b \o (c \o d) /\ c \o d \in Seq(X) /\ a \o b \in Seq(X)
  BY ConcatAssociative, ConcatProperties
<1>2. PICK e \in Seq(X) : e = c \o d
  BY <1>1
<1>3. (a \o b) \o e = a \o (b \o e)
  BY ConcatAssociative, SMTT(60)
<1> QED BY <1>1, <1>2, <1>3

(* Short sequences grow element by element.                               *)
LEMMA Grouped ==
  ASSUME NEW X, NEW a \in X, NEW b \in X, NEW c \in X, NEW d \in X
  PROVE  /\ <<>> \in Seq(X) /\ <<a>> = Append(<<>>, a) /\ <<a>> \in Seq(X)
         /\ <<a, b>> = Append(<<a>>, b) /\ <<a, b>> \in Seq(X)
         /\ <<a, b, c>> = Append(<<a, b>>, c) /\ <<a, b, c>> \in Seq(X)
         /\ <<a, b, c, d>> = Append(<<a, b, c>>, d) /\ <<a, b, c, d>> \in Seq(X)
<1>1. /\ <<>> \in Seq(X) /\ <<a>> = Append(<<>>, a) /\ <<a>> \in Seq(X)
      /\ <<a, b>> = Append(<<a>>, b) /\ <<a, b>> \in Seq(X)
  BY EmptySeq
<1>2. /\ <<a, b, c>> = Append(<<a, b>>, c) /\ <<a, b, c>> \in Seq(X)
      /\ <<a, b, c, d>> = Append(<<a, b, c>>, d) /\ <<a, b, c, d>> \in Seq(X)
  OBVIOUS
<1> QED BY <1>1, <1>2

(* Three elements and, perhaps, one more.                                  *)
LEMMA JoinOne ==
  ASSUME NEW X, NEW a \in X, NEW b \in X, NEW c \in X, NEW d \in X
  PROVE  /\ <<a, b, c>> \o <<>> = <<a, b, c>>
         /\ <<a, b, c>> \o <<d>> = <<a, b, c, d>>
<1> DEFINE s == <<a, b, c>>
<1>1. s \in Seq(X)
  OBVIOUS
<1>2. <<a, b, c, d>> = Append(s, d)
  OBVIOUS
<1>3. s \o <<>> = s
  BY <1>1, ConcatEmptySeq
<1> HIDE DEF s
<1>4. Append(s, d) = s \o <<d>>
  BY <1>1, AppendIsConcat, Zenon
<1> QED BY <1>2, <1>3, <1>4, Zenon DEF s

(* One element and two more.                                               *)
LEMMA JoinTwo ==
  ASSUME NEW X, NEW a \in X, NEW b \in X, NEW c \in X
  PROVE  <<a>> \o <<b, c>> = <<a, b, c>>
<1> DEFINE s == <<a>>
           t == <<b>>
           u == <<c>>
           v == <<b, c>>
           w == <<a, b>>
<1>1. Append(t, c) = v /\ Append(s, b) = w /\ Append(w, c) = <<a, b, c>>
  <2>1. v = Append(t, c)
    OBVIOUS
  <2>2. w = Append(s, b)
    OBVIOUS
  <2>3. <<a, b, c>> = Append(w, c)
    OBVIOUS
  <2> QED BY <2>1, <2>2, <2>3
<1>2. s \in Seq(X) /\ t \in Seq(X) /\ u \in Seq(X) /\ w \in Seq(X)
  OBVIOUS
<1>3. w \o u = Append(w, c)
  <2> HIDE DEF s, t, v, w
  <2> QED BY <1>2, AppendIsConcat, Zenon
<1>4. t \o u = Append(t, c)
  <2> HIDE DEF s, t, v, w
  <2> QED BY <1>2, AppendIsConcat, Zenon
<1>5. s \o t = Append(s, b)
  <2> HIDE DEF s, v, w
  <2> QED BY <1>2, AppendIsConcat, Zenon
<1> HIDE DEF s, t, u, v, w
<1>6. (s \o t) \o u = s \o (t \o u)
  BY <1>2, ConcatAssociative, SMTT(60)
<1>7. s \o v = <<a, b, c>>
  BY <1>1, <1>3, <1>4, <1>5, <1>6
<1> QED BY <1>7, Zenon DEF s, v

(* A sequence of sequences is joined from the first one on.                *)
FlatAfter(f, s) == f[0] = <<>> /\ \A i \in 1..Len(s) : f[i] = f[i - 1] \o s[i]

(* FlattenSeq joins them so.                                               *)
LEMMA FlatSteps ==
  ASSUME NEW X, NEW s \in Seq(Seq(X))
  PROVE  \E f \in [0..Len(s) -> Seq(X)] : FlatAfter(f, s) /\ FlattenSeq(s) = f[Len(s)]
<1> DEFINE step == [i \in 1..Len(s) |-> [v \in Seq(X) |-> v \o s[i]]]
           K == CHOOSE f : f = [i \in 1..Len(s) |-> IF i = 1 THEN s[i] ELSE f[i - 1] \o s[i]]
<1>0. /\ Len(s) \in Nat /\ <<>> \in Seq(X) /\ \A i \in 1..Len(s) : s[i] \in Seq(X)
      /\ Len(s) = 0 => s = <<>>
  BY LenProperties, EmptySeq
<1>1. step \in [1..Len(s) -> [Seq(X) -> Seq(X)]]
  BY <1>0, ConcatProperties
<1>2. PICK f \in Chains(Seq(X), <<>>, Len(s), step) : TRUE
  <2> HIDE DEF step, K
  <2>1. Chains(Seq(X), <<>>, Len(s), step) # {}
    BY <1>0, <1>1, StepByStep
  <2> QED BY <2>1
<1>3. f \in [0..Len(s) -> Seq(X)] /\ f[0] = <<>> /\ \A i \in 1..Len(s) : f[i] = step[i][f[i - 1]]
  BY <1>2 DEF Chains
<1>4. FlatAfter(f, s)
  <2>1. ASSUME NEW i \in 1..Len(s) PROVE f[i] = f[i - 1] \o s[i]
    <3>1. i - 1 \in 0..Len(s)
      BY <1>0
    <3> QED BY <3>1, <1>3
  <2> QED BY <2>1, <1>3 DEF FlatAfter
<1> HIDE DEF step, K
<1>a. Len(s) # 0 => f[1] = s[1]
  <2>1. SUFFICES ASSUME Len(s) # 0 PROVE f[1] = s[1]
    OBVIOUS
  <2>2. 1 \in 1..Len(s) /\ 1 - 1 = 0
    BY <2>1, <1>0
  <2>3. f[1] = f[1 - 1] \o s[1] /\ s[1] \in Seq(X) /\ f[0] = <<>>
    BY <2>2, <1>0, <1>4 DEF FlatAfter
  <2>4. f[1] = <<>> \o s[1]
    BY <2>2, <2>3
  <2> QED BY <2>3, <2>4, ConcatEmptySeq
<1> DEFINE g == [i \in 1..Len(s) |-> f[i]]
<1>5. g = [i \in 1..Len(s) |-> IF i = 1 THEN s[i] ELSE g[i - 1] \o s[i]]
  <2>1. ASSUME NEW i \in 1..Len(s) PROVE f[i] = IF i = 1 THEN s[i] ELSE g[i - 1] \o s[i]
    <3>1. CASE i = 1
      BY <3>1, <1>0, <1>a
    <3>2. CASE i # 1
      <4>1. i - 1 \in 1..Len(s)
        BY <3>2, <1>0
      <4> QED BY <4>1, <3>2, <1>4 DEF FlatAfter
    <3> QED BY <3>1, <3>2
  <2> QED BY <2>1
<1> HIDE DEF g
<1>6. K = [i \in 1..Len(s) |-> IF i = 1 THEN s[i] ELSE K[i - 1] \o s[i]]
  BY <1>5, Zenon DEF K
<1>7. FlattenSeq(s) = IF Len(s) = 0 THEN s ELSE K[Len(s)]
  BY Zenon DEF FlattenSeq, K
<1>8. CASE Len(s) = 0
  BY <1>0, <1>3, <1>4, <1>7, <1>8
<1>9. CASE Len(s) # 0
  <2> DEFINE h == [i \in 0..Len(s) |-> IF i = 0 THEN <<>> ELSE K[i]]
  <2>1. h[0] = f[0] /\ h[Len(s)] = K[Len(s)]
    BY <1>0, <1>3, <1>9
  <2>2. ASSUME NEW i \in 1..Len(s), h[i - 1] = f[i - 1] PROVE h[i] = f[i]
    <3>1. i \in 0..Len(s) /\ i - 1 \in 0..Len(s) /\ i # 0 /\ h[i] = K[i]
      BY <1>0
    <3>2. CASE i = 1
      <4>1. K[1] = s[1]
        BY <3>2, <1>6
      <4> QED BY <4>1, <3>1, <3>2, <1>a, <1>9
    <3>3. CASE i # 1
      <4>1. h[i - 1] = K[i - 1]
        BY <3>1, <3>3
      <4>2. K[i] = K[i - 1] \o s[i]
        BY <1>6, <3>3
      <4> QED BY <4>1, <4>2, <3>1, <2>2, <1>4 DEF FlatAfter
    <3> QED BY <3>2, <3>3
  <2> HIDE DEF h
  <2>3. h[Len(s)] = f[Len(s)]
    BY <1>0, <2>1, <2>2, ChainsAgree
  <2> QED BY <2>1, <2>3, <1>3, <1>4, <1>7, <1>9
<1> QED BY <1>8, <1>9

(* What comes last is joined last.                                         *)
LEMMA FlatAppend ==
  ASSUME NEW X, NEW s \in Seq(Seq(X)), NEW e \in Seq(X)
  PROVE  /\ FlattenSeq(s) \in Seq(X)
         /\ FlattenSeq(Append(s, e)) = FlattenSeq(s) \o e
<1>2. PICK f \in [0..Len(s) -> Seq(X)] : FlatAfter(f, s) /\ FlattenSeq(s) = f[Len(s)]
  BY FlatSteps
<1>3. /\ Append(s, e) \in Seq(Seq(X)) /\ Len(s) \in Nat /\ Len(Append(s, e)) = Len(s) + 1
      /\ \A i \in 1..Len(s) : Append(s, e)[i] = s[i]
      /\ Append(s, e)[Len(s) + 1] = e
  BY AppendProperties, LenProperties
<1>4. PICK g \in [0..Len(Append(s, e)) -> Seq(X)] :
          FlatAfter(g, Append(s, e)) /\ FlattenSeq(Append(s, e)) = g[Len(Append(s, e))]
  BY <1>3, FlatSteps
<1>5. f[0] = g[0] /\ \A i \in 1..Len(s) : f[i - 1] = g[i - 1] => f[i] = g[i]
  <2>1. f[0] = g[0]
    BY <1>2, <1>4 DEF FlatAfter
  <2>2. ASSUME NEW i \in 1..Len(s), f[i - 1] = g[i - 1] PROVE f[i] = g[i]
    <3>1. i \in 1..Len(Append(s, e)) /\ Append(s, e)[i] = s[i]
      BY <1>3
    <3> QED BY <3>1, <2>2, <1>2, <1>4 DEF FlatAfter
  <2> QED BY <2>1, <2>2
<1>6. f[Len(s)] = g[Len(s)]
  BY <1>3, <1>5, ChainsAgree
<1>7. g[Len(s) + 1] = g[Len(s)] \o e
  <2>1. Len(s) + 1 \in 1..Len(Append(s, e)) /\ (Len(s) + 1) - 1 = Len(s)
    BY <1>3
  <2> QED BY <2>1, <1>3, <1>4 DEF FlatAfter
<1>8. FlattenSeq(s) \in Seq(X)
  BY <1>2, <1>3
<1> QED BY <1>2, <1>3, <1>4, <1>6, <1>7, <1>8
=============================================================================
