--------------------------- MODULE ChatProxyProofs ---------------------------
(***************************************************************************)
(* Proofs about the chat proxy, for any conversations, environments and    *)
(* replies, and any number of requests.  First what sequences that are     *)
(* made of others are made of, and from it what codex makes of the events  *)
(* of a reply, and of what kind the state is.  Then what was reserved and  *)
(* charged for: of the requests on their way each has its size and its cap *)
(* still reserved.  Then what the messages of a payload tell: the same as  *)
(* the transcript they were made of, with the signatures in the map, which *)
(* are those of the calls of the conversation.                             *)
(***************************************************************************)
EXTENDS ChatProxy, SequenceTheorems, FiniteSetTheorems, WellFoundedInduction, TLAPS

-----------------------------------------------------------------------------
(* Induction                                                               *)

LEMMA LeastNat ==
  ASSUME NEW S \in SUBSET Nat, S # {} PROVE \E x \in S : \A y \in S : x <= y
<1> DEFINE R == {ss \in Nat \X Nat : ss[1] < ss[2]}
<1>1. IsWellFoundedOn(R, Nat)
  BY NatLessThanWellFounded DEF OpToRel
<1>2. \A x, y \in Nat : <<y, x>> \in R <=> y < x
  OBVIOUS
<1> HIDE DEF R
<1>3. PICK x \in S : \A y \in S : ~(<<y, x>> \in R)
  BY <1>1, WFMin
<1>4. ASSUME NEW y \in S PROVE x <= y
  <2>1. x \in Nat /\ y \in Nat
    OBVIOUS
  <2>2. ~(y < x)
    BY <1>2, <1>3, <2>1
  <2> QED
    BY <2>1, <2>2
<1> QED
  BY <1>4

\* A set of numbers that has 0 and the successor of each has them all.
LEMMA AllNats ==
  ASSUME NEW S, 0 \in S, \A n \in Nat : n \in S => n + 1 \in S
  PROVE  \A n \in Nat : n \in S
<1> DEFINE Bad == {n \in Nat : n \notin S}
<1>1. SUFFICES ASSUME Bad # {} PROVE FALSE
  OBVIOUS
<1>2. PICK n \in Bad : \A m \in Bad : n <= m
  BY <1>1, LeastNat
<1>3. n \in Nat /\ n # 0 /\ n - 1 \in Nat
  BY <1>2
<1>4. n - 1 \in S
  BY <1>2, <1>3
<1>5. (n - 1) + 1 = n
  BY <1>3
<1> QED
  BY <1>2, <1>3, <1>4, <1>5

-----------------------------------------------------------------------------
(* Sequences                                                               *)

LEMMA AllSeqs ==
  ASSUME NEW T, NEW S, <<>> \in S,
         \A s \in Seq(T) : \A e \in T : s \in S => Append(s, e) \in S
  PROVE  \A s \in Seq(T) : s \in S
<1> DEFINE N == {n \in Nat : \A s \in Seq(T) : Len(s) = n => s \in S}
<1>1. 0 \in N
  <2>1. ASSUME NEW s \in Seq(T), Len(s) = 0 PROVE s \in S
    <3>1. s = <<>>
      BY <2>1, EmptySeq
    <3> QED
      BY <3>1
  <2> QED
    BY <2>1
<1>2. ASSUME NEW n \in Nat, n \in N PROVE n + 1 \in N
  <2>1. ASSUME NEW s \in Seq(T), Len(s) = n + 1 PROVE s \in S
    <3>1. s # <<>>
      BY <2>1, EmptySeq
    <3>2. PICK r \in Seq(T), e \in T : s = Append(r, e)
      BY <3>1, SequenceEmptyOrAppend
    <3>3. Len(s) = Len(r) + 1 /\ Len(r) \in Nat
      BY <3>2, AppendProperties, LenProperties
    <3>4. Len(r) = n
      BY <2>1, <3>3
    <3> QED
      BY <1>2, <3>2, <3>4
  <2> QED
    BY <2>1
<1> HIDE DEF N
<1>3. \A n \in Nat : n \in N
  BY <1>1, <1>2, AllNats
<1>4. ASSUME NEW s \in Seq(T) PROVE s \in S
  <2>1. Len(s) \in Nat
    BY LenProperties
  <2> QED
    BY <1>3, <2>1 DEF N
<1> QED
  BY <1>4

LEMMA SeqIsSeq ==
  ASSUME NEW T, NEW s \in Seq(T)
  PROVE  /\ IsSeq(s) /\ ToSet(s) \subseteq T
         /\ Len(s) \in Nat /\ DOMAIN s = 1 .. Len(s) /\ \A i \in DOMAIN s : s[i] \in T
<1>1. Len(s) \in Nat /\ DOMAIN s = 1 .. Len(s) /\ s \in [1 .. Len(s) -> T]
  BY LenProperties
<1>2. s \in [1 .. Len(s) -> ToSet(s)]
  BY <1>1 DEF ToSet
<1>3. s \in Seq(ToSet(s))
  BY <1>1, <1>2, SeqDef
<1> QED
  BY <1>1, <1>3 DEF IsSeq, ToSet

LEMMA IsSeqProperties ==
  ASSUME NEW s, IsSeq(s)
  PROVE  /\ Len(s) \in Nat /\ DOMAIN s = 1 .. Len(s)
         /\ s = [i \in DOMAIN s |-> s[i]]
<1>1. s \in [1 .. Len(s) -> ToSet(s)] /\ Len(s) \in Nat /\ DOMAIN s = 1 .. Len(s)
  BY LenProperties DEF IsSeq
<1> QED
  BY <1>1

LEMMA FunIsSeq ==
  ASSUME NEW n \in Nat, NEW s, DOMAIN s = 1 .. n, s = [i \in DOMAIN s |-> s[i]]
  PROVE  IsSeq(s) /\ Len(s) = n
<1>1. s \in [1 .. n -> ToSet(s)]
  BY DEF ToSet
<1>2. s \in Seq(ToSet(s))
  BY <1>1, SeqDef
<1>3. DOMAIN s = 1 .. Len(s) /\ Len(s) \in Nat
  BY <1>2, LenProperties
<1> QED
  BY <1>2, <1>3 DEF IsSeq

\* What is made of each element of a sequence is one.
LEMMA SameDomain ==
  ASSUME NEW s, IsSeq(s), NEW t, DOMAIN t = DOMAIN s, t = [i \in DOMAIN t |-> t[i]]
  PROVE  IsSeq(t) /\ Len(t) = Len(s)
<1>1. Len(s) \in Nat /\ DOMAIN t = 1 .. Len(s)
  BY IsSeqProperties
<1> QED
  BY <1>1, FunIsSeq

LEMMA ToBoth ==
  ASSUME NEW s, IsSeq(s), NEW t, IsSeq(t)
  PROVE  s \in Seq(ToSet(s) \cup ToSet(t)) /\ t \in Seq(ToSet(s) \cup ToSet(t))
BY SeqMonotonic DEF IsSeq

LEMMA ConcatIsSeq ==
  ASSUME NEW s, IsSeq(s), NEW t, IsSeq(t)
  PROVE  /\ IsSeq(s \o t) /\ Len(s \o t) = Len(s) + Len(t)
         /\ \A i \in 1 .. Len(s) + Len(t) :
              (s \o t)[i] = IF i <= Len(s) THEN s[i] ELSE t[i - Len(s)]
         /\ ToSet(s \o t) = ToSet(s) \cup ToSet(t)
<1> DEFINE T == ToSet(s) \cup ToSet(t)
<1>1. s \in Seq(T) /\ t \in Seq(T)
  BY ToBoth
<1> HIDE DEF T
<1>2. /\ s \o t \in Seq(T) /\ Len(s \o t) = Len(s) + Len(t)
      /\ \A i \in 1 .. Len(s) + Len(t) :
           (s \o t)[i] = IF i <= Len(s) THEN s[i] ELSE t[i - Len(s)]
  BY <1>1, ConcatProperties
<1>3. IsSeq(s \o t) /\ ToSet(s \o t) \subseteq T /\ DOMAIN (s \o t) = 1 .. Len(s) + Len(t)
  BY <1>2, SeqIsSeq
<1>4. Len(s) \in Nat /\ Len(t) \in Nat /\ DOMAIN s = 1 .. Len(s) /\ DOMAIN t = 1 .. Len(t)
  BY IsSeqProperties
<1>5. ASSUME NEW i \in DOMAIN s PROVE s[i] \in ToSet(s \o t)
  <2>1. i \in 1 .. Len(s) + Len(t) /\ i <= Len(s)
    BY <1>4
  <2> QED
    BY <1>2, <1>3, <2>1 DEF ToSet
<1>6. ASSUME NEW i \in DOMAIN t PROVE t[i] \in ToSet(s \o t)
  <2>1. Len(s) + i \in 1 .. Len(s) + Len(t) /\ ~(Len(s) + i <= Len(s)) /\ (Len(s) + i) - Len(s) = i
    BY <1>4
  <2>2. (s \o t)[Len(s) + i] = t[i]
    BY <1>2, <2>1
  <2> QED
    BY <1>3, <2>1, <2>2 DEF ToSet
<1>7. T \subseteq ToSet(s \o t)
  BY <1>5, <1>6 DEF T, ToSet
<1> QED
  BY <1>2, <1>3, <1>7 DEF T

LEMMA SameSeq ==
  ASSUME NEW s, IsSeq(s), NEW t, IsSeq(t), Len(s) = Len(t), \A i \in 1 .. Len(s) : s[i] = t[i]
  PROVE  s = t
<1>1. s \in Seq(ToSet(s) \cup ToSet(t)) /\ t \in Seq(ToSet(s) \cup ToSet(t))
  BY ToBoth
<1> QED
  BY <1>1, SeqEqual

LEMMA ConcatAssoc ==
  ASSUME NEW s, IsSeq(s), NEW t, IsSeq(t), NEW u, IsSeq(u)
  PROVE  (s \o t) \o u = s \o (t \o u)
<1> DEFINE T == (ToSet(s) \cup ToSet(t)) \cup ToSet(u)
<1>1. s \in Seq(T) /\ t \in Seq(T) /\ u \in Seq(T)
  BY SeqMonotonic DEF IsSeq
<1> HIDE DEF T
<1> QED
  BY <1>1, ConcatAssociative

LEMMA EmptyIsSeq == IsSeq(<<>>) /\ ToSet(<<>>) = {}
  BY EmptySeq DEF IsSeq, ToSet

LEMMA EmptyConcat == ASSUME NEW s, IsSeq(s) PROVE s \o <<>> = s /\ <<>> \o s = s
  BY ConcatEmptySeq DEF IsSeq

LEMMA OneIsSeq ==
  ASSUME NEW e PROVE IsSeq(<<e>>) /\ ToSet(<<e>>) = {e} /\ Len(<<e>>) = 1 /\ DOMAIN <<e>> = 1 .. 1
  BY DEF IsSeq, ToSet

LEMMA AppendIsOne ==
  ASSUME NEW s, IsSeq(s), NEW e PROVE Append(s, e) = s \o <<e>>
<1>1. s \in Seq(ToSet(s) \cup {e})
  BY SeqMonotonic DEF IsSeq
<1> QED
  BY <1>1, AppendIsConcat

-----------------------------------------------------------------------------
(* Sequences put end to end                                                *)

\* The first sequences of s, put end to end.
Flattens(f, s, n) == f = [i \in 1 .. n |-> IF i = 1 THEN s[i] ELSE f[i - 1] \o s[i]]

LEMMA FlattensExists ==
  ASSUME NEW s
  PROVE  \A n \in Nat : \E f : Flattens(f, s, n)
<1> DEFINE S == {n \in Nat : \E f : Flattens(f, s, n)}
<1>1. 0 \in S
  <2>1. Flattens([i \in 1 .. 0 |-> 0], s, 0)
    BY DEF Flattens
  <2> QED
    BY <2>1
<1>2. ASSUME NEW n \in Nat, n \in S PROVE n + 1 \in S
  <2>1. PICK f : Flattens(f, s, n)
    BY <1>2
  <2> DEFINE g == [i \in 1 .. n + 1 |-> IF i = 1 THEN s[i] ELSE f[i - 1] \o s[i]]
  <2>2. \A i \in 1 .. n : g[i] = f[i]
    <3>1. \A i \in 1 .. n : f[i] = IF i = 1 THEN s[i] ELSE f[i - 1] \o s[i]
      BY <2>1 DEF Flattens
    <3>2. \A i \in 1 .. n : i \in 1 .. n + 1
      OBVIOUS
    <3> QED
      BY <3>1, <3>2
  <2>3. \A i \in 1 .. n + 1 : i # 1 => i - 1 \in 1 .. n
    OBVIOUS
  <2>4. Flattens(g, s, n + 1)
    BY <2>2, <2>3 DEF Flattens
  <2> QED
    BY <2>4
<1> HIDE DEF S
<1>3. \A n \in Nat : n \in S
  BY <1>1, <1>2, AllNats
<1> QED
  BY <1>3 DEF S

LEMMA FlattensTyped ==
  ASSUME NEW T, NEW n \in Nat, NEW s, \A i \in 1 .. n : s[i] \in Seq(T),
         NEW f, Flattens(f, s, n)
  PROVE  f \in [1 .. n -> Seq(T)]
<1> DEFINE S == {i \in Nat : i \in 1 .. n => f[i] \in Seq(T)}
<1>1. 0 \in S
  OBVIOUS
<1>2. ASSUME NEW i \in Nat, i \in S PROVE i + 1 \in S
  <2>1. SUFFICES ASSUME i + 1 \in 1 .. n PROVE f[i + 1] \in Seq(T)
    OBVIOUS
  <2>2. CASE i = 0
    BY <2>1, <2>2 DEF Flattens
  <2>3. CASE i # 0
    <3>1. i \in 1 .. n /\ (i + 1) - 1 = i /\ i + 1 # 1
      BY <2>1, <2>3
    <3>2. f[i + 1] = f[i] \o s[i + 1]
      BY <2>1, <3>1 DEF Flattens
    <3>3. f[i] \in Seq(T) /\ s[i + 1] \in Seq(T)
      BY <1>2, <2>1, <3>1
    <3> QED
      BY <3>2, <3>3
  <2> QED
    BY <2>2, <2>3
<1> HIDE DEF S
<1>3. \A i \in Nat : i \in S
  BY <1>1, <1>2, AllNats
<1>4. \A i \in 1 .. n : f[i] \in Seq(T)
  BY <1>3 DEF S
<1>5. f = [i \in 1 .. n |-> f[i]]
  BY DEF Flattens
<1> QED
  BY <1>4, <1>5

LEMMA FlattensAgree ==
  ASSUME NEW s, NEW t, NEW n \in Nat, NEW m \in Nat, n <= m, \A i \in 1 .. n : s[i] = t[i],
         NEW f, Flattens(f, s, n), NEW g, Flattens(g, t, m)
  PROVE  \A i \in 1 .. n : f[i] = g[i]
<1> DEFINE S == {i \in Nat : i \in 1 .. n => f[i] = g[i]}
<1>1. 0 \in S
  OBVIOUS
<1>2. ASSUME NEW i \in Nat, i \in S PROVE i + 1 \in S
  <2>1. SUFFICES ASSUME i + 1 \in 1 .. n PROVE f[i + 1] = g[i + 1]
    OBVIOUS
  <2>2. i + 1 \in 1 .. m /\ s[i + 1] = t[i + 1]
    BY <2>1
  <2>3. CASE i = 0
    BY <2>1, <2>2, <2>3 DEF Flattens
  <2>4. CASE i # 0
    <3>1. i \in 1 .. n /\ (i + 1) - 1 = i /\ i + 1 # 1
      BY <2>1, <2>4
    <3>2. f[i + 1] = f[i] \o s[i + 1] /\ g[i + 1] = g[i] \o t[i + 1]
      BY <2>1, <2>2, <3>1 DEF Flattens
    <3>3. f[i] = g[i]
      BY <1>2, <3>1
    <3> QED
      BY <2>2, <3>2, <3>3
  <2> QED
    BY <2>3, <2>4
<1> HIDE DEF S
<1>3. \A i \in Nat : i \in S
  BY <1>1, <1>2, AllNats
<1> QED
  BY <1>3 DEF S

LEMMA FlattenSeqDef ==
  ASSUME NEW T, NEW s \in Seq(Seq(T)), s # <<>>
  PROVE  \E f : /\ Flattens(f, s, Len(s)) /\ f \in [1 .. Len(s) -> Seq(T)]
                /\ FlattenSeq(s) = f[Len(s)]
<1> DEFINE f == CHOOSE f : Flattens(f, s, Len(s))
<1>1. Len(s) \in Nat /\ Len(s) # 0 /\ \A i \in 1 .. Len(s) : s[i] \in Seq(T)
  OBVIOUS
<1>2. Flattens(f, s, Len(s))
  BY <1>1, FlattensExists
<1>3. FlattenSeq(s) = f[Len(s)]
  BY <1>1 DEF FlattenSeq, Flattens
<1> HIDE DEF f
<1>4. f \in [1 .. Len(s) -> Seq(T)]
  BY <1>1, <1>2, FlattensTyped
<1> QED
  BY <1>2, <1>3, <1>4

LEMMA FlattenEmpty == FlattenSeq(<<>>) = <<>>
  BY DEF FlattenSeq

LEMMA FlattenType ==
  ASSUME NEW T, NEW s \in Seq(Seq(T)) PROVE FlattenSeq(s) \in Seq(T)
<1>1. CASE s = <<>>
  BY <1>1, FlattenEmpty, EmptySeq
<1>2. CASE s # <<>>
  <2>1. PICK f : /\ Flattens(f, s, Len(s)) /\ f \in [1 .. Len(s) -> Seq(T)]
                 /\ FlattenSeq(s) = f[Len(s)]
    BY <1>2, FlattenSeqDef
  <2>2. Len(s) \in 1 .. Len(s)
    BY <1>2
  <2> QED
    BY <2>1, <2>2
<1> QED
  BY <1>1, <1>2

\* A sequence more is put at the end.
LEMMA FlattenAppend ==
  ASSUME NEW T, NEW s \in Seq(Seq(T)), NEW e \in Seq(T)
  PROVE  FlattenSeq(Append(s, e)) = FlattenSeq(s) \o e
<1> DEFINE t == Append(s, e)
           n == Len(s)
           m == n + 1
<1>1. /\ t \in Seq(Seq(T)) /\ t # <<>> /\ n \in Nat /\ Len(t) = n + 1
      /\ t[n + 1] = e /\ \A i \in 1 .. n : t[i] = s[i]
  BY AppendProperties, LenProperties
<1> HIDE DEF t
<1>2. PICK g : /\ Flattens(g, t, n + 1) /\ g \in [1 .. n + 1 -> Seq(T)]
               /\ FlattenSeq(t) = g[n + 1]
  BY <1>1, FlattenSeqDef
<1>3. CASE s = <<>>
  <2>1. n = 0
    BY <1>3
  <2>2. g[1] = t[1]
    BY <1>2, <2>1 DEF Flattens
  <2> QED
    BY <1>1, <1>2, <1>3, <2>1, <2>2, FlattenEmpty DEF t
<1>4. CASE s # <<>>
  <2>1. PICK f : /\ Flattens(f, s, n) /\ f \in [1 .. n -> Seq(T)]
                 /\ FlattenSeq(s) = f[n]
    BY <1>4, FlattenSeqDef
  <2>2. n \in 1 .. n /\ (n + 1) - 1 = n /\ n + 1 # 1 /\ n + 1 \in 1 .. n + 1
    BY <1>1, <1>4
  <2>3. f[n] = g[n]
    <3>1. \A i \in 1 .. n : f[i] = g[i]
      <4> HIDE DEF n
      <4>1. \A i \in 1 .. n : s[i] = t[i]
        BY <1>1
      <4>2. n \in Nat /\ m \in Nat /\ n <= m
        BY <1>1
      <4>3. Flattens(f, s, n)
        BY <2>1
      <4>4. Flattens(g, t, m)
        BY <1>2
      <4> HIDE DEF m
      <4> QED
        BY <4>1, <4>2, <4>3, <4>4, FlattensAgree
    <3> QED
      BY <2>2, <3>1
  <2>4. g[n + 1] = g[n] \o t[n + 1]
    BY <1>2, <2>2 DEF Flattens
  <2> QED
    BY <1>1, <1>2, <2>1, <2>3, <2>4 DEF t
<1> QED
  BY <1>3, <1>4

\* Its sequences are of elements of T.
LEMMA FlattenElements ==
  ASSUME NEW T, NEW s, IsSeq(s), \A i \in DOMAIN s : IsSeq(s[i]) /\ ToSet(s[i]) \subseteq T
  PROVE  s \in Seq(Seq(T)) /\ FlattenSeq(s) \in Seq(T)
<1>1. \A i \in DOMAIN s : s[i] \in Seq(T)
  BY SeqMonotonic DEF IsSeq
<1>2. Len(s) \in Nat /\ DOMAIN s = 1 .. Len(s) /\ s = [i \in DOMAIN s |-> s[i]]
  BY IsSeqProperties
<1>3. s \in [1 .. Len(s) -> Seq(T)]
  BY <1>1, <1>2
<1>4. s \in Seq(Seq(T))
  BY <1>2, <1>3, SeqDef
<1> QED
  BY <1>4, FlattenType

IsSeqs(s) == IsSeq(s) /\ \A i \in DOMAIN s : IsSeq(s[i])

LEMMA FlattenTyped ==
  ASSUME NEW s, IsSeqs(s)
  PROVE  \E T : s \in Seq(Seq(T)) /\ FlattenSeq(s) \in Seq(T)
<1> DEFINE T == UNION {ToSet(s[i]) : i \in DOMAIN s}
<1>1. \A i \in DOMAIN s : IsSeq(s[i]) /\ ToSet(s[i]) \subseteq T
  BY DEF IsSeqs
<1> HIDE DEF T
<1>2. s \in Seq(Seq(T)) /\ FlattenSeq(s) \in Seq(T)
  BY <1>1, FlattenElements DEF IsSeqs
<1> QED
  BY <1>2

LEMMA FlattenIsSeq == ASSUME NEW s, IsSeqs(s) PROVE IsSeq(FlattenSeq(s))
  BY FlattenTyped, SeqIsSeq

LEMMA FlattenOne == ASSUME NEW e, IsSeq(e) PROVE IsSeqs(<<e>>) /\ FlattenSeq(<<e>>) = e
<1>1. /\ IsSeq(<<e>>) /\ Len(<<e>>) = 1 /\ DOMAIN <<e>> = 1 .. 1 /\ <<e>>[1] = e
  BY OneIsSeq
<1>2. \A i \in DOMAIN <<e>> : IsSeq(<<e>>[i])
  BY <1>1
<1>3. <<e>> = Append(<<>>, e) /\ <<>> \in Seq(Seq(ToSet(e))) /\ e \in Seq(ToSet(e))
  BY EmptySeq DEF IsSeq
<1>4. FlattenSeq(<<e>>) = <<>> \o e
  BY <1>3, FlattenAppend, FlattenEmpty
<1> QED
  BY <1>1, <1>2, <1>4, EmptyConcat DEF IsSeqs

LEMMA ConcatIsSeqs ==
  ASSUME NEW a, IsSeqs(a), NEW b, IsSeqs(b) PROVE IsSeqs(a \o b)
<1>1. /\ IsSeq(a) /\ IsSeq(b) /\ IsSeq(a \o b) /\ Len(a \o b) = Len(a) + Len(b)
      /\ \A i \in 1 .. Len(a) + Len(b) :
           (a \o b)[i] = IF i <= Len(a) THEN a[i] ELSE b[i - Len(a)]
  BY ConcatIsSeq DEF IsSeqs
<1>2. /\ Len(a) \in Nat /\ Len(b) \in Nat /\ DOMAIN a = 1 .. Len(a) /\ DOMAIN b = 1 .. Len(b)
      /\ DOMAIN (a \o b) = 1 .. Len(a) + Len(b)
  BY <1>1, IsSeqProperties
<1>3. ASSUME NEW i \in 1 .. Len(a) + Len(b) PROVE IsSeq((a \o b)[i])
  <2>1. i <= Len(a) => i \in DOMAIN a
    BY <1>2
  <2>2. ~(i <= Len(a)) => i - Len(a) \in DOMAIN b
    BY <1>2
  <2> QED
    BY <1>1, <2>1, <2>2 DEF IsSeqs
<1> QED
  BY <1>1, <1>2, <1>3 DEF IsSeqs

LEMMA FlattenConcat ==
  ASSUME NEW a, IsSeqs(a), NEW b, IsSeqs(b)
  PROVE  FlattenSeq(a \o b) = FlattenSeq(a) \o FlattenSeq(b)
<1>1. PICK A : a \in Seq(Seq(A))
  BY FlattenTyped
<1>2. PICK B : b \in Seq(Seq(B))
  BY FlattenTyped
<1> DEFINE T == A \cup B
           S == {s \in Seq(Seq(T)) : FlattenSeq(a \o s) = FlattenSeq(a) \o FlattenSeq(s)}
<1>3. Seq(A) \subseteq Seq(T) /\ Seq(B) \subseteq Seq(T)
  BY SeqMonotonic
<1>4. a \in Seq(Seq(T)) /\ b \in Seq(Seq(T))
  BY <1>1, <1>2, <1>3, SeqMonotonic
<1> HIDE DEF T
<1>5. <<>> \in S
  <2>1. <<>> \in Seq(Seq(T))
    BY EmptySeq
  <2>2. a \o <<>> = a /\ FlattenSeq(a) \o <<>> = FlattenSeq(a)
    BY EmptyConcat, FlattenIsSeq DEF IsSeqs
  <2> QED
    BY <2>1, <2>2, FlattenEmpty
<1>6. ASSUME NEW s \in Seq(Seq(T)), NEW e \in Seq(T), s \in S PROVE Append(s, e) \in S
  <2>1. Append(s, e) \in Seq(Seq(T)) /\ a \o s \in Seq(Seq(T))
    BY <1>4, AppendProperties, ConcatProperties
  <2>2. a \o Append(s, e) = Append(a \o s, e)
    <3>1. IsSeq(a) /\ IsSeq(s) /\ IsSeq(a \o s) /\ IsSeq(<<e>>)
      BY <1>4, <2>1, SeqIsSeq, OneIsSeq
    <3>2. Append(s, e) = s \o <<e>> /\ Append(a \o s, e) = (a \o s) \o <<e>>
      BY <3>1, AppendIsOne
    <3> QED
      BY <3>1, <3>2, ConcatAssoc
  <2>3. FlattenSeq(Append(a \o s, e)) = FlattenSeq(a \o s) \o e
    BY <2>1, FlattenAppend
  <2>4. FlattenSeq(Append(s, e)) = FlattenSeq(s) \o e
    BY FlattenAppend
  <2>5. FlattenSeq(a) \in Seq(T) /\ FlattenSeq(s) \in Seq(T)
    BY <1>4, FlattenType
  <2>6. (FlattenSeq(a) \o FlattenSeq(s)) \o e = FlattenSeq(a) \o (FlattenSeq(s) \o e)
    BY <2>5, ConcatAssociative
  <2> QED
    BY <1>6, <2>1, <2>2, <2>3, <2>4, <2>6
<1> HIDE DEF S
<1>7. \A s \in Seq(Seq(T)) : s \in S
  BY <1>5, <1>6, AllSeqs
<1> QED
  BY <1>4, <1>7 DEF S
-----------------------------------------------------------------------------
(* What is made of each element, put end to end                            *)

Mapped(h, s) == [i \in DOMAIN s |-> h[s[i]]]
Each(h, s) == FlattenSeq(Mapped(h, s))

\* What h makes of the elements of s are sequences.
Unfolds(h, s) == \A x \in ToSet(s) : IsSeq(h[x])

LEMMA MappedIsSeq ==
  ASSUME NEW h, NEW s, IsSeq(s)
  PROVE  /\ IsSeq(Mapped(h, s)) /\ Len(Mapped(h, s)) = Len(s)
         /\ DOMAIN Mapped(h, s) = DOMAIN s /\ \A i \in DOMAIN s : Mapped(h, s)[i] = h[s[i]]
<1>1. DOMAIN Mapped(h, s) = DOMAIN s /\ \A i \in DOMAIN s : Mapped(h, s)[i] = h[s[i]]
  BY DEF Mapped
<1>2. Mapped(h, s) = [i \in DOMAIN Mapped(h, s) |-> Mapped(h, s)[i]]
  BY DEF Mapped
<1> QED
  BY <1>1, <1>2, SameDomain

LEMMA EachIsSeq ==
  ASSUME NEW h, NEW s, IsSeq(s), Unfolds(h, s)
  PROVE  IsSeqs(Mapped(h, s)) /\ IsSeq(Each(h, s))
<1>1. IsSeqs(Mapped(h, s))
  BY MappedIsSeq DEF IsSeqs, Unfolds, ToSet
<1> QED
  BY <1>1, FlattenIsSeq DEF Each

LEMMA MappedConcat ==
  ASSUME NEW h, NEW a, IsSeq(a), NEW b, IsSeq(b)
  PROVE  Mapped(h, a \o b) = Mapped(h, a) \o Mapped(h, b)
<1> DEFINE c == a \o b
           p == Mapped(h, a)
           q == Mapped(h, b)
<1>1. /\ IsSeq(c) /\ Len(c) = Len(a) + Len(b)
      /\ \A i \in 1 .. Len(a) + Len(b) : c[i] = IF i <= Len(a) THEN a[i] ELSE b[i - Len(a)]
  BY ConcatIsSeq
<1>2. /\ IsSeq(p) /\ IsSeq(q) /\ Len(p) = Len(a) /\ Len(q) = Len(b)
      /\ \A i \in DOMAIN a : p[i] = h[a[i]]
      /\ \A i \in DOMAIN b : q[i] = h[b[i]]
  BY MappedIsSeq
<1> HIDE DEF c, p, q
<1>3. /\ IsSeq(p \o q) /\ Len(p \o q) = Len(a) + Len(b)
      /\ \A i \in 1 .. Len(a) + Len(b) : (p \o q)[i] = IF i <= Len(a) THEN p[i] ELSE q[i - Len(a)]
  <2>1. /\ IsSeq(p \o q) /\ Len(p \o q) = Len(p) + Len(q)
        /\ \A i \in 1 .. Len(p) + Len(q) : (p \o q)[i] = IF i <= Len(p) THEN p[i] ELSE q[i - Len(p)]
    BY <1>2, ConcatIsSeq
  <2> QED
    BY <1>2, <2>1
<1>4. /\ IsSeq(Mapped(h, c)) /\ Len(Mapped(h, c)) = Len(c)
      /\ \A i \in DOMAIN c : Mapped(h, c)[i] = h[c[i]]
  BY <1>1, MappedIsSeq
<1>5. /\ Len(a) \in Nat /\ Len(b) \in Nat /\ DOMAIN a = 1 .. Len(a) /\ DOMAIN b = 1 .. Len(b)
      /\ DOMAIN c = 1 .. Len(a) + Len(b)
  BY <1>1, IsSeqProperties
<1>6. ASSUME NEW i \in 1 .. Len(a) + Len(b) PROVE Mapped(h, c)[i] = (p \o q)[i]
  <2>1. CASE i <= Len(a)
    <3>1. i \in DOMAIN a
      BY <1>5, <2>1
    <3> QED
      BY <1>1, <1>2, <1>3, <1>4, <1>5, <2>1, <3>1
  <2>2. CASE ~(i <= Len(a))
    <3>1. i - Len(a) \in DOMAIN b
      BY <1>5, <2>2
    <3>2. c[i] = b[i - Len(a)] /\ (p \o q)[i] = q[i - Len(a)]
      BY <1>1, <1>3, <2>2
    <3>3. Mapped(h, c)[i] = h[c[i]]
      BY <1>4, <1>5
    <3> QED
      BY <1>2, <3>1, <3>2, <3>3
  <2> QED
    BY <2>1, <2>2
<1>7. Mapped(h, c) = p \o q
  BY <1>1, <1>3, <1>4, <1>6, SameSeq
<1> QED
  BY <1>7 DEF c, p, q

LEMMA EachConcat ==
  ASSUME NEW h, NEW a, IsSeq(a), Unfolds(h, a), NEW b, IsSeq(b), Unfolds(h, b)
  PROVE  Each(h, a \o b) = Each(h, a) \o Each(h, b)
<1>1. IsSeqs(Mapped(h, a)) /\ IsSeqs(Mapped(h, b))
  BY EachIsSeq
<1>2. FlattenSeq(Mapped(h, a) \o Mapped(h, b)) = FlattenSeq(Mapped(h, a)) \o FlattenSeq(Mapped(h, b))
  BY <1>1, FlattenConcat
<1>3. Mapped(h, a \o b) = Mapped(h, a) \o Mapped(h, b)
  BY MappedConcat
<1> QED
  BY <1>2, <1>3 DEF Each

LEMMA EachEmpty == ASSUME NEW h PROVE Each(h, <<>>) = <<>>
<1>1. IsSeq(Mapped(h, <<>>)) /\ Len(Mapped(h, <<>>)) = Len(<<>>)
  BY EmptyIsSeq, MappedIsSeq
<1>2. Mapped(h, <<>>) = <<>>
  BY <1>1, EmptySeq DEF IsSeq
<1> QED
  BY <1>2, FlattenEmpty DEF Each

LEMMA EachOne ==
  ASSUME NEW h, NEW x, IsSeq(h[x]) PROVE Each(h, <<x>>) = h[x]
<1>1. IsSeq(<<x>>) /\ Len(<<x>>) = 1 /\ DOMAIN <<x>> = 1 .. 1 /\ <<x>>[1] = x
  BY OneIsSeq
<1>2. /\ IsSeq(Mapped(h, <<x>>)) /\ Len(Mapped(h, <<x>>)) = 1
      /\ Mapped(h, <<x>>)[1] = h[x]
  BY <1>1, MappedIsSeq
<1>3. IsSeq(<<h[x]>>) /\ Len(<<h[x]>>) = 1 /\ <<h[x]>>[1] = h[x]
  BY OneIsSeq
<1>4. Mapped(h, <<x>>) = <<h[x]>>
  BY <1>2, <1>3, SameSeq
<1> QED
  BY <1>4, FlattenOne DEF Each

\* Equal things are made of the same elements.
LEMMA EachAgrees ==
  ASSUME NEW h, NEW g, NEW s, IsSeq(s), \A x \in ToSet(s) : h[x] = g[x]
  PROVE  Each(h, s) = Each(g, s)
<1>1. Mapped(h, s) = Mapped(g, s)
  BY DEF Mapped, ToSet
<1> QED
  BY <1>1 DEF Each

LEMMA EachSingle ==
  ASSUME NEW h, NEW g, NEW s, IsSeq(s), \A x \in ToSet(s) : h[x] = <<g[x]>>
  PROVE  Each(h, s) = Mapped(g, s)
<1> DEFINE T == ToSet(s)
           S == {r \in Seq(T) : Each(h, r) = Mapped(g, r)}
<1>1. <<>> \in S
  <2>1. IsSeq(Mapped(g, <<>>)) /\ Len(Mapped(g, <<>>)) = Len(<<>>)
    BY EmptyIsSeq, MappedIsSeq
  <2>2. Mapped(g, <<>>) = <<>> /\ <<>> \in Seq(T)
    BY <2>1, EmptySeq DEF IsSeq
  <2> QED
    BY <2>2, EachEmpty
<1>2. ASSUME NEW r \in Seq(T), NEW e \in T, r \in S PROVE Append(r, e) \in S
  <2>1. Append(r, e) \in Seq(T) /\ Append(r, e) = r \o <<e>>
    BY AppendProperties, AppendIsConcat
  <2>2. IsSeq(r) /\ ToSet(r) \subseteq T /\ IsSeq(<<e>>) /\ ToSet(<<e>>) = {e}
    BY SeqIsSeq, OneIsSeq
  <2>3. Unfolds(h, r) /\ Unfolds(h, <<e>>) /\ IsSeq(h[e])
    BY <2>2, OneIsSeq DEF Unfolds
  <2>4. Each(h, r \o <<e>>) = Each(h, r) \o Each(h, <<e>>)
    BY <2>2, <2>3, EachConcat
  <2>5. Each(h, <<e>>) = <<g[e]>>
    BY <2>3, EachOne
  <2>6. Mapped(g, <<e>>) = <<g[e]>>
    <3>1. /\ IsSeq(Mapped(g, <<e>>)) /\ Len(Mapped(g, <<e>>)) = 1
          /\ Mapped(g, <<e>>)[1] = g[e]
      BY <2>2, OneIsSeq, MappedIsSeq
    <3>2. IsSeq(<<g[e]>>) /\ Len(<<g[e]>>) = 1 /\ <<g[e]>>[1] = g[e]
      BY OneIsSeq
    <3> QED
      BY <3>1, <3>2, SameSeq
  <2>7. Mapped(g, r \o <<e>>) = Mapped(g, r) \o Mapped(g, <<e>>)
    BY <2>2, MappedConcat
  <2> QED
    BY <1>2, <2>1, <2>4, <2>5, <2>6, <2>7
<1>3. s \in Seq(T)
  BY DEF IsSeq
<1> HIDE DEF S, T
<1>4. \A r \in Seq(T) : r \in S
  BY <1>1, <1>2, AllSeqs
<1> QED
  BY <1>3, <1>4 DEF S

\* It is made of the parts first, and put end to end.
LEMMA EachFlatten ==
  ASSUME NEW T, NEW h, \A x \in T : IsSeq(h[x]), NEW s \in Seq(Seq(T))
  PROVE  Each(h, FlattenSeq(s)) = FlattenSeq([i \in DOMAIN s |-> Each(h, s[i])])
<1> DEFINE f == [r \in Seq(T) |-> Each(h, r)]
           S == {r \in Seq(Seq(T)) : Each(h, FlattenSeq(r)) = Each(f, r)}
<1>1. \A r \in Seq(T) : IsSeq(r) /\ Unfolds(h, r) /\ f[r] = Each(h, r) /\ IsSeq(f[r])
  BY SeqIsSeq, EachIsSeq DEF Unfolds
<1> HIDE DEF f
<1>2. <<>> \in S
  <2>1. <<>> \in Seq(Seq(T))
    BY EmptySeq
  <2> QED
    BY <2>1, FlattenEmpty, EachEmpty
<1>3. ASSUME NEW r \in Seq(Seq(T)), NEW e \in Seq(T), r \in S PROVE Append(r, e) \in S
  <2>1. Append(r, e) \in Seq(Seq(T)) /\ Append(r, e) = r \o <<e>>
    BY AppendProperties, AppendIsConcat
  <2>2. FlattenSeq(Append(r, e)) = FlattenSeq(r) \o e /\ FlattenSeq(r) \in Seq(T)
    BY FlattenAppend, FlattenType
  <2>3. Each(h, FlattenSeq(r) \o e) = Each(h, FlattenSeq(r)) \o Each(h, e)
    BY <1>1, <2>2, EachConcat
  <2>4. IsSeq(r) /\ ToSet(r) \subseteq Seq(T) /\ IsSeq(<<e>>) /\ ToSet(<<e>>) = {e}
    BY SeqIsSeq, OneIsSeq
  <2>5. Unfolds(f, r) /\ Unfolds(f, <<e>>)
    BY <1>1, <2>4 DEF Unfolds
  <2>6. Each(f, r \o <<e>>) = Each(f, r) \o Each(f, <<e>>)
    BY <2>4, <2>5, EachConcat
  <2>7. Each(f, <<e>>) = Each(h, e)
    BY <1>1, EachOne
  <2> QED
    BY <1>3, <2>1, <2>2, <2>3, <2>6, <2>7
<1> HIDE DEF S
<1>4. \A r \in Seq(Seq(T)) : r \in S
  BY <1>2, <1>3, AllSeqs
<1>5. Each(f, s) = FlattenSeq([i \in DOMAIN s |-> Each(h, s[i])])
  <2>1. \A i \in DOMAIN s : s[i] \in Seq(T)
    BY SeqIsSeq
  <2>2. Mapped(f, s) = [i \in DOMAIN s |-> Each(h, s[i])]
    BY <1>1, <2>1 DEF Mapped
  <2> QED
    BY <2>2 DEF Each
<1> QED
  BY <1>4, <1>5 DEF S
-----------------------------------------------------------------------------
(* Sums over finite sets                                                   *)

Some(S) == CHOOSE k \in S : TRUE

Sums(f, D, w) ==
  f = [S \in SUBSET D |-> IF S = {} THEN 0 ELSE w[Some(S)] + f[S \ {Some(S)}]]

LEMMA SomeLeft ==
  ASSUME NEW S, IsFiniteSet(S), S # {}
  PROVE  /\ Some(S) \in S /\ IsFiniteSet(S \ {Some(S)})
         /\ Cardinality(S \ {Some(S)}) = Cardinality(S) - 1
<1>1. Some(S) \in S
  BY DEF Some
<1> QED
  BY <1>1, FS_RemoveElement

LEMMA SumsExist == ASSUME NEW D, IsFiniteSet(D), NEW w PROVE \E f : Sums(f, D, w)
<1> DEFINE Upto(n) == {S \in SUBSET D : Cardinality(S) <= n}
           Sum(f, n) == f = [S \in Upto(n) |-> IF S = {} THEN 0 ELSE w[Some(S)] + f[S \ {Some(S)}]]
           N == {n \in Nat : \E f : Sum(f, n)}
<1>1. \A S \in SUBSET D : IsFiniteSet(S) /\ Cardinality(S) \in Nat /\ Cardinality(S) <= Cardinality(D)
  BY FS_Subset, FS_CardinalityType
<1>2. \A S \in SUBSET D : Cardinality(S) <= 0 => S = {}
  BY <1>1, FS_EmptySet
<1>3. \A S \in SUBSET D : S # {} => /\ S \ {Some(S)} \in SUBSET D
                                    /\ Cardinality(S \ {Some(S)}) = Cardinality(S) - 1
  BY <1>1, SomeLeft
<1>4. 0 \in N
  <2> DEFINE f == [S \in Upto(0) |-> 0]
  <2>1. f = [S \in Upto(0) |-> IF S = {} THEN 0 ELSE w[Some(S)] + f[S \ {Some(S)}]]
    BY <1>2
  <2> HIDE DEF f
  <2> QED
    BY <2>1
<1>5. ASSUME NEW n \in Nat, n \in N PROVE n + 1 \in N
  <2>1. PICK f : Sum(f, n)
    BY <1>5
  <2> DEFINE g == [S \in Upto(n + 1) |-> IF S = {} THEN 0 ELSE w[Some(S)] + f[S \ {Some(S)}]]
  <2>2. ASSUME NEW S \in Upto(n) PROVE S \in Upto(n + 1) /\ g[S] = f[S]
    <3>1. S \in SUBSET D /\ Cardinality(S) \in Nat /\ Cardinality(S) <= n + 1
      BY <1>1
    <3>2. f[S] = IF S = {} THEN 0 ELSE w[Some(S)] + f[S \ {Some(S)}]
      BY <2>1
    <3> QED
      BY <3>1, <3>2
  <2>3. ASSUME NEW S \in Upto(n + 1), S # {} PROVE S \ {Some(S)} \in Upto(n)
    BY <1>1, <1>3, <2>3
  <2> HIDE DEF Upto
  <2>4. g = [S \in Upto(n + 1) |-> IF S = {} THEN 0 ELSE w[Some(S)] + g[S \ {Some(S)}]]
    BY <2>2, <2>3
  <2> HIDE DEF g
  <2>5. Sum(g, n + 1)
    BY <2>4
  <2> HIDE DEF Sum
  <2> QED
    BY <2>5
<1> HIDE DEF N
<1>6. \A n \in Nat : n \in N
  BY <1>4, <1>5, AllNats
<1>7. Cardinality(D) \in N
  BY <1>1, <1>6
<1>8. PICK f : Sum(f, Cardinality(D))
  BY <1>7 DEF N
<1>9. Upto(Cardinality(D)) = SUBSET D
  BY <1>1
<1> QED
  BY <1>8, <1>9 DEF Sums

\* Of a set with the same numbers in both, the sums are the same.
LEMMA SumsAgree ==
  ASSUME NEW D, NEW v, NEW f, Sums(f, D, v), NEW E, NEW w, NEW g, Sums(g, E, w),
         NEW T, IsFiniteSet(T), T \subseteq D, T \subseteq E, \A k \in T : v[k] = w[k]
  PROVE  f[T] = g[T]
<1> DEFINE N == {n \in Nat : \A S \in SUBSET T : Cardinality(S) = n => f[S] = g[S]}
<1>1. \A S \in SUBSET T : /\ IsFiniteSet(S) /\ Cardinality(S) \in Nat
                          /\ S \in SUBSET D /\ S \in SUBSET E
  BY FS_Subset, FS_CardinalityType
<1>2. \A S \in SUBSET T : /\ f[S] = IF S = {} THEN 0 ELSE v[Some(S)] + f[S \ {Some(S)}]
                          /\ g[S] = IF S = {} THEN 0 ELSE w[Some(S)] + g[S \ {Some(S)}]
  BY <1>1 DEF Sums
<1>3. 0 \in N
  <2>1. ASSUME NEW S \in SUBSET T, Cardinality(S) = 0 PROVE f[S] = g[S]
    <3>1. S = {}
      BY <1>1, <2>1, FS_EmptySet
    <3> QED
      BY <1>2, <3>1
  <2> QED
    BY <2>1
<1>4. ASSUME NEW n \in Nat, n \in N PROVE n + 1 \in N
  <2>1. ASSUME NEW S \in SUBSET T, Cardinality(S) = n + 1 PROVE f[S] = g[S]
    <3>1. S # {}
      BY <1>1, <2>1, FS_EmptySet
    <3>2. /\ Some(S) \in S /\ S \ {Some(S)} \in SUBSET T
          /\ Cardinality(S \ {Some(S)}) = Cardinality(S) - 1
      BY <1>1, <3>1, SomeLeft
    <3>3. f[S \ {Some(S)}] = g[S \ {Some(S)}]
      <4>1. Cardinality(S \ {Some(S)}) = n
        BY <2>1, <3>2
      <4> QED
        BY <1>4, <3>2, <4>1
    <3>4. v[Some(S)] = w[Some(S)]
      BY <3>2
    <3> QED
      BY <1>2, <3>1, <3>3, <3>4
  <2> QED
    BY <2>1
<1> HIDE DEF N
<1>5. Cardinality(T) \in N
  BY <1>1, <1>3, <1>4, AllNats
<1> QED
  BY <1>5 DEF N

\* Any element may be taken off.
LEMMA SumsOff ==
  ASSUME NEW D, NEW w, NEW f, Sums(f, D, w), IsFiniteSet(D), \A k \in D : w[k] \in Nat
  PROVE  \A S \in SUBSET D : f[S] \in Nat /\ \A k \in S : f[S] = w[k] + f[S \ {k}]
<1> DEFINE Off(S) == f[S] \in Nat /\ \A k \in S : f[S] = w[k] + f[S \ {k}]
           N == {n \in Nat : \A S \in SUBSET D : Cardinality(S) <= n => Off(S)}
<1>1. \A S \in SUBSET D : IsFiniteSet(S) /\ Cardinality(S) \in Nat
  BY FS_Subset, FS_CardinalityType
<1>2. \A S \in SUBSET D : f[S] = IF S = {} THEN 0 ELSE w[Some(S)] + f[S \ {Some(S)}]
  BY DEF Sums
<1>3. 0 \in N
  <2>1. ASSUME NEW S \in SUBSET D, Cardinality(S) <= 0 PROVE Off(S)
    <3>1. S = {}
      <4>1. Cardinality(S) = 0
        BY <1>1, <2>1
      <4> QED
        BY <1>1, <4>1, FS_EmptySet
    <3>2. f[S] = 0
      BY <1>2, <3>1
    <3> QED
      BY <3>1, <3>2
  <2> QED
    BY <2>1
<1>4. ASSUME NEW n \in Nat, n \in N PROVE n + 1 \in N
  <2>1. ASSUME NEW S \in SUBSET D, S # {}, Cardinality(S) <= n + 1 PROVE Off(S)
    <3> DEFINE j == Some(S)
    <3>1. S # {}
      BY <2>1
    <3>2. j \in S
      BY <1>1, <3>1, SomeLeft
    <3>3. ASSUME NEW k \in S PROVE /\ S \ {k} \in SUBSET D /\ Cardinality(S \ {k}) <= n
                                   /\ Off(S \ {k})
      <4>1. S \ {k} \in SUBSET D /\ Cardinality(S \ {k}) = Cardinality(S) - 1
        BY <1>1, FS_RemoveElement
      <4>2. Cardinality(S \ {k}) <= n
        BY <1>1, <2>1, <4>1
      <4> QED
        BY <1>4, <4>1, <4>2
    <3>4. f[S] = w[j] + f[S \ {j}]
      BY <1>2, <3>1
    <3> HIDE DEF j
    <3>5. w[j] \in Nat /\ f[S \ {j}] \in Nat
      BY <3>2, <3>3
    <3>6. f[S] \in Nat
      BY <3>4, <3>5
    <3>7. ASSUME NEW k \in S PROVE f[S] = w[k] + f[S \ {k}]
      <4>1. CASE k = j
        BY <3>4, <4>1
      <4>2. CASE k # j
        <5>1. k \in S \ {j} /\ j \in S \ {k} /\ (S \ {j}) \ {k} = (S \ {k}) \ {j}
          BY <3>2, <4>2
        <5>2. f[S \ {j}] = w[k] + f[(S \ {j}) \ {k}]
          BY <3>2, <3>3, <5>1
        <5>3. f[S \ {k}] = w[j] + f[(S \ {k}) \ {j}]
          BY <3>3, <5>1
        <5>4. w[k] \in Nat /\ w[j] \in Nat /\ f[(S \ {k}) \ {j}] \in Nat
          <6>1. (S \ {k}) \ {j} \in SUBSET D /\ Cardinality((S \ {k}) \ {j}) <= n
            <7>1. /\ S \ {k} \in SUBSET D /\ Cardinality(S \ {k}) <= n /\ IsFiniteSet(S \ {k})
                  /\ Cardinality(S \ {k}) \in Nat
              BY <1>1, <3>3
            <7>2. Cardinality((S \ {k}) \ {j}) = Cardinality(S \ {k}) - 1
              BY <5>1, <7>1, FS_RemoveElement
            <7> QED
              BY <7>1, <7>2
          <6>2. Off((S \ {k}) \ {j})
            BY <1>4, <6>1
          <6> QED
            <7>1. w[k] \in Nat
              OBVIOUS
            <7> QED
              BY <3>5, <6>2, <7>1
        <5>5. f[S \ {j}] = w[k] + f[(S \ {k}) \ {j}]
          BY <5>1, <5>2
        <5> DEFINE a == f[(S \ {k}) \ {j}]
        <5>6. /\ f[S] = w[j] + f[S \ {j}] /\ f[S \ {j}] = w[k] + a /\ f[S \ {k}] = w[j] + a
              /\ w[k] \in Nat /\ w[j] \in Nat /\ a \in Nat
          BY <3>4, <5>3, <5>4, <5>5
        <5> HIDE DEF a
        <5> QED
          BY <5>6
      <4> QED
        BY <4>1, <4>2
    <3> QED
      BY <3>6, <3>7
  <2>2. Off({})
    <3>1. {} \in SUBSET D
      OBVIOUS
    <3>2. f[{}] = 0
      BY <1>2, <3>1
    <3> QED
      BY <3>2
  <2> HIDE DEF Off
  <2>3. \A S \in SUBSET D : Cardinality(S) <= n + 1 => Off(S)
    BY <2>1, <2>2
  <2> QED
    BY <2>3
<1> HIDE DEF N
<1>5. \A S \in SUBSET D : Cardinality(S) \in N
  BY <1>1, <1>3, <1>4, AllNats
<1> QED
  BY <1>5 DEF N
-----------------------------------------------------------------------------
(* The events and what codex makes of them                                 *)

State(active, done) == [active |-> active, items |-> done]

\* The events take codex from a state to another.
Run(f, st, events) ==
  /\ DOMAIN f = 0 .. Len(events) /\ f[0] = st
  /\ \A j \in 1 .. Len(events) : f[j] = Reconcile(f[j - 1], events[j])
Takes(st, events, to) == \E f : Run(f, st, events) /\ f[Len(events)] = to

LEMMA ReconcileEvent ==
  ASSUME NEW a, NEW done, NEW type, NEW id, NEW body
  PROVE  Reconcile(State(a, done), Event(type, id, body)) =
           IF type = "output_item.added" THEN State(id, done)
           ELSE IF type = "output_item.done" /\ id = a THEN State(None, Append(done, body))
           ELSE State(a, done)
<1> DEFINE st == State(a, done)
           e == Event(type, id, body)
<1>1. e.type = type /\ e.id = id /\ e.body = body /\ st.active = a /\ st.items = done
  BY DEF State, Event
<1>2. [st EXCEPT !.active = id] = State(id, done)
  BY DEF State
<1> HIDE DEF st, e
<1>4. CASE type = "output_item.added"
  <2>1. Reconcile(st, e) = [st EXCEPT !.active = id]
    BY <1>1, <1>4 DEF Reconcile
  <2> QED
    BY <1>2, <1>4, <2>1 DEF st, e
<1>5. CASE type = "output_item.done"
  <2>1. Reconcile(st, e) = IF id = a THEN State(None, Append(done, body)) ELSE st
    BY <1>1, <1>5 DEF Reconcile, State
  <2> QED
    BY <1>5, <2>1 DEF st, e
<1>6. CASE type \notin {"output_item.added", "output_item.done"}
  BY <1>1, <1>6 DEF Reconcile, st, e
<1> QED
  BY <1>4, <1>5, <1>6

LEMMA TakesNone == ASSUME NEW st PROVE Takes(st, <<>>, st)
<1> DEFINE f == [j \in 0 .. 0 |-> st]
<1>1. Run(f, st, <<>>) /\ f[Len(<<>>)] = st
  BY DEF Run
<1> HIDE DEF f
<1> QED
  BY <1>1 DEF Takes

LEMMA TakesOne == ASSUME NEW st, NEW e PROVE Takes(st, <<e>>, Reconcile(st, e))
<1> DEFINE f == [j \in 0 .. 1 |-> IF j = 0 THEN st ELSE Reconcile(st, e)]
<1>1. Len(<<e>>) = 1 /\ <<e>>[1] = e
  OBVIOUS
<1>2. DOMAIN f = 0 .. 1 /\ f[0] = st /\ f[1] = Reconcile(st, e)
  OBVIOUS
<1> HIDE DEF f
<1>3. Run(f, st, <<e>>) /\ f[Len(<<e>>)] = Reconcile(st, e)
  BY <1>1, <1>2 DEF Run
<1> QED
  BY <1>3 DEF Takes

LEMMA TakesConcat ==
  ASSUME NEW a, IsSeq(a), NEW b, IsSeq(b), NEW r, NEW s, NEW t, Takes(r, a, s), Takes(s, b, t)
  PROVE  Takes(r, a \o b, t)
<1>1. /\ IsSeq(a \o b) /\ Len(a \o b) = Len(a) + Len(b)
      /\ \A i \in 1 .. Len(a) + Len(b) : (a \o b)[i] = IF i <= Len(a) THEN a[i] ELSE b[i - Len(a)]
      /\ Len(a) \in Nat /\ Len(b) \in Nat
  BY ConcatIsSeq, IsSeqProperties
<1>2. PICK f : Run(f, r, a) /\ f[Len(a)] = s
  BY DEF Takes
<1>3. PICK g : Run(g, s, b) /\ g[Len(b)] = t
  BY DEF Takes
<1> DEFINE n == Len(a)
           m == Len(b)
           h == [j \in 0 .. n + m |-> IF j <= n THEN f[j] ELSE g[j - n]]
<1>4. h[0] = r /\ h[n + m] = t
  <2>1. h[0] = f[0]
    BY <1>1
  <2>2. CASE m = 0
    BY <1>1, <1>2, <1>3, <2>1, <2>2 DEF Run
  <2>3. CASE m # 0
    BY <1>1, <1>2, <1>3, <2>1, <2>3 DEF Run
  <2> QED
    BY <2>2, <2>3
<1>5. ASSUME NEW j \in 1 .. n + m PROVE h[j] = Reconcile(h[j - 1], (a \o b)[j])
  <2>1. CASE j <= n
    <3>1. h[j] = f[j] /\ h[j - 1] = f[j - 1] /\ (a \o b)[j] = a[j] /\ j \in 1 .. n
      BY <1>1, <2>1
    <3> QED
      BY <1>2, <3>1 DEF Run
  <2>2. CASE ~(j <= n)
    <3>1. h[j] = g[j - n] /\ (a \o b)[j] = b[j - n] /\ j - n \in 1 .. m
      BY <1>1, <2>2
    <3>2. g[j - n] = Reconcile(g[(j - n) - 1], b[j - n])
      BY <1>3, <3>1 DEF Run
    <3>3. h[j - 1] = g[(j - n) - 1]
      <4>1. CASE j = n + 1
        <5>1. h[j - 1] = f[n] /\ (j - n) - 1 = 0
          BY <1>1, <4>1
        <5> QED
          BY <1>2, <1>3, <5>1 DEF Run
      <4>2. CASE j # n + 1
        <5>1. ~(j - 1 <= n) /\ j - 1 \in 0 .. n + m /\ (j - 1) - n = (j - n) - 1
          BY <1>1, <2>2, <4>2
        <5> QED
          BY <5>1
      <4> QED
        BY <4>1, <4>2
    <3> QED
      BY <3>1, <3>2, <3>3
  <2> QED
    BY <2>1, <2>2
<1>6. DOMAIN h = 0 .. n + m
  OBVIOUS
<1> HIDE DEF h
<1>7. Run(h, r, a \o b) /\ h[Len(a \o b)] = t
  BY <1>1, <1>4, <1>5, <1>6 DEF Run
<1> QED
  BY <1>7 DEF Takes

Reconciles(f, events, n) ==
  f = [j \in 0 .. n |-> IF j = 0 THEN State(None, <<>>) ELSE Reconcile(f[j - 1], events[j])]

LEMMA ReconcilesExists == ASSUME NEW events PROVE \A n \in Nat : \E f : Reconciles(f, events, n)
<1> DEFINE S == {n \in Nat : \E f : Reconciles(f, events, n)}
<1>1. 0 \in S
  <2>1. Reconciles([j \in 0 .. 0 |-> State(None, <<>>)], events, 0)
    BY DEF Reconciles
  <2> QED
    BY <2>1
<1>2. ASSUME NEW n \in Nat, n \in S PROVE n + 1 \in S
  <2>1. PICK f : Reconciles(f, events, n)
    BY <1>2
  <2> DEFINE g == [j \in 0 .. n + 1 |-> IF j = 0 THEN State(None, <<>>) ELSE Reconcile(f[j - 1], events[j])]
  <2>2. \A j \in 0 .. n : g[j] = f[j]
    <3>1. \A j \in 0 .. n : f[j] = IF j = 0 THEN State(None, <<>>) ELSE Reconcile(f[j - 1], events[j])
      BY <2>1 DEF Reconciles
    <3>2. \A j \in 0 .. n : j \in 0 .. n + 1
      OBVIOUS
    <3> QED
      BY <3>1, <3>2
  <2>3. \A j \in 0 .. n + 1 : j # 0 => j - 1 \in 0 .. n
    OBVIOUS
  <2>4. Reconciles(g, events, n + 1)
    BY <2>2, <2>3 DEF Reconciles
  <2> QED
    BY <2>4
<1> HIDE DEF S
<1>3. \A n \in Nat : n \in S
  BY <1>1, <1>2, AllNats
<1> QED
  BY <1>3 DEF S

LEMMA ReconciledTakes ==
  ASSUME NEW events, IsSeq(events), NEW to, Takes(State(None, <<>>), events, to)
  PROVE  Reconciled(events) = to.items
<1> DEFINE f == CHOOSE f : Reconciles(f, events, Len(events))
<1>1. Len(events) \in Nat
  BY IsSeqProperties
<1>2. Reconciles(f, events, Len(events))
  BY <1>1, ReconcilesExists
<1>3. Reconciled(events) = f[Len(events)].items
  BY DEF Reconciled, Reconciles, State
<1> HIDE DEF f
<1>4. PICK g : Run(g, State(None, <<>>), events) /\ g[Len(events)] = to
  BY DEF Takes
<1> DEFINE S == {j \in Nat : j \in 0 .. Len(events) => f[j] = g[j]}
<1>5. 0 \in S
  BY <1>1, <1>2, <1>4 DEF Reconciles, Run
<1>6. ASSUME NEW j \in Nat, j \in S PROVE j + 1 \in S
  <2>1. SUFFICES ASSUME j + 1 \in 0 .. Len(events) PROVE f[j + 1] = g[j + 1]
    OBVIOUS
  <2>2. j \in 0 .. Len(events) /\ j + 1 \in 1 .. Len(events) /\ j + 1 # 0 /\ (j + 1) - 1 = j
    BY <1>1, <2>1
  <2>3. f[j + 1] = Reconcile(f[j], events[j + 1])
    BY <1>2, <2>1, <2>2 DEF Reconciles
  <2>4. g[j + 1] = Reconcile(g[j], events[j + 1])
    BY <1>4, <2>2 DEF Run
  <2> QED
    BY <1>6, <2>2, <2>3, <2>4
<1> HIDE DEF S
<1>7. Len(events) \in S
  BY <1>1, <1>5, <1>6, AllNats
<1> QED
  BY <1>1, <1>3, <1>4, <1>7 DEF S

\* Events that open and close no item.
LEMMA TakesQuiet ==
  ASSUME NEW a, NEW done, NEW type, NEW id, NEW body,
         type \notin {"output_item.added", "output_item.done"}
  PROVE  Takes(State(a, done), <<Event(type, id, body)>>, State(a, done))
<1>1. Reconcile(State(a, done), Event(type, id, body)) = State(a, done)
  BY ReconcileEvent
<1> QED
  BY <1>1, TakesOne

LEMMA TakesAdded ==
  ASSUME NEW a, NEW done, NEW id
  PROVE  Takes(State(a, done), <<Event("output_item.added", id, None)>>, State(id, done))
<1>1. Reconcile(State(a, done), Event("output_item.added", id, None)) = State(id, done)
  BY ReconcileEvent
<1> QED
  BY <1>1, TakesOne

LEMMA TakesDone ==
  ASSUME NEW done, IsSeq(done), NEW id, NEW body
  PROVE  Takes(State(id, done), <<Event("output_item.done", id, body)>>, State(None, done \o <<body>>))
<1>1. Reconcile(State(id, done), Event("output_item.done", id, body)) = State(None, Append(done, body))
  BY ReconcileEvent
<1>2. Append(done, body) = done \o <<body>>
  BY AppendIsOne
<1> QED
  BY <1>1, <1>2, TakesOne

LEMMA Two ==
  ASSUME NEW a, NEW b
  PROVE  <<a, b>> = <<a>> \o <<b>> /\ IsSeq(<<a, b>>)
<1> DEFINE T == {a, b}
<1>1. <<a>> \in Seq(T) /\ <<b>> \in Seq(T) /\ <<a, b>> \in Seq(T)
  OBVIOUS
<1>2. <<a>> \o <<b>> \in Seq(T) /\ Len(<<a>> \o <<b>>) = 2 /\ Len(<<a, b>>) = 2
  BY <1>1, ConcatProperties
<1>3. \A i \in 1 .. 2 : (<<a>> \o <<b>>)[i] = <<a, b>>[i]
  BY <1>1, ConcatProperties
<1>4. <<a>> \o <<b>> = <<a, b>>
  BY <1>1, <1>2, <1>3, SeqEqual
<1> QED
  BY <1>1, <1>4, SeqIsSeq

LEMMA Three ==
  ASSUME NEW a, NEW b, NEW c
  PROVE  <<a, b, c>> = (<<a>> \o <<b>>) \o <<c>> /\ IsSeq(<<a, b, c>>)
<1> DEFINE T == {a, b, c}
<1>1. <<a, b>> \in Seq(T) /\ <<c>> \in Seq(T) /\ <<a, b, c>> \in Seq(T)
  OBVIOUS
<1>2. <<a, b>> \o <<c>> \in Seq(T) /\ Len(<<a, b>> \o <<c>>) = 3 /\ Len(<<a, b, c>>) = 3
  BY <1>1, ConcatProperties
<1>3. \A i \in 1 .. 3 : (<<a, b>> \o <<c>>)[i] = <<a, b, c>>[i]
  BY <1>1, ConcatProperties
<1>4. <<a, b>> \o <<c>> = <<a, b, c>>
  BY <1>1, <1>2, <1>3, SeqEqual
<1>5. <<a, b>> = <<a>> \o <<b>>
  BY Two
<1>6. IsSeq(<<a, b, c>>)
  BY <1>1, SeqIsSeq
<1> QED
  BY <1>4, <1>5, <1>6

LEMMA Four ==
  ASSUME NEW a, NEW b, NEW c, NEW d
  PROVE  <<a, b, c, d>> = ((<<a>> \o <<b>>) \o <<c>>) \o <<d>> /\ IsSeq(<<a, b, c, d>>)
<1> DEFINE T == {a, b, c, d}
<1>1. <<a, b, c>> \in Seq(T) /\ <<d>> \in Seq(T) /\ <<a, b, c, d>> \in Seq(T)
  OBVIOUS
<1>2. <<a, b, c>> \o <<d>> \in Seq(T) /\ Len(<<a, b, c>> \o <<d>>) = 4 /\ Len(<<a, b, c, d>>) = 4
  BY <1>1, ConcatProperties
<1>3. \A i \in 1 .. 4 : (<<a, b, c>> \o <<d>>)[i] = <<a, b, c, d>>[i]
  BY <1>1, ConcatProperties
<1>4. <<a, b, c>> \o <<d>> = <<a, b, c, d>>
  BY <1>1, <1>2, <1>3, SeqEqual
<1>5. <<a, b, c>> = (<<a>> \o <<b>>) \o <<c>>
  BY Three
<1>6. IsSeq(<<a, b, c, d>>)
  BY <1>1, SeqIsSeq
<1> QED
  BY <1>4, <1>5, <1>6

LEMMA CallTakes ==
  ASSUME NEW n, NEW i, NEW call, NEW done, IsSeq(done)
  PROVE  /\ IsSeq(CallEvents(n, i, call))
         /\ Takes(State(None, done), CallEvents(n, i, call), State(None, done \o <<CallItem(call)>>))
<1> DEFINE id == <<n, i>>
           a == Event("output_item.added", id, None)
           b == Event("function_call_arguments.delta", id, call.args)
           c == Event("function_call_arguments.done", id, call.args)
           d == Event("output_item.done", id, CallItem(call))
           last == State(None, done \o <<CallItem(call)>>)
<1>1. CallEvents(n, i, call) = <<a, b, c, d>>
  BY DEF CallEvents
<1>2. Takes(State(None, done), <<a>>, State(id, done))
  BY TakesAdded
<1>3. Takes(State(id, done), <<b>>, State(id, done)) /\ Takes(State(id, done), <<c>>, State(id, done))
  BY TakesQuiet
<1>4. Takes(State(id, done), <<d>>, last)
  BY TakesDone
<1> HIDE DEF a, b, c, d, id, last
<1>5. /\ IsSeq(<<a>>) /\ IsSeq(<<b>>) /\ IsSeq(<<c>>) /\ IsSeq(<<d>>)
      /\ IsSeq(<<a>> \o <<b>>) /\ IsSeq((<<a>> \o <<b>>) \o <<c>>)
  BY OneIsSeq, ConcatIsSeq
<1>6. Takes(State(None, done), <<a>> \o <<b>>, State(id, done))
  BY <1>2, <1>3, <1>5, TakesConcat
<1>7. Takes(State(None, done), (<<a>> \o <<b>>) \o <<c>>, State(id, done))
  BY <1>3, <1>5, <1>6, TakesConcat
<1>8. Takes(State(None, done), ((<<a>> \o <<b>>) \o <<c>>) \o <<d>>, last)
  BY <1>4, <1>5, <1>7, TakesConcat
<1>9. <<a, b, c, d>> = ((<<a>> \o <<b>>) \o <<c>>) \o <<d>> /\ IsSeq(<<a, b, c, d>>)
  BY Four
<1> QED
  BY <1>1, <1>8, <1>9 DEF last

LEMMA MessageTakes ==
  ASSUME NEW n, NEW text
  PROVE  /\ IsSeq(MessageEvents(n, text))
         /\ Takes(State(None, <<>>), MessageEvents(n, text),
                  State(None, <<Message("assistant", <<text>>)>>))
<1> DEFINE id == <<n>>
           body == Message("assistant", <<text>>)
           a == Event("output_item.added", id, None)
           b == Event("content_part.added", id, None)
           x == Event("output_text.delta", id, text)
           X == IF text = <<>> THEN <<>> ELSE <<x>>
           c == Event("output_text.done", id, text)
           d == Event("content_part.done", id, text)
           e == Event("output_item.done", id, body)
           open == State(id, <<>>)
           last == State(None, <<body>>)
<1>1. MessageEvents(n, text) = (<<a, b>> \o X) \o <<c, d, e>>
  BY DEF MessageEvents
<1>2. Takes(State(None, <<>>), <<a>>, open)
  BY TakesAdded
<1>3. Takes(open, <<b>>, open) /\ Takes(open, <<x>>, open) /\ Takes(open, <<c>>, open) /\ Takes(open, <<d>>, open)
  BY TakesQuiet
<1>4. Takes(open, <<e>>, last)
  <2>1. Takes(open, <<e>>, State(None, <<>> \o <<body>>))
    BY EmptyIsSeq, TakesDone
  <2>2. <<>> \o <<body>> = <<body>>
    BY OneIsSeq, EmptyConcat
  <2> QED
    BY <2>1, <2>2
<1> HIDE DEF a, b, c, d, e, x, id, open, last
<1>5. Takes(open, X, open) /\ IsSeq(X)
  BY <1>3, TakesNone, OneIsSeq, EmptyIsSeq
<1> HIDE DEF X
<1>6. /\ IsSeq(<<a>>) /\ IsSeq(<<b>>) /\ IsSeq(<<c>>) /\ IsSeq(<<d>>) /\ IsSeq(<<e>>)
      /\ IsSeq(<<a>> \o <<b>>) /\ IsSeq(<<c>> \o <<d>>) /\ IsSeq((<<c>> \o <<d>>) \o <<e>>)
  BY OneIsSeq, ConcatIsSeq
<1>7. IsSeq((<<a>> \o <<b>>) \o X)
  BY <1>5, <1>6, ConcatIsSeq
<1>8. Takes(State(None, <<>>), <<a>> \o <<b>>, open)
  BY <1>2, <1>3, <1>6, TakesConcat
<1>9. Takes(State(None, <<>>), (<<a>> \o <<b>>) \o X, open)
  BY <1>5, <1>6, <1>8, TakesConcat
<1>10. Takes(open, <<c>> \o <<d>>, open)
  BY <1>3, <1>6, TakesConcat
<1>11. Takes(open, (<<c>> \o <<d>>) \o <<e>>, last)
  BY <1>4, <1>6, <1>10, TakesConcat
<1>12. Takes(State(None, <<>>), ((<<a>> \o <<b>>) \o X) \o ((<<c>> \o <<d>>) \o <<e>>), last)
  BY <1>6, <1>7, <1>9, <1>11, TakesConcat
<1>13. IsSeq(((<<a>> \o <<b>>) \o X) \o ((<<c>> \o <<d>>) \o <<e>>))
  BY <1>6, <1>7, ConcatIsSeq
<1>14. <<a, b>> = <<a>> \o <<b>> /\ <<c, d, e>> = (<<c>> \o <<d>>) \o <<e>>
  BY Two, Three
<1> QED
  BY <1>1, <1>12, <1>13, <1>14 DEF last

LEMMA OneMore ==
  ASSUME NEW m \in Nat, NEW p, IsSeq(p), Len(p) = m, NEW q, IsSeq(q), Len(q) = m + 1,
         \A i \in 1 .. m : q[i] = p[i]
  PROVE  q = p \o <<q[m + 1]>>
<1> DEFINE e == q[m + 1]
<1>1. IsSeq(<<e>>) /\ Len(<<e>>) = 1 /\ <<e>>[1] = e
  BY OneIsSeq
<1>2. /\ IsSeq(p \o <<e>>) /\ Len(p \o <<e>>) = Len(p) + Len(<<e>>)
      /\ \A i \in 1 .. Len(p) + Len(<<e>>) :
           (p \o <<e>>)[i] = IF i <= Len(p) THEN p[i] ELSE <<e>>[i - Len(p)]
  BY <1>1, ConcatIsSeq
<1>3. e = q[m + 1]
  OBVIOUS
<1> HIDE DEF e
<1>4. \A i \in 1 .. m + 1 : (p \o <<e>>)[i] = q[i]
  BY <1>1, <1>2, <1>3
<1> QED
  BY <1>1, <1>2, <1>4, SameSeq DEF e

LEMMA CallsTake ==
  ASSUME NEW n, NEW calls, IsSeq(calls), NEW done, IsSeq(done)
  PROVE  LET events == FlattenSeq([i \in DOMAIN calls |-> CallEvents(n, i, calls[i])])
         IN /\ IsSeq(events)
            /\ Takes(State(None, done), events,
                     State(None, done \o [i \in DOMAIN calls |-> CallItem(calls[i])]))
<1> DEFINE parts(m) == [i \in 1 .. m |-> CallEvents(n, i, calls[i])]
           made(m) == [i \in 1 .. m |-> CallItem(calls[i])]
           S == {m \in Nat : /\ IsSeqs(parts(m)) /\ IsSeq(made(m)) /\ Len(made(m)) = m /\ Len(parts(m)) = m
                             /\ Takes(State(None, done), FlattenSeq(parts(m)), State(None, done \o made(m)))}
<1>1. ASSUME NEW m \in Nat
      PROVE  /\ IsSeqs(parts(m)) /\ IsSeq(made(m)) /\ Len(made(m)) = m /\ Len(parts(m)) = m
  <2>1. DOMAIN parts(m) = 1 .. m /\ parts(m) = [i \in DOMAIN parts(m) |-> parts(m)[i]]
    OBVIOUS
  <2>2. DOMAIN made(m) = 1 .. m /\ made(m) = [i \in DOMAIN made(m) |-> made(m)[i]]
    OBVIOUS
  <2>3. \A i \in DOMAIN parts(m) : IsSeq(parts(m)[i])
    <3>1. \A i \in 1 .. m : IsSeq(CallEvents(n, i, calls[i]))
      BY CallTakes
    <3> QED
      BY <3>1
  <2> HIDE DEF parts, made
  <2> QED
    BY <2>1, <2>2, <2>3, FunIsSeq DEF IsSeqs
<1>2. 0 \in S
  <2>1. parts(0) = <<>> /\ made(0) = <<>>
    OBVIOUS
  <2>2. Takes(State(None, done), FlattenSeq(parts(0)), State(None, done \o made(0)))
    <3>1. done \o <<>> = done
      BY EmptyConcat
    <3> QED
      BY <2>1, <3>1, FlattenEmpty, TakesNone
  <2> QED
    BY <1>1, <2>2
<1>3. ASSUME NEW m \in Nat, m \in S PROVE m + 1 \in S
  <2> DEFINE e == CallEvents(n, m + 1, calls[m + 1])
             x == CallItem(calls[m + 1])
  <2>1. /\ IsSeqs(parts(m)) /\ IsSeqs(parts(m + 1)) /\ IsSeq(made(m)) /\ IsSeq(made(m + 1))
        /\ Len(parts(m)) = m /\ Len(parts(m + 1)) = m + 1 /\ Len(made(m)) = m /\ Len(made(m + 1)) = m + 1
        /\ IsSeq(parts(m)) /\ IsSeq(parts(m + 1))
    BY <1>1 DEF IsSeqs
  <2>2. /\ \A i \in 1 .. m : parts(m + 1)[i] = parts(m)[i] /\ made(m + 1)[i] = made(m)[i]
        /\ parts(m + 1)[m + 1] = e /\ made(m + 1)[m + 1] = x
    OBVIOUS
  <2>3. IsSeq(e) /\ Takes(State(None, done \o made(m)), e, State(None, (done \o made(m)) \o <<x>>))
    BY <2>1, ConcatIsSeq, CallTakes
  <2>4. Takes(State(None, done), FlattenSeq(parts(m)), State(None, done \o made(m)))
    BY <1>3
  <2> HIDE DEF parts, made, e, x, S
  <2>5. IsSeq(<<e>>) /\ Len(<<e>>) = 1 /\ <<e>>[1] = e /\ IsSeq(<<x>>) /\ Len(<<x>>) = 1 /\ <<x>>[1] = x
    BY OneIsSeq
  <2>6. parts(m + 1) = parts(m) \o <<e>>
    BY <2>1, <2>2, OneMore
  <2>7. made(m + 1) = made(m) \o <<x>>
    BY <2>1, <2>2, OneMore
  <2>8. FlattenSeq(parts(m + 1)) = FlattenSeq(parts(m)) \o e
    <3>1. IsSeqs(<<e>>) /\ FlattenSeq(<<e>>) = e
      BY <2>3, FlattenOne
    <3>2. FlattenSeq(parts(m) \o <<e>>) = FlattenSeq(parts(m)) \o FlattenSeq(<<e>>)
      BY <2>1, <3>1, FlattenConcat
    <3> QED
      BY <2>6, <3>1, <3>2
  <2>9. (done \o made(m)) \o <<x>> = done \o made(m + 1)
    <3>1. IsSeq(done) /\ IsSeq(made(m)) /\ IsSeq(<<x>>)
      BY <2>1, <2>5
    <3>2. (done \o made(m)) \o <<x>> = done \o (made(m) \o <<x>>)
      BY ONLY <3>1, ConcatAssoc
    <3> QED
      BY <2>7, <3>2
  <2>10. IsSeq(FlattenSeq(parts(m)))
    BY <2>1, FlattenIsSeq
  <2>11. Takes(State(None, done), FlattenSeq(parts(m)) \o e, State(None, (done \o made(m)) \o <<x>>))
    BY <2>3, <2>4, <2>10, TakesConcat
  <2>12. Takes(State(None, done), FlattenSeq(parts(m + 1)), State(None, done \o made(m + 1)))
    BY <2>8, <2>9, <2>11
  <2>13. m + 1 \in Nat
    OBVIOUS
  <2> QED
    BY <2>1, <2>12, <2>13 DEF S
<1>4. Len(calls) \in Nat /\ DOMAIN calls = 1 .. Len(calls)
  BY IsSeqProperties
<1>5. [i \in DOMAIN calls |-> CallEvents(n, i, calls[i])] = parts(Len(calls))
  BY <1>4
<1>6. [i \in DOMAIN calls |-> CallItem(calls[i])] = made(Len(calls))
  BY <1>4
<1> HIDE DEF S, parts, made
<1>7. Len(calls) \in S
  BY <1>2, <1>3, <1>4, AllNats
<1>8. IsSeqs(parts(Len(calls))) /\ Takes(State(None, done), FlattenSeq(parts(Len(calls))), State(None, done \o made(Len(calls))))
  BY <1>7 DEF S
<1> QED
  BY <1>5, <1>6, <1>8, FlattenIsSeq

\* codex takes from the events, or from the object in the last of them, what the
\* reply says.
LEMMA EventsTell ==
  ASSUME NEW n, NEW reply, IsSeq(reply.calls)
  PROVE  /\ IsSeq(Events(n, reply)) /\ Events(n, reply) # <<>>
         /\ Reconciled(Events(n, reply)) = Output(reply)
         /\ Events(n, reply)[Len(Events(n, reply))].body = Output(reply)
<1> DEFINE a == Event("created", None, None)
           b == Event("in_progress", None, None)
           M == IF Speaks(reply) THEN MessageEvents(n, reply.text) ELSE <<>>
           C == FlattenSeq([i \in DOMAIN reply.calls |-> CallEvents(n, i, reply.calls[i])])
           z == Event("completed", None, Output(reply))
           said == IF Speaks(reply) THEN <<Message("assistant", <<reply.text>>)>> ELSE <<>>
           made == [i \in DOMAIN reply.calls |-> CallItem(reply.calls[i])]
           start == State(None, <<>>)
           last == State(None, said \o made)
<1>1. Events(n, reply) = ((<<a, b>> \o M) \o C) \o <<z>> /\ Output(reply) = said \o made
  BY DEF Events, Output
<1>2. <<a, b>> = <<a>> \o <<b>> /\ IsSeq(<<a, b>>)
  BY Two
<1>3. Takes(start, <<a>>, start) /\ Takes(start, <<b>>, start) /\ Takes(last, <<z>>, last)
  BY TakesQuiet
<1>4. IsSeq(M) /\ IsSeq(said) /\ Takes(start, M, State(None, said))
  <2>1. CASE Speaks(reply)
    BY <2>1, MessageTakes, OneIsSeq
  <2>2. CASE ~Speaks(reply)
    BY <2>2, TakesNone, EmptyIsSeq
  <2> QED
    BY <2>1, <2>2
<1>5. z.body = Output(reply)
  BY DEF Event
<1> HIDE DEF M, said
<1>6. IsSeq(C) /\ Takes(State(None, said), C, last)
  BY <1>4, CallsTake
<1> HIDE DEF a, b, C, z, start, last, made
<1>7. Takes(start, <<a, b>>, start)
  <2>1. IsSeq(<<a>>) /\ IsSeq(<<b>>)
    BY OneIsSeq
  <2> QED
    BY <1>2, <1>3, <2>1, TakesConcat
<1>8. Takes(start, <<a, b>> \o M, State(None, said)) /\ IsSeq(<<a, b>> \o M)
  BY <1>2, <1>4, <1>7, TakesConcat, ConcatIsSeq
<1>9. Takes(start, (<<a, b>> \o M) \o C, last) /\ IsSeq((<<a, b>> \o M) \o C)
  BY <1>6, <1>8, TakesConcat, ConcatIsSeq
<1>10. IsSeq(<<z>>) /\ Len(<<z>>) = 1 /\ <<z>>[1] = z
  BY OneIsSeq
<1> DEFINE E == ((<<a, b>> \o M) \o C)
<1>11. /\ IsSeq(E \o <<z>>) /\ Len(E \o <<z>>) = Len(E) + 1
       /\ \A i \in 1 .. Len(E) + 1 : (E \o <<z>>)[i] = IF i <= Len(E) THEN E[i] ELSE <<z>>[i - Len(E)]
       /\ Len(E) \in Nat
  <2> HIDE DEF E
  <2>1. IsSeq(E)
    BY <1>9 DEF E
  <2> QED
    BY <1>10, <2>1, ConcatIsSeq, IsSeqProperties
<1>12. Takes(start, E \o <<z>>, last)
  BY <1>3, <1>9, <1>10, TakesConcat
<1> HIDE DEF E
<1>13. Reconciled(E \o <<z>>) = last.items
  BY <1>11, <1>12, ReconciledTakes DEF start
<1>14. last.items = said \o made
  BY DEF last, State
<1>15. (E \o <<z>>)[Len(E \o <<z>>)] = z
  <2>1. Len(E) + 1 \in 1 .. Len(E) + 1 /\ ~(Len(E) + 1 <= Len(E)) /\ (Len(E) + 1) - Len(E) = 1
    BY <1>11
  <2> QED
    BY <1>10, <1>11, <2>1
<1>16. E \o <<z>> # <<>>
  <2>1. Len(E \o <<z>>) # 0
    BY <1>11
  <2> QED
    BY <2>1, EmptySeq
<1> QED
  BY <1>1, <1>5, <1>11, <1>13, <1>14, <1>15, <1>16 DEF E

-----------------------------------------------------------------------------
(* Payloads                                                                *)

PayloadTyped(p) ==
  /\ DOMAIN p = {"messages", "tools", "choice", "format", "maxTokens"}
  /\ IsSeq(p.messages) /\ IsSeq(p.tools) /\ p.maxTokens \in Seq(Nat)

\* The elements of a kind, as what is made of each element.
Kept(P) == [x \in DOMAIN P |-> IF P[x] THEN <<x>> ELSE <<>>]

LEMMA KeptUnfolds ==
  ASSUME NEW P, NEW s, IsSeq(s), ToSet(s) \subseteq DOMAIN P
  PROVE  /\ Unfolds(Kept(P), s) /\ IsSeq(Each(Kept(P), s))
         /\ ToSet(Each(Kept(P), s)) \subseteq {x \in ToSet(s) : P[x]}
<1> DEFINE T == {x \in ToSet(s) : P[x]}
<1>1. \A x \in ToSet(s) : Kept(P)[x] = IF P[x] THEN <<x>> ELSE <<>>
  BY DEF Kept
<1>2. ASSUME NEW x \in ToSet(s) PROVE IsSeq(Kept(P)[x]) /\ ToSet(Kept(P)[x]) \subseteq T
  BY <1>1, OneIsSeq, EmptyIsSeq
<1> HIDE DEF T
<1>3. Unfolds(Kept(P), s)
  BY <1>2 DEF Unfolds
<1>4. IsSeqs(Mapped(Kept(P), s)) /\ IsSeq(Each(Kept(P), s))
  BY <1>3, EachIsSeq
<1>5. \A i \in DOMAIN Mapped(Kept(P), s) :
        IsSeq(Mapped(Kept(P), s)[i]) /\ ToSet(Mapped(Kept(P), s)[i]) \subseteq T
  BY <1>2 DEF Mapped, ToSet
<1>6. FlattenSeq(Mapped(Kept(P), s)) \in Seq(T)
  BY <1>4, <1>5, FlattenElements DEF IsSeqs
<1>7. ToSet(Each(Kept(P), s)) \subseteq T
  BY <1>6, SeqIsSeq DEF Each
<1> QED
  BY <1>3, <1>4, <1>7 DEF T

LEMMA FunctionsKept ==
  ASSUME NEW tools, IsSeq(tools)
  PROVE  /\ IsSeq(Those(tools, IsFunction))
         /\ ToSet(Those(tools, IsFunction)) \subseteq ToSet(tools)
<1> DEFINE P == [x \in ToSet(tools) |-> IsFunction(x)]
<1>1. Mapped(Kept(P), tools) = [i \in DOMAIN tools |-> IF IsFunction(tools[i]) THEN <<tools[i]>> ELSE <<>>]
  BY DEF Kept, Mapped, ToSet
<1>2. Those(tools, IsFunction) = Each(Kept(P), tools)
  BY <1>1 DEF Those, Each
<1>3. ToSet(tools) \subseteq DOMAIN P
  OBVIOUS
<1> HIDE DEF P
<1> QED
  BY <1>2, <1>3, KeptUnfolds

LEMMA ToolsOffered ==
  ASSUME NEW tools, IsSeq(tools), NEW strict
  PROVE  /\ IsSeq(ChatTools(tools, strict))
         /\ DOMAIN ChatTools(tools, strict) = DOMAIN Those(tools, IsFunction)
         /\ \A i \in DOMAIN ChatTools(tools, strict) :
              ChatTools(tools, strict)[i].name \in {tool.name : tool \in ToSet(tools)}
<1> DEFINE f == Those(tools, IsFunction)
           g == ChatTools(tools, strict)
<1>1. IsSeq(f) /\ \A i \in DOMAIN f : f[i] \in ToSet(tools)
  BY FunctionsKept DEF ToSet
<1>2. g = [i \in DOMAIN f |-> [name |-> f[i].name, strict |-> strict /\ f[i].strict]]
  BY DEF ChatTools
<1> HIDE DEF f, g
<1>3. DOMAIN g = DOMAIN f /\ g = [i \in DOMAIN g |-> g[i]] /\ \A i \in DOMAIN g : g[i].name = f[i].name
  BY <1>2
<1>4. IsSeq(g)
  BY <1>1, <1>3, SameDomain
<1>5. \A i \in DOMAIN g : g[i].name \in {tool.name : tool \in ToSet(tools)}
  BY <1>1, <1>3
<1> QED
  BY <1>3, <1>4, <1>5 DEF f, g

LEMMA ChatMessagesIsSeq ==
  ASSUME NEW item
  PROVE  IsSeq(ChatMessages(item)) /\ (ChatMessages(item) = <<>> \/ \E m : ChatMessages(item) = <<m>>)
<1>1. ChatMessages(item) = <<>> \/ \E m : ChatMessages(item) = <<m>>
  BY DEF ChatMessages
<1> QED
  BY <1>1, OneIsSeq, EmptyIsSeq

\* What the host adds.
Hosted(s) == s = <<>> \/ \E text : s = <<Said("system", text)>>

LEMMA HostedIsSeq == ASSUME NEW s, Hosted(s) PROVE IsSeq(s)
  BY OneIsSeq, EmptyIsSeq DEF Hosted

Chats(transcript) == FlattenSeq([i \in DOMAIN transcript |-> ChatMessages(transcript[i])])

LEMMA ChatsIsSeq ==
  ASSUME NEW transcript, IsSeq(transcript)
  PROVE  IsSeq(Chats(transcript)) /\ IsSeqs([i \in DOMAIN transcript |-> ChatMessages(transcript[i])])
<1> DEFINE s == [i \in DOMAIN transcript |-> ChatMessages(transcript[i])]
<1>1. DOMAIN s = DOMAIN transcript /\ s = [i \in DOMAIN s |-> s[i]] /\ \A i \in DOMAIN s : IsSeq(s[i])
  BY ChatMessagesIsSeq
<1> HIDE DEF s
<1>2. IsSeq(s)
  BY <1>1, SameDomain
<1>3. IsSeqs(s) /\ IsSeq(FlattenSeq(s))
  BY <1>1, <1>2, FlattenIsSeq DEF IsSeqs
<1> QED
  BY <1>3 DEF s, Chats

\* The messages of a transcript between the host's.
Around(messages, transcript) ==
  \E a, b, c : /\ Hosted(a) /\ Hosted(b) /\ Hosted(c)
              /\ messages = a \o ((b \o Chats(transcript)) \o c)

LEMMA ToChatMakes ==
  ASSUME NEW request, IsSeq(request.tools), request.maxOutput \in Seq(Nat), request.maxTokens \in Seq(Nat),
         NEW transcript, IsSeq(transcript), NEW route
  PROVE  /\ PayloadTyped(ToChat(request, transcript, route))
         /\ ToChat(request, transcript, route).tools = ChatTools(request.tools, route.schema)
         /\ Around(ToChat(request, transcript, route).messages, transcript)
<1> DEFINE chat == ToChat(request, transcript, route)
           tools == ChatTools(request.tools, route.schema)
           b == IF Blank(request.instructions) THEN <<>> ELSE <<Said("system", request.instructions)>>
           c == IF Len(tools) = Len(request.tools) THEN <<>> ELSE <<Note("omitted tools")>>
           said == b \o Chats(transcript) \o c
           free == tools # <<>> \/ request.format \in {"none", "text"}
           downgraded == ~free /\ request.format = "json_schema" /\ ~route.schema
           cap == IF request.maxOutput # None THEN request.maxOutput ELSE request.maxTokens
           a == IF downgraded THEN <<Note("schema")>> ELSE <<>>
<1>1. /\ DOMAIN chat = {"messages", "tools", "choice", "format", "maxTokens"}
      /\ chat.messages = IF downgraded THEN <<Note("schema")>> \o said ELSE said
      /\ chat.tools = tools
      /\ chat.maxTokens = IF cap # None /\ cap[1] > 0 THEN cap ELSE None
  BY DEF ToChat, Chats
<1>2. Hosted(a) /\ Hosted(b) /\ Hosted(c)
  BY DEF Hosted, Note
<1>3. cap \in Seq(Nat)
  OBVIOUS
<1> HIDE DEF downgraded, free, cap, b, c
<1>4. chat.maxTokens \in Seq(Nat)
  BY <1>1, <1>3, EmptySeq DEF None
<1>5. IsSeq(a) /\ IsSeq(b) /\ IsSeq(c) /\ IsSeq(Chats(transcript)) /\ IsSeq(tools)
  BY <1>2, HostedIsSeq, ChatsIsSeq, ToolsOffered
<1> HIDE DEF tools
<1>6. IsSeq(said)
  BY <1>5, ConcatIsSeq
<1> HIDE DEF said, chat
<1>7. chat.messages = a \o said
  BY <1>1, <1>6, EmptyConcat
<1>8. IsSeq(chat.messages)
  BY <1>5, <1>6, <1>7, ConcatIsSeq
<1>9. PayloadTyped(chat)
  BY <1>1, <1>4, <1>5, <1>8 DEF PayloadTyped
<1>10. chat.messages = a \o ((b \o Chats(transcript)) \o c)
  BY <1>7 DEF said
<1>11. Around(chat.messages, transcript)
  BY <1>2, <1>10 DEF Around
<1> QED
  BY <1>1, <1>9, <1>11 DEF chat, tools

LEMMA ReattachedIsSeq ==
  ASSUME NEW messages, IsSeq(messages), NEW sigs
  PROVE  IsSeq(Reattached(messages, sigs)) /\ Len(Reattached(messages, sigs)) = Len(messages)
<1>1. /\ DOMAIN Reattached(messages, sigs) = DOMAIN messages
      /\ Reattached(messages, sigs) = [i \in DOMAIN Reattached(messages, sigs) |-> Reattached(messages, sigs)[i]]
  BY DEF Reattached
<1> QED
  BY <1>1, SameDomain

LEMMA SizeIsNat == ASSUME NEW p, PayloadTyped(p) PROVE Size(p) \in Nat
<1> DEFINE S == {i \in DOMAIN p.messages : p.messages[i].call.sig # None}
<1>1. Len(p.messages) \in Nat /\ Len(p.tools) \in Nat /\ DOMAIN p.messages = 1 .. Len(p.messages)
  BY IsSeqProperties DEF PayloadTyped
<1>2. IsFiniteSet(1 .. Len(p.messages))
  BY <1>1, FS_Interval
<1>3. Cardinality(S) \in Nat
  BY <1>1, <1>2, FS_Subset, FS_CardinalityType
<1> HIDE DEF S
<1>4. Size(p) = Len(p.messages) + Len(p.tools) + Cardinality(S)
  BY DEF Size, S
<1> DEFINE l == Len(p.messages)
           m == Len(p.tools)
           n == Cardinality(S)
<1>5. l \in Nat /\ m \in Nat /\ n \in Nat /\ Size(p) = l + m + n
  BY <1>1, <1>3, <1>4
<1> HIDE DEF l, m, n
<1> QED
  BY <1>5

LEMMA CapType ==
  ASSUME NEW p, PayloadTyped(p), p.maxTokens # None
  PROVE  p.maxTokens[1] \in Nat
<1>1. p.maxTokens \in Seq(Nat) /\ Len(p.maxTokens) # 0
  BY EmptySeq DEF PayloadTyped, None
<1>2. 1 \in DOMAIN p.maxTokens
  BY <1>1, LenProperties
<1> QED
  BY <1>1, <1>2, SeqIsSeq

LEMMA WithCapKeeps ==
  ASSUME NEW p, PayloadTyped(p), NEW cap \in Nat
  PROVE  /\ PayloadTyped(WithCap(p, cap)) /\ Size(WithCap(p, cap)) = Size(p)
         /\ WithCap(p, cap).maxTokens = <<cap>>
         /\ WithCap(p, cap).messages = p.messages /\ WithCap(p, cap).tools = p.tools
<1>1. /\ WithCap(p, cap).maxTokens = <<cap>> /\ DOMAIN WithCap(p, cap) = DOMAIN p
      /\ WithCap(p, cap).messages = p.messages /\ WithCap(p, cap).tools = p.tools
  BY DEF WithCap, PayloadTyped
<1>2. <<cap>> \in Seq(Nat)
  OBVIOUS
<1>3. Size(WithCap(p, cap)) = Size(p)
  BY <1>1 DEF Size
<1> QED
  BY <1>1, <1>2, <1>3 DEF PayloadTyped

-----------------------------------------------------------------------------
(* What the state holds                                                    *)

Chosen == \E s \in Settings : env = s.env /\ talk = s.talk

LEMMA EnvTyped == ASSUME Chosen PROVE env.outputCap \in Nat /\ env.tokenCap \in Nat
  BY ChatAssumption DEF Chosen

LEMMA TalkTyped ==
  ASSUME Chosen, NEW c \in Conv
  PROVE  /\ IsSeq(talk[c].prompt) /\ IsSeq(talk[c].tools)
         /\ \A tool \in ToSet(talk[c].tools) : IsSeq(tool.name)
         /\ talk[c].maxOutput \in Seq(Nat) /\ talk[c].maxTokens \in Seq(Nat)
         /\ talk[c].asks \in 0 .. MaxAsks /\ MaxAsks \in Nat
         /\ \A i \in ToSet(talk[c].prompt) :
              \/ i.kind \notin {"message", "function_call", "function_call_output"}
              \/ i.kind = "message" /\ i.role \in {"user", "developer", "system"}
         /\ \A r \in talk[c].replies :
              /\ IsSeq(r.text) /\ IsSeq(r.calls)
              /\ \A call \in ToSet(r.calls) : call.tool \in DOMAIN Those(talk[c].tools, IsFunction)
<1>1. PICK s \in Settings : env = s.env /\ talk = s.talk
  BY DEF Chosen
<1>2. talk[c] = s.talk[c]
  BY <1>1
<1> QED
  BY <1>2, ChatAssumption

ReplyTyped(r) == IsSeq(r.text) /\ IsSeq(r.calls)

ConnTyped(r) ==
  r.at # "closed" =>
    /\ DOMAIN r = {"at", "what", "items", "truth", "payload", "reply", "code", "events"}
    /\ IsSeq(r.items)
    /\ r.at \in {"reserve", "send", "harvest", "build"} => PayloadTyped(r.payload)
    /\ r.at \in {"harvest", "build"} => ReplyTyped(r.reply)
    /\ r.events # None => r.at = "write" /\ ReplyTyped(r.reply) /\ \E n : r.events = Events(n, r.reply)

Shapes ==
  /\ Chosen
  /\ used \in Nat /\ ledger \in Nat
  /\ DOMAIN conn = Requests /\ \A k \in Requests : ConnTyped(conn[k])
  /\ DOMAIN items = Conv /\ DOMAIN truth = Conv /\ DOMAIN asked = Conv
  /\ \A c \in Conv : IsSeq(items[c]) /\ asked[c] \in Nat
  /\ \A k \in Requests : conn[k].at # "closed" => k[2] <= asked[k[1]]

LEMMA Moved ==
  ASSUME NEW k \in Requests, NEW new, DOMAIN conn = Requests, conn' = [conn EXCEPT ![k] = new]
  PROVE  DOMAIN conn' = Requests /\ conn'[k] = new /\ \A j \in Requests : j # k => conn'[j] = conn[j]
OBVIOUS

LEMMA RequestsTyped == \A k \in Requests : k[1] \in Conv /\ k[2] \in 1 .. MaxAsks /\ k = <<k[1], k[2]>>
  BY DEF Requests

\* Steps of a task that bring nothing from the provider.
Passes(k) ==
  \/ ReadRequest(k) \/ Dispatch(k) \/ BadRequest(k) \/ OverBudget(k) \/ UpstreamFails(k) \/ BadReply(k)

LEMMA PassesDo ==
  ASSUME NEW k \in Requests, ConnTyped(conn[k]), Passes(k)
  PROVE  \E new :
           /\ conn' = [conn EXCEPT ![k] = new]
           /\ ConnTyped(new)
           /\ conn[k].at \notin {"closed", "write"}
           /\ \/ new.at \in {"closed", "write"}
              \/ new.at \in {"dispatch", "translate"} /\ conn[k].at \in {"read", "dispatch"}
           /\ new.at # "closed" => /\ new.items = conn[k].items /\ new.truth = conn[k].truth
                                   /\ new.events = None
<1> DEFINE r == conn[k]
           Fine(new) ==
             /\ ConnTyped(new)
             /\ r.at \notin {"closed", "write"}
             /\ \/ new.at \in {"closed", "write"}
                \/ new.at \in {"dispatch", "translate"} /\ r.at \in {"read", "dispatch"}
             /\ new.at # "closed" => /\ new.items = r.items /\ new.truth = r.truth
                                     /\ new.events = None
<1>1. ASSUME r.at \notin {"closed", "write"}, NEW code PROVE Fine(Replying(k, code))
  <2> DEFINE new == Replying(k, code)
  <2>1. /\ DOMAIN new = DOMAIN r /\ new.at = "write" /\ new.items = r.items /\ new.truth = r.truth
        /\ new.events = None
    BY <1>1 DEF ConnTyped, Replying
  <2> HIDE DEF new
  <2>2. Fine(new)
    BY <1>1, <2>1 DEF ConnTyped
  <2> QED
    BY <2>2 DEF new
<1>2. ASSUME r.at \in {"read", "dispatch"}, NEW at \in {"dispatch", "translate"}
      PROVE  Fine([r EXCEPT !.at = at])
  <2> DEFINE new == [r EXCEPT !.at = at]
  <2>1. /\ DOMAIN new = DOMAIN r /\ new.at = at /\ new.items = r.items /\ new.truth = r.truth
        /\ new.events = None
    BY <1>2 DEF ConnTyped
  <2> HIDE DEF new
  <2>2. Fine(new)
    BY <1>2, <2>1 DEF ConnTyped
  <2> QED
    BY <2>2 DEF new
<1>3. ASSUME r.at \notin {"closed", "write"} PROVE Fine(Closed)
  BY <1>3 DEF ConnTyped, Closed
<1> DEFINE To(new) == conn' = [conn EXCEPT ![k] = new]
<1> HIDE DEF Fine, To
<1>4. CASE ReadRequest(k)
  <2>1. r.at = "read" /\ (To(Closed) \/ To(Replying(k, 400)) \/ To([r EXCEPT !.at = "dispatch"]))
    BY <1>4 DEF ReadRequest, Goes, To
  <2>2. Fine(Closed) /\ Fine(Replying(k, 400)) /\ Fine([r EXCEPT !.at = "dispatch"])
    BY <1>1, <1>2, <1>3, <2>1
  <2>3. \E new : Fine(new) /\ To(new)
    BY <2>1, <2>2
  <2> QED
    BY <2>3 DEF Fine, To
<1>5. CASE Dispatch(k)
  <2>1. /\ r.at = "dispatch"
        /\ \/ To(Replying(k, 200)) \/ To(Replying(k, 401)) \/ To(Replying(k, 404))
           \/ To([r EXCEPT !.at = "translate"])
    <3> DEFINE a == Replying(k, 200)
               b == Replying(k, 401)
               c == Replying(k, 404)
               d == [r EXCEPT !.at = "translate"]
               new == CASE conn[k].what = "health" -> a
                        [] conn[k].what = "stranger" -> b
                        [] conn[k].what = "models" -> a
                        [] conn[k].what = "elsewhere" -> c
                        [] OTHER -> d
    <3>1. r.at = "dispatch" /\ conn' = [conn EXCEPT ![k] = new]
      BY <1>5 DEF Dispatch, Goes
    <3> HIDE DEF a, b, c, d
    <3>2. new = a \/ new = b \/ new = c \/ new = d
      OBVIOUS
    <3> HIDE DEF new
    <3>3. To(a) \/ To(b) \/ To(c) \/ To(d)
      BY <3>1, <3>2 DEF To
    <3> QED
      BY <3>1, <3>3 DEF a, b, c, d
  <2>2. /\ Fine(Replying(k, 200)) /\ Fine(Replying(k, 401)) /\ Fine(Replying(k, 404))
        /\ Fine([r EXCEPT !.at = "translate"])
    BY <1>1, <1>2, <2>1
  <2>3. \E new : Fine(new) /\ To(new)
    BY <2>1, <2>2
  <2> QED
    BY <2>3 DEF Fine, To
<1>6. CASE BadRequest(k) \/ OverBudget(k) \/ UpstreamFails(k) \/ BadReply(k)
  <2>1. r.at \in {"translate", "reserve", "send", "build"} /\ \E code : To(Replying(k, code))
    BY <1>6 DEF BadRequest, OverBudget, UpstreamFails, BadReply, Goes, To
  <2>2. \E new : Fine(new) /\ To(new)
    BY <1>1, <2>1
  <2> QED
    BY <2>2 DEF Fine, To
<1> QED
  BY <1>4, <1>5, <1>6 DEF Passes

LEMMA TranslateDoes ==
  ASSUME NEW k \in Requests, Shapes, Translate(k)
  PROVE  \E new :
           /\ conn' = [conn EXCEPT ![k] = new] /\ ConnTyped(new)
           /\ conn[k].at = "translate"
           /\ new.at = IF env.budget = "none" THEN "send" ELSE "reserve"
           /\ new.items = conn[k].items /\ new.truth = conn[k].truth /\ new.events = None
           /\ new.payload.tools = ChatTools(talk[k[1]].tools, Route.schema)
           /\ new.payload.messages = Reattached(ToChat(talk[k[1]], conn[k].items, Route).messages, signatures)
<1> DEFINE r == conn[k]
           chat == ToChat(talk[k[1]], r.items, Route)
           payload == [chat EXCEPT !.messages = Reattached(@, signatures)]
           new == [r EXCEPT !.at = IF env.budget = "none" THEN "send" ELSE "reserve", !.payload = payload]
<1>1. /\ r.at = "translate" /\ conn' = [conn EXCEPT ![k] = new]
  BY DEF Translate, Goes
<1>2. /\ DOMAIN r = {"at", "what", "items", "truth", "payload", "reply", "code", "events"}
      /\ IsSeq(r.items) /\ r.events = None
  BY <1>1 DEF Shapes, ConnTyped
<1>3. /\ IsSeq(talk[k[1]].tools) /\ talk[k[1]].maxOutput \in Seq(Nat) /\ talk[k[1]].maxTokens \in Seq(Nat)
  BY RequestsTyped, TalkTyped DEF Shapes
<1>4. PayloadTyped(chat) /\ chat.tools = ChatTools(talk[k[1]].tools, Route.schema)
  <2> DEFINE request == talk[k[1]]
             transcript == r.items
             route == Route
  <2>1. /\ IsSeq(request.tools) /\ request.maxOutput \in Seq(Nat) /\ request.maxTokens \in Seq(Nat)
        /\ IsSeq(transcript)
    BY <1>2, <1>3
  <2> HIDE DEF request, transcript, route
  <2>2. /\ PayloadTyped(ToChat(request, transcript, route))
        /\ ToChat(request, transcript, route).tools = ChatTools(request.tools, route.schema)
    BY <2>1, ToChatMakes
  <2> QED
    BY <2>2 DEF request, transcript, route
<1> HIDE DEF chat
<1>5. IsSeq(Reattached(chat.messages, signatures))
  BY <1>4, ReattachedIsSeq DEF PayloadTyped
<1>6. /\ DOMAIN payload = DOMAIN chat /\ payload.messages = Reattached(chat.messages, signatures)
      /\ payload.tools = chat.tools /\ payload.maxTokens = chat.maxTokens
  BY <1>4 DEF PayloadTyped
<1> HIDE DEF payload
<1>7. PayloadTyped(payload)
  BY <1>4, <1>5, <1>6 DEF PayloadTyped
<1>8. /\ DOMAIN new = DOMAIN r /\ new.at = IF env.budget = "none" THEN "send" ELSE "reserve"
      /\ new.items = r.items /\ new.truth = r.truth /\ new.events = None /\ new.payload = payload
  BY <1>2
<1> HIDE DEF new, r
<1>9. ConnTyped(new)
  BY <1>2, <1>7, <1>8 DEF ConnTyped
<1>10. conn[k].at = "translate" /\ conn[k].items = r.items /\ conn[k].truth = r.truth
  BY <1>1 DEF r
<1>11. /\ new.payload.tools = ChatTools(talk[k[1]].tools, Route.schema)
       /\ new.payload.messages = Reattached(ToChat(talk[k[1]], conn[k].items, Route).messages, signatures)
  BY <1>4, <1>6, <1>8 DEF chat, r
<1> QED
  BY <1>1, <1>8, <1>9, <1>10, <1>11

LEMMA ReserveDoes ==
  ASSUME NEW k \in Requests, Shapes, Reserve(k)
  PROVE  \E new :
           /\ conn' = [conn EXCEPT ![k] = new] /\ ConnTyped(new)
           /\ conn[k].at = "reserve" /\ new.at = "send"
           /\ new.items = conn[k].items /\ new.truth = conn[k].truth /\ new.events = None
           /\ new.payload = WithCap(conn[k].payload, OutputCap(conn[k].payload))
           /\ PayloadTyped(conn[k].payload) /\ OutputCap(conn[k].payload) \in Nat
<1> DEFINE r == conn[k]
           cap == OutputCap(r.payload)
           payload == WithCap(r.payload, cap)
           new == [r EXCEPT !.at = "send", !.payload = payload]
<1>1. /\ r.at = "reserve" /\ conn' = [conn EXCEPT ![k] = [r EXCEPT !.at = "send", !.payload = WithCap(@, OutputCap(@))]]
  BY DEF Reserve, Goes
<1>2. /\ DOMAIN r = {"at", "what", "items", "truth", "payload", "reply", "code", "events"}
      /\ IsSeq(r.items) /\ r.events = None /\ PayloadTyped(r.payload)
  BY <1>1 DEF Shapes, ConnTyped
<1>3. conn' = [conn EXCEPT ![k] = new]
  BY <1>1, <1>2
<1>4. cap \in Nat
  BY <1>2, CapType, EnvTyped DEF OutputCap, Least, Shapes
<1> HIDE DEF cap
<1>5. PayloadTyped(payload)
  BY <1>2, <1>4, WithCapKeeps
<1> HIDE DEF payload
<1>6. /\ DOMAIN new = DOMAIN r /\ new.at = "send"
      /\ new.items = r.items /\ new.truth = r.truth /\ new.events = None /\ new.payload = payload
  BY <1>2
<1> HIDE DEF new
<1>7. ConnTyped(new)
  BY <1>2, <1>5, <1>6 DEF ConnTyped
<1>8. new.payload = WithCap(conn[k].payload, OutputCap(conn[k].payload)) /\ OutputCap(conn[k].payload) \in Nat
  BY <1>4, <1>6 DEF payload, cap
<1> QED
  BY <1>1, <1>2, <1>3, <1>6, <1>7, <1>8

LEMMA RepliesDo ==
  ASSUME NEW k \in Requests, Shapes, UpstreamReplies(k)
  PROVE  \E new : \E r \in talk[k[1]].replies :
           /\ conn' = [conn EXCEPT ![k] = new] /\ ConnTyped(new)
           /\ conn[k].at = "send" /\ new.at = "harvest"
           /\ new.items = conn[k].items /\ new.truth = conn[k].truth /\ new.events = None
           /\ new.payload = conn[k].payload
           /\ DOMAIN new.reply.calls = DOMAIN r.calls
           /\ \A i \in DOMAIN r.calls :
                new.reply.calls[i] = Call(<<k[1], k[2], i>>, Offered(k, r.calls[i].tool), r.calls[i].args,
                                          IF r.calls[i].signed THEN <<k[1], k[2], i>> ELSE None)
           /\ conn[k].payload.maxTokens # None => Cost(new.reply) <= conn[k].payload.maxTokens[1]
           /\ Cost(new.reply) \in Nat /\ used' = used + Size(conn[k].payload) + Cost(new.reply)
<1> DEFINE q == conn[k]
           Calls(r) == [i \in DOMAIN r.calls |->
                          Call(<<k[1], k[2], i>>, Offered(k, r.calls[i].tool), r.calls[i].args,
                               IF r.calls[i].signed THEN <<k[1], k[2], i>> ELSE None)]
           Reply(r) == [valid |-> r.valid, text |-> r.text, calls |-> Calls(r)]
           New(r) == [q EXCEPT !.at = "harvest", !.reply = Reply(r)]
<1>1. PICK r \in talk[k[1]].replies :
        /\ q.payload.maxTokens # None => Cost(Reply(r)) <= q.payload.maxTokens[1]
        /\ q.at = "send" /\ conn' = [conn EXCEPT ![k] = New(r)]
        /\ used' = used + Size(q.payload) + Cost(Reply(r))
  BY DEF UpstreamReplies, Goes
<1> DEFINE calls == Calls(r)
           reply == Reply(r)
           new == New(r)
<1>2. /\ DOMAIN q = {"at", "what", "items", "truth", "payload", "reply", "code", "events"}
      /\ IsSeq(q.items) /\ q.events = None /\ PayloadTyped(q.payload)
  BY <1>1 DEF Shapes, ConnTyped
<1>3. IsSeq(r.text) /\ IsSeq(r.calls)
  BY <1>1, RequestsTyped, TalkTyped DEF Shapes
<1>4. /\ DOMAIN calls = DOMAIN r.calls /\ calls = [i \in DOMAIN calls |-> calls[i]]
      /\ \A i \in DOMAIN r.calls :
           calls[i] = Call(<<k[1], k[2], i>>, Offered(k, r.calls[i].tool), r.calls[i].args,
                           IF r.calls[i].signed THEN <<k[1], k[2], i>> ELSE None)
  OBVIOUS
<1>5. reply.text = r.text /\ reply.calls = calls
  OBVIOUS
<1>6. /\ DOMAIN new = DOMAIN q /\ new.at = "harvest" /\ new.reply = reply
      /\ new.items = q.items /\ new.truth = q.truth /\ new.events = None /\ new.payload = q.payload
  BY <1>2
<1>7. /\ q.payload.maxTokens # None => Cost(reply) <= q.payload.maxTokens[1]
      /\ q.at = "send" /\ conn' = [conn EXCEPT ![k] = new]
      /\ used' = used + Size(q.payload) + Cost(reply)
  BY <1>1
<1> HIDE DEF Calls, Reply, New, calls, reply, new
<1>8. IsSeq(calls)
  BY <1>3, <1>4, SameDomain
<1>9. ReplyTyped(reply) /\ Cost(reply) \in Nat
  <2>1. IsSeq(reply.text) /\ IsSeq(reply.calls)
    BY <1>3, <1>5, <1>8
  <2>2. Len(reply.text) \in Nat /\ Len(reply.calls) \in Nat
    BY <2>1, IsSeqProperties
  <2> QED
    <3> DEFINE l == Len(reply.text)
               m == Len(reply.calls)
    <3>1. l \in Nat /\ m \in Nat /\ Cost(reply) = l + m
      BY <2>2 DEF Cost
    <3> HIDE DEF l, m
    <3>2. Cost(reply) \in Nat
      BY <3>1
    <3> QED
      BY <2>1, <3>2 DEF ReplyTyped
<1>10. ConnTyped(new)
  BY <1>2, <1>6, <1>9 DEF ConnTyped
<1> DEFINE Ids == /\ DOMAIN calls = DOMAIN r.calls
                  /\ \A i \in DOMAIN r.calls :
                       calls[i] = Call(<<k[1], k[2], i>>, Offered(k, r.calls[i].tool), r.calls[i].args,
                                       IF r.calls[i].signed THEN <<k[1], k[2], i>> ELSE None)
<1>11. new.reply.calls = calls /\ Ids
  BY <1>4, <1>5, <1>6
<1>12. /\ conn' = [conn EXCEPT ![k] = new] /\ ConnTyped(new)
       /\ q.at = "send" /\ new.at = "harvest"
       /\ new.items = q.items /\ new.truth = q.truth /\ new.events = None
       /\ new.payload = q.payload
       /\ q.payload.maxTokens # None => Cost(new.reply) <= q.payload.maxTokens[1]
       /\ Cost(new.reply) \in Nat /\ used' = used + Size(q.payload) + Cost(new.reply)
  BY <1>6, <1>7, <1>9, <1>10
<1> QED
  BY <1>1, <1>11, <1>12

LEMMA HarvestDoes ==
  ASSUME NEW k \in Requests, Shapes, Harvest(k)
  PROVE  \E new :
           /\ conn' = [conn EXCEPT ![k] = new] /\ ConnTyped(new)
           /\ conn[k].at = "harvest" /\ new.at = "build"
           /\ new.items = conn[k].items /\ new.truth = conn[k].truth /\ new.events = None
           /\ new.payload = conn[k].payload /\ new.reply = conn[k].reply
           /\ ReplyTyped(conn[k].reply)
<1> DEFINE q == conn[k]
           new == [q EXCEPT !.at = "build"]
<1>1. q.at = "harvest" /\ conn' = [conn EXCEPT ![k] = new]
  BY DEF Harvest, Goes
<1>2. /\ DOMAIN q = {"at", "what", "items", "truth", "payload", "reply", "code", "events"}
      /\ IsSeq(q.items) /\ q.events = None /\ PayloadTyped(q.payload) /\ ReplyTyped(q.reply)
  BY <1>1 DEF Shapes, ConnTyped
<1>3. /\ DOMAIN new = DOMAIN q /\ new.at = "build" /\ new.reply = q.reply
      /\ new.items = q.items /\ new.truth = q.truth /\ new.events = None /\ new.payload = q.payload
  BY <1>2
<1> HIDE DEF new
<1>4. ConnTyped(new)
  BY <1>2, <1>3 DEF ConnTyped
<1> QED
  BY <1>1, <1>2, <1>3, <1>4

LEMMA BuildDoes ==
  ASSUME NEW k \in Requests, Shapes, Build(k)
  PROVE  \E new :
           /\ conn' = [conn EXCEPT ![k] = new] /\ ConnTyped(new)
           /\ conn[k].at = "build" /\ new.at = "write"
           /\ new.items = conn[k].items /\ new.truth = conn[k].truth
           /\ new.reply = conn[k].reply
<1> DEFINE q == conn[k]
           events == Events(counter, q.reply)
           new == [Replying(k, 200) EXCEPT !.events = events]
<1>1. q.at = "build" /\ conn' = [conn EXCEPT ![k] = new]
  BY DEF Build, Goes
<1>2. /\ DOMAIN q = {"at", "what", "items", "truth", "payload", "reply", "code", "events"}
      /\ IsSeq(q.items) /\ ReplyTyped(q.reply)
  BY <1>1 DEF Shapes, ConnTyped
<1>3. /\ DOMAIN new = DOMAIN q /\ new.at = "write" /\ new.reply = q.reply
      /\ new.items = q.items /\ new.truth = q.truth /\ new.events = events
  BY <1>2 DEF Replying
<1> HIDE DEF new
<1>4. ConnTyped(new)
  BY <1>2, <1>3 DEF ConnTyped
<1> QED
  BY <1>1, <1>3, <1>4

LEMMA OutputIsSeq ==
  ASSUME NEW reply, IsSeq(reply.calls)
  PROVE  IsSeq(Output(reply))
<1> DEFINE a == IF Speaks(reply) THEN <<Message("assistant", <<reply.text>>)>> ELSE <<>>
           b == [i \in DOMAIN reply.calls |-> CallItem(reply.calls[i])]
<1>1. Output(reply) = a \o b
  BY DEF Output
<1>2. IsSeq(a)
  BY OneIsSeq, EmptyIsSeq
<1>3. DOMAIN b = DOMAIN reply.calls /\ b = [i \in DOMAIN b |-> b[i]]
  OBVIOUS
<1> HIDE DEF a, b
<1>4. IsSeq(b)
  BY <1>3, SameDomain
<1> QED
  BY <1>1, <1>2, <1>4, ConcatIsSeq

LEMMA WriteDoes ==
  ASSUME NEW k \in Requests, Shapes, Write(k)
  PROVE  /\ conn[k].at = "write" /\ conn' = [conn EXCEPT ![k] = Closed]
         /\ \/ UNCHANGED <<items, truth>>
            \/ /\ conn[k].events # None /\ ReplyTyped(conn[k].reply)
               /\ items' = [items EXCEPT ![k[1]] = items[k[1]] \o Output(conn[k].reply)]
               /\ truth' = [truth EXCEPT ![k[1]] = truth[k[1]] \o Heard(conn[k].reply)]
<1> DEFINE q == conn[k]
<1>1. q.at = "write" /\ conn' = [conn EXCEPT ![k] = Closed]
  BY DEF Write, Goes
<1>2. CASE ~Awaits(k) \/ q.events = None
  <2>1. UNCHANGED <<items, truth>>
    BY <1>2 DEF Write
  <2> QED
    BY <1>1, <2>1
<1>3. CASE Awaits(k) /\ q.events # None
  <2>1. ReplyTyped(q.reply) /\ \E n : q.events = Events(n, q.reply)
    BY <1>1, <1>3 DEF Shapes, ConnTyped
  <2>2. PICK n : q.events = Events(n, q.reply)
    BY <2>1
  <2> DEFINE reply == q.reply
  <2>3. IsSeq(reply.calls)
    BY <2>1 DEF ReplyTyped
  <2> HIDE DEF reply
  <2>4. /\ Reconciled(Events(n, reply)) = Output(reply)
        /\ Events(n, reply)[Len(Events(n, reply))].body = Output(reply)
    BY <2>3, EventsTell
  <2>5. Received(k) = Output(q.reply)
    BY <2>2, <2>4 DEF Received, reply
  <2>6. /\ items' = [items EXCEPT ![k[1]] = @ \o Received(k)]
        /\ truth' = [truth EXCEPT ![k[1]] = @ \o Heard(q.reply)]
    BY <1>3 DEF Write
  <2> QED
    BY <1>1, <1>3, <2>1, <2>5, <2>6
<1> QED
  BY <1>2, <1>3

LEMMA AskDoes ==
  ASSUME NEW c \in Conv, Shapes, Ask(c)
  PROVE  \E new : \E k \in Requests :
           /\ k = <<c, asked[c] + 1>> /\ k[1] = c /\ k[2] = asked[c] + 1
           /\ conn' = [conn EXCEPT ![k] = new] /\ ConnTyped(new)
           /\ new.at = "read" /\ new.items = items[c] /\ new.truth = truth[c] /\ new.events = None
           /\ asked' = [asked EXCEPT ![c] = asked[c] + 1] /\ asked[c] \in Nat
<1>1. PICK what : conn' = [conn EXCEPT ![<<c, asked[c] + 1>>] = Opened(what, items[c], truth[c])]
  BY DEF Ask
<1> DEFINE k == <<c, asked[c] + 1>>
           new == Opened(what, items[c], truth[c])
<1>2. asked[c] \in Nat /\ asked[c] < talk[c].asks /\ IsSeq(items[c])
  BY DEF Ask, Shapes
<1>3. talk[c].asks \in 0 .. MaxAsks /\ MaxAsks \in Nat
  BY TalkTyped DEF Shapes
<1>4. k \in Requests /\ k[1] = c /\ k[2] = asked[c] + 1
  BY <1>2, <1>3 DEF Requests
<1>5. asked' = [asked EXCEPT ![c] = asked[c] + 1]
  BY DEF Ask
<1>6. /\ DOMAIN new = {"at", "what", "items", "truth", "payload", "reply", "code", "events"}
      /\ new.at = "read" /\ new.items = items[c] /\ new.truth = truth[c] /\ new.events = None
  BY DEF Opened
<1>7. conn' = [conn EXCEPT ![k] = new]
  BY <1>1
<1>8. k = <<c, asked[c] + 1>>
  OBVIOUS
<1> HIDE DEF new, k
<1>9. ConnTyped(new)
  BY <1>2, <1>6 DEF ConnTyped
<1> QED
  BY <1>2, <1>4, <1>5, <1>6, <1>7, <1>8, <1>9

Names(c) == {tool.name : tool \in ToSet(talk[c].tools)}

LEMMA ToolsDo ==
  ASSUME NEW c \in Conv, Shapes, RunTools(c)
  PROVE  \E open, outputs :
           /\ IsSeq(open) /\ ToSet(open) \subseteq {x \in ToSet(items[c]) : x.kind = "function_call"}
           /\ DOMAIN outputs = DOMAIN open /\ IsSeq(outputs)
           /\ \A i \in DOMAIN open :
                outputs[i] = FunctionCallOutput(open[i].id, IF open[i].ns \o open[i].name \in Names(c)
                                                            THEN <<"ran">> ELSE <<"no such tool">>)
           /\ items' = [items EXCEPT ![c] = items[c] \o outputs]
           /\ truth' = [truth EXCEPT ![c] = truth[c] \o [i \in DOMAIN open |-> Result(open[i].id, <<"ran">>)]]
<1> DEFINE P == [i \in ToSet(items[c]) |->
                   /\ i.kind = "function_call"
                   /\ ~\E j \in DOMAIN items[c] : items[c][j].kind = "function_call_output" /\ items[c][j].id = i.id]
           open == Each(Kept(P), items[c])
           outputs == [i \in DOMAIN open |->
                         FunctionCallOutput(open[i].id, IF open[i].ns \o open[i].name \in Names(c)
                                                        THEN <<"ran">> ELSE <<"no such tool">>)]
<1>1. Those(items[c], LAMBDA i :
              i.kind = "function_call" /\
              ~\E j \in DOMAIN items[c] : items[c][j].kind = "function_call_output" /\ items[c][j].id = i.id)
      = open
  <2>1. Mapped(Kept(P), items[c])
        = [i \in DOMAIN items[c] |-> IF P[items[c][i]] THEN <<items[c][i]>> ELSE <<>>]
    BY DEF Mapped, Kept, ToSet
  <2>2. \A i \in DOMAIN items[c] :
          P[items[c][i]] = (items[c][i].kind = "function_call" /\
              ~\E j \in DOMAIN items[c] : items[c][j].kind = "function_call_output" /\ items[c][j].id = items[c][i].id)
    BY DEF ToSet
  <2> HIDE DEF P
  <2> QED
    BY <2>1, <2>2 DEF Those, Each
<1>2. /\ items' = [items EXCEPT ![c] = items[c] \o outputs]
      /\ truth' = [truth EXCEPT ![c] = truth[c] \o [i \in DOMAIN open |-> Result(open[i].id, <<"ran">>)]]
  BY <1>1 DEF RunTools, Names
<1>3. DOMAIN P = ToSet(items[c]) /\ \A x \in ToSet(items[c]) : P[x] => x.kind = "function_call"
  OBVIOUS
<1> HIDE DEF P
<1>4. IsSeq(items[c])
  BY DEF Shapes
<1>5. IsSeq(open) /\ ToSet(open) \subseteq {x \in ToSet(items[c]) : P[x]}
  BY <1>3, <1>4, KeptUnfolds
<1> HIDE DEF open
<1>6. /\ DOMAIN outputs = DOMAIN open /\ outputs = [i \in DOMAIN outputs |-> outputs[i]]
      /\ \A i \in DOMAIN open :
                outputs[i] = FunctionCallOutput(open[i].id, IF open[i].ns \o open[i].name \in Names(c)
                                                            THEN <<"ran">> ELSE <<"no such tool">>)
  OBVIOUS
<1> HIDE DEF outputs
<1>7. IsSeq(outputs)
  BY <1>5, <1>6, SameDomain
<1>8. ToSet(open) \subseteq {x \in ToSet(items[c]) : x.kind = "function_call"}
  BY <1>3, <1>5
<1> QED
  BY <1>2, <1>5, <1>6, <1>7, <1>8

\* The kinds of steps.
Still == UNCHANGED <<fixed, signatures, ledger, conn, items, asked, truth, used>>
Tasks(k) == Translate(k) \/ Reserve(k) \/ UpstreamReplies(k) \/ Harvest(k) \/ Build(k)

LEMMA Steps ==
  ASSUME [Next]_vars
  PROVE  \/ Still
         \/ \E k \in Requests : Passes(k) \/ Tasks(k) \/ Write(k)
         \/ \E c \in Conv : Ask(c) \/ RunTools(c)
<1>1. ASSUME Spawn \/ Drop \/ Over \/ UNCHANGED vars PROVE Still
  BY <1>1 DEF Spawn, Drop, Over, Still, vars, fixed, shared, client
<1>2. ASSUME NEW c \in Conv, Unserved(c) \/ Dropped(c) \/ Hangup(c) PROVE Still
  BY <1>2 DEF Unserved, Dropped, Hangup, Still, fixed, shared
<1>3. ASSUME NEW k \in Requests, Task(k) PROVE Passes(k) \/ Tasks(k) \/ Write(k)
  BY <1>3 DEF Task, Passes, Tasks
<1>4. ASSUME NEW c \in Conv, Child(c) PROVE Ask(c) \/ RunTools(c) \/ Still
  BY <1>2, <1>4 DEF Child
<1> QED
  BY <1>1, <1>2, <1>3, <1>4 DEF Next

LEMMA FixedStays == ASSUME [Next]_vars PROVE UNCHANGED fixed
<1>1. CASE Still
  BY <1>1 DEF Still
<1>2. ASSUME NEW k \in Requests, Passes(k) PROVE UNCHANGED fixed
  BY <1>2 DEF Passes, ReadRequest, Dispatch, BadRequest, OverBudget, UpstreamFails, BadReply
<1>3. ASSUME NEW k \in Requests, Tasks(k) PROVE UNCHANGED fixed
  BY <1>3 DEF Tasks, Translate, Reserve, UpstreamReplies, Harvest, Build
<1>4. ASSUME NEW k \in Requests, Write(k) PROVE UNCHANGED fixed
  BY <1>4 DEF Write
<1>5. ASSUME NEW c \in Conv, Ask(c) \/ RunTools(c) PROVE UNCHANGED fixed
  BY <1>5 DEF Ask, RunTools
<1> QED
  BY <1>1, <1>2, <1>3, <1>4, <1>5, Steps

LEMMA ShapesInit == Init => Shapes
<1> SUFFICES ASSUME Init PROVE Shapes
  OBVIOUS
<1>1. Chosen
  BY DEF Init, Chosen
<1>2. used \in Nat /\ ledger \in Nat
  BY DEF Init
<1>3. DOMAIN conn = Requests /\ \A k \in Requests : conn[k] = Closed
  BY DEF Init
<1>4. \A k \in Requests : ConnTyped(conn[k]) /\ conn[k].at = "closed"
  BY <1>3 DEF ConnTyped, Closed
<1>5. DOMAIN items = Conv /\ DOMAIN truth = Conv /\ DOMAIN asked = Conv
  BY DEF Init
<1>6. \A c \in Conv : items[c] = talk[c].prompt /\ asked[c] = 0
  BY DEF Init
<1>7. \A c \in Conv : IsSeq(items[c]) /\ asked[c] \in Nat
  BY <1>1, <1>6, TalkTyped
<1> QED
  BY <1>1, <1>2, <1>3, <1>4, <1>5, <1>7 DEF Shapes

\* A task that moves keeps its shape.
LEMMA TaskShaped ==
  ASSUME Shapes, NEW k \in Requests, NEW new, ConnTyped(new), conn[k].at # "closed",
         conn' = [conn EXCEPT ![k] = new], UNCHANGED <<fixed, items, asked, truth>>,
         used' \in Nat, ledger' \in Nat
  PROVE  Shapes'
<1>1. Chosen'
  BY DEF Shapes, Chosen, fixed
<1>2. DOMAIN conn' = Requests /\ conn'[k] = new /\ \A j \in Requests : j # k => conn'[j] = conn[j]
  BY Moved DEF Shapes
<1>3. \A j \in Requests : ConnTyped(conn'[j])
  BY <1>2 DEF Shapes
<1>4. \A j \in Requests : conn'[j].at # "closed" => j[2] <= asked'[j[1]]
  BY <1>2 DEF Shapes
<1>5. DOMAIN items' = Conv /\ DOMAIN truth' = Conv /\ DOMAIN asked' = Conv
  BY DEF Shapes
<1>6. \A c \in Conv : IsSeq(items'[c]) /\ asked'[c] \in Nat
  BY DEF Shapes
<1> QED
  BY <1>1, <1>2, <1>3, <1>4, <1>5, <1>6 DEF Shapes

LEMMA ReservedIsNat ==
  ASSUME Shapes, NEW p, PayloadTyped(p)
  PROVE  OutputCap(p) \in Nat /\ Size(p) \in Nat /\ Reserved(p) = Size(p) + OutputCap(p)
<1>1. OutputCap(p) \in Nat
  BY CapType, EnvTyped DEF OutputCap, Least, Shapes
<1> QED
  BY <1>1, SizeIsNat DEF Reserved

LEMMA ShapesStep == Shapes /\ [Next]_vars => Shapes'
<1> SUFFICES ASSUME Shapes, [Next]_vars PROVE Shapes'
  OBVIOUS
<1>1. CASE Still
  BY <1>1 DEF Still, Shapes, Chosen, fixed
<1>2. ASSUME NEW k \in Requests, Passes(k) PROVE Shapes'
  <2>1. PICK new : conn' = [conn EXCEPT ![k] = new] /\ ConnTyped(new) /\ conn[k].at # "closed"
    BY <1>2, PassesDo DEF Shapes
  <2>2. UNCHANGED <<fixed, items, asked, truth, ledger>>
    BY <1>2 DEF Passes, ReadRequest, Dispatch, BadRequest, OverBudget, UpstreamFails, BadReply, client, shared
  <2>3. used' \in Nat
    <3>1. CASE UpstreamFails(k)
      <4>1. conn[k].at = "send" /\ used' \in {used, used + Size(conn[k].payload)}
        BY <3>1 DEF UpstreamFails, Goes
      <4>2. PayloadTyped(conn[k].payload)
        BY <4>1 DEF Shapes, ConnTyped
      <4>3. Size(conn[k].payload) \in Nat /\ used \in Nat
        BY <4>2, SizeIsNat DEF Shapes
      <4> QED
        BY <4>1, <4>3
    <3>2. CASE ~UpstreamFails(k)
      BY <1>2, <3>2 DEF Passes, ReadRequest, Dispatch, BadRequest, OverBudget, BadReply, Shapes
    <3> QED
      BY <3>1, <3>2
  <2>4. ledger' \in Nat
    BY <2>2 DEF Shapes
  <2> QED
    BY <2>1, <2>2, <2>3, <2>4, TaskShaped
<1>3. ASSUME NEW k \in Requests, Tasks(k) PROVE Shapes'
  <2>1. CASE Translate(k)
    <3>1. PICK new : conn' = [conn EXCEPT ![k] = new] /\ ConnTyped(new) /\ conn[k].at = "translate"
      BY <2>1, TranslateDoes
    <3>2. conn[k].at # "closed"
      BY <3>1
    <3>3. UNCHANGED <<fixed, items, asked, truth>> /\ used' \in Nat /\ ledger' \in Nat
      BY <2>1 DEF Translate, client, shared, Shapes
    <3> QED
      BY <3>1, <3>2, <3>3, TaskShaped
  <2>2. CASE Reserve(k)
    <3>1. PICK new : /\ conn' = [conn EXCEPT ![k] = new] /\ ConnTyped(new) /\ conn[k].at = "reserve"
                     /\ PayloadTyped(conn[k].payload)
      BY <2>2, ReserveDoes
    <3>2. conn[k].at # "closed"
      BY <3>1
    <3>3. UNCHANGED <<fixed, items, asked, truth>> /\ used' \in Nat /\ ledger' = ledger + Reserved(conn[k].payload)
      BY <2>2 DEF Reserve, client, Shapes
    <3>4. ledger' \in Nat
      <4> DEFINE l == OutputCap(conn[k].payload)
                 m == Size(conn[k].payload)
      <4>1. l \in Nat /\ m \in Nat /\ ledger' = ledger + (m + l) /\ ledger \in Nat
        BY <3>1, <3>3, ReservedIsNat DEF Shapes
      <4> HIDE DEF l, m
      <4> QED
        BY <4>1
    <3>5. UNCHANGED <<fixed, items, asked, truth>> /\ used' \in Nat
      BY <3>3
    <3> QED
      BY <3>1, <3>2, <3>4, <3>5, TaskShaped
  <2>3. CASE UpstreamReplies(k)
    <3>1. PICK new : /\ conn' = [conn EXCEPT ![k] = new] /\ ConnTyped(new) /\ conn[k].at = "send"
                     /\ Cost(new.reply) \in Nat /\ used' = used + Size(conn[k].payload) + Cost(new.reply)
      BY <2>3, RepliesDo
    <3>2. conn[k].at # "closed"
      BY <3>1
    <3>3. UNCHANGED <<fixed, items, asked, truth>> /\ ledger' \in Nat
      BY <2>3 DEF UpstreamReplies, client, shared, Shapes
    <3>4. used' \in Nat
      <4>1. PayloadTyped(conn[k].payload)
        BY <3>1 DEF Shapes, ConnTyped
      <4> DEFINE l == Cost(new.reply)
                 m == Size(conn[k].payload)
      <4>2. l \in Nat /\ m \in Nat /\ used' = used + m + l /\ used \in Nat
        BY <3>1, <4>1, SizeIsNat DEF Shapes
      <4> HIDE DEF l, m
      <4> QED
        BY <4>2
    <3>5. UNCHANGED <<fixed, items, asked, truth>>
      BY <3>3
    <3>6. conn' = [conn EXCEPT ![k] = new] /\ ConnTyped(new) /\ ledger' \in Nat
      BY <3>1, <3>3
    <3> QED
      BY <3>2, <3>4, <3>5, <3>6, TaskShaped
  <2>4. CASE Harvest(k)
    <3>1. PICK new : conn' = [conn EXCEPT ![k] = new] /\ ConnTyped(new) /\ conn[k].at = "harvest"
      BY <2>4, HarvestDoes
    <3>2. conn[k].at # "closed"
      BY <3>1
    <3>3. UNCHANGED <<fixed, items, asked, truth>> /\ used' \in Nat /\ ledger' \in Nat
      BY <2>4 DEF Harvest, client, Shapes
    <3> QED
      BY <3>1, <3>2, <3>3, TaskShaped
  <2>5. CASE Build(k)
    <3>1. PICK new : conn' = [conn EXCEPT ![k] = new] /\ ConnTyped(new) /\ conn[k].at = "build"
      BY <2>5, BuildDoes
    <3>2. conn[k].at # "closed"
      BY <3>1
    <3>3. UNCHANGED <<fixed, items, asked, truth>> /\ used' \in Nat /\ ledger' \in Nat
      BY <2>5 DEF Build, client, Shapes
    <3> QED
      BY <3>1, <3>2, <3>3, TaskShaped
  <2> QED
    BY <1>3, <2>1, <2>2, <2>3, <2>4, <2>5 DEF Tasks
<1>4. ASSUME NEW k \in Requests, Write(k) PROVE Shapes'
  <2>1. /\ conn[k].at = "write" /\ conn' = [conn EXCEPT ![k] = Closed]
        /\ \/ UNCHANGED <<items, truth>>
           \/ /\ ReplyTyped(conn[k].reply)
              /\ items' = [items EXCEPT ![k[1]] = items[k[1]] \o Output(conn[k].reply)]
              /\ truth' = [truth EXCEPT ![k[1]] = truth[k[1]] \o Heard(conn[k].reply)]
    BY <1>4, WriteDoes
  <2>2. UNCHANGED <<fixed, asked, used, ledger>>
    BY <1>4 DEF Write, shared
  <2>3. DOMAIN conn' = Requests /\ conn'[k] = Closed /\ \A j \in Requests : j # k => conn'[j] = conn[j]
    BY <2>1, Moved DEF Shapes
  <2>4. ConnTyped(Closed) /\ Closed.at = "closed"
    BY DEF ConnTyped, Closed
  <2>5. \A j \in Requests : ConnTyped(conn'[j]) /\ (conn'[j].at # "closed" => j[2] <= asked'[j[1]])
    BY <2>2, <2>3, <2>4 DEF Shapes
  <2>6. DOMAIN items' = Conv /\ DOMAIN truth' = Conv
    BY <2>1 DEF Shapes
  <2>7. \A c \in Conv : IsSeq(items'[c])
    <3>1. CASE UNCHANGED <<items, truth>>
      BY <3>1 DEF Shapes
    <3>2. CASE /\ ReplyTyped(conn[k].reply)
               /\ items' = [items EXCEPT ![k[1]] = items[k[1]] \o Output(conn[k].reply)]
      <4> DEFINE reply == conn[k].reply
                 old == items[k[1]]
      <4>1. IsSeq(reply.calls) /\ IsSeq(old)
        BY <3>2, RequestsTyped DEF ReplyTyped, Shapes
      <4> HIDE DEF reply, old
      <4>2. IsSeq(Output(reply))
        BY <4>1, OutputIsSeq
      <4>3. IsSeq(old \o Output(reply))
        BY <4>1, <4>2, ConcatIsSeq
      <4>4. IsSeq(items[k[1]] \o Output(conn[k].reply))
        BY <4>3 DEF reply, old
      <4>5. \A c \in Conv : items'[c] = items[c] \/ items'[c] = items[k[1]] \o Output(conn[k].reply)
        BY <3>2 DEF Shapes
      <4> QED
        BY <4>4, <4>5 DEF Shapes
    <3> QED
      BY <2>1, <3>1, <3>2
  <2> QED
    BY <2>2, <2>3, <2>5, <2>6, <2>7 DEF Shapes, Chosen, fixed
<1>5. ASSUME NEW c \in Conv, Ask(c) PROVE Shapes'
  <2>1. PICK new : \E k \in Requests :
          /\ k = <<c, asked[c] + 1>> /\ k[1] = c /\ k[2] = asked[c] + 1
          /\ conn' = [conn EXCEPT ![k] = new] /\ ConnTyped(new)
          /\ asked' = [asked EXCEPT ![c] = asked[c] + 1] /\ asked[c] \in Nat
    BY <1>5, AskDoes
  <2>2. PICK k \in Requests :
          /\ k[1] = c /\ k[2] = asked[c] + 1
          /\ conn' = [conn EXCEPT ![k] = new] /\ ConnTyped(new)
          /\ asked' = [asked EXCEPT ![c] = asked[c] + 1] /\ asked[c] \in Nat
    BY <2>1
  <2>3. UNCHANGED <<fixed, items, truth, used, ledger>>
    BY <1>5 DEF Ask, shared
  <2>4. DOMAIN conn' = Requests /\ conn'[k] = new /\ \A j \in Requests : j # k => conn'[j] = conn[j]
    BY <2>2, Moved DEF Shapes
  <2>5. /\ DOMAIN asked' = Conv /\ asked'[c] = asked[c] + 1
        /\ \A d \in Conv : asked'[d] \in Nat /\ asked[d] <= asked'[d]
    BY <2>2 DEF Shapes
  <2>6. \A j \in Requests : ConnTyped(conn'[j])
    BY <2>2, <2>4 DEF Shapes
  <2>7. ASSUME NEW j \in Requests, conn'[j].at # "closed" PROVE j[2] <= asked'[j[1]]
    <3>1. CASE j = k
      BY <2>2, <2>5, <3>1
    <3>2. CASE j # k
      <4>1. j[2] <= asked[j[1]]
        BY <2>4, <2>7, <3>2 DEF Shapes
      <4>2. j[1] \in Conv /\ j[2] \in Nat
        BY RequestsTyped
      <4>3. asked[j[1]] <= asked'[j[1]] /\ asked[j[1]] \in Nat /\ asked'[j[1]] \in Nat
        BY <2>5, <4>2 DEF Shapes
      <4> QED
        BY <4>1, <4>2, <4>3
    <3> QED
      BY <3>1, <3>2
  <2> QED
    BY <2>3, <2>4, <2>5, <2>6, <2>7 DEF Shapes, Chosen, fixed
<1>6. ASSUME NEW c \in Conv, RunTools(c) PROVE Shapes'
  <2>1. PICK open, outputs :
          /\ IsSeq(outputs)
          /\ items' = [items EXCEPT ![c] = items[c] \o outputs]
          /\ truth' = [truth EXCEPT ![c] = truth[c] \o [i \in DOMAIN open |-> Result(open[i].id, <<"ran">>)]]
    BY <1>6, ToolsDo
  <2>2. UNCHANGED <<fixed, asked, used, ledger, conn>>
    BY <1>6 DEF RunTools, shared
  <2>3. DOMAIN items' = Conv /\ DOMAIN truth' = Conv
    BY <2>1 DEF Shapes
  <2>4. IsSeq(items[c] \o outputs)
    BY <2>1, ConcatIsSeq DEF Shapes
  <2>5. \A d \in Conv : items'[d] = items[d] \/ items'[d] = items[c] \o outputs
    BY <2>1 DEF Shapes
  <2>6. \A d \in Conv : IsSeq(items'[d])
    BY <2>4, <2>5 DEF Shapes
  <2> QED
    BY <2>2, <2>3, <2>6 DEF Shapes, Chosen, fixed
<1> QED
  BY <1>1, <1>2, <1>3, <1>4, <1>5, <1>6, Steps

LEMMA Shaped == Spec => []Shapes
  BY ShapesInit, ShapesStep, PTL DEF Spec

-----------------------------------------------------------------------------
(* What may still be spent                                                 *)

Sending == {k \in Requests : conn[k].at = "send"}
Weights == [k \in Sending |-> Size(conn[k].payload) + conn[k].payload.maxTokens[1]]

\* What was reserved covers what was charged and what the requests that are on
\* their way may cost at most.
Spending ==
  env.budget = "valid" =>
    /\ \A k \in Sending : conn[k].payload.maxTokens # None
    /\ ledger <= env.tokenCap
    /\ \E f : Sums(f, Sending, Weights) /\ used + f[Sending] <= ledger

LEMMA RequestsFinite == IsFiniteSet(Requests)
<1>1. IsFiniteSet(Conv) /\ IsFiniteSet(1 .. MaxAsks)
  BY ChatAssumption, FS_Interval
<1> QED
  BY <1>1, FS_Product DEF Requests

LEMMA SumTaken ==
  ASSUME NEW D, IsFiniteSet(D), NEW w, \A k \in D : w[k] \in Nat, NEW f, Sums(f, D, w),
         NEW k \in D, NEW E, E = D \ {k}, NEW v, \A j \in E : v[j] = w[j], NEW g, Sums(g, E, v)
  PROVE  f[D] = w[k] + g[E] /\ g[E] \in Nat /\ w[k] \in Nat
<1>1. \A S \in SUBSET D : f[S] \in Nat /\ \A j \in S : f[S] = w[j] + f[S \ {j}]
  <2>1. Sums(f, D, w) /\ IsFiniteSet(D) /\ \A j \in D : w[j] \in Nat
    OBVIOUS
  <2> QED
    BY ONLY <2>1, SumsOff
<1>2. f[D] = w[k] + f[E] /\ f[E] \in Nat
  <2>1. D \in SUBSET D /\ E \in SUBSET D
    OBVIOUS
  <2> QED
    BY <1>1, <2>1
<1>3. IsFiniteSet(E) /\ E \subseteq D /\ E \subseteq E /\ \A j \in E : w[j] = v[j]
  BY FS_Subset
<1>4. f[E] = g[E]
  BY <1>3, SumsAgree
<1> QED
  BY <1>2, <1>4

LEMMA WeightsTyped ==
  ASSUME Shapes, \A k \in Sending : conn[k].payload.maxTokens # None
  PROVE  IsFiniteSet(Sending) /\ \A k \in Sending : Weights[k] \in Nat
<1>1. IsFiniteSet(Sending)
  BY RequestsFinite, FS_Subset DEF Sending
<1>2. ASSUME NEW k \in Sending PROVE Weights[k] \in Nat
  <2> DEFINE l == Size(conn[k].payload)
             m == conn[k].payload.maxTokens[1]
  <2>1. PayloadTyped(conn[k].payload)
    BY DEF Shapes, ConnTyped, Sending
  <2>2. l \in Nat /\ m \in Nat /\ Weights[k] = l + m
    BY <2>1, SizeIsNat, CapType DEF Weights
  <2> HIDE DEF l, m
  <2> QED
    BY <2>2
<1> QED
  BY <1>1, <1>2

LEMMA SpendingStays ==
  ASSUME Spending, Sending' = Sending, \A k \in Sending : conn'[k].payload = conn[k].payload,
         env' = env, used' = used, ledger' = ledger
  PROVE  Spending'
<1>1. \A k \in Sending : Size(conn'[k].payload) = Size(conn[k].payload)
  OBVIOUS
<1>2. Weights' = Weights
  BY <1>1 DEF Weights, Size
<1> QED
  BY <1>2 DEF Spending

LEMMA SpendingLeaves ==
  ASSUME Shapes, Spending, NEW k \in Sending, Sending' = Sending \ {k},
         \A j \in Sending' : conn'[j].payload = conn[j].payload,
         env' = env, ledger' = ledger, used' \in Nat, env.budget = "valid" => used' <= used + Weights[k]
  PROVE  Spending'
<1> SUFFICES ASSUME env.budget = "valid" PROVE Spending'
  BY DEF Spending
<1>1. PICK f : /\ \A j \in Sending : conn[j].payload.maxTokens # None
               /\ ledger <= env.tokenCap /\ Sums(f, Sending, Weights) /\ used + f[Sending] <= ledger
  BY DEF Spending
<1>2. IsFiniteSet(Sending) /\ \A j \in Sending : Weights[j] \in Nat
  BY <1>1, WeightsTyped
<1>3. IsFiniteSet(Sending')
  BY <1>2, FS_Subset
<1>4. PICK g : Sums(g, Sending', Weights')
  BY <1>3, SumsExist
<1>5. \A j \in Sending' : Weights'[j] = Weights[j]
  BY DEF Weights, Size
<1>6. f[Sending] = Weights[k] + g[Sending'] /\ g[Sending'] \in Nat /\ Weights[k] \in Nat
  <2> DEFINE D == Sending
             E == Sending'
             w == Weights
             v == Weights'
  <2>1. /\ IsFiniteSet(D) /\ (\A j \in D : w[j] \in Nat) /\ Sums(f, D, w)
        /\ k \in D /\ E = D \ {k} /\ (\A j \in E : v[j] = w[j]) /\ Sums(g, E, v)
    BY <1>1, <1>2, <1>4, <1>5
  <2> HIDE DEF D, E, w, v
  <2>2. f[D] = w[k] + g[E] /\ g[E] \in Nat /\ w[k] \in Nat
    BY <2>1, SumTaken
  <2> QED
    BY <2>2 DEF D, E, w, v
<1>7. used' + g[Sending'] <= ledger'
  <2> DEFINE a == f[Sending]
             b == g[Sending']
             c == Weights[k]
  <2>1. /\ a = c + b /\ b \in Nat /\ c \in Nat /\ used + a <= ledger /\ used' <= used + c
        /\ used \in Nat /\ used' \in Nat /\ ledger \in Nat /\ ledger' = ledger
    BY <1>1, <1>6 DEF Shapes
  <2> HIDE DEF a, b, c
  <2>2. ASSUME NEW u \in Nat, NEW v \in Nat, NEW l \in Nat, u + a <= l, v <= u + c PROVE v + b <= l
    BY <2>1, <2>2
  <2>3. used' + b <= ledger
    BY <2>1, <2>2
  <2> QED
    BY <2>1, <2>3 DEF b
<1>8. \A j \in Sending' : conn'[j].payload.maxTokens # None
  BY <1>1
<1> QED
  BY <1>1, <1>4, <1>7, <1>8 DEF Spending

LEMMA SpendingEnters ==
  ASSUME Shapes, Spending, NEW k \in Requests, k \notin Sending, Sending' = Sending \cup {k},
         \A j \in Sending : conn'[j].payload = conn[j].payload,
         conn'[k].payload.maxTokens # None,
         env' = env, used' = used, Weights'[k] \in Nat,
         ledger' = ledger + Weights'[k], ledger' <= env.tokenCap
  PROVE  Spending'
<1> SUFFICES ASSUME env.budget = "valid" PROVE Spending'
  BY DEF Spending
<1>1. PICK f : /\ \A j \in Sending : conn[j].payload.maxTokens # None
               /\ Sums(f, Sending, Weights) /\ used + f[Sending] <= ledger
  BY DEF Spending
<1>2. IsFiniteSet(Sending) /\ \A j \in Sending : Weights[j] \in Nat
  BY <1>1, WeightsTyped
<1>3. IsFiniteSet(Sending')
  BY RequestsFinite, FS_Subset DEF Sending
<1>4. PICK g : Sums(g, Sending', Weights')
  BY <1>3, SumsExist
<1>5. \A j \in Sending : Weights'[j] = Weights[j]
  BY DEF Weights, Size
<1>6. g[Sending'] = Weights'[k] + f[Sending] /\ f[Sending] \in Nat
  <2> DEFINE D == Sending'
             E == Sending
             w == Weights'
             v == Weights
  <2>1. /\ IsFiniteSet(D) /\ (\A j \in D : w[j] \in Nat) /\ Sums(g, D, w)
        /\ k \in D /\ E = D \ {k} /\ (\A j \in E : v[j] = w[j]) /\ Sums(f, E, v)
    BY <1>1, <1>2, <1>3, <1>4, <1>5
  <2> HIDE DEF D, E, w, v
  <2>2. g[D] = w[k] + f[E] /\ f[E] \in Nat
    BY <2>1, SumTaken
  <2> QED
    BY <2>2 DEF D, E, w, v
<1>7. used' + g[Sending'] <= ledger'
  <2> DEFINE a == f[Sending]
             b == g[Sending']
             c == Weights'[k]
  <2>1. /\ b = c + a /\ a \in Nat /\ c \in Nat /\ used + a <= ledger /\ used' = used
        /\ used \in Nat /\ ledger \in Nat /\ ledger' = ledger + c
    BY <1>1, <1>6 DEF Shapes
  <2> HIDE DEF a, b, c
  <2>2. used' + b <= ledger'
    BY <2>1
  <2> QED
    BY <2>2 DEF b
<1>8. \A j \in Sending' : conn'[j].payload.maxTokens # None
  BY <1>1
<1> QED
  BY <1>4, <1>7, <1>8 DEF Spending

LEMMA Senders ==
  ASSUME Shapes, NEW k \in Requests, NEW new, conn' = [conn EXCEPT ![k] = new]
  PROVE  /\ conn[k].at # "send" /\ new.at # "send" =>
              Sending' = Sending /\ \A j \in Sending : conn'[j].payload = conn[j].payload
         /\ conn[k].at = "send" /\ new.at # "send" =>
              k \in Sending /\ Sending' = Sending \ {k} /\ \A j \in Sending' : conn'[j].payload = conn[j].payload
         /\ conn[k].at # "send" /\ new.at = "send" =>
              /\ k \notin Sending /\ Sending' = Sending \cup {k} /\ conn'[k] = new
              /\ \A j \in Sending : conn'[j].payload = conn[j].payload
<1>1. DOMAIN conn' = Requests /\ conn'[k] = new /\ \A j \in Requests : j # k => conn'[j] = conn[j]
  BY Moved DEF Shapes
<1>2. \A j \in Requests : j \in Sending <=> conn[j].at = "send"
  BY DEF Sending
<1>3. \A j \in Requests : j \in Sending' <=> conn'[j].at = "send"
  BY DEF Sending
<1>4. Sending \subseteq Requests /\ Sending' \subseteq Requests
  BY DEF Sending, Requests
<1>5. ASSUME conn[k].at # "send", new.at # "send"
      PROVE  Sending' = Sending /\ \A j \in Sending : conn'[j].payload = conn[j].payload
  BY <1>1, <1>2, <1>3, <1>4, <1>5
<1>6. ASSUME conn[k].at = "send", new.at # "send"
      PROVE  k \in Sending /\ Sending' = Sending \ {k} /\ \A j \in Sending' : conn'[j].payload = conn[j].payload
  BY <1>1, <1>2, <1>3, <1>4, <1>6
<1>7. ASSUME conn[k].at # "send", new.at = "send"
      PROVE  /\ k \notin Sending /\ Sending' = Sending \cup {k} /\ conn'[k] = new
             /\ \A j \in Sending : conn'[j].payload = conn[j].payload
  BY <1>1, <1>2, <1>3, <1>4, <1>7
<1> QED
  BY <1>5, <1>6, <1>7

LEMMA SpendingInit == Init => Spending
<1> SUFFICES ASSUME Init PROVE Spending
  OBVIOUS
<1>1. Sending = {}
  BY DEF Init, Sending, Closed
<1>2. PICK f : Sums(f, {}, Weights)
  BY FS_EmptySet, SumsExist
<1>3. f[{}] = 0
  <2>1. {} \in SUBSET {}
    OBVIOUS
  <2> QED
    BY <1>2, <2>1 DEF Sums
<1>4. Chosen
  BY DEF Init, Chosen
<1>5. used + f[Sending] <= ledger
  BY <1>1, <1>3 DEF Init
<1>6. ledger <= env.tokenCap
  BY <1>4, EnvTyped DEF Init
<1> QED
  BY <1>1, <1>2, <1>5, <1>6 DEF Spending

LEMMA SpendingStep == Shapes /\ Spending /\ [Next]_vars => Spending'
<1> SUFFICES ASSUME Shapes, Spending, [Next]_vars PROVE Spending'
  OBVIOUS
<1> SUFFICES ASSUME env.budget = "valid" PROVE Spending'
  <2>1. env' = env
    BY FixedStays DEF fixed
  <2> QED
    BY <2>1 DEF Spending
<1>1. CASE Still
  BY <1>1 DEF Still, Spending, Sending, Weights, Size, fixed
<1>2. ASSUME NEW k \in Requests, Passes(k) PROVE Spending'
  <2>1. PICK new : conn' = [conn EXCEPT ![k] = new] /\ new.at \notin {"send"}
    BY <1>2, PassesDo DEF Shapes
  <2>2. env' = env /\ ledger' = ledger
    BY <1>2 DEF Passes, ReadRequest, Dispatch, BadRequest, OverBudget, UpstreamFails, BadReply, shared, fixed
  <2>3. CASE conn[k].at # "send"
    <3>1. used' = used
      BY <1>2, <2>3 DEF Passes, ReadRequest, Dispatch, BadRequest, OverBudget, UpstreamFails, BadReply, Goes
    <3>2. Sending' = Sending /\ \A j \in Sending : conn'[j].payload = conn[j].payload
      BY <2>1, <2>3, Senders
    <3> QED
      BY <2>2, <3>1, <3>2, SpendingStays
  <2>4. CASE conn[k].at = "send"
    <3>1. k \in Sending /\ Sending' = Sending \ {k} /\ \A j \in Sending' : conn'[j].payload = conn[j].payload
      BY <2>1, <2>4, Senders
    <3>2. used' \in {used, used + Size(conn[k].payload)}
      BY <1>2, <2>4 DEF Passes, ReadRequest, Dispatch, BadRequest, OverBudget, UpstreamFails, BadReply, Goes
    <3>3. conn[k].payload.maxTokens # None /\ PayloadTyped(conn[k].payload)
      BY <3>1 DEF Spending, Shapes, ConnTyped, Sending
    <3>4. used' \in Nat /\ used' <= used + Weights[k]
      <4> DEFINE l == Size(conn[k].payload)
                 m == conn[k].payload.maxTokens[1]
      <4>1. /\ l \in Nat /\ m \in Nat /\ used \in Nat /\ used' \in {used, used + l}
            /\ Weights[k] = l + m
        BY <3>1, <3>2, <3>3, SizeIsNat, CapType DEF Weights, Shapes
      <4> HIDE DEF l, m
      <4> QED
        BY <4>1
    <3>5. env.budget = "valid" => used' <= used + Weights[k]
      BY <3>4
    <3>6. k \in Sending /\ Sending' = Sending \ {k} /\ used' \in Nat
      BY <3>1, <3>4
    <3>7. \A j \in Sending' : conn'[j].payload = conn[j].payload
      BY <3>1
    <3> QED
      BY <2>2, <3>5, <3>6, <3>7, SpendingLeaves
  <2> QED
    BY <2>3, <2>4
\* A step of a request that is not on its way, and does not go.
<1>3. ASSUME NEW k \in Requests, NEW new, conn' = [conn EXCEPT ![k] = new],
             conn[k].at # "send", new.at # "send", env' = env, used' = used, ledger' = ledger
      PROVE  Spending'
  <2>1. Sending' = Sending /\ \A j \in Sending : conn'[j].payload = conn[j].payload
    BY <1>3, Senders
  <2> QED
    BY <1>3, <2>1, SpendingStays
<1>4. ASSUME NEW k \in Requests, Translate(k) PROVE Spending'
  <2>1. PICK new : conn' = [conn EXCEPT ![k] = new] /\ conn[k].at = "translate" /\ new.at = "reserve"
    BY <1>4, TranslateDoes
  <2>2. env' = env /\ used' = used /\ ledger' = ledger
    BY <1>4 DEF Translate, fixed, shared
  <2> QED
    BY <1>3, <2>1, <2>2
<1>5. ASSUME NEW k \in Requests, Reserve(k) PROVE Spending'
  <2>1. PICK new : /\ conn' = [conn EXCEPT ![k] = new] /\ conn[k].at = "reserve" /\ new.at = "send"
                   /\ new.payload = WithCap(conn[k].payload, OutputCap(conn[k].payload))
                   /\ PayloadTyped(conn[k].payload) /\ OutputCap(conn[k].payload) \in Nat
    BY <1>5, ReserveDoes
  <2>2. /\ k \notin Sending /\ Sending' = Sending \cup {k} /\ conn'[k] = new
        /\ \A j \in Sending : conn'[j].payload = conn[j].payload
    BY <2>1, Senders
  <2> DEFINE p == conn[k].payload
             cap == OutputCap(conn[k].payload)
  <2>3. /\ env' = env /\ used' = used /\ ledger' = ledger + Reserved(p)
        /\ ledger + Reserved(p) <= env.tokenCap
    BY <1>5 DEF Reserve, Admits, fixed
  <2>4. Size(p) \in Nat /\ Reserved(p) = Size(p) + cap
    BY <2>1, SizeIsNat DEF Reserved
  <2>5. PayloadTyped(p) /\ cap \in Nat
    BY <2>1
  <2> HIDE DEF p, cap
  <2>6. Size(WithCap(p, cap)) = Size(p) /\ WithCap(p, cap).maxTokens = <<cap>>
    BY <2>5, WithCapKeeps
  <2>7. new.payload = WithCap(p, cap)
    BY <2>1 DEF p, cap
  <2>8. Size(new.payload) = Size(p) /\ new.payload.maxTokens = <<cap>>
    BY <2>6, <2>7
  <2>9. Weights'[k] = Size(new.payload) + new.payload.maxTokens[1]
    BY <2>2 DEF Weights, Size
  <2>10. Weights'[k] = Reserved(p)
    BY <2>4, <2>8, <2>9
  <2>11. Reserved(p) \in Nat
    BY <2>4, <2>5
  <2>12. conn'[k].payload.maxTokens # None
    BY <2>2, <2>8 DEF None
  <2>13. /\ env' = env /\ used' = used /\ Weights'[k] \in Nat /\ ledger' = ledger + Weights'[k]
         /\ ledger' <= env.tokenCap
    BY <2>3, <2>10, <2>11
  <2>14. /\ k \notin Sending /\ Sending' = Sending \cup {k}
         /\ \A j \in Sending : conn'[j].payload = conn[j].payload
    BY <2>2
  <2> QED
    BY <2>12, <2>13, <2>14, SpendingEnters
<1>6. ASSUME NEW k \in Requests, UpstreamReplies(k) PROVE Spending'
  <2>1. PICK new : /\ conn' = [conn EXCEPT ![k] = new] /\ conn[k].at = "send" /\ new.at = "harvest"
                   /\ conn[k].payload.maxTokens # None => Cost(new.reply) <= conn[k].payload.maxTokens[1]
                   /\ Cost(new.reply) \in Nat /\ used' = used + Size(conn[k].payload) + Cost(new.reply)
    BY <1>6, RepliesDo
  <2>2. k \in Sending /\ Sending' = Sending \ {k}
    BY <2>1, Senders
  <2>3. \A j \in Sending' : conn'[j].payload = conn[j].payload
    BY <2>1, Senders
  <2>4. conn[k].payload.maxTokens # None /\ PayloadTyped(conn[k].payload)
    BY <2>2 DEF Spending, Shapes, ConnTyped, Sending
  <2>5. used' \in Nat /\ used' <= used + Weights[k]
    <3> DEFINE l == Size(conn[k].payload)
               m == conn[k].payload.maxTokens[1]
               n == Cost(new.reply)
    <3>1. l \in Nat /\ m \in Nat /\ Weights[k] = l + m
      BY <2>2, <2>4, SizeIsNat, CapType DEF Weights
    <3>2. n \in Nat /\ n <= m /\ used \in Nat /\ used' = used + l + n
      BY <2>1, <2>4 DEF Shapes
    <3> HIDE DEF l, m, n
    <3> QED
      BY <3>1, <3>2
  <2>6. env' = env /\ ledger' = ledger
    BY <1>6 DEF UpstreamReplies, fixed, shared
  <2>7. used' \in Nat /\ (env.budget = "valid" => used' <= used + Weights[k])
    BY <2>5
  <2> QED
    BY <2>2, <2>3, <2>6, <2>7, SpendingLeaves
<1>7. ASSUME NEW k \in Requests, Harvest(k) PROVE Spending'
  <2>1. PICK new : conn' = [conn EXCEPT ![k] = new] /\ conn[k].at = "harvest" /\ new.at = "build"
    BY <1>7, HarvestDoes
  <2>2. env' = env /\ used' = used /\ ledger' = ledger
    BY <1>7 DEF Harvest, fixed
  <2> QED
    BY <1>3, <2>1, <2>2
<1>8. ASSUME NEW k \in Requests, Build(k) PROVE Spending'
  <2>1. PICK new : conn' = [conn EXCEPT ![k] = new] /\ conn[k].at = "build" /\ new.at = "write"
    BY <1>8, BuildDoes
  <2>2. env' = env /\ used' = used /\ ledger' = ledger
    BY <1>8 DEF Build, fixed
  <2> QED
    BY <1>3, <2>1, <2>2
<1>9. ASSUME NEW k \in Requests, Write(k) PROVE Spending'
  <2>1. conn' = [conn EXCEPT ![k] = Closed] /\ conn[k].at = "write" /\ Closed.at = "closed"
    BY <1>9, WriteDoes DEF Closed
  <2>2. env' = env /\ used' = used /\ ledger' = ledger
    BY <1>9 DEF Write, fixed, shared
  <2> QED
    BY <1>3, <2>1, <2>2
<1>10. ASSUME NEW c \in Conv, Ask(c) PROVE Spending'
  <2>1. PICK new : \E k \in Requests :
          /\ k[1] = c /\ k[2] = asked[c] + 1 /\ asked[c] \in Nat
          /\ conn' = [conn EXCEPT ![k] = new] /\ new.at = "read"
    BY <1>10, AskDoes
  <2>2. PICK k \in Requests :
          /\ k[1] = c /\ k[2] = asked[c] + 1 /\ asked[c] \in Nat
          /\ conn' = [conn EXCEPT ![k] = new] /\ new.at = "read"
    BY <2>1
  <2>3. ~(k[2] <= asked[k[1]])
    BY <2>2
  <2>4. conn[k].at = "closed"
    BY <2>3 DEF Shapes
  <2>5. env' = env /\ used' = used /\ ledger' = ledger
    BY <1>10 DEF Ask, fixed, shared
  <2> QED
    BY <1>3, <2>2, <2>4, <2>5
<1>11. ASSUME NEW c \in Conv, RunTools(c) PROVE Spending'
  <2>1. env' = env /\ used' = used /\ ledger' = ledger /\ conn' = conn
    BY <1>11 DEF RunTools, fixed, shared
  <2> QED
    BY <2>1 DEF Spending, Sending, Weights, Size
<1> QED
  BY <1>1, <1>2, <1>4, <1>5, <1>6, <1>7, <1>8, <1>9, <1>10, <1>11, Steps DEF Tasks

\* Whatever the provider replies to the requests that are on their way, all it
\* charges for was reserved before, and the cap holds.
THEOREM SpendingIsReserved == Spec => []SpentWasReserved
<1>1. ASSUME Shapes, Spending PROVE SpentWasReserved
  <2> SUFFICES ASSUME env.budget = "valid" PROVE SpentWasReserved
    BY DEF SpentWasReserved
  <2>1. PICK f : /\ \A k \in Sending : conn[k].payload.maxTokens # None
                 /\ ledger <= env.tokenCap /\ Sums(f, Sending, Weights) /\ used + f[Sending] <= ledger
    BY <1>1 DEF Spending
  <2> DEFINE Most(most) ==
        most = [S \in SUBSET Sending |->
                  IF S = {} THEN 0
                  ELSE LET k == CHOOSE k \in S : TRUE
                       IN Size(conn[k].payload) + conn[k].payload.maxTokens[1] + most[S \ {k}]]
      chosen == CHOOSE most : Most(most)
  <2>2. ASSUME NEW most PROVE Most(most) <=> Sums(most, Sending, Weights)
    <3>1. \A S \in SUBSET Sending : S # {} =>
            Weights[Some(S)] = Size(conn[Some(S)].payload) + conn[Some(S)].payload.maxTokens[1]
      BY DEF Weights, Some
    <3> QED
      BY <3>1 DEF Sums, Some
  <2> HIDE DEF Most
  <2>3. Most(chosen)
    BY <2>1, <2>2
  <2>4. Sums(chosen, Sending, Weights)
    BY <2>2, <2>3
  <2> HIDE DEF chosen
  <2>5. IsFiniteSet(Sending)
    BY <1>1, <2>1, WeightsTyped
  <2>6. chosen[Sending] = f[Sending]
    BY <2>1, <2>4, <2>5, SumsAgree
  <2>7. used + chosen[Sending] <= ledger
    BY <2>1, <2>6
  <2> QED
    BY <2>1, <2>7 DEF SpentWasReserved, chosen, Most, Sending
<1> QED
  BY <1>1, ShapesInit, ShapesStep, SpendingInit, SpendingStep, PTL DEF Spec

-----------------------------------------------------------------------------
(* What the messages tell                                                  *)

LEMMA FlattenSingles ==
  ASSUME NEW g, IsSeq(g) PROVE FlattenSeq([i \in DOMAIN g |-> <<g[i]>>]) = g
<1> DEFINE s == [i \in DOMAIN g |-> i]
           h == [i \in DOMAIN g |-> <<g[i]>>]
<1>1. DOMAIN s = DOMAIN g /\ s = [i \in DOMAIN s |-> s[i]] /\ \A i \in DOMAIN g : s[i] = i
  OBVIOUS
<1>2. \A i \in DOMAIN g : h[i] = <<g[i]>>
  OBVIOUS
<1>3. Mapped(h, s) = [i \in DOMAIN g |-> <<g[i]>>]
  BY DEF Mapped
<1> HIDE DEF s, h
<1>4. IsSeq(s) /\ ToSet(s) \subseteq DOMAIN g
  BY <1>1, SameDomain DEF ToSet
<1>5. \A x \in ToSet(s) : h[x] = <<g[x]>>
  BY <1>2, <1>4
<1>6. Each(h, s) = Mapped(g, s)
  BY <1>4, <1>5, EachSingle
<1>7. Mapped(g, s) = g
  <2>1. Mapped(g, s) = [i \in DOMAIN g |-> g[i]]
    BY <1>1 DEF Mapped
  <2> QED
    BY <2>1, IsSeqProperties
<1> QED
  BY <1>3, <1>6, <1>7 DEF Each

\* What is told of a message: the host's are left out.
Shown(m) == m.role # "system" /\ ~(m.role = "assistant" /\ m.text = <<>> /\ m.call = NoCall)
Attached(m, sigs) ==
  IF m.call.id \in DOMAIN sigs THEN [m EXCEPT !.call.sig = sigs[m.call.id]] ELSE m
Tell(m, sigs) == IF Shown(Attached(m, sigs)) THEN <<Attached(m, sigs)>> ELSE <<>>
Shows(messages, sigs) == FlattenSeq([i \in DOMAIN messages |-> Tell(messages[i], sigs)])
Tells(D, sigs) == [m \in D |-> Tell(m, sigs)]

LEMMA ShowsEach ==
  ASSUME NEW messages, IsSeq(messages), NEW sigs, NEW D, ToSet(messages) \subseteq D
  PROVE  /\ Shows(messages, sigs) = Each(Tells(D, sigs), messages)
         /\ Unfolds(Tells(D, sigs), messages)
<1>1. \A i \in DOMAIN messages : messages[i] \in D
  BY DEF ToSet
<1>2. Mapped(Tells(D, sigs), messages) = [i \in DOMAIN messages |-> Tell(messages[i], sigs)]
  BY <1>1 DEF Mapped, Tells
<1>3. \A m \in D : Tells(D, sigs)[m] = Tell(m, sigs) /\ IsSeq(Tell(m, sigs))
  BY OneIsSeq, EmptyIsSeq DEF Tells, Tell
<1> QED
  BY <1>2, <1>3 DEF Each, Shows, Unfolds

LEMMA ShowsConcat ==
  ASSUME NEW a, IsSeq(a), NEW b, IsSeq(b), NEW sigs
  PROVE  Shows(a \o b, sigs) = Shows(a, sigs) \o Shows(b, sigs) /\ IsSeq(a \o b)
<1> DEFINE D == ToSet(a) \cup ToSet(b)
<1>1. IsSeq(a \o b) /\ ToSet(a \o b) \subseteq D /\ ToSet(a) \subseteq D /\ ToSet(b) \subseteq D
  BY ConcatIsSeq
<1> HIDE DEF D
<1>2. /\ Shows(a, sigs) = Each(Tells(D, sigs), a) /\ Unfolds(Tells(D, sigs), a)
      /\ Shows(b, sigs) = Each(Tells(D, sigs), b) /\ Unfolds(Tells(D, sigs), b)
      /\ Shows(a \o b, sigs) = Each(Tells(D, sigs), a \o b)
  BY <1>1, ShowsEach
<1>3. Each(Tells(D, sigs), a \o b) = Each(Tells(D, sigs), a) \o Each(Tells(D, sigs), b)
  BY <1>2, EachConcat
<1> QED
  BY <1>1, <1>2, <1>3

LEMMA ShowsIsSeq == ASSUME NEW a, IsSeq(a), NEW sigs PROVE IsSeq(Shows(a, sigs))
<1>1. Shows(a, sigs) = Each(Tells(ToSet(a), sigs), a) /\ Unfolds(Tells(ToSet(a), sigs), a)
  BY ShowsEach
<1> QED
  BY <1>1, EachIsSeq

LEMMA ShowsFew ==
  ASSUME NEW sigs
  PROVE  Shows(<<>>, sigs) = <<>> /\ \A m : Shows(<<m>>, sigs) = Tell(m, sigs)
<1>1. Shows(<<>>, sigs) = <<>>
  <2>1. Shows(<<>>, sigs) = Each(Tells({}, sigs), <<>>)
    BY EmptyIsSeq, ShowsEach
  <2> QED
    BY <2>1, EachEmpty
<1>2. ASSUME NEW m PROVE Shows(<<m>>, sigs) = Tell(m, sigs)
  <2>1. Shows(<<m>>, sigs) = Each(Tells({m}, sigs), <<m>>)
    BY OneIsSeq, ShowsEach
  <2>2. Tells({m}, sigs)[m] = Tell(m, sigs) /\ IsSeq(Tell(m, sigs))
    BY OneIsSeq, EmptyIsSeq DEF Tells, Tell
  <2> QED
    BY <2>1, <2>2, EachOne
<1> QED
  BY <1>1, <1>2

\* The host's messages tell nothing of the conversation.
LEMMA ShowsHosted ==
  ASSUME NEW s, Hosted(s), NEW sigs, None \notin DOMAIN sigs PROVE Shows(s, sigs) = <<>>
<1>1. ASSUME NEW text PROVE Tell(Said("system", text), sigs) = <<>>
  <2>1. Said("system", text).role = "system" /\ Said("system", text).call.id = None
    BY DEF Said, Chat, NoCall, Call
  <2> QED
    BY <2>1 DEF Tell, Attached, Shown
<1> QED
  BY <1>1, ShowsFew DEF Hosted

\* What is told of an item of a transcript.
Says(item, sigs) == Shows(ChatMessages(item), sigs)
Telling(transcript, sigs) == FlattenSeq([i \in DOMAIN transcript |-> Says(transcript[i], sigs)])
Saying(D, sigs) == [x \in D |-> Says(x, sigs)]

LEMMA TellingEach ==
  ASSUME NEW transcript, IsSeq(transcript), NEW sigs, NEW D, ToSet(transcript) \subseteq D
  PROVE  /\ Telling(transcript, sigs) = Each(Saying(D, sigs), transcript)
         /\ Unfolds(Saying(D, sigs), transcript)
<1>1. \A i \in DOMAIN transcript : transcript[i] \in D
  BY DEF ToSet
<1>2. Mapped(Saying(D, sigs), transcript) = [i \in DOMAIN transcript |-> Says(transcript[i], sigs)]
  BY <1>1 DEF Mapped, Saying
<1>3. \A x \in D : Saying(D, sigs)[x] = Says(x, sigs) /\ IsSeq(Says(x, sigs))
  BY ChatMessagesIsSeq, ShowsIsSeq DEF Saying, Says
<1> QED
  BY <1>2, <1>3 DEF Each, Telling, Unfolds

LEMMA TellingConcat ==
  ASSUME NEW a, IsSeq(a), NEW b, IsSeq(b), NEW sigs
  PROVE  Telling(a \o b, sigs) = Telling(a, sigs) \o Telling(b, sigs)
<1> DEFINE D == ToSet(a) \cup ToSet(b)
<1>1. IsSeq(a \o b) /\ ToSet(a \o b) \subseteq D /\ ToSet(a) \subseteq D /\ ToSet(b) \subseteq D
  BY ConcatIsSeq
<1> HIDE DEF D
<1>2. /\ Telling(a, sigs) = Each(Saying(D, sigs), a) /\ Unfolds(Saying(D, sigs), a)
      /\ Telling(b, sigs) = Each(Saying(D, sigs), b) /\ Unfolds(Saying(D, sigs), b)
      /\ Telling(a \o b, sigs) = Each(Saying(D, sigs), a \o b)
  BY <1>1, TellingEach
<1>3. Each(Saying(D, sigs), a \o b) = Each(Saying(D, sigs), a) \o Each(Saying(D, sigs), b)
  BY <1>2, EachConcat
<1> QED
  BY <1>2, <1>3

LEMMA TellingAgrees ==
  ASSUME NEW t, NEW sigs, NEW other, \A x \in ToSet(t) : Says(x, other) = Says(x, sigs)
  PROVE  Telling(t, other) = Telling(t, sigs)
BY DEF Telling, ToSet

\* Of items that each say a message.
LEMMA TellingSingles ==
  ASSUME NEW t, NEW g, IsSeq(g), DOMAIN t = DOMAIN g, NEW sigs, \A i \in DOMAIN g : Says(t[i], sigs) = <<g[i]>>
  PROVE  Telling(t, sigs) = g
<1>1. [i \in DOMAIN t |-> Says(t[i], sigs)] = [i \in DOMAIN g |-> <<g[i]>>]
  OBVIOUS
<1> QED
  BY <1>1, FlattenSingles DEF Telling

\* The messages made of a transcript tell what its items say.
LEMMA ChatsTell ==
  ASSUME NEW t, IsSeq(t), NEW sigs PROVE Shows(Chats(t), sigs) = Telling(t, sigs)
<1> DEFINE s == [i \in DOMAIN t |-> ChatMessages(t[i])]
<1>1. IsSeqs(s) /\ DOMAIN s = DOMAIN t /\ \A i \in DOMAIN t : s[i] = ChatMessages(t[i])
  BY ChatsIsSeq
<1> HIDE DEF s
<1>2. PICK T : s \in Seq(Seq(T)) /\ FlattenSeq(s) \in Seq(T)
  BY <1>1, FlattenTyped
<1> DEFINE h == Tells(T, sigs)
<1>3. \A x \in T : IsSeq(h[x])
  BY OneIsSeq, EmptyIsSeq DEF Tells, Tell
<1>4. IsSeq(FlattenSeq(s)) /\ ToSet(FlattenSeq(s)) \subseteq T
  BY <1>2, SeqIsSeq
<1>5. Shows(FlattenSeq(s), sigs) = Each(h, FlattenSeq(s))
  BY <1>4, ShowsEach
<1>6. ASSUME NEW i \in DOMAIN t PROVE Each(h, s[i]) = Says(t[i], sigs)
  <2>1. s[i] \in Seq(T)
    BY <1>1, <1>2, SeqIsSeq
  <2>2. IsSeq(s[i]) /\ ToSet(s[i]) \subseteq T
    BY <2>1, SeqIsSeq
  <2>3. Shows(s[i], sigs) = Each(h, s[i])
    BY <2>2, ShowsEach
  <2> QED
    BY <1>1, <2>3 DEF Says
<1> HIDE DEF h
<1>7. Each(h, FlattenSeq(s)) = FlattenSeq([i \in DOMAIN s |-> Each(h, s[i])])
  BY <1>2, <1>3, EachFlatten
<1>8. [i \in DOMAIN s |-> Each(h, s[i])] = [i \in DOMAIN t |-> Says(t[i], sigs)]
  BY <1>1, <1>6
<1> QED
  BY <1>5, <1>7, <1>8 DEF Chats, Telling, s

\* What a payload says of the conversation is what its transcript does.
LEMMA PayloadTells ==
  ASSUME NEW t, IsSeq(t), NEW sigs, None \notin DOMAIN sigs, NEW a, NEW b, NEW c, Hosted(a), Hosted(b), Hosted(c),
         NEW p, p.messages = Reattached(a \o ((b \o Chats(t)) \o c), sigs)
  PROVE  Conversation(p) = Telling(t, sigs)
<1> DEFINE X == a \o ((b \o Chats(t)) \o c)
<1>1. IsSeq(a) /\ IsSeq(b) /\ IsSeq(c) /\ IsSeq(Chats(t))
  BY HostedIsSeq, ChatsIsSeq
<1>2. Shows(b \o Chats(t), sigs) = Shows(b, sigs) \o Shows(Chats(t), sigs) /\ IsSeq(b \o Chats(t))
  BY <1>1, ShowsConcat
<1>3. /\ Shows((b \o Chats(t)) \o c, sigs) = Shows(b \o Chats(t), sigs) \o Shows(c, sigs)
      /\ IsSeq((b \o Chats(t)) \o c)
  BY <1>1, <1>2, ShowsConcat
<1>4. Shows(X, sigs) = Shows(a, sigs) \o Shows((b \o Chats(t)) \o c, sigs) /\ IsSeq(X)
  <2> DEFINE Y == (b \o Chats(t)) \o c
  <2>1. IsSeq(Y)
    BY <1>3
  <2> HIDE DEF Y
  <2>2. Shows(a \o Y, sigs) = Shows(a, sigs) \o Shows(Y, sigs) /\ IsSeq(a \o Y)
    BY <1>1, <2>1, ShowsConcat
  <2> QED
    BY <2>2 DEF Y
<1>5. Shows(a, sigs) = <<>> /\ Shows(b, sigs) = <<>> /\ Shows(c, sigs) = <<>>
  BY ShowsHosted
<1>6. IsSeq(Shows(Chats(t), sigs))
  BY <1>1, ShowsIsSeq
<1>7. Shows(X, sigs) = Shows(Chats(t), sigs)
  <2> DEFINE C == Shows(Chats(t), sigs)
  <2>1. Shows(X, sigs) = <<>> \o ((<<>> \o C) \o <<>>)
    BY <1>2, <1>3, <1>4, <1>5
  <2>2. <<>> \o C = C /\ C \o <<>> = C
    <3>1. IsSeq(C)
      BY <1>6
    <3> HIDE DEF C
    <3> QED
      BY <3>1, EmptyConcat
  <2> QED
    BY <2>1, <2>2
<1> HIDE DEF X
<1>8. Conversation(p) = Shows(X, sigs)
  <2>1. p.messages = [i \in DOMAIN X |-> Attached(X[i], sigs)]
    BY DEF X, Reattached, Attached
  <2>2. DOMAIN p.messages = DOMAIN X /\ \A i \in DOMAIN X : p.messages[i] = Attached(X[i], sigs)
    BY <2>1
  <2>3. Conversation(p) = FlattenSeq([i \in DOMAIN p.messages |-> IF Shown(p.messages[i]) THEN <<p.messages[i]>> ELSE <<>>])
    BY DEF Conversation, Those, Shown
  <2>4. [i \in DOMAIN p.messages |-> IF Shown(p.messages[i]) THEN <<p.messages[i]>> ELSE <<>>]
        = [i \in DOMAIN X |-> Tell(X[i], sigs)]
    BY <2>2 DEF Tell
  <2> QED
    BY <2>3, <2>4 DEF Shows
<1> QED
  BY <1>7, <1>8, ChatsTell

LEMMA SaysOfPrompt ==
  ASSUME NEW x, NEW sigs, None \notin DOMAIN sigs,
         \/ x.kind \notin {"message", "function_call", "function_call_output"}
         \/ x.kind = "message" /\ x.role \in {"user", "developer", "system"}
  PROVE  Says(x, sigs) =
           IF x.kind = "text" \/ (x.kind = "message" /\ x.role = "user")
           THEN <<Said("user", IF x.kind = "text" THEN x.text ELSE FlattenSeq(x.parts))>> ELSE <<>>
<1>1. ASSUME NEW text PROVE Tell(Said("user", text), sigs) = <<Said("user", text)>>
  <2>1. Said("user", text).role = "user" /\ Said("user", text).call.id = None
    BY DEF Said, Chat, NoCall, Call
  <2> QED
    BY <2>1 DEF Tell, Attached, Shown
<1>2. ASSUME NEW text PROVE Tell(Said("system", text), sigs) = <<>>
  <2>1. Said("system", text).role = "system" /\ Said("system", text).call.id = None
    BY DEF Said, Chat, NoCall, Call
  <2> QED
    BY <2>1 DEF Tell, Attached, Shown
<1>3. CASE x.kind = "text"
  <2>1. ChatMessages(x) = <<Said("user", x.text)>>
    BY <1>3 DEF ChatMessages
  <2> QED
    BY <1>1, <1>3, <2>1, ShowsFew DEF Says
<1>4. CASE x.kind = "message"
  <2>1. ChatMessages(x) = <<Said(ChatRole(x.role), FlattenSeq(x.parts))>>
    BY <1>4 DEF ChatMessages
  <2>2. ChatRole(x.role) = IF x.role = "user" THEN "user" ELSE "system"
    BY <1>4 DEF ChatRole
  <2>3. CASE x.role = "user"
    BY <1>1, <1>4, <2>1, <2>2, <2>3, ShowsFew DEF Says
  <2>4. CASE x.role # "user"
    BY <1>2, <1>4, <2>1, <2>2, <2>4, ShowsFew DEF Says
  <2> QED
    BY <2>3, <2>4
<1>5. CASE x.kind \notin {"text", "message", "function_call", "function_call_output"}
  <2>1. ChatMessages(x) = <<>>
    BY <1>5 DEF ChatMessages
  <2> QED
    BY <1>5, <2>1, ShowsFew DEF Says
<1> QED
  BY <1>3, <1>4, <1>5

LEMMA SaysOfSpeech ==
  ASSUME NEW text, IsSeq(text), NEW sigs, None \notin DOMAIN sigs
  PROVE  Says(Message("assistant", <<text>>), sigs) =
           IF text = <<>> THEN <<>> ELSE <<Said("assistant", text)>>
<1> DEFINE m == Said("assistant", text)
<1>1. ChatMessages(Message("assistant", <<text>>)) = <<m>>
  <2>1. FlattenSeq(<<text>>) = text
    BY FlattenOne
  <2>2. Message("assistant", <<text>>).kind = "message" /\ Message("assistant", <<text>>).role = "assistant"
        /\ Message("assistant", <<text>>).parts = <<text>>
    BY DEF Message
  <2>3. ChatRole("assistant") = "assistant"
    BY DEF ChatRole
  <2> QED
    BY <2>1, <2>2, <2>3 DEF ChatMessages
<1>2. m.role = "assistant" /\ m.text = text /\ m.call = NoCall /\ m.call.id = None
  BY DEF Said, Chat, NoCall, Call
<1> HIDE DEF m
<1>3. Attached(m, sigs) = m
  BY <1>2 DEF Attached
<1>4. Tell(m, sigs) = IF text = <<>> THEN <<>> ELSE <<m>>
  BY <1>2, <1>3 DEF Tell, Shown
<1> QED
  BY <1>1, <1>4, ShowsFew DEF Says, m

LEMMA SaysOfCall ==
  ASSUME NEW id, id # None, NEW ns, NEW name, NEW args, NEW sigs
  PROVE  Says(FunctionCall(id, ns, name, args), sigs) =
           <<Called(Call(id, ns \o name, args, IF id \in DOMAIN sigs THEN sigs[id] ELSE None))>>
<1> DEFINE x == FunctionCall(id, ns, name, args)
           full == ns \o name
           m == Called(Call(id, full, args, None))
           sig == IF id \in DOMAIN sigs THEN sigs[id] ELSE None
           n == Called(Call(id, full, args, sig))
<1>1. ChatMessages(x) = <<m>>
  BY DEF ChatMessages, FunctionCall
<1> HIDE DEF x, full
<1>2. Attached(m, sigs) = n
  <2>1. CASE id \in DOMAIN sigs
    BY <2>1 DEF Attached, Called, Chat, Call
  <2>2. CASE id \notin DOMAIN sigs
    BY <2>2 DEF Attached, Called, Chat, Call
  <2> QED
    BY <2>1, <2>2
<1>3. n.role # "system" /\ n.call # NoCall
  BY DEF Called, Chat, Call, NoCall
<1> HIDE DEF m, n
<1>4. Tell(m, sigs) = <<n>>
  BY <1>2, <1>3 DEF Tell, Shown
<1> QED
  BY <1>1, <1>4, ShowsFew DEF Says, x, n, full

LEMMA SaysOfOutput ==
  ASSUME NEW id, NEW output, NEW sigs, None \notin DOMAIN sigs
  PROVE  Says(FunctionCallOutput(id, output), sigs) = <<Result(id, output)>>
<1> DEFINE m == Result(id, output)
<1>1. ChatMessages(FunctionCallOutput(id, output)) = <<m>>
  BY DEF ChatMessages, FunctionCallOutput
<1>2. m.role = "tool" /\ m.call.id = None
  BY DEF Result, Chat, NoCall, Call
<1> HIDE DEF m
<1>3. Tell(m, sigs) = <<m>>
  BY <1>2 DEF Tell, Attached, Shown
<1> QED
  BY <1>1, <1>3, ShowsFew DEF Says, m

\* Only of a call does what an item says depend on the signatures.
LEMMA SaysAgrees ==
  ASSUME NEW x, NEW sigs, NEW other, None \notin DOMAIN sigs, None \notin DOMAIN other,
         x.kind = "function_call" =>
           /\ x.id \in DOMAIN other <=> x.id \in DOMAIN sigs
           /\ x.id \in DOMAIN sigs => other[x.id] = sigs[x.id]
  PROVE  Says(x, other) = Says(x, sigs)
<1>1. ASSUME NEW m, m.call.id = None PROVE Tell(m, other) = Tell(m, sigs)
  BY <1>1 DEF Tell, Attached
<1>2. CASE ChatMessages(x) = <<>>
  BY <1>2, ShowsFew DEF Says
<1>3. CASE x.kind = "function_call"
  <2> DEFINE m == Called(Call(x.id, x.ns \o x.name, x.args, None))
  <2>1. ChatMessages(x) = <<m>>
    BY <1>3 DEF ChatMessages
  <2>2. m.call.id = x.id
    BY DEF Called, Chat, Call
  <2> HIDE DEF m
  <2>3. Attached(m, other) = Attached(m, sigs)
    BY <1>3, <2>2 DEF Attached
  <2>4. Tell(m, other) = Tell(m, sigs)
    BY <2>3 DEF Tell
  <2> QED
    BY <2>1, <2>4, ShowsFew DEF Says
<1>4. ASSUME x.kind # "function_call", ChatMessages(x) # <<>> PROVE Says(x, other) = Says(x, sigs)
  <2>1. \E m : ChatMessages(x) = <<m>> /\ m.call.id = None
    BY <1>4 DEF ChatMessages, Said, Result, Chat, NoCall, Call
  <2>2. PICK m : ChatMessages(x) = <<m>> /\ m.call.id = None
    BY <2>1
  <2> QED
    BY <1>1, <2>2, ShowsFew DEF Says
<1> QED
  BY <1>2, <1>3, <1>4

LEMMA MappedFew ==
  ASSUME NEW g PROVE Mapped(g, <<>>) = <<>> /\ \A e : Mapped(g, <<e>>) = <<g[e]>>
<1>1. Mapped(g, <<>>) = <<>>
  <2>1. IsSeq(Mapped(g, <<>>)) /\ Len(Mapped(g, <<>>)) = Len(<<>>)
    BY EmptyIsSeq, MappedIsSeq
  <2> QED
    BY <2>1, EmptySeq DEF IsSeq
<1>2. ASSUME NEW e PROVE Mapped(g, <<e>>) = <<g[e]>>
  <2>1. IsSeq(<<e>>) /\ Len(<<e>>) = 1 /\ DOMAIN <<e>> = 1 .. 1 /\ <<e>>[1] = e
    BY OneIsSeq
  <2>2. IsSeq(Mapped(g, <<e>>)) /\ Len(Mapped(g, <<e>>)) = 1 /\ Mapped(g, <<e>>)[1] = g[e]
    BY <2>1, MappedIsSeq
  <2>3. IsSeq(<<g[e]>>) /\ Len(<<g[e]>>) = 1 /\ <<g[e]>>[1] = g[e]
    BY OneIsSeq
  <2> QED
    BY <2>2, <2>3, SameSeq
<1> QED
  BY <1>1, <1>2

LEMMA EachKept ==
  ASSUME NEW P, NEW g, NEW h, NEW t, IsSeq(t), ToSet(t) \subseteq DOMAIN P,
         \A x \in ToSet(t) : h[x] = IF P[x] THEN <<g[x]>> ELSE <<>>
  PROVE  Each(h, t) = Mapped(g, Each(Kept(P), t))
<1> DEFINE T == ToSet(t)
           k == Kept(P)
           S == {r \in Seq(T) : Each(h, r) = Mapped(g, Each(k, r))}
<1>1. \A x \in T : /\ h[x] = IF P[x] THEN <<g[x]>> ELSE <<>>
                   /\ k[x] = IF P[x] THEN <<x>> ELSE <<>>
                   /\ IsSeq(h[x]) /\ IsSeq(k[x])
  BY OneIsSeq, EmptyIsSeq DEF Kept
<1>2. \A x \in T : h[x] = Mapped(g, k[x])
  BY <1>1, MappedFew
<1>3. t \in Seq(T)
  BY DEF IsSeq
<1> HIDE DEF T, k
<1>4. <<>> \in S
  <2>1. <<>> \in Seq(T)
    BY EmptySeq
  <2> QED
    BY <2>1, EachEmpty, MappedFew
<1>5. ASSUME NEW r \in Seq(T), NEW e \in T, r \in S PROVE Append(r, e) \in S
  <2>1. Append(r, e) \in Seq(T) /\ Append(r, e) = r \o <<e>>
    BY AppendProperties, AppendIsConcat
  <2>2. IsSeq(r) /\ ToSet(r) \subseteq T /\ IsSeq(<<e>>) /\ ToSet(<<e>>) = {e}
    BY SeqIsSeq, OneIsSeq
  <2>3. Unfolds(h, r) /\ Unfolds(h, <<e>>) /\ Unfolds(k, r) /\ Unfolds(k, <<e>>)
    BY <1>1, <2>2 DEF Unfolds
  <2>4. Each(h, r \o <<e>>) = Each(h, r) \o Each(h, <<e>>)
    BY <2>2, <2>3, EachConcat
  <2>5. Each(k, r \o <<e>>) = Each(k, r) \o Each(k, <<e>>)
    BY <2>2, <2>3, EachConcat
  <2>6. Each(h, <<e>>) = h[e] /\ Each(k, <<e>>) = k[e]
    BY <1>1, EachOne
  <2>7. IsSeq(Each(k, r)) /\ IsSeq(k[e])
    BY <1>1, <2>2, <2>3, EachIsSeq
  <2>8. Mapped(g, Each(k, r) \o k[e]) = Mapped(g, Each(k, r)) \o Mapped(g, k[e])
    BY <2>7, MappedConcat
  <2> QED
    BY <1>2, <1>5, <2>1, <2>4, <2>5, <2>6, <2>8
<1> HIDE DEF S
<1>6. t \in S
  BY <1>3, <1>4, <1>5, AllSeqs
<1> QED
  BY <1>6 DEF S, k

\* A prompt says what the users said.
LEMMA PromptTells ==
  ASSUME NEW t, IsSeq(t), NEW sigs, None \notin DOMAIN sigs,
         \A x \in ToSet(t) :
           \/ x.kind \notin {"message", "function_call", "function_call_output"}
           \/ x.kind = "message" /\ x.role \in {"user", "developer", "system"}
  PROVE  Telling(t, sigs) = Spoken(t)
<1> DEFINE T == ToSet(t)
           P == [x \in T |-> x.kind = "text" \/ (x.kind = "message" /\ x.role = "user")]
           g == [x \in T |-> Said("user", IF x.kind = "text" THEN x.text ELSE FlattenSeq(x.parts))]
           h == Saying(T, sigs)
           mine == Each(Kept(P), t)
<1>1. Telling(t, sigs) = Each(h, t)
  BY TellingEach
<1>2. \A x \in T : h[x] = IF P[x] THEN <<g[x]>> ELSE <<>>
  <2>1. ASSUME NEW x \in T PROVE h[x] = IF P[x] THEN <<g[x]>> ELSE <<>>
    <3>1. h[x] = Says(x, sigs)
      BY DEF Saying
    <3> QED
      BY <3>1, SaysOfPrompt
  <2> QED
    BY <2>1
<1>3. DOMAIN P = T
  OBVIOUS
<1>4. Spoken(t) = [i \in DOMAIN mine |-> Said("user", IF mine[i].kind = "text" THEN mine[i].text ELSE FlattenSeq(mine[i].parts))]
  <2>1. Those(t, LAMBDA i : i.kind = "text" \/ (i.kind = "message" /\ i.role = "user")) = mine
    <3>1. Mapped(Kept(P), t) = [i \in DOMAIN t |-> IF P[t[i]] THEN <<t[i]>> ELSE <<>>]
      BY DEF Mapped, Kept, ToSet
    <3>2. \A i \in DOMAIN t : P[t[i]] = (t[i].kind = "text" \/ (t[i].kind = "message" /\ t[i].role = "user"))
      BY DEF ToSet
    <3> HIDE DEF P
    <3> QED
      BY <3>1, <3>2 DEF Those, Each
  <2> HIDE DEF mine
  <2> QED
    BY <2>1 DEF Spoken
<1>5. IsSeq(mine) /\ ToSet(mine) \subseteq T
  <2> HIDE DEF P
  <2>1. ToSet(mine) \subseteq {x \in T : P[x]} /\ IsSeq(mine)
    BY <1>3, KeptUnfolds
  <2> QED
    BY <2>1
<1>6. Spoken(t) = Mapped(g, mine)
  <2>1. \A i \in DOMAIN mine : mine[i] \in T
    BY <1>5 DEF ToSet
  <2> HIDE DEF mine
  <2>2. \A i \in DOMAIN mine : g[mine[i]] = Said("user", IF mine[i].kind = "text" THEN mine[i].text ELSE FlattenSeq(mine[i].parts))
    BY <2>1
  <2> HIDE DEF g
  <2> QED
    BY <1>4, <2>2 DEF Mapped
<1> HIDE DEF P, g, h
<1>7. Each(h, t) = Mapped(g, mine)
  BY <1>2, <1>3, EachKept
<1> QED
  BY <1>1, <1>6, <1>7

\* The name of a call is put together again.
LEMMA NameIsSplit ==
  ASSUME NEW full, IsSeq(full) PROVE NameOf(full).ns \o NameOf(full).name = full
<1>1. full \in Seq(ToSet(full)) /\ Len(full) \in Nat
  BY IsSeqProperties DEF IsSeq
<1>2. CASE Len(full) > 1
  <2>1. NameOf(full).ns = <<full[1]>> /\ NameOf(full).name = Tail(full)
    BY <1>2 DEF NameOf
  <2>2. full # <<>>
    BY <1>2
  <2>3. <<Head(full)>> \o Tail(full) = full /\ Head(full) = full[1]
    <3>1. Tail(full) \in Seq(ToSet(full)) /\ Len(Tail(full)) = Len(full) - 1
          /\ \A i \in 1 .. Len(full) - 1 : Tail(full)[i] = full[i + 1]
      BY <1>1, <2>2, HeadTailProperties
    <3>2. IsSeq(Tail(full)) /\ IsSeq(<<full[1]>>)
      BY <3>1, SeqIsSeq, OneIsSeq
    <3>3. /\ IsSeq(<<full[1]>> \o Tail(full)) /\ Len(<<full[1]>> \o Tail(full)) = 1 + Len(Tail(full))
          /\ \A i \in 1 .. 1 + Len(Tail(full)) :
               (<<full[1]>> \o Tail(full))[i] = IF i <= 1 THEN <<full[1]>>[i] ELSE Tail(full)[i - 1]
      BY <3>2, OneIsSeq, ConcatIsSeq
    <3>4. Len(<<full[1]>> \o Tail(full)) = Len(full)
      BY <1>1, <3>1, <3>3
    <3>5. ASSUME NEW i \in 1 .. Len(full) PROVE (<<full[1]>> \o Tail(full))[i] = full[i]
      <4>1. CASE i = 1
        BY <1>1, <3>1, <3>3, <4>1
      <4>2. CASE i # 1
        <5>1. i - 1 \in 1 .. Len(full) - 1 /\ ~(i <= 1) /\ (i - 1) + 1 = i /\ i \in 1 .. 1 + Len(Tail(full))
          BY <1>1, <3>1, <4>2
        <5> QED
          BY <3>1, <3>3, <5>1
      <4> QED
        BY <4>1, <4>2
    <3>6. <<full[1]>> \o Tail(full) = full
      BY <3>3, <3>4, <3>5, SameSeq
    <3>7. Head(full) = full[1]
      OBVIOUS
    <3> QED
      BY <3>6, <3>7
  <2> QED
    BY <2>1, <2>3
<1>3. CASE ~(Len(full) > 1)
  <2>1. NameOf(full).ns = <<>> /\ NameOf(full).name = full
    BY <1>3 DEF NameOf, None
  <2> QED
    BY <2>1, EmptyConcat
<1> QED
  BY <1>2, <1>3

LEMMA TellingFew ==
  ASSUME NEW sigs
  PROVE  Telling(<<>>, sigs) = <<>> /\ \A x : Telling(<<x>>, sigs) = Says(x, sigs)
<1>1. Telling(<<>>, sigs) = <<>>
  <2>1. Telling(<<>>, sigs) = Each(Saying({}, sigs), <<>>)
    BY EmptyIsSeq, TellingEach
  <2> QED
    BY <2>1, EachEmpty
<1>2. ASSUME NEW x PROVE Telling(<<x>>, sigs) = Says(x, sigs)
  <2>1. Telling(<<x>>, sigs) = Each(Saying({x}, sigs), <<x>>) /\ Unfolds(Saying({x}, sigs), <<x>>)
    BY OneIsSeq, TellingEach
  <2>2. Saying({x}, sigs)[x] = Says(x, sigs)
    BY DEF Saying
  <2>3. IsSeq(Saying({x}, sigs)[x])
    BY <2>1, OneIsSeq DEF Unfolds
  <2> QED
    BY <2>1, <2>2, <2>3, EachOne
<1> QED
  BY <1>1, <1>2

\* A call as codex will send it back is the one that the provider made.
CallTold(call, sigs) ==
  /\ call = Call(call.id, call.name, call.args, call.sig) /\ call.id # None /\ IsSeq(call.name)
  /\ call.sig = IF call.id \in DOMAIN sigs THEN sigs[call.id] ELSE None

LEMMA SaysOfMade ==
  ASSUME NEW call, NEW sigs, CallTold(call, sigs)
  PROVE  Says(CallItem(call), sigs) = <<Called(call)>>
<1> DEFINE ns == NameOf(call.name).ns
           name == NameOf(call.name).name
           id == call.id
           args == call.args
<1>1. CallItem(call) = FunctionCall(id, ns, name, args)
  BY DEF CallItem
<1>2. ns \o name = call.name
  BY NameIsSplit DEF CallTold
<1>3. id # None
  BY DEF CallTold
<1> HIDE DEF ns, name, id, args
<1>4. Says(FunctionCall(id, ns, name, args), sigs)
      = <<Called(Call(id, ns \o name, args, IF id \in DOMAIN sigs THEN sigs[id] ELSE None))>>
  BY <1>3, SaysOfCall
<1>5. call = Call(id, ns \o name, args, IF id \in DOMAIN sigs THEN sigs[id] ELSE None)
  BY <1>2 DEF CallTold, id, args
<1> QED
  BY <1>1, <1>4, <1>5

LEMMA OutputTells ==
  ASSUME NEW reply, ReplyTyped(reply), NEW sigs, None \notin DOMAIN sigs,
         \A i \in DOMAIN reply.calls : CallTold(reply.calls[i], sigs)
  PROVE  Telling(Output(reply), sigs) = Heard(reply)
<1> DEFINE a == IF Speaks(reply) THEN <<Message("assistant", <<reply.text>>)>> ELSE <<>>
           b == [i \in DOMAIN reply.calls |-> CallItem(reply.calls[i])]
           p == IF reply.text = <<>> THEN <<>> ELSE <<Said("assistant", reply.text)>>
           q == [i \in DOMAIN reply.calls |-> Called(reply.calls[i])]
<1>1. Output(reply) = a \o b /\ Heard(reply) = p \o q
  BY DEF Output, Heard
<1>2. Telling(a, sigs) = p
  <2>1. IsSeq(reply.text)
    BY DEF ReplyTyped
  <2>2. CASE Speaks(reply)
    <3> DEFINE text == reply.text
    <3>1. IsSeq(text)
      BY <2>1
    <3> HIDE DEF text
    <3>2. Says(Message("assistant", <<text>>), sigs) = IF text = <<>> THEN <<>> ELSE <<Said("assistant", text)>>
      BY <3>1, SaysOfSpeech
    <3>3. Telling(a, sigs) = Says(Message("assistant", <<reply.text>>), sigs)
      BY <2>2, TellingFew
    <3> QED
      BY <3>2, <3>3 DEF text
  <2>3. CASE ~Speaks(reply)
    <3>1. reply.text = <<>>
      BY <2>3 DEF Speaks
    <3> QED
      BY <2>3, <3>1, TellingFew
  <2> QED
    BY <2>2, <2>3
<1>3. IsSeq(a)
  BY OneIsSeq, EmptyIsSeq
<1>4. /\ IsSeq(reply.calls) /\ DOMAIN b = DOMAIN reply.calls /\ b = [i \in DOMAIN b |-> b[i]]
      /\ DOMAIN q = DOMAIN reply.calls /\ q = [i \in DOMAIN q |-> q[i]]
      /\ \A i \in DOMAIN reply.calls : b[i] = CallItem(reply.calls[i]) /\ q[i] = Called(reply.calls[i])
  BY DEF ReplyTyped
<1> HIDE DEF a, b, p, q
<1>5. IsSeq(b) /\ IsSeq(q)
  BY <1>4, SameDomain
<1>6. \A i \in DOMAIN q : Says(b[i], sigs) = <<q[i]>>
  BY <1>4, SaysOfMade
<1>7. Telling(b, sigs) = q
  BY <1>4, <1>5, <1>6, TellingSingles
<1>8. Telling(a \o b, sigs) = Telling(a, sigs) \o Telling(b, sigs)
  BY <1>3, <1>5, TellingConcat
<1> QED
  BY <1>1, <1>2, <1>7, <1>8

-----------------------------------------------------------------------------
(* Calls and their signatures                                              *)

\* An id that was made for a call of a request that is in one of the places.
Of(k, id) == \E i : id = <<k[1], k[2], i>>
Placed(id, places) == \E k \in Requests : Of(k, id) /\ k[2] <= asked[k[1]] /\ conn[k].at \in places
CallsPast(transcript) == \A x \in ToSet(transcript) : x.kind = "function_call" => Placed(x.id, {"closed"})
CallsNamed(c) == \A x \in ToSet(items[c]) : x.kind = "function_call" => x.ns \o x.name \in Names(c)

CallOf(k, i, call) ==
  /\ call = Call(<<k[1], k[2], i>>, call.name, call.args, call.sig)
  /\ call.sig \in {None, <<k[1], k[2], i>>} /\ IsSeq(call.name) /\ call.name \in Names(k[1])

\* The signatures of the reply are in the map.
Booked(r) == r.at = "build" \/ (r.at = "write" /\ r.events # None)
Fits(k, r, sigs) ==
  /\ r.at \in {"reserve", "send", "harvest", "build"} =>
       r.payload.tools = ChatTools(talk[k[1]].tools, Route.schema)
  /\ r.at = "harvest" \/ Booked(r) => \A i \in DOMAIN r.reply.calls : CallOf(k, i, r.reply.calls[i])
  /\ Booked(r) => \A i \in DOMAIN r.reply.calls :
                    r.reply.calls[i].id \in DOMAIN sigs <=> r.reply.calls[i].sig # None

Signs ==
  /\ \A id \in DOMAIN signatures : signatures[id] = id /\ Placed(id, {"build", "write", "closed"})
  /\ \A k \in Requests : Fits(k, conn[k], signatures) /\ (conn[k].at # "closed" => CallsPast(conn[k].items))
  /\ \A c \in Conv : CallsPast(items[c]) /\ CallsNamed(c)

LEMMA OfOne ==
  ASSUME NEW k \in Requests, NEW j \in Requests, NEW id, Of(k, id), Of(j, id) PROVE j = k
BY RequestsTyped DEF Of

LEMMA NoneUnsigned == ASSUME Signs PROVE None \notin DOMAIN signatures
<1>1. ASSUME NEW k PROVE ~Of(k, None)
  BY DEF Of, None
<1> QED
  BY <1>1 DEF Signs, Placed

LEMMA PlacedStays ==
  ASSUME Shapes, Shapes', NEW k \in Requests, NEW new, conn' = [conn EXCEPT ![k] = new],
         \A c \in Conv : asked[c] <= asked'[c],
         NEW P, k[2] <= asked[k[1]] /\ conn[k].at \in P => new.at \in P,
         NEW id, Placed(id, P)
  PROVE  Placed(id, P)'
<1>1. PICK j \in Requests : Of(j, id) /\ j[2] <= asked[j[1]] /\ conn[j].at \in P
  BY DEF Placed
<1>2. conn'[k] = new /\ \A i \in Requests : i # k => conn'[i] = conn[i]
  BY Moved DEF Shapes
<1>3. conn'[j].at \in P
  BY <1>1, <1>2
<1>4. j[2] <= asked'[j[1]]
  <2>1. j[1] \in Conv /\ j[2] \in Nat
    BY RequestsTyped
  <2>2. asked[j[1]] \in Nat /\ asked'[j[1]] \in Nat /\ asked[j[1]] <= asked'[j[1]]
    BY <2>1 DEF Shapes
  <2> QED
    BY <1>1, <2>1, <2>2
<1>5. Of(j, id)'
  BY <1>1 DEF Of
<1> QED
  BY <1>1, <1>3, <1>4, <1>5 DEF Placed

LEMMA FitsStay ==
  ASSUME NEW k \in Requests, NEW r, NEW sigs, Fits(k, r, sigs), UNCHANGED fixed PROVE Fits(k, r, sigs)'
<1>1. env' = env /\ talk' = talk
  BY DEF fixed
<1>2. Route' = Route
  BY <1>1 DEF Route
<1> QED
  BY <1>1, <1>2 DEF Fits, CallOf, Names

LEMMA SignsInit == Init => Signs
<1> SUFFICES ASSUME Init PROVE Signs
  OBVIOUS
<1>1. DOMAIN signatures = {}
  BY DEF Init
<1>2. \A k \in Requests : conn[k].at = "closed"
  BY DEF Init, Closed
<1>3. \A k \in Requests : Fits(k, conn[k], signatures)
  BY <1>2 DEF Fits, Booked
<1>4. Chosen
  BY DEF Init, Chosen
<1>5. ASSUME NEW c \in Conv PROVE \A x \in ToSet(items[c]) : x.kind # "function_call"
  <2>1. items[c] = talk[c].prompt
    BY DEF Init
  <2>2. \A i \in ToSet(talk[c].prompt) :
              \/ i.kind \notin {"message", "function_call", "function_call_output"}
              \/ i.kind = "message" /\ i.role \in {"user", "developer", "system"}
    BY <1>4, TalkTyped
  <2> QED
    BY <2>1, <2>2
<1>6. \A c \in Conv : CallsPast(items[c]) /\ CallsNamed(c)
  BY <1>5 DEF CallsPast, CallsNamed
<1> QED
  BY <1>1, <1>2, <1>3, <1>6 DEF Signs

\* A task moves that leaves the signatures.
LEMMA SignsMoveOn ==
  ASSUME Shapes, Shapes', Signs, NEW k \in Requests, NEW new, conn' = [conn EXCEPT ![k] = new],
         UNCHANGED <<fixed, signatures, asked>>,
         conn[k].at # "closed", conn[k].at \in {"build", "write"} => new.at \in {"build", "write", "closed"},
         new.at # "closed" => new.items = conn[k].items,
         Fits(k, new, signatures),
         \A c \in Conv : CallsPast(items[c])' /\ CallsNamed(c)'
  PROVE  Signs'
<1>1. conn'[k] = new /\ \A i \in Requests : i # k => conn'[i] = conn[i]
  BY Moved DEF Shapes
<1>2. \A c \in Conv : asked[c] <= asked'[c]
  BY DEF Shapes
<1>3. ASSUME NEW id, Placed(id, {"build", "write", "closed"})
      PROVE  Placed(id, {"build", "write", "closed"})'
  BY <1>2, <1>3, PlacedStays
<1>4. ASSUME NEW id, Placed(id, {"closed"}) PROVE Placed(id, {"closed"})'
  BY <1>2, <1>4, PlacedStays
<1>5. ASSUME NEW t, CallsPast(t) PROVE CallsPast(t)'
  BY <1>4, <1>5 DEF CallsPast
<1>6. \A id \in DOMAIN signatures' : signatures'[id] = id /\ Placed(id, {"build", "write", "closed"})'
  BY <1>3 DEF Signs
<1>7. ASSUME NEW j \in Requests
      PROVE  Fits(j, conn[j], signatures)' /\ (conn'[j].at # "closed" => CallsPast(conn[j].items)')
  <2>1. Fits(j, conn'[j], signatures) /\ (conn'[j].at # "closed" => CallsPast(conn'[j].items))
    <3>1. CASE j = k
      BY <1>1, <3>1 DEF Signs
    <3>2. CASE j # k
      BY <1>1, <3>2 DEF Signs
    <3> QED
      BY <3>1, <3>2
  <2>2. PICK r : r = conn'[j]
    OBVIOUS
  <2>3. PICK sigs : sigs = signatures
    OBVIOUS
  <2>4. Fits(j, r, sigs)'
    BY <2>1, <2>2, <2>3, FitsStay
  <2>5. r.at # "closed" => CallsPast(r.items)'
    BY <1>5, <2>1, <2>2
  <2> QED
    BY <2>2, <2>3, <2>4, <2>5
<1> QED
  BY <1>6, <1>7 DEF Signs

LEMMA PastStays ==
  ASSUME Shapes, Shapes', NEW k \in Requests, NEW new, conn' = [conn EXCEPT ![k] = new],
         \A c \in Conv : asked[c] <= asked'[c],
         k[2] <= asked[k[1]] => conn[k].at # "closed",
         NEW t, CallsPast(t)
  PROVE  CallsPast(t)'
<1>1. ASSUME NEW id, Placed(id, {"closed"}) PROVE Placed(id, {"closed"})'
  BY <1>1, PlacedStays
<1> QED
  BY <1>1 DEF CallsPast

\* A task moves that leaves the transcripts as well.
LEMMA SignsMove ==
  ASSUME Shapes, Shapes', Signs, NEW k \in Requests, NEW new, conn' = [conn EXCEPT ![k] = new],
         UNCHANGED <<fixed, signatures, items, asked>>,
         conn[k].at # "closed", conn[k].at \in {"build", "write"} => new.at \in {"build", "write", "closed"},
         new.at # "closed" => new.items = conn[k].items,
         Fits(k, new, signatures)
  PROVE  Signs'
<1>1. \A c \in Conv : asked[c] <= asked'[c]
  BY DEF Shapes
<1>2. ASSUME NEW t, CallsPast(t) PROVE CallsPast(t)'
  BY <1>1, <1>2, PastStays
<1>3. ASSUME NEW c \in Conv PROVE CallsPast(items[c])' /\ CallsNamed(c)'
  <2>1. PICK t : t = items[c]
    OBVIOUS
  <2>2. CallsPast(t)'
    BY <1>2, <2>1 DEF Signs
  <2>3. CallsNamed(c)'
    BY DEF Signs, CallsNamed, Names, fixed
  <2> QED
    BY <2>1, <2>2, <2>3
<1>4. UNCHANGED <<fixed, signatures, asked>>
  OBVIOUS
<1> QED
  BY <1>3, <1>4, SignsMoveOn

LEMMA RepliesFit ==
  ASSUME Shapes, Signs, NEW k \in Requests, UpstreamReplies(k)
  PROVE  \E new : /\ conn' = [conn EXCEPT ![k] = new] /\ conn[k].at = "send" /\ new.at = "harvest"
                  /\ new.items = conn[k].items /\ new.truth = conn[k].truth /\ new.payload = conn[k].payload
                  /\ Fits(k, new, signatures)
<1>1. PICK new : \E r \in talk[k[1]].replies :
           /\ conn' = [conn EXCEPT ![k] = new]
           /\ conn[k].at = "send" /\ new.at = "harvest"
           /\ new.items = conn[k].items /\ new.truth = conn[k].truth
           /\ new.payload = conn[k].payload
           /\ DOMAIN new.reply.calls = DOMAIN r.calls
           /\ \A i \in DOMAIN r.calls :
                new.reply.calls[i] = Call(<<k[1], k[2], i>>, Offered(k, r.calls[i].tool), r.calls[i].args,
                                          IF r.calls[i].signed THEN <<k[1], k[2], i>> ELSE None)
  BY RepliesDo
<1>2. PICK r \in talk[k[1]].replies :
           /\ DOMAIN new.reply.calls = DOMAIN r.calls
           /\ \A i \in DOMAIN r.calls :
                new.reply.calls[i] = Call(<<k[1], k[2], i>>, Offered(k, r.calls[i].tool), r.calls[i].args,
                                          IF r.calls[i].signed THEN <<k[1], k[2], i>> ELSE None)
  BY <1>1
<1>3. /\ conn' = [conn EXCEPT ![k] = new]
      /\ conn[k].at = "send" /\ new.at = "harvest"
      /\ new.items = conn[k].items /\ new.truth = conn[k].truth
      /\ new.payload = conn[k].payload
  BY <1>1
<1>4. new.payload.tools = ChatTools(talk[k[1]].tools, Route.schema)
  BY <1>3 DEF Signs, Fits
<1> DEFINE tools == talk[k[1]].tools
           strict == Route.schema
<1>5. /\ IsSeq(tools) /\ \A tool \in ToSet(tools) : IsSeq(tool.name)
      /\ \A call \in ToSet(r.calls) : call.tool \in DOMAIN Those(tools, IsFunction)
  BY RequestsTyped, TalkTyped, <1>2 DEF Shapes
<1>6. ASSUME NEW i \in DOMAIN r.calls
      PROVE  IsSeq(Offered(k, r.calls[i].tool)) /\ Offered(k, r.calls[i].tool) \in Names(k[1])
  <2> DEFINE n == r.calls[i].tool
  <2>1. r.calls[i] \in ToSet(r.calls)
    BY DEF ToSet
  <2>2. n \in DOMAIN Those(tools, IsFunction)
    BY <1>5, <2>1
  <2>3. Offered(k, n) = ChatTools(tools, strict)[n].name
    BY <1>3, <1>4 DEF Offered
  <2>4. Names(k[1]) = {tool.name : tool \in ToSet(tools)}
    BY DEF Names
  <2> HIDE DEF tools, strict, n
  <2>5. ChatTools(tools, strict)[n].name \in {tool.name : tool \in ToSet(tools)}
    BY <1>5, <2>2, ToolsOffered
  <2>6. IsSeq(ChatTools(tools, strict)[n].name)
    BY <1>5, <2>5
  <2>7. IsSeq(Offered(k, n)) /\ Offered(k, n) \in Names(k[1])
    BY <2>3, <2>4, <2>5, <2>6
  <2> QED
    BY <2>7 DEF n
<1>7. ASSUME NEW i \in DOMAIN new.reply.calls PROVE CallOf(k, i, new.reply.calls[i])
  <2> DEFINE id == <<k[1], k[2], i>>
             name == Offered(k, r.calls[i].tool)
             args == r.calls[i].args
             sig == IF r.calls[i].signed THEN <<k[1], k[2], i>> ELSE None
             call == new.reply.calls[i]
  <2>1. i \in DOMAIN r.calls /\ call = Call(id, name, args, sig)
    BY <1>2
  <2>2. IsSeq(name) /\ name \in Names(k[1])
    BY <1>6, <2>1
  <2>3. sig \in {None, id}
    OBVIOUS
  <2> HIDE DEF name, args, sig, call
  <2>4. call.name = name /\ call.args = args /\ call.sig = sig
    BY <2>1 DEF Call
  <2>5. CallOf(k, i, call)
    BY <2>1, <2>2, <2>3, <2>4 DEF CallOf
  <2> QED
    BY <2>5 DEF call
<1>8. Fits(k, new, signatures)
  BY <1>3, <1>4, <1>7 DEF Fits, Booked
<1> QED
  BY <1>3, <1>8

\* The map has the signatures of the calls after its harvest, and those it had.
LEMMA HarvestSigns ==
  ASSUME NEW k \in Requests, NEW calls, IsSeq(calls), \A i \in DOMAIN calls : CallOf(k, i, calls[i]),
         NEW sigs, \A id \in DOMAIN sigs : sigs[id] = id
  PROVE  /\ DOMAIN Harvested(sigs, calls) = DOMAIN sigs \cup Signed(calls)
         /\ \A id \in DOMAIN Harvested(sigs, calls) : Harvested(sigs, calls)[id] = id
         /\ \A id \in Signed(calls) : Of(k, id)
         /\ \A i \in DOMAIN calls : calls[i].sig # None <=> calls[i].id \in Signed(calls)
<1>1. \A i \in DOMAIN calls : /\ calls[i].id = <<k[1], k[2], i>>
                              /\ calls[i].sig # None => calls[i].sig = <<k[1], k[2], i>>
  <2>1. ASSUME NEW i \in DOMAIN calls
        PROVE  calls[i].id = <<k[1], k[2], i>> /\ (calls[i].sig # None => calls[i].sig = <<k[1], k[2], i>>)
    <3> DEFINE call == calls[i]
               id == <<k[1], k[2], i>>
    <3>1. call = Call(id, call.name, call.args, call.sig) /\ call.sig \in {None, id}
      BY DEF CallOf
    <3> HIDE DEF call, id
    <3>2. call.id = id
      BY <3>1 DEF Call
    <3> QED
      BY <3>1, <3>2 DEF call, id
  <2> QED
    BY <2>1
<1>2. \A id : id \in Signed(calls) <=> \E i \in DOMAIN calls : calls[i].id = id /\ calls[i].sig # None
  BY DEF Signed
<1>3. ASSUME NEW id \in Signed(calls) PROVE Newest(calls, id) = id
  <2>1. PICK i \in DOMAIN calls : calls[i].id = id /\ calls[i].sig # None
    BY <1>2
  <2>2. id = <<k[1], k[2], i>> /\ calls[i].sig = id
    BY <1>1, <2>1
  <2>3. ASSUME NEW j \in DOMAIN calls, calls[j].id = id PROVE j = i
    <3>1. id = <<k[1], k[2], j>>
      BY <1>1, <2>3
    <3> QED
      BY <2>2, <3>1
  <2> DEFINE at == {j \in DOMAIN calls : calls[j].id = id /\ calls[j].sig # None}
  <2>4. at = {i}
    BY <2>1, <2>3
  <2>5. i <= i
    BY IsSeqProperties
  <2> HIDE DEF at
  <2>6. (CHOOSE m \in at : \A j \in at : j <= m) = i
    <3>1. i \in at /\ \A j \in at : j <= i
      BY <2>4, <2>5
    <3>2. (CHOOSE m \in at : \A j \in at : j <= m) \in at
      BY <3>1
    <3> QED
      BY <2>4, <3>2
  <2> QED
    BY <2>2, <2>6 DEF Newest, at
<1> DEFINE all == Harvested(sigs, calls)
<1>4. /\ DOMAIN all = DOMAIN sigs \cup Signed(calls)
      /\ \A id \in DOMAIN all : all[id] = IF id \in Signed(calls) THEN Newest(calls, id) ELSE sigs[id]
  BY DEF Harvested
<1> HIDE DEF all
<1>5. \A id \in DOMAIN all : all[id] = id
  BY <1>3, <1>4
<1>6. \A id \in Signed(calls) : Of(k, id)
  BY <1>1, <1>2 DEF Of
<1>7. \A i \in DOMAIN calls : calls[i].sig # None <=> calls[i].id \in Signed(calls)
  <2>1. ASSUME NEW i \in DOMAIN calls, calls[i].id \in Signed(calls) PROVE calls[i].sig # None
    <3>1. PICK j \in DOMAIN calls : calls[j].id = calls[i].id /\ calls[j].sig # None
      BY <1>2, <2>1
    <3>2. <<k[1], k[2], i>> = <<k[1], k[2], j>>
      BY <1>1, <3>1
    <3> QED
      BY <3>1, <3>2
  <2> QED
    BY <1>2, <2>1
<1> QED
  BY <1>4, <1>5, <1>6, <1>7 DEF all

LEMMA FitsPrimed ==
  ASSUME NEW k \in Requests, Fits(k, conn'[k], signatures'), UNCHANGED fixed
  PROVE  Fits(k, conn[k], signatures)'
<1>1. PICK r : r = conn'[k]
  OBVIOUS
<1>2. PICK sigs : sigs = signatures'
  OBVIOUS
<1>3. Fits(k, r, sigs)'
  BY <1>1, <1>2, FitsStay
<1> QED
  BY <1>1, <1>2, <1>3

LEMMA SignsHarvest ==
  ASSUME Shapes, Shapes', Signs, NEW k \in Requests, Harvest(k) PROVE Signs'
<1>1. PICK new :
           /\ conn' = [conn EXCEPT ![k] = new]
           /\ conn[k].at = "harvest" /\ new.at = "build"
           /\ new.items = conn[k].items
           /\ new.payload = conn[k].payload /\ new.reply = conn[k].reply
           /\ ReplyTyped(conn[k].reply)
  BY HarvestDoes
<1>2. conn'[k] = new /\ \A i \in Requests : i # k => conn'[i] = conn[i]
  BY <1>1, Moved DEF Shapes
<1>3. UNCHANGED <<fixed, items, asked>>
  BY DEF Harvest, client
<1>4. \A c \in Conv : asked[c] <= asked'[c]
  BY <1>3 DEF Shapes
<1> DEFINE calls == conn[k].reply.calls
<1>5. IsSeq(calls) /\ \A i \in DOMAIN calls : CallOf(k, i, calls[i])
  BY <1>1 DEF ReplyTyped, Signs, Fits
<1>6. \A id \in DOMAIN signatures : signatures[id] = id
  BY DEF Signs
<1>7. signatures' = Harvested(signatures, calls)
  BY DEF Harvest
<1> HIDE DEF calls
<1>8. /\ DOMAIN signatures' = DOMAIN signatures \cup Signed(calls)
      /\ \A id \in DOMAIN signatures' : signatures'[id] = id
      /\ \A id \in Signed(calls) : Of(k, id)
      /\ \A i \in DOMAIN calls : calls[i].sig # None <=> calls[i].id \in Signed(calls)
  BY <1>5, <1>6, <1>7, HarvestSigns
<1>9. k[2] <= asked'[k[1]] /\ conn'[k].at = "build"
  BY <1>1, <1>2, <1>3 DEF Shapes
<1>10. ASSUME NEW id \in DOMAIN signatures' PROVE Placed(id, {"build", "write", "closed"})'
  <2>1. CASE id \in DOMAIN signatures
    <3>1. Placed(id, {"build", "write", "closed"})
      BY <2>1 DEF Signs
    <3> QED
      BY <1>1, <1>4, <3>1, PlacedStays
  <2>2. CASE id \in Signed(calls)
    <3>1. Of(k, id)'
      BY <1>8, <2>2 DEF Of
    <3> QED
      BY <1>9, <3>1 DEF Placed
  <2> QED
    BY <1>8, <2>1, <2>2
<1>11. ASSUME NEW id \in DOMAIN signatures PROVE ~Of(k, id)
  <2>1. PICK j \in Requests : Of(j, id) /\ conn[j].at \in {"build", "write", "closed"}
    BY DEF Signs, Placed
  <2>2. j # k
    BY <1>1, <2>1
  <2> QED
    BY <2>1, <2>2, OfOne
<1>12. ASSUME NEW j \in Requests, NEW i, NEW call, CallOf(j, i, call) PROVE Of(j, call.id)
  <2>1. call.id = <<j[1], j[2], i>>
    BY <1>12 DEF CallOf, Call
  <2> QED
    BY <2>1 DEF Of
<1>13. Fits(k, new, signatures')
  <2>1. Booked(new)
    BY <1>1 DEF Booked
  <2>2. new.payload.tools = ChatTools(talk[k[1]].tools, Route.schema)
    BY <1>1 DEF Signs, Fits
  <2>3. new.reply.calls = calls
    BY <1>1 DEF calls
  <2>4. \A i \in DOMAIN calls : calls[i].id \in DOMAIN signatures' <=> calls[i].sig # None
    BY <1>5, <1>8, <1>11, <1>12
  <2> QED
    BY <1>5, <2>1, <2>2, <2>3, <2>4 DEF Fits
<1>14. ASSUME NEW j \in Requests, j # k PROVE Fits(j, conn'[j], signatures')
  <2>1. conn'[j] = conn[j] /\ Fits(j, conn[j], signatures)
    BY <1>2, <1>14 DEF Signs
  <2>2. ASSUME NEW id, Of(j, id) PROVE id \in DOMAIN signatures' <=> id \in DOMAIN signatures
    BY <1>8, <1>14, <2>2, OfOne
  <2>3. ASSUME Booked(conn[j]), NEW i \in DOMAIN conn[j].reply.calls
        PROVE  conn[j].reply.calls[i].id \in DOMAIN signatures' <=> conn[j].reply.calls[i].sig # None
    <3>1. CallOf(j, i, conn[j].reply.calls[i])
      BY <2>1, <2>3 DEF Fits
    <3>2. Of(j, conn[j].reply.calls[i].id)
      BY <1>12, <3>1
    <3>3. conn[j].reply.calls[i].id \in DOMAIN signatures <=> conn[j].reply.calls[i].sig # None
      BY <2>1, <2>3 DEF Fits
    <3> QED
      BY <2>2, <3>2, <3>3
  <2> QED
    BY <2>1, <2>3 DEF Fits
<1>15. ASSUME NEW j \in Requests PROVE Fits(j, conn[j], signatures)'
  <2>1. Fits(j, conn'[j], signatures')
    BY <1>2, <1>13, <1>14
  <2> QED
    BY <1>3, <2>1, FitsPrimed
<1>16. ASSUME NEW t, CallsPast(t) PROVE CallsPast(t)'
  <2>1. k[2] <= asked[k[1]] => conn[k].at # "closed"
    BY <1>1
  <2> QED
    BY <1>1, <1>4, <1>16, <2>1, PastStays
<1>17. ASSUME NEW j \in Requests, conn'[j].at # "closed" PROVE CallsPast(conn[j].items)'
  <2>1. conn'[j].items = conn[j].items /\ conn[j].at # "closed"
    BY <1>1, <1>2, <1>17
  <2>2. PICK t : t = conn[j].items
    OBVIOUS
  <2>3. CallsPast(t)'
    BY <1>16, <2>1, <2>2 DEF Signs
  <2> QED
    BY <2>1, <2>2, <2>3
<1>18. ASSUME NEW c \in Conv PROVE CallsPast(items[c])' /\ CallsNamed(c)'
  <2>1. PICK t : t = items[c]
    OBVIOUS
  <2>2. CallsPast(t)'
    BY <1>16, <2>1 DEF Signs
  <2>3. CallsNamed(c)'
    BY <1>3 DEF Signs, CallsNamed, Names, fixed
  <2> QED
    BY <1>3, <2>1, <2>2, <2>3
<1> QED
  BY <1>8, <1>10, <1>15, <1>17, <1>18 DEF Signs

LEMMA OutputElements ==
  ASSUME NEW reply, IsSeq(reply.calls), NEW x \in ToSet(Output(reply))
  PROVE  x.kind = "function_call" => \E i \in DOMAIN reply.calls : x = CallItem(reply.calls[i])
<1> DEFINE a == IF Speaks(reply) THEN <<Message("assistant", <<reply.text>>)>> ELSE <<>>
           b == [i \in DOMAIN reply.calls |-> CallItem(reply.calls[i])]
<1>1. Output(reply) = a \o b
  BY DEF Output
<1>2. IsSeq(a) /\ ToSet(a) \subseteq {Message("assistant", <<reply.text>>)}
  BY OneIsSeq, EmptyIsSeq
<1>3. DOMAIN b = DOMAIN reply.calls /\ b = [i \in DOMAIN b |-> b[i]]
  OBVIOUS
<1>4. ToSet(b) = {CallItem(reply.calls[i]) : i \in DOMAIN reply.calls}
  BY DEF ToSet
<1> HIDE DEF a, b
<1>5. IsSeq(b)
  BY <1>3, SameDomain
<1>6. ToSet(a \o b) = ToSet(a) \cup ToSet(b)
  BY <1>2, <1>5, ConcatIsSeq
<1>7. Message("assistant", <<reply.text>>).kind # "function_call"
  BY DEF Message
<1> QED
  BY <1>1, <1>2, <1>4, <1>6, <1>7

LEMMA SignsWrite ==
  ASSUME Shapes, Shapes', Signs, NEW k \in Requests, Write(k) PROVE Signs'
<1>1. /\ conn[k].at = "write" /\ conn' = [conn EXCEPT ![k] = Closed]
      /\ \/ UNCHANGED <<items, truth>>
         \/ /\ conn[k].events # None /\ ReplyTyped(conn[k].reply)
            /\ items' = [items EXCEPT ![k[1]] = items[k[1]] \o Output(conn[k].reply)]
  BY WriteDoes
<1>2. UNCHANGED <<fixed, signatures, asked>>
  BY DEF Write, shared
<1>3. Closed.at = "closed" /\ Fits(k, Closed, signatures)
  BY DEF Closed, Fits, Booked
<1>4. \A c \in Conv : asked[c] <= asked'[c]
  BY <1>2 DEF Shapes
<1>5. CASE UNCHANGED <<items, truth>>
  <2>1. /\ conn[k].at # "closed" /\ (conn[k].at \in {"build", "write"} => Closed.at \in {"build", "write", "closed"})
        /\ (Closed.at # "closed" => Closed.items = conn[k].items)
        /\ UNCHANGED <<fixed, signatures, items, asked>>
    BY <1>1, <1>2, <1>3, <1>5
  <2> QED
    BY <1>1, <1>3, <2>1, SignsMove
<1>6. CASE /\ conn[k].events # None /\ ReplyTyped(conn[k].reply)
           /\ items' = [items EXCEPT ![k[1]] = items[k[1]] \o Output(conn[k].reply)]
  <2> DEFINE reply == conn[k].reply
             old == items[k[1]]
             d == k[1]
  <2>1. IsSeq(reply.calls) /\ IsSeq(old) /\ d \in Conv
    BY <1>6, RequestsTyped DEF ReplyTyped, Shapes
  <2>2. \A i \in DOMAIN reply.calls : CallOf(k, i, reply.calls[i])
    BY <1>1, <1>6 DEF Signs, Fits, Booked
  <2>3. items'[d] = old \o Output(reply) /\ \A c \in Conv : c # d => items'[c] = items[c]
    BY <1>6, <2>1 DEF Shapes
  <2>4. k[2] <= asked'[k[1]] /\ conn'[k].at = "closed"
    <3>1. conn'[k] = Closed
      BY <1>1, Moved DEF Shapes
    <3>2. k[2] <= asked[k[1]]
      BY <1>1 DEF Shapes
    <3> QED
      BY <1>2, <1>3, <3>1, <3>2
  <2> HIDE DEF reply, old
  <2>5. IsSeq(Output(reply))
    BY <2>1, OutputIsSeq
  <2>6. ToSet(old \o Output(reply)) = ToSet(old) \cup ToSet(Output(reply))
    BY <2>1, <2>5, ConcatIsSeq
  <2>7. ASSUME NEW x \in ToSet(Output(reply)), x.kind = "function_call"
        PROVE  Of(k, x.id) /\ x.ns \o x.name \in Names(d)
    <3>1. PICK i \in DOMAIN reply.calls : x = CallItem(reply.calls[i])
      BY <2>1, <2>7, OutputElements
    <3> DEFINE call == reply.calls[i]
    <3>2. CallOf(k, i, call)
      BY <2>2
    <3> HIDE DEF call
    <3>3. call.id = <<k[1], k[2], i>> /\ IsSeq(call.name) /\ call.name \in Names(d)
      <4>1. call = Call(<<k[1], k[2], i>>, call.name, call.args, call.sig)
        BY <3>2 DEF CallOf
      <4>2. call.id = <<k[1], k[2], i>>
        BY <4>1 DEF Call
      <4> QED
        BY <3>2, <4>2 DEF CallOf
    <3>4. /\ CallItem(call).id = call.id /\ CallItem(call).ns = NameOf(call.name).ns
          /\ CallItem(call).name = NameOf(call.name).name
      BY DEF CallItem, FunctionCall
    <3>5. x = CallItem(call)
      BY <3>1 DEF call
    <3>6. x.ns \o x.name = call.name
      <4> DEFINE full == call.name
      <4>1. IsSeq(full)
        BY <3>3
      <4> HIDE DEF full
      <4>2. NameOf(full).ns \o NameOf(full).name = full
        BY <4>1, NameIsSplit
      <4> QED
        BY <3>4, <3>5, <4>2 DEF full
    <3> QED
      BY <3>3, <3>4, <3>5, <3>6 DEF Of
  <2>8. ASSUME NEW t, CallsPast(t) PROVE CallsPast(t)'
    <3>1. k[2] <= asked[k[1]] => conn[k].at # "closed"
      BY <1>1
    <3> QED
      BY <1>1, <1>4, <2>8, <3>1, PastStays
  <2>9. ASSUME NEW x \in ToSet(old), x.kind = "function_call"
        PROVE  Placed(x.id, {"closed"})' /\ x.ns \o x.name \in Names(d)
    <3>1. PICK t : t = old
      OBVIOUS
    <3>2. CallsPast(t) /\ x \in ToSet(t)
      BY <2>1, <3>1 DEF Signs, old
    <3>3. CallsPast(t)'
      BY <2>8, <3>2
    <3>4. Placed(x.id, {"closed"})'
      BY <2>9, <3>2, <3>3 DEF CallsPast
    <3>5. x.ns \o x.name \in Names(d)
      BY <2>1, <2>9 DEF Signs, CallsNamed, old
    <3> QED
      BY <3>4, <3>5
  <2>10. ASSUME NEW x \in ToSet(Output(reply)), x.kind = "function_call"
         PROVE  Placed(x.id, {"closed"})'
    <3>1. Of(k, x.id)'
      BY <2>7, <2>10 DEF Of
    <3> QED
      BY <2>4, <3>1 DEF Placed
  <2>11. ASSUME NEW x \in ToSet(items'[d]), x.kind = "function_call"
         PROVE  Placed(x.id, {"closed"})' /\ x.ns \o x.name \in Names(d)
    BY <2>3, <2>6, <2>7, <2>9, <2>10, <2>11
  <2>12. CallsPast(items[d])' /\ CallsNamed(d)'
    <3>1. Names(d)' = Names(d)
      BY <1>2 DEF Names, fixed
    <3> QED
      BY <2>11, <3>1 DEF CallsPast, CallsNamed
  <2>13. ASSUME NEW c \in Conv, c # d PROVE CallsPast(items[c])' /\ CallsNamed(c)'
    <3>1. items'[c] = items[c]
      BY <2>3, <2>13
    <3>2. PICK t : t = items[c]
      OBVIOUS
    <3>3. CallsPast(t)'
      BY <2>8, <3>2 DEF Signs
    <3>4. CallsNamed(c)'
      BY <1>2, <3>1 DEF Signs, CallsNamed, Names, fixed
    <3> QED
      BY <3>1, <3>2, <3>3, <3>4
  <2>14. ASSUME NEW c \in Conv PROVE CallsPast(items[c])' /\ CallsNamed(c)'
    BY <2>12, <2>13
  <2>15. /\ conn[k].at # "closed" /\ (conn[k].at \in {"build", "write"} => Closed.at \in {"build", "write", "closed"})
         /\ (Closed.at # "closed" => Closed.items = conn[k].items)
    BY <1>1, <1>3
  <2> HIDE DEF d
  <2> QED
    BY <1>1, <1>2, <1>3, <2>14, <2>15, SignsMoveOn
<1> QED
  BY <1>1, <1>5, <1>6

LEMMA SignsAsk ==
  ASSUME Shapes, Shapes', Signs, NEW c \in Conv, Ask(c) PROVE Signs'
<1>1. PICK new : \E k \in Requests :
           /\ k = <<c, asked[c] + 1>> /\ k[1] = c /\ k[2] = asked[c] + 1
           /\ conn' = [conn EXCEPT ![k] = new]
           /\ new.at = "read" /\ new.items = items[c]
           /\ asked' = [asked EXCEPT ![c] = asked[c] + 1] /\ asked[c] \in Nat
  BY AskDoes
<1>2. PICK k \in Requests :
           /\ k[1] = c /\ k[2] = asked[c] + 1
           /\ conn' = [conn EXCEPT ![k] = new]
           /\ new.at = "read" /\ new.items = items[c]
           /\ asked' = [asked EXCEPT ![c] = asked[c] + 1] /\ asked[c] \in Nat
  BY <1>1
<1>3. UNCHANGED <<fixed, signatures, items>>
  BY DEF Ask, shared
<1>4. conn'[k] = new /\ \A i \in Requests : i # k => conn'[i] = conn[i]
  BY <1>2, Moved DEF Shapes
<1>5. \A d \in Conv : asked[d] <= asked'[d]
  BY <1>2 DEF Shapes
<1>6. ~(k[2] <= asked[k[1]])
  BY <1>2
<1>7. ASSUME NEW id, Placed(id, {"build", "write", "closed"})
      PROVE  Placed(id, {"build", "write", "closed"})'
  BY <1>2, <1>5, <1>6, <1>7, PlacedStays
<1>8. ASSUME NEW t, CallsPast(t) PROVE CallsPast(t)'
  BY <1>2, <1>5, <1>6, <1>8, PastStays
<1>9. \A id \in DOMAIN signatures' : signatures'[id] = id /\ Placed(id, {"build", "write", "closed"})'
  BY <1>3, <1>7 DEF Signs
<1>10. ASSUME NEW d \in Conv PROVE CallsPast(items[d])' /\ CallsNamed(d)'
  <2>1. PICK t : t = items[d]
    OBVIOUS
  <2>2. CallsPast(t)'
    BY <1>8, <2>1 DEF Signs
  <2>3. CallsNamed(d)'
    BY <1>3 DEF Signs, CallsNamed, Names, fixed
  <2> QED
    BY <1>3, <2>1, <2>2, <2>3
<1>11. ASSUME NEW j \in Requests
       PROVE  Fits(j, conn[j], signatures)' /\ (conn'[j].at # "closed" => CallsPast(conn[j].items)')
  <2>1. CASE j = k
    <3>1. Fits(j, conn'[j], signatures')
      BY <1>2, <1>4, <2>1 DEF Fits, Booked
    <3>2. PICK t : t = items[c]
      OBVIOUS
    <3>3. CallsPast(t)'
      BY <1>8, <3>2 DEF Signs
    <3>4. conn'[j].items = t
      BY <1>2, <1>4, <2>1, <3>2
    <3> QED
      BY <1>3, <3>1, <3>3, <3>4, FitsPrimed
  <2>2. CASE j # k
    <3>1. conn'[j] = conn[j]
      BY <1>4, <2>2
    <3>2. Fits(j, conn'[j], signatures')
      BY <1>3, <3>1 DEF Signs
    <3>3. PICK t : t = conn[j].items
      OBVIOUS
    <3>4. conn'[j].at # "closed" => CallsPast(t)'
      BY <1>8, <3>1, <3>3 DEF Signs
    <3> QED
      BY <1>3, <3>1, <3>2, <3>3, <3>4, FitsPrimed
  <2> QED
    BY <2>1, <2>2
<1> QED
  BY <1>9, <1>10, <1>11 DEF Signs

LEMMA SignsStay ==
  ASSUME Signs, UNCHANGED <<fixed, signatures, conn, asked>>,
         \A c \in Conv : \A x \in ToSet(items'[c]) : x.kind = "function_call" => x \in ToSet(items[c])
  PROVE  Signs'
<1>1. ASSUME NEW id, NEW P, Placed(id, P) PROVE Placed(id, P)'
  <2>1. PICK k \in Requests : Of(k, id) /\ k[2] <= asked[k[1]] /\ conn[k].at \in P
    BY <1>1 DEF Placed
  <2>2. Of(k, id)' /\ k[2] <= asked'[k[1]] /\ conn'[k].at \in P
    BY <2>1 DEF Of
  <2> QED
    BY <2>2 DEF Placed
<1>2. ASSUME NEW t, CallsPast(t) PROVE CallsPast(t)'
  BY <1>1, <1>2 DEF CallsPast
<1>3. \A id \in DOMAIN signatures' : signatures'[id] = id /\ Placed(id, {"build", "write", "closed"})'
  BY <1>1 DEF Signs
<1>4. ASSUME NEW j \in Requests
      PROVE  Fits(j, conn[j], signatures)' /\ (conn'[j].at # "closed" => CallsPast(conn[j].items)')
  <2>1. Fits(j, conn'[j], signatures')
    BY DEF Signs
  <2>2. PICK t : t = conn[j].items
    OBVIOUS
  <2>3. conn'[j].at # "closed" => CallsPast(t)'
    BY <1>2, <2>2 DEF Signs
  <2> QED
    BY <2>1, <2>2, <2>3, FitsPrimed
<1>5. ASSUME NEW c \in Conv PROVE CallsPast(items[c])' /\ CallsNamed(c)'
  <2>1. ASSUME NEW x \in ToSet(items'[c]), x.kind = "function_call"
        PROVE  Placed(x.id, {"closed"})' /\ x.ns \o x.name \in Names(c)
    <3>1. x \in ToSet(items[c])
      BY <2>1
    <3>2. Placed(x.id, {"closed"}) /\ x.ns \o x.name \in Names(c)
      BY <2>1, <3>1 DEF Signs, CallsPast, CallsNamed
    <3> QED
      BY <1>1, <3>2
  <2>2. Names(c)' = Names(c)
    BY DEF Names, fixed
  <2> QED
    BY <2>1, <2>2 DEF CallsPast, CallsNamed
<1> QED
  BY <1>3, <1>4, <1>5 DEF Signs

LEMMA SignsTools ==
  ASSUME Shapes, Signs, NEW c \in Conv, RunTools(c) PROVE Signs'
<1>1. PICK open, outputs :
           /\ DOMAIN outputs = DOMAIN open /\ IsSeq(outputs)
           /\ \A i \in DOMAIN open :
                outputs[i] = FunctionCallOutput(open[i].id, IF open[i].ns \o open[i].name \in Names(c)
                                                            THEN <<"ran">> ELSE <<"no such tool">>)
           /\ items' = [items EXCEPT ![c] = items[c] \o outputs]
  BY ToolsDo
<1>2. UNCHANGED <<fixed, signatures, conn, asked>>
  BY DEF RunTools, shared
<1>3. \A i \in DOMAIN outputs : outputs[i].kind = "function_call_output"
  <2>1. \A id, output : FunctionCallOutput(id, output).kind = "function_call_output"
    BY DEF FunctionCallOutput
  <2>2. ASSUME NEW i \in DOMAIN outputs PROVE outputs[i].kind = "function_call_output"
    <3> DEFINE output == IF open[i].ns \o open[i].name \in Names(c) THEN <<"ran">> ELSE <<"no such tool">>
    <3>1. outputs[i] = FunctionCallOutput(open[i].id, output)
      BY <1>1
    <3> HIDE DEF output
    <3> QED
      BY <2>1, <3>1
  <2> QED
    BY <2>2
<1>4. ToSet(items[c] \o outputs) = ToSet(items[c]) \cup ToSet(outputs)
  <2> DEFINE old == items[c]
  <2>1. IsSeq(old)
    BY DEF Shapes
  <2> HIDE DEF old
  <2>2. ToSet(old \o outputs) = ToSet(old) \cup ToSet(outputs)
    BY <1>1, <2>1, ConcatIsSeq
  <2> QED
    BY <2>2 DEF old
<1>5. \A d \in Conv : items'[d] = IF d = c THEN items[c] \o outputs ELSE items[d]
  BY <1>1 DEF Shapes
<1>6. \A x \in ToSet(outputs) : x.kind = "function_call_output"
  BY <1>3 DEF ToSet
<1>7. \A d \in Conv : \A x \in ToSet(items'[d]) : x.kind = "function_call" => x \in ToSet(items[d])
  BY <1>4, <1>5, <1>6
<1> QED
  BY <1>2, <1>7, SignsStay

LEMMA SignsStep == Shapes /\ Shapes' /\ Signs /\ [Next]_vars => Signs'
<1> SUFFICES ASSUME Shapes, Shapes', Signs, [Next]_vars PROVE Signs'
  OBVIOUS
<1>1. CASE Still
  <2>1. UNCHANGED <<fixed, signatures, conn, asked>> /\ items' = items
    BY <1>1 DEF Still
  <2> QED
    BY <2>1, SignsStay
<1>2. ASSUME NEW k \in Requests, Passes(k) PROVE Signs'
  <2>1. PICK new :
           /\ conn' = [conn EXCEPT ![k] = new]
           /\ conn[k].at \notin {"closed", "write"}
           /\ \/ new.at \in {"closed", "write"}
              \/ new.at \in {"dispatch", "translate"} /\ conn[k].at \in {"read", "dispatch"}
           /\ new.at # "closed" => new.items = conn[k].items /\ new.events = None
    BY <1>2, PassesDo DEF Shapes
  <2>2. UNCHANGED <<fixed, signatures, items, asked>>
    BY <1>2 DEF Passes, ReadRequest, Dispatch, BadRequest, OverBudget, UpstreamFails, BadReply, client, shared
  <2>3. Fits(k, new, signatures)
    BY <2>1 DEF Fits, Booked
  <2>4. /\ conn[k].at # "closed" /\ (conn[k].at \in {"build", "write"} => new.at \in {"build", "write", "closed"})
        /\ (new.at # "closed" => new.items = conn[k].items)
    BY <2>1
  <2> QED
    BY <2>1, <2>2, <2>3, <2>4, SignsMove
<1>3. ASSUME NEW k \in Requests, Translate(k) PROVE Signs'
  <2>1. PICK new :
           /\ conn' = [conn EXCEPT ![k] = new]
           /\ conn[k].at = "translate" /\ new.at \in {"send", "reserve"}
           /\ new.items = conn[k].items
           /\ new.payload.tools = ChatTools(talk[k[1]].tools, Route.schema)
    BY <1>3, TranslateDoes
  <2>2. UNCHANGED <<fixed, signatures, items, asked>>
    BY <1>3 DEF Translate, client, shared
  <2>3. Fits(k, new, signatures)
    BY <2>1 DEF Fits, Booked
  <2>4. /\ conn[k].at # "closed" /\ (conn[k].at \in {"build", "write"} => new.at \in {"build", "write", "closed"})
        /\ (new.at # "closed" => new.items = conn[k].items)
    BY <2>1
  <2> QED
    BY <2>1, <2>2, <2>3, <2>4, SignsMove
<1>4. ASSUME NEW k \in Requests, Reserve(k) PROVE Signs'
  <2>1. PICK new :
           /\ conn' = [conn EXCEPT ![k] = new]
           /\ conn[k].at = "reserve" /\ new.at = "send"
           /\ new.items = conn[k].items
           /\ new.payload = WithCap(conn[k].payload, OutputCap(conn[k].payload))
           /\ PayloadTyped(conn[k].payload) /\ OutputCap(conn[k].payload) \in Nat
    BY <1>4, ReserveDoes
  <2>2. UNCHANGED <<fixed, signatures, items, asked>>
    BY <1>4 DEF Reserve, client
  <2>3. new.payload.tools = conn[k].payload.tools
    BY <2>1, WithCapKeeps
  <2>4. new.payload.tools = ChatTools(talk[k[1]].tools, Route.schema)
    BY <2>1, <2>3 DEF Signs, Fits
  <2>5. Fits(k, new, signatures)
    BY <2>1, <2>4 DEF Fits, Booked
  <2>6. /\ conn[k].at # "closed" /\ (conn[k].at \in {"build", "write"} => new.at \in {"build", "write", "closed"})
        /\ (new.at # "closed" => new.items = conn[k].items)
    BY <2>1
  <2> QED
    BY <2>1, <2>2, <2>5, <2>6, SignsMove
<1>5. ASSUME NEW k \in Requests, UpstreamReplies(k) PROVE Signs'
  <2>1. PICK new : /\ conn' = [conn EXCEPT ![k] = new] /\ conn[k].at = "send" /\ new.at = "harvest"
                   /\ new.items = conn[k].items /\ Fits(k, new, signatures)
    BY <1>5, RepliesFit
  <2>2. UNCHANGED <<fixed, signatures, items, asked>>
    BY <1>5 DEF UpstreamReplies, client, shared
  <2>3. /\ conn[k].at # "closed" /\ (conn[k].at \in {"build", "write"} => new.at \in {"build", "write", "closed"})
        /\ (new.at # "closed" => new.items = conn[k].items)
    BY <2>1
  <2> QED
    BY <2>1, <2>2, <2>3, SignsMove
<1>6. ASSUME NEW k \in Requests, Harvest(k) PROVE Signs'
  BY <1>6, SignsHarvest
<1>7. ASSUME NEW k \in Requests, Build(k) PROVE Signs'
  <2>1. PICK new :
           /\ conn' = [conn EXCEPT ![k] = new]
           /\ conn[k].at = "build" /\ new.at = "write"
           /\ new.items = conn[k].items /\ new.reply = conn[k].reply
    BY <1>7, BuildDoes
  <2>2. UNCHANGED <<fixed, signatures, items, asked>>
    BY <1>7 DEF Build, client
  <2>3. Fits(k, conn[k], signatures) /\ Booked(conn[k])
    BY <2>1 DEF Signs, Booked
  <2>4. Fits(k, new, signatures)
    BY <2>1, <2>3 DEF Fits
  <2>5. /\ conn[k].at # "closed" /\ (conn[k].at \in {"build", "write"} => new.at \in {"build", "write", "closed"})
        /\ (new.at # "closed" => new.items = conn[k].items)
    BY <2>1
  <2> QED
    BY <2>1, <2>2, <2>4, <2>5, SignsMove
<1>8. ASSUME NEW k \in Requests, Write(k) PROVE Signs'
  BY <1>8, SignsWrite
<1>9. ASSUME NEW c \in Conv, Ask(c) PROVE Signs'
  BY <1>9, SignsAsk
<1>10. ASSUME NEW c \in Conv, RunTools(c) PROVE Signs'
  BY <1>10, SignsTools
<1> QED
  BY <1>1, <1>2, <1>3, <1>4, <1>5, <1>6, <1>7, <1>8, <1>9, <1>10, Steps DEF Tasks

-----------------------------------------------------------------------------
(* The conversation as it was                                              *)

Meant(r, sigs) ==
  /\ r.at \in {"read", "dispatch", "translate"} => Telling(r.items, sigs) = r.truth
  /\ r.at \in {"reserve", "send", "harvest", "build"} => Conversation(r.payload) = r.truth

Told ==
  /\ \A c \in Conv : Telling(items[c], signatures) = truth[c]
  /\ \A k \in Requests : Meant(conn[k], signatures)

LEMMA ToldInit == Init => Told
<1> SUFFICES ASSUME Init PROVE Told
  OBVIOUS
<1>1. None \notin DOMAIN signatures
  BY DEF Init
<1>2. \A k \in Requests : conn[k].at = "closed"
  BY DEF Init, Closed
<1>3. \A k \in Requests : Meant(conn[k], signatures)
  BY <1>2 DEF Meant
<1>4. Chosen
  BY DEF Init, Chosen
<1>5. ASSUME NEW c \in Conv PROVE Telling(items[c], signatures) = truth[c]
  <2> DEFINE prompt == talk[c].prompt
             sigs == signatures
  <2>1. items[c] = prompt /\ truth[c] = Spoken(prompt)
    BY DEF Init
  <2>2. IsSeq(prompt) /\ None \notin DOMAIN sigs
        /\ \A x \in ToSet(prompt) :
             \/ x.kind \notin {"message", "function_call", "function_call_output"}
             \/ x.kind = "message" /\ x.role \in {"user", "developer", "system"}
    BY <1>1, <1>4, TalkTyped
  <2> HIDE DEF prompt, sigs
  <2>3. Telling(prompt, sigs) = Spoken(prompt)
    BY <2>2, PromptTells
  <2> QED
    BY <2>1, <2>3 DEF sigs
<1> QED
  BY <1>3, <1>5 DEF Told

LEMMA ToldPrimed ==
  ASSUME \A c \in Conv : Telling(items'[c], signatures') = truth'[c],
         \A k \in Requests : Meant(conn'[k], signatures')
  PROVE  Told'
<1>1. ASSUME NEW j \in Requests PROVE Meant(conn[j], signatures)'
  <2>1. PICK r : r = conn'[j]
    OBVIOUS
  <2>2. PICK sigs : sigs = signatures'
    OBVIOUS
  <2>3. Meant(r, sigs)'
    BY <2>1, <2>2
  <2> QED
    BY <2>1, <2>2, <2>3
<1> QED
  BY <1>1 DEF Told

\* A task moves that leaves the conversations and the signatures.
LEMMA ToldMove ==
  ASSUME Shapes, Told, NEW k \in Requests, NEW new, conn' = [conn EXCEPT ![k] = new],
         UNCHANGED <<items, truth, signatures>>, Meant(new, signatures)
  PROVE  Told'
<1>1. conn'[k] = new /\ \A i \in Requests : i # k => conn'[i] = conn[i]
  BY Moved DEF Shapes
<1>2. \A j \in Requests : Meant(conn'[j], signatures')
  BY <1>1 DEF Told
<1>3. \A c \in Conv : Telling(items'[c], signatures') = truth'[c]
  BY DEF Told
<1> QED
  BY <1>2, <1>3, ToldPrimed

LEMMA ToldTranslate ==
  ASSUME Shapes, Signs, Told, NEW k \in Requests, Translate(k) PROVE Told'
<1>1. PICK new :
           /\ conn' = [conn EXCEPT ![k] = new]
           /\ conn[k].at = "translate" /\ new.at \in {"send", "reserve"}
           /\ new.items = conn[k].items /\ new.truth = conn[k].truth
           /\ new.payload.messages = Reattached(ToChat(talk[k[1]], conn[k].items, Route).messages, signatures)
  BY TranslateDoes
<1>2. UNCHANGED <<items, truth, signatures>>
  BY DEF Translate, client, shared
<1>3. IsSeq(conn[k].items)
  BY <1>1 DEF Shapes, ConnTyped
<1>4. IsSeq(talk[k[1]].tools) /\ talk[k[1]].maxOutput \in Seq(Nat) /\ talk[k[1]].maxTokens \in Seq(Nat)
  BY RequestsTyped, TalkTyped DEF Shapes
<1>5. Conversation(new.payload) = Telling(conn[k].items, signatures)
  <2> DEFINE request == talk[k[1]]
             transcript == conn[k].items
             route == Route
             sigs == signatures
             p == new.payload
  <2>1. /\ IsSeq(request.tools) /\ request.maxOutput \in Seq(Nat) /\ request.maxTokens \in Seq(Nat)
        /\ IsSeq(transcript) /\ None \notin DOMAIN sigs
        /\ p.messages = Reattached(ToChat(request, transcript, route).messages, sigs)
    BY <1>1, <1>3, <1>4, NoneUnsigned
  <2> HIDE DEF request, transcript, route, sigs, p
  <2>2. Around(ToChat(request, transcript, route).messages, transcript)
    BY <2>1, ToChatMakes
  <2>3. PICK a, b, c : /\ Hosted(a) /\ Hosted(b) /\ Hosted(c)
                       /\ ToChat(request, transcript, route).messages = a \o ((b \o Chats(transcript)) \o c)
    BY <2>2 DEF Around
  <2>4. p.messages = Reattached(a \o ((b \o Chats(transcript)) \o c), sigs)
    BY <2>1, <2>3
  <2>5. Conversation(p) = Telling(transcript, sigs)
    BY <2>1, <2>3, <2>4, PayloadTells
  <2> QED
    BY <2>5 DEF transcript, sigs, p
<1>6. Telling(conn[k].items, signatures) = conn[k].truth
  BY <1>1 DEF Told, Meant
<1>7. Meant(new, signatures)
  BY <1>1, <1>5, <1>6 DEF Meant
<1> QED
  BY <1>1, <1>2, <1>7, ToldMove

\* What a harvest adds to the map changes nothing of what was told before: the
\* calls of the transcripts are of requests that are over.
LEMMA HarvestTells ==
  ASSUME Shapes, Signs, NEW k \in Requests, Harvest(k), NEW t, CallsPast(t)
  PROVE  Telling(t, signatures') = Telling(t, signatures)
<1>1. conn[k].at = "harvest" /\ ReplyTyped(conn[k].reply)
  BY HarvestDoes
<1> DEFINE calls == conn[k].reply.calls
           sigs == signatures
           other == signatures'
<1>2. IsSeq(calls) /\ \A i \in DOMAIN calls : CallOf(k, i, calls[i])
  BY <1>1 DEF ReplyTyped, Signs, Fits
<1>3. \A id \in DOMAIN sigs : sigs[id] = id
  BY DEF Signs
<1>4. other = Harvested(sigs, calls)
  BY DEF Harvest
<1>5. None \notin DOMAIN sigs
  BY NoneUnsigned
<1>6. ASSUME NEW x \in ToSet(t), x.kind = "function_call" PROVE ~Of(k, x.id)
  <2>1. Placed(x.id, {"closed"})
    BY <1>6 DEF CallsPast
  <2>2. PICK j \in Requests : Of(j, x.id) /\ conn[j].at = "closed"
    BY <2>1 DEF Placed
  <2>3. j # k
    BY <1>1, <2>2
  <2> DEFINE id == x.id
  <2>4. Of(j, id)
    BY <2>2
  <2> HIDE DEF id
  <2>5. ~Of(k, id)
    BY <2>3, <2>4, OfOne
  <2> QED
    BY <2>5 DEF id
<1> HIDE DEF calls, sigs, other
<1>7. /\ DOMAIN other = DOMAIN sigs \cup Signed(calls)
      /\ \A id \in DOMAIN other : other[id] = id
      /\ \A id \in Signed(calls) : Of(k, id)
  BY <1>2, <1>3, <1>4, HarvestSigns
<1>8. None \notin DOMAIN other
  <2>1. ~Of(k, None)
    BY DEF Of, None
  <2> QED
    BY <1>5, <1>7, <2>1
<1>9. \A x \in ToSet(t) : Says(x, other) = Says(x, sigs)
  <2>1. ASSUME NEW x \in ToSet(t) PROVE Says(x, other) = Says(x, sigs)
    <3>1. x.kind = "function_call" =>
            /\ x.id \in DOMAIN other <=> x.id \in DOMAIN sigs
            /\ x.id \in DOMAIN sigs => other[x.id] = sigs[x.id]
      BY <1>3, <1>6, <1>7
    <3> QED
      BY <1>5, <1>8, <3>1, SaysAgrees
  <2> QED
    BY <2>1
<1>10. Telling(t, other) = Telling(t, sigs)
  BY <1>9, TellingAgrees
<1> QED
  BY <1>10 DEF sigs, other

LEMMA ToldHarvest ==
  ASSUME Shapes, Signs, Told, NEW k \in Requests, Harvest(k) PROVE Told'
<1>1. PICK new :
           /\ conn' = [conn EXCEPT ![k] = new]
           /\ conn[k].at = "harvest" /\ new.at = "build"
           /\ new.truth = conn[k].truth /\ new.payload = conn[k].payload
  BY HarvestDoes
<1>2. conn'[k] = new /\ \A i \in Requests : i # k => conn'[i] = conn[i]
  BY <1>1, Moved DEF Shapes
<1>3. UNCHANGED <<items, truth>>
  BY DEF Harvest, client
<1>4. ASSUME NEW c \in Conv PROVE Telling(items'[c], signatures') = truth'[c]
  <2>1. CallsPast(items[c]) /\ Telling(items[c], signatures) = truth[c]
    BY DEF Signs, Told
  <2>2. Telling(items[c], signatures') = Telling(items[c], signatures)
    BY <2>1, HarvestTells
  <2> QED
    BY <1>3, <2>1, <2>2
<1>5. ASSUME NEW j \in Requests PROVE Meant(conn'[j], signatures')
  <2>1. CASE j = k
    BY <1>1, <1>2, <2>1 DEF Told, Meant
  <2>2. CASE j # k
    <3>1. Meant(conn[j], signatures) /\ conn'[j] = conn[j]
      BY <1>2, <2>2 DEF Told
    <3>2. CASE conn[j].at = "closed"
      BY <3>1, <3>2 DEF Meant
    <3>3. CASE conn[j].at # "closed"
      <4>1. CallsPast(conn[j].items)
        BY <3>3 DEF Signs
      <4>2. Telling(conn[j].items, signatures') = Telling(conn[j].items, signatures)
        BY <4>1, HarvestTells
      <4> QED
        BY <3>1, <4>2 DEF Meant
    <3> QED
      BY <3>2, <3>3
  <2> QED
    BY <2>1, <2>2
<1> QED
  BY <1>4, <1>5, ToldPrimed

LEMMA ToldWrite ==
  ASSUME Shapes, Signs, Told, NEW k \in Requests, Write(k) PROVE Told'
<1>1. /\ conn[k].at = "write" /\ conn' = [conn EXCEPT ![k] = Closed]
      /\ \/ UNCHANGED <<items, truth>>
         \/ /\ conn[k].events # None /\ ReplyTyped(conn[k].reply)
            /\ items' = [items EXCEPT ![k[1]] = items[k[1]] \o Output(conn[k].reply)]
            /\ truth' = [truth EXCEPT ![k[1]] = truth[k[1]] \o Heard(conn[k].reply)]
  BY WriteDoes
<1>2. UNCHANGED signatures
  BY DEF Write, shared
<1>3. Meant(Closed, signatures)
  BY DEF Closed, Meant
<1>4. CASE UNCHANGED <<items, truth>>
  BY <1>1, <1>2, <1>3, <1>4, ToldMove
<1>5. CASE /\ conn[k].events # None /\ ReplyTyped(conn[k].reply)
           /\ items' = [items EXCEPT ![k[1]] = items[k[1]] \o Output(conn[k].reply)]
           /\ truth' = [truth EXCEPT ![k[1]] = truth[k[1]] \o Heard(conn[k].reply)]
  <2> DEFINE reply == conn[k].reply
             old == items[k[1]]
             told == truth[k[1]]
             d == k[1]
             sigs == signatures
  <2>1. ReplyTyped(reply) /\ IsSeq(reply.calls) /\ IsSeq(old) /\ d \in Conv /\ None \notin DOMAIN sigs
    BY <1>5, RequestsTyped, NoneUnsigned DEF ReplyTyped, Shapes
  <2>2. \A i \in DOMAIN reply.calls :
          CallOf(k, i, reply.calls[i]) /\ (reply.calls[i].id \in DOMAIN sigs <=> reply.calls[i].sig # None)
    BY <1>1, <1>5 DEF Signs, Fits, Booked
  <2>3. /\ items'[d] = old \o Output(reply) /\ \A c \in Conv : c # d => items'[c] = items[c]
        /\ truth'[d] = told \o Heard(reply) /\ \A c \in Conv : c # d => truth'[c] = truth[c]
    BY <1>5, <2>1 DEF Shapes
  <2>4. \A id \in DOMAIN sigs : sigs[id] = id
    BY DEF Signs
  <2>5. Telling(old, sigs) = told
    BY <2>1 DEF Told
  <2> HIDE DEF reply, old, told, sigs
  <2>6. ASSUME NEW i \in DOMAIN reply.calls PROVE CallTold(reply.calls[i], sigs)
    <3> DEFINE call == reply.calls[i]
               id == <<k[1], k[2], i>>
    <3>1. CallOf(k, i, call) /\ (call.id \in DOMAIN sigs <=> call.sig # None)
      BY <2>2
    <3>2. /\ call = Call(id, call.name, call.args, call.sig)
          /\ call.sig \in {None, id} /\ IsSeq(call.name)
      BY <3>1 DEF CallOf
    <3>3. id # None
      BY DEF None
    <3> HIDE DEF call, id
    <3>4. call.id = id
      BY <3>2 DEF Call
    <3>5. call = Call(call.id, call.name, call.args, call.sig)
      BY <3>2, <3>4
    <3>6. call.sig = IF call.id \in DOMAIN sigs THEN sigs[call.id] ELSE None
      BY <2>4, <3>1, <3>2, <3>4
    <3>7. CallTold(call, sigs)
      BY <3>2, <3>3, <3>4, <3>5, <3>6 DEF CallTold
    <3> QED
      BY <3>7 DEF call
  <2>7. Telling(Output(reply), sigs) = Heard(reply)
    BY <2>1, <2>6, OutputTells
  <2>8. IsSeq(Output(reply))
    BY <2>1, OutputIsSeq
  <2>9. Telling(old \o Output(reply), sigs) = Telling(old, sigs) \o Telling(Output(reply), sigs)
    <3> DEFINE new == Output(reply)
    <3>1. IsSeq(new)
      BY <2>8
    <3> HIDE DEF new
    <3>2. Telling(old \o new, sigs) = Telling(old, sigs) \o Telling(new, sigs)
      BY <2>1, <3>1, TellingConcat
    <3> QED
      BY <3>2 DEF new
  <2>10. Telling(items'[d], sigs) = truth'[d]
    BY <2>3, <2>5, <2>7, <2>9
  <2>11. ASSUME NEW c \in Conv PROVE Telling(items'[c], signatures') = truth'[c]
    <3>1. CASE c = d
      BY <1>2, <2>10, <3>1 DEF sigs
    <3>2. CASE c # d
      <4>1. Telling(items[c], signatures) = truth[c]
        BY DEF Told
      <4> QED
        BY <1>2, <2>3, <3>2, <4>1
    <3> QED
      BY <3>1, <3>2
  <2>12. conn'[k] = Closed /\ \A i \in Requests : i # k => conn'[i] = conn[i]
    BY <1>1, Moved DEF Shapes
  <2>13. \A j \in Requests : Meant(conn'[j], signatures')
    BY <1>2, <1>3, <2>12 DEF Told
  <2> QED
    BY <2>11, <2>13, ToldPrimed
<1> QED
  BY <1>1, <1>4, <1>5

LEMMA ToldAsk ==
  ASSUME Shapes, Told, NEW c \in Conv, Ask(c) PROVE Told'
<1>1. PICK new : \E k \in Requests :
           /\ conn' = [conn EXCEPT ![k] = new]
           /\ new.at = "read" /\ new.items = items[c] /\ new.truth = truth[c]
  BY AskDoes
<1>2. PICK k \in Requests : conn' = [conn EXCEPT ![k] = new]
  BY <1>1
<1>3. UNCHANGED <<items, truth, signatures>>
  BY DEF Ask, shared
<1>4. Meant(new, signatures)
  BY <1>1 DEF Told, Meant
<1> QED
  BY <1>2, <1>3, <1>4, ToldMove

LEMMA ToldTools ==
  ASSUME Shapes, Signs, Told, NEW c \in Conv, RunTools(c) PROVE Told'
<1>1. PICK open, outputs :
           /\ IsSeq(open) /\ ToSet(open) \subseteq {x \in ToSet(items[c]) : x.kind = "function_call"}
           /\ DOMAIN outputs = DOMAIN open /\ IsSeq(outputs)
           /\ \A i \in DOMAIN open :
                outputs[i] = FunctionCallOutput(open[i].id, IF open[i].ns \o open[i].name \in Names(c)
                                                            THEN <<"ran">> ELSE <<"no such tool">>)
           /\ items' = [items EXCEPT ![c] = items[c] \o outputs]
           /\ truth' = [truth EXCEPT ![c] = truth[c] \o [i \in DOMAIN open |-> Result(open[i].id, <<"ran">>)]]
  BY ToolsDo
<1>2. UNCHANGED <<conn, signatures>>
  BY DEF RunTools, shared
<1> DEFINE old == items[c]
           told == truth[c]
           sigs == signatures
           results == [i \in DOMAIN open |-> Result(open[i].id, <<"ran">>)]
<1>3. IsSeq(old) /\ None \notin DOMAIN sigs /\ Telling(old, sigs) = told
  BY NoneUnsigned DEF Shapes, Told
<1>4. /\ DOMAIN results = DOMAIN open /\ results = [i \in DOMAIN results |-> results[i]]
      /\ \A i \in DOMAIN open : results[i] = Result(open[i].id, <<"ran">>)
  OBVIOUS
<1>5. /\ items'[c] = old \o outputs /\ \A d \in Conv : d # c => items'[d] = items[d]
      /\ truth'[c] = told \o results /\ \A d \in Conv : d # c => truth'[d] = truth[d]
  <2>1. DOMAIN items = Conv /\ DOMAIN truth = Conv
    BY DEF Shapes
  <2>2. items' = [items EXCEPT ![c] = old \o outputs] /\ truth' = [truth EXCEPT ![c] = told \o results]
    BY <1>1
  <2> HIDE DEF old, told, results
  <2> QED
    BY <2>1, <2>2
<1>6. ASSUME NEW i \in DOMAIN open PROVE open[i].ns \o open[i].name \in Names(c)
  <2>1. open[i] \in ToSet(open)
    BY DEF ToSet
  <2>2. open[i] \in ToSet(items[c]) /\ open[i].kind = "function_call"
    BY <1>1, <2>1
  <2> QED
    BY <2>2 DEF Signs, CallsNamed
<1> HIDE DEF old, told, sigs, results
<1>7. ASSUME NEW i \in DOMAIN results PROVE Says(outputs[i], sigs) = <<results[i]>>
  <2> DEFINE id == open[i].id
             known == open[i].ns \o open[i].name \in Names(c)
  <2>1. known
    BY <1>4, <1>6
  <2>2. outputs[i] = FunctionCallOutput(id, IF known THEN <<"ran">> ELSE <<"no such tool">>)
    BY <1>1, <1>4
  <2>3. results[i] = Result(id, <<"ran">>)
    BY <1>4
  <2> HIDE DEF id, known
  <2>4. outputs[i] = FunctionCallOutput(id, <<"ran">>)
    BY <2>1, <2>2
  <2> QED
    BY <1>3, <2>3, <2>4, SaysOfOutput
<1>8. IsSeq(results)
  BY <1>1, <1>4, SameDomain
<1>9. Telling(outputs, sigs) = results
  <2>1. DOMAIN outputs = DOMAIN results
    BY <1>1, <1>4
  <2> QED
    BY <1>7, <1>8, <2>1, TellingSingles
<1>10. IsSeq(outputs) /\ IsSeq(old)
  BY <1>1, <1>3
<1>11. Telling(old \o outputs, sigs) = Telling(old, sigs) \o Telling(outputs, sigs)
  BY <1>10, TellingConcat
<1>12. Telling(items'[c], sigs) = truth'[c]
  BY <1>3, <1>5, <1>9, <1>11
<1>13. ASSUME NEW d \in Conv PROVE Telling(items'[d], signatures') = truth'[d]
  <2>1. CASE d = c
    BY <1>2, <1>12, <2>1 DEF sigs
  <2>2. CASE d # c
    <3>1. Telling(items[d], signatures) = truth[d]
      BY DEF Told
    <3> QED
      BY <1>2, <1>5, <2>2, <3>1
  <2> QED
    BY <2>1, <2>2
<1>14. \A j \in Requests : Meant(conn'[j], signatures')
  BY <1>2 DEF Told
<1> QED
  BY <1>13, <1>14, ToldPrimed

LEMMA ToldStep == Shapes /\ Signs /\ Told /\ [Next]_vars => Told'
<1> SUFFICES ASSUME Shapes, Signs, Told, [Next]_vars PROVE Told'
  OBVIOUS
<1>1. CASE Still
  <2>1. UNCHANGED <<signatures, conn, items, truth>>
    BY <1>1 DEF Still
  <2>2. /\ \A c \in Conv : Telling(items'[c], signatures') = truth'[c]
        /\ \A k \in Requests : Meant(conn'[k], signatures')
    BY <2>1 DEF Told
  <2> QED
    BY <2>2, ToldPrimed
<1>2. ASSUME NEW k \in Requests, Passes(k) PROVE Told'
  <2>1. PICK new :
           /\ conn' = [conn EXCEPT ![k] = new]
           /\ \/ new.at \in {"closed", "write"}
              \/ new.at \in {"dispatch", "translate"} /\ conn[k].at \in {"read", "dispatch"}
           /\ new.at # "closed" => new.items = conn[k].items /\ new.truth = conn[k].truth
    BY <1>2, PassesDo DEF Shapes
  <2>2. UNCHANGED <<items, truth, signatures>>
    BY <1>2 DEF Passes, ReadRequest, Dispatch, BadRequest, OverBudget, UpstreamFails, BadReply, client, shared
  <2>3. Meant(new, signatures)
    BY <2>1 DEF Told, Meant
  <2> QED
    BY <2>1, <2>2, <2>3, ToldMove
<1>3. ASSUME NEW k \in Requests, Translate(k) PROVE Told'
  BY <1>3, ToldTranslate
<1>4. ASSUME NEW k \in Requests, Reserve(k) PROVE Told'
  <2>1. PICK new :
           /\ conn' = [conn EXCEPT ![k] = new]
           /\ conn[k].at = "reserve" /\ new.at = "send"
           /\ new.truth = conn[k].truth
           /\ new.payload = WithCap(conn[k].payload, OutputCap(conn[k].payload))
           /\ PayloadTyped(conn[k].payload) /\ OutputCap(conn[k].payload) \in Nat
    BY <1>4, ReserveDoes
  <2>2. UNCHANGED <<items, truth, signatures>>
    BY <1>4 DEF Reserve, client
  <2>3. new.payload.messages = conn[k].payload.messages
    BY <2>1, WithCapKeeps
  <2>4. Conversation(new.payload) = Conversation(conn[k].payload)
    BY <2>3 DEF Conversation
  <2>5. Meant(new, signatures)
    BY <2>1, <2>4 DEF Told, Meant
  <2> QED
    BY <2>1, <2>2, <2>5, ToldMove
<1>5. ASSUME NEW k \in Requests, UpstreamReplies(k) PROVE Told'
  <2>1. PICK new : /\ conn' = [conn EXCEPT ![k] = new] /\ conn[k].at = "send" /\ new.at = "harvest"
                   /\ new.truth = conn[k].truth /\ new.payload = conn[k].payload
    BY <1>5, RepliesFit
  <2>2. UNCHANGED <<items, truth, signatures>>
    BY <1>5 DEF UpstreamReplies, client, shared
  <2>3. Meant(new, signatures)
    BY <2>1 DEF Told, Meant
  <2> QED
    BY <2>1, <2>2, <2>3, ToldMove
<1>6. ASSUME NEW k \in Requests, Harvest(k) PROVE Told'
  BY <1>6, ToldHarvest
<1>7. ASSUME NEW k \in Requests, Build(k) PROVE Told'
  <2>1. PICK new : conn' = [conn EXCEPT ![k] = new] /\ new.at = "write"
    BY <1>7, BuildDoes
  <2>2. UNCHANGED <<items, truth, signatures>>
    BY <1>7 DEF Build, client
  <2>3. Meant(new, signatures)
    BY <2>1 DEF Meant
  <2> QED
    BY <2>1, <2>2, <2>3, ToldMove
<1>8. ASSUME NEW k \in Requests, Write(k) PROVE Told'
  BY <1>8, ToldWrite
<1>9. ASSUME NEW c \in Conv, Ask(c) PROVE Told'
  BY <1>9, ToldAsk
<1>10. ASSUME NEW c \in Conv, RunTools(c) PROVE Told'
  BY <1>10, ToldTools
<1> QED
  BY <1>1, <1>2, <1>3, <1>4, <1>5, <1>6, <1>7, <1>8, <1>9, <1>10, Steps DEF Tasks

\* The provider is shown the conversation it has had.
THEOREM ConversationIsKept == Spec => []ConversationKept
<1>1. ASSUME Told PROVE ConversationKept
  BY <1>1 DEF Told, Meant, ConversationKept, Payloads
<1> QED
  BY <1>1, ShapesInit, ShapesStep, SignsInit, SignsStep, ToldInit, ToldStep, PTL DEF Spec
=============================================================================
