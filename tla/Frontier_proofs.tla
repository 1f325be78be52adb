--------------------------- MODULE Frontier_proofs ---------------------------
(***************************************************************************)
(* Proofs about Frontier, for every playbook and every value of its        *)
(* constants: what its sequences and folds compute, how a node goes on,    *)
(* and that DriveInv is an invariant of the drive.                         *)
(***************************************************************************)
EXTENDS Frontier, TLAPS, FiniteSetTheorems, WellFoundedInduction

-----------------------------------------------------------------------------
(* Numbers and sequences *)

\* A set of numbers that holds zero and each successor of its members holds all of them.
LEMMA Induction ==
  ASSUME NEW P, 0 \in P, \A k \in Nat : k \in P => k + 1 \in P
  PROVE  \A k \in Nat : k \in P
<1> DEFINE Less == {p \in Nat \X Nat : p[1] < p[2]}
           Out == {k \in Nat : k \notin P}
<1>1. IsWellFoundedOn(Less, Nat)
  BY NatLessThanWellFounded DEF OpToRel
<1>2. SUFFICES ASSUME Out # {} PROVE FALSE
  OBVIOUS
<1>3. PICK x \in Out : \A y \in Out : <<y, x>> \notin Less
  <2>1. Out \subseteq Nat
    OBVIOUS
  <2> HIDE DEF Out, Less
  <2> QED BY <1>1, <1>2, <2>1, WFMin
<1>4. x \in Nat /\ x \notin P /\ x # 0
  OBVIOUS
<1>5. x - 1 \in Nat /\ x - 1 < x /\ (x - 1) + 1 = x
  BY <1>4
<1>6. x - 1 \in P
  BY <1>3, <1>5
<1> QED BY <1>4, <1>5, <1>6

\* The elements of a sequence.
LEMMA Elements ==
  ASSUME NEW T, NEW s \in Seq(T)
  PROVE  /\ ToSet(s) \subseteq T
         /\ \A x : x \in ToSet(s) <=> \E i \in DOMAIN s : s[i] = x
         /\ DOMAIN s = 1 .. Len(s) /\ Len(s) \in Nat
         /\ s \in Seq(ToSet(s))
BY DEF ToSet

\* The elements of two sequences put together, and when they stay distinct.
LEMMA Joined ==
  ASSUME NEW T, NEW s \in Seq(T), NEW t \in Seq(T)
  PROVE  /\ s \o t \in Seq(T)
         /\ ToSet(s \o t) = ToSet(s) \cup ToSet(t)
         /\ IsInjective(s) /\ IsInjective(t) /\ ToSet(s) \cap ToSet(t) = {} => IsInjective(s \o t)
<1>1. /\ s \o t \in Seq(T) /\ Len(s \o t) = Len(s) + Len(t)
      /\ \A i \in 1 .. Len(s) : (s \o t)[i] = s[i]
      /\ \A i \in 1 .. Len(t) : (s \o t)[Len(s) + i] = t[i]
      /\ DOMAIN (s \o t) = 1 .. Len(s) + Len(t) /\ DOMAIN s = 1 .. Len(s) /\ DOMAIN t = 1 .. Len(t)
  OBVIOUS
<1>2. \A i \in 1 .. Len(s) + Len(t) :
        \/ i \in 1 .. Len(s) /\ (s \o t)[i] = s[i]
        \/ i - Len(s) \in 1 .. Len(t) /\ (s \o t)[i] = t[i - Len(s)]
  OBVIOUS
<1>3. ToSet(s \o t) \subseteq ToSet(s) \cup ToSet(t)
  BY <1>1, <1>2 DEF ToSet
<1>4. ToSet(s) \subseteq ToSet(s \o t)
  <2>1. \A i \in 1 .. Len(s) : i \in 1 .. Len(s) + Len(t)
    OBVIOUS
  <2> QED BY <1>1, <2>1 DEF ToSet
<1>5. ToSet(t) \subseteq ToSet(s \o t)
  <2>1. \A i \in 1 .. Len(t) : Len(s) + i \in 1 .. Len(s) + Len(t)
    OBVIOUS
  <2> QED BY <1>1, <2>1 DEF ToSet
<1>6. ASSUME IsInjective(s), IsInjective(t), ToSet(s) \cap ToSet(t) = {},
             NEW i \in 1 .. Len(s) + Len(t), NEW j \in 1 .. Len(s) + Len(t), (s \o t)[i] = (s \o t)[j]
      PROVE  i = j
  <2>1. \A a \in 1 .. Len(s), b \in 1 .. Len(t) : s[a] # t[b]
    BY <1>1, <1>6 DEF ToSet
  <2>2. CASE i \in 1 .. Len(s) /\ j \in 1 .. Len(s)
    BY <1>1, <1>6, <2>2 DEF IsInjective
  <2>3. CASE i \notin 1 .. Len(s) /\ j \notin 1 .. Len(s)
    <3>1. i - Len(s) \in DOMAIN t /\ j - Len(s) \in DOMAIN t /\ t[i - Len(s)] = t[j - Len(s)]
      BY <1>1, <1>2, <1>6, <2>3
    <3>2. i - Len(s) = j - Len(s)
      BY <1>6, <3>1 DEF IsInjective
    <3> QED BY <3>2
  <2>4. CASE i \in 1 .. Len(s) /\ j \notin 1 .. Len(s)
    BY <1>1, <1>2, <1>6, <2>1, <2>4
  <2>5. CASE i \notin 1 .. Len(s) /\ j \in 1 .. Len(s)
    BY <1>1, <1>2, <1>6, <2>1, <2>5
  <2> QED BY <2>2, <2>3, <2>4, <2>5
<1> QED BY <1>1, <1>3, <1>4, <1>5, <1>6 DEF IsInjective

-----------------------------------------------------------------------------
(* Flattening, filtering and what a sequence holds once *)

\* FlattenSeq joins one more sequence at a time.
LEMMA Flattens ==
  ASSUME NEW T, NEW seqs \in Seq(Seq(T))
  PROVE  \E cat \in [0 .. Len(seqs) -> Seq(T)] :
           /\ cat[0] = <<>>
           /\ \A k \in 1 .. Len(seqs) : cat[k] = cat[k - 1] \o seqs[k]
           /\ FlattenSeq(seqs) = cat[Len(seqs)]
<1> DEFINE n == Len(seqs)
           Eq(f, m) == f = [i \in 1 .. m |-> IF i = 1 THEN seqs[i] ELSE f[i - 1] \o seqs[i]]
           Defined == {m \in Nat : \E f : Eq(f, m)}
<1>1. n \in Nat /\ \A i \in 1 .. n : seqs[i] \in Seq(T)
  OBVIOUS
<1>2. 0 \in Defined
  <2>1. Eq(<<>>, 0)
    OBVIOUS
  <2> QED BY <2>1
<1>3. ASSUME NEW m \in Nat, m \in Defined PROVE m + 1 \in Defined
  <2>1. PICK f : Eq(f, m)
    BY <1>3
  <2>2. \A i \in 1 .. m : f[i] = IF i = 1 THEN seqs[i] ELSE f[i - 1] \o seqs[i]
    BY <2>1
  <2> DEFINE g == [i \in 1 .. m + 1 |-> IF i \in 1 .. m THEN f[i]
                                        ELSE IF i = 1 THEN seqs[i] ELSE f[i - 1] \o seqs[i]]
  <2>3. \A i \in 1 .. m + 1 : g[i] = IF i = 1 THEN seqs[i] ELSE g[i - 1] \o seqs[i]
    <3> SUFFICES ASSUME NEW i \in 1 .. m + 1 PROVE g[i] = IF i = 1 THEN seqs[i] ELSE g[i - 1] \o seqs[i]
      OBVIOUS
    <3>1. i # 1 => i - 1 \in 1 .. m /\ g[i - 1] = f[i - 1]
      OBVIOUS
    <3>2. g[i] = IF i = 1 THEN seqs[i] ELSE f[i - 1] \o seqs[i]
      BY <2>2
    <3> HIDE DEF g
    <3> QED BY <3>1, <3>2
  <2>4. Eq(g, m + 1)
    <3>1. g = [i \in 1 .. m + 1 |-> g[i]]
      OBVIOUS
    <3> HIDE DEF g
    <3> QED BY <2>3, <3>1
  <2> HIDE DEF Eq
  <2> QED BY <2>4
<1>4. n \in Defined
  <2> HIDE DEF Defined
  <2> QED BY <1>1, <1>2, <1>3, Induction
<1> DEFINE flatten == CHOOSE f : Eq(f, n)
<1>5. Eq(flatten, n)
  <2>1. \E f : Eq(f, n)
    BY <1>4
  <2> HIDE DEF Eq
  <2> QED BY <2>1
<1>6. FlattenSeq(seqs) = IF n = 0 THEN seqs ELSE flatten[n]
  BY DEF FlattenSeq
<1> HIDE DEF flatten
<1>7. \A i \in 1 .. n : flatten[i] = IF i = 1 THEN seqs[i] ELSE flatten[i - 1] \o seqs[i]
  BY <1>5
<1> DEFINE cat == [k \in 0 .. n |-> IF k = 0 THEN <<>> ELSE flatten[k]]
           Typed == {k \in Nat : k \in 0 .. n => cat[k] \in Seq(T)}
<1>8. \A k \in 1 .. n : cat[k] = IF k = 1 THEN seqs[k] ELSE cat[k - 1] \o seqs[k]
  <2> SUFFICES ASSUME NEW k \in 1 .. n PROVE cat[k] = IF k = 1 THEN seqs[k] ELSE cat[k - 1] \o seqs[k]
    OBVIOUS
  <2>1. k # 1 => k - 1 \in 0 .. n /\ k - 1 # 0
    OBVIOUS
  <2> QED BY <1>7, <2>1
<1>9. cat[0] = <<>>
  OBVIOUS
<1> HIDE DEF cat
<1>10. \A k \in Nat : k \in Typed
  <2>1. 0 \in Typed
    <3>1. <<>> \in Seq(T)
      OBVIOUS
    <3> QED BY <1>9, <3>1
  <2>2. ASSUME NEW k \in Nat, k \in Typed PROVE k + 1 \in Typed
    <3>1. CASE k + 1 \in 1 .. n
      <4>1. k \in 0 .. n /\ (k + 1) - 1 = k /\ cat[k] \in Seq(T)
        BY <2>2, <3>1
      <4>2. cat[k + 1] = IF k + 1 = 1 THEN seqs[k + 1] ELSE cat[k] \o seqs[k + 1]
        BY <1>8, <3>1, <4>1
      <4>3. cat[k + 1] \in Seq(T)
        BY <1>1, <3>1, <4>1, <4>2
      <4> QED BY <4>3
    <3>2. CASE k + 1 \notin 1 .. n
      BY <3>2
    <3> QED BY <3>1, <3>2
  <2> HIDE DEF Typed
  <2> QED BY <2>1, <2>2, Induction
<1>11. \A k \in 0 .. n : cat[k] \in Seq(T)
  BY <1>10
<1>12. \A k \in 1 .. n : cat[k] = cat[k - 1] \o seqs[k]
  <2> SUFFICES ASSUME NEW k \in 1 .. n PROVE cat[k] = cat[k - 1] \o seqs[k]
    OBVIOUS
  <2>1. CASE k = 1
    <3>1. cat[1] = seqs[1] /\ cat[1 - 1] = <<>> /\ seqs[1] \in Seq(T)
      BY <1>1, <1>8, <1>9, <2>1
    <3> QED BY <2>1, <3>1
  <2> QED BY <1>8, <2>1
<1>13. FlattenSeq(seqs) = cat[n]
  <2>1. CASE n = 0
    BY <1>6, <1>9, <2>1
  <2>2. CASE n # 0
    BY <1>1, <1>6, <2>2 DEF cat
  <2> QED BY <2>1, <2>2
<1>14. cat \in [0 .. n -> Seq(T)]
  BY <1>11 DEF cat
<1> QED BY <1>9, <1>12, <1>13, <1>14

\* What a flattened sequence holds; its elements stay distinct when those of its parts are.
LEMMA Flattened ==
  ASSUME NEW T, NEW seqs \in Seq(Seq(T))
  PROVE  /\ FlattenSeq(seqs) \in Seq(T)
         /\ ToSet(FlattenSeq(seqs)) = UNION {ToSet(seqs[i]) : i \in DOMAIN seqs}
         /\ (/\ \A i \in DOMAIN seqs : IsInjective(seqs[i])
             /\ \A i, j \in DOMAIN seqs : i # j => ToSet(seqs[i]) \cap ToSet(seqs[j]) = {})
            => IsInjective(FlattenSeq(seqs))
<1> DEFINE n == Len(seqs)
<1>1. n \in Nat /\ DOMAIN seqs = 1 .. n /\ \A i \in 1 .. n : seqs[i] \in Seq(T)
  OBVIOUS
<1>2. PICK cat \in [0 .. n -> Seq(T)] :
        /\ cat[0] = <<>>
        /\ \A k \in 1 .. n : cat[k] = cat[k - 1] \o seqs[k]
        /\ FlattenSeq(seqs) = cat[n]
  BY Flattens
<1> DEFINE Parts(k) == UNION {ToSet(seqs[i]) : i \in 1 .. k}
           Apart == /\ \A i \in DOMAIN seqs : IsInjective(seqs[i])
                    /\ \A i, j \in DOMAIN seqs : i # j => ToSet(seqs[i]) \cap ToSet(seqs[j]) = {}
           Good == {k \in Nat : k \in 0 .. n => ToSet(cat[k]) = Parts(k) /\ (Apart => IsInjective(cat[k]))}
<1>3. 0 \in Good
  <2>1. ToSet(<<>>) = {} /\ IsInjective(<<>>)
    BY DEF ToSet, IsInjective
  <2>2. Parts(0) = {}
    OBVIOUS
  <2> QED BY <1>2, <2>1, <2>2
<1>4. ASSUME NEW k \in Nat, k \in Good PROVE k + 1 \in Good
  <2> SUFFICES ASSUME k + 1 \in 0 .. n
               PROVE  ToSet(cat[k + 1]) = Parts(k + 1) /\ (Apart => IsInjective(cat[k + 1]))
    OBVIOUS
  <2>1. k \in 0 .. n /\ k + 1 \in 1 .. n /\ (k + 1) - 1 = k
    OBVIOUS
  <2>2. /\ cat[k] \in Seq(T) /\ seqs[k + 1] \in Seq(T) /\ cat[k + 1] = cat[k] \o seqs[k + 1]
        /\ ToSet(cat[k]) = Parts(k) /\ (Apart => IsInjective(cat[k]))
    BY <1>1, <1>2, <1>4, <2>1
  <2>3. ToSet(cat[k + 1]) = Parts(k) \cup ToSet(seqs[k + 1])
    BY <2>2, Joined
  <2>4. Parts(k + 1) = Parts(k) \cup ToSet(seqs[k + 1])
    <3>1. 1 .. k + 1 = (1 .. k) \cup {k + 1}
      BY <2>1
    <3> QED BY <3>1
  <2>5. ASSUME Apart PROVE IsInjective(cat[k + 1])
    <3>1. ToSet(cat[k]) \cap ToSet(seqs[k + 1]) = {}
      <4>1. \A i \in 1 .. k : i \in DOMAIN seqs /\ k + 1 \in DOMAIN seqs /\ i # k + 1
        BY <1>1, <2>1
      <4>2. \A i \in 1 .. k : ToSet(seqs[i]) \cap ToSet(seqs[k + 1]) = {}
        BY <2>5, <4>1
      <4> QED BY <2>2, <4>2
    <3>2. IsInjective(seqs[k + 1]) /\ IsInjective(cat[k])
      BY <1>1, <2>1, <2>2, <2>5
    <3>3. IsInjective(cat[k] \o seqs[k + 1])
      BY <2>2, <3>1, <3>2, Joined
    <3> QED BY <2>2, <3>3
  <2> QED BY <2>3, <2>4, <2>5
<1>5. n \in Good
  <2> HIDE DEF Good
  <2> QED BY <1>1, <1>3, <1>4, Induction
<1>6. n \in 0 .. n /\ cat[n] \in Seq(T)
  BY <1>1, <1>2
<1>7. ToSet(cat[n]) = Parts(n) /\ (Apart => IsInjective(cat[n]))
  <2> HIDE DEF Parts, Apart
  <2> QED BY <1>5, <1>6
<1> QED BY <1>1, <1>2, <1>6, <1>7

\* Among keeps what is in the set, each time it comes, in a sequence of the same type.
LEMMA AmongKeeps ==
  ASSUME NEW T, NEW seq \in Seq(T), NEW S
  PROVE  /\ Among(seq, S) \in Seq(T)
         /\ ToSet(Among(seq, S)) = ToSet(seq) \cap S
         /\ IsInjective(seq) => IsInjective(Among(seq, S))
<1> DEFINE parts == [i \in DOMAIN seq |-> IF seq[i] \in S THEN <<seq[i]>> ELSE <<>>]
<1>1. \A i \in DOMAIN seq : seq[i] \in T /\ <<seq[i]>> \in Seq(T) /\ <<>> \in Seq(T)
  OBVIOUS
<1>2. parts \in Seq(Seq(T)) /\ DOMAIN parts = DOMAIN seq
  <2>1. DOMAIN seq = 1 .. Len(seq) /\ Len(seq) \in Nat
    OBVIOUS
  <2>2. parts \in [1 .. Len(seq) -> Seq(T)]
    BY <1>1, <2>1
  <2> QED BY <2>1, <2>2
<1>3. \A i \in DOMAIN seq : ToSet(parts[i]) = {seq[i]} \cap S /\ IsInjective(parts[i])
  <2> SUFFICES ASSUME NEW i \in DOMAIN seq
               PROVE  ToSet(parts[i]) = {seq[i]} \cap S /\ IsInjective(parts[i])
    OBVIOUS
  <2>1. ToSet(<<seq[i]>>) = {seq[i]} /\ IsInjective(<<seq[i]>>)
    BY DEF ToSet, IsInjective
  <2>2. ToSet(<<>>) = {} /\ IsInjective(<<>>)
    BY DEF ToSet, IsInjective
  <2> QED BY <2>1, <2>2
<1>4. Among(seq, S) = FlattenSeq(parts)
  BY DEF Among
<1> HIDE DEF parts
<1>5. /\ FlattenSeq(parts) \in Seq(T)
      /\ ToSet(FlattenSeq(parts)) = UNION {ToSet(parts[i]) : i \in DOMAIN parts}
  BY <1>2, Flattened
<1>6. ToSet(FlattenSeq(parts)) = ToSet(seq) \cap S
  <2>1. ToSet(seq) = {seq[i] : i \in DOMAIN seq}
    BY DEF ToSet
  <2>2. UNION {ToSet(parts[i]) : i \in DOMAIN parts} = UNION {{seq[i]} \cap S : i \in DOMAIN seq}
    BY <1>2, <1>3
  <2> QED BY <1>5, <2>1, <2>2
<1>7. ASSUME IsInjective(seq) PROVE IsInjective(FlattenSeq(parts))
  <2>1. \A i, j \in DOMAIN parts : i # j => ToSet(parts[i]) \cap ToSet(parts[j]) = {}
    BY <1>2, <1>3, <1>7 DEF IsInjective
  <2>2. \A i \in DOMAIN parts : IsInjective(parts[i])
    BY <1>2, <1>3
  <2> QED BY <1>2, <2>1, <2>2, Flattened
<1> QED BY <1>4, <1>5, <1>6, <1>7

\* Without drops what is in the set.
LEMMA WithoutDrops ==
  ASSUME NEW T, NEW seq \in Seq(T), NEW S
  PROVE  /\ Without(seq, S) \in Seq(T)
         /\ ToSet(Without(seq, S)) = ToSet(seq) \ S
         /\ IsInjective(seq) => IsInjective(Without(seq, S))
<1>1. ToSet(seq) \cap (ToSet(seq) \ S) = ToSet(seq) \ S
  OBVIOUS
<1> QED BY <1>1, AmongKeeps DEF Without

\* Distinct holds each element of the sequence once.
LEMMA DistinctIsInjective ==
  ASSUME NEW T, NEW seq \in Seq(T)
  PROVE  /\ Distinct(seq) \in Seq(T)
         /\ ToSet(Distinct(seq)) = ToSet(seq)
         /\ IsInjective(Distinct(seq))
<1> DEFINE before(i) == {seq[j] : j \in 1 .. i - 1}
           parts == [i \in DOMAIN seq |-> IF seq[i] \in before(i) THEN <<>> ELSE <<seq[i]>>]
<1>1. \A i \in DOMAIN seq : seq[i] \in T /\ <<seq[i]>> \in Seq(T) /\ <<>> \in Seq(T)
  OBVIOUS
<1>2. parts \in Seq(Seq(T)) /\ DOMAIN parts = DOMAIN seq
  <2>1. DOMAIN seq = 1 .. Len(seq) /\ Len(seq) \in Nat
    OBVIOUS
  <2>2. parts \in [1 .. Len(seq) -> Seq(T)]
    BY <1>1, <2>1
  <2> QED BY <2>1, <2>2
<1>3. \A i \in DOMAIN seq : ToSet(parts[i]) = {seq[i]} \ before(i) /\ IsInjective(parts[i])
  <2> SUFFICES ASSUME NEW i \in DOMAIN seq
               PROVE  ToSet(parts[i]) = {seq[i]} \ before(i) /\ IsInjective(parts[i])
    OBVIOUS
  <2>1. ToSet(<<seq[i]>>) = {seq[i]} /\ IsInjective(<<seq[i]>>)
    BY DEF ToSet, IsInjective
  <2>2. ToSet(<<>>) = {} /\ IsInjective(<<>>)
    BY DEF ToSet, IsInjective
  <2> HIDE DEF before
  <2> QED BY <2>1, <2>2
<1>4. Distinct(seq) = FlattenSeq(parts)
  BY DEF Distinct
<1> HIDE DEF parts
<1>5. /\ FlattenSeq(parts) \in Seq(T)
      /\ ToSet(FlattenSeq(parts)) = UNION {ToSet(parts[i]) : i \in DOMAIN parts}
  BY <1>2, Flattened
<1>6. ToSet(FlattenSeq(parts)) \subseteq ToSet(seq)
  <2>1. ToSet(seq) = {seq[i] : i \in DOMAIN seq}
    BY DEF ToSet
  <2>2. \A i \in DOMAIN parts : ToSet(parts[i]) \subseteq {seq[i]} /\ i \in DOMAIN seq
    <3> HIDE DEF before
    <3> QED BY <1>2, <1>3
  <2> QED BY <1>5, <2>1, <2>2
<1>7. ToSet(seq) \subseteq ToSet(FlattenSeq(parts))
  <2> DEFINE Held == {k \in Nat : \A i \in DOMAIN seq : i <= k => seq[i] \in ToSet(FlattenSeq(parts))}
  <2>1. 0 \in Held
    OBVIOUS
  <2>2. ASSUME NEW k \in Nat, k \in Held PROVE k + 1 \in Held
    <3> SUFFICES ASSUME k + 1 \in DOMAIN seq PROVE seq[k + 1] \in ToSet(FlattenSeq(parts))
      BY <2>2
    <3>1. CASE seq[k + 1] \in before(k + 1)
      <4>1. PICK j \in 1 .. (k + 1) - 1 : seq[j] = seq[k + 1]
        BY <3>1
      <4>2. j \in DOMAIN seq /\ j <= k
        OBVIOUS
      <4> QED BY <2>2, <4>1, <4>2
    <3>2. CASE seq[k + 1] \notin before(k + 1)
      <4> HIDE DEF before
      <4>1. seq[k + 1] \in ToSet(parts[k + 1])
        BY <1>3, <3>2
      <4> QED BY <1>2, <1>5, <4>1
    <3> QED BY <3>1, <3>2
  <2>3. \A k \in Nat : k \in Held
    <3> HIDE DEF Held
    <3> QED BY <2>1, <2>2, Induction
  <2>4. \A i \in DOMAIN seq : i \in Nat
    OBVIOUS
  <2> QED BY <2>3, <2>4 DEF ToSet
<1>8. IsInjective(FlattenSeq(parts))
  <2>1. \A i, j \in DOMAIN parts : i # j => ToSet(parts[i]) \cap ToSet(parts[j]) = {}
    <3> SUFFICES ASSUME NEW i \in DOMAIN seq, NEW j \in DOMAIN seq, i # j, seq[i] = seq[j],
                        seq[i] \notin before(i), seq[j] \notin before(j)
                 PROVE  FALSE
      <4> HIDE DEF before
      <4> QED BY <1>2, <1>3
    <3>1. i \in 1 .. j - 1 \/ j \in 1 .. i - 1
      OBVIOUS
    <3> QED BY <3>1
  <2>2. \A i \in DOMAIN parts : IsInjective(parts[i])
    BY <1>2, <1>3
  <2> QED BY <1>2, <2>1, <2>2, Flattened
<1> QED BY <1>4, <1>5, <1>6, <1>7, <1>8

\* A sequence nothing is left of is empty, and the first of one is in it.
LEMMA HeadAndTail ==
  ASSUME NEW T, NEW seq \in Seq(T)
  PROVE  /\ (seq = <<>>) <=> (ToSet(seq) = {})
         /\ seq # <<>> =>
              /\ Head(seq) \in ToSet(seq) /\ Tail(seq) \in Seq(T)
              /\ ToSet(seq) = {Head(seq)} \cup ToSet(Tail(seq))
              /\ IsInjective(seq) => IsInjective(Tail(seq)) /\ Head(seq) \notin ToSet(Tail(seq))
<1>1. (seq = <<>>) <=> (ToSet(seq) = {})
  <2>1. seq # <<>> => 1 \in DOMAIN seq
    OBVIOUS
  <2> QED BY <2>1 DEF ToSet
<1>2. ASSUME seq # <<>>
      PROVE  /\ Head(seq) \in ToSet(seq) /\ Tail(seq) \in Seq(T)
             /\ ToSet(seq) = {Head(seq)} \cup ToSet(Tail(seq))
             /\ IsInjective(seq) => IsInjective(Tail(seq)) /\ Head(seq) \notin ToSet(Tail(seq))
  <2>1. /\ Len(seq) \in Nat \ {0} /\ DOMAIN seq = 1 .. Len(seq) /\ Head(seq) = seq[1]
        /\ Tail(seq) \in Seq(T) /\ DOMAIN Tail(seq) = 1 .. Len(seq) - 1
        /\ \A i \in 1 .. Len(seq) - 1 : Tail(seq)[i] = seq[i + 1]
    BY <1>2
  <2>2. \A i \in 1 .. Len(seq) :
          i = 1 \/ (i - 1 \in 1 .. Len(seq) - 1 /\ Tail(seq)[i - 1] = seq[i])
    BY <2>1
  <2>3. \A i \in 1 .. Len(seq) - 1 : i + 1 \in 1 .. Len(seq) /\ i + 1 # 1
    BY <2>1
  <2>4. ToSet(seq) = {Head(seq)} \cup ToSet(Tail(seq))
    <3>1. ToSet(seq) \subseteq {Head(seq)} \cup ToSet(Tail(seq))
      <4> SUFFICES ASSUME NEW i \in 1 .. Len(seq), i # 1 PROVE seq[i] \in ToSet(Tail(seq))
        BY <2>1 DEF ToSet
      <4> QED BY <2>1, <2>2 DEF ToSet
    <3>2. Head(seq) \in ToSet(seq)
      <4>1. 1 \in DOMAIN seq
        BY <2>1
      <4> QED BY <2>1, <4>1 DEF ToSet
    <3>3. ToSet(Tail(seq)) \subseteq ToSet(seq)
      BY <2>1, <2>3 DEF ToSet
    <3> QED BY <3>1, <3>2, <3>3
  <2>5. ASSUME IsInjective(seq) PROVE IsInjective(Tail(seq)) /\ Head(seq) \notin ToSet(Tail(seq))
    <3>1. IsInjective(Tail(seq))
      <4> SUFFICES ASSUME NEW i \in 1 .. Len(seq) - 1, NEW j \in 1 .. Len(seq) - 1, seq[i + 1] = seq[j + 1]
                   PROVE  i = j
        BY <2>1 DEF IsInjective
      <4>1. i + 1 = j + 1
        BY <2>1, <2>3, <2>5 DEF IsInjective
      <4> QED BY <4>1
    <3>2. Head(seq) \notin ToSet(Tail(seq))
      <4> SUFFICES ASSUME NEW i \in 1 .. Len(seq) - 1, seq[i + 1] = seq[1] PROVE FALSE
        BY <2>1 DEF ToSet
      <4>1. i + 1 = 1
        BY <2>1, <2>3, <2>5 DEF IsInjective
      <4> QED BY <2>1, <4>1
    <3> QED BY <3>1, <3>2
  <2>6. Head(seq) \in ToSet(seq)
    BY <2>4
  <2> QED BY <2>1, <2>4, <2>5, <2>6
<1> QED BY <1>1, <1>2

-----------------------------------------------------------------------------
(* Folds *)

\* Max picks the last of a nonempty set of positions.
LEMMA MaxIsLast ==
  ASSUME NEW n \in Nat, NEW S, S \subseteq 1 .. n, S # {}
  PROVE  Max(S) \in S /\ \A y \in S : y <= Max(S)
<1> DEFINE Free == {k \in Nat : \A T \in SUBSET (1 .. k) : T # {} => \E x \in T : \A y \in T : x >= y}
<1>1. 0 \in Free
  <2>1. 1 .. 0 = {}
    OBVIOUS
  <2> QED BY <2>1
<1>2. ASSUME NEW k \in Nat, k \in Free PROVE k + 1 \in Free
  <2> SUFFICES ASSUME NEW T \in SUBSET (1 .. k + 1), T # {} PROVE \E x \in T : \A y \in T : x >= y
    OBVIOUS
  <2>1. CASE k + 1 \in T
    BY <2>1
  <2>2. CASE k + 1 \notin T
    <3>1. T \subseteq 1 .. k
      BY <2>2
    <3> QED BY <1>2, <3>1
  <2> QED BY <2>1, <2>2
<1>3. n \in Free
  <2> HIDE DEF Free
  <2> QED BY <1>1, <1>2, Induction
<1>4. \E x \in S : \A y \in S : x >= y
  BY <1>3
<1>5. Max(S) \in S /\ \A y \in S : Max(S) >= y
  BY <1>4 DEF Max
<1> QED BY <1>5

\* The last position of an initial segment, and of a set with a new last position.
LEMMA LastPositions ==
  ASSUME NEW k \in Nat
  PROVE  /\ Max(1 .. k + 1) = k + 1 /\ (1 .. k + 1) \ {k + 1} = 1 .. k
         /\ \A S \in SUBSET (1 .. k + 1) : k + 1 \in S => Max(S) = k + 1 /\ S \ {k + 1} \in SUBSET (1 .. k)
         /\ \A S \in SUBSET (1 .. k) : S # {} => Max(S) \in S /\ S \ {Max(S)} \in SUBSET (1 .. k)
<1>1. ASSUME NEW S \in SUBSET (1 .. k + 1), k + 1 \in S
      PROVE  Max(S) = k + 1 /\ S \ {k + 1} \in SUBSET (1 .. k)
  <2>1. k + 1 \in Nat /\ S # {}
    BY <1>1
  <2>2. Max(S) \in S /\ k + 1 <= Max(S)
    BY <1>1, <2>1, MaxIsLast
  <2>3. Max(S) \in 1 .. k + 1
    BY <2>2
  <2>4. Max(S) = k + 1
    BY <2>2, <2>3
  <2>5. \A x \in S \ {k + 1} : x \in 1 .. k
    OBVIOUS
  <2> QED BY <2>4, <2>5
<1>2. \A S \in SUBSET (1 .. k) : S # {} => Max(S) \in S /\ S \ {Max(S)} \in SUBSET (1 .. k)
  BY MaxIsLast
<1>3. k + 1 \in 1 .. k + 1 /\ (1 .. k + 1) \ {k + 1} = 1 .. k
  OBVIOUS
<1> QED BY <1>1, <1>2, <1>3

\* The states a log leads through.
Through(s, log, at) ==
  /\ DOMAIN at = 0 .. Len(log) /\ at[0] = s /\ Fold(s, log) = at[Len(log)]
  /\ \A k \in 1 .. Len(log) : at[k] = FoldOne(at[k - 1], log[k])

\* Fold applies one record after the other.
LEMMA FoldSteps ==
  ASSUME NEW s, NEW R, NEW log \in Seq(R)
  PROVE  \E at : Through(s, log, at)
<1> DEFINE n == Len(log)
           Of(f, m) == f = [S \in SUBSET (1 .. m) |->
                              IF S = {} THEN s ELSE FoldOne(f[S \ {Max(S)}], log[Max(S)])]
           Defined == {m \in Nat : \E f : Of(f, m)}
<1>1. 0 \in Defined
  <2> DEFINE f == [S \in SUBSET (1 .. 0) |-> s]
  <2>1. \A S \in SUBSET (1 .. 0) : S = {}
    OBVIOUS
  <2>2. Of(f, 0)
    BY <2>1
  <2> HIDE DEF Of, f
  <2> QED BY <2>2
<1>2. ASSUME NEW m \in Nat, m \in Defined PROVE m + 1 \in Defined
  <2>1. PICK f : Of(f, m)
    BY <1>2
  <2>2. \A S \in SUBSET (1 .. m) :
          f[S] = IF S = {} THEN s ELSE FoldOne(f[S \ {Max(S)}], log[Max(S)])
    BY <2>1
  <2> DEFINE g == [S \in SUBSET (1 .. m + 1) |->
                     IF m + 1 \in S THEN FoldOne(f[S \ {m + 1}], log[m + 1]) ELSE f[S]]
  <2>3. \A S \in SUBSET (1 .. m + 1) :
          g[S] = IF S = {} THEN s ELSE FoldOne(g[S \ {Max(S)}], log[Max(S)])
    <3> SUFFICES ASSUME NEW S \in SUBSET (1 .. m + 1)
                 PROVE  g[S] = IF S = {} THEN s ELSE FoldOne(g[S \ {Max(S)}], log[Max(S)])
      OBVIOUS
    <3>1. \A T \in SUBSET (1 .. m) : g[T] = f[T]
      OBVIOUS
    <3>2. CASE m + 1 \in S
      <4>1. Max(S) = m + 1 /\ S \ {m + 1} \in SUBSET (1 .. m) /\ S # {}
        BY <3>2, LastPositions
      <4>2. g[S] = FoldOne(f[S \ {m + 1}], log[m + 1])
        BY <3>2
      <4> HIDE DEF g
      <4> QED BY <3>1, <4>1, <4>2
    <3>3. CASE m + 1 \notin S
      <4>1. S \in SUBSET (1 .. m)
        BY <3>3
      <4>2. S # {} => S \ {Max(S)} \in SUBSET (1 .. m)
        BY <4>1, LastPositions
      <4> HIDE DEF g
      <4> QED BY <2>2, <3>1, <4>1, <4>2
    <3> QED BY <3>2, <3>3
  <2>4. g = [S \in SUBSET (1 .. m + 1) |-> g[S]]
    OBVIOUS
  <2> HIDE DEF g
  <2>5. Of(g, m + 1)
    BY <2>3, <2>4
  <2> HIDE DEF Of
  <2> QED BY <2>5
<1>3. n \in Nat /\ DOMAIN log = 1 .. n
  OBVIOUS
<1>4. n \in Defined
  <2> HIDE DEF Defined
  <2> QED BY <1>1, <1>2, <1>3, Induction
<1> DEFINE iter == CHOOSE f : Of(f, n)
<1>5. Of(iter, n)
  <2>1. \E f : Of(f, n)
    BY <1>4
  <2> HIDE DEF Of
  <2> QED BY <2>1
<1>6. Fold(s, log) = iter[1 .. n]
  BY <1>3 DEF Fold, FoldLeft, MapThenFoldSet
<1> HIDE DEF iter
<1>7. \A S \in SUBSET (1 .. n) :
        iter[S] = IF S = {} THEN s ELSE FoldOne(iter[S \ {Max(S)}], log[Max(S)])
  BY <1>5
<1> DEFINE at == [k \in 0 .. n |-> iter[1 .. k]]
<1>8. at[0] = s
  <2>1. 1 .. 0 = {} /\ 0 \in 0 .. n /\ {} \in SUBSET (1 .. n)
    BY <1>3
  <2> QED BY <1>7, <2>1
<1>9. \A k \in 1 .. n : at[k] = FoldOne(at[k - 1], log[k])
  <2> SUFFICES ASSUME NEW k \in 1 .. n PROVE at[k] = FoldOne(at[k - 1], log[k])
    OBVIOUS
  <2>1. Max(1 .. k) = k /\ (1 .. k) \ {k} = 1 .. k - 1
    <3>1. k - 1 \in Nat /\ (k - 1) + 1 = k
      OBVIOUS
    <3> QED BY <3>1, LastPositions
  <2>2. 1 .. k \in SUBSET (1 .. n) /\ 1 .. k # {} /\ k \in 0 .. n /\ k - 1 \in 0 .. n
    BY <1>3
  <2> QED BY <1>7, <2>1, <2>2
<1>10. DOMAIN at = 0 .. n /\ at[n] = iter[1 .. n]
  BY <1>3
<1> HIDE DEF at
<1>11. Through(s, log, at)
  BY <1>6, <1>8, <1>9, <1>10 DEF Through
<1> QED BY <1>11

\* No record, no change.
LEMMA FoldOfNothing ==
  ASSUME NEW s, NEW R, NEW log \in Seq(R)
  PROVE  log = <<>> => Fold(s, log) = s
<1>1. PICK at : Through(s, log, at)
  BY FoldSteps
<1>2. log = <<>> => Len(log) = 0
  OBVIOUS
<1> QED BY <1>1, <1>2 DEF Through

\* A log and then another.
LEMMA FoldJoined ==
  ASSUME NEW s, NEW R, NEW a \in Seq(R), NEW b \in Seq(R)
  PROVE  Fold(s, a \o b) = Fold(Fold(s, a), b)
<1> DEFINE n == Len(a)
           m == Len(b)
           ab == a \o b
           mid == Fold(s, a)
<1>1. /\ n \in Nat /\ m \in Nat /\ ab \in Seq(R) /\ Len(ab) = n + m
      /\ \A k \in 1 .. n : ab[k] = a[k]
      /\ \A k \in 1 .. m : ab[n + k] = b[k]
  OBVIOUS
<1> HIDE DEF ab
<1> HIDE DEF mid
<1>2. PICK one : Through(s, a, one)
  BY FoldSteps
<1>3. PICK all : Through(s, ab, all)
  BY <1>1, FoldSteps
<1>4. PICK two : Through(mid, b, two)
  BY FoldSteps
<1>5. /\ one[0] = s /\ mid = one[n] /\ all[0] = s /\ Fold(s, ab) = all[Len(ab)]
      /\ two[0] = mid /\ Fold(mid, b) = two[m]
      /\ \A k \in 1 .. n : one[k] = FoldOne(one[k - 1], a[k])
      /\ \A k \in 1 .. Len(ab) : all[k] = FoldOne(all[k - 1], ab[k])
      /\ \A k \in 1 .. m : two[k] = FoldOne(two[k - 1], b[k])
  BY <1>2, <1>3, <1>4 DEF Through, mid
<1> HIDE DEF n, m
<1> DEFINE First == {k \in Nat : k <= n => all[k] = one[k]}
           Second == {k \in Nat : k <= m => all[n + k] = two[k]}
<1>6. n \in First
  <2>1. 0 \in First
    BY <1>5
  <2>2. ASSUME NEW k \in Nat, k \in First PROVE k + 1 \in First
    <3> SUFFICES ASSUME k + 1 <= n PROVE all[k + 1] = one[k + 1]
      OBVIOUS
    <3>1. k + 1 \in 1 .. n /\ k + 1 \in 1 .. Len(ab) /\ (k + 1) - 1 = k /\ k <= n
      BY <1>1
    <3>2. all[k + 1] = FoldOne(all[k], ab[k + 1]) /\ one[k + 1] = FoldOne(one[k], a[k + 1])
      BY <1>5, <3>1
    <3>3. all[k] = one[k] /\ ab[k + 1] = a[k + 1]
      BY <1>1, <2>2, <3>1
    <3> QED BY <3>2, <3>3
  <2> HIDE DEF First
  <2> QED BY <1>1, <2>1, <2>2, Induction
<1>7. all[n] = mid
  BY <1>1, <1>6, <1>5
<1>8. m \in Second
  <2>1. 0 \in Second
    BY <1>1, <1>7, <1>5
  <2>2. ASSUME NEW k \in Nat, k \in Second PROVE k + 1 \in Second
    <3> SUFFICES ASSUME k + 1 <= m PROVE all[n + (k + 1)] = two[k + 1]
      OBVIOUS
    <3>1. k + 1 \in 1 .. m /\ n + (k + 1) \in 1 .. Len(ab) /\ (k + 1) - 1 = k
          /\ (n + (k + 1)) - 1 = n + k /\ k <= m
      BY <1>1
    <3>2. all[n + (k + 1)] = FoldOne(all[n + k], ab[n + (k + 1)]) /\ two[k + 1] = FoldOne(two[k], b[k + 1])
      BY <1>5, <3>1
    <3>3. all[n + k] = two[k] /\ ab[n + (k + 1)] = b[k + 1]
      BY <1>1, <2>2, <3>1
    <3> QED BY <3>2, <3>3
  <2> HIDE DEF Second
  <2> QED BY <1>1, <2>1, <2>2, Induction
<1>9. Fold(s, ab) = Fold(mid, b)
  BY <1>1, <1>8, <1>5
<1> QED BY <1>9 DEF ab, mid

-----------------------------------------------------------------------------
(* The graph *)

\* What a valid playbook is, of the one this run drives.
LEMMA GraphFacts ==
  ASSUME shape \in DOMAIN Graphs
  PROVE  /\ Graph.nodes \in Seq(Nodes) /\ IsInjective(Graph.nodes) /\ "start" \in Nodes
         /\ Graph.edges \in Seq(Edges) /\ IsFiniteSet(Nodes)
         /\ \A e \in Edges : /\ e.from \in Nodes /\ e.to \in Nodes /\ e.cap \in Nat
                             /\ <<e.from, e.to>> \in Pairs
         /\ \A p \in Pairs : p[1] \in Nodes /\ p[2] \in Nodes /\ p = <<p[1], p[2]>>
         /\ Graph.finish \subseteq Nodes
<1> DEFINE G == Graphs[shape]
           nodes == ToSet(G.nodes)
           edges == [from: nodes, to: nodes, on: {"always", "success", "failure", "fallback"},
                     cap: Nat, join: {"none", "all", "any"}, strict: BOOLEAN]
<1>1. /\ G.nodes \in Seq(nodes) /\ IsInjective(G.nodes) /\ "start" \in nodes /\ G.edges \in Seq(edges)
      /\ UNION {G.tasks, G.fallible, G.finish, G.failure} \subseteq nodes
  BY GraphsAreValid
<1>2. Graph = G /\ Nodes = nodes /\ Edges = ToSet(G.edges)
  BY DEF Graph, Nodes, Edges
<1>3. G.edges \in Seq(Edges) /\ Edges \subseteq edges
  <2> HIDE DEF edges, nodes, G
  <2> QED BY <1>1, <1>2, Elements
<1>4. IsFiniteSet(Nodes)
  <2>1. G.nodes \in [1 .. Len(G.nodes) -> Nodes] /\ Len(G.nodes) \in Nat
    <3> HIDE DEF G
    <3> QED BY <1>1, <1>2
  <2>2. \A n \in Nodes : \E i \in 1 .. Len(G.nodes) : G.nodes[i] = n
    <3> HIDE DEF G
    <3> QED BY <1>2, <2>1 DEF ToSet
  <2>3. G.nodes \in Surjection(1 .. Len(G.nodes), Nodes)
    <3> HIDE DEF G
    <3> QED BY <2>1, <2>2 DEF Surjection
  <2> QED BY <2>1, <2>3, FS_Interval, FS_Surjection
<1>5. \A e \in Edges : e.from \in Nodes /\ e.to \in Nodes /\ e.cap \in Nat /\ <<e.from, e.to>> \in Pairs
  BY <1>2, <1>3 DEF Pairs
<1>6. \A p \in Pairs : p[1] \in Nodes /\ p[2] \in Nodes /\ p = <<p[1], p[2]>>
  BY <1>5 DEF Pairs
<1>7. Graph.finish \subseteq Nodes
  BY <1>1, <1>2
<1> QED BY <1>1, <1>2, <1>3, <1>4, <1>5, <1>6, <1>7

\* A run keeps its playbook.
LEMMA SameGraph ==
  ASSUME UNCHANGED shape
  PROVE  /\ Nodes' = Nodes /\ Edges' = Edges /\ Pairs' = Pairs /\ Graph' = Graph
         /\ RunStates' = RunStates /\ Memories' = Memories
BY DEF Nodes, Edges, Pairs, Graph, RunStates, Memories

-----------------------------------------------------------------------------
(* What a sequence of records makes of a state *)

\* The records that tell of the nodes of a set, and those that tell of no node's run.
NodeRecords(S) == {NodeStarted(n) : n \in S} \cup {NodeFinished(n, status) : n \in S, status \in FinalStatuses}
CountedHopRecords == {CountedHop(p[1], p[2]) : p \in Pairs}
HopRecords == {Hop(p[1], p[2]) : p \in Pairs} \cup CountedHopRecords
Refusals == {JoinRefused(n) : n \in Nodes}
RunRecords == {RunIs(status) : status \in RunStatuses}
LogRecords(S) == NodeRecords(S) \cup HopRecords \cup Refusals \cup RunRecords

\* What the fold records of the nodes that finished, run, or finished last.
Recorded(s) ==
  /\ \A n \in Nodes : IsFinished(s, n) => s.finished[n] > 0
  /\ \A n \in Nodes : s.nodes[n] = "running" => s.started[n] > 0
  /\ s.last # "none" => s.finished[s.last] > 0

\* No more was counted on a bounded edge than its cap.
Bounded(s) ==
  \A p \in Pairs : s.counts[p] > 0 =>
    \E e \in Edges : e.from = p[1] /\ e.to = p[2] /\ s.counts[p] <= e.cap

\* Where a run may be in a state.
InvitedIn(s) == {"start"} \cup {e.to : e \in {d \in Edges : s.finished[d.from] > 0}}

\* A state some records on the nodes of S lead to from another.
Follows(s, t, S) ==
  /\ t \in RunStates
  /\ Recorded(t)
  /\ \A n \in Nodes : s.finished[n] > 0 => t.finished[n] > 0
  /\ \A n \in Nodes \ S : /\ t.nodes[n] = s.nodes[n]
                          /\ t.started[n] = s.started[n] /\ t.finished[n] = s.finished[n]

\* The records of a log count each bounded edge once at most, and only below its cap.
CountsOnce(s, log) ==
  \A i \in DOMAIN log : log[i] \in CountedHopRecords =>
    /\ \E e \in Edges : e.from = log[i].node /\ e.to = log[i].to /\ s.counts[<<e.from, e.to>>] < e.cap
    /\ \A j \in DOMAIN log : log[j] = log[i] => j = i

Fits(s, log, S) == log \in Seq(LogRecords(S)) /\ CountsOnce(s, log)

\* A node's start.
LEMMA FoldStarted ==
  ASSUME NEW t \in RunStates, NEW n \in Nodes, NEW u, u = FoldOne(t, NodeStarted(n))
  PROVE  /\ u \in RunStates
         /\ u.nodes = [t.nodes EXCEPT ![n] = "running"] /\ u.finished = t.finished /\ u.last = t.last
         /\ u.started \in [Nodes -> Nat] /\ u.started[n] > 0
         /\ \A m \in Nodes \ {n} : u.started[m] = t.started[m]
         /\ u.run = t.run /\ u.counts = t.counts
<1> DEFINE k == t.seq + 1
<1>1. k \in Nat /\ k > 0
  BY DEF RunStates
<1>2. u = [t EXCEPT !.seq = k, !.started[n] = k, !.nodes[n] = "running", !.refused = @ \ {n}]
  BY DEF FoldOne, NodeStarted, Record
<1>3. u \in RunStates
  <2> DEFINE nodes == [t.nodes EXCEPT ![n] = "running"]
             started == [t.started EXCEPT ![n] = k]
             refused == t.refused \ {n}
  <2>1. nodes \in [Nodes -> Statuses] /\ started \in [Nodes -> Nat] /\ refused \in SUBSET Nodes
    BY <1>1 DEF RunStates, Statuses
  <2>2. u = [t EXCEPT !.seq = k, !.started = started, !.nodes = nodes, !.refused = refused]
    BY <1>2
  <2> HIDE DEF k, nodes, started, refused
  <2> QED BY <1>1, <2>1, <2>2 DEF RunStates
<1> HIDE DEF k
<1>4. u.nodes = [t.nodes EXCEPT ![n] = "running"] /\ u.started = [t.started EXCEPT ![n] = k]
  BY <1>2 DEF RunStates
<1>5. u.finished = t.finished /\ u.last = t.last /\ u.run = t.run /\ u.counts = t.counts
  BY <1>2 DEF RunStates
<1>6. t.started \in [Nodes -> Nat]
  BY DEF RunStates
<1>7. u.started \in [Nodes -> Nat] /\ u.started[n] > 0 /\ \A m \in Nodes \ {n} : u.started[m] = t.started[m]
  BY <1>1, <1>4, <1>6
<1> QED BY <1>3, <1>4, <1>5, <1>7

\* A node's finish.
LEMMA FoldFinished ==
  ASSUME NEW t \in RunStates, NEW n \in Nodes, NEW status \in FinalStatuses,
         NEW u, u = FoldOne(t, NodeFinished(n, status))
  PROVE  /\ u \in RunStates
         /\ u.nodes = [t.nodes EXCEPT ![n] = status] /\ u.started = t.started /\ u.last = n
         /\ u.finished \in [Nodes -> Nat] /\ u.finished[n] > 0
         /\ \A m \in Nodes \ {n} : u.finished[m] = t.finished[m]
         /\ u.run = t.run /\ u.counts = t.counts
<1> DEFINE k == t.seq + 1
           more == t.runs[n] + 1
<1>1. k \in Nat /\ k > 0 /\ more \in Nat
  BY DEF RunStates
<1>2. u = [t EXCEPT !.seq = k, !.finished[n] = k, !.nodes[n] = status, !.runs[n] = more, !.last = n]
  BY DEF FoldOne, NodeFinished, Record
<1>3. status \in Statuses
  BY DEF Statuses, FinalStatuses
<1>4. u \in RunStates
  <2> DEFINE nodes == [t.nodes EXCEPT ![n] = status]
             finished == [t.finished EXCEPT ![n] = k]
             runs == [t.runs EXCEPT ![n] = more]
  <2>1. nodes \in [Nodes -> Statuses] /\ finished \in [Nodes -> Nat] /\ runs \in [Nodes -> Nat]
    BY <1>1, <1>3 DEF RunStates
  <2>2. u = [t EXCEPT !.seq = k, !.finished = finished, !.nodes = nodes, !.runs = runs, !.last = n]
    BY <1>2
  <2> HIDE DEF k, nodes, finished, runs
  <2> QED BY <1>1, <2>1, <2>2 DEF RunStates
<1> HIDE DEF k, more
<1>5. u.nodes = [t.nodes EXCEPT ![n] = status] /\ u.finished = [t.finished EXCEPT ![n] = k]
  BY <1>2 DEF RunStates
<1>6. u.started = t.started /\ u.last = n /\ u.run = t.run /\ u.counts = t.counts
  BY <1>2 DEF RunStates
<1>7. t.finished \in [Nodes -> Nat]
  BY DEF RunStates
<1>8. u.finished \in [Nodes -> Nat] /\ u.finished[n] > 0 /\ \A m \in Nodes \ {n} : u.finished[m] = t.finished[m]
  BY <1>1, <1>5, <1>7
<1> QED BY <1>4, <1>5, <1>6, <1>8

\* A hop.
LEMMA FoldHop ==
  ASSUME NEW t \in RunStates, NEW p \in Pairs, p = <<p[1], p[2]>>, NEW u, u = FoldOne(t, Hop(p[1], p[2]))
  PROVE  /\ u \in RunStates
         /\ u.nodes = t.nodes /\ u.started = t.started /\ u.finished = t.finished /\ u.last = t.last
         /\ u.run = t.run /\ u.counts = t.counts
<1> DEFINE k == t.seq + 1
           count == t.counts[p]
<1>1. k \in Nat /\ k > 0 /\ count \in Nat
  BY DEF RunStates
<1>2. u = [t EXCEPT !.seq = k, !.hops[p] = k, !.counts[p] = count]
  BY DEF FoldOne, Hop, Record
<1>3. u \in RunStates /\ u.counts = [t.counts EXCEPT ![p] = count] /\ t.counts \in [Pairs -> Nat]
  <2> DEFINE hops == [t.hops EXCEPT ![p] = k]
             counts == [t.counts EXCEPT ![p] = count]
  <2>1. hops \in [Pairs -> Nat] /\ counts \in [Pairs -> Nat] /\ t.counts \in [Pairs -> Nat]
    BY <1>1 DEF RunStates
  <2>2. u = [t EXCEPT !.seq = k, !.hops = hops, !.counts = counts]
    BY <1>2
  <2>3. u \in RunStates /\ u.counts = counts
    <3> HIDE DEF k, hops, counts
    <3> QED BY <1>1, <2>1, <2>2 DEF RunStates
  <2> QED BY <2>1, <2>3
<1>4. /\ u.nodes = t.nodes /\ u.started = t.started /\ u.finished = t.finished
      /\ u.last = t.last /\ u.run = t.run
  <2> HIDE DEF k, count
  <2> QED BY <1>2 DEF RunStates
<1>5. u.counts = t.counts
  BY <1>3
<1> QED BY <1>3, <1>4, <1>5

\* A counted hop.
LEMMA FoldCountedHop ==
  ASSUME NEW t \in RunStates, NEW p \in Pairs, p = <<p[1], p[2]>>, NEW u, u = FoldOne(t, CountedHop(p[1], p[2]))
  PROVE  /\ u \in RunStates
         /\ u.nodes = t.nodes /\ u.started = t.started /\ u.finished = t.finished /\ u.last = t.last
         /\ u.run = t.run /\ u.counts = [t.counts EXCEPT ![p] = @ + 1]
<1> DEFINE k == t.seq + 1
           count == t.counts[p] + 1
<1>1. k \in Nat /\ k > 0 /\ count \in Nat
  BY DEF RunStates
<1>2. u = [t EXCEPT !.seq = k, !.hops[p] = k, !.counts[p] = count]
  BY DEF FoldOne, CountedHop, Record
<1>3. u \in RunStates /\ u.counts = [t.counts EXCEPT ![p] = count] /\ t.counts \in [Pairs -> Nat]
  <2> DEFINE hops == [t.hops EXCEPT ![p] = k]
             counts == [t.counts EXCEPT ![p] = count]
  <2>1. hops \in [Pairs -> Nat] /\ counts \in [Pairs -> Nat] /\ t.counts \in [Pairs -> Nat]
    BY <1>1 DEF RunStates
  <2>2. u = [t EXCEPT !.seq = k, !.hops = hops, !.counts = counts]
    BY <1>2
  <2>3. u \in RunStates /\ u.counts = counts
    <3> HIDE DEF k, hops, counts
    <3> QED BY <1>1, <2>1, <2>2 DEF RunStates
  <2> QED BY <2>1, <2>3
<1>4. /\ u.nodes = t.nodes /\ u.started = t.started /\ u.finished = t.finished
      /\ u.last = t.last /\ u.run = t.run
  <2> HIDE DEF k, count
  <2> QED BY <1>2 DEF RunStates
<1>5. u.counts = [t.counts EXCEPT ![p] = @ + 1]
  BY <1>3
<1> QED BY <1>3, <1>4, <1>5

\* A refused join.
LEMMA FoldRefused ==
  ASSUME NEW t \in RunStates, NEW n \in Nodes, NEW u, u = FoldOne(t, JoinRefused(n))
  PROVE  /\ u \in RunStates
         /\ u.nodes = t.nodes /\ u.started = t.started /\ u.finished = t.finished /\ u.last = t.last
         /\ u.run = t.run /\ u.counts = t.counts
<1> DEFINE k == t.seq + 1
<1>1. k \in Nat
  BY DEF RunStates
<1> DEFINE refused == t.refused \cup {n}
<1>2. u = [t EXCEPT !.seq = k, !.refused = refused]
  BY DEF FoldOne, JoinRefused, Record
<1>3. refused \in SUBSET Nodes
  BY DEF RunStates
<1> HIDE DEF k, refused
<1> QED BY <1>1, <1>2, <1>3 DEF RunStates

\* The run's own records.
LEMMA FoldRun ==
  ASSUME NEW t \in RunStates, NEW status \in RunStatuses, NEW u, u = FoldOne(t, RunIs(status))
  PROVE  /\ u \in RunStates
         /\ u.nodes = t.nodes /\ u.started = t.started /\ u.finished = t.finished /\ u.last = t.last
         /\ u.run = status /\ u.counts = t.counts /\ u.hops = t.hops /\ u.refused = t.refused
<1> DEFINE k == t.seq + 1
<1>1. k \in Nat
  BY DEF RunStates
<1>2. u = [t EXCEPT !.seq = k, !.run = status]
  BY DEF FoldOne, RunIs, Record
<1> HIDE DEF k
<1> QED BY <1>1, <1>2 DEF RunStates

\* The kinds of record are told apart.
LEMMA RecordsDiffer ==
  ASSUME NEW n, NEW m, NEW status
  PROVE  /\ NodeStarted(n) \notin CountedHopRecords \cup RunRecords
         /\ NodeFinished(n, status) \notin CountedHopRecords \cup RunRecords
         /\ Hop(n, m) \notin CountedHopRecords \cup RunRecords
         /\ CountedHop(n, m) \notin RunRecords
         /\ JoinRefused(n) \notin CountedHopRecords \cup RunRecords
         /\ RunIs(status) \notin CountedHopRecords
<1>1. /\ NodeStarted(n).kind = "node_started" /\ NodeFinished(n, status).kind = "node_finished"
      /\ Hop(n, m).kind = "hop" /\ Hop(n, m).status = "uncounted" /\ CountedHop(n, m).kind = "hop"
      /\ JoinRefused(n).kind = "join_refused" /\ RunIs(status).kind = "run"
  BY DEF NodeStarted, NodeFinished, Hop, CountedHop, JoinRefused, RunIs, Record
<1>2. \A r \in CountedHopRecords : r.kind = "hop" /\ r.status = "counted"
  BY DEF CountedHopRecords, CountedHop, Record
<1>3. \A r \in RunRecords : r.kind = "run"
  BY DEF RunRecords, RunIs, Record
<1> QED BY <1>1, <1>2, <1>3

\* One more record.
LEMMA OneFollows ==
  ASSUME shape \in DOMAIN Graphs, NEW S \in SUBSET Nodes, NEW s, NEW t, Follows(s, t, S),
         NEW r \in LogRecords(S), NEW u, u = FoldOne(t, r)
  PROVE  /\ Follows(s, u, S)
         /\ r \notin RunRecords => u.run = t.run
         /\ r \in RunRecords => u.run = r.status
         /\ u.counts = IF r \in CountedHopRecords THEN [t.counts EXCEPT ![<<r.node, r.to>>] = @ + 1] ELSE t.counts
<1>1. t \in RunStates
  BY DEF Follows
<1>2. ASSUME u.nodes = t.nodes, u.started = t.started, u.finished = t.finished, u.last = t.last, u \in RunStates
      PROVE  Follows(s, u, S)
  BY <1>2 DEF Follows, Recorded, IsFinished
<1>3. ASSUME NEW n \in S, r = NodeStarted(n)
      PROVE  Follows(s, u, S) /\ u.run = t.run /\ u.counts = t.counts /\ r \notin CountedHopRecords \cup RunRecords
  <2>1. /\ u \in RunStates
        /\ u.nodes = [t.nodes EXCEPT ![n] = "running"] /\ u.finished = t.finished /\ u.last = t.last
        /\ u.started \in [Nodes -> Nat] /\ u.started[n] > 0
        /\ \A m \in Nodes \ {n} : u.started[m] = t.started[m]
        /\ u.run = t.run /\ u.counts = t.counts
    BY <1>1, <1>3, FoldStarted
  <2>2. t.nodes \in [Nodes -> Statuses]
    BY <1>1 DEF RunStates
  <2>3. Recorded(u)
    BY <2>1, <2>2 DEF Follows, Recorded, IsFinished
  <2>4. Follows(s, u, S)
    BY <2>1, <2>2, <2>3 DEF Follows
  <2> QED BY <1>3, <2>1, <2>4, RecordsDiffer
<1>4. ASSUME NEW n \in S, NEW status \in FinalStatuses, r = NodeFinished(n, status)
      PROVE  Follows(s, u, S) /\ u.run = t.run /\ u.counts = t.counts /\ r \notin CountedHopRecords \cup RunRecords
  <2>1. /\ u \in RunStates
        /\ u.nodes = [t.nodes EXCEPT ![n] = status] /\ u.started = t.started /\ u.last = n
        /\ u.finished \in [Nodes -> Nat] /\ u.finished[n] > 0
        /\ \A m \in Nodes \ {n} : u.finished[m] = t.finished[m]
        /\ u.run = t.run /\ u.counts = t.counts
    BY <1>1, <1>4, FoldFinished
  <2>2. t.nodes \in [Nodes -> Statuses] /\ status # "running"
    BY <1>1 DEF RunStates, FinalStatuses
  <2>3. Recorded(u)
    BY <2>1, <2>2 DEF Follows, Recorded, IsFinished
  <2>4. Follows(s, u, S)
    BY <2>1, <2>2, <2>3 DEF Follows
  <2> QED BY <1>4, <2>1, <2>4, RecordsDiffer
<1>5. ASSUME NEW p \in Pairs, r = Hop(p[1], p[2])
      PROVE  Follows(s, u, S) /\ u.run = t.run /\ u.counts = t.counts /\ r \notin CountedHopRecords \cup RunRecords
  <2>1. p = <<p[1], p[2]>> /\ u = FoldOne(t, Hop(p[1], p[2]))
    BY <1>5, GraphFacts
  <2>2. /\ u \in RunStates
        /\ u.nodes = t.nodes /\ u.started = t.started /\ u.finished = t.finished /\ u.last = t.last
        /\ u.run = t.run /\ u.counts = t.counts
    BY <1>1, <2>1, FoldHop
  <2> QED BY <1>2, <1>5, <2>2, RecordsDiffer
<1>6. ASSUME NEW p \in Pairs, r = CountedHop(p[1], p[2])
      PROVE  /\ Follows(s, u, S) /\ u.run = t.run /\ r \in CountedHopRecords /\ r \notin RunRecords
             /\ u.counts = [t.counts EXCEPT ![<<r.node, r.to>>] = @ + 1]
  <2>1. p = <<p[1], p[2]>>
    BY GraphFacts
  <2>2. /\ u \in RunStates
        /\ u.nodes = t.nodes /\ u.started = t.started /\ u.finished = t.finished /\ u.last = t.last
        /\ u.run = t.run /\ u.counts = [t.counts EXCEPT ![p] = @ + 1]
    BY <1>1, <1>6, <2>1, FoldCountedHop
  <2>3. r \in CountedHopRecords /\ r.node = p[1] /\ r.to = p[2]
    BY <1>6 DEF CountedHopRecords, CountedHop, Record
  <2> QED BY <1>2, <1>6, <2>1, <2>2, <2>3, RecordsDiffer
<1>7. ASSUME NEW n \in Nodes, r = JoinRefused(n)
      PROVE  Follows(s, u, S) /\ u.run = t.run /\ u.counts = t.counts /\ r \notin CountedHopRecords \cup RunRecords
  <2>1. /\ u \in RunStates
        /\ u.nodes = t.nodes /\ u.started = t.started /\ u.finished = t.finished /\ u.last = t.last
        /\ u.run = t.run /\ u.counts = t.counts
    BY <1>1, <1>7, FoldRefused
  <2> QED BY <1>2, <1>7, <2>1, RecordsDiffer
<1>8. ASSUME NEW status \in RunStatuses, r = RunIs(status)
      PROVE  Follows(s, u, S) /\ u.run = r.status /\ u.counts = t.counts /\ r \in RunRecords
             /\ r \notin CountedHopRecords
  <2>1. /\ u \in RunStates
        /\ u.nodes = t.nodes /\ u.started = t.started /\ u.finished = t.finished /\ u.last = t.last
        /\ u.run = status /\ u.counts = t.counts
    BY <1>1, <1>8, FoldRun
  <2>2. r.status = status /\ r \in RunRecords
    BY <1>8 DEF RunRecords, RunIs, Record
  <2> QED BY <1>2, <1>8, <2>1, <2>2, RecordsDiffer
<1> QED BY <1>3, <1>4, <1>5, <1>6, <1>7, <1>8
     DEF LogRecords, NodeRecords, HopRecords, CountedHopRecords, Refusals, RunRecords

\* The run is in progress before the records of a log, or from the first of them on, and after.
StaysRunning(s, log) ==
  /\ s.run = "running" \/ (log # <<>> /\ log[1] = RunIs("running"))
  /\ \A i \in DOMAIN log : log[i] \in RunRecords => log[i].status = "running"

\* A whole log: what it leaves alone, and what it counted.
LEMMA FoldFollows ==
  ASSUME shape \in DOMAIN Graphs, NEW S \in SUBSET Nodes, NEW s \in RunStates, Recorded(s), Bounded(s),
         NEW log, Fits(s, log, S)
  PROVE  /\ Follows(s, Fold(s, log), S)
         /\ Bounded(Fold(s, log))
         /\ StaysRunning(s, log) => Fold(s, log).run = "running"
         /\ \A p \in Pairs : CountedHop(p[1], p[2]) \notin ToSet(log) => Fold(s, log).counts[p] = s.counts[p]
         /\ log # <<>> => \E t : Follows(s, t, S) /\ Fold(s, log) = FoldOne(t, log[Len(log)])
<1> DEFINE n == Len(log)
           counted(k, p) == \E i \in 1 .. k : log[i] = CountedHop(p[1], p[2])
<1>1. /\ log \in Seq(LogRecords(S)) /\ n \in Nat /\ DOMAIN log = 1 .. n
      /\ \A i \in 1 .. n : log[i] \in LogRecords(S)
  BY DEF Fits
<1>2. PICK at : /\ DOMAIN at = 0 .. n /\ at[0] = s /\ Fold(s, log) = at[n]
                /\ \A k \in 1 .. n : at[k] = FoldOne(at[k - 1], log[k])
  <2> DEFINE R == LogRecords(S)
  <2>1. log \in Seq(R)
    BY <1>1
  <2> HIDE DEF R
  <2>2. PICK at : Through(s, log, at)
    BY <2>1, FoldSteps
  <2> QED BY <2>2 DEF Through
<1>3. Follows(s, s, S)
  BY DEF Follows
<1>4. \A p \in Pairs : p = <<p[1], p[2]>>
  BY GraphFacts
<1>5. \A i \in 1 .. n : log[i] \in CountedHopRecords =>
        /\ \E e \in Edges : e.from = log[i].node /\ e.to = log[i].to /\ s.counts[<<e.from, e.to>>] < e.cap
        /\ \A j \in 1 .. n : log[j] = log[i] => j = i
  BY <1>1 DEF Fits, CountsOnce
<1> DEFINE Counts(k) == \A p \in Pairs : at[k].counts[p] = IF counted(k, p) THEN s.counts[p] + 1 ELSE s.counts[p]
           Runs(k) == StaysRunning(s, log) => (k >= 1 \/ s.run = "running" => at[k].run = "running")
           Good == {k \in Nat : k \in 0 .. n => Follows(s, at[k], S) /\ Counts(k) /\ Runs(k)}
<1>6. 0 \in Good
  <2>1. \A p \in Pairs : ~counted(0, p)
    OBVIOUS
  <2>2. Counts(0)
    <3> HIDE DEF counted
    <3> QED BY <1>2, <2>1
  <2>3. Runs(0)
    BY <1>2
  <2> QED BY <1>2, <1>3, <2>2, <2>3
<1>7. ASSUME NEW k \in Nat, k \in Good PROVE k + 1 \in Good
  <2> SUFFICES ASSUME k + 1 \in 0 .. n PROVE Follows(s, at[k + 1], S) /\ Counts(k + 1) /\ Runs(k + 1)
    OBVIOUS
  <2> DEFINE r == log[k + 1]
             t == at[k]
             u == at[k + 1]
  <2>1. k \in 0 .. n /\ k + 1 \in 1 .. n /\ (k + 1) - 1 = k
    OBVIOUS
  <2>2. Follows(s, t, S) /\ Counts(k) /\ Runs(k) /\ r \in LogRecords(S) /\ u = FoldOne(t, r)
    BY <1>1, <1>2, <1>7, <2>1
  <2>3. t.counts \in [Pairs -> Nat]
    BY <2>2 DEF Follows, RunStates
  <2>4. /\ Follows(s, u, S)
        /\ r \notin RunRecords => u.run = t.run
        /\ r \in RunRecords => u.run = r.status
        /\ u.counts = IF r \in CountedHopRecords THEN [t.counts EXCEPT ![<<r.node, r.to>>] = @ + 1] ELSE t.counts
    <3> HIDE DEF r, t, u
    <3> QED BY <2>2, OneFollows
  <2>5. \A p \in Pairs : counted(k + 1, p) <=> counted(k, p) \/ r = CountedHop(p[1], p[2])
    <3>1. 1 .. k + 1 = (1 .. k) \cup {k + 1}
      BY <2>1
    <3> QED BY <3>1
  <2>6. Counts(k + 1)
    <3>1. CASE r \notin CountedHopRecords
      <4>1. \A p \in Pairs : r # CountedHop(p[1], p[2])
        BY <3>1 DEF CountedHopRecords
      <4> HIDE DEF counted, r
      <4> QED BY <2>2, <2>4, <2>5, <3>1, <4>1
    <3>2. CASE r \in CountedHopRecords
      <4>1. PICK q \in Pairs : r = CountedHop(q[1], q[2])
        BY <3>2 DEF CountedHopRecords
      <4>2. r.node = q[1] /\ r.to = q[2]
        BY <4>1 DEF CountedHop, Record
      <4>3. <<r.node, r.to>> = q
        BY <1>4, <4>2
      <4>4. ~counted(k, q)
        <5> SUFFICES ASSUME NEW i \in 1 .. k, log[i] = r PROVE FALSE
          BY <4>1
        <5>1. i \in 1 .. n /\ i # k + 1
          BY <2>1
        <5> QED BY <1>5, <2>1, <3>2, <5>1
      <4>5. \A p \in Pairs : r = CountedHop(p[1], p[2]) => p = q
        <5> SUFFICES ASSUME NEW p \in Pairs, r = CountedHop(p[1], p[2]) PROVE p = q
          OBVIOUS
        <5>1. r.node = p[1] /\ r.to = p[2]
          BY DEF CountedHop, Record
        <5> QED BY <1>4, <4>2, <5>1
      <4>6. u.counts = [t.counts EXCEPT ![q] = @ + 1]
        BY <2>4, <3>2, <4>3
      <4> HIDE DEF counted, r
      <4> QED BY <2>2, <2>3, <2>5, <4>1, <4>4, <4>5, <4>6
    <3> QED BY <3>1, <3>2
  <2>7. Runs(k + 1)
    <3> SUFFICES ASSUME StaysRunning(s, log) PROVE u.run = "running"
      OBVIOUS
    <3>1. CASE r \in RunRecords
      BY <1>1, <2>1, <2>4, <3>1 DEF StaysRunning
    <3>2. CASE r \notin RunRecords
      <4>1. RunIs("running") \in RunRecords
        BY DEF RunRecords, RunStatuses
      <4>2. k >= 1 \/ s.run = "running"
        BY <3>2, <4>1 DEF StaysRunning
      <4> QED BY <2>2, <2>4, <3>2, <4>2
    <3> QED BY <3>1, <3>2
  <2> QED BY <2>4, <2>6, <2>7
<1>8. \A k \in Nat : k \in Good
  <2> HIDE DEF Good
  <2> QED BY <1>6, <1>7, Induction
<1>9. Follows(s, at[n], S) /\ Counts(n) /\ Runs(n)
  BY <1>1, <1>8
<1>10. Bounded(at[n])
  <2> SUFFICES ASSUME NEW p \in Pairs, at[n].counts[p] > 0
               PROVE  \E e \in Edges : e.from = p[1] /\ e.to = p[2] /\ at[n].counts[p] <= e.cap
    BY DEF Bounded
  <2>1. s.counts[p] \in Nat
    BY DEF RunStates
  <2>2. CASE ~counted(n, p)
    <3>1. at[n].counts[p] = s.counts[p]
      <4> HIDE DEF counted
      <4> QED BY <1>9, <2>2
    <3> QED BY <3>1 DEF Bounded
  <2>3. CASE counted(n, p)
    <3>1. at[n].counts[p] = s.counts[p] + 1
      <4> HIDE DEF counted
      <4> QED BY <1>9, <2>3
    <3>2. PICK i \in 1 .. n : log[i] = CountedHop(p[1], p[2])
      BY <2>3
    <3>3. log[i] \in CountedHopRecords /\ log[i].node = p[1] /\ log[i].to = p[2]
      BY <3>2 DEF CountedHopRecords, CountedHop, Record
    <3>4. PICK e \in Edges : e.from = p[1] /\ e.to = p[2] /\ s.counts[<<e.from, e.to>>] < e.cap
      BY <1>5, <3>3
    <3>5. s.counts[p] < e.cap /\ e.cap \in Nat
      BY <1>4, <3>4, GraphFacts
    <3> QED BY <2>1, <3>1, <3>4, <3>5
  <2> QED BY <2>2, <2>3
<1>11. StaysRunning(s, log) => at[n].run = "running"
  <2>1. CASE n >= 1 \/ s.run = "running"
    BY <1>9, <2>1
  <2>2. CASE ~(n >= 1 \/ s.run = "running")
    <3>1. log = <<>>
      BY <1>1, <2>2
    <3> QED BY <2>2, <3>1 DEF StaysRunning
  <2> QED BY <2>1, <2>2
<1>12. ASSUME NEW p \in Pairs, CountedHop(p[1], p[2]) \notin ToSet(log)
       PROVE  at[n].counts[p] = s.counts[p]
  <2>1. ~counted(n, p)
    BY <1>1, <1>12 DEF ToSet
  <2> HIDE DEF counted
  <2> QED BY <1>9, <2>1
<1>13. ASSUME log # <<>> PROVE \E t : Follows(s, t, S) /\ at[n] = FoldOne(t, log[n])
  <2>1. n \in 1 .. n /\ n - 1 \in 0 .. n /\ n - 1 \in Nat
    BY <1>1, <1>13
  <2>2. Follows(s, at[n - 1], S)
    BY <1>8, <2>1
  <2> QED BY <1>2, <2>1, <2>2
<1> QED BY <1>2, <1>9, <1>10, <1>11, <1>12, <1>13

\* A log that fits, and then another that counts other edges.
LEMMA FitsJoined ==
  ASSUME NEW S, NEW s, NEW a, NEW b, Fits(s, a, S), Fits(s, b, S),
         ToSet(a) \cap ToSet(b) \cap CountedHopRecords = {}
  PROVE  Fits(s, a \o b, S)
<1> DEFINE R == LogRecords(S)
<1>1. a \in Seq(R) /\ b \in Seq(R)
  BY DEF Fits
<1> HIDE DEF R
<1>2. /\ a \o b \in Seq(R) /\ Len(a) \in Nat /\ Len(b) \in Nat
      /\ DOMAIN (a \o b) = 1 .. Len(a) + Len(b) /\ DOMAIN a = 1 .. Len(a) /\ DOMAIN b = 1 .. Len(b)
      /\ \A i \in 1 .. Len(a) + Len(b) :
           \/ i \in 1 .. Len(a) /\ (a \o b)[i] = a[i]
           \/ i - Len(a) \in 1 .. Len(b) /\ (a \o b)[i] = b[i - Len(a)]
  BY <1>1
<1>3. ASSUME NEW i \in 1 .. Len(a) + Len(b), (a \o b)[i] \in CountedHopRecords
      PROVE  /\ \E e \in Edges : /\ e.from = (a \o b)[i].node /\ e.to = (a \o b)[i].to
                                 /\ s.counts[<<e.from, e.to>>] < e.cap
             /\ \A j \in 1 .. Len(a) + Len(b) : (a \o b)[j] = (a \o b)[i] => j = i
  <2>1. \A k \in 1 .. Len(a), l \in 1 .. Len(b) : a[k] = b[l] => a[k] \notin CountedHopRecords
    BY <1>2 DEF ToSet
  <2>2. \A k \in 1 .. Len(a) : a[k] \in CountedHopRecords =>
          /\ \E e \in Edges : e.from = a[k].node /\ e.to = a[k].to /\ s.counts[<<e.from, e.to>>] < e.cap
          /\ \A j \in 1 .. Len(a) : a[j] = a[k] => j = k
    BY <1>2 DEF Fits, CountsOnce
  <2>3. \A k \in 1 .. Len(b) : b[k] \in CountedHopRecords =>
          /\ \E e \in Edges : e.from = b[k].node /\ e.to = b[k].to /\ s.counts[<<e.from, e.to>>] < e.cap
          /\ \A j \in 1 .. Len(b) : b[j] = b[k] => j = k
    BY <1>2 DEF Fits, CountsOnce
  <2>4. \E e \in Edges : /\ e.from = (a \o b)[i].node /\ e.to = (a \o b)[i].to
                         /\ s.counts[<<e.from, e.to>>] < e.cap
    <3>1. CASE i \in 1 .. Len(a) /\ (a \o b)[i] = a[i]
      BY <1>3, <2>2, <3>1
    <3>2. CASE i - Len(a) \in 1 .. Len(b) /\ (a \o b)[i] = b[i - Len(a)]
      BY <1>3, <2>3, <3>2
    <3> QED BY <1>2, <3>1, <3>2
  <2>5. ASSUME NEW j \in 1 .. Len(a) + Len(b), (a \o b)[j] = (a \o b)[i] PROVE j = i
    <3>1. CASE i \in 1 .. Len(a) /\ (a \o b)[i] = a[i]
      <4>1. CASE j \in 1 .. Len(a) /\ (a \o b)[j] = a[j]
        BY <1>3, <2>2, <2>5, <3>1, <4>1
      <4>2. CASE j - Len(a) \in 1 .. Len(b) /\ (a \o b)[j] = b[j - Len(a)]
        BY <1>3, <2>1, <2>5, <3>1, <4>2
      <4> QED BY <1>2, <4>1, <4>2
    <3>2. CASE i - Len(a) \in 1 .. Len(b) /\ (a \o b)[i] = b[i - Len(a)]
      <4>1. CASE j \in 1 .. Len(a) /\ (a \o b)[j] = a[j]
        BY <1>3, <2>1, <2>5, <3>2, <4>1
      <4>2. CASE j - Len(a) \in 1 .. Len(b) /\ (a \o b)[j] = b[j - Len(a)]
        <5>1. j - Len(a) = i - Len(a)
          BY <1>3, <2>3, <2>5, <3>2, <4>2
        <5> QED BY <1>2, <5>1
      <4> QED BY <1>2, <4>1, <4>2
    <3> QED BY <1>2, <3>1, <3>2
  <2> QED BY <2>4, <2>5
<1>4. CountsOnce(s, a \o b)
  BY <1>2, <1>3 DEF CountsOnce
<1> QED BY <1>2, <1>4 DEF Fits, R

\* What a crash keeps of a log that fits.
LEMMA FitsPrefix ==
  ASSUME NEW S, NEW s, NEW log, Fits(s, log, S), NEW k \in 1 .. Len(log)
  PROVE  Fits(s, SubSeq(log, 1, k), S)
<1> DEFINE R == LogRecords(S)
           part == SubSeq(log, 1, k)
<1>1. log \in Seq(R)
  BY DEF Fits
<1> HIDE DEF R
<1>2. /\ part \in Seq(R) /\ DOMAIN part = 1 .. k /\ DOMAIN log = 1 .. Len(log) /\ Len(log) \in Nat
      /\ \A i \in 1 .. k : part[i] = log[i] /\ i \in 1 .. Len(log)
  BY <1>1
<1> HIDE DEF part
<1>3. CountsOnce(s, part)
  <2>1. \A i \in 1 .. Len(log) : log[i] \in CountedHopRecords =>
          /\ \E e \in Edges : e.from = log[i].node /\ e.to = log[i].to /\ s.counts[<<e.from, e.to>>] < e.cap
          /\ \A j \in 1 .. Len(log) : log[j] = log[i] => j = i
    BY <1>2 DEF Fits, CountsOnce
  <2> SUFFICES ASSUME NEW i \in 1 .. k, part[i] \in CountedHopRecords
               PROVE  /\ \E e \in Edges : e.from = part[i].node /\ e.to = part[i].to
                                          /\ s.counts[<<e.from, e.to>>] < e.cap
                      /\ \A j \in 1 .. k : part[j] = part[i] => j = i
    BY <1>2 DEF CountsOnce
  <2>2. part[i] = log[i] /\ i \in 1 .. Len(log)
    BY <1>2
  <2>3. \E e \in Edges : e.from = part[i].node /\ e.to = part[i].to /\ s.counts[<<e.from, e.to>>] < e.cap
    BY <2>1, <2>2
  <2>4. \A j \in 1 .. k : part[j] = part[i] => j = i
    BY <1>2, <2>1, <2>2
  <2> QED BY <2>3, <2>4
<1> QED BY <1>2, <1>3 DEF Fits, R, part

\* A log that counts nothing fits wherever its records are in place.
LEMMA FitsUncounted ==
  ASSUME NEW S, NEW s, NEW log \in Seq(LogRecords(S)), ToSet(log) \cap CountedHopRecords = {}
  PROVE  Fits(s, log, S)
BY DEF Fits, CountsOnce, ToSet

\* A log fits where more nodes may be told of, and where as much has been counted.
LEMMA FitsWider ==
  ASSUME NEW S, NEW T, S \subseteq T, NEW s, NEW t, t.counts = s.counts, NEW log, Fits(s, log, S)
  PROVE  Fits(t, log, T)
<1>1. LogRecords(S) \subseteq LogRecords(T)
  BY DEF LogRecords, NodeRecords
<1>2. log \in Seq(LogRecords(T))
  <2> DEFINE A == LogRecords(S)
             B == LogRecords(T)
  <2>1. A \subseteq B /\ log \in Seq(A)
    BY <1>1 DEF Fits
  <2> HIDE DEF A, B
  <2>2. log \in Seq(B)
    BY <2>1
  <2> QED BY <2>2 DEF B
<1>3. CountsOnce(t, log)
  BY DEF Fits, CountsOnce
<1> QED BY <1>2, <1>3 DEF Fits

-----------------------------------------------------------------------------
(* Where a node goes on to *)

\* The edges a node takes are its own, and none of them is spent.
LEMMA SelectedAreOutgoing ==
  ASSUME shape \in DOMAIN Graphs, NEW s, NEW n, NEW asRun
  PROVE  /\ SelectedEdges(s, n, asRun) \in Seq(Edges)
         /\ \A e \in ToSet(SelectedEdges(s, n, asRun)) : e \in Edges /\ e.from = n /\ EdgeAvailable(s, e, asRun)
<1> DEFINE open == Among(Outgoing(n), {e \in Edges : EdgeAvailable(s, e, asRun)})
           Fit == {e \in Edges : e.from = n /\ EdgeAvailable(s, e, asRun)}
<1>1. Outgoing(n) \in Seq(Edges) /\ ToSet(Outgoing(n)) \subseteq {e \in Edges : e.from = n}
  BY GraphFacts, AmongKeeps DEF Outgoing
<1>2. open \in Seq(Edges) /\ ToSet(open) \subseteq Fit
  BY <1>1, AmongKeeps
<1> HIDE DEF open, Fit
<1>3. \A S : Among(open, S) \in Seq(Edges) /\ ToSet(Among(open, S)) \subseteq Fit
  BY <1>2, AmongKeeps
<1>4. ASSUME NEW S, Among(open, S) # <<>>
      PROVE  <<Head(Among(open, S))>> \in Seq(Edges) /\ ToSet(<<Head(Among(open, S))>>) \subseteq Fit
  <2> DEFINE found == Among(open, S)
  <2>1. found \in Seq(Edges) /\ ToSet(found) \subseteq Fit /\ found # <<>>
    BY <1>3, <1>4
  <2> HIDE DEF found
  <2>2. Head(found) \in ToSet(found)
    BY <2>1, HeadAndTail
  <2>3. Head(found) \in Edges
    BY <2>1
  <2>4. <<Head(found)>> \in Seq(Edges) /\ ToSet(<<Head(found)>>) = {Head(found)}
    BY <2>3 DEF ToSet
  <2> QED BY <2>1, <2>2, <2>4 DEF found
<1>5. Taken(s, n, open) \in Seq(Edges) /\ ToSet(Taken(s, n, open)) \subseteq Fit
  <2>1. <<>> \in Seq(Edges) /\ ToSet(<<>>) = {}
    BY DEF ToSet
  <2> DEFINE plain    == Among(open, {e \in Edges : e.on = "always"})
             matching == Among(open, {e \in Edges : EdgeMatches(s, e)})
             spare    == Among(open, {e \in Edges : e.on = "fallback"})
  <2>2. Taken(s, n, open) = IF plain # <<>> /\ n \notin s.refused THEN plain
                            ELSE IF matching # <<>> THEN <<Head(matching)>>
                            ELSE IF spare # <<>> THEN <<Head(spare)>> ELSE <<>>
    BY DEF Taken
  <2>3. plain \in Seq(Edges) /\ ToSet(plain) \subseteq Fit
    BY <1>3
  <2>4. matching # <<>> => <<Head(matching)>> \in Seq(Edges) /\ ToSet(<<Head(matching)>>) \subseteq Fit
    BY <1>4
  <2>5. spare # <<>> => <<Head(spare)>> \in Seq(Edges) /\ ToSet(<<Head(spare)>>) \subseteq Fit
    BY <1>4
  <2> HIDE DEF plain, matching, spare
  <2> QED BY <2>1, <2>2, <2>3, <2>4, <2>5
<1> QED BY <1>5 DEF SelectedEdges, open, Fit

\* Where an edge of a node leads.
Targets(n) == {e.to : e \in {d \in Edges : d.from = n}}

\* The nodes a finished node goes on to are targets of its selected edges.
LEMMA SuccessorsAreTargets ==
  ASSUME shape \in DOMAIN Graphs, NEW s, NEW n
  PROVE  /\ Successors(s, n) \in Seq(Nodes)
         /\ ToSet(Successors(s, n)) = {e.to : e \in ToSet(SelectedEdges(s, n, FALSE))}
         /\ ToSet(Successors(s, n)) \subseteq Targets(n)
<1> DEFINE sel == SelectedEdges(s, n, FALSE)
<1>1. sel \in Seq(Edges) /\ \A e \in ToSet(sel) : e \in Edges /\ e.from = n
  BY SelectedAreOutgoing
<1>2. Successors(s, n) = [i \in DOMAIN sel |-> sel[i].to]
  BY DEF Successors
<1> HIDE DEF sel
<1>3. DOMAIN sel = 1 .. Len(sel) /\ Len(sel) \in Nat /\ \A i \in 1 .. Len(sel) : sel[i] \in Edges
  BY <1>1
<1>4. \A i \in 1 .. Len(sel) : sel[i].to \in Nodes
  BY <1>3, GraphFacts
<1>5. Successors(s, n) \in [1 .. Len(sel) -> Nodes]
  BY <1>2, <1>3, <1>4
<1>6. Successors(s, n) \in Seq(Nodes)
  BY <1>3, <1>5
<1>7. ToSet(Successors(s, n)) = {e.to : e \in ToSet(sel)}
  BY <1>2, <1>3 DEF ToSet
<1>8. ToSet(Successors(s, n)) \subseteq Targets(n)
  BY <1>1, <1>7 DEF Targets
<1> QED BY <1>6, <1>7, <1>8 DEF sel

\* The successors that can run now, each once.
LEMMA SeedsAreTargets ==
  ASSUME shape \in DOMAIN Graphs, NEW s, NEW n, NEW active
  PROVE  /\ SeedSuccessors(s, n, active) \in Seq(Nodes)
         /\ ToSet(SeedSuccessors(s, n, active)) \subseteq ToSet(Successors(s, n))
         /\ IsInjective(SeedSuccessors(s, n, active))
<1> DEFINE to == Distinct(Successors(s, n))
           ready == {t \in ToSet(to) : IsReady(s, t, active)}
<1>1. to \in Seq(Nodes) /\ ToSet(to) = ToSet(Successors(s, n)) /\ IsInjective(to)
  BY SuccessorsAreTargets, DistinctIsInjective
<1>2. SeedSuccessors(s, n, active) = Among(to, ready)
  BY DEF SeedSuccessors
<1> HIDE DEF to, ready
<1>3. /\ Among(to, ready) \in Seq(Nodes) /\ ToSet(Among(to, ready)) = ToSet(to) \cap ready
      /\ IsInjective(to) => IsInjective(Among(to, ready))
  BY <1>1, AmongKeeps
<1> QED BY <1>1, <1>2, <1>3

\* What runs of the seeds: all of them, or the one that takes the race.
LEMMA RunnableAreSeeds ==
  ASSUME NEW seeds \in Seq(Nodes), IsInjective(seeds)
  PROVE  /\ Runnable(seeds) \in Seq(Nodes) /\ IsInjective(Runnable(seeds))
         /\ ToSet(Runnable(seeds)) \subseteq ToSet(seeds)
         /\ seeds # <<>> => Runnable(seeds) # <<>>
<1> DEFINE racers == Among(seeds, Races(ToSet(seeds)))
<1>1. CASE ~IsRace(seeds)
  BY <1>1 DEF Runnable
<1>2. CASE IsRace(seeds)
  <2>1. racers \in Seq(Nodes) /\ ToSet(racers) = ToSet(seeds) \cap Races(ToSet(seeds))
    BY AmongKeeps
  <2>2. Races(ToSet(seeds)) \subseteq ToSet(seeds) /\ Races(ToSet(seeds)) # {}
    BY <1>2 DEF Races, IsRace
  <2>3. Runnable(seeds) = <<Head(racers)>>
    BY <1>2 DEF Runnable
  <2> HIDE DEF racers
  <2>4. ToSet(racers) # {} /\ ToSet(racers) \subseteq ToSet(seeds)
    BY <2>1, <2>2
  <2>5. Head(racers) \in ToSet(racers)
    BY <2>1, <2>4, HeadAndTail
  <2>6. Head(racers) \in ToSet(seeds) /\ Head(racers) \in Nodes
    BY <2>4, <2>5, Elements
  <2>7. /\ <<Head(racers)>> \in Seq(Nodes) /\ ToSet(<<Head(racers)>>) = {Head(racers)}
        /\ IsInjective(<<Head(racers)>>) /\ <<Head(racers)>> # <<>>
    BY <2>6 DEF ToSet, IsInjective
  <2> QED BY <2>3, <2>6, <2>7
<1> QED BY <1>1, <1>2

\* The logs a node's advance is made of, and the nodes they tell of.
LEMMA WriteOffTells ==
  ASSUME NEW nodes \in Seq(Nodes)
  PROVE  /\ WriteOff(nodes) \in Seq(LogRecords(ToSet(nodes)))
         /\ ToSet(WriteOff(nodes)) \cap (CountedHopRecords \cup RunRecords) = {}
<1> DEFINE R == NodeRecords(ToSet(nodes))
           parts == [i \in DOMAIN nodes |-> WrittenOff(nodes[i])]
<1>1. \A i \in DOMAIN nodes : WrittenOff(nodes[i]) \in Seq(R)
  <2> SUFFICES ASSUME NEW i \in DOMAIN nodes PROVE WrittenOff(nodes[i]) \in Seq(R)
    OBVIOUS
  <2>1. nodes[i] \in ToSet(nodes) /\ "cancelled" \in FinalStatuses
    BY DEF ToSet, FinalStatuses
  <2>2. NodeStarted(nodes[i]) \in R /\ NodeFinished(nodes[i], "cancelled") \in R
    BY <2>1 DEF NodeRecords
  <2> HIDE DEF R
  <2> QED BY <2>2 DEF WrittenOff
<1>2. parts \in Seq(Seq(R))
  <2>1. DOMAIN nodes = 1 .. Len(nodes) /\ Len(nodes) \in Nat
    OBVIOUS
  <2> HIDE DEF R
  <2>2. parts \in [1 .. Len(nodes) -> Seq(R)]
    BY <1>1, <2>1
  <2> QED BY <2>1, <2>2
<1>3. WriteOff(nodes) = FlattenSeq(parts)
  BY DEF WriteOff
<1>4. WriteOff(nodes) \in Seq(R)
  <2> HIDE DEF R, parts
  <2> QED BY <1>2, <1>3, Flattened
<1>5. R \subseteq LogRecords(ToSet(nodes)) /\ R \cap (CountedHopRecords \cup RunRecords) = {}
  BY RecordsDiffer DEF LogRecords, NodeRecords
<1> HIDE DEF R
<1>6. ToSet(WriteOff(nodes)) \subseteq R
  BY <1>4, Elements
<1> QED BY <1>4, <1>5, <1>6

\* The hops a fork journals.
LEMMA HopsTell ==
  ASSUME shape \in DOMAIN Graphs, NEW n, NEW to \in Seq(Nodes), ToSet(to) \subseteq Targets(n), NEW S
  PROVE  /\ Hops(n, to) \in Seq(LogRecords(S))
         /\ ToSet(Hops(n, to)) \cap (CountedHopRecords \cup RunRecords) = {}
<1>1. \A i \in DOMAIN to : <<n, to[i]>> \in Pairs
  BY DEF Targets, Pairs, ToSet
<1>2. \A i \in DOMAIN to : Hop(n, to[i]) \in LogRecords(S)
  <2> SUFFICES ASSUME NEW i \in DOMAIN to PROVE Hop(n, to[i]) \in LogRecords(S)
    OBVIOUS
  <2> DEFINE p == <<n, to[i]>>
  <2>1. p \in Pairs /\ Hop(n, to[i]) = Hop(p[1], p[2])
    BY <1>1
  <2> HIDE DEF p
  <2> QED BY <2>1 DEF LogRecords, HopRecords
<1>3. DOMAIN to = 1 .. Len(to) /\ Len(to) \in Nat /\ DOMAIN Hops(n, to) = DOMAIN to
      /\ \A i \in DOMAIN to : Hops(n, to)[i] = Hop(n, to[i])
  BY DEF Hops
<1>4. Hops(n, to) \in [1 .. Len(to) -> LogRecords(S)]
  BY <1>2, <1>3 DEF Hops
<1>5. Hops(n, to) \in Seq(LogRecords(S))
  <2> DEFINE R == LogRecords(S)
  <2> HIDE DEF R
  <2> QED BY <1>3, <1>4
<1>6. ToSet(Hops(n, to)) \cap (CountedHopRecords \cup RunRecords) = {}
  BY <1>3, RecordsDiffer DEF ToSet
<1> QED BY <1>5, <1>6

\* The counted hops over bounded edges, each of them below its cap.
LEMMA CountedHopsTell ==
  ASSUME shape \in DOMAIN Graphs, NEW s \in RunStates, NEW n, NEW to \in Seq(Nodes), IsInjective(to), NEW S,
         \A t \in ToSet(to) : \E e \in Edges : e.from = n /\ e.to = t /\ s.counts[<<n, t>>] < e.cap
  PROVE  /\ Fits(s, CountedHops(n, to), S)
         /\ ToSet(CountedHops(n, to)) \cap RunRecords = {}
         /\ \A r \in ToSet(CountedHops(n, to)) : r.node = n
<1>1. \A i \in DOMAIN to : <<n, to[i]>> \in Pairs
  BY DEF Pairs, ToSet
<1>2. \A i \in DOMAIN to : CountedHop(n, to[i]) \in CountedHopRecords
  <2> SUFFICES ASSUME NEW i \in DOMAIN to PROVE CountedHop(n, to[i]) \in CountedHopRecords
    OBVIOUS
  <2> DEFINE p == <<n, to[i]>>
  <2>1. p \in Pairs /\ CountedHop(n, to[i]) = CountedHop(p[1], p[2])
    BY <1>1
  <2> HIDE DEF p
  <2> QED BY <2>1 DEF CountedHopRecords
<1>3. CountedHopRecords \subseteq LogRecords(S)
  BY DEF LogRecords, HopRecords
<1> DEFINE log == CountedHops(n, to)
<1>4. /\ DOMAIN to = 1 .. Len(to) /\ Len(to) \in Nat /\ DOMAIN log = DOMAIN to
      /\ \A i \in DOMAIN to : log[i] = CountedHop(n, to[i])
  BY DEF CountedHops
<1>5. log \in [1 .. Len(to) -> LogRecords(S)]
  BY <1>2, <1>3, <1>4 DEF CountedHops
<1>6. log \in Seq(LogRecords(S))
  <2> DEFINE R == LogRecords(S)
  <2> HIDE DEF R, log
  <2> QED BY <1>4, <1>5
<1>7. \A i \in DOMAIN to : log[i].node = n /\ log[i].to = to[i] /\ log[i] \notin RunRecords
  <2> HIDE DEF log
  <2>1. \A t : CountedHop(n, t).node = n /\ CountedHop(n, t).to = t
    BY DEF CountedHop, Record
  <2>2. \A t : CountedHop(n, t) \notin RunRecords
    BY RecordsDiffer
  <2> QED BY <1>4, <2>1, <2>2
<1> HIDE DEF log
<1>8. CountsOnce(s, log)
  <2> SUFFICES ASSUME NEW i \in DOMAIN to
               PROVE  /\ \E e \in Edges : e.from = log[i].node /\ e.to = log[i].to
                                          /\ s.counts[<<e.from, e.to>>] < e.cap
                      /\ \A j \in DOMAIN to : log[j] = log[i] => j = i
    BY <1>4 DEF CountsOnce
  <2>1. to[i] \in ToSet(to)
    BY DEF ToSet
  <2>2. PICK e \in Edges : e.from = n /\ e.to = to[i] /\ s.counts[<<n, to[i]>>] < e.cap
    BY <2>1
  <2>3. \A j \in DOMAIN to : log[j] = log[i] => to[j] = to[i]
    BY <1>7
  <2> QED BY <1>7, <2>2, <2>3 DEF IsInjective
<1>9. \A r \in ToSet(log) : r.node = n /\ r \notin RunRecords
  BY <1>4, <1>7 DEF ToSet
<1> QED BY <1>6, <1>8, <1>9 DEF Fits, log

\* What an advance may do: its log fits, tells only of the nodes of the frontier it drops and
\* counts only edges of the node; the frontier it leaves adds targets of the node, each once.
Advances(s, n, frontier, adv, S) ==
  /\ adv.frontier \in Seq(Nodes)
  /\ ToSet(adv.frontier) \subseteq ToSet(frontier) \cup Targets(n)
  /\ IsInjective(frontier) => IsInjective(adv.frontier)
  /\ Fits(s, adv.log, S)
  /\ ToSet(adv.log) \cap RunRecords = {}
  /\ \A r \in ToSet(adv.log) : r \in CountedHopRecords => r.node = n

\* A fork goes on to its runnable successors and writes off the losers of a race.
LEMMA ProceedAdvances ==
  ASSUME shape \in DOMAIN Graphs, NEW s \in RunStates, NEW n, NEW frontier \in Seq(Nodes),
         NEW seeds, NEW runnable \in Seq(Nodes), IsInjective(runnable),
         ToSet(runnable) \subseteq ToSet(Successors(s, n)), ToSet(runnable) \cap ToSet(frontier) = {},
         NEW losers \in Seq(Nodes), ToSet(losers) \subseteq ToSet(frontier)
  PROVE  Advances(s, n, frontier, Proceed(s, n, frontier, seeds, runnable, losers), ToSet(losers))
<1> DEFINE to == Distinct(Successors(s, n))
           racedOut == ToSet(losers) \cup (ToSet(seeds) \ ToSet(runnable))
           new == {t \in ToSet(to) \ racedOut : ~HopOfLatestRun(s, n, t)}
           bounded == {e.to : e \in {d \in ToSet(SelectedEdges(s, n, FALSE)) : d.cap > 0}}
           hopped == Among(to, new)
           counted == Among(runnable, bounded)
           left == Without(frontier, ToSet(losers))
           adv == Proceed(s, n, frontier, seeds, runnable, losers)
           S == ToSet(losers)
<1>1. /\ adv.log = (WriteOff(losers) \o Hops(n, hopped)) \o CountedHops(n, counted)
      /\ adv.frontier = left \o runnable
  BY DEF Proceed
<1>2. hopped \in Seq(Nodes) /\ ToSet(hopped) \subseteq Targets(n)
  <2>1. to \in Seq(Nodes) /\ ToSet(to) \subseteq Targets(n)
    BY SuccessorsAreTargets, DistinctIsInjective
  <2> HIDE DEF to, new
  <2> QED BY <2>1, AmongKeeps
<1>3. /\ counted \in Seq(Nodes) /\ IsInjective(counted)
      /\ ToSet(counted) = ToSet(runnable) \cap bounded
  <2> HIDE DEF bounded
  <2> QED BY AmongKeeps
<1>4. \A t \in ToSet(counted) : \E e \in Edges : e.from = n /\ e.to = t /\ s.counts[<<n, t>>] < e.cap
  <2> SUFFICES ASSUME NEW t \in bounded
               PROVE  \E e \in Edges : e.from = n /\ e.to = t /\ s.counts[<<n, t>>] < e.cap
    BY <1>3
  <2>1. PICK e \in ToSet(SelectedEdges(s, n, FALSE)) : e.cap > 0 /\ e.to = t
    OBVIOUS
  <2>2. e \in Edges /\ e.from = n /\ EdgeAvailable(s, e, FALSE)
    BY SelectedAreOutgoing
  <2>3. e.cap \in Nat
    BY <2>2, GraphFacts
  <2>4. s.counts[<<n, t>>] < e.cap
    BY <2>1, <2>2, <2>3 DEF EdgeAvailable
  <2> QED BY <2>1, <2>2, <2>4
<1>5. left \in Seq(Nodes) /\ ToSet(left) = ToSet(frontier) \ S /\ (IsInjective(frontier) => IsInjective(left))
  BY WithoutDrops
<1> HIDE DEF hopped, counted, left, adv, S
<1>6. /\ WriteOff(losers) \in Seq(LogRecords(S))
      /\ ToSet(WriteOff(losers)) \cap (CountedHopRecords \cup RunRecords) = {}
  BY WriteOffTells DEF S
<1>7. /\ Hops(n, hopped) \in Seq(LogRecords(S))
      /\ ToSet(Hops(n, hopped)) \cap (CountedHopRecords \cup RunRecords) = {}
  BY <1>2, HopsTell
<1>8. /\ Fits(s, CountedHops(n, counted), S)
      /\ ToSet(CountedHops(n, counted)) \cap RunRecords = {}
      /\ \A r \in ToSet(CountedHops(n, counted)) : r.node = n
  BY <1>3, <1>4, CountedHopsTell
<1> DEFINE a == WriteOff(losers)
           b == Hops(n, hopped)
           c == CountedHops(n, counted)
           R == LogRecords(S)
<1>9. Fits(s, a, S) /\ Fits(s, b, S) /\ Fits(s, c, S) /\ a \in Seq(R) /\ b \in Seq(R) /\ c \in Seq(R)
  <2>1. Fits(s, a, S) /\ Fits(s, b, S)
    BY <1>6, <1>7, FitsUncounted
  <2> QED BY <1>6, <1>7, <1>8, <2>1 DEF Fits
<1>10. /\ (ToSet(a) \cup ToSet(b)) \cap (CountedHopRecords \cup RunRecords) = {}
       /\ ToSet(c) \cap RunRecords = {} /\ \A r \in ToSet(c) : r.node = n
  BY <1>6, <1>7, <1>8
<1> HIDE DEF a, b, c, R
<1>11. a \o b \in Seq(R) /\ ToSet(a \o b) = ToSet(a) \cup ToSet(b)
       /\ ToSet((a \o b) \o c) = (ToSet(a) \cup ToSet(b)) \cup ToSet(c)
  <2>1. a \o b \in Seq(R) /\ ToSet(a \o b) = ToSet(a) \cup ToSet(b)
    BY <1>9, Joined
  <2> DEFINE ab == a \o b
  <2>2. ab \in Seq(R)
    BY <2>1
  <2>3. ToSet(ab \o c) = ToSet(ab) \cup ToSet(c)
    <3> HIDE DEF ab
    <3> QED BY <1>9, <2>2, Joined
  <2> QED BY <2>1, <2>3
<1>12. Fits(s, (a \o b) \o c, S)
  <2>1. Fits(s, a \o b, S)
    BY <1>9, <1>10, FitsJoined
  <2> QED BY <1>9, <1>10, <1>11, <2>1, FitsJoined
<1>13. adv.log = (a \o b) \o c
  BY <1>1 DEF a, b, c
<1>14. /\ Fits(s, adv.log, S) /\ ToSet(adv.log) \cap RunRecords = {}
       /\ \A r \in ToSet(adv.log) : r \in CountedHopRecords => r.node = n
  BY <1>10, <1>11, <1>12, <1>13
<1>15. /\ left \o runnable \in Seq(Nodes)
       /\ ToSet(left \o runnable) = ToSet(left) \cup ToSet(runnable)
       /\ IsInjective(frontier) => IsInjective(left \o runnable)
  <2>1. ToSet(left) \cap ToSet(runnable) = {}
    BY <1>5
  <2> QED BY <1>5, <2>1, Joined
<1>16. ToSet(runnable) \subseteq Targets(n)
  BY SuccessorsAreTargets
<1> QED BY <1>1, <1>5, <1>14, <1>15, <1>16 DEF Advances, adv, S

\* advance_frontier.
LEMMA AdvanceAdvances ==
  ASSUME shape \in DOMAIN Graphs, NEW s \in RunStates, NEW n, NEW frontier \in Seq(Nodes), NEW also
  PROVE  /\ Advances(s, n, frontier, Advance(s, n, frontier, also), ToSet(frontier))
         /\ (\A t \in ToSet(Successors(s, n)) : JoinKind(t) # "any")
            => Advances(s, n, frontier, Advance(s, n, frontier, also), {})
         /\ ToSet(SeedSuccessors(s, n, {n} \cup ToSet(frontier) \cup also)) \ ToSet(frontier) # {}
            => Advance(s, n, frontier, also).frontier # <<>>
<1> DEFINE found == SeedSuccessors(s, n, {n} \cup ToSet(frontier) \cup also)
           seeds == Without(found, ToSet(frontier))
           runnable == Runnable(seeds)
           losers == IF IsRace(seeds) THEN Among(frontier, {t \in ToSet(frontier) : ~IsJoin(t)}) ELSE <<>>
           adv == Advance(s, n, frontier, also)
<1>1. adv = Proceed(s, n, frontier, seeds, runnable, losers)
  BY DEF Advance, Route
<1>2. /\ found \in Seq(Nodes) /\ IsInjective(found) /\ ToSet(found) \subseteq ToSet(Successors(s, n))
  BY SeedsAreTargets
<1> HIDE DEF found
<1>3. /\ seeds \in Seq(Nodes) /\ IsInjective(seeds) /\ ToSet(seeds) = ToSet(found) \ ToSet(frontier)
  BY <1>2, WithoutDrops
<1> HIDE DEF seeds
<1>4. /\ runnable \in Seq(Nodes) /\ IsInjective(runnable) /\ ToSet(runnable) \subseteq ToSet(seeds)
      /\ seeds # <<>> => runnable # <<>>
  BY <1>3, RunnableAreSeeds
<1>5. losers \in Seq(Nodes) /\ ToSet(losers) \subseteq ToSet(frontier) /\ (~IsRace(seeds) => ToSet(losers) = {})
  <2>1. <<>> \in Seq(Nodes) /\ ToSet(<<>>) = {}
    BY DEF ToSet
  <2> DEFINE plain == {t \in ToSet(frontier) : ~IsJoin(t)}
  <2>2. Among(frontier, plain) \in Seq(Nodes) /\ ToSet(Among(frontier, plain)) \subseteq ToSet(frontier)
    <3> HIDE DEF plain
    <3> QED BY AmongKeeps
  <2> QED BY <2>1, <2>2
<1> HIDE DEF runnable, losers
<1>6. Advances(s, n, frontier, adv, ToSet(losers))
  <2>1. ToSet(runnable) \subseteq ToSet(Successors(s, n)) /\ ToSet(runnable) \cap ToSet(frontier) = {}
    BY <1>2, <1>3, <1>4
  <2>2. Advances(s, n, frontier, Proceed(s, n, frontier, seeds, runnable, losers), ToSet(losers))
    BY <1>4, <1>5, <2>1, ProceedAdvances
  <2> HIDE DEF adv
  <2> QED BY <1>1, <2>2
<1> HIDE DEF adv
<1>7. Advances(s, n, frontier, adv, ToSet(frontier))
  <2>1. Fits(s, adv.log, ToSet(frontier))
    BY <1>5, <1>6, FitsWider DEF Advances
  <2> QED BY <1>6, <2>1 DEF Advances
<1>8. ASSUME \A t \in ToSet(Successors(s, n)) : JoinKind(t) # "any" PROVE Advances(s, n, frontier, adv, {})
  <2>1. ~IsRace(seeds)
    BY <1>2, <1>3, <1>8 DEF IsRace, Races
  <2> QED BY <1>5, <1>6, <2>1
<1>9. ASSUME ToSet(found) \ ToSet(frontier) # {} PROVE adv.frontier # <<>>
  <2>1. seeds # <<>>
    BY <1>3, <1>9 DEF ToSet
  <2>2. adv.frontier = Without(frontier, ToSet(losers)) \o runnable
    BY <1>1 DEF Proceed
  <2>3. Without(frontier, ToSet(losers)) \in Seq(Nodes)
    BY WithoutDrops
  <2> QED BY <1>4, <2>1, <2>2, <2>3
<1> QED BY <1>7, <1>8, <1>9 DEF adv, found

-----------------------------------------------------------------------------
(* The invariant in two halves: the state, and the memory beside it *)

\* What DriveInv says of the state.
StateSound(s) ==
  /\ s \in RunStates /\ Recorded(s) /\ Bounded(s)
  /\ \A n \in Nodes : s.started[n] > 0 \/ s.finished[n] > 0 => n \in InvitedIn(s)

\* What it says of the heads and the members a driver holds.
HeadsSound(d) ==
  /\ IsInjective(d.frontier) /\ IsInjective(d.batch) /\ IsInjective(d.queue)
  /\ d.phase \in {"turn", "node"} /\ ~d.halted => d.current \notin ToSet(d.frontier)
  /\ UNION {ToSet(d.queue), d.running, d.ended} \subseteq ToSet(d.batch)
  /\ ToSet(d.queue) \cap d.running = {} /\ ToSet(d.queue) \cap d.ended = {}
  /\ d.running \cap d.ended = {} /\ d.advanced \subseteq d.ended
  /\ ~d.halted => ToSet(d.batch) \subseteq ToSet(d.queue) \cup d.running \cup d.ended
  /\ Cardinality(d.running) <= MaxParallel

\* What it says of a driver's memory beside a state and a posted pause.
MemorySound(d, s, posted) ==
  /\ d \in Memories
  /\ HeadsSound(d)
  /\ d.phase = "node" => s.nodes[d.current] = "running"
  /\ \A n \in d.running : s.nodes[n] = "running"
  /\ \A n \in d.ended : s.finished[n] > 0
  /\ d.phase # "off" => s.run = "running"
  /\ d.phase = "off" => d = Off
  /\ d.halted => posted # "no"
  /\ d.phase # "off" => {d.current} \cup ToSet(d.frontier) \cup ToSet(d.batch) \subseteq InvitedIn(s)

\* The halves make up DriveInv.
LEMMA InvNow ==
  DriveInv => /\ shape \in DOMAIN Graphs /\ StateSound(state) /\ MemorySound(drive, state, asked)
              /\ asked \in {"no", "soft", "now"} /\ crashes \in Nat /\ pauses \in Nat
              /\ Invitees = InvitedIn(state)
<1> SUFFICES ASSUME DriveInv
             PROVE  /\ shape \in DOMAIN Graphs /\ StateSound(state) /\ MemorySound(drive, state, asked)
                    /\ asked \in {"no", "soft", "now"} /\ crashes \in Nat /\ pauses \in Nat
                    /\ Invitees = InvitedIn(state)
  OBVIOUS
<1>1. Invitees = InvitedIn(state)
  BY DEF Invitees, InvitedIn
<1>2. StateSound(state)
  BY <1>1 DEF DriveInv, TypeOK, StateSound, Recorded, Bounded, OnlyInvited, FinishesAreRecorded, LoopsAreBounded
<1>3. HeadsSound(drive)
  BY DEF DriveInv, HeadsAreDistinct, HeadsSound
<1>4. MemorySound(drive, state, asked)
  BY <1>1, <1>3 DEF DriveInv, TypeOK, RunningFits, DrivenFits, OnlyInvited, MemorySound
<1> QED BY <1>1, <1>2, <1>4 DEF DriveInv, TypeOK

\* The halves after a step make up DriveInv after it.
LEMMA InvNext ==
  ASSUME shape \in DOMAIN Graphs, UNCHANGED shape, StateSound(state'), MemorySound(drive', state', asked'),
         asked' \in {"no", "soft", "now"}, crashes' \in Nat, pauses' \in Nat
  PROVE  DriveInv'
<1>1. /\ Nodes' = Nodes /\ Edges' = Edges /\ Pairs' = Pairs /\ RunStates' = RunStates /\ Memories' = Memories
  BY SameGraph
<1>2. Invitees' = InvitedIn(state')
  BY <1>1 DEF Invitees, InvitedIn
<1>3. TypeOK'
  BY <1>1 DEF TypeOK, StateSound, MemorySound
<1>4. HeadsAreDistinct'
  BY DEF HeadsAreDistinct, MemorySound, HeadsSound
<1>5. RunningFits'
  BY DEF RunningFits, MemorySound
<1>6. DrivenFits'
  BY DEF DrivenFits, MemorySound, Off
<1>7. OnlyInvited'
  BY <1>1, <1>2 DEF OnlyInvited, StateSound, MemorySound
<1>8. FinishesAreRecorded'
  BY <1>1 DEF FinishesAreRecorded, StateSound, Recorded, IsFinished
<1>9. LoopsAreBounded'
  BY <1>1 DEF LoopsAreBounded, StateSound, Bounded
<1> QED BY <1>3, <1>4, <1>5, <1>6, <1>7, <1>8, <1>9 DEF DriveInv

\* A driver that let go holds nothing.
LEMMA OffIsSound ==
  ASSUME shape \in DOMAIN Graphs, NEW s, NEW posted
  PROVE  MemorySound(Off, s, posted)
<1>1. Off \in Memories
  <2>1. "start" \in Nodes /\ <<>> \in Seq(Nodes)
    BY GraphFacts
  <2> QED BY <2>1 DEF Off, Memories
<1>2. /\ Off.phase = "off" /\ Off.frontier = <<>> /\ Off.batch = <<>> /\ Off.queue = <<>>
      /\ Off.running = {} /\ Off.ended = {} /\ Off.advanced = {} /\ Off.halted = FALSE
  BY DEF Off
<1>3. IsInjective(<<>>) /\ ToSet(<<>>) = {} /\ Cardinality({}) = 0 /\ 0 <= MaxParallel
  BY FS_EmptySet, BoundsAreNaturals DEF IsInjective, ToSet
<1> QED BY <1>1, <1>2, <1>3 DEF MemorySound, HeadsSound

\* A log on invited nodes keeps a state sound, and no invitation is taken back.
LEMMA FoldIsSound ==
  ASSUME shape \in DOMAIN Graphs, NEW s, StateSound(s), NEW S, S \subseteq InvitedIn(s), NEW log, Fits(s, log, S)
  PROVE  StateSound(Fold(s, log)) /\ InvitedIn(s) \subseteq InvitedIn(Fold(s, log))
<1> DEFINE t == Fold(s, log)
<1>1. S \in SUBSET Nodes
  BY GraphFacts DEF InvitedIn
<1>2. Follows(s, t, S) /\ Bounded(t)
  BY <1>1, FoldFollows DEF StateSound
<1> HIDE DEF t
<1>3. InvitedIn(s) \subseteq InvitedIn(t)
  <2>1. \A d \in Edges : s.finished[d.from] > 0 => t.finished[d.from] > 0
    BY <1>2, GraphFacts DEF Follows
  <2> QED BY <2>1 DEF InvitedIn
<1>4. ASSUME NEW n \in Nodes, t.started[n] > 0 \/ t.finished[n] > 0 PROVE n \in InvitedIn(t)
  <2>1. CASE n \in S
    BY <1>3, <2>1
  <2>2. CASE n \notin S
    <3>1. s.started[n] > 0 \/ s.finished[n] > 0
      BY <1>2, <1>4, <2>2 DEF Follows
    <3> QED BY <1>3, <3>1 DEF StateSound
  <2> QED BY <2>1, <2>2
<1> QED BY <1>2, <1>3, <1>4 DEF StateSound, Follows, t

\* A step that writes a log and leaves a sound memory, or dies while it writes.
LEMMA WriteIsSound ==
  ASSUME DriveInv, NEW S, S \subseteq InvitedIn(state), NEW log, Fits(state, log, S),
         NEW next, MemorySound(next, Fold(state, log), asked), Write(log, next)
  PROVE  DriveInv'
<1>1. /\ shape \in DOMAIN Graphs /\ StateSound(state) /\ asked \in {"no", "soft", "now"}
      /\ crashes \in Nat /\ pauses \in Nat
  BY InvNow
<1>2. UNCHANGED <<shape, asked, pauses>>
  BY DEF Write
<1>3. CASE state' = Fold(state, log) /\ drive' = next /\ UNCHANGED crashes
  <2>1. StateSound(state')
    BY <1>1, <1>3, FoldIsSound
  <2> QED BY <1>1, <1>2, <1>3, <2>1, InvNext
<1>4. ASSUME NEW k \in 1 .. Len(log) - 1, state' = Fold(state, SubSeq(log, 1, k)), drive' = Off, crashes' = crashes + 1
      PROVE  DriveInv'
  <2>1. k \in 1 .. Len(log)
    <3> DEFINE R == LogRecords(S)
    <3>1. log \in Seq(R)
      BY DEF Fits
    <3> HIDE DEF R
    <3>2. Len(log) \in Nat
      BY <3>1
    <3> QED BY <3>2
  <2> DEFINE part == SubSeq(log, 1, k)
  <2>2. Fits(state, part, S)
    BY <2>1, FitsPrefix
  <2> HIDE DEF part
  <2>3. StateSound(Fold(state, part))
    BY <1>1, <2>2, FoldIsSound
  <2>4. StateSound(state')
    BY <1>4, <2>3 DEF part
  <2>5. MemorySound(drive', state', asked')
    BY <1>1, <1>4, OffIsSound
  <2>6. crashes' \in Nat
    BY <1>1, <1>4
  <2> QED BY <1>1, <1>2, <2>4, <2>5, <2>6, InvNext
<1> QED BY <1>3, <1>4 DEF Write

\* A step that writes nothing.
LEMMA SilentIsSound ==
  ASSUME DriveInv, NEW next, MemorySound(next, state, asked), Write(<<>>, next)
  PROVE  DriveInv'
<1>1. shape \in DOMAIN Graphs /\ StateSound(state)
  BY InvNow
<1> DEFINE R == LogRecords({})
<1>2. <<>> \in Seq(R) /\ ToSet(<<>>) = {} /\ Len(<<>>) = 0
  BY DEF ToSet
<1>3. Fits(state, <<>>, {})
  BY <1>2, FitsUncounted
<1> HIDE DEF R
<1>4. Fold(state, <<>>) = state
  <2> DEFINE none == <<>>
  <2>1. none \in Seq(R) /\ none = <<>>
    BY <1>2
  <2> HIDE DEF none
  <2>2. Fold(state, none) = state
    BY <2>1, FoldOfNothing
  <2> QED BY <2>2 DEF none
<1>5. MemorySound(next, Fold(state, <<>>), asked)
  BY <1>4
<1>6. {} \subseteq InvitedIn(state)
  OBVIOUS
<1> QED BY <1>3, <1>5, <1>6, WriteIsSound

\* A record of the run at the end of a log, or before it.
LEMMA RunRecordFits ==
  ASSUME NEW s, NEW S, NEW status \in RunStatuses
  PROVE  /\ Fits(s, <<RunIs(status)>>, S) /\ ToSet(<<RunIs(status)>>) = {RunIs(status)}
         /\ \A log : Fits(s, log, S) => /\ Fits(s, log \o <<RunIs(status)>>, S)
                                        /\ Fits(s, <<RunIs(status)>> \o log, S)
<1> DEFINE one == <<RunIs(status)>>
           R == LogRecords(S)
<1>1. RunIs(status) \in R
  BY DEF LogRecords, RunRecords
<1>2. ToSet(one) = {RunIs(status)}
  BY DEF ToSet
<1>3. one \in Seq(R)
  <2> HIDE DEF R
  <2> QED BY <1>1
<1>4. ToSet(one) \cap CountedHopRecords = {}
  BY <1>2, RecordsDiffer
<1> HIDE DEF one
<1>5. Fits(s, one, S)
  BY <1>3, <1>4, FitsUncounted
<1>6. ASSUME NEW log, Fits(s, log, S) PROVE Fits(s, log \o one, S) /\ Fits(s, one \o log, S)
  <2>1. ToSet(log) \cap ToSet(one) \cap CountedHopRecords = {} /\ ToSet(one) \cap ToSet(log) \cap CountedHopRecords = {}
    BY <1>4
  <2> QED BY <1>5, <1>6, <2>1, FitsJoined
<1> QED BY <1>2, <1>5, <1>6 DEF one

\* A log without a record of the run leaves it in progress.
LEMMA QuietLogs ==
  ASSUME NEW s, s.run = "running", NEW log, ToSet(log) \cap RunRecords = {}
  PROVE  StaysRunning(s, log)
BY DEF StaysRunning, ToSet

\* The tail of a node or of a batch.
LEMMA NextHeadIsSound ==
  ASSUME DriveInv, drive.phase # "off", NEW S, S \subseteq InvitedIn(state), NEW log, Fits(state, log, S),
         ToSet(log) \cap RunRecords = {},
         NEW frontier \in Seq(Nodes), IsInjective(frontier), ToSet(frontier) \subseteq InvitedIn(Fold(state, log)),
         NextHead(log, frontier)
  PROVE  DriveInv'
<1>1. shape \in DOMAIN Graphs /\ StateSound(state) /\ MemorySound(drive, state, asked)
  BY InvNow
<1>2. CASE frontier = <<>>
  <2> DEFINE whole == log \o <<RunIs("failed")>>
  <2>1. Fits(state, whole, S)
    BY RunRecordFits DEF RunStatuses
  <2>2. Write(whole, Off)
    BY <1>2 DEF NextHead
  <2> HIDE DEF whole
  <2>3. MemorySound(Off, Fold(state, whole), asked)
    BY <1>1, OffIsSound
  <2> QED BY <2>1, <2>2, <2>3, WriteIsSound
<1>3. CASE frontier # <<>>
  <2> DEFINE next == [Off EXCEPT !.phase = "turn", !.current = Head(frontier),
                                 !.frontier = Tail(frontier), !.halted = drive.halted]
  <2>1. Write(log, next)
    BY <1>3 DEF NextHead
  <2>2. /\ Head(frontier) \in ToSet(frontier) /\ Tail(frontier) \in Seq(Nodes)
        /\ ToSet(frontier) = {Head(frontier)} \cup ToSet(Tail(frontier))
        /\ IsInjective(Tail(frontier)) /\ Head(frontier) \notin ToSet(Tail(frontier))
    BY <1>3, HeadAndTail
  <2>3. Head(frontier) \in Nodes
    BY <2>2, Elements
  <2>4. drive.halted \in BOOLEAN /\ (drive.halted => asked # "no") /\ state.run = "running"
    BY <1>1 DEF MemorySound, Memories
  <2>5. /\ next.phase = "turn" /\ next.current = Head(frontier) /\ next.frontier = Tail(frontier)
        /\ next.batch = <<>> /\ next.queue = <<>> /\ next.running = {} /\ next.ended = {}
        /\ next.advanced = {} /\ next.halted = drive.halted
    BY DEF Off
  <2>6. next \in Memories
    <3>1. <<>> \in Seq(Nodes)
      OBVIOUS
    <3> QED BY <2>2, <2>3, <2>4, <3>1 DEF Off, Memories
  <2>7. IsInjective(<<>>) /\ ToSet(<<>>) = {} /\ Cardinality({}) = 0 /\ 0 <= MaxParallel
    BY FS_EmptySet, BoundsAreNaturals DEF IsInjective, ToSet
  <2>8. Fold(state, log).run = "running"
    <3>1. S \in SUBSET Nodes
      BY <1>1, GraphFacts DEF InvitedIn
    <3>2. StaysRunning(state, log)
      BY <2>4, QuietLogs
    <3> QED BY <1>1, <3>1, <3>2, FoldFollows DEF StateSound
  <2> HIDE DEF next
  <2>9. HeadsSound(next)
    BY <2>2, <2>5, <2>7 DEF HeadsSound
  <2>10. MemorySound(next, Fold(state, log), asked)
    BY <2>2, <2>4, <2>5, <2>6, <2>7, <2>8, <2>9 DEF MemorySound
  <2> QED BY <2>1, <2>10, WriteIsSound
<1> QED BY <1>2, <1>3

-----------------------------------------------------------------------------
(* Past a finished node *)

\* What a finished node leads to was invited.
LEMMA TargetsAreInvited ==
  ASSUME NEW s, NEW n, s.finished[n] > 0
  PROVE  Targets(n) \subseteq InvitedIn(s)
BY DEF Targets, InvitedIn

\* What the last record of a log tells.
LEMMA LastTells ==
  ASSUME shape \in DOMAIN Graphs, NEW s, StateSound(s), NEW S \in SUBSET Nodes, NEW n \in S,
         NEW log, Fits(s, log, S), log # <<>>
  PROVE  /\ log[Len(log)] = NodeStarted(n) => Fold(s, log).nodes[n] = "running"
         /\ \A status \in FinalStatuses :
              log[Len(log)] = NodeFinished(n, status) => Fold(s, log).finished[n] > 0
<1>1. PICK t : Follows(s, t, S) /\ Fold(s, log) = FoldOne(t, log[Len(log)])
  BY FoldFollows DEF StateSound
<1>2. t \in RunStates /\ t.nodes \in [Nodes -> Statuses]
  BY <1>1 DEF Follows, RunStates
<1> DEFINE u == Fold(s, log)
<1> HIDE DEF u
<1>3. ASSUME log[Len(log)] = NodeStarted(n) PROVE u.nodes[n] = "running"
  <2>1. u = FoldOne(t, NodeStarted(n))
    BY <1>1, <1>3 DEF u
  <2>2. u.nodes = [t.nodes EXCEPT ![n] = "running"]
    BY <1>2, <2>1, FoldStarted
  <2> QED BY <1>2, <2>2
<1>4. ASSUME NEW status \in FinalStatuses, log[Len(log)] = NodeFinished(n, status) PROVE u.finished[n] > 0
  <2>1. u = FoldOne(t, NodeFinished(n, status))
    BY <1>1, <1>4 DEF u
  <2> QED BY <1>2, <2>1, FoldFinished
<1> QED BY <1>3, <1>4 DEF u

\* A log that counts no edge keeps the counts.
LEMMA UncountedKeeps ==
  ASSUME shape \in DOMAIN Graphs, NEW s, StateSound(s), NEW S \in SUBSET Nodes,
         NEW log, Fits(s, log, S), ToSet(log) \cap CountedHopRecords = {}
  PROVE  Fold(s, log).counts = s.counts
<1> DEFINE t == Fold(s, log)
<1>1. \A p \in Pairs : CountedHop(p[1], p[2]) \in CountedHopRecords
  BY DEF CountedHopRecords
<1>2. Follows(s, t, S) /\ \A p \in Pairs : t.counts[p] = s.counts[p]
  BY <1>1, FoldFollows DEF StateSound
<1> HIDE DEF t
<1>3. t.counts \in [Pairs -> Nat] /\ s.counts \in [Pairs -> Nat]
  BY <1>2 DEF Follows, StateSound, RunStates
<1> QED BY <1>2, <1>3 DEF t

\* After a node on its own finished.
LEMMA AfterAloneIsSound ==
  ASSUME DriveInv, drive.phase # "off", NEW log, Fits(state, log, {drive.current}), log # <<>>,
         ToSet(log) \cap (CountedHopRecords \cup RunRecords) = {},
         NEW status \in FinalStatuses, log[Len(log)] = NodeFinished(drive.current, status), AfterAlone(log)
  PROVE  DriveInv'
<1> DEFINE n == drive.current
           now == Fold(state, log)
           adv == Advance(now, n, drive.frontier, {})
           S == InvitedIn(state)
           R == LogRecords(S)
<1>1. /\ shape \in DOMAIN Graphs /\ StateSound(state) /\ MemorySound(drive, state, asked)
  BY InvNow
<1>2. /\ n \in S /\ S \in SUBSET Nodes /\ drive.frontier \in Seq(Nodes) /\ IsInjective(drive.frontier)
      /\ ToSet(drive.frontier) \subseteq S
  <2>1. S \in SUBSET Nodes
    BY <1>1, GraphFacts DEF InvitedIn
  <2> HIDE DEF S
  <2>2. drive.frontier \in Seq(Nodes) /\ IsInjective(drive.frontier)
    BY <1>1 DEF MemorySound, HeadsSound, Memories
  <2>3. n \in S /\ ToSet(drive.frontier) \subseteq S
    BY <1>1 DEF MemorySound, S
  <2> QED BY <2>1, <2>2, <2>3
<1>3. Fits(state, log, S)
  BY <1>2, FitsWider
<1>4. StateSound(now) /\ now \in RunStates /\ now.counts = state.counts /\ now.finished[n] > 0
  BY <1>1, <1>2, <1>3, FoldIsSound, UncountedKeeps, LastTells DEF StateSound
<1>5. (n \in now.refused /\ Successors(now, n) = <<>>) =>
        Write((log \o WriteOff(drive.frontier)) \o <<RunIs("failed")>>, Off)
  BY DEF AfterAlone
<1>6. ~(n \in now.refused /\ Successors(now, n) = <<>>) => NextHead(log \o adv.log, adv.frontier)
  BY DEF AfterAlone
<1> DEFINE written == WriteOff(drive.frontier)
           whole == (log \o written) \o <<RunIs("failed")>>
<1>7. ASSUME Write(whole, Off) PROVE DriveInv'
  <2>1. /\ written \in Seq(LogRecords(ToSet(drive.frontier)))
        /\ ToSet(written) \cap (CountedHopRecords \cup RunRecords) = {}
    BY <1>2, WriteOffTells
  <2> HIDE DEF written
  <2>2. Fits(state, written, ToSet(drive.frontier))
    BY <2>1, FitsUncounted
  <2>3. Fits(state, written, S)
    BY <1>2, <2>2, FitsWider
  <2>4. Fits(state, log \o written, S)
    BY <1>3, <2>1, <2>3, FitsJoined
  <2> DEFINE both == log \o written
  <2>5. Fits(state, both, S)
    BY <2>4
  <2> HIDE DEF both
  <2>6. Fits(state, both \o <<RunIs("failed")>>, S)
    BY <2>5, RunRecordFits DEF RunStatuses
  <2>7. Fits(state, whole, S)
    BY <2>6 DEF both
  <2> HIDE DEF whole
  <2>8. MemorySound(Off, Fold(state, whole), asked)
    BY <1>1, OffIsSound
  <2> QED BY <1>7, <2>7, <2>8, WriteIsSound
<1>8. ASSUME NextHead(log \o adv.log, adv.frontier) PROVE DriveInv'
  <2> HIDE DEF now
  <2>1. Advances(now, n, drive.frontier, adv, ToSet(drive.frontier))
    BY <1>1, <1>2, <1>4, AdvanceAdvances
  <2> HIDE DEF adv
  <2>2. /\ adv.frontier \in Seq(Nodes) /\ IsInjective(adv.frontier)
        /\ ToSet(adv.frontier) \subseteq ToSet(drive.frontier) \cup Targets(n)
        /\ Fits(now, adv.log, ToSet(drive.frontier)) /\ ToSet(adv.log) \cap RunRecords = {}
    BY <1>2, <2>1 DEF Advances
  <2>3. Fits(state, adv.log, S)
    BY <1>2, <1>4, <2>2, FitsWider
  <2>4. Fits(state, log \o adv.log, S)
    BY <1>3, <2>3, FitsJoined
  <2>5. log \in Seq(R) /\ adv.log \in Seq(R)
    BY <1>3, <2>3 DEF Fits
  <2> HIDE DEF R
  <2>6. ToSet(log \o adv.log) \cap RunRecords = {}
    <3>1. ToSet(log \o adv.log) = ToSet(log) \cup ToSet(adv.log)
      BY <2>5, Joined
    <3> QED BY <2>2, <3>1
  <2>7. Fold(state, log \o adv.log) = Fold(now, adv.log)
    BY <2>5, FoldJoined DEF now
  <2>8. InvitedIn(now) \subseteq InvitedIn(Fold(now, adv.log)) /\ S \subseteq InvitedIn(now)
    <3>1. S \subseteq InvitedIn(now)
      BY <1>1, <1>3, FoldIsSound DEF now
    <3>2. ToSet(drive.frontier) \subseteq InvitedIn(now)
      BY <1>2, <3>1
    <3> QED BY <1>1, <1>4, <2>2, <3>1, <3>2, FoldIsSound
  <2>9. Targets(n) \subseteq InvitedIn(now)
    BY <1>4, TargetsAreInvited
  <2>10. ToSet(adv.frontier) \subseteq InvitedIn(Fold(state, log \o adv.log))
    BY <1>2, <2>2, <2>7, <2>8, <2>9
  <2> DEFINE both == log \o adv.log
             frontier == adv.frontier
  <2>11. /\ Fits(state, both, S) /\ ToSet(both) \cap RunRecords = {} /\ frontier \in Seq(Nodes)
         /\ IsInjective(frontier) /\ ToSet(frontier) \subseteq InvitedIn(Fold(state, both)) /\ NextHead(both, frontier)
    BY <1>8, <2>2, <2>4, <2>6, <2>10
  <2> HIDE DEF both, frontier, S
  <2>12. S \subseteq InvitedIn(state)
    BY DEF S
  <2> QED BY <2>11, <2>12, NextHeadIsSound
<1> HIDE DEF written, now, adv, whole
<1>9. n \in now.refused /\ Successors(now, n) = <<>> => Write(whole, Off)
  BY <1>5 DEF whole, written
<1> QED BY <1>6, <1>7, <1>8, <1>9

-----------------------------------------------------------------------------
(* The end of a batch *)

\* What the members routed one after the other lead through.
RoutedThrough(s, members, batch, frontier, at) ==
  /\ DOMAIN at = 0 .. Len(members) /\ at[0] = [log |-> <<>>, frontier |-> frontier]
  /\ AdvanceAll(s, members, batch, frontier) = at[Len(members)]
  /\ \A k \in 1 .. Len(members) : at[k] = AdvanceNext(s, batch, at[k - 1], members[k])

\* AdvanceAll routes one member after the other.
LEMMA AdvanceAllSteps ==
  ASSUME NEW s, NEW batch, NEW frontier, NEW R, NEW members \in Seq(R)
  PROVE  \E at : RoutedThrough(s, members, batch, frontier, at)
<1> DEFINE n == Len(members)
           base == [log |-> <<>>, frontier |-> frontier]
           Of(f, m) == f = [S \in SUBSET (1 .. m) |->
                              IF S = {} THEN base ELSE AdvanceNext(s, batch, f[S \ {Max(S)}], members[Max(S)])]
           Defined == {m \in Nat : \E f : Of(f, m)}
<1>1. 0 \in Defined
  <2> DEFINE f == [S \in SUBSET (1 .. 0) |-> base]
  <2>1. \A S \in SUBSET (1 .. 0) : S = {}
    OBVIOUS
  <2>2. Of(f, 0)
    BY <2>1
  <2> HIDE DEF Of, f
  <2> QED BY <2>2
<1>2. ASSUME NEW m \in Nat, m \in Defined PROVE m + 1 \in Defined
  <2>1. PICK f : Of(f, m)
    BY <1>2
  <2>2. \A S \in SUBSET (1 .. m) :
          f[S] = IF S = {} THEN base ELSE AdvanceNext(s, batch, f[S \ {Max(S)}], members[Max(S)])
    BY <2>1
  <2> DEFINE g == [S \in SUBSET (1 .. m + 1) |->
                     IF m + 1 \in S THEN AdvanceNext(s, batch, f[S \ {m + 1}], members[m + 1]) ELSE f[S]]
  <2>3. \A S \in SUBSET (1 .. m + 1) :
          g[S] = IF S = {} THEN base ELSE AdvanceNext(s, batch, g[S \ {Max(S)}], members[Max(S)])
    <3> SUFFICES ASSUME NEW S \in SUBSET (1 .. m + 1)
                 PROVE  g[S] = IF S = {} THEN base ELSE AdvanceNext(s, batch, g[S \ {Max(S)}], members[Max(S)])
      OBVIOUS
    <3>1. \A T \in SUBSET (1 .. m) : g[T] = f[T]
      OBVIOUS
    <3>2. CASE m + 1 \in S
      <4>1. Max(S) = m + 1 /\ S \ {m + 1} \in SUBSET (1 .. m) /\ S # {}
        BY <3>2, LastPositions
      <4>2. g[S] = AdvanceNext(s, batch, f[S \ {m + 1}], members[m + 1])
        BY <3>2
      <4> HIDE DEF g
      <4> QED BY <3>1, <4>1, <4>2
    <3>3. CASE m + 1 \notin S
      <4>1. S \in SUBSET (1 .. m)
        BY <3>3
      <4>2. S # {} => S \ {Max(S)} \in SUBSET (1 .. m)
        BY <4>1, LastPositions
      <4> HIDE DEF g
      <4> QED BY <2>2, <3>1, <4>1, <4>2
    <3> QED BY <3>2, <3>3
  <2>4. g = [S \in SUBSET (1 .. m + 1) |-> g[S]]
    OBVIOUS
  <2> HIDE DEF g
  <2>5. Of(g, m + 1)
    BY <2>3, <2>4
  <2> HIDE DEF Of
  <2> QED BY <2>5
<1>3. n \in Nat /\ DOMAIN members = 1 .. n
  OBVIOUS
<1>4. n \in Defined
  <2> HIDE DEF Defined
  <2> QED BY <1>1, <1>2, <1>3, Induction
<1> DEFINE iter == CHOOSE f : Of(f, n)
<1>5. Of(iter, n)
  <2>1. \E f : Of(f, n)
    BY <1>4
  <2> HIDE DEF Of
  <2> QED BY <2>1
<1>6. AdvanceAll(s, members, batch, frontier) = iter[1 .. n]
  BY <1>3 DEF AdvanceAll, FoldLeft, MapThenFoldSet
<1> HIDE DEF iter
<1>7. \A S \in SUBSET (1 .. n) :
        iter[S] = IF S = {} THEN base ELSE AdvanceNext(s, batch, iter[S \ {Max(S)}], members[Max(S)])
  BY <1>5
<1> DEFINE at == [k \in 0 .. n |-> iter[1 .. k]]
<1>8. at[0] = base
  <2>1. 1 .. 0 = {} /\ 0 \in 0 .. n /\ {} \in SUBSET (1 .. n)
    BY <1>3
  <2> QED BY <1>7, <2>1
<1>9. \A k \in 1 .. n : at[k] = AdvanceNext(s, batch, at[k - 1], members[k])
  <2> SUFFICES ASSUME NEW k \in 1 .. n PROVE at[k] = AdvanceNext(s, batch, at[k - 1], members[k])
    OBVIOUS
  <2>1. Max(1 .. k) = k /\ (1 .. k) \ {k} = 1 .. k - 1
    <3>1. k - 1 \in Nat /\ (k - 1) + 1 = k
      OBVIOUS
    <3> QED BY <3>1, LastPositions
  <2>2. 1 .. k \in SUBSET (1 .. n) /\ 1 .. k # {} /\ k \in 0 .. n /\ k - 1 \in 0 .. n
    BY <1>3
  <2> QED BY <1>7, <2>1, <2>2
<1>10. DOMAIN at = 0 .. n /\ at[n] = iter[1 .. n]
  BY <1>3
<1> HIDE DEF at
<1>11. RoutedThrough(s, members, batch, frontier, at)
  BY <1>6, <1>8, <1>9, <1>10 DEF RoutedThrough
<1> QED BY <1>11

\* What the edges offered one after the other lead through.
OfferedThrough(s, batch, tail, edges, at) ==
  /\ DOMAIN at = 0 .. Len(edges) /\ at[0] = tail /\ OfferAll(s, batch, tail, edges) = at[Len(edges)]
  /\ \A k \in 1 .. Len(edges) : at[k] = Offer(s, batch, at[k - 1], edges[k])

\* OfferAll offers one edge after the other.
LEMMA OfferSteps ==
  ASSUME NEW s, NEW batch, NEW tail, NEW R, NEW edges \in Seq(R)
  PROVE  \E at : OfferedThrough(s, batch, tail, edges, at)
<1> DEFINE n == Len(edges)
           Of(f, m) == f = [S \in SUBSET (1 .. m) |->
                              IF S = {} THEN tail ELSE Offer(s, batch, f[S \ {Max(S)}], edges[Max(S)])]
           Defined == {m \in Nat : \E f : Of(f, m)}
<1>1. 0 \in Defined
  <2> DEFINE f == [S \in SUBSET (1 .. 0) |-> tail]
  <2>1. \A S \in SUBSET (1 .. 0) : S = {}
    OBVIOUS
  <2>2. Of(f, 0)
    BY <2>1
  <2> HIDE DEF Of, f
  <2> QED BY <2>2
<1>2. ASSUME NEW m \in Nat, m \in Defined PROVE m + 1 \in Defined
  <2>1. PICK f : Of(f, m)
    BY <1>2
  <2>2. \A S \in SUBSET (1 .. m) :
          f[S] = IF S = {} THEN tail ELSE Offer(s, batch, f[S \ {Max(S)}], edges[Max(S)])
    BY <2>1
  <2> DEFINE g == [S \in SUBSET (1 .. m + 1) |->
                     IF m + 1 \in S THEN Offer(s, batch, f[S \ {m + 1}], edges[m + 1]) ELSE f[S]]
  <2>3. \A S \in SUBSET (1 .. m + 1) :
          g[S] = IF S = {} THEN tail ELSE Offer(s, batch, g[S \ {Max(S)}], edges[Max(S)])
    <3> SUFFICES ASSUME NEW S \in SUBSET (1 .. m + 1)
                 PROVE  g[S] = IF S = {} THEN tail ELSE Offer(s, batch, g[S \ {Max(S)}], edges[Max(S)])
      OBVIOUS
    <3>1. \A T \in SUBSET (1 .. m) : g[T] = f[T]
      OBVIOUS
    <3>2. CASE m + 1 \in S
      <4>1. Max(S) = m + 1 /\ S \ {m + 1} \in SUBSET (1 .. m) /\ S # {}
        BY <3>2, LastPositions
      <4>2. g[S] = Offer(s, batch, f[S \ {m + 1}], edges[m + 1])
        BY <3>2
      <4> HIDE DEF g
      <4> QED BY <3>1, <4>1, <4>2
    <3>3. CASE m + 1 \notin S
      <4>1. S \in SUBSET (1 .. m)
        BY <3>3
      <4>2. S # {} => S \ {Max(S)} \in SUBSET (1 .. m)
        BY <4>1, LastPositions
      <4> HIDE DEF g
      <4> QED BY <2>2, <3>1, <4>1, <4>2
    <3> QED BY <3>2, <3>3
  <2>4. g = [S \in SUBSET (1 .. m + 1) |-> g[S]]
    OBVIOUS
  <2> HIDE DEF g
  <2>5. Of(g, m + 1)
    BY <2>3, <2>4
  <2> HIDE DEF Of
  <2> QED BY <2>5
<1>3. n \in Nat /\ DOMAIN edges = 1 .. n
  OBVIOUS
<1>4. n \in Defined
  <2> HIDE DEF Defined
  <2> QED BY <1>1, <1>2, <1>3, Induction
<1> DEFINE iter == CHOOSE f : Of(f, n)
<1>5. Of(iter, n)
  <2>1. \E f : Of(f, n)
    BY <1>4
  <2> HIDE DEF Of
  <2> QED BY <2>1
<1>6. OfferAll(s, batch, tail, edges) = iter[1 .. n]
  BY <1>3 DEF OfferAll, FoldLeft, MapThenFoldSet
<1> HIDE DEF iter
<1>7. \A S \in SUBSET (1 .. n) :
        iter[S] = IF S = {} THEN tail ELSE Offer(s, batch, iter[S \ {Max(S)}], edges[Max(S)])
  BY <1>5
<1> DEFINE at == [k \in 0 .. n |-> iter[1 .. k]]
<1>8. at[0] = tail
  <2>1. 1 .. 0 = {} /\ 0 \in 0 .. n /\ {} \in SUBSET (1 .. n)
    BY <1>3
  <2> QED BY <1>7, <2>1
<1>9. \A k \in 1 .. n : at[k] = Offer(s, batch, at[k - 1], edges[k])
  <2> SUFFICES ASSUME NEW k \in 1 .. n PROVE at[k] = Offer(s, batch, at[k - 1], edges[k])
    OBVIOUS
  <2>1. Max(1 .. k) = k /\ (1 .. k) \ {k} = 1 .. k - 1
    <3>1. k - 1 \in Nat /\ (k - 1) + 1 = k
      OBVIOUS
    <3> QED BY <3>1, LastPositions
  <2>2. 1 .. k \in SUBSET (1 .. n) /\ 1 .. k # {} /\ k \in 0 .. n /\ k - 1 \in 0 .. n
    BY <1>3
  <2> QED BY <1>7, <2>1, <2>2
<1>10. DOMAIN at = 0 .. n /\ at[n] = iter[1 .. n]
  BY <1>3
<1> HIDE DEF at
<1>11. OfferedThrough(s, batch, tail, edges, at)
  BY <1>6, <1>8, <1>9, <1>10 DEF OfferedThrough
<1> QED BY <1>11

\* A log and a frontier the end of a batch may leave, with edges of M counted.
TailSound(s, acc, M) ==
  /\ acc.frontier \in Seq(Nodes) /\ IsInjective(acc.frontier) /\ ToSet(acc.frontier) \subseteq InvitedIn(s)
  /\ Fits(s, acc.log, InvitedIn(s)) /\ ToSet(acc.log) \cap RunRecords = {}
  /\ \A r \in ToSet(acc.log) : r \in CountedHopRecords => r.node \in M

\* The members that ended are routed each on what the others left of the frontier.
LEMMA AdvanceAllIsSound ==
  ASSUME shape \in DOMAIN Graphs, NEW s, StateSound(s), NEW members \in Seq(Nodes), IsInjective(members),
         \A m \in ToSet(members) : s.finished[m] > 0,
         NEW batch, NEW frontier \in Seq(Nodes), IsInjective(frontier), ToSet(frontier) \subseteq InvitedIn(s)
  PROVE  TailSound(s, AdvanceAll(s, members, batch, frontier), ToSet(members))
<1> DEFINE n == Len(members)
           S == InvitedIn(s)
           R == LogRecords(S)
           done(k) == {members[i] : i \in 1 .. k}
<1>1. n \in Nat /\ DOMAIN members = 1 .. n /\ \A k \in 1 .. n : members[k] \in Nodes /\ members[k] \in ToSet(members)
  BY DEF ToSet
<1>2. PICK at : RoutedThrough(s, members, batch, frontier, at)
  BY AdvanceAllSteps
<1>3. /\ at[0] = [log |-> <<>>, frontier |-> frontier]
      /\ AdvanceAll(s, members, batch, frontier) = at[n]
      /\ \A k \in 1 .. n : at[k] = AdvanceNext(s, batch, at[k - 1], members[k])
  BY <1>2 DEF RoutedThrough
<1> DEFINE Good == {k \in Nat : k <= n => TailSound(s, at[k], done(k))}
<1>4. 0 \in Good
  <2>1. at[0].log = <<>> /\ at[0].frontier = frontier
    BY <1>3
  <2>2. <<>> \in Seq(R) /\ ToSet(<<>>) = {}
    BY DEF ToSet
  <2> HIDE DEF R
  <2>3. Fits(s, <<>>, S)
    BY <2>2, FitsUncounted DEF R
  <2> QED BY <2>1, <2>2, <2>3 DEF TailSound
<1>5. ASSUME NEW k \in Nat, k \in Good PROVE k + 1 \in Good
  <2> SUFFICES ASSUME k + 1 <= n PROVE TailSound(s, at[k + 1], done(k + 1))
    OBVIOUS
  <2> DEFINE acc == at[k]
             m == members[k + 1]
             adv == Advance(s, m, acc.frontier, ToSet(batch))
  <2>1. k + 1 \in 1 .. n /\ (k + 1) - 1 = k /\ k <= n
    BY <1>1
  <2>2. TailSound(s, acc, done(k)) /\ m \in Nodes /\ s.finished[m] > 0
    BY <1>1, <1>5, <2>1
  <2>3. at[k + 1] = [log |-> acc.log \o adv.log, frontier |-> adv.frontier]
    BY <1>3, <2>1 DEF AdvanceNext
  <2>4. m \notin done(k)
    <3> SUFFICES ASSUME NEW i \in 1 .. k, members[i] = m PROVE FALSE
      OBVIOUS
    <3>1. i \in 1 .. n /\ i # k + 1
      BY <2>1
    <3> QED BY <1>1, <2>1, <3>1 DEF IsInjective
  <2>5. done(k + 1) = done(k) \cup {m}
    <3>1. 1 .. k + 1 = (1 .. k) \cup {k + 1}
      BY <2>1
    <3> QED BY <3>1
  <2> HIDE DEF acc, m, done
  <2>6. Advances(s, m, acc.frontier, adv, ToSet(acc.frontier))
    BY <2>2, AdvanceAdvances DEF TailSound, StateSound
  <2> HIDE DEF adv
  <2>7. /\ adv.frontier \in Seq(Nodes) /\ IsInjective(adv.frontier) /\ ToSet(adv.frontier) \subseteq S
        /\ Fits(s, adv.log, S) /\ ToSet(adv.log) \cap RunRecords = {}
        /\ \A r \in ToSet(adv.log) : r \in CountedHopRecords => r.node = m
    <3>1. Targets(m) \subseteq S
      BY <2>2, TargetsAreInvited
    <3>2. Fits(s, adv.log, S)
      BY <2>2, <2>6, FitsWider DEF TailSound, Advances
    <3> QED BY <2>2, <2>6, <3>1, <3>2 DEF TailSound, Advances
  <2>8. /\ Fits(s, acc.log, S) /\ ToSet(acc.log) \cap RunRecords = {}
        /\ \A r \in ToSet(acc.log) : r \in CountedHopRecords => r.node \in done(k)
    BY <2>2 DEF TailSound
  <2>9. ToSet(acc.log) \cap ToSet(adv.log) \cap CountedHopRecords = {}
    BY <2>4, <2>7, <2>8
  <2>10. Fits(s, acc.log \o adv.log, S)
    BY <2>7, <2>8, <2>9, FitsJoined
  <2>11. acc.log \in Seq(R) /\ adv.log \in Seq(R)
    BY <2>7, <2>8 DEF Fits
  <2> HIDE DEF R
  <2>12. ToSet(acc.log \o adv.log) = ToSet(acc.log) \cup ToSet(adv.log)
    BY <2>11, Joined
  <2> DEFINE next == at[k + 1]
             log == acc.log \o adv.log
  <2>13. next = [log |-> log, frontier |-> adv.frontier] /\ Fits(s, log, S)
         /\ ToSet(log) = ToSet(acc.log) \cup ToSet(adv.log)
    BY <2>3, <2>10, <2>12
  <2> HIDE DEF next, log, S
  <2>14. next.log = log /\ next.frontier = adv.frontier
    BY <2>13
  <2>15. TailSound(s, next, done(k) \cup {m})
    BY <2>7, <2>8, <2>13, <2>14 DEF TailSound, S
  <2> QED BY <2>5, <2>15 DEF next
<1>6. n \in Good
  <2> HIDE DEF Good
  <2> QED BY <1>1, <1>4, <1>5, Induction
<1>7. done(n) = ToSet(members)
  BY <1>1 DEF ToSet
<1>8. TailSound(s, at[n], done(n))
  BY <1>1, <1>6
<1> QED BY <1>3, <1>7, <1>8

\* One counted edge.
LEMMA OneCounts ==
  ASSUME NEW s, NEW S, NEW e \in Edges, s.counts[<<e.from, e.to>>] < e.cap
  PROVE  /\ Fits(s, <<CountedHop(e.from, e.to)>>, S)
         /\ ToSet(<<CountedHop(e.from, e.to)>>) = {CountedHop(e.from, e.to)}
         /\ CountedHop(e.from, e.to) \notin RunRecords
         /\ CountedHop(e.from, e.to).node = e.from /\ CountedHop(e.from, e.to).to = e.to
<1> DEFINE r == CountedHop(e.from, e.to)
           p == <<e.from, e.to>>
           R == LogRecords(S)
<1>1. p \in Pairs /\ r = CountedHop(p[1], p[2])
  BY DEF Pairs
<1>2. r \in R /\ r \in CountedHopRecords
  BY <1>1 DEF LogRecords, HopRecords, CountedHopRecords
<1>3. r.node = e.from /\ r.to = e.to
  BY DEF CountedHop, Record
<1>4. r \notin RunRecords
  BY RecordsDiffer
<1> HIDE DEF r, R, p
<1>5. <<r>> \in Seq(R) /\ DOMAIN <<r>> = {1} /\ <<r>>[1] = r /\ ToSet(<<r>>) = {r}
  BY <1>2 DEF ToSet
<1>6. CountsOnce(s, <<r>>)
  BY <1>3, <1>5 DEF CountsOnce
<1>7. Fits(s, <<r>>, S)
  BY <1>5, <1>6 DEF Fits, R
<1> QED BY <1>3, <1>4, <1>5, <1>7 DEF r

\* An edge may be offered once its source finished, below its cap, and when none of M took it.
Offerable(s, e, M) ==
  /\ s.finished[e.from] > 0 /\ e.from \notin M
  /\ e.cap > 0 => s.counts[<<e.from, e.to>>] < e.cap

\* The joins offered again are not on the frontier yet, so none of them is counted twice.
LEMMA OfferAllIsSound ==
  ASSUME shape \in DOMAIN Graphs, NEW s, StateSound(s), NEW M, NEW tail, TailSound(s, tail, M),
         NEW edges \in Seq(Edges), \A e \in ToSet(edges) : Offerable(s, e, M), NEW now, NEW batch
  PROVE  \E T : TailSound(s, OfferAll(now, batch, tail, edges), T)
<1> DEFINE n == Len(edges)
           S == InvitedIn(s)
           R == LogRecords(S)
           Sound(acc) == /\ acc.frontier \in Seq(Nodes) /\ IsInjective(acc.frontier) /\ ToSet(acc.frontier) \subseteq S
                         /\ Fits(s, acc.log, S) /\ ToSet(acc.log) \cap RunRecords = {}
                         /\ \A r \in ToSet(acc.log) :
                              r \in CountedHopRecords => r.node \in M \/ r.to \in ToSet(acc.frontier)
<1>1. n \in Nat /\ DOMAIN edges = 1 .. n
      /\ \A k \in 1 .. n : edges[k] \in Edges /\ Offerable(s, edges[k], M)
  BY DEF ToSet
<1>2. PICK at : OfferedThrough(now, batch, tail, edges, at)
  BY OfferSteps
<1>3. /\ at[0] = tail /\ OfferAll(now, batch, tail, edges) = at[n]
      /\ \A k \in 1 .. n : at[k] = Offer(now, batch, at[k - 1], edges[k])
  BY <1>2 DEF OfferedThrough
<1>4. ASSUME NEW acc, Sound(acc), NEW e \in Edges, Offerable(s, e, M) PROVE Sound(Offer(now, batch, acc, e))
  <2> DEFINE more == IF e.cap > 0 THEN <<CountedHop(e.from, e.to)>> ELSE <<>>
             frontier == acc.frontier \o <<e.to>>
             log == acc.log \o more
  <2>1. \/ Offer(now, batch, acc, e) = acc
        \/ /\ e.to \notin ToSet(acc.frontier)
           /\ Offer(now, batch, acc, e) = [log |-> log, frontier |-> frontier]
    BY DEF Offer
  <2> SUFFICES ASSUME e.to \notin ToSet(acc.frontier) PROVE Sound([log |-> log, frontier |-> frontier])
    BY <1>4, <2>1
  <2>2. e.to \in Nodes /\ e.to \in S
    <3>1. e.to \in Nodes
      BY GraphFacts
    <3>2. s.finished[e.from] > 0
      BY <1>4 DEF Offerable
    <3> QED BY <3>1, <3>2 DEF InvitedIn
  <2>3. frontier \in Seq(Nodes) /\ IsInjective(frontier) /\ ToSet(frontier) = ToSet(acc.frontier) \cup {e.to}
    <3> DEFINE one == <<e.to>>
               old == acc.frontier
    <3>1. one \in Seq(Nodes) /\ IsInjective(one) /\ ToSet(one) = {e.to} /\ old \in Seq(Nodes) /\ IsInjective(old)
      BY <1>4, <2>2 DEF IsInjective, ToSet
    <3>2. ToSet(old) \cap ToSet(one) = {}
      BY <3>1
    <3> HIDE DEF one, old
    <3>3. /\ old \o one \in Seq(Nodes) /\ IsInjective(old \o one)
          /\ ToSet(old \o one) = ToSet(old) \cup ToSet(one)
      BY <3>1, <3>2, Joined
    <3> QED BY <3>1, <3>3 DEF old, one
  <2>4. Fits(s, more, S) /\ ToSet(more) \cap RunRecords = {} /\ \A r \in ToSet(more) : r.node = e.from /\ r.to = e.to
    <3>1. CASE e.cap > 0
      <4>1. s.counts[<<e.from, e.to>>] < e.cap
        BY <1>4, <3>1 DEF Offerable
      <4> QED BY <3>1, <4>1, OneCounts
    <3>2. CASE ~(e.cap > 0)
      <4>1. <<>> \in Seq(R) /\ ToSet(<<>>) = {}
        BY DEF ToSet
      <4> HIDE DEF R
      <4>2. Fits(s, <<>>, S)
        BY <4>1, FitsUncounted DEF R
      <4> QED BY <3>2, <4>1, <4>2
    <3> QED BY <3>1, <3>2
  <2> HIDE DEF more
  <2>5. ToSet(acc.log) \cap ToSet(more) \cap CountedHopRecords = {}
    BY <1>4, <2>4 DEF Offerable
  <2>6. Fits(s, acc.log \o more, S)
    BY <1>4, <2>4, <2>5, FitsJoined
  <2>7. acc.log \in Seq(R) /\ more \in Seq(R)
    BY <1>4, <2>4 DEF Fits
  <2> HIDE DEF R
  <2>8. ToSet(acc.log \o more) = ToSet(acc.log) \cup ToSet(more)
    BY <2>7, Joined
  <2> DEFINE next == [log |-> log, frontier |-> frontier]
  <2>9. Fits(s, log, S) /\ ToSet(log) = ToSet(acc.log) \cup ToSet(more)
    BY <2>6, <2>8
  <2> HIDE DEF log, frontier
  <2>10. next.log = log /\ next.frontier = frontier
    OBVIOUS
  <2> HIDE DEF next, S
  <2> QED BY <1>4, <2>2, <2>3, <2>4, <2>9, <2>10 DEF next
<1> DEFINE Good == {k \in Nat : k <= n => Sound(at[k])}
<1>5. 0 \in Good
  BY <1>3 DEF TailSound
<1>6. ASSUME NEW k \in Nat, k \in Good PROVE k + 1 \in Good
  <2> SUFFICES ASSUME k + 1 <= n PROVE Sound(at[k + 1])
    OBVIOUS
  <2>1. k + 1 \in 1 .. n /\ (k + 1) - 1 = k /\ k <= n
    BY <1>1
  <2>2. Sound(at[k]) /\ edges[k + 1] \in Edges /\ Offerable(s, edges[k + 1], M)
    BY <1>1, <1>6, <2>1
  <2>3. at[k + 1] = Offer(now, batch, at[k], edges[k + 1])
    BY <1>3, <2>1
  <2> HIDE DEF Sound
  <2> QED BY <1>4, <2>2, <2>3
<1>7. n \in Good
  <2> HIDE DEF Good
  <2> QED BY <1>1, <1>5, <1>6, Induction
<1>8. Sound(at[n])
  <2> HIDE DEF Sound
  <2> QED BY <1>1, <1>7
<1> DEFINE T == {r.node : r \in ToSet(at[n].log)}
<1>9. TailSound(s, at[n], T)
  BY <1>8 DEF TailSound
<1> QED BY <1>3, <1>9

\* The edges some members select.
LEMMA SelectedByMembers ==
  ASSUME shape \in DOMAIN Graphs, NEW s, NEW members \in Seq(Nodes), NEW edges,
         edges = FlattenSeq([i \in DOMAIN members |-> SelectedEdges(s, members[i], FALSE)])
  PROVE  /\ edges \in Seq(Edges)
         /\ \A e \in ToSet(edges) : e \in Edges /\ e.from \in ToSet(members) /\ EdgeAvailable(s, e, FALSE)
<1> DEFINE parts == [i \in DOMAIN members |-> SelectedEdges(s, members[i], FALSE)]
<1>1. \A i \in DOMAIN members :
        /\ SelectedEdges(s, members[i], FALSE) \in Seq(Edges)
        /\ \A e \in ToSet(SelectedEdges(s, members[i], FALSE)) :
             e \in Edges /\ e.from = members[i] /\ EdgeAvailable(s, e, FALSE)
  BY SelectedAreOutgoing
<1>2. DOMAIN members = 1 .. Len(members) /\ Len(members) \in Nat /\ DOMAIN parts = DOMAIN members
      /\ \A i \in DOMAIN members : members[i] \in ToSet(members) /\ parts[i] = SelectedEdges(s, members[i], FALSE)
  BY DEF ToSet
<1>3. parts \in [1 .. Len(members) -> Seq(Edges)]
  BY <1>1, <1>2
<1>4. parts \in Seq(Seq(Edges)) /\ edges = FlattenSeq(parts)
  <2>1. edges = FlattenSeq(parts)
    OBVIOUS
  <2> DEFINE E == Seq(Edges)
  <2> HIDE DEF parts, E
  <2>2. parts \in Seq(E)
    BY <1>2, <1>3 DEF E
  <2> QED BY <2>1, <2>2 DEF E
<1> HIDE DEF parts
<1>5. FlattenSeq(parts) \in Seq(Edges) /\ ToSet(FlattenSeq(parts)) = UNION {ToSet(parts[i]) : i \in DOMAIN parts}
  BY <1>4, Flattened
<1>6. ASSUME NEW e \in ToSet(edges) PROVE e \in Edges /\ e.from \in ToSet(members) /\ EdgeAvailable(s, e, FALSE)
  <2>1. PICK i \in DOMAIN parts : e \in ToSet(parts[i])
    BY <1>4, <1>5
  <2> QED BY <1>1, <1>2, <2>1
<1> QED BY <1>4, <1>5, <1>6

\* The joins a batch offers again leave a log and a frontier in order.
LEMMA ReofferIsSound ==
  ASSUME shape \in DOMAIN Graphs, NEW s, StateSound(s), NEW M, NEW tail, TailSound(s, tail, M),
         NEW batch \in Seq(Nodes), NEW advanced, advanced \cap M = {}, \A n \in advanced : s.finished[n] > 0
  PROVE  \E T : TailSound(s, Reoffer(Fold(s, tail.log), advanced, batch, tail), T)
<1> DEFINE now == Fold(s, tail.log)
           members == Among(batch, advanced)
           edges == FlattenSeq([i \in DOMAIN members |-> SelectedEdges(now, members[i], FALSE)])
<1>1. members \in Seq(Nodes) /\ ToSet(members) \subseteq advanced
  BY AmongKeeps
<1>2. Reoffer(now, advanced, batch, tail) = OfferAll(now, batch, tail, edges)
  BY DEF Reoffer
<1>3. \A p \in Pairs : CountedHop(p[1], p[2]) \notin ToSet(tail.log) => now.counts[p] = s.counts[p]
  <2>1. InvitedIn(s) \in SUBSET Nodes
    BY GraphFacts DEF InvitedIn
  <2> QED BY <2>1, FoldFollows DEF StateSound, TailSound
<1> HIDE DEF now, members
<1>4. edges \in Seq(Edges)
      /\ \A e \in ToSet(edges) : e \in Edges /\ e.from \in ToSet(members) /\ EdgeAvailable(now, e, FALSE)
  <2> DEFINE found == edges
  <2>1. found = FlattenSeq([i \in DOMAIN members |-> SelectedEdges(now, members[i], FALSE)])
    OBVIOUS
  <2> HIDE DEF found
  <2>2. found \in Seq(Edges)
        /\ \A e \in ToSet(found) : e \in Edges /\ e.from \in ToSet(members) /\ EdgeAvailable(now, e, FALSE)
    BY <1>1, <2>1, SelectedByMembers
  <2> QED BY <2>2 DEF found
<1> HIDE DEF edges
<1>5. ASSUME NEW e \in ToSet(edges) PROVE Offerable(s, e, M)
  <2>1. e \in Edges /\ e.from \in advanced /\ EdgeAvailable(now, e, FALSE)
    BY <1>1, <1>4
  <2>2. s.finished[e.from] > 0 /\ e.from \notin M
    BY <2>1
  <2>3. ASSUME e.cap > 0 PROVE s.counts[<<e.from, e.to>>] < e.cap
    <3> DEFINE p == <<e.from, e.to>>
    <3>1. p \in Pairs /\ p[1] = e.from /\ p[2] = e.to
      BY <2>1 DEF Pairs
    <3> HIDE DEF p
    <3>2. CountedHop(p[1], p[2]) \in CountedHopRecords /\ CountedHop(p[1], p[2]).node = p[1]
      BY <3>1 DEF CountedHopRecords, CountedHop, Record
    <3>3. CountedHop(p[1], p[2]) \notin ToSet(tail.log)
      BY <2>2, <3>1, <3>2 DEF TailSound
    <3>4. now.counts[p] = s.counts[p]
      BY <1>3, <3>1, <3>3
    <3>5. e.cap \in Nat
      BY <2>1, GraphFacts
    <3>6. now.counts[p] < e.cap
      BY <2>1, <2>3, <3>5 DEF EdgeAvailable, p
    <3> QED BY <3>4, <3>6 DEF p
  <2> QED BY <2>2, <2>3 DEF Offerable
<1>6. \E T : TailSound(s, OfferAll(now, batch, tail, edges), T)
  BY <1>4, <1>5, OfferAllIsSound
<1> QED BY <1>2, <1>6 DEF now

-----------------------------------------------------------------------------
(* One lemma per action *)

\* What the invariant gives the steps of a driver.
LEMMA DriverFacts ==
  ASSUME DriveInv
  PROVE  /\ shape \in DOMAIN Graphs /\ StateSound(state) /\ state \in RunStates
         /\ MemorySound(drive, state, asked) /\ HeadsSound(drive) /\ drive \in Memories
         /\ InvitedIn(state) \in SUBSET Nodes /\ drive.running \in SUBSET Nodes
         /\ drive.current \in Nodes /\ drive.frontier \in Seq(Nodes)
         /\ drive.batch \in Seq(Nodes) /\ drive.queue \in Seq(Nodes)
         /\ drive.phase # "off" => {drive.current} \cup ToSet(drive.frontier) \cup ToSet(drive.batch)
                                     \subseteq InvitedIn(state)
<1>1. shape \in DOMAIN Graphs /\ StateSound(state) /\ MemorySound(drive, state, asked)
  BY InvNow
<1>2. InvitedIn(state) \in SUBSET Nodes
  BY <1>1, GraphFacts DEF InvitedIn
<1> QED BY <1>1, <1>2 DEF MemorySound, StateSound, Memories

\* The batch's end: the members still to route, then the joins offered again.
LEMMA BatchEndsIsSound ==
  ASSUME DriveInv, BatchEnds
  PROVE  DriveInv'
<1> DEFINE kept == {m \in drive.ended \ drive.advanced : state.nodes[m] # "cancelled"}
           rest == Among(drive.batch, kept)
           tail == AdvanceAll(state, rest, drive.batch, drive.frontier)
           done == IF drive.advanced = {} THEN tail
                   ELSE Reoffer(Fold(state, tail.log), drive.advanced, drive.batch, tail)
<1>1. NextHead(done.log, done.frontier) /\ drive.phase # "off"
  BY DEF BatchEnds, BatchOver
<1>2. /\ shape \in DOMAIN Graphs /\ StateSound(state) /\ MemorySound(drive, state, asked) /\ HeadsSound(drive)
      /\ drive.frontier \in Seq(Nodes) /\ drive.batch \in Seq(Nodes)
  BY DriverFacts
<1>3. rest \in Seq(Nodes) /\ IsInjective(rest) /\ ToSet(rest) \subseteq kept
  <2> HIDE DEF kept
  <2> QED BY <1>2, AmongKeeps DEF HeadsSound
<1>4. \A m \in ToSet(rest) : state.finished[m] > 0 /\ m \notin drive.advanced
  BY <1>2, <1>3 DEF MemorySound
<1>5. IsInjective(drive.frontier) /\ ToSet(drive.frontier) \subseteq InvitedIn(state)
  BY <1>1, <1>2 DEF MemorySound, HeadsSound
<1> HIDE DEF rest
<1>6. TailSound(state, tail, ToSet(rest))
  BY <1>2, <1>3, <1>4, <1>5, AdvanceAllIsSound
<1> HIDE DEF tail
<1>7. \A n \in drive.advanced : state.finished[n] > 0
  BY <1>2 DEF MemorySound, HeadsSound
<1>8. drive.advanced \cap ToSet(rest) = {}
  BY <1>4
<1>9. \E T : TailSound(state, Reoffer(Fold(state, tail.log), drive.advanced, drive.batch, tail), T)
  BY <1>2, <1>6, <1>7, <1>8, ReofferIsSound
<1>10. \E T : TailSound(state, done, T)
  BY <1>6, <1>9
<1> HIDE DEF done
<1>11. /\ done.frontier \in Seq(Nodes) /\ IsInjective(done.frontier) /\ ToSet(done.frontier) \subseteq InvitedIn(state)
       /\ Fits(state, done.log, InvitedIn(state)) /\ ToSet(done.log) \cap RunRecords = {}
  BY <1>10 DEF TailSound
<1>12. InvitedIn(state) \subseteq InvitedIn(Fold(state, done.log))
  BY <1>2, <1>11, FoldIsSound
<1> DEFINE S == InvitedIn(state)
           log == done.log
           frontier == done.frontier
<1>13. /\ S \subseteq InvitedIn(state) /\ Fits(state, log, S) /\ ToSet(log) \cap RunRecords = {}
       /\ frontier \in Seq(Nodes) /\ IsInjective(frontier) /\ ToSet(frontier) \subseteq InvitedIn(Fold(state, log))
       /\ NextHead(log, frontier)
  BY <1>1, <1>11, <1>12
<1> HIDE DEF S, log, frontier
<1> QED BY <1>1, <1>13, NextHeadIsSound

\* A log of one record.
LEMMA OneRecord ==
  ASSUME NEW s, NEW S, NEW r \in LogRecords(S), r \notin CountedHopRecords
  PROVE  Fits(s, <<r>>, S) /\ ToSet(<<r>>) = {r} /\ <<r>> # <<>> /\ <<r>>[Len(<<r>>)] = r
<1> DEFINE R == LogRecords(S)
<1>1. <<r>> \in Seq(R) /\ ToSet(<<r>>) = {r} /\ <<r>> # <<>> /\ <<r>>[Len(<<r>>)] = r
  <2> HIDE DEF R
  <2>1. r \in R
    BY DEF R
  <2> QED BY <2>1 DEF ToSet
<1>2. Fits(s, <<r>>, S)
  BY <1>1, FitsUncounted
<1> QED BY <1>1, <1>2

\* One more record at the end of a log.
Then(log, r) == log \o <<r>>

\* A log with a record appended.
LEMMA OneMoreRecord ==
  ASSUME NEW s, NEW S, NEW r \in LogRecords(S), r \notin CountedHopRecords, NEW log, Fits(s, log, S)
  PROVE  /\ Fits(s, Then(log, r), S) /\ ToSet(Then(log, r)) = ToSet(log) \cup {r}
         /\ Then(log, r) # <<>> /\ Then(log, r)[Len(Then(log, r))] = r
<1> DEFINE one == <<r>>
           R == LogRecords(S)
           whole == Then(log, r)
<1>1. Fits(s, one, S) /\ ToSet(one) = {r} /\ Len(one) = 1 /\ one[1] = r
  BY OneRecord
<1>2. log \in Seq(R) /\ one \in Seq(R) /\ whole = log \o one
  BY <1>1 DEF Fits, Then
<1> HIDE DEF one, R, whole
<1>3. ToSet(log) \cap ToSet(one) \cap CountedHopRecords = {}
  BY <1>1
<1>4. Fits(s, log \o one, S) /\ ToSet(log \o one) = ToSet(log) \cup ToSet(one)
  BY <1>1, <1>2, <1>3, FitsJoined, Joined
<1>5. Len(log) \in Nat /\ Len(log \o one) = Len(log) + Len(one)
  BY <1>2
<1>6. (log \o one)[Len(log) + 1] = one[1]
  BY <1>1, <1>2, <1>5
<1>7. Len(whole) = Len(log) + 1 /\ whole[Len(log) + 1] = r /\ whole \in Seq(R)
  BY <1>1, <1>2, <1>5, <1>6
<1>8. whole # <<>> /\ whole[Len(whole)] = r
  BY <1>5, <1>7
<1> QED BY <1>1, <1>2, <1>4, <1>8 DEF whole

\* The records that tell of a node are no others.
LEMMA NodeRecordsTell ==
  ASSUME NEW S, NEW n \in S, NEW status \in FinalStatuses
  PROVE  /\ NodeStarted(n) \in LogRecords(S) /\ NodeStarted(n) \notin CountedHopRecords \cup RunRecords
         /\ NodeFinished(n, status) \in LogRecords(S)
         /\ NodeFinished(n, status) \notin CountedHopRecords \cup RunRecords
<1>1. NodeStarted(n) \in NodeRecords(S) /\ NodeFinished(n, status) \in NodeRecords(S)
  BY DEF NodeRecords
<1> QED BY <1>1, RecordsDiffer DEF LogRecords

\* The control scan journals the pause and the driver lets go.
LEMMA ApplyPauseIsSound ==
  ASSUME DriveInv, ApplyPause
  PROVE  DriveInv'
<1> DEFINE status == IF asked = "now" THEN "paused_now" ELSE "paused"
           log == <<RunIs(status)>>
<1>1. /\ state' = Fold(state, log) /\ drive' = Off /\ asked' = "no" /\ UNCHANGED <<shape, crashes, pauses>>
  BY DEF ApplyPause
<1>2. shape \in DOMAIN Graphs /\ StateSound(state) /\ crashes \in Nat /\ pauses \in Nat
  BY InvNow
<1>3. Fits(state, log, {})
  BY RunRecordFits DEF RunStatuses
<1> HIDE DEF log
<1>4. StateSound(Fold(state, log))
  BY <1>2, <1>3, FoldIsSound
<1>5. StateSound(state')
  BY <1>1, <1>4
<1>6. MemorySound(drive', state', asked')
  BY <1>1, <1>2, OffIsSound
<1> QED BY <1>1, <1>2, <1>5, <1>6, InvNext

\* A driver's death takes its memory and no record.
LEMMA CrashIsSound ==
  ASSUME DriveInv, Crash
  PROVE  DriveInv'
<1>1. /\ shape \in DOMAIN Graphs /\ StateSound(state) /\ asked \in {"no", "soft", "now"}
      /\ crashes \in Nat /\ pauses \in Nat
  BY InvNow
<1>2. /\ drive' = Off /\ state' = state /\ asked' = asked /\ crashes' = crashes + 1 /\ UNCHANGED shape /\ pauses' = pauses
  BY DEF Crash
<1>3. MemorySound(drive', state', asked')
  BY <1>1, <1>2, OffIsSound
<1> QED BY <1>1, <1>2, <1>3, InvNext

\* A pause posted to the control queue.
LEMMA AskPauseIsSound ==
  ASSUME DriveInv, AskPause
  PROVE  DriveInv'
<1>1. /\ shape \in DOMAIN Graphs /\ StateSound(state) /\ MemorySound(drive, state, asked)
      /\ crashes \in Nat /\ pauses \in Nat
  BY InvNow
<1>2. /\ UNCHANGED <<shape, state, drive, crashes>> /\ asked' \in {"soft", "now"} /\ pauses' = pauses + 1
  BY DEF AskPause
<1>3. MemorySound(drive', state', asked')
  BY <1>1, <1>2 DEF MemorySound
<1>4. StateSound(state') /\ asked' \in {"no", "soft", "now"} /\ crashes' \in Nat /\ pauses' \in Nat
  BY <1>1, <1>2
<1> QED BY <1>1, <1>2, <1>3, <1>4, InvNext

\* A driver at work takes note of the posted pause.
LEMMA NoticeIsSound ==
  ASSUME DriveInv, Notice
  PROVE  DriveInv'
<1>1. /\ shape \in DOMAIN Graphs /\ StateSound(state) /\ MemorySound(drive, state, asked)
      /\ asked \in {"no", "soft", "now"} /\ crashes \in Nat /\ pauses \in Nat
  BY InvNow
<1>2. /\ UNCHANGED <<shape, state, asked, crashes, pauses>> /\ drive' = [drive EXCEPT !.halted = TRUE]
      /\ asked # "no" /\ drive.phase \in {"node", "batch"}
  BY DEF Notice
<1> DEFINE next == drive'
<1>3. drive \in Memories /\ HeadsSound(drive)
  BY <1>1 DEF MemorySound
<1>4. next \in Memories
  BY <1>2, <1>3 DEF Memories
<1>5. /\ next.phase = drive.phase /\ next.current = drive.current /\ next.frontier = drive.frontier
      /\ next.batch = drive.batch /\ next.queue = drive.queue /\ next.running = drive.running
      /\ next.ended = drive.ended /\ next.advanced = drive.advanced /\ next.halted = TRUE
  BY <1>2, <1>3 DEF Memories
<1> HIDE DEF next
<1>6. HeadsSound(next)
  BY <1>3, <1>5 DEF HeadsSound
<1>7. MemorySound(next, state, asked)
  BY <1>1, <1>2, <1>4, <1>5, <1>6 DEF MemorySound
<1>8. StateSound(state') /\ MemorySound(drive', state', asked') /\ asked' \in {"no", "soft", "now"}
      /\ crashes' \in Nat /\ pauses' \in Nat /\ UNCHANGED shape
  BY <1>1, <1>2, <1>7 DEF next
<1> QED BY <1>1, <1>8, InvNext

\* A finish node ends the run.
LEMMA ReachFinishIsSound ==
  ASSUME DriveInv, ReachFinish
  PROVE  DriveInv'
<1> DEFINE n == drive.current
           status == IF n \in Graph.failure \/ UnhandledFailure(state) THEN "failed" ELSE "succeeded"
           log == <<NodeFinished(n, "succeeded"), RunIs(status)>>
           R == LogRecords({n})
<1>1. Write(log, Off) /\ drive.phase # "off"
  BY DEF ReachFinish, AtTurn
<1>2. /\ shape \in DOMAIN Graphs /\ StateSound(state) /\ n \in InvitedIn(state)
  BY <1>1, DriverFacts
<1>3. NodeFinished(n, "succeeded") \in R /\ NodeFinished(n, "succeeded") \notin CountedHopRecords
  BY NodeRecordsTell DEF FinalStatuses
<1>4. RunIs(status) \in R /\ RunIs(status) \notin CountedHopRecords
  BY RecordsDiffer DEF LogRecords, RunRecords, RunStatuses
<1>5. log \in Seq(R) /\ ToSet(log) \cap CountedHopRecords = {}
  <2> HIDE DEF R, n, status
  <2> QED BY <1>3, <1>4 DEF ToSet
<1> HIDE DEF log
<1>6. Fits(state, log, {n})
  BY <1>5, FitsUncounted
<1>7. MemorySound(Off, Fold(state, log), asked)
  BY <1>2, OffIsSound
<1>8. {n} \subseteq InvitedIn(state)
  BY <1>2
<1> QED BY <1>1, <1>6, <1>7, <1>8, WriteIsSound

\* A join whose verdict is against it fails without running, and is advanced past.
LEMMA FailBarrierIsSound ==
  ASSUME DriveInv, FailBarrier
  PROVE  DriveInv'
<1> DEFINE n == drive.current
           S == {n}
           R == LogRecords(S)
           first == <<NodeStarted(n)>>
           second == IF Verdict(n) = "refused" THEN <<JoinRefused(n)>> ELSE <<>>
           last == NodeFinished(n, "failed")
           begun == first \o second
<1>1. AfterAlone(begun \o <<last>>) /\ drive.phase # "off" /\ n \in Nodes
  BY DriverFacts DEF FailBarrier, AtTurn
<1>2. NodeStarted(n) \in R /\ NodeStarted(n) \notin CountedHopRecords \cup RunRecords
      /\ last \in R /\ last \notin CountedHopRecords \cup RunRecords /\ "failed" \in FinalStatuses
  BY NodeRecordsTell DEF FinalStatuses
<1>3. Fits(state, first, S) /\ ToSet(first) = {NodeStarted(n)}
  BY <1>2, OneRecord
<1>4. JoinRefused(n) \in R /\ JoinRefused(n) \notin CountedHopRecords \cup RunRecords
  BY <1>1, RecordsDiffer DEF LogRecords, Refusals
<1>5. Fits(state, second, S) /\ ToSet(second) \subseteq {JoinRefused(n)}
  <2>1. Fits(state, <<JoinRefused(n)>>, S) /\ ToSet(<<JoinRefused(n)>>) = {JoinRefused(n)}
    BY <1>4, OneRecord
  <2>2. <<>> \in Seq(R) /\ ToSet(<<>>) = {}
    BY DEF ToSet
  <2>3. Fits(state, <<>>, S)
    BY <2>2, FitsUncounted
  <2> QED BY <2>1, <2>2, <2>3
<1>6. first \in Seq(R) /\ second \in Seq(R)
  BY <1>3, <1>5 DEF Fits
<1> HIDE DEF first, second, R
<1>7. ToSet(begun) = ToSet(first) \cup ToSet(second)
  BY <1>6, Joined
<1>8. Fits(state, begun, S)
  BY <1>2, <1>3, <1>5, FitsJoined
<1>9. ToSet(begun) \cap (CountedHopRecords \cup RunRecords) = {}
  BY <1>2, <1>3, <1>4, <1>5, <1>7
<1> DEFINE log == begun \o <<last>>
<1>10. AfterAlone(log) /\ log = Then(begun, last) /\ last \in LogRecords(S)
  BY <1>1, <1>2 DEF R, Then
<1> HIDE DEF begun, last, log
<1>11. Fits(state, log, S) /\ ToSet(log) = ToSet(begun) \cup {last} /\ log # <<>> /\ log[Len(log)] = last
  BY <1>2, <1>8, <1>10, OneMoreRecord
<1>12. log[Len(log)] = NodeFinished(n, "failed") /\ ToSet(log) \cap (CountedHopRecords \cup RunRecords) = {}
  BY <1>2, <1>9, <1>11 DEF last
<1> QED BY <1>1, <1>2, <1>10, <1>11, <1>12, AfterAloneIsSound

\* A node that ran alone reports, and the drive goes past it.
LEMMA AloneEndsIsSound ==
  ASSUME DriveInv, AloneEnds
  PROVE  DriveInv'
<1>1. PICK status \in Outcomes(drive.current) : AfterAlone(<<NodeFinished(drive.current, status)>>)
  BY DEF AloneEnds
<1>2. drive.phase # "off" /\ status \in FinalStatuses
  BY <1>1 DEF AloneEnds, Outcomes, FinalStatuses
<1> DEFINE r == NodeFinished(drive.current, status)
           log == <<r>>
<1>3. r \in LogRecords({drive.current}) /\ r \notin CountedHopRecords \cup RunRecords
  BY <1>2, NodeRecordsTell
<1> HIDE DEF r
<1>4. Fits(state, log, {drive.current}) /\ ToSet(log) = {r} /\ log # <<>> /\ log[Len(log)] = r
  BY <1>3, OneRecord
<1>5. AfterAlone(log) /\ log[Len(log)] = NodeFinished(drive.current, status)
  BY <1>1, <1>4 DEF r
<1> HIDE DEF log
<1>6. ToSet(log) \cap (CountedHopRecords \cup RunRecords) = {}
  BY <1>3, <1>4
<1> QED BY <1>2, <1>4, <1>5, <1>6, AfterAloneIsSound

\* What a log on the nodes of S leaves of what a driver relies on.
Keeps(s, t, S) ==
  /\ t.run = "running" /\ InvitedIn(s) \subseteq InvitedIn(t)
  /\ \A n \in Nodes : s.finished[n] > 0 => t.finished[n] > 0
  /\ \A n \in Nodes \ S : t.nodes[n] = s.nodes[n]

\* A quiet log on invited nodes keeps the run in progress, and other nodes as they were.
LEMMA LogKeeps ==
  ASSUME shape \in DOMAIN Graphs, NEW s, StateSound(s), s.run = "running", NEW S, S \subseteq InvitedIn(s),
         NEW log, Fits(s, log, S), ToSet(log) \cap RunRecords = {}
  PROVE  Keeps(s, Fold(s, log), S)
<1> DEFINE t == Fold(s, log)
<1>1. S \in SUBSET Nodes
  BY GraphFacts DEF InvitedIn
<1>2. StaysRunning(s, log)
  BY QuietLogs
<1>3. Follows(s, t, S) /\ t.run = "running"
  BY <1>1, <1>2, FoldFollows DEF StateSound
<1>4. InvitedIn(s) \subseteq InvitedIn(t)
  BY FoldIsSound
<1> QED BY <1>3, <1>4 DEF Follows, Keeps

\* So does the log of a driver's step.
LEMMA DriverKeeps ==
  ASSUME DriveInv, drive.phase # "off", NEW S, S \subseteq InvitedIn(state), NEW log, Fits(state, log, S),
         ToSet(log) \cap RunRecords = {}
  PROVE  Keeps(state, Fold(state, log), S)
<1>1. shape \in DOMAIN Graphs /\ StateSound(state) /\ state.run = "running"
  BY DriverFacts DEF MemorySound
<1> QED BY <1>1, LogKeeps

\* A node starts alone.
LEMMA RunAloneIsSound ==
  ASSUME DriveInv, RunAlone
  PROVE  DriveInv'
<1> DEFINE n == drive.current
           r == NodeStarted(n)
           log == <<r>>
           next == [drive EXCEPT !.phase = "node"]
<1>1. Write(log, next) /\ drive.phase = "turn" /\ asked = "no"
  BY DEF RunAlone, AtTurn
<1>2. /\ shape \in DOMAIN Graphs /\ StateSound(state) /\ MemorySound(drive, state, asked) /\ HeadsSound(drive)
      /\ drive \in Memories /\ n \in InvitedIn(state) /\ n \in Nodes
  BY <1>1, DriverFacts
<1>3. r \in LogRecords({n}) /\ r \notin CountedHopRecords \cup RunRecords
  BY NodeRecordsTell DEF FinalStatuses
<1> HIDE DEF r
<1>4. Fits(state, log, {n}) /\ ToSet(log) = {r} /\ log # <<>> /\ log[Len(log)] = r
  BY <1>3, OneRecord
<1>5. next \in Memories /\ next.phase = "node" /\ next.current = n /\ next.frontier = drive.frontier
      /\ next.batch = drive.batch /\ next.queue = drive.queue /\ next.running = drive.running
      /\ next.ended = drive.ended /\ next.advanced = drive.advanced /\ next.halted = drive.halted
  BY <1>2 DEF Memories
<1> HIDE DEF next, log
<1> DEFINE t == Fold(state, log)
<1>6. Keeps(state, t, {n})
  <2> DEFINE S == {n}
  <2>1. ToSet(log) \cap RunRecords = {} /\ S \subseteq InvitedIn(state) /\ Fits(state, log, S)
    BY <1>2, <1>3, <1>4
  <2>2. drive.phase # "off"
    BY <1>1
  <2> HIDE DEF S
  <2>3. Keeps(state, t, S)
    BY <2>1, <2>2, DriverKeeps
  <2> QED BY <2>3 DEF S
<1>7. t.nodes[n] = "running"
  <2>1. log[Len(log)] = NodeStarted(n)
    BY <1>4 DEF r
  <2> QED BY <1>2, <1>4, <2>1, LastTells
<1> HIDE DEF t
<1>8. HeadsSound(next)
  BY <1>1, <1>2, <1>5 DEF HeadsSound
<1>9. drive.running \subseteq Nodes /\ drive.ended \subseteq Nodes
  BY <1>2 DEF Memories
<1>10. MemorySound(next, t, asked)
  BY <1>1, <1>2, <1>5, <1>6, <1>7, <1>8, <1>9 DEF MemorySound, Keeps
<1>11. {n} \subseteq InvitedIn(state)
  BY <1>2
<1> QED BY <1>1, <1>4, <1>10, <1>11, WriteIsSound DEF t

\* `--now` kills the attempt of a node alone.
LEMMA AloneInterruptedIsSound ==
  ASSUME DriveInv, AloneInterrupted
  PROVE  DriveInv'
<1> DEFINE next == [drive EXCEPT !.phase = "turn"]
<1>1. Write(<<>>, next) /\ drive.phase = "node" /\ drive.halted
  BY DEF AloneInterrupted
<1>2. MemorySound(drive, state, asked) /\ HeadsSound(drive) /\ drive \in Memories
  BY DriverFacts
<1>3. next \in Memories /\ next.phase = "turn" /\ next.current = drive.current /\ next.frontier = drive.frontier
      /\ next.batch = drive.batch /\ next.queue = drive.queue /\ next.running = drive.running
      /\ next.ended = drive.ended /\ next.advanced = drive.advanced /\ next.halted = drive.halted
  BY <1>2 DEF Memories
<1> HIDE DEF next
<1>4. HeadsSound(next)
  BY <1>1, <1>2, <1>3 DEF HeadsSound
<1>5. MemorySound(next, state, asked)
  BY <1>1, <1>2, <1>3, <1>4 DEF MemorySound
<1> QED BY <1>1, <1>5, SilentIsSound

\* A batch cut short by a pause goes back to the control scan.
LEMMA BatchHaltsIsSound ==
  ASSUME DriveInv, BatchHalts
  PROVE  DriveInv'
<1> DEFINE next == [drive EXCEPT !.phase = "turn"]
<1>1. Write(<<>>, next) /\ drive.phase = "batch" /\ drive.halted
  BY DEF BatchHalts, BatchOver
<1>2. MemorySound(drive, state, asked) /\ HeadsSound(drive) /\ drive \in Memories
  BY DriverFacts
<1>3. next \in Memories /\ next.phase = "turn" /\ next.current = drive.current /\ next.frontier = drive.frontier
      /\ next.batch = drive.batch /\ next.queue = drive.queue /\ next.running = drive.running
      /\ next.ended = drive.ended /\ next.advanced = drive.advanced /\ next.halted = drive.halted
  BY <1>2 DEF Memories
<1> HIDE DEF next
<1>4. HeadsSound(next)
  BY <1>1, <1>2, <1>3 DEF HeadsSound
<1>5. MemorySound(next, state, asked)
  BY <1>1, <1>2, <1>3, <1>4 DEF MemorySound
<1> QED BY <1>1, <1>5, SilentIsSound

\* A pause forgets the members that never started.
LEMMA StopAdmittingIsSound ==
  ASSUME DriveInv, StopAdmitting
  PROVE  DriveInv'
<1> DEFINE next == [drive EXCEPT !.queue = <<>>]
<1>1. Write(<<>>, next) /\ drive.phase = "batch" /\ drive.halted
  BY DEF StopAdmitting
<1>2. MemorySound(drive, state, asked) /\ HeadsSound(drive) /\ drive \in Memories
  BY DriverFacts
<1>3. next \in Memories
  <2>1. <<>> \in Seq(Nodes)
    OBVIOUS
  <2> QED BY <1>2, <2>1 DEF Memories
<1>4. next.phase = "batch" /\ next.current = drive.current /\ next.frontier = drive.frontier
      /\ next.batch = drive.batch /\ next.queue = <<>> /\ next.running = drive.running
      /\ next.ended = drive.ended /\ next.advanced = drive.advanced /\ next.halted = drive.halted
  BY <1>1, <1>2 DEF Memories
<1>5. IsInjective(<<>>) /\ ToSet(<<>>) = {}
  BY DEF IsInjective, ToSet
<1> HIDE DEF next
<1>6. HeadsSound(next)
  BY <1>1, <1>2, <1>4, <1>5 DEF HeadsSound
<1>7. MemorySound(next, state, asked)
  BY <1>1, <1>2, <1>3, <1>4, <1>6 DEF MemorySound
<1> QED BY <1>1, <1>7, SilentIsSound

\* The current head and the batchable ones of the frontier become a batch.
LEMMA FormBatchIsSound ==
  ASSUME DriveInv, FormBatch
  PROVE  DriveInv'
<1> DEFINE members == Members
           left == Without(drive.frontier, ToSet(members))
           next == [Off EXCEPT !.phase = "batch", !.current = drive.current, !.batch = members,
                               !.queue = members, !.frontier = left, !.halted = drive.halted]
<1>1. Write(<<>>, next) /\ drive.phase = "turn" /\ asked = "no"
  BY DEF FormBatch, AtTurn
<1>2. /\ shape \in DOMAIN Graphs /\ MemorySound(drive, state, asked) /\ HeadsSound(drive) /\ drive \in Memories
      /\ drive.current \in Nodes /\ drive.frontier \in Seq(Nodes) /\ IsInjective(drive.frontier)
      /\ {drive.current} \cup ToSet(drive.frontier) \subseteq InvitedIn(state)
  BY <1>1, DriverFacts DEF HeadsSound
<1>3. ~drive.halted /\ drive.current \notin ToSet(drive.frontier) /\ drive.halted \in BOOLEAN
  BY <1>1, <1>2 DEF MemorySound, HeadsSound, Memories
<1>4. /\ members \in Seq(Nodes) /\ IsInjective(members)
      /\ ToSet(members) \subseteq {drive.current} \cup ToSet(drive.frontier)
  <2> DEFINE one == <<drive.current>>
             more == Among(drive.frontier, Batchable(ToSet(drive.frontier)))
  <2>1. one \in Seq(Nodes) /\ IsInjective(one) /\ ToSet(one) = {drive.current}
    BY <1>2 DEF IsInjective, ToSet
  <2>2. more \in Seq(Nodes) /\ IsInjective(more) /\ ToSet(more) \subseteq ToSet(drive.frontier)
    BY <1>2, AmongKeeps
  <2>3. Members = one \o more
    BY DEF Members
  <2> HIDE DEF one, more
  <2>4. ToSet(one) \cap ToSet(more) = {}
    BY <1>3, <2>1, <2>2
  <2>5. one \o more \in Seq(Nodes) /\ ToSet(one \o more) = ToSet(one) \cup ToSet(more) /\ IsInjective(one \o more)
    BY <2>1, <2>2, <2>4, Joined
  <2> QED BY <2>1, <2>2, <2>3, <2>5
<1> HIDE DEF members
<1>5. left \in Seq(Nodes) /\ IsInjective(left) /\ ToSet(left) \subseteq ToSet(drive.frontier)
  BY <1>2, WithoutDrops
<1> HIDE DEF left
<1>6. /\ next.phase = "batch" /\ next.current = drive.current /\ next.frontier = left
      /\ next.batch = members /\ next.queue = members /\ next.running = {} /\ next.ended = {}
      /\ next.advanced = {} /\ next.halted = drive.halted
  BY DEF Off
<1>7. next \in Memories
  BY <1>2, <1>3, <1>4, <1>5 DEF Off, Memories
<1>8. Cardinality({}) = 0 /\ 0 <= MaxParallel
  BY FS_EmptySet, BoundsAreNaturals
<1> HIDE DEF next
<1>9. HeadsSound(next)
  BY <1>3, <1>4, <1>5, <1>6, <1>8 DEF HeadsSound
<1>10. state.run = "running"
  BY <1>1, <1>2 DEF MemorySound
<1>11. MemorySound(next, state, asked)
  BY <1>1, <1>2, <1>3, <1>4, <1>5, <1>6, <1>7, <1>9, <1>10 DEF MemorySound
<1> QED BY <1>1, <1>11, SilentIsSound

\* A member more or less among those that run.
LEMMA Slots ==
  ASSUME shape \in DOMAIN Graphs, NEW R \in SUBSET Nodes
  PROVE  /\ Cardinality(R) < MaxParallel => \A n : Cardinality(R \cup {n}) <= MaxParallel
         /\ Cardinality(R) <= MaxParallel => \A n : Cardinality(R \ {n}) <= MaxParallel
<1>1. IsFiniteSet(R) /\ Cardinality(R) \in Nat /\ MaxParallel \in Nat
  BY GraphFacts, FS_Subset, FS_CardinalityType, BoundsAreNaturals
<1>2. \A n : Cardinality(R \cup {n}) <= Cardinality(R) + 1 /\ Cardinality(R \cup {n}) \in Nat
  <2> TAKE n
  <2>1. IsFiniteSet(R \cup {n}) /\ Cardinality(R \cup {n}) = IF n \in R THEN Cardinality(R) ELSE Cardinality(R) + 1
    BY <1>1, FS_AddElement
  <2> QED BY <1>1, <2>1
<1>3. \A n : Cardinality(R \ {n}) <= Cardinality(R) /\ Cardinality(R \ {n}) \in Nat
  <2> TAKE n
  <2>1. IsFiniteSet(R \ {n}) /\ Cardinality(R \ {n}) = IF n \in R THEN Cardinality(R) - 1 ELSE Cardinality(R)
    BY <1>1, FS_RemoveElement
  <2>2. IsFiniteSet(R \ {n}) /\ Cardinality(R \ {n}) \in Nat
    BY <2>1, FS_CardinalityType
  <2> QED BY <1>1, <2>1, <2>2
<1>4. ASSUME Cardinality(R) < MaxParallel, NEW n PROVE Cardinality(R \cup {n}) <= MaxParallel
  <2> DEFINE c == Cardinality(R \cup {n})
             k == Cardinality(R)
  <2>1. c \in Nat /\ k \in Nat /\ c <= k + 1 /\ k < MaxParallel /\ MaxParallel \in Nat
    BY <1>1, <1>2, <1>4
  <2> HIDE DEF c, k
  <2>2. c <= MaxParallel
    BY <2>1
  <2> QED BY <2>2 DEF c
<1>5. ASSUME Cardinality(R) <= MaxParallel, NEW n PROVE Cardinality(R \ {n}) <= MaxParallel
  <2> DEFINE c == Cardinality(R \ {n})
             k == Cardinality(R)
  <2>1. c \in Nat /\ k \in Nat /\ c <= k /\ k <= MaxParallel /\ MaxParallel \in Nat
    BY <1>1, <1>3, <1>5
  <2> HIDE DEF c, k
  <2>2. c <= MaxParallel
    BY <2>1
  <2> QED BY <2>2 DEF c
<1> QED BY <1>4, <1>5

\* The member at the head of the queue.
LEMMA NextMemberFacts ==
  ASSUME DriveInv, drive.phase = "batch", drive.queue # <<>>
  PROVE  /\ NextMember \in ToSet(drive.queue) /\ NextMember \in ToSet(drive.batch)
         /\ NextMember \in Nodes /\ NextMember \in InvitedIn(state)
         /\ NextMember \notin drive.running /\ NextMember \notin drive.ended
         /\ Tail(drive.queue) \in Seq(Nodes) /\ IsInjective(Tail(drive.queue))
         /\ ToSet(drive.queue) = {NextMember} \cup ToSet(Tail(drive.queue))
         /\ NextMember \notin ToSet(Tail(drive.queue))
<1>1. HeadsSound(drive) /\ drive.queue \in Seq(Nodes) /\ ToSet(drive.batch) \subseteq InvitedIn(state)
      /\ InvitedIn(state) \in SUBSET Nodes
  BY DriverFacts
<1>2. IsInjective(drive.queue)
  BY <1>1 DEF HeadsSound
<1>3. /\ NextMember \in ToSet(drive.queue) /\ Tail(drive.queue) \in Seq(Nodes) /\ IsInjective(Tail(drive.queue))
      /\ ToSet(drive.queue) = {NextMember} \cup ToSet(Tail(drive.queue))
      /\ NextMember \notin ToSet(Tail(drive.queue))
  BY <1>1, <1>2, HeadAndTail DEF NextMember
<1>4. NextMember \in ToSet(drive.batch) /\ NextMember \notin drive.running /\ NextMember \notin drive.ended
  BY <1>1, <1>3 DEF HeadsSound
<1> QED BY <1>1, <1>3, <1>4

\* The next member takes a slot and starts.
LEMMA AdmitIsSound ==
  ASSUME DriveInv, Admit
  PROVE  DriveInv'
<1> DEFINE n == NextMember
           r == NodeStarted(n)
           log == <<r>>
           t == Fold(state, log)
           S == {n}
           rest == Tail(drive.queue)
           running == drive.running \cup {n}
           next == [drive EXCEPT !.queue = rest, !.running = running]
<1>1. Write(log, next) /\ drive.phase = "batch" /\ drive.queue # <<>> /\ Cardinality(drive.running) < MaxParallel
  BY DEF Admit, HasSlot
<1>2. /\ shape \in DOMAIN Graphs /\ StateSound(state) /\ MemorySound(drive, state, asked) /\ HeadsSound(drive)
      /\ drive \in Memories /\ drive.running \in SUBSET Nodes /\ InvitedIn(state) \in SUBSET Nodes
  BY DriverFacts
<1>3. /\ n \in ToSet(drive.queue) /\ n \in ToSet(drive.batch) /\ n \in Nodes /\ n \in InvitedIn(state)
      /\ n \notin drive.running /\ n \notin drive.ended /\ rest \in Seq(Nodes) /\ IsInjective(rest)
      /\ ToSet(drive.queue) = {n} \cup ToSet(rest) /\ n \notin ToSet(rest)
  BY <1>1, NextMemberFacts
<1>4. Cardinality(running) <= MaxParallel
  BY <1>1, <1>2, Slots
<1>5. running \in SUBSET Nodes
  BY <1>2, <1>3
<1>6. r \in LogRecords(S) /\ r \notin CountedHopRecords \cup RunRecords
  BY NodeRecordsTell DEF FinalStatuses
<1> HIDE DEF n, r, rest
<1>7. Fits(state, log, S) /\ ToSet(log) = {r} /\ log # <<>> /\ log[Len(log)] = r
  BY <1>6, OneRecord
<1>8. next \in Memories
  <2> HIDE DEF running
  <2> QED BY <1>2, <1>3, <1>5 DEF Memories
<1>9. next.phase = "batch" /\ next.current = drive.current /\ next.frontier = drive.frontier
      /\ next.batch = drive.batch /\ next.queue = rest /\ next.running = running
      /\ next.ended = drive.ended /\ next.advanced = drive.advanced /\ next.halted = drive.halted
  <2> HIDE DEF running
  <2> QED BY <1>1, <1>2 DEF Memories
<1> HIDE DEF log, next
<1>10. S \subseteq InvitedIn(state) /\ ToSet(log) \cap RunRecords = {} /\ drive.phase # "off" /\ S \in SUBSET Nodes /\ n \in S
  BY <1>1, <1>3, <1>6, <1>7
<1>11. Keeps(state, t, S) /\ t.nodes[n] = "running"
  <2> HIDE DEF S
  <2>1. Keeps(state, t, S)
    BY <1>7, <1>10, DriverKeeps
  <2>2. log[Len(log)] = NodeStarted(n)
    BY <1>7 DEF r
  <2>3. t.nodes[n] = "running"
    BY <1>2, <1>7, <1>10, <2>2, LastTells
  <2> QED BY <2>1, <2>3
<1> HIDE DEF t
<1>12. HeadsSound(next)
  BY <1>2, <1>3, <1>4, <1>9 DEF HeadsSound
<1>13. drive.ended \subseteq Nodes
  BY <1>2 DEF Memories
<1>14. MemorySound(next, t, asked)
  BY <1>1, <1>2, <1>8, <1>9, <1>11, <1>12, <1>13 DEF MemorySound, Keeps
<1> HIDE DEF S
<1> QED BY <1>1, <1>7, <1>10, <1>14, WriteIsSound DEF t

\* Once the race is won the members left are started and cancelled in one stroke.
LEMMA WriteOffMemberIsSound ==
  ASSUME DriveInv, WriteOffMember
  PROVE  DriveInv'
<1> DEFINE n == NextMember
           first == NodeStarted(n)
           last == NodeFinished(n, "cancelled")
           log == WrittenOff(n)
           t == Fold(state, log)
           S == {n}
           R == LogRecords(S)
           rest == Tail(drive.queue)
           ended == drive.ended \cup {n}
           next == [drive EXCEPT !.queue = rest, !.ended = ended]
<1>1. Write(log, next) /\ drive.phase = "batch" /\ drive.queue # <<>>
  BY DEF WriteOffMember, HasSlot
<1>2. /\ shape \in DOMAIN Graphs /\ StateSound(state) /\ MemorySound(drive, state, asked) /\ HeadsSound(drive)
      /\ drive \in Memories /\ drive.running \in SUBSET Nodes /\ InvitedIn(state) \in SUBSET Nodes
  BY DriverFacts
<1>3. /\ n \in ToSet(drive.queue) /\ n \in ToSet(drive.batch) /\ n \in Nodes /\ n \in InvitedIn(state)
      /\ n \notin drive.running /\ n \notin drive.ended /\ rest \in Seq(Nodes) /\ IsInjective(rest)
      /\ ToSet(drive.queue) = {n} \cup ToSet(rest) /\ n \notin ToSet(rest)
  BY <1>1, NextMemberFacts
<1>4. drive.ended \in SUBSET Nodes /\ ended \in SUBSET Nodes
  BY <1>2, <1>3 DEF Memories
<1>5. /\ first \in R /\ first \notin CountedHopRecords \cup RunRecords
      /\ last \in R /\ last \notin CountedHopRecords \cup RunRecords /\ "cancelled" \in FinalStatuses
  BY NodeRecordsTell DEF FinalStatuses
<1>6. log = <<first, last>>
  BY DEF WrittenOff
<1> HIDE DEF n, first, last, rest, R
<1>7. log \in Seq(R) /\ ToSet(log) = {first, last} /\ log # <<>> /\ log[Len(log)] = last
  <2>1. <<first, last>> \in Seq(R) /\ ToSet(<<first, last>>) = {first, last}
        /\ <<first, last>> # <<>> /\ <<first, last>>[Len(<<first, last>>)] = last
    BY <1>5 DEF ToSet
  <2> QED BY <1>6, <2>1
<1>8. Fits(state, log, S)
  BY <1>5, <1>7, FitsUncounted DEF R
<1>9. next \in Memories
  <2> HIDE DEF ended
  <2> QED BY <1>2, <1>3, <1>4 DEF Memories
<1>10. next.phase = "batch" /\ next.current = drive.current /\ next.frontier = drive.frontier
       /\ next.batch = drive.batch /\ next.queue = rest /\ next.running = drive.running
       /\ next.ended = ended /\ next.advanced = drive.advanced /\ next.halted = drive.halted
  <2> HIDE DEF ended
  <2> QED BY <1>1, <1>2 DEF Memories
<1> HIDE DEF log, next
<1>11. S \subseteq InvitedIn(state) /\ ToSet(log) \cap RunRecords = {} /\ drive.phase # "off" /\ S \in SUBSET Nodes /\ n \in S
  BY <1>1, <1>3, <1>5, <1>7
<1>12. Keeps(state, t, S) /\ t.finished[n] > 0
  <2> HIDE DEF S
  <2>1. Keeps(state, t, S)
    BY <1>8, <1>11, DriverKeeps
  <2>2. log[Len(log)] = NodeFinished(n, "cancelled")
    BY <1>7 DEF last
  <2>3. t.finished[n] > 0
    BY <1>2, <1>5, <1>7, <1>8, <1>11, <2>2, LastTells
  <2> QED BY <2>1, <2>3
<1> HIDE DEF t
<1>13. HeadsSound(next)
  BY <1>2, <1>3, <1>10 DEF HeadsSound
<1>14. MemorySound(next, t, asked)
  BY <1>1, <1>2, <1>3, <1>4, <1>9, <1>10, <1>12, <1>13 DEF MemorySound, Keeps
<1> HIDE DEF S
<1> QED BY <1>1, <1>8, <1>11, <1>14, WriteIsSound DEF t

\* `--now` kills a member's attempt and leaves its node unfinished.
LEMMA MemberInterruptedIsSound ==
  ASSUME DriveInv, MemberInterrupted
  PROVE  DriveInv'
<1>1. PICK n \in drive.running : Write(<<>>, [drive EXCEPT !.running = @ \ {n}])
  BY DEF MemberInterrupted
<1>2. drive.phase = "batch" /\ drive.halted
  BY DEF MemberInterrupted, MemberReports
<1> DEFINE running == drive.running \ {n}
           next == [drive EXCEPT !.running = running]
<1>3. /\ shape \in DOMAIN Graphs /\ MemorySound(drive, state, asked) /\ HeadsSound(drive)
      /\ drive \in Memories /\ drive.running \in SUBSET Nodes
  BY DriverFacts
<1>4. Cardinality(running) <= MaxParallel /\ running \in SUBSET Nodes /\ running \subseteq drive.running
  BY <1>3, Slots DEF HeadsSound
<1>5. Write(<<>>, next)
  BY <1>1
<1> HIDE DEF running
<1>6. next \in Memories /\ next.phase = "batch" /\ next.current = drive.current /\ next.frontier = drive.frontier
      /\ next.batch = drive.batch /\ next.queue = drive.queue /\ next.running = running
      /\ next.ended = drive.ended /\ next.advanced = drive.advanced /\ next.halted = drive.halted
  BY <1>2, <1>3, <1>4 DEF Memories
<1> HIDE DEF next
<1>7. HeadsSound(next)
  BY <1>2, <1>3, <1>4, <1>6 DEF HeadsSound
<1>8. MemorySound(next, state, asked)
  BY <1>2, <1>3, <1>4, <1>6, <1>7 DEF MemorySound
<1> QED BY <1>5, <1>8, SilentIsSound

\* pipeline_member: what follows a success lets its batchable successors join the batch.
LEMMA PipelineIsSound ==
  ASSUME shape \in DOMAIN Graphs, NEW s, StateSound(s), NEW d, MemorySound(d, s, asked), d.phase = "batch",
         NEW n \in d.ended, \A t \in ToSet(Successors(s, n)) : JoinKind(t) # "any"
  PROVE  /\ Fits(s, Pipeline(s, n, d).log, {}) /\ ToSet(Pipeline(s, n, d).log) \cap RunRecords = {}
         /\ MemorySound(Pipeline(s, n, d).drive, Fold(s, Pipeline(s, n, d).log), asked)
<1> DEFINE me == CHOOSE i \in DOMAIN d.batch : d.batch[i] = n
           after == {d.batch[i] : i \in {k \in DOMAIN d.batch : k > me}}
           owed == ((ToSet(d.batch) \ d.ended) \cup after) \ ({n} \cup ToSet(d.frontier))
           later == Among(d.batch, owed)
           wide == d.frontier \o later
           adv == Advance(s, n, wide, ToSet(d.batch))
           routed == Without(adv.frontier, ToSet(later))
           unended == {m \in ToSet(d.batch) : m # n /\ m \notin d.ended}
           fit == {t \in Batchable(ToSet(routed)) \ ToSet(d.batch) : Reach(t) \cap unended = {}}
           admitted == IF d.running # {} \/ d.queue # <<>> THEN Among(routed, fit) ELSE <<>>
           advanced == d.advanced \cup {n}
           left == Without(routed, ToSet(admitted))
           batch == d.batch \o admitted
           queue == d.queue \o admitted
           next == [d EXCEPT !.advanced = advanced, !.frontier = left, !.batch = batch, !.queue = queue]
<1>1. Pipeline(s, n, d) = [log |-> adv.log, drive |-> next]
  BY DEF Pipeline, Grow
<1>2. /\ d \in Memories /\ HeadsSound(d) /\ d.frontier \in Seq(Nodes) /\ d.batch \in Seq(Nodes)
      /\ d.queue \in Seq(Nodes) /\ s.finished[n] > 0 /\ s \in RunStates /\ s.run = "running"
      /\ {d.current} \cup ToSet(d.frontier) \cup ToSet(d.batch) \subseteq InvitedIn(s)
      /\ d.running \subseteq Nodes /\ d.ended \subseteq Nodes /\ d.advanced \subseteq Nodes
  BY DEF MemorySound, Memories, StateSound
<1>3. /\ IsInjective(d.frontier) /\ IsInjective(d.batch) /\ IsInjective(d.queue)
      /\ UNION {ToSet(d.queue), d.running, d.ended} \subseteq ToSet(d.batch)
      /\ ToSet(d.queue) \cap d.running = {} /\ ToSet(d.queue) \cap d.ended = {}
      /\ d.running \cap d.ended = {} /\ d.advanced \subseteq d.ended
      /\ ~d.halted => ToSet(d.batch) \subseteq ToSet(d.queue) \cup d.running \cup d.ended
      /\ Cardinality(d.running) <= MaxParallel
  BY <1>2 DEF HeadsSound
<1>4. later \in Seq(Nodes) /\ IsInjective(later) /\ ToSet(later) = ToSet(d.batch) \cap owed
  <2> HIDE DEF owed
  <2> QED BY <1>2, <1>3, AmongKeeps
<1>5. ToSet(later) \cap ToSet(d.frontier) = {} /\ ToSet(later) \subseteq ToSet(d.batch)
  BY <1>4
<1> HIDE DEF later, me, after, owed
<1>6. wide \in Seq(Nodes) /\ IsInjective(wide) /\ ToSet(wide) = ToSet(d.frontier) \cup ToSet(later)
  BY <1>2, <1>3, <1>4, <1>5, Joined
<1> HIDE DEF wide
<1>7. Advances(s, n, wide, adv, {})
  BY <1>2, <1>6, AdvanceAdvances
<1> HIDE DEF adv
<1>8. /\ adv.frontier \in Seq(Nodes) /\ IsInjective(adv.frontier)
      /\ ToSet(adv.frontier) \subseteq ToSet(wide) \cup Targets(n)
      /\ Fits(s, adv.log, {}) /\ ToSet(adv.log) \cap RunRecords = {}
  BY <1>6, <1>7 DEF Advances
<1>9. routed \in Seq(Nodes) /\ IsInjective(routed) /\ ToSet(routed) = ToSet(adv.frontier) \ ToSet(later)
  BY <1>8, WithoutDrops
<1>10. ToSet(routed) \subseteq InvitedIn(s)
  BY <1>2, <1>6, <1>8, <1>9, TargetsAreInvited
<1> HIDE DEF routed
<1>11. admitted \in Seq(Nodes) /\ IsInjective(admitted) /\ ToSet(admitted) \subseteq ToSet(routed)
       /\ ToSet(admitted) \cap ToSet(d.batch) = {}
  <2>1. <<>> \in Seq(Nodes) /\ IsInjective(<<>>) /\ ToSet(<<>>) = {}
    BY DEF IsInjective, ToSet
  <2>2. fit \cap ToSet(d.batch) = {}
    OBVIOUS
  <2> HIDE DEF fit
  <2>3. Among(routed, fit) \in Seq(Nodes) /\ IsInjective(Among(routed, fit))
        /\ ToSet(Among(routed, fit)) = ToSet(routed) \cap fit
    BY <1>9, AmongKeeps
  <2> QED BY <2>1, <2>2, <2>3
<1> HIDE DEF admitted
<1>12. left \in Seq(Nodes) /\ IsInjective(left) /\ ToSet(left) \subseteq ToSet(routed)
  BY <1>9, WithoutDrops
<1>13. batch \in Seq(Nodes) /\ IsInjective(batch) /\ ToSet(batch) = ToSet(d.batch) \cup ToSet(admitted)
  BY <1>2, <1>3, <1>11, Joined
<1>14. queue \in Seq(Nodes) /\ IsInjective(queue) /\ ToSet(queue) = ToSet(d.queue) \cup ToSet(admitted)
  <2>1. ToSet(d.queue) \cap ToSet(admitted) = {}
    BY <1>3, <1>11
  <2> QED BY <1>2, <1>3, <1>11, <2>1, Joined
<1> HIDE DEF left, batch, queue
<1>15. advanced \in SUBSET Nodes /\ advanced \subseteq d.ended
  BY <1>2, <1>3
<1> HIDE DEF advanced
<1>16. next \in Memories
  BY <1>2, <1>12, <1>13, <1>14, <1>15 DEF Memories
<1>17. next.phase = "batch" /\ next.current = d.current /\ next.frontier = left
       /\ next.batch = batch /\ next.queue = queue /\ next.running = d.running
       /\ next.ended = d.ended /\ next.advanced = advanced /\ next.halted = d.halted
  BY <1>2 DEF Memories
<1> HIDE DEF next
<1>18. HeadsSound(next)
  BY <1>3, <1>11, <1>12, <1>13, <1>14, <1>15, <1>17 DEF HeadsSound
<1> DEFINE t == Fold(s, adv.log)
<1>19. Keeps(s, t, {})
  <2>1. {} \subseteq InvitedIn(s)
    OBVIOUS
  <2> QED BY <1>2, <1>8, <2>1, LogKeeps
<1> HIDE DEF t
<1>20. MemorySound(next, t, asked)
  <2>1. t.run = "running" /\ InvitedIn(s) \subseteq InvitedIn(t)
        /\ (\A m \in Nodes : s.finished[m] > 0 => t.finished[m] > 0)
        /\ (\A m \in Nodes : t.nodes[m] = s.nodes[m])
    BY <1>19 DEF Keeps
  <2>2. /\ \A m \in d.running : s.nodes[m] = "running"
        /\ \A m \in d.ended : s.finished[m] > 0
        /\ d.halted => asked # "no"
    BY DEF MemorySound
  <2>3. {d.current} \cup ToSet(left) \cup ToSet(batch) \subseteq InvitedIn(t)
    BY <1>2, <1>10, <1>11, <1>12, <1>13, <2>1
  <2> QED BY <1>2, <1>16, <1>17, <1>18, <2>1, <2>2, <2>3 DEF MemorySound
<1>21. Pipeline(s, n, d).log = adv.log /\ Pipeline(s, n, d).drive = next
  BY <1>1
<1> QED BY <1>8, <1>20, <1>21 DEF t

\* A member that ended, beside the state its finish leaves.
Ended(n, status) ==
  [drive EXCEPT !.running = @ \ {n}, !.ended = @ \cup {n},
                !.pipelining = @ /\ status \in {"succeeded", "cancelled"}]

\* A member's report moves it from the running to the ended, its finish journaled.
LEMMA EndedIsSound ==
  ASSUME DriveInv, drive.phase = "batch", NEW n \in drive.running, NEW status \in FinalStatuses, NEW won \in BOOLEAN
  PROVE  LET finish == <<NodeFinished(n, status)>>
             s == Fold(state, finish)
             d == Ended(n, status)
         IN  /\ Fits(state, finish, {n}) /\ {n} \subseteq InvitedIn(state)
             /\ ToSet(finish) \cap CountedHopRecords = {} /\ s.counts = state.counts
             /\ StateSound(s) /\ MemorySound(d, s, asked)
             /\ MemorySound([d EXCEPT !.won = won], s, asked) /\ d.phase = "batch" /\ n \in d.ended
<1> DEFINE r == NodeFinished(n, status)
           finish == <<r>>
           s == Fold(state, finish)
           S == {n}
           running == drive.running \ {n}
           ended == drive.ended \cup {n}
           pipelining == drive.pipelining /\ status \in {"succeeded", "cancelled"}
           d == Ended(n, status)
           e == [d EXCEPT !.won = won]
<1>1. /\ shape \in DOMAIN Graphs /\ StateSound(state) /\ MemorySound(drive, state, asked) /\ HeadsSound(drive)
      /\ drive \in Memories /\ drive.running \in SUBSET Nodes /\ InvitedIn(state) \in SUBSET Nodes
      /\ ToSet(drive.batch) \subseteq InvitedIn(state)
  BY DriverFacts
<1>2. n \in Nodes /\ n \in InvitedIn(state) /\ n \in ToSet(drive.batch) /\ n \notin ToSet(drive.queue)
  BY <1>1 DEF HeadsSound
<1>3. Cardinality(running) <= MaxParallel /\ running \in SUBSET Nodes /\ running \subseteq drive.running /\ n \notin running
  BY <1>1, Slots DEF HeadsSound
<1>4. drive.ended \in SUBSET Nodes /\ ended \in SUBSET Nodes
  BY <1>1, <1>2 DEF Memories
<1>5. pipelining \in BOOLEAN
  OBVIOUS
<1>6. r \in LogRecords(S) /\ r \notin CountedHopRecords \cup RunRecords
  BY NodeRecordsTell
<1>7. d = [drive EXCEPT !.running = running, !.ended = ended, !.pipelining = pipelining]
  BY DEF Ended
<1> HIDE DEF r, pipelining
<1>8. Fits(state, finish, S) /\ ToSet(finish) = {r} /\ finish # <<>> /\ finish[Len(finish)] = r
  BY <1>6, OneRecord
<1>9. S \subseteq InvitedIn(state) /\ ToSet(finish) \cap RunRecords = {} /\ drive.phase # "off"
      /\ S \in SUBSET Nodes /\ n \in S /\ ToSet(finish) \cap CountedHopRecords = {}
  BY <1>2, <1>6, <1>8
<1>10. finish[Len(finish)] = NodeFinished(n, status)
  BY <1>8 DEF r
<1> HIDE DEF finish
<1>11. Keeps(state, s, S) /\ s.finished[n] > 0 /\ StateSound(s) /\ s.counts = state.counts
  <2> HIDE DEF S
  <2>1. Keeps(state, s, S)
    BY <1>8, <1>9, DriverKeeps
  <2>2. s.finished[n] > 0
    BY <1>1, <1>8, <1>9, <1>10, LastTells
  <2>3. StateSound(s)
    BY <1>1, <1>8, <1>9, FoldIsSound
  <2>4. s.counts = state.counts
    BY <1>1, <1>8, <1>9, UncountedKeeps
  <2> QED BY <2>1, <2>2, <2>3, <2>4
<1> HIDE DEF s
<1>12. d \in Memories /\ e \in Memories
  <2>1. d \in Memories
    <3> HIDE DEF d, running, ended
    <3> QED BY <1>1, <1>3, <1>4, <1>5, <1>7 DEF Memories
  <2> HIDE DEF d
  <2>2. e \in Memories
    BY <2>1 DEF Memories
  <2> QED BY <2>1, <2>2
<1>13. d.phase = "batch" /\ d.current = drive.current /\ d.frontier = drive.frontier
       /\ d.batch = drive.batch /\ d.queue = drive.queue /\ d.running = running
       /\ d.ended = ended /\ d.advanced = drive.advanced /\ d.halted = drive.halted
  <2> HIDE DEF d, running, ended
  <2> QED BY <1>1, <1>7 DEF Memories
<1> HIDE DEF d
<1>14. e.phase = d.phase /\ e.current = d.current /\ e.frontier = d.frontier
       /\ e.batch = d.batch /\ e.queue = d.queue /\ e.running = d.running
       /\ e.ended = d.ended /\ e.advanced = d.advanced /\ e.halted = d.halted
  BY <1>12 DEF Memories
<1> HIDE DEF e
<1>15. HeadsSound(d)
  BY <1>1, <1>2, <1>3, <1>13 DEF HeadsSound
<1>16. HeadsSound(e)
  BY <1>14, <1>15 DEF HeadsSound
<1>17. MemorySound(d, s, asked)
  BY <1>1, <1>3, <1>4, <1>11, <1>12, <1>13, <1>15 DEF MemorySound, Keeps
<1>18. MemorySound(e, s, asked)
  BY <1>12, <1>13, <1>14, <1>16, <1>17 DEF MemorySound
<1>19. n \in d.ended
  BY <1>13
<1> QED BY <1>8, <1>9, <1>11, <1>13, <1>17, <1>18, <1>19 DEF r, finish, s, d, e

\* A member reports, wins the race for a ready `join: any`, or is routed at once.
LEMMA MemberEndsIsSound ==
  ASSUME DriveInv, MemberEnds
  PROVE  DriveInv'
<1>1. PICK n \in drive.running : \E status \in Outcomes(n) \cup (IF drive.won THEN {"cancelled"} ELSE {}) :
         LET finish == <<NodeFinished(n, status)>>
             s == Fold(state, finish)
             d == [drive EXCEPT !.running = @ \ {n}, !.ended = @ \cup {n},
                                !.pipelining = @ /\ status \in {"succeeded", "cancelled"}]
             racing == \E e \in ToSet(SelectedEdges(s, n, FALSE)) : JoinKind(e.to) = "any"
             goOn(piped) == Write(finish \o piped.log, piped.drive)
         IN  IF status = "succeeded" /\ FeedsReadyAny(s, n, d) THEN Write(finish, [d EXCEPT !.won = TRUE])
             ELSE IF status = "succeeded" /\ d.pipelining /\ ~d.won /\ ~d.halted /\ ~racing
             THEN goOn(Pipeline(s, n, d))
             ELSE Write(finish, d)
  BY DEF MemberEnds
<1>2. PICK status \in Outcomes(n) \cup (IF drive.won THEN {"cancelled"} ELSE {}) :
         LET finish == <<NodeFinished(n, status)>>
             s == Fold(state, finish)
             d == [drive EXCEPT !.running = @ \ {n}, !.ended = @ \cup {n},
                                !.pipelining = @ /\ status \in {"succeeded", "cancelled"}]
             racing == \E e \in ToSet(SelectedEdges(s, n, FALSE)) : JoinKind(e.to) = "any"
             goOn(piped) == Write(finish \o piped.log, piped.drive)
         IN  IF status = "succeeded" /\ FeedsReadyAny(s, n, d) THEN Write(finish, [d EXCEPT !.won = TRUE])
             ELSE IF status = "succeeded" /\ d.pipelining /\ ~d.won /\ ~d.halted /\ ~racing
             THEN goOn(Pipeline(s, n, d))
             ELSE Write(finish, d)
  BY <1>1
<1>3. drive.phase = "batch" /\ shape \in DOMAIN Graphs /\ StateSound(state)
  BY DriverFacts DEF MemberEnds, MemberReports
<1>4. status \in FinalStatuses
  BY <1>2 DEF Outcomes, FinalStatuses
<1> DEFINE finish == <<NodeFinished(n, status)>>
           s == Fold(state, finish)
           d == Ended(n, status)
           racing == \E e \in ToSet(SelectedEdges(s, n, FALSE)) : JoinKind(e.to) = "any"
           piped == Pipeline(s, n, d)
           won == [d EXCEPT !.won = TRUE]
<1>5. \/ Write(finish, won) \/ Write(finish, d) \/ (~racing /\ Write(finish \o piped.log, piped.drive))
  BY <1>2 DEF Ended
<1>6. /\ Fits(state, finish, {n}) /\ {n} \subseteq InvitedIn(state)
      /\ ToSet(finish) \cap CountedHopRecords = {} /\ s.counts = state.counts
      /\ StateSound(s) /\ MemorySound(d, s, asked)
      /\ MemorySound(won, s, asked) /\ d.phase = "batch" /\ n \in d.ended
  BY <1>3, <1>4, EndedIsSound
<1> HIDE DEF finish, d, won
<1>7. ASSUME Write(finish, won) PROVE DriveInv'
  BY <1>6, <1>7, WriteIsSound
<1>8. ASSUME Write(finish, d) PROVE DriveInv'
  BY <1>6, <1>8, WriteIsSound
<1>9. ASSUME ~racing, Write(finish \o piped.log, piped.drive) PROVE DriveInv'
  <2>1. \A t \in ToSet(Successors(s, n)) : JoinKind(t) # "any"
    <3>1. \A e \in ToSet(SelectedEdges(s, n, FALSE)) : JoinKind(e.to) # "any"
      BY <1>9
    <3> HIDE DEF s
    <3>2. n \in Nodes /\ StateSound(s)
      BY <1>3, <1>6, DriverFacts DEF Memories
    <3>3. ToSet(Successors(s, n)) = {e.to : e \in ToSet(SelectedEdges(s, n, FALSE))}
      BY <1>3, <3>2, SuccessorsAreTargets
    <3> QED BY <3>1, <3>3
  <2> HIDE DEF s
  <2>2. /\ Fits(s, piped.log, {}) /\ ToSet(piped.log) \cap RunRecords = {}
        /\ MemorySound(piped.drive, Fold(s, piped.log), asked)
    BY <1>3, <1>6, <2>1, PipelineIsSound
  <2> HIDE DEF piped
  <2> DEFINE S == {n}
             R == LogRecords(S)
  <2>3. {} \subseteq S /\ state.counts = s.counts
    BY <1>6
  <2> HIDE DEF S
  <2>4. Fits(state, piped.log, S) /\ Fits(state, finish, S)
    BY <1>6, <2>2, <2>3, FitsWider DEF S
  <2>5. ToSet(finish) \cap ToSet(piped.log) \cap CountedHopRecords = {}
    BY <1>6
  <2>6. Fits(state, finish \o piped.log, S)
    BY <2>4, <2>5, FitsJoined
  <2>7. finish \in Seq(R) /\ piped.log \in Seq(R)
    BY <2>4 DEF Fits
  <2> HIDE DEF R
  <2>8. Fold(state, finish \o piped.log) = Fold(s, piped.log)
    BY <2>7, FoldJoined DEF s
  <2> DEFINE log == finish \o piped.log
             next == piped.drive
  <2>9. Fits(state, log, S) /\ MemorySound(next, Fold(state, log), asked) /\ Write(log, next) /\ S \subseteq InvitedIn(state)
    BY <1>6, <1>9, <2>2, <2>6, <2>8 DEF S
  <2> HIDE DEF log, next
  <2> QED BY <2>9, WriteIsSound
<1> HIDE DEF racing, piped, s
<1> QED BY <1>5, <1>7, <1>8, <1>9

-----------------------------------------------------------------------------
(* The resume *)

\* States that agree on all that routes a run.
Alike(s, t) ==
  /\ t.nodes = s.nodes /\ t.started = s.started /\ t.finished = s.finished
  /\ t.hops = s.hops /\ t.counts = s.counts /\ t.refused = s.refused

\* They take the same edges.
LEMMA AlikeSelects ==
  ASSUME NEW s, NEW t, Alike(s, t)
  PROVE  /\ \A n, asRun : SelectedEdges(t, n, asRun) = SelectedEdges(s, n, asRun)
         /\ \A n : Successors(t, n) = Successors(s, n)
         /\ \A n : RoutedTargets(t, n) = RoutedTargets(s, n)
         /\ \A n : IsFinished(t, n) <=> IsFinished(s, n)
<1>1. \A e : EdgeMatches(t, e) <=> EdgeMatches(s, e)
  BY DEF Alike, EdgeMatches
<1>2. \A from, to : HopOfLatestRun(t, from, to) <=> HopOfLatestRun(s, from, to)
  BY DEF Alike, HopOfLatestRun
<1>3. \A e, asRun : EdgeAvailable(t, e, asRun) <=> EdgeAvailable(s, e, asRun)
  BY <1>2 DEF Alike, EdgeAvailable
<1>4. ASSUME NEW n, NEW open PROVE Taken(t, n, open) = Taken(s, n, open)
  <2>1. {e \in Edges : EdgeMatches(t, e)} = {e \in Edges : EdgeMatches(s, e)}
    BY <1>1
  <2>2. n \notin t.refused <=> n \notin s.refused
    BY DEF Alike
  <2> QED BY <2>1, <2>2 DEF Taken
<1>5. ASSUME NEW n, NEW asRun PROVE SelectedEdges(t, n, asRun) = SelectedEdges(s, n, asRun)
  <2>1. {e \in Edges : EdgeAvailable(t, e, asRun)} = {e \in Edges : EdgeAvailable(s, e, asRun)}
    BY <1>3
  <2> QED BY <1>4, <2>1 DEF SelectedEdges
<1>6. \A n : Successors(t, n) = Successors(s, n)
  BY <1>5 DEF Successors
<1>7. ASSUME NEW n PROVE RoutedTargets(t, n) = RoutedTargets(s, n)
  <2>1. {d \in Edges : d.from = n /\ HopOfLatestRun(t, n, d.to)} = {d \in Edges : d.from = n /\ HopOfLatestRun(s, n, d.to)}
    BY <1>2
  <2>2. SelectedEdges(t, n, TRUE) = SelectedEdges(s, n, TRUE)
    BY <1>5
  <2> QED BY <2>1, <2>2 DEF RoutedTargets
<1>8. \A n : IsFinished(t, n) <=> IsFinished(s, n)
  BY DEF Alike, IsFinished
<1> QED BY <1>5, <1>6, <1>7, <1>8

\* What can still arrive, walked from what is active, by where nodes went and which run again.
LiveAlong(routed, runs, active, join) ==
  LET next(p) == IF p[1] = join THEN {}
                 ELSE IF p[2] THEN {e.to : e \in {d \in Edges : d.from = p[1]}}
                 ELSE routed[p[1]]
      step == [p \in Nodes \X BOOLEAN |-> {<<t, p[2] \/ runs[t]>> : t \in next(p)}]
  IN  {p[1] : p \in Walk({<<n, runs[n]>> : n \in active}, step, 2 * Cardinality(Nodes))}

\* Their joins decide alike, and the same heads are pending.
LEMMA AlikeDecides ==
  ASSUME NEW s, NEW t, Alike(s, t)
  PROVE  /\ PendingHeads(t) = PendingHeads(s)
         /\ \A n, active : IsReady(t, n, active) <=> IsReady(s, n, active)
         /\ \A n, active : SeedSuccessors(t, n, active) = SeedSuccessors(s, n, active)
<1>1. /\ \A n : RoutedTargets(t, n) = RoutedTargets(s, n)
      /\ \A n : IsFinished(t, n) <=> IsFinished(s, n)
      /\ \A n : Successors(t, n) = Successors(s, n)
  BY AlikeSelects
<1>2. PendingHeads(t) = PendingHeads(s)
  <2> DEFINE sent(u) == UNION {RoutedTargets(u, n) : n \in {m \in Nodes : IsFinished(u, m)}}
  <2>1. {m \in Nodes : IsFinished(t, m)} = {m \in Nodes : IsFinished(s, m)}
    BY <1>1
  <2>2. sent(t) = sent(s)
    BY <1>1, <2>1
  <2> HIDE DEF sent
  <2>3. {x \in sent(t) : ~IsFinished(t, x)} = {x \in sent(s) : ~IsFinished(s, x)}
    BY <1>1, <2>2
  <2> QED BY <2>3 DEF PendingHeads, sent
<1>3. ASSUME NEW active, NEW join PROVE LiveNodes(t, active, join) = LiveNodes(s, active, join)
  <2> DEFINE routed(u) == [n \in Nodes |-> RoutedTargets(u, n)]
             runs(u) == [n \in Nodes |-> ~IsFinished(u, n) \/ DeliveredAgain(u, n, routed(u))]
  <2>1. routed(t) = routed(s)
    BY <1>1
  <2>2. \A n, r : DeliveredAgain(t, n, r) <=> DeliveredAgain(s, n, r)
    BY DEF Alike, DeliveredAgain
  <2>3. runs(t) = runs(s)
    <3> HIDE DEF routed
    <3>1. \A n \in Nodes : (~IsFinished(t, n) \/ DeliveredAgain(t, n, routed(t)))
                           = (~IsFinished(s, n) \/ DeliveredAgain(s, n, routed(s)))
      BY <1>1, <2>1, <2>2
    <3> QED BY <3>1
  <2>4. LiveNodes(t, active, join) = LiveAlong(routed(t), runs(t), active, join)
    BY DEF LiveNodes, LiveAlong
  <2>5. LiveNodes(s, active, join) = LiveAlong(routed(s), runs(s), active, join)
    BY DEF LiveNodes, LiveAlong
  <2> HIDE DEF routed, runs
  <2> QED BY <2>1, <2>3, <2>4, <2>5
<1>4. \A join, source : DeliveredIntoAnEarlierRound(t, join, source) <=> DeliveredIntoAnEarlierRound(s, join, source)
  BY DEF Alike, DeliveredIntoAnEarlierRound, JoinConsumed
<1>5. ASSUME NEW join, NEW source, NEW live PROVE Arrival(t, join, source, live) = Arrival(s, join, source, live)
  BY <1>1, <1>4 DEF Arrival, Alike
<1>6. ASSUME NEW n, NEW active PROVE Readiness(t, n, active) = Readiness(s, n, active)
  <2>1. LiveNodes(t, active, n) = LiveNodes(s, active, n)
    BY <1>3
  <2>2. \A live : Arrivals(t, n, live) = Arrivals(s, n, live)
    BY <1>5 DEF Arrivals
  <2> QED BY <2>1, <2>2 DEF Readiness
<1>7. \A n, active : IsReady(t, n, active) <=> IsReady(s, n, active)
  BY <1>6 DEF IsReady
<1>8. ASSUME NEW n, NEW active PROVE SeedSuccessors(t, n, active) = SeedSuccessors(s, n, active)
  <2>1. Successors(t, n) = Successors(s, n)
    BY <1>1
  <2>2. \A S : {x \in S : IsReady(t, x, active)} = {x \in S : IsReady(s, x, active)}
    BY <1>7
  <2> QED BY <2>1, <2>2 DEF SeedSuccessors
<1> QED BY <1>2, <1>7, <1>8

\* A record of the run changes nothing that routes it.
LEMMA RunRecordIsAlike ==
  ASSUME NEW s \in RunStates, NEW status \in RunStatuses
  PROVE  Alike(s, Fold(s, <<RunIs(status)>>))
<1> DEFINE one == <<RunIs(status)>>
           R == {RunIs(status)}
<1>1. one \in Seq(R) /\ Len(one) = 1 /\ one[1] = RunIs(status)
  OBVIOUS
<1> HIDE DEF one, R
<1>2. PICK at : Through(s, one, at)
  BY <1>1, FoldSteps
<1>3. at[0] = s /\ Fold(s, one) = at[1] /\ at[1] = FoldOne(at[0], one[1])
  <2>1. 1 \in 1 .. 1 /\ 1 - 1 = 0
    OBVIOUS
  <2> QED BY <1>1, <1>2, <2>1 DEF Through
<1>4. Fold(s, one) = FoldOne(s, RunIs(status))
  BY <1>1, <1>3
<1> QED BY <1>4, FoldRun DEF Alike, one

\* The heads rebuilt from the journal are invited, and each is found once.
LEMMA PendingAreInvited ==
  ASSUME shape \in DOMAIN Graphs, NEW s \in RunStates, Recorded(s)
  PROVE  /\ PendingHeads(s) \in Seq(Nodes) /\ IsInjective(PendingHeads(s))
         /\ ToSet(PendingHeads(s)) \subseteq InvitedIn(s)
<1> DEFINE sent == UNION {RoutedTargets(s, n) : n \in {m \in Nodes : IsFinished(s, m)}}
           left == {t \in sent : ~IsFinished(s, t)}
<1>1. \A n : RoutedTargets(s, n) \subseteq Targets(n)
  <2> SUFFICES ASSUME NEW n PROVE RoutedTargets(s, n) \subseteq Targets(n)
    OBVIOUS
  <2> DEFINE sel == SelectedEdges(s, n, TRUE)
  <2>1. \A e \in ToSet(sel) : e \in Edges /\ e.from = n
    BY SelectedAreOutgoing
  <2>2. RoutedTargets(s, n) = {e.to : e \in {d \in Edges : d.from = n /\ HopOfLatestRun(s, n, d.to)}}
                                \cup {e.to : e \in ToSet(sel)}
    BY DEF RoutedTargets
  <2> HIDE DEF sel
  <2> QED BY <2>1, <2>2 DEF Targets
<1>2. \A n \in Nodes : IsFinished(s, n) => Targets(n) \subseteq InvitedIn(s)
  BY TargetsAreInvited DEF Recorded
<1>3. left \subseteq InvitedIn(s)
  BY <1>1, <1>2
<1>4. PendingHeads(s) = Among(Graph.nodes, left)
  BY DEF PendingHeads
<1> HIDE DEF left
<1>5. /\ Among(Graph.nodes, left) \in Seq(Nodes) /\ ToSet(Among(Graph.nodes, left)) = ToSet(Graph.nodes) \cap left
      /\ IsInjective(Among(Graph.nodes, left))
  BY GraphFacts, AmongKeeps
<1> QED BY <1>3, <1>4, <1>5

\* restore_frontier adds lost heads that can run, and drops none it was given.
LEMMA RestoreIsSound ==
  ASSUME shape \in DOMAIN Graphs, NEW s \in RunStates, Recorded(s), NEW current,
         NEW frontier \in Seq(Nodes), IsInjective(frontier), current \notin ToSet(frontier)
  PROVE  /\ Restore(s, current, frontier) \in Seq(Nodes) /\ IsInjective(Restore(s, current, frontier))
         /\ ToSet(Restore(s, current, frontier)) \subseteq ToSet(frontier) \cup InvitedIn(s)
         /\ current \notin ToSet(Restore(s, current, frontier))
         /\ \A h \in ToSet(PendingHeads(s)) :
              /\ h # current /\ h \notin ToSet(frontier)
              /\ IsReady(s, h, {current} \cup ToSet(frontier) \cup ToSet(PendingHeads(s)))
              => Restore(s, current, frontier) # <<>>
<1> DEFINE heads == PendingHeads(s)
           active == {current} \cup ToSet(frontier) \cup ToSet(heads)
           lost == ToSet(heads) \ ({current} \cup ToSet(frontier))
           ready == {h \in lost : IsReady(s, h, active)}
           back == Among(heads, ready)
<1>1. heads \in Seq(Nodes) /\ IsInjective(heads) /\ ToSet(heads) \subseteq InvitedIn(s)
  BY PendingAreInvited
<1>2. Restore(s, current, frontier) = frontier \o back
  BY DEF Restore, Readmit
<1> HIDE DEF heads
<1>3. ready \subseteq lost /\ lost \subseteq ToSet(heads) /\ current \notin lost /\ lost \cap ToSet(frontier) = {}
  OBVIOUS
<1>4. ASSUME NEW h \in ToSet(heads), h # current, h \notin ToSet(frontier), IsReady(s, h, active) PROVE h \in ready
  BY <1>4
<1> HIDE DEF ready, lost, active
<1>5. back \in Seq(Nodes) /\ ToSet(back) = ToSet(heads) \cap ready /\ IsInjective(back)
  BY <1>1, AmongKeeps
<1> HIDE DEF back
<1>6. ToSet(back) \subseteq InvitedIn(s) /\ current \notin ToSet(back) /\ ToSet(frontier) \cap ToSet(back) = {}
  BY <1>1, <1>3, <1>5
<1> DEFINE whole == frontier \o back
<1>7. whole \in Seq(Nodes) /\ ToSet(whole) = ToSet(frontier) \cup ToSet(back) /\ IsInjective(whole)
  BY <1>5, <1>6, Joined
<1>8. ToSet(back) # {} => whole # <<>>
  <2> HIDE DEF whole
  <2> QED BY <1>7, HeadAndTail
<1>9. ASSUME NEW h \in ToSet(heads), h # current, h \notin ToSet(frontier), IsReady(s, h, active) PROVE whole # <<>>
  BY <1>4, <1>5, <1>8, <1>9
<1> HIDE DEF whole
<1>10. Restore(s, current, frontier) = whole
  BY <1>2 DEF whole
<1> QED BY <1>6, <1>7, <1>9, <1>10 DEF heads, active

\* Where a resume starts: an invited node, one that finished when it goes on past it.
LEMMA PlansAreInvited ==
  ASSUME DriveInv, Plan.node # "none"
  PROVE  /\ Plan.node \in Nodes /\ Plan.node \in InvitedIn(state)
         /\ Plan.mode = "after" => state.finished[Plan.node] > 0
<1>1. shape \in DOMAIN Graphs /\ StateSound(state)
  BY DriverFacts
<1> DEFINE sound(plan) == plan.node # "none" => /\ plan.node \in Nodes /\ plan.node \in InvitedIn(state)
                                                /\ plan.mode = "after" => state.finished[plan.node] > 0
           rerun(n) == [node |-> n, mode |-> "rerun"]
           after(n) == [node |-> n, mode |-> "after"]
<1>2. sound(rerun("start"))
  BY <1>1, GraphFacts DEF InvitedIn
<1>3. Interrupted # <<>> => sound(rerun(Head(Interrupted)))
  <2> DEFINE at == {n \in Nodes : state.nodes[n] = "running"}
  <2>1. Interrupted \in Seq(Nodes) /\ ToSet(Interrupted) = ToSet(Graph.nodes) \cap at
    <3> HIDE DEF at
    <3>1. Among(Graph.nodes, at) \in Seq(Nodes) /\ ToSet(Among(Graph.nodes, at)) = ToSet(Graph.nodes) \cap at
      BY <1>1, GraphFacts, AmongKeeps
    <3>2. Interrupted = Among(Graph.nodes, at)
      BY DEF Interrupted, at
    <3> QED BY <3>1, <3>2
  <2>2. Interrupted # <<>> => Head(Interrupted) \in ToSet(Interrupted)
    BY <2>1, HeadAndTail
  <2>3. \A n \in at : n \in Nodes /\ n \in InvitedIn(state)
    BY <1>1 DEF StateSound, Recorded
  <2> QED BY <2>1, <2>2, <2>3
<1>4. sound(after(state.last)) /\ sound(rerun(state.last))
  <2>1. state.last # "none" => state.last \in Nodes /\ state.finished[state.last] > 0
    BY <1>1 DEF StateSound, Recorded, RunStates
  <2>2. state.last # "none" => state.last \in InvitedIn(state)
    BY <1>1, <2>1 DEF StateSound
  <2> QED BY <2>1, <2>2
<1>5. /\ Len(Interrupted) = 1 => Interrupted # <<>>
      /\ Len(Interrupted) > 1 => Interrupted # <<>>
  OBVIOUS
<1>6. \/ Plan = rerun("start")
      \/ Interrupted # <<>> /\ Plan = rerun(Head(Interrupted))
      \/ Plan = after(state.last)
      \/ Plan = rerun(state.last)
  BY <1>5 DEF Plan
<1>7. sound(Plan)
  <2> HIDE DEF sound
  <2> QED BY <1>2, <1>3, <1>4, <1>6
<1> QED BY <1>7

\* What a run continued again folds to.
Entry == Fold(state, <<RunIs("running")>>)

\* It routes as the run did, and counts what it had counted.
LEMMA EntryIsAlike ==
  ASSUME DriveInv
  PROVE  /\ Alike(state, Entry) /\ Entry \in RunStates /\ Recorded(Entry) /\ StateSound(Entry)
         /\ InvitedIn(Entry) = InvitedIn(state) /\ Entry.counts = state.counts
<1> DEFINE log == <<RunIs("running")>>
<1>1. shape \in DOMAIN Graphs /\ StateSound(state) /\ state \in RunStates
  BY DriverFacts
<1>2. Fits(state, log, {})
  BY RunRecordFits DEF RunStatuses
<1>3. Alike(state, Fold(state, log))
  BY <1>1, RunRecordIsAlike DEF RunStatuses
<1> HIDE DEF log
<1>4. StateSound(Fold(state, log))
  BY <1>1, <1>2, FoldIsSound
<1>5. Entry = Fold(state, log)
  BY DEF Entry, log
<1>6. Alike(state, Entry) /\ StateSound(Entry)
  BY <1>3, <1>4, <1>5
<1> QED BY <1>6 DEF StateSound, Alike, InvitedIn

\* The driver of a resumed run takes its first seed, and the other heads beside it.
LEMMA EnterIsSound ==
  ASSUME DriveInv, NEW log, Fits(state, log, {}), ToSet(log) \cap RunRecords = {},
         NEW seeds \in Seq(Nodes), IsInjective(seeds), seeds # <<>>, ToSet(seeds) \subseteq InvitedIn(state),
         Enter(Entry, log, seeds)
  PROVE  DriveInv'
<1> DEFINE r == RunIs("running")
           one == <<r>>
           whole == one \o log
           first == Head(seeds)
           rest == Tail(seeds)
           frontier == Restore(Entry, first, rest)
           next == [Off EXCEPT !.phase = "turn", !.current = first, !.frontier = frontier]
<1>1. Write(whole, next)
  BY DEF Enter
<1>2. /\ shape \in DOMAIN Graphs /\ StateSound(state) /\ MemorySound(drive, state, asked)
      /\ Entry \in RunStates /\ Recorded(Entry) /\ InvitedIn(Entry) = InvitedIn(state)
  BY DriverFacts, EntryIsAlike
<1>3. /\ first \in ToSet(seeds) /\ rest \in Seq(Nodes) /\ ToSet(seeds) = {first} \cup ToSet(rest)
      /\ IsInjective(rest) /\ first \notin ToSet(rest)
  BY HeadAndTail
<1>4. first \in Nodes
  BY <1>3, Elements
<1>5. Fits(state, whole, {})
  BY RunRecordFits DEF RunStatuses
<1> HIDE DEF first, rest
<1>6. /\ frontier \in Seq(Nodes) /\ IsInjective(frontier) /\ first \notin ToSet(frontier)
      /\ ToSet(frontier) \subseteq ToSet(rest) \cup InvitedIn(Entry)
  BY <1>2, <1>3, RestoreIsSound
<1> HIDE DEF frontier
<1>7. /\ next.phase = "turn" /\ next.current = first /\ next.frontier = frontier
      /\ next.batch = <<>> /\ next.queue = <<>> /\ next.running = {} /\ next.ended = {}
      /\ next.advanced = {} /\ next.halted = FALSE
  BY DEF Off
<1>8. next \in Memories
  <2>1. <<>> \in Seq(Nodes)
    OBVIOUS
  <2> QED BY <1>4, <1>6, <2>1 DEF Off, Memories
<1>9. IsInjective(<<>>) /\ ToSet(<<>>) = {} /\ Cardinality({}) = 0 /\ 0 <= MaxParallel
  BY FS_EmptySet, BoundsAreNaturals DEF IsInjective, ToSet
<1> HIDE DEF next
<1>10. StaysRunning(state, whole)
  <2> DEFINE R == LogRecords({})
  <2>1. log \in Seq(R) /\ r \in R
    BY DEF Fits, LogRecords, RunRecords, RunStatuses
  <2>2. ToSet(one) = {r} /\ Len(one) = 1 /\ one[1] = r /\ r.status = "running"
    BY DEF ToSet, RunIs, Record
  <2>3. one \in Seq(R)
    <3> HIDE DEF R, r
    <3> QED BY <2>1
  <2> HIDE DEF r, one, R
  <2>4. whole \in Seq(R) /\ whole[1] = one[1] /\ whole # <<>>
    <3>1. Len(one) \in Nat /\ Len(log) \in Nat /\ 1 \in 1 .. Len(one)
      BY <2>1, <2>2, <2>3
    <3>2. whole \in Seq(R) /\ Len(whole) = Len(one) + Len(log) /\ \A i \in 1 .. Len(one) : whole[i] = one[i]
      BY <2>1, <2>3
    <3> HIDE DEF whole
    <3>3. Len(whole) > 0
      BY <2>2, <3>1, <3>2
    <3>4. whole # <<>>
      BY <3>2, <3>3
    <3> QED BY <3>1, <3>2, <3>4
  <2>5. ToSet(whole) = ToSet(one) \cup ToSet(log)
    BY <2>1, <2>3, Joined
  <2>6. \A i \in DOMAIN whole : whole[i] \in ToSet(whole)
    BY <2>4, Elements
  <2> HIDE DEF whole
  <2>7. \A i \in DOMAIN whole : whole[i] \in RunRecords => whole[i].status = "running"
    BY <2>2, <2>5, <2>6
  <2> QED BY <2>2, <2>4, <2>7 DEF StaysRunning, r
<1> HIDE DEF one, whole
<1>11. Fold(state, whole).run = "running"
  <2>1. state \in RunStates /\ Recorded(state) /\ Bounded(state) /\ {} \in SUBSET Nodes
    BY <1>2 DEF StateSound
  <2> QED BY <1>2, <1>5, <1>10, <2>1, FoldFollows
<1>12. InvitedIn(state) \subseteq InvitedIn(Fold(state, whole))
  BY <1>2, <1>5, FoldIsSound
<1>13. HeadsSound(next)
  BY <1>6, <1>7, <1>9 DEF HeadsSound
<1>14. MemorySound(next, Fold(state, whole), asked)
  BY <1>2, <1>3, <1>6, <1>7, <1>8, <1>9, <1>11, <1>12, <1>13 DEF MemorySound
<1>15. {} \subseteq InvitedIn(state)
  OBVIOUS
<1> QED BY <1>1, <1>5, <1>14, <1>15, WriteIsSound

\* A resume that is not refused finds a head to go on with.
LEMMA SeedsAreFound ==
  ASSUME DriveInv, CanResume, Plan.mode = "after",
         Advance(Entry, Plan.node, <<>>, ToSet(PendingHeads(Entry))).frontier = <<>>
  PROVE  Restore(Entry, Plan.node, <<>>) # <<>>
<1> DEFINE n == Plan.node
           heads == PendingHeads(state)
           active == {n} \cup ToSet(heads)
           found == SeedSuccessors(Entry, n, active)
<1>1. shape \in DOMAIN Graphs /\ Entry \in RunStates /\ Recorded(Entry) /\ Alike(state, Entry)
  BY DriverFacts, EntryIsAlike
<1>2. n # "none" /\ ~NothingReady(n, ToSet(heads), active)
  BY DEF CanResume, IsRefused, CannotGoOn
<1>3. /\ PendingHeads(Entry) = heads
      /\ \A h : IsReady(Entry, h, active) <=> IsReady(state, h, active)
      /\ SeedSuccessors(state, n, active) = found
  BY <1>1, AlikeDecides
<1>4. <<>> \in Seq(Nodes) /\ ToSet(<<>>) = {} /\ IsInjective(<<>>)
  BY DEF ToSet, IsInjective
<1> HIDE DEF n
<1>5. {n} \cup ToSet(<<>>) \cup ToSet(heads) = active
  BY <1>4
<1> HIDE DEF heads, active
<1>6. ToSet(found) = {}
  <2> DEFINE none == <<>>
             mine == {n} \cup ToSet(none) \cup ToSet(heads)
  <2>1. none \in Seq(Nodes) /\ mine = active /\ ToSet(none) = {}
    BY <1>4, <1>5
  <2>2. Advance(Entry, n, none, ToSet(heads)).frontier = <<>>
    BY <1>3 DEF n
  <2> HIDE DEF none
  <2>3. ToSet(SeedSuccessors(Entry, n, mine)) \ ToSet(none) = {}
    BY <1>1, <2>1, <2>2, AdvanceAdvances
  <2> QED BY <2>1, <2>3
<1>7. found = <<>>
  <2>1. found \in Seq(Nodes)
    BY <1>1, SeedsAreTargets
  <2> HIDE DEF found
  <2> QED BY <1>6, <2>1, HeadAndTail
<1>8. PICK h \in ToSet(heads) : h # n /\ IsReady(state, h, active)
  BY <1>2, <1>3, <1>7 DEF NothingReady
<1>9. h \in ToSet(PendingHeads(Entry)) /\ h # n /\ h \notin ToSet(<<>>)
      /\ IsReady(Entry, h, {n} \cup ToSet(<<>>) \cup ToSet(PendingHeads(Entry)))
  BY <1>3, <1>4, <1>5, <1>8
<1>10. Restore(Entry, n, <<>>) # <<>>
  <2> DEFINE none == <<>>
  <2>1. /\ none \in Seq(Nodes) /\ IsInjective(none) /\ n \notin ToSet(none)
        /\ h \notin ToSet(none) /\ IsReady(Entry, h, {n} \cup ToSet(none) \cup ToSet(PendingHeads(Entry)))
    BY <1>4, <1>9
  <2> HIDE DEF none
  <2>2. Restore(Entry, n, none) # <<>>
    BY <1>1, <1>9, <2>1, RestoreIsSound
  <2> QED BY <2>2 DEF none
<1> QED BY <1>10 DEF n

\* The automatic resume.
LEMMA ResumeIsSound ==
  ASSUME DriveInv, Resume
  PROVE  DriveInv'
<1> DEFINE n == Plan.node
           adv == Seeds(Entry, Plan)
           seeds == IF adv.frontier = <<>> THEN Restore(Entry, n, <<>>) ELSE adv.frontier
<1>1. CanResume /\ Enter(Entry, adv.log, seeds)
  BY DEF Resume, Entry
<1>2. /\ shape \in DOMAIN Graphs /\ StateSound(state) /\ Entry \in RunStates /\ Recorded(Entry)
      /\ Alike(state, Entry) /\ InvitedIn(Entry) = InvitedIn(state) /\ Entry.counts = state.counts
  BY DriverFacts, EntryIsAlike
<1>3. n # "none"
  BY <1>1 DEF CanResume, IsRefused, CannotGoOn
<1>4. /\ n \in Nodes /\ n \in InvitedIn(state)
      /\ Plan.mode = "after" => state.finished[n] > 0
  BY <1>3, PlansAreInvited
<1>5. <<>> \in Seq(Nodes) /\ ToSet(<<>>) = {} /\ IsInjective(<<>>)
  BY DEF ToSet, IsInjective
<1>6. CASE Plan.mode = "after"
  <2> DEFINE none == <<>>
             heads == ToSet(PendingHeads(Entry))
  <2>1. adv = Advance(Entry, n, none, heads)
    BY <1>6 DEF Seeds
  <2>2. none \in Seq(Nodes) /\ ToSet(none) = {} /\ IsInjective(none) /\ n \notin ToSet(none)
    BY <1>5
  <2> HIDE DEF heads
  <2>3. Advances(Entry, n, none, Advance(Entry, n, none, heads), ToSet(none))
    <3> HIDE DEF none
    <3> QED BY <1>2, <2>2, AdvanceAdvances
  <2>4. adv.frontier = <<>> => Restore(Entry, n, <<>>) # <<>>
    BY <1>1, <1>6, <2>1, SeedsAreFound DEF heads
  <2>5. /\ Restore(Entry, n, none) \in Seq(Nodes) /\ IsInjective(Restore(Entry, n, none))
        /\ ToSet(Restore(Entry, n, none)) \subseteq ToSet(none) \cup InvitedIn(Entry)
    <3> HIDE DEF none
    <3> QED BY <1>2, <2>2, RestoreIsSound
  <2>6. Targets(n) \subseteq InvitedIn(state)
    BY <1>4, <1>6, TargetsAreInvited
  <2>7. Advances(Entry, n, none, adv, {})
    <3> HIDE DEF adv, none
    <3> QED BY <2>1, <2>2, <2>3
  <2> HIDE DEF adv, n
  <2>8. /\ adv.frontier \in Seq(Nodes) /\ IsInjective(adv.frontier) /\ ToSet(adv.frontier) \subseteq Targets(n)
        /\ Fits(Entry, adv.log, {}) /\ ToSet(adv.log) \cap RunRecords = {}
    BY <2>2, <2>7 DEF Advances
  <2>9. Fits(state, adv.log, {})
    <3> DEFINE S == {}
    <3>1. S \subseteq S /\ state.counts = Entry.counts /\ Fits(Entry, adv.log, S)
      BY <1>2, <2>8
    <3> HIDE DEF S
    <3>2. Fits(state, adv.log, S)
      BY <3>1, FitsWider
    <3> QED BY <3>2 DEF S
  <2>10. /\ seeds \in Seq(Nodes) /\ IsInjective(seeds) /\ seeds # <<>>
         /\ ToSet(seeds) \subseteq InvitedIn(state)
    BY <1>2, <2>2, <2>4, <2>5, <2>6, <2>8
  <2> HIDE DEF seeds
  <2> QED BY <1>1, <2>8, <2>9, <2>10, EnterIsSound
<1>7. CASE Plan.mode # "after"
  <2> DEFINE log == <<>>
             one == <<n>>
  <2>1. adv = [log |-> log, frontier |-> one]
    BY <1>7 DEF Seeds
  <2>2. adv.log = log /\ adv.frontier = one
    <3> HIDE DEF adv, log, one
    <3> QED BY <2>1
  <2>3. /\ one \in Seq(Nodes) /\ ToSet(one) = {n} /\ one # <<>> /\ IsInjective(one)
    <3> HIDE DEF n
    <3> QED BY <1>4 DEF ToSet, IsInjective
  <2>4. Fits(state, log, {}) /\ ToSet(log) \cap RunRecords = {}
    <3> DEFINE R == LogRecords({})
    <3>1. log \in Seq(R) /\ ToSet(log) = {}
      BY <1>5
    <3> HIDE DEF log
    <3> QED BY <3>1, FitsUncounted
  <2>5. seeds = one
    BY <2>2, <2>3
  <2>6. Enter(Entry, log, one) /\ ToSet(one) \subseteq InvitedIn(state)
    <3> HIDE DEF adv, seeds, log, one, n
    <3> QED BY <1>1, <1>4, <2>2, <2>3, <2>5
  <2> HIDE DEF log, one
  <2> QED BY <2>3, <2>4, <2>6, EnterIsSound
<1> QED BY <1>6, <1>7

-----------------------------------------------------------------------------
(* The theorems *)

\* A run begins with its driver at the start node and nothing journaled.
LEMMA InitIsSound ==
  Init => DriveInv
<1> SUFFICES ASSUME Init PROVE DriveInv
  OBVIOUS
<1>1. shape \in DOMAIN Graphs
  BY DEF Init
<1>2. "start" \in Nodes /\ "start" \in InvitedIn(state)
  BY <1>1, GraphFacts DEF InvitedIn
<1>3. /\ state.nodes = [n \in Nodes |-> "pending"] /\ state.started = Nothing /\ state.finished = Nothing
      /\ state.counts = [p \in Pairs |-> 0] /\ state.last = "none" /\ state.run = "running"
  BY DEF Init
<1>4. state \in RunStates
  BY DEF Init, Nothing, RunStates, Statuses, RunStatuses
<1>5. /\ \A n \in Nodes : state.nodes[n] = "pending" /\ state.started[n] = 0 /\ state.finished[n] = 0
      /\ \A p \in Pairs : state.counts[p] = 0
  BY <1>3 DEF Nothing
<1>6. StateSound(state)
  BY <1>3, <1>4, <1>5 DEF StateSound, Recorded, Bounded, IsFinished
<1>7. drive = [Off EXCEPT !.phase = "turn"]
  BY DEF Init
<1>8. /\ drive.phase = "turn" /\ drive.current = "start" /\ drive.frontier = <<>>
      /\ drive.batch = <<>> /\ drive.queue = <<>> /\ drive.running = {} /\ drive.ended = {}
      /\ drive.advanced = {} /\ drive.halted = FALSE
  BY <1>7 DEF Off
<1>9. drive \in Memories
  <2>1. <<>> \in Seq(Nodes)
    OBVIOUS
  <2> QED BY <1>2, <1>7, <2>1 DEF Off, Memories
<1>10. IsInjective(<<>>) /\ ToSet(<<>>) = {} /\ Cardinality({}) = 0 /\ 0 <= MaxParallel
  BY FS_EmptySet, BoundsAreNaturals DEF IsInjective, ToSet
<1>11. HeadsSound(drive)
  BY <1>8, <1>10 DEF HeadsSound
<1>12. MemorySound(drive, state, asked)
  BY <1>2, <1>3, <1>8, <1>9, <1>10, <1>11 DEF MemorySound
<1>13. Invitees = InvitedIn(state)
  BY DEF Invitees, InvitedIn
<1>14. asked \in {"no", "soft", "now"} /\ crashes \in Nat /\ pauses \in Nat
  BY DEF Init
<1>15. TypeOK
  BY <1>1, <1>4, <1>9, <1>14 DEF TypeOK
<1>16. HeadsAreDistinct
  BY <1>11 DEF HeadsAreDistinct, HeadsSound
<1>17. RunningFits /\ DrivenFits
  BY <1>12 DEF RunningFits, DrivenFits, MemorySound
<1>18. OnlyInvited
  BY <1>6, <1>12, <1>13 DEF OnlyInvited, StateSound, MemorySound
<1>19. FinishesAreRecorded /\ LoopsAreBounded
  BY <1>6 DEF FinishesAreRecorded, LoopsAreBounded, StateSound, Recorded, Bounded
<1> QED BY <1>15, <1>16, <1>17, <1>18, <1>19 DEF DriveInv

\* No step of the drive, of an operator's pause, of a crash or of a resume breaks what it relies on.
LEMMA StepsAreSound ==
  DriveInv /\ [Next]_vars => DriveInv'
<1> SUFFICES ASSUME DriveInv, [Next]_vars PROVE DriveInv'
  OBVIOUS
<1>1. CASE DriveStep
  <2>1. CASE ApplyPause
    BY <2>1, ApplyPauseIsSound
  <2>2. CASE ReachFinish
    BY <2>2, ReachFinishIsSound
  <2>3. CASE RunAlone
    BY <2>3, RunAloneIsSound
  <2>4. CASE FailBarrier
    BY <2>4, FailBarrierIsSound
  <2>5. CASE AloneEnds
    BY <2>5, AloneEndsIsSound
  <2>6. CASE AloneInterrupted
    BY <2>6, AloneInterruptedIsSound
  <2>7. CASE FormBatch
    BY <2>7, FormBatchIsSound
  <2>8. CASE Admit
    BY <2>8, AdmitIsSound
  <2>9. CASE StopAdmitting
    BY <2>9, StopAdmittingIsSound
  <2>10. CASE WriteOffMember
    BY <2>10, WriteOffMemberIsSound
  <2>11. CASE MemberEnds
    BY <2>11, MemberEndsIsSound
  <2>12. CASE MemberInterrupted
    BY <2>12, MemberInterruptedIsSound
  <2>13. CASE BatchHalts
    BY <2>13, BatchHaltsIsSound
  <2>14. CASE BatchEnds
    BY <2>14, BatchEndsIsSound
  <2> QED BY <1>1, <2>1, <2>2, <2>3, <2>4, <2>5, <2>6, <2>7, <2>8, <2>9, <2>10, <2>11, <2>12,
             <2>13, <2>14 DEF DriveStep
<1>2. CASE AskPause
  BY <1>2, AskPauseIsSound
<1>3. CASE Notice
  BY <1>3, NoticeIsSound
<1>4. CASE Crash
  BY <1>4, CrashIsSound
<1>5. CASE Resume
  BY <1>5, ResumeIsSound
<1>6. CASE UNCHANGED vars
  <2>1. UNCHANGED <<shape, state, drive, asked, crashes, pauses>>
    BY <1>6 DEF vars
  <2>2. /\ shape \in DOMAIN Graphs /\ StateSound(state) /\ MemorySound(drive, state, asked)
        /\ asked \in {"no", "soft", "now"} /\ crashes \in Nat /\ pauses \in Nat
    BY InvNow
  <2>3. StateSound(state') /\ MemorySound(drive', state', asked')
    BY <2>1, <2>2
  <2> QED BY <2>1, <2>2, <2>3, InvNext
<1> QED BY <1>1, <1>2, <1>3, <1>4, <1>5, <1>6 DEF Next

\* Whatever the playbook, and wherever it pauses, dies and goes on: the fold and the memory keep
\* their types, no head is driven twice, nothing runs uninvited, and no loop passes its cap.
THEOREM DriveIsSound == Spec => []DriveInv
<1>1. Init => DriveInv
  BY InitIsSound
<1>2. DriveInv /\ [Next]_vars => DriveInv'
  BY StepsAreSound
<1> QED BY <1>1, <1>2, PTL DEF Spec

\* The fold and the driver's memory keep their types.
THEOREM TypeCorrect == Spec => []TypeOK
BY DriveIsSound, PTL DEF DriveInv

\* No head is driven twice at once, and the batch holds each member it admitted, queued, running
\* or ended, within the slots of defaults.max_parallel.
THEOREM NoHeadIsDrivenTwice == Spec => []HeadsAreDistinct
BY DriveIsSound, PTL DEF DriveInv

\* Nothing starts, and no head is kept or rebuilt, but what an edge of a finished node leads to.
THEOREM NothingRunsUninvited == Spec => []OnlyInvited
BY DriveIsSound, PTL DEF DriveInv

\* No bounded edge is counted past its cap, also when a resume routes its source again.
THEOREM LoopsStayBounded == Spec => []LoopsAreBounded
BY DriveIsSound, PTL DEF DriveInv

=============================================================================
