-------------------------- MODULE SceneData_proofs --------------------------
(***************************************************************************)
(* For any arms and things, any order of theirs in the scene and whatever  *)
(* is the case in it: the state and the model of an arm are those of its   *)
(* own joints, and its poses and Jacobians are in the frame of its base.   *)
(***************************************************************************)
EXTENDS SceneData, FiniteSetTheorems, WellFoundedInduction, TLAPS

-----------------------------------------------------------------------------
(* Sums                                                                    *)

LEMMA LeastOf ==
  ASSUME NEW T, T \subseteq Nat, T # {}
  PROVE  \E x \in T : \A y \in T : x <= y
<1> DEFINE R == OpToRel(<, Nat)
<1>1. IsWellFoundedOn(R, Nat)
  BY NatLessThanWellFounded
<1> HIDE DEF R
<1>2. PICK x \in T : \A y \in T : ~ (<<y, x>> \in R)
  BY <1>1, WFMin
<1>3. \A y \in T : y < x => <<y, x>> \in R
  BY DEF R, OpToRel
<1>4. ASSUME NEW y \in T PROVE x <= y
  <2>1. x \in Nat /\ y \in Nat /\ ~ (y < x)
    BY <1>2, <1>3
  <2> QED  BY <2>1
<1> QED  BY <1>4

(* The vectors of n numbers, and what their sums are.                      *)
Vectors(n) == [0..(n - 1) -> Int]
AddUp(sum, v, n) ==
  sum \in [0..n -> Int] /\ sum[0] = 0 /\ \A i \in 1..n : sum[i] = sum[i - 1] + v[i - 1]

LEMMA SizeOfVector ==
  ASSUME NEW n \in Nat, NEW v, DOMAIN v = 0..(n - 1)
  PROVE  Cardinality(DOMAIN v) = n
<1>1. Cardinality(0..(n - 1)) = IF 0 > n - 1 THEN 0 ELSE (n - 1) - 0 + 1
  BY FS_Interval
<1> QED  BY <1>1

LEMMA SumsExist ==
  ASSUME NEW n \in Nat, NEW v \in Vectors(n)
  PROVE  \E sum : AddUp(sum, v, n)
<1> DEFINE Bad == {m \in 0..n : ~ \E sum : AddUp(sum, v, m)}
<1> SUFFICES ASSUME Bad # {} PROVE FALSE
  <2>1. n \in 0..n
    OBVIOUS
  <2>2. n \notin Bad => \E sum : AddUp(sum, v, n)
    BY <2>1
  <2> HIDE DEF Bad
  <2> QED  BY <2>2
<1>1. PICK m \in Bad : \A k \in Bad : m <= k
  <2>1. Bad \subseteq Nat
    OBVIOUS
  <2> HIDE DEF Bad
  <2> QED  BY <2>1, LeastOf
<1>2. CASE m = 0
  <2>1. AddUp([i \in 0..0 |-> 0], v, 0)
    BY DEF AddUp
  <2> QED  BY <1>2, <2>1
<1>3. CASE m # 0
  <2>1. m \in Nat /\ m - 1 \in 0..n /\ m - 1 \in 0..(n - 1) /\ m - 1 \notin Bad
    BY <1>1, <1>3
  <2>2. PICK sum : AddUp(sum, v, m - 1)
    BY <2>1
  <2> DEFINE new == [i \in 0..m |-> IF i = m THEN sum[m - 1] + v[m - 1] ELSE sum[i]]
  <2>3. v[m - 1] \in Int /\ sum[m - 1] \in Int
    BY <2>1, <2>2 DEF Vectors, AddUp
  <2>4. new \in [0..m -> Int] /\ new[0] = 0
    BY <1>3, <2>1, <2>2, <2>3 DEF AddUp
  <2>5. ASSUME NEW i \in 1..m PROVE new[i] = new[i - 1] + v[i - 1]
    <3>1. CASE i = m
      BY <2>1, <3>1
    <3>2. CASE i # m
      BY <2>1, <2>2, <3>2 DEF AddUp
    <3> QED  BY <3>1, <3>2
  <2>6. AddUp(new, v, m)
    BY <2>4, <2>5 DEF AddUp
  <2> QED  BY <2>6
<1> QED  BY <1>2, <1>3

LEMMA SumsAgree ==
  ASSUME NEW n \in Nat, NEW v, NEW f, NEW g, AddUp(f, v, n),
         NEW k \in Nat, k <= n, NEW u, \A i \in 0..(k - 1) : u[i] = v[i], AddUp(g, u, k)
  PROVE  \A i \in 0..k : f[i] = g[i]
<1> DEFINE Bad == {m \in 0..k : f[m] # g[m]}
<1> SUFFICES ASSUME Bad # {} PROVE FALSE
  OBVIOUS
<1>1. PICK m \in Bad : \A i \in Bad : m <= i
  <2>1. Bad \subseteq Nat
    OBVIOUS
  <2> HIDE DEF Bad
  <2> QED  BY <2>1, LeastOf
<1>2. m \in 0..k /\ f[m] # g[m] /\ m # 0
  BY <1>1 DEF AddUp
<1>3. m - 1 \in 0..k /\ m - 1 \notin Bad /\ m \in 1..k /\ m \in 1..n /\ m - 1 \in 0..(k - 1)
  BY <1>1, <1>2
<1>4. f[m - 1] = g[m - 1]
  BY <1>3
<1>5. f[m] = f[m - 1] + v[m - 1] /\ g[m] = g[m - 1] + u[m - 1] /\ u[m - 1] = v[m - 1]
  BY <1>3 DEF AddUp
<1> QED  BY <1>2, <1>4, <1>5

(* Sums are what they are defined to be.                                   *)
LEMMA SumsAre ==
  ASSUME NEW n \in Nat, NEW v \in Vectors(n)
  PROVE  AddUp(Sums(v), v, n) /\ SumOf(v) = Sums(v)[n]
<1> DEFINE S == Sums(v)
<1>1. Cardinality(DOMAIN v) = n
  BY SizeOfVector DEF Vectors
<1>2. PICK sum : AddUp(sum, v, n)
  BY SumsExist
<1>3. sum = [i \in 0..n |-> IF i = 0 THEN 0 ELSE sum[i - 1] + v[i - 1]]
  BY <1>2 DEF AddUp
<1>4. S = [i \in 0..n |-> IF i = 0 THEN 0 ELSE S[i - 1] + v[i - 1]]
  BY <1>1, <1>3 DEF Sums
<1> DEFINE Bad == {m \in 0..n : S[m] # sum[m]}
<1>5. Bad = {}
  <2> SUFFICES ASSUME Bad # {} PROVE FALSE
    OBVIOUS
  <2>1. PICK m \in Bad : \A k \in Bad : m <= k
    <3>1. Bad \subseteq Nat
      OBVIOUS
    <3> HIDE DEF Bad
    <3> QED  BY <3>1, LeastOf
  <2> HIDE DEF S
  <2>2. m \in 0..n /\ S[m] # sum[m] /\ m # 0
    BY <1>2, <1>4, <2>1 DEF AddUp
  <2>3. m - 1 \in 0..n /\ m - 1 \notin Bad
    BY <2>1, <2>2
  <2> QED  BY <1>2, <1>4, <2>2, <2>3 DEF AddUp
<1>6. S = sum
  <2>1. DOMAIN S = 0..n /\ S = [i \in 0..n |-> S[i]]
    BY <1>4
  <2> HIDE DEF S
  <2>2. \A i \in 0..n : S[i] = sum[i]
    BY <1>5
  <2> QED  BY <1>3, <2>1, <2>2
<1> QED  BY <1>1, <1>2, <1>6 DEF SumOf

LEMMA SumOfThree ==
  ASSUME NEW v \in Vectors(3)
  PROVE  SumOf(v) = v[0] + v[1] + v[2]
<1>1. AddUp(Sums(v), v, 3) /\ SumOf(v) = Sums(v)[3]
  BY SumsAre
<1> QED  BY <1>1 DEF AddUp, Vectors

LEMMA SumOfFour ==
  ASSUME NEW v \in Vectors(4)
  PROVE  SumOf(v) = v[0] + v[1] + v[2] + v[3]
<1>1. AddUp(Sums(v), v, 4) /\ SumOf(v) = Sums(v)[4]
  BY SumsAre
<1> QED  BY <1>1 DEF AddUp, Vectors

LEMMA SumOfSix ==
  ASSUME NEW v \in Vectors(6)
  PROVE  SumOf(v) = v[0] + v[1] + v[2] + v[3] + v[4] + v[5]
<1>1. AddUp(Sums(v), v, 6) /\ SumOf(v) = Sums(v)[6]
  BY SumsAre
<1> QED  BY <1>1 DEF AddUp, Vectors

(* The sum of the first components.                                        *)
LEMMA SumOfFirst ==
  ASSUME NEW n \in Nat, NEW v \in Vectors(n), NEW k \in 0..n
  PROVE  SumOf([i \in 0..(k - 1) |-> v[i]]) = Sums(v)[k]
<1> DEFINE u == [i \in 0..(k - 1) |-> v[i]]
<1>1. u \in Vectors(k) /\ k \in Nat /\ k <= n
  BY DEF Vectors
<1>2. AddUp(Sums(u), u, k) /\ SumOf(u) = Sums(u)[k] /\ AddUp(Sums(v), v, n)
  BY <1>1, SumsAre
<1>3. \A i \in 0..(k - 1) : u[i] = v[i]
  OBVIOUS
<1> HIDE DEF u
<1>4. \A i \in 0..k : Sums(v)[i] = Sums(u)[i]
  BY <1>1, <1>2, <1>3, SumsAgree
<1>5. k \in 0..k
  BY <1>1
<1> QED  BY <1>2, <1>4, <1>5 DEF u
-----------------------------------------------------------------------------
(* Flattened sequences                                                     *)

(* The lengths of sequences, numbered from 0 like the vectors that are     *)
(* added up.                                                               *)
Lengths(seqs) == [i \in 0..(Len(seqs) - 1) |-> Len(seqs[i + 1])]
Joined(flat, seqs, n) ==
  /\ flat[1] = seqs[1] /\ \A i \in 2..n : flat[i] = flat[i - 1] \o seqs[i]

LEMMA TwoJoined ==
  ASSUME NEW X, NEW s \in Seq(X), NEW t \in Seq(X)
  PROVE  /\ s \o t \in Seq(X) /\ Len(s \o t) = Len(s) + Len(t)
         /\ \A k \in 1..Len(s) : (s \o t)[k] = s[k]
         /\ \A k \in 1..Len(t) : (s \o t)[Len(s) + k] = t[k]
OBVIOUS

LEMMA JoinedSequences ==
  ASSUME NEW X, NEW seqs \in Seq(Seq(X)), NEW n \in 1..Len(seqs)
  PROVE  \E flat \in [1..n -> Seq(X)] : Joined(flat, seqs, n)
<1> DEFINE Good(m) == \E flat \in [1..m -> Seq(X)] : Joined(flat, seqs, m)
           Bad == {m \in 1..n : ~ Good(m)}
<1> SUFFICES ASSUME Bad # {} PROVE FALSE
  <2>1. n \in 1..n
    OBVIOUS
  <2>2. n \notin Bad => Good(n)
    <3> HIDE DEF Good
    <3> QED  BY <2>1
  <2> HIDE DEF Bad
  <2> QED  BY <2>2
<1>1. PICK m \in Bad : \A k \in Bad : m <= k
  <2>1. Bad \subseteq Nat
    OBVIOUS
  <2> HIDE DEF Bad
  <2> QED  BY <2>1, LeastOf
<1>0. /\ n \in Nat /\ m \in 1..n /\ m \in 1..Len(seqs) /\ m \in Nat
      /\ seqs[m] \in Seq(X) /\ seqs[1] \in Seq(X)
  <2>1. m \in 1..n /\ n \in Nat /\ n <= Len(seqs)
    BY <1>1
  <2>2. m \in DOMAIN seqs /\ 1 \in DOMAIN seqs /\ m \in Nat
    BY <2>1
  <2> QED  BY <2>1, <2>2
<1>2. CASE m = 1
  <2>1. [i \in 1..1 |-> seqs[1]] \in [1..1 -> Seq(X)]
    BY <1>0
  <2>2. Joined([i \in 1..1 |-> seqs[1]], seqs, 1)
    BY DEF Joined
  <2> QED  BY <1>1, <1>2, <2>1, <2>2
<1>3. CASE m # 1
  <2>1. m \in Nat /\ m - 1 \in 1..n /\ m - 1 \notin Bad
    <3>1. m - 1 \in 1..n /\ m \in Nat /\ ~ (m <= m - 1)
      BY <1>0, <1>3
    <3> HIDE DEF Bad
    <3> QED  BY <1>1, <3>1
  <2>2. PICK flat \in [1..(m - 1) -> Seq(X)] : Joined(flat, seqs, m - 1)
    BY <2>1
  <2> DEFINE new == [i \in 1..m |-> IF i = m THEN flat[m - 1] \o seqs[m] ELSE flat[i]]
  <2>3. flat[m - 1] \in Seq(X)
    BY <1>0, <1>3, <2>2
  <2>4. new \in [1..m -> Seq(X)]
    BY <1>0, <2>1, <2>2, <2>3
  <2>5. new[1] = seqs[1]
    BY <1>0, <1>3, <2>1, <2>2 DEF Joined
  <2>6. ASSUME NEW i \in 2..m PROVE new[i] = new[i - 1] \o seqs[i]
    <3>1. new[m - 1] = flat[m - 1] /\ new[m] = flat[m - 1] \o seqs[m]
      <4>1. m - 1 # m /\ m \in 1..m /\ m - 1 \in 1..m
        BY <1>0, <2>1
      <4> HIDE DEF Bad
      <4> QED  BY <4>1
    <3>2. i # m => /\ i \in 2..(m - 1) /\ new[i] = flat[i] /\ new[i - 1] = flat[i - 1]
                   /\ flat[i] = flat[i - 1] \o seqs[i]
      <4>1. i # m => /\ i \in 2..(m - 1) /\ i \in 1..m /\ i - 1 \in 1..m
                     /\ i - 1 # m
        BY <1>0
      <4> HIDE DEF Bad
      <4> QED  BY <2>2, <4>1 DEF Joined
    <3> HIDE DEF new
    <3> QED  BY <3>1, <3>2
  <2>7. Joined(new, seqs, m)
    BY <2>5, <2>6 DEF Joined
  <2> QED  BY <1>1, <2>4, <2>7
<1> QED  BY <1>2, <1>3

(* What FlattenSeq computes.                                               *)
LEMMA FlattenSeqIs ==
  ASSUME NEW X, NEW seqs \in Seq(Seq(X)), seqs # <<>>
  PROVE  \E flat \in [1..Len(seqs) -> Seq(X)] :
           Joined(flat, seqs, Len(seqs)) /\ FlattenSeq(seqs) = flat[Len(seqs)]
<1> DEFINE n == Len(seqs)
           S[i \in 1..Len(seqs)] == IF i = 1 THEN seqs[i] ELSE S[i - 1] \o seqs[i]
<1>1. n \in Nat /\ n # 0 /\ n \in 1..n
  OBVIOUS
<1>2. PICK flat \in [1..n -> Seq(X)] : Joined(flat, seqs, n)
  BY <1>1, JoinedSequences
<1>3. flat = [i \in 1..n |-> IF i = 1 THEN seqs[i] ELSE flat[i - 1] \o seqs[i]]
  <2>1. ASSUME NEW i \in 1..n
        PROVE  flat[i] = IF i = 1 THEN seqs[i] ELSE flat[i - 1] \o seqs[i]
    <3>1. i # 1 => i \in 2..n
      OBVIOUS
    <3> QED  BY <1>2, <3>1 DEF Joined
  <2>2. flat = [i \in 1..n |-> flat[i]]
    BY <1>2
  <2> QED  BY <2>1, <2>2
<1>4. S = [i \in 1..n |-> IF i = 1 THEN seqs[i] ELSE S[i - 1] \o seqs[i]]
  BY <1>3
<1>5. FlattenSeq(seqs) = S[n]
  BY <1>1 DEF FlattenSeq
<1> HIDE DEF S
<1> DEFINE Bad == {m \in 1..n : S[m] # flat[m]}
<1>6. Bad = {}
  <2> SUFFICES ASSUME Bad # {} PROVE FALSE
    OBVIOUS
  <2>1. PICK m \in Bad : \A k \in Bad : m <= k
    <3>1. Bad \subseteq Nat
      OBVIOUS
    <3> HIDE DEF Bad
    <3> QED  BY <3>1, LeastOf
  <2>2. m \in 1..n /\ S[m] # flat[m] /\ m # 1
    BY <1>2, <1>4, <2>1 DEF Joined
  <2>3. m - 1 \in 1..n /\ m \in 2..n /\ ~ (m <= m - 1)
    BY <1>1, <2>2
  <2>4. S[m - 1] = flat[m - 1]
    BY <2>1, <2>3
  <2>5. S[m] = S[m - 1] \o seqs[m]
    BY <1>4, <2>2
  <2>6. flat[m] = flat[m - 1] \o seqs[m]
    BY <1>2, <2>3 DEF Joined
  <2> QED  BY <2>2, <2>4, <2>5, <2>6
<1> QED  BY <1>1, <1>2, <1>5, <1>6

(* The r-th element of the i-th sequence comes after all those of the      *)
(* sequences before it.                                                    *)
LEMMA FlattenedAt ==
  ASSUME NEW X, NEW seqs \in Seq(Seq(X)), NEW i \in DOMAIN seqs, NEW r \in DOMAIN seqs[i]
  PROVE  LET at == Sums(Lengths(seqs))[i - 1] + r
         IN  at \in DOMAIN FlattenSeq(seqs) /\ FlattenSeq(seqs)[at] = seqs[i][r]
<1> DEFINE n == Len(seqs)
           L == Sums(Lengths(seqs))
<1>1. /\ n \in Nat /\ n # 0 /\ n \in 1..n /\ i \in 1..n /\ r \in 1..Len(seqs[i]) /\ seqs # <<>>
      /\ \A k \in 1..n : seqs[k] \in Seq(X) /\ Len(seqs[k]) \in Nat
  OBVIOUS
<1>2. PICK flat \in [1..n -> Seq(X)] : Joined(flat, seqs, n) /\ FlattenSeq(seqs) = flat[n]
  BY <1>1, FlattenSeqIs
<1>3. Lengths(seqs) \in Vectors(n) /\ \A k \in 1..n : Lengths(seqs)[k - 1] = Len(seqs[k])
  BY DEF Lengths, Vectors
<1>4. /\ L \in [0..n -> Int] /\ L[0] = 0
      /\ \A k \in 1..n : L[k] = L[k - 1] + Len(seqs[k])
  <2>1. AddUp(L, Lengths(seqs), n)
    BY ONLY <1>1, <1>3, SumsAre
  <2> HIDE DEF L, n
  <2>2. L \in [0..n -> Int] /\ L[0] = 0 /\ \A k \in 1..n : L[k] = L[k - 1] + Lengths(seqs)[k - 1]
    BY ONLY <2>1 DEF AddUp
  <2> QED  BY <1>3, <2>2
<1> HIDE DEF L, n
<1> DEFINE Fine(k) == /\ Len(flat[k]) = L[k]
                      /\ k >= i => /\ L[i - 1] + r \in 1..L[k]
                                  /\ flat[k][L[i - 1] + r] = seqs[i][r]
           Bad == {k \in 1..n : ~ Fine(k)}
<1>5. Bad = {}
  <2> SUFFICES ASSUME Bad # {} PROVE FALSE
    OBVIOUS
  <2>1. PICK m \in Bad : \A k \in Bad : m <= k
    <3>1. Bad \subseteq Nat
      OBVIOUS
    <3> HIDE DEF Bad
    <3> QED  BY <3>1, LeastOf
  <2>2. m \in 1..n /\ ~ Fine(m)
    BY <2>1
  <2> HIDE DEF Bad
  <2>3. CASE m = 1
    <3>1. flat[1] = seqs[1] /\ L[1] = Len(seqs[1]) /\ L[0] = 0
      <4>1. 1 \in 1..n /\ 1 - 1 = 0 /\ Len(seqs[1]) \in Nat
        BY <1>1
      <4>2. L[1] = L[1 - 1] + Len(seqs[1])
        BY <1>4, <4>1
      <4> QED  BY <1>2, <1>4, <4>1, <4>2 DEF Joined
    <3>2. 1 >= i => i = 1
      BY <1>1
    <3> QED  BY <1>1, <2>2, <2>3, <3>1, <3>2
  <2>4. CASE m # 1
    <3>1. m - 1 \in 1..n /\ m - 1 \notin Bad /\ m \in 2..n
      <4>1. m - 1 \in 1..n /\ m \in 2..n /\ ~ (m <= m - 1)
        BY <1>1, <2>2, <2>4
      <4> QED  BY <2>1, <4>1
    <3>2. Fine(m - 1)
      BY <3>1 DEF Bad
    <3>3. flat[m] = flat[m - 1] \o seqs[m] /\ L[m] = L[m - 1] + Len(seqs[m])
      <4>1. flat[m] = flat[m - 1] \o seqs[m]
        BY <1>2, <3>1 DEF Joined
      <4>2. L[m] = L[m - 1] + Len(seqs[m])
        BY <1>4, <2>2
      <4> QED  BY <4>1, <4>2
    <3>4. flat[m - 1] \in Seq(X) /\ seqs[m] \in Seq(X) /\ L[m - 1] \in Int /\ L[i - 1] \in Int
      <4>1. m - 1 \in 0..n /\ i - 1 \in 0..n /\ m \in 1..n
        <5>1. n \in Nat /\ i \in 1..n /\ m \in 1..n
          BY <1>1, <2>2
        <5> QED  BY ONLY <5>1
      <4>2. seqs[m] \in Seq(X)
        BY <1>1, <4>1
      <4>3. flat[m - 1] \in Seq(X)
        BY <1>2, <3>1
      <4>4. L[m - 1] \in Int /\ L[i - 1] \in Int
        BY <1>4, <4>1
      <4> QED  BY <4>2, <4>3, <4>4
    <3> HIDE DEF Fine
    <3>5. Len(flat[m]) = L[m]
      <4>1. Len(flat[m - 1]) = L[m - 1]
        BY <3>2 DEF Fine
      <4>2. Len(flat[m - 1] \o seqs[m]) = Len(flat[m - 1]) + Len(seqs[m])
        BY <3>4, TwoJoined
      <4> QED  BY <3>3, <4>1, <4>2
    <3>6. ASSUME m >= i
          PROVE  L[i - 1] + r \in 1..L[m] /\ flat[m][L[i - 1] + r] = seqs[i][r]
      <4>1. CASE m = i
        <5>1. L[i - 1] = Len(flat[i - 1]) /\ flat[i] = flat[i - 1] \o seqs[i]
          BY <3>2, <3>3, <4>1 DEF Fine
        <5>2. L[i - 1] \in Nat /\ r \in 1..Len(seqs[i]) /\ L[i] = L[i - 1] + Len(seqs[i])
          BY <1>1, <3>3, <3>4, <4>1, <5>1
        <5>3. (flat[i - 1] \o seqs[i])[Len(flat[i - 1]) + r] = seqs[i][r]
          <6>1. flat[i - 1] \in Seq(X) /\ seqs[i] \in Seq(X)
            BY <3>4, <4>1
          <6>2. \A k \in 1..Len(seqs[i]) :
                  (flat[i - 1] \o seqs[i])[Len(flat[i - 1]) + k] = seqs[i][k]
            BY ONLY <6>1, TwoJoined
          <6> QED  BY <5>2, <6>2
        <5>4. L[i - 1] + r \in 1..L[i]
          <6>1. Len(seqs[i]) \in Nat
            BY <1>1
          <6> QED  BY <5>2, <6>1
        <5> QED  BY <4>1, <5>1, <5>3, <5>4
      <4>2. CASE m # i
        <5>1. L[i - 1] + r \in 1..L[m - 1] /\ flat[m - 1][L[i - 1] + r] = seqs[i][r]
          BY <1>1, <2>2, <3>2, <3>6, <4>2 DEF Fine
        <5>2. L[i - 1] + r \in 1..Len(flat[m - 1])
          BY <3>2, <5>1 DEF Fine
        <5>3. (flat[m - 1] \o seqs[m])[L[i - 1] + r] = flat[m - 1][L[i - 1] + r]
          <6>1. flat[m - 1] \in Seq(X) /\ seqs[m] \in Seq(X)
            BY <3>4
          <6>2. \A k \in 1..Len(flat[m - 1]) :
                  (flat[m - 1] \o seqs[m])[k] = flat[m - 1][k]
            <7> DEFINE s == flat[m - 1]
                       t == seqs[m]
            <7>1. s \in Seq(X) /\ t \in Seq(X)
              BY <6>1
            <7> HIDE DEF s, t
            <7>2. \A k \in 1..Len(s) : (s \o t)[k] = s[k]
              BY ONLY <7>1, TwoJoined
            <7> QED  BY <7>2 DEF s, t
          <6> QED  BY <5>2, <6>2
        <5>4. L[i - 1] + r \in 1..L[m]
          <6>1. Len(seqs[m]) \in Nat /\ r \in Nat
            BY <1>1, <3>1
          <6>2. L[m] = L[m - 1] + Len(seqs[m]) /\ L[m - 1] \in Int /\ L[i - 1] \in Int
            BY <3>3, <3>4
          <6> DEFINE x == L[i - 1]
                     y == L[m - 1]
                     z == Len(seqs[m])
          <6>3. x + r \in 1..y /\ L[m] = y + z /\ x \in Int /\ y \in Int /\ z \in Nat
            BY ONLY <5>1, <6>1, <6>2
          <6> HIDE DEF x, y, z
          <6>4. x + r \in 1..(y + z)
            BY ONLY <6>1, <6>3
          <6> QED  BY <6>3, <6>4 DEF x
        <5> QED  BY <3>3, <5>1, <5>3, <5>4
      <4> QED  BY <4>1, <4>2
    <3> QED  BY <2>2, <3>5, <3>6 DEF Fine
  <2> QED  BY <2>3, <2>4
<1> HIDE DEF Fine
<1>6. Fine(n)
  BY <1>1, <1>5
<1>7. flat[n] \in Seq(X) /\ n >= i
  BY <1>1
<1> HIDE DEF Bad
<1>8. L[i - 1] + r \in 1..Len(flat[n]) /\ flat[n][L[i - 1] + r] = seqs[i][r]
  BY <1>6, <1>7 DEF Fine
<1>9. L[i - 1] + r \in DOMAIN flat[n]
  BY <1>7, <1>8
<1> QED  BY <1>2, <1>8, <1>9 DEF L, n

LEMMA FlattenSeqTyped ==
  ASSUME NEW X, NEW seqs \in Seq(Seq(X))
  PROVE  FlattenSeq(seqs) \in Seq(X)
<1>1. CASE seqs = <<>>
  BY <1>1 DEF FlattenSeq
<1>2. CASE seqs # <<>>
  <2>1. Len(seqs) \in 1..Len(seqs)
    BY <1>2
  <2>2. PICK flat \in [1..Len(seqs) -> Seq(X)] :
          Joined(flat, seqs, Len(seqs)) /\ FlattenSeq(seqs) = flat[Len(seqs)]
    BY <1>2, FlattenSeqIs
  <2> QED  BY <2>1, <2>2
<1> QED  BY <1>1, <1>2
-----------------------------------------------------------------------------
(* The parts of a scene                                                    *)

LEMMA RowTyped ==
  ASSUME NEW thing, NEW part, NEW first \in Nat, NEW n \in Nat,
         NEW S, \A i \in 1..n : first + i - 1 \in S
  PROVE  Row(thing, part, first, n) \in Seq({thing} \X {part} \X S)
<1>1. \A i \in 1..n : <<thing, part, first + i - 1>> \in {thing} \X {part} \X S
  OBVIOUS
<1> QED  BY <1>1 DEF Row

LEMMA WiderSequences ==
  ASSUME NEW S, NEW T, S \subseteq T, NEW s \in Seq(S)
  PROVE  s \in Seq(T)
OBVIOUS

LEMMA PartsAreNamed ==
  /\ JointsOf \in [Things -> Seq(JointNames)] /\ LinksOf \in [Things -> Seq(BodyNames)]
  /\ SitesOf \in [Things -> Seq(SiteNames)] /\ ActuatorsOf \in [Things -> Seq(ActuatorNames)]
<1>0. /\ kNumberOfJoints \in Nat /\ kNumberOfJoints + 2 \in Nat
      /\ \A i \in 1..kNumberOfJoints : 0 + i - 1 \in Joints
      /\ \A i \in 1..(kNumberOfJoints + 2) : 0 + i - 1 \in Frames
      /\ \A i \in 1..1 : 0 + i - 1 \in {0}
      /\ \A i \in 1..2 : 1 + i - 1 \in 1..2
  BY JointsAssumption DEF Joints, Frames
<1>1. ASSUME NEW thing \in Things PROVE JointsOf[thing] \in Seq(JointNames)
  <2>1. Row(thing, "free", 0, 1) \in Seq({thing} \X {"free"} \X {0})
    BY <1>0, RowTyped
  <2>2. Row(thing, "joint", 0, kNumberOfJoints) \in Seq({thing} \X {"joint"} \X Joints)
    BY <1>0, RowTyped
  <2>3. Row(thing, "finger_joint", 1, 2) \in Seq({thing} \X {"finger_joint"} \X (1..2))
    BY <1>0, RowTyped
  <2>4. CASE thing \in Objects
    <3>1. {thing} \X {"free"} \X {0} \subseteq JointNames
      BY <2>4 DEF JointNames
    <3> QED  BY <2>1, <2>4, <3>1, WiderSequences DEF JointsOf
  <2>5. CASE thing \notin Objects
    <3>1. {thing} \X {"joint"} \X Joints \subseteq JointNames
      BY <2>5 DEF JointNames, Things
    <3>2. Row(thing, "joint", 0, kNumberOfJoints) \in Seq(JointNames)
      BY <2>2, <3>1, WiderSequences
    <3>3. CASE thing \in Grippers
      <4>1. {thing} \X {"finger_joint"} \X (1..2) \subseteq JointNames
        BY <3>3 DEF JointNames
      <4>2. Row(thing, "finger_joint", 1, 2) \in Seq(JointNames)
        BY <2>3, <4>1, WiderSequences
      <4> QED  BY <2>5, <3>2, <3>3, <4>2, TwoJoined DEF JointsOf
    <3>4. CASE thing \notin Grippers
      <4>1. <<>> \in Seq(JointNames)
        OBVIOUS
      <4> QED  BY <2>5, <3>2, <3>4, <4>1, TwoJoined DEF JointsOf
    <3> QED  BY <3>3, <3>4
  <2> QED  BY <2>4, <2>5
<1>2. ASSUME NEW thing \in Things PROVE LinksOf[thing] \in Seq(BodyNames)
  <2>1. Row(thing, "body", 0, 1) \in Seq({thing} \X {"body"} \X {0})
    BY <1>0, RowTyped
  <2>2. Row(thing, "link", 0, kNumberOfJoints + 2) \in Seq({thing} \X {"link"} \X Frames)
    BY <1>0, RowTyped
  <2>3. CASE thing \in Objects
    <3>1. {thing} \X {"body"} \X {0} \subseteq BodyNames
      BY <2>3 DEF BodyNames
    <3> QED  BY <2>1, <2>3, <3>1, WiderSequences DEF LinksOf
  <2>4. CASE thing \notin Objects
    <3>1. {thing} \X {"link"} \X Frames \subseteq BodyNames
      BY <2>4 DEF BodyNames, Things
    <3> QED  BY <2>2, <2>4, <3>1, WiderSequences DEF LinksOf
  <2> QED  BY <2>3, <2>4
<1>3. ASSUME NEW thing \in Things PROVE SitesOf[thing] \in Seq(SiteNames)
  <2>1. Row(thing, "site", 0, kNumberOfJoints + 2) \in Seq({thing} \X {"site"} \X Frames)
    BY <1>0, RowTyped
  <2>2. CASE thing \in Objects
    <3>1. <<>> \in Seq(SiteNames)
      OBVIOUS
    <3> QED  BY <2>2, <3>1 DEF SitesOf
  <2>3. CASE thing \notin Objects
    <3>1. {thing} \X {"site"} \X Frames \subseteq SiteNames
      BY <2>3 DEF SiteNames, Things
    <3> QED  BY <2>1, <2>3, <3>1, WiderSequences DEF SitesOf
  <2> QED  BY <2>2, <2>3
<1>4. ASSUME NEW thing \in Things PROVE ActuatorsOf[thing] \in Seq(ActuatorNames)
  <2>1. CASE thing \in Objects
    <3>1. <<>> \in Seq(ActuatorNames)
      OBVIOUS
    <3> QED  BY <2>1, <3>1 DEF ActuatorsOf
  <2>2. CASE thing \notin Objects
    <3>1. ASSUME NEW part \in {"act_trq", "act_pos", "act_vel"}
          PROVE  Row(thing, part, 0, kNumberOfJoints) \in Seq(ActuatorNames)
      <4>1. Row(thing, part, 0, kNumberOfJoints) \in Seq({thing} \X {part} \X Joints)
        BY <1>0, RowTyped
      <4>2. {thing} \X {part} \X Joints \subseteq ActuatorNames
        BY <2>2, <3>1 DEF ActuatorNames, Things
      <4> QED  BY <4>1, <4>2, WiderSequences
    <3> DEFINE trq == Row(thing, "act_trq", 0, kNumberOfJoints)
               pos == Row(thing, "act_pos", 0, kNumberOfJoints)
               vel == Row(thing, "act_vel", 0, kNumberOfJoints)
    <3>2. trq \in Seq(ActuatorNames) /\ pos \in Seq(ActuatorNames) /\ vel \in Seq(ActuatorNames)
      BY <3>1
    <3>3. ActuatorsOf[thing] = trq \o pos \o vel
      BY <2>2 DEF ActuatorsOf
    <3> HIDE DEF trq, pos, vel
    <3>4. trq \o pos \in Seq(ActuatorNames)
      BY <3>2, TwoJoined
    <3>5. (trq \o pos) \o vel \in Seq(ActuatorNames)
      BY <3>2, <3>4, TwoJoined
    <3> QED  BY <3>3, <3>5
  <2> QED  BY <2>1, <2>2
<1> QED  BY <1>1, <1>2, <1>3, <1>4 DEF JointsOf, LinksOf, SitesOf, ActuatorsOf

LEMMA PartsOfArm ==
  ASSUME NEW a \in Arms
  PROVE  /\ a \in Things
         /\ \A j \in Joints : j + 1 \in DOMAIN JointsOf[a] /\ JointsOf[a][j + 1] = <<a, "joint", j>>
         /\ \A j \in Joints : /\ j + 1 \in DOMAIN ActuatorsOf[a]
                             /\ ActuatorsOf[a][j + 1] = <<a, "act_trq", j>>
         /\ \A f \in Frames : f + 1 \in DOMAIN LinksOf[a] /\ LinksOf[a][f + 1] = <<a, "link", f>>
         /\ \A f \in Frames : f + 1 \in DOMAIN SitesOf[a] /\ SitesOf[a][f + 1] = <<a, "site", f>>
<1>0. /\ kNumberOfJoints \in Nat /\ kNumberOfJoints + 2 \in Nat
      /\ \A j \in Joints : j + 1 \in 1..kNumberOfJoints /\ 0 + (j + 1) - 1 = j
      /\ \A f \in Frames : f + 1 \in 1..(kNumberOfJoints + 2) /\ 0 + (f + 1) - 1 = f
      /\ \A i \in 1..kNumberOfJoints : 0 + i - 1 \in Joints
      /\ \A i \in 1..(kNumberOfJoints + 2) : 0 + i - 1 \in Frames
      /\ \A i \in 1..2 : 1 + i - 1 \in 1..2
  BY JointsAssumption DEF Joints, Frames
<1>1. a \in Things /\ a \notin Objects
  BY ThingsAssumption DEF Things
<1>2. ASSUME NEW part
      PROVE  LET row == Row(a, part, 0, kNumberOfJoints)
             IN  /\ row \in Seq({a} \X {part} \X Joints)
                 /\ \A j \in Joints : j + 1 \in DOMAIN row /\ row[j + 1] = <<a, part, j>>
  <2> DEFINE row == Row(a, part, 0, kNumberOfJoints)
  <2>0. row \in Seq({a} \X {part} \X Joints)
    BY <1>0, RowTyped
  <2>1. /\ DOMAIN row = 1..kNumberOfJoints
        /\ \A i \in 1..kNumberOfJoints : row[i] = <<a, part, 0 + i - 1>>
    BY DEF Row
  <2> HIDE DEF row
  <2>2. ASSUME NEW j \in Joints PROVE j + 1 \in DOMAIN row /\ row[j + 1] = <<a, part, j>>
    <3>1. j + 1 \in DOMAIN row /\ row[j + 1] = <<a, part, 0 + (j + 1) - 1>>
      BY <1>0, <2>1
    <3> QED  BY <1>0, <3>1
  <2> QED  BY <2>0, <2>2 DEF row
<1>3. ASSUME NEW part
      PROVE  LET row == Row(a, part, 0, kNumberOfJoints + 2)
             IN  \A f \in Frames : f + 1 \in DOMAIN row /\ row[f + 1] = <<a, part, f>>
  <2> DEFINE row == Row(a, part, 0, kNumberOfJoints + 2)
  <2>1. /\ DOMAIN row = 1..(kNumberOfJoints + 2)
        /\ \A i \in 1..(kNumberOfJoints + 2) : row[i] = <<a, part, 0 + i - 1>>
    BY DEF Row
  <2> HIDE DEF row
  <2>2. ASSUME NEW f \in Frames PROVE f + 1 \in DOMAIN row /\ row[f + 1] = <<a, part, f>>
    <3>1. f + 1 \in DOMAIN row /\ row[f + 1] = <<a, part, 0 + (f + 1) - 1>>
      BY <1>0, <2>1
    <3> QED  BY <1>0, <3>1
  <2> QED  BY <2>2 DEF row
<1>4. ASSUME NEW X, NEW s \in Seq(X), NEW t \in Seq(X), NEW k \in DOMAIN s
      PROVE  k \in DOMAIN (s \o t) /\ (s \o t)[k] = s[k]
  <2>1. k \in 1..Len(s) /\ Len(s) \in Nat /\ Len(t) \in Nat
    OBVIOUS
  <2>2. s \o t \in Seq(X) /\ Len(s \o t) = Len(s) + Len(t) /\ (s \o t)[k] = s[k]
    BY <2>1, TwoJoined
  <2> QED  BY <2>1, <2>2
<1> DEFINE joints == Row(a, "joint", 0, kNumberOfJoints)
           fingers == IF a \in Grippers THEN Row(a, "finger_joint", 1, 2) ELSE <<>>
           trq == Row(a, "act_trq", 0, kNumberOfJoints)
           pos == Row(a, "act_pos", 0, kNumberOfJoints)
           vel == Row(a, "act_vel", 0, kNumberOfJoints)
<1>5. JointsOf[a] = joints \o fingers /\ ActuatorsOf[a] = (trq \o pos) \o vel
  BY <1>1 DEF JointsOf, ActuatorsOf
<1>6. joints \in Seq({a} \X {"joint", "finger_joint"} \X Nat)
  <2>1. {a} \X {"joint"} \X Joints \subseteq {a} \X {"joint", "finger_joint"} \X Nat
    BY DEF Joints
  <2>2. joints \in Seq({a} \X {"joint"} \X Joints)
    BY <1>2
  <2> HIDE DEF joints
  <2> QED  BY <2>1, <2>2, WiderSequences
<1>7. fingers \in Seq({a} \X {"joint", "finger_joint"} \X Nat)
  <2>1. {a} \X {"finger_joint"} \X (1..2) \subseteq {a} \X {"joint", "finger_joint"} \X Nat
    OBVIOUS
  <2>2. Row(a, "finger_joint", 1, 2) \in Seq({a} \X {"finger_joint"} \X (1..2))
    BY <1>0, RowTyped
  <2> QED  BY <2>1, <2>2, WiderSequences
<1>8. ASSUME NEW part \in {"act_trq", "act_pos", "act_vel"}
      PROVE  Row(a, part, 0, kNumberOfJoints) \in Seq({a} \X {"act_trq", "act_pos", "act_vel"} \X Joints)
  <2>1. {a} \X {part} \X Joints \subseteq {a} \X {"act_trq", "act_pos", "act_vel"} \X Joints
    OBVIOUS
  <2>2. Row(a, part, 0, kNumberOfJoints) \in Seq({a} \X {part} \X Joints)
    BY <1>2
  <2> QED  BY <2>1, <2>2, WiderSequences
<1>9. /\ trq \in Seq({a} \X {"act_trq", "act_pos", "act_vel"} \X Joints)
      /\ pos \in Seq({a} \X {"act_trq", "act_pos", "act_vel"} \X Joints)
      /\ vel \in Seq({a} \X {"act_trq", "act_pos", "act_vel"} \X Joints)
  BY <1>8
<1>10. /\ \A j \in Joints : j + 1 \in DOMAIN joints /\ joints[j + 1] = <<a, "joint", j>>
       /\ \A j \in Joints : j + 1 \in DOMAIN trq /\ trq[j + 1] = <<a, "act_trq", j>>
  BY <1>2
<1> HIDE DEF joints, fingers, trq, pos, vel
<1>11. ASSUME NEW j \in Joints
       PROVE  j + 1 \in DOMAIN JointsOf[a] /\ JointsOf[a][j + 1] = <<a, "joint", j>>
  BY <1>4, <1>5, <1>6, <1>7, <1>10
<1>12. ASSUME NEW j \in Joints
       PROVE  j + 1 \in DOMAIN ActuatorsOf[a] /\ ActuatorsOf[a][j + 1] = <<a, "act_trq", j>>
  <2>1. trq \o pos \in Seq({a} \X {"act_trq", "act_pos", "act_vel"} \X Joints)
    BY <1>9, TwoJoined
  <2>2. j + 1 \in DOMAIN (trq \o pos) /\ (trq \o pos)[j + 1] = <<a, "act_trq", j>>
    BY <1>4, <1>9, <1>10
  <2> QED  BY <1>4, <1>5, <1>9, <2>1, <2>2
<1>13. LinksOf[a] = Row(a, "link", 0, kNumberOfJoints + 2)
       /\ SitesOf[a] = Row(a, "site", 0, kNumberOfJoints + 2)
  BY <1>1 DEF LinksOf, SitesOf
<1>14. /\ \A f \in Frames : f + 1 \in DOMAIN LinksOf[a] /\ LinksOf[a][f + 1] = <<a, "link", f>>
       /\ \A f \in Frames : f + 1 \in DOMAIN SitesOf[a] /\ SitesOf[a][f + 1] = <<a, "site", f>>
  BY <1>3, <1>13
<1> QED  BY <1>1, <1>11, <1>12, <1>14
-----------------------------------------------------------------------------
(* Names and addresses                                                     *)

LEMMA AllOf ==
  ASSUME NEW X, NEW of \in [Things -> Seq(X)], NEW layout \in Seq(Things)
  PROVE  /\ All(of, layout) \in Seq(X)
         /\ \A thing \in ToSet(layout) : \A r \in DOMAIN of[thing] :
              of[thing][r] \in ToSet(All(of, layout))
<1> DEFINE seqs == [i \in DOMAIN layout |-> of[layout[i]]]
<1>1. \A i \in DOMAIN layout : layout[i] \in Things
  OBVIOUS
<1>2. seqs \in Seq(Seq(X)) /\ DOMAIN seqs = DOMAIN layout
  <2> DEFINE n == Len(layout)
  <2>1. DOMAIN layout = 1..n /\ n \in Nat
    OBVIOUS
  <2> HIDE DEF n
  <2>2. seqs = [i \in 1..n |-> of[layout[i]]] /\ \A i \in 1..n : of[layout[i]] \in Seq(X)
    BY <1>1, <2>1
  <2> HIDE DEF seqs
  <2> QED  BY <2>1, <2>2
<1>3. \A i \in DOMAIN layout : seqs[i] = of[layout[i]]
  OBVIOUS
<1>4. All(of, layout) = FlattenSeq(seqs)
  BY DEF All
<1> HIDE DEF seqs
<1>5. All(of, layout) \in Seq(X)
  BY <1>2, <1>4, FlattenSeqTyped
<1>6. ASSUME NEW thing \in ToSet(layout), NEW r \in DOMAIN of[thing]
      PROVE  of[thing][r] \in ToSet(All(of, layout))
  <2>1. PICK i \in DOMAIN layout : layout[i] = thing
    BY DEF ToSet
  <2>2. i \in DOMAIN seqs /\ r \in DOMAIN seqs[i] /\ seqs[i][r] = of[thing][r]
    BY <1>2, <1>3, <2>1
  <2> DEFINE at == Sums(Lengths(seqs))[i - 1] + r
  <2>3. at \in DOMAIN FlattenSeq(seqs) /\ FlattenSeq(seqs)[at] = seqs[i][r]
    BY <1>2, <2>2, FlattenedAt
  <2> HIDE DEF at
  <2> QED  BY <1>4, <2>2, <2>3 DEF ToSet
<1> QED  BY <1>5, <1>6

(* The lists of names of a scene, and what they hold of an arm.            *)
LEMMA ListsOfScene ==
  ASSUME NEW layout \in Layouts
  PROVE  LET m == mjModel(layout)
         IN  /\ m.joints \in Seq(JointNames) /\ m.sites \in Seq(SiteNames)
             /\ m.actuators \in Seq(ActuatorNames) /\ m.bodies \in Seq(BodyNames)
             /\ \A a \in Arms, j \in Joints : /\ <<a, "joint", j>> \in ToSet(m.joints)
                                          /\ <<a, "act_trq", j>> \in ToSet(m.actuators)
             /\ \A a \in Arms, f \in Frames : /\ <<a, "link", f>> \in ToSet(m.bodies)
                                          /\ <<a, "site", f>> \in ToSet(m.sites)
<1> DEFINE m == mjModel(layout)
<1>1. layout \in Seq(Things) /\ Arms \subseteq ToSet(layout)
  BY LayoutsAssumption
<1>2. /\ m.joints = All(JointsOf, layout) /\ m.sites = All(SitesOf, layout)
      /\ m.actuators = All(ActuatorsOf, layout)
      /\ m.bodies = Row(World, "body", 0, 1) \o All(LinksOf, layout)
  BY DEF mjModel
<1> HIDE DEF m
<1>3. /\ All(JointsOf, layout) \in Seq(JointNames) /\ All(SitesOf, layout) \in Seq(SiteNames)
      /\ All(ActuatorsOf, layout) \in Seq(ActuatorNames) /\ All(LinksOf, layout) \in Seq(BodyNames)
  BY <1>1, PartsAreNamed, AllOf
<1>4. Row(World, "body", 0, 1) \in Seq(BodyNames)
  <2>1. Row(World, "body", 0, 1) \in Seq({World} \X {"body"} \X {0})
    <3>1. \A i \in 1..1 : 0 + i - 1 \in {0}
      OBVIOUS
    <3> QED  BY <3>1, RowTyped
  <2>2. {World} \X {"body"} \X {0} \subseteq BodyNames
    BY DEF BodyNames
  <2> QED  BY <2>1, <2>2, WiderSequences
<1>5. m.bodies \in Seq(BodyNames)
  BY <1>2, <1>3, <1>4, TwoJoined
<1>6. ASSUME NEW name \in ToSet(All(LinksOf, layout)) PROVE name \in ToSet(m.bodies)
  <2> DEFINE s == Row(World, "body", 0, 1)
             t == All(LinksOf, layout)
  <2>1. PICK i \in DOMAIN t : t[i] = name
    BY DEF ToSet
  <2>2. s \in Seq(BodyNames) /\ t \in Seq(BodyNames) /\ m.bodies = s \o t
    BY <1>2, <1>3, <1>4
  <2> HIDE DEF s, t
  <2>3. i \in 1..Len(t) /\ Len(s) \in Nat /\ Len(t) \in Nat
    BY <2>2
  <2>4. (s \o t)[Len(s) + i] = name /\ Len(s \o t) = Len(s) + Len(t)
    BY <2>1, <2>2, <2>3, TwoJoined
  <2>5. Len(s) + i \in DOMAIN m.bodies
    BY <1>5, <2>2, <2>3, <2>4
  <2> QED  BY <2>2, <2>4, <2>5 DEF ToSet
<1>7. ASSUME NEW a \in Arms, NEW j \in Joints
      PROVE  <<a, "joint", j>> \in ToSet(m.joints) /\ <<a, "act_trq", j>> \in ToSet(m.actuators)
  <2>1. /\ j + 1 \in DOMAIN JointsOf[a] /\ JointsOf[a][j + 1] = <<a, "joint", j>>
        /\ j + 1 \in DOMAIN ActuatorsOf[a] /\ ActuatorsOf[a][j + 1] = <<a, "act_trq", j>>
    BY PartsOfArm
  <2>2. /\ JointsOf[a][j + 1] \in ToSet(All(JointsOf, layout))
        /\ ActuatorsOf[a][j + 1] \in ToSet(All(ActuatorsOf, layout))
    BY <1>1, <2>1, PartsAreNamed, AllOf
  <2> QED  BY <1>2, <2>1, <2>2
<1>8. ASSUME NEW a \in Arms, NEW f \in Frames
      PROVE  <<a, "link", f>> \in ToSet(m.bodies) /\ <<a, "site", f>> \in ToSet(m.sites)
  <2>1. /\ f + 1 \in DOMAIN LinksOf[a] /\ LinksOf[a][f + 1] = <<a, "link", f>>
        /\ f + 1 \in DOMAIN SitesOf[a] /\ SitesOf[a][f + 1] = <<a, "site", f>>
    BY PartsOfArm
  <2>2. /\ LinksOf[a][f + 1] \in ToSet(All(LinksOf, layout))
        /\ SitesOf[a][f + 1] \in ToSet(All(SitesOf, layout))
    BY <1>1, <2>1, PartsAreNamed, AllOf
  <2> QED  BY <1>2, <1>6, <2>1, <2>2
<1> QED  BY <1>2, <1>3, <1>5, <1>7, <1>8 DEF m

(* A name that is there is found where it is.                              *)
LEMMA IdOfName ==
  ASSUME NEW X, NEW list \in Seq(X), NEW name \in ToSet(list)
  PROVE  LET id == mj_name2id(list, name)
         IN  id \in Nat /\ id + 1 \in DOMAIN list /\ list[id + 1] = name
<1> DEFINE i == CHOOSE k \in DOMAIN list : list[k] = name
<1>1. i \in DOMAIN list /\ list[i] = name
  BY DEF ToSet
<1>2. mj_name2id(list, name) = i - 1
  BY DEF mj_name2id
<1> HIDE DEF i
<1>3. i \in Nat /\ i # 0
  BY <1>1
<1>4. i - 1 \in Nat /\ (i - 1) + 1 = i
  BY <1>3
<1> QED  BY <1>1, <1>2, <1>4

(* The address of a joint, of which the joints before it have taken n      *)
(* entries each, is that of its first entry.                               *)
Address(joints, n, id) == SumOf([i \in 0..(id - 1) |-> n[joints[i + 1]]])

LEMMA AddressOfJoint ==
  ASSUME NEW X, NEW joints \in Seq(X), NEW most \in Nat,
         NEW n, \A i \in DOMAIN joints : n[joints[i]] \in 1..most,
         NEW id \in Nat, id + 1 \in DOMAIN joints
  PROVE  LET at == Address(joints, n, id) + 1
         IN  /\ at \in DOMAIN Entries(joints, n)
             /\ Entries(joints, n)[at] = <<joints[id + 1], 1>>
<1> DEFINE seqs == [i \in DOMAIN joints |-> [k \in 1..n[joints[i]] |-> <<joints[i], k>>]]
           N == Len(joints)
           v == [i \in 0..(N - 1) |-> n[joints[i + 1]]]
<1>1. /\ N \in Nat /\ DOMAIN joints = 1..N /\ id \in 0..N /\ id + 1 \in 1..N
      /\ \A i \in 0..(N - 1) : i + 1 \in DOMAIN joints
  OBVIOUS
<1>2. ASSUME NEW i \in DOMAIN joints
      PROVE  seqs[i] \in Seq(X \X (1..most)) /\ Len(seqs[i]) = n[joints[i]]
  <2>1. seqs[i] = [k \in 1..n[joints[i]] |-> <<joints[i], k>>]
    OBVIOUS
  <2>2. n[joints[i]] \in Nat /\ n[joints[i]] <= most /\ joints[i] \in X
    OBVIOUS
  <2> HIDE DEF seqs
  <2>3. \A k \in 1..n[joints[i]] : k \in 1..most
    BY <2>2
  <2>4. \A k \in 1..n[joints[i]] : <<joints[i], k>> \in X \X (1..most)
    BY <2>2, <2>3
  <2> DEFINE c == n[joints[i]]
  <2>5. seqs[i] = [k \in 1..c |-> <<joints[i], k>>] /\ c \in Nat
    BY <2>1, <2>2
  <2>6. \A k \in 1..c : <<joints[i], k>> \in X \X (1..most)
    BY <2>4
  <2> HIDE DEF c
  <2>7. seqs[i] \in Seq(X \X (1..most)) /\ Len(seqs[i]) = c
    BY <2>5, <2>6
  <2> QED  BY <2>7 DEF c
<1>3. seqs \in Seq(Seq(X \X (1..most))) /\ DOMAIN seqs = DOMAIN joints /\ Len(seqs) = N
  <2>1. seqs = [i \in 1..N |-> seqs[i]]
    BY <1>1
  <2> HIDE DEF seqs
  <2> QED  BY <1>1, <1>2, <2>1
<1>4. v \in Vectors(N) /\ \A i \in 0..(N - 1) : v[i] = n[joints[i + 1]]
  <2>1. \A i \in 0..(N - 1) : n[joints[i + 1]] \in Int
    BY <1>1
  <2> QED  BY <2>1 DEF Vectors
<1>5. Lengths(seqs) = v
  <2> HIDE DEF seqs, N
  <2> QED  BY <1>1, <1>2, <1>3 DEF Lengths
<1>6. Address(joints, n, id) = Sums(v)[id]
  <2>1. \A i \in 0..(id - 1) : i \in 0..(N - 1)
    BY <1>1
  <2>2. [i \in 0..(id - 1) |-> n[joints[i + 1]]] = [i \in 0..(id - 1) |-> v[i]]
    BY <1>4, <2>1
  <2> HIDE DEF v, N
  <2>3. SumOf([i \in 0..(id - 1) |-> v[i]]) = Sums(v)[id]
    BY <1>1, <1>4, SumOfFirst
  <2> QED  BY <2>2, <2>3 DEF Address
<1>7. 1 \in DOMAIN seqs[id + 1] /\ seqs[id + 1][1] = <<joints[id + 1], 1>>
  <2>1. 1 \in 1..n[joints[id + 1]]
    OBVIOUS
  <2> QED  BY <2>1
<1>8. Entries(joints, n) = FlattenSeq(seqs)
  BY DEF Entries
<1> HIDE DEF seqs, v, N
<1>9. LET at == Sums(Lengths(seqs))[(id + 1) - 1] + 1
      IN  at \in DOMAIN FlattenSeq(seqs) /\ FlattenSeq(seqs)[at] = seqs[id + 1][1]
  <2>1. id + 1 \in DOMAIN seqs
    BY <1>3
  <2> DEFINE k == id + 1
             Y == Seq(X \X (1..most))
  <2>2. k \in DOMAIN seqs /\ 1 \in DOMAIN seqs[k] /\ seqs \in Seq(Y)
    BY <1>3, <1>7, <2>1
  <2> HIDE DEF k
  <2>3. LET at == Sums(Lengths(seqs))[k - 1] + 1
        IN  at \in DOMAIN FlattenSeq(seqs) /\ FlattenSeq(seqs)[at] = seqs[k][1]
    BY ONLY <2>2, FlattenedAt
  <2> QED  BY <2>3 DEF k
<1>10. (id + 1) - 1 = id
  OBVIOUS
<1> QED  BY <1>5, <1>6, <1>7, <1>8, <1>9, <1>10
(* The indices of an arm are those of its own parts.                       *)
IsAt(list, at, name) == at \in DOMAIN list /\ list[at] = name

LEMMA IndicesOfArm ==
  ASSUME NEW layout \in Layouts, NEW a \in Arms
  PROVE  LET m == mjModel(layout)
             idx == indices(m, a)
         IN  /\ \A j \in Joints : /\ IsAt(Entries(m.joints, m.nq), idx.qpos[j] + 1, Dof(a, j))
                               /\ IsAt(Entries(m.joints, m.nv), idx.qvel[j] + 1, Dof(a, j))
                               /\ IsAt(m.actuators, idx.act_trq[j] + 1, <<a, "act_trq", j>>)
             /\ \A f \in Frames : /\ IsAt(m.bodies, idx.link[f] + 1, <<a, "link", f>>)
                               /\ IsAt(m.sites, idx.site[f] + 1, <<a, "site", f>>)
<1> DEFINE m == mjModel(layout)
           idx == indices(m, a)
<1>1. /\ m.joints \in Seq(JointNames) /\ m.sites \in Seq(SiteNames)
      /\ m.actuators \in Seq(ActuatorNames) /\ m.bodies \in Seq(BodyNames)
      /\ \A j \in Joints : <<a, "joint", j>> \in ToSet(m.joints)
      /\ \A j \in Joints : <<a, "act_trq", j>> \in ToSet(m.actuators)
      /\ \A f \in Frames : <<a, "link", f>> \in ToSet(m.bodies)
      /\ \A f \in Frames : <<a, "site", f>> \in ToSet(m.sites)
  <2>1. /\ m.joints \in Seq(JointNames) /\ m.sites \in Seq(SiteNames)
        /\ m.actuators \in Seq(ActuatorNames) /\ m.bodies \in Seq(BodyNames)
    BY ListsOfScene
  <2>2. ASSUME NEW j \in Joints
        PROVE  <<a, "joint", j>> \in ToSet(m.joints) /\ <<a, "act_trq", j>> \in ToSet(m.actuators)
    BY ListsOfScene
  <2>3. ASSUME NEW f \in Frames
        PROVE  <<a, "link", f>> \in ToSet(m.bodies) /\ <<a, "site", f>> \in ToSet(m.sites)
    BY ListsOfScene
  <2> QED  BY <2>1, <2>2, <2>3
<1>2. /\ m.nq = [j \in ToSet(m.joints) |-> nq(j)] /\ m.nv = [j \in ToSet(m.joints) |-> nv(j)]
  BY DEF mjModel
<1> HIDE DEF m
<1>3. /\ \A j \in Joints : LET id == mj_name2id(m.joints, <<a, "joint", j>>)
                        IN  /\ idx.qpos[j] = jnt_qposadr(m, id) /\ idx.qvel[j] = jnt_dofadr(m, id)
                            /\ idx.act_trq[j] = mj_name2id(m.actuators, <<a, "act_trq", j>>)
      /\ \A f \in Frames : /\ idx.link[f] = mj_name2id(m.bodies, <<a, "link", f>>)
                        /\ idx.site[f] = mj_name2id(m.sites, <<a, "site", f>>)
  BY DEF indices, Addresses, Ids
<1> HIDE DEF idx
<1>4. ASSUME NEW j \in Joints
      PROVE  /\ IsAt(Entries(m.joints, m.nq), idx.qpos[j] + 1, Dof(a, j))
             /\ IsAt(Entries(m.joints, m.nv), idx.qvel[j] + 1, Dof(a, j))
  <2> DEFINE name == <<a, "joint", j>>
             id == mj_name2id(m.joints, name)
  <2>1. name \in ToSet(m.joints)
    BY <1>1
  <2>2. id \in Nat /\ id + 1 \in DOMAIN m.joints /\ m.joints[id + 1] = name
    BY <1>1, <2>1, IdOfName
  <2>3. \A i \in DOMAIN m.joints : m.nq[m.joints[i]] \in 1..7 /\ m.nv[m.joints[i]] \in 1..7
    BY <1>2 DEF nq, nv, ToSet
  <2>4. Dof(a, j) = <<name, 1>>
    BY DEF Dof
  <2>5. /\ idx.qpos[j] = Address(m.joints, m.nq, id)
        /\ idx.qvel[j] = Address(m.joints, m.nv, id)
    BY <1>3 DEF Address, jnt_qposadr, jnt_dofadr
  <2> HIDE DEF id, name
  <2>6. ASSUME NEW n, \A i \in DOMAIN m.joints : n[m.joints[i]] \in 1..7
        PROVE  LET at == Address(m.joints, n, id) + 1
               IN  /\ at \in DOMAIN Entries(m.joints, n)
                   /\ Entries(m.joints, n)[at] = <<m.joints[id + 1], 1>>
    <3> DEFINE joints == m.joints
    <3>1. /\ joints \in Seq(JointNames) /\ \A i \in DOMAIN joints : n[joints[i]] \in 1..7
          /\ id \in Nat /\ id + 1 \in DOMAIN joints /\ 7 \in Nat
      BY <1>1, <2>2, <2>6
    <3> HIDE DEF joints
    <3>2. LET at == Address(joints, n, id) + 1
          IN  at \in DOMAIN Entries(joints, n) /\ Entries(joints, n)[at] = <<joints[id + 1], 1>>
      BY ONLY <3>1, AddressOfJoint
    <3> QED  BY <3>2 DEF joints
  <2>7. \A n \in {m.nq, m.nv} :
          LET at == Address(m.joints, n, id) + 1
          IN  /\ at \in DOMAIN Entries(m.joints, n)
              /\ Entries(m.joints, n)[at] = <<m.joints[id + 1], 1>>
    BY <2>3, <2>6
  <2> QED  BY <2>2, <2>4, <2>5, <2>6, <2>7 DEF IsAt
<1>5. ASSUME NEW j \in Joints PROVE IsAt(m.actuators, idx.act_trq[j] + 1, <<a, "act_trq", j>>)
  <2> DEFINE name == <<a, "act_trq", j>>
             list == m.actuators
  <2>1. list \in Seq(ActuatorNames) /\ name \in ToSet(list) /\ idx.act_trq[j] = mj_name2id(list, name)
    BY <1>1, <1>3
  <2> HIDE DEF name, list
  <2>2. mj_name2id(list, name) + 1 \in DOMAIN list /\ list[mj_name2id(list, name) + 1] = name
    BY ONLY <2>1, IdOfName
  <2> QED  BY <2>1, <2>2 DEF IsAt, name, list
<1>6. ASSUME NEW f \in Frames
      PROVE  /\ IsAt(m.bodies, idx.link[f] + 1, <<a, "link", f>>)
             /\ IsAt(m.sites, idx.site[f] + 1, <<a, "site", f>>)
  <2> DEFINE link == <<a, "link", f>>
             site == <<a, "site", f>>
  <2>1. /\ link \in ToSet(m.bodies) /\ site \in ToSet(m.sites)
        /\ idx.link[f] = mj_name2id(m.bodies, link) /\ idx.site[f] = mj_name2id(m.sites, site)
        /\ m.bodies \in Seq(BodyNames) /\ m.sites \in Seq(SiteNames)
    BY <1>1, <1>3
  <2> HIDE DEF link, site
  <2>2. IsAt(m.bodies, idx.link[f] + 1, link)
    BY <2>1, IdOfName DEF IsAt
  <2>3. IsAt(m.sites, idx.site[f] + 1, site)
    BY <2>1, IdOfName DEF IsAt
  <2> QED  BY <2>2, <2>3 DEF link, site
<1> QED  BY <1>4, <1>5, <1>6 DEF idx, m

LEMMA LaidOut ==
  ASSUME NEW list, NEW at, NEW name, IsAt(list, at, name), NEW f
  PROVE  [i \in DOMAIN list |-> f[list[i]]][at] = f[name]
BY DEF IsAt

(* What the arrays hold there is what is the case with the arm.            *)
LEMMA DataOfArm ==
  ASSUME NEW layout \in Layouts, NEW fact \in Facts, NEW a \in Arms
  PROVE  LET m == mjModel(layout)
             d == mjData(m, fact)
             idx == indices(m, a)
         IN  /\ \A j \in Joints :
                  /\ d.qpos[idx.qpos[j] + 1] = fact.qpos[Dof(a, j)]
                  /\ d.qvel[idx.qvel[j] + 1] = fact.qvel[Dof(a, j)]
                  /\ d.qfrc_applied[idx.qvel[j] + 1] = fact.applied[Dof(a, j)]
                  /\ d.qfrc_gravcomp[idx.qvel[j] + 1] = fact.gravity[Dof(a, j)]
                  /\ d.qfrc_bias[idx.qvel[j] + 1] = fact.gravity[Dof(a, j)] + fact.coriolis[Dof(a, j)]
                  /\ d.actuator_force[idx.act_trq[j] + 1] = fact.force[<<a, "act_trq", j>>]
             /\ \A i, j \in Joints :
                  d.M[idx.qvel[i] + 1][idx.qvel[j] + 1] = fact.inertia[<<Dof(a, i), Dof(a, j)>>]
             /\ \A f \in Frames : /\ d.body[idx.link[f] + 1] = fact.pose[Link(a, f)]
                               /\ d.site[idx.site[f] + 1] = fact.pose[<<a, "site", f>>]
             /\ \A f \in Frames, j \in Joints, r \in 0..2 :
                  /\ d.jacp[idx.site[f] + 1][r][idx.qvel[j] + 1]
                       = fact.slope[<<a, "site", f>>][r][Dof(a, j)]
                  /\ d.jacr[idx.site[f] + 1][r][idx.qvel[j] + 1]
                       = fact.slope[<<a, "site", f>>][3 + r][Dof(a, j)]
<1> DEFINE m == mjModel(layout)
           d == mjData(m, fact)
           idx == indices(m, a)
           coordinates == Entries(m.joints, m.nq)
           dofs == Entries(m.joints, m.nv)
           OfDofs(f) == [i \in DOMAIN dofs |-> f[dofs[i]]]
           Slopes(site, first) == [r \in 0..2 |-> OfDofs(fact.slope[site][first + r])]
<1>1. /\ \A j \in Joints : /\ IsAt(coordinates, idx.qpos[j] + 1, Dof(a, j))
                        /\ IsAt(dofs, idx.qvel[j] + 1, Dof(a, j))
                        /\ IsAt(m.actuators, idx.act_trq[j] + 1, <<a, "act_trq", j>>)
      /\ \A f \in Frames : /\ IsAt(m.bodies, idx.link[f] + 1, <<a, "link", f>>)
                        /\ IsAt(m.sites, idx.site[f] + 1, <<a, "site", f>>)
  BY IndicesOfArm
<1> HIDE DEF idx, m, coordinates, dofs
<1>2. /\ d.qpos = [i \in DOMAIN coordinates |-> fact.qpos[coordinates[i]]]
      /\ d.qvel = OfDofs(fact.qvel) /\ d.qfrc_applied = OfDofs(fact.applied)
      /\ d.qfrc_gravcomp = OfDofs(fact.gravity)
      /\ d.qfrc_bias = [i \in DOMAIN dofs |-> fact.gravity[dofs[i]] + fact.coriolis[dofs[i]]]
      /\ d.M = [i \in DOMAIN dofs |-> [j \in DOMAIN dofs |-> fact.inertia[<<dofs[i], dofs[j]>>]]]
      /\ d.actuator_force = [i \in DOMAIN m.actuators |-> fact.force[m.actuators[i]]]
      /\ d.body = [i \in DOMAIN m.bodies |-> fact.pose[m.bodies[i]]]
      /\ d.site = [i \in DOMAIN m.sites |-> fact.pose[m.sites[i]]]
      /\ d.jacp = [i \in DOMAIN m.sites |-> Slopes(m.sites[i], 0)]
      /\ d.jacr = [i \in DOMAIN m.sites |-> Slopes(m.sites[i], 3)]
  BY DEF mjData, coordinates, dofs
<1> HIDE DEF d
<1>3. ASSUME NEW j \in Joints
      PROVE  /\ d.qpos[idx.qpos[j] + 1] = fact.qpos[Dof(a, j)]
             /\ d.qvel[idx.qvel[j] + 1] = fact.qvel[Dof(a, j)]
             /\ d.qfrc_applied[idx.qvel[j] + 1] = fact.applied[Dof(a, j)]
             /\ d.qfrc_gravcomp[idx.qvel[j] + 1] = fact.gravity[Dof(a, j)]
             /\ d.qfrc_bias[idx.qvel[j] + 1] = fact.gravity[Dof(a, j)] + fact.coriolis[Dof(a, j)]
             /\ d.actuator_force[idx.act_trq[j] + 1] = fact.force[<<a, "act_trq", j>>]
  <2>1. /\ IsAt(coordinates, idx.qpos[j] + 1, Dof(a, j)) /\ IsAt(dofs, idx.qvel[j] + 1, Dof(a, j))
        /\ IsAt(m.actuators, idx.act_trq[j] + 1, <<a, "act_trq", j>>)
    BY <1>1
  <2>2. /\ d.qpos[idx.qpos[j] + 1] = fact.qpos[Dof(a, j)]
        /\ d.actuator_force[idx.act_trq[j] + 1] = fact.force[<<a, "act_trq", j>>]
    <3>1. /\ d.qpos = [i \in DOMAIN coordinates |-> fact.qpos[coordinates[i]]]
          /\ d.actuator_force = [i \in DOMAIN m.actuators |-> fact.force[m.actuators[i]]]
      BY <1>2
    <3> QED  BY <2>1, <3>1, LaidOut
  <2>3. ASSUME NEW f PROVE OfDofs(f)[idx.qvel[j] + 1] = f[Dof(a, j)]
    BY <2>1, LaidOut
  <2>4. /\ d.qvel[idx.qvel[j] + 1] = fact.qvel[Dof(a, j)]
        /\ d.qfrc_applied[idx.qvel[j] + 1] = fact.applied[Dof(a, j)]
        /\ d.qfrc_gravcomp[idx.qvel[j] + 1] = fact.gravity[Dof(a, j)]
    <3> HIDE DEF OfDofs
    <3> QED  BY <1>2, <2>3
  <2>5. d.qfrc_bias[idx.qvel[j] + 1] = fact.gravity[Dof(a, j)] + fact.coriolis[Dof(a, j)]
    <3>1. idx.qvel[j] + 1 \in DOMAIN dofs /\ dofs[idx.qvel[j] + 1] = Dof(a, j)
      BY <2>1 DEF IsAt
    <3>2. d.qfrc_bias = [i \in DOMAIN dofs |-> fact.gravity[dofs[i]] + fact.coriolis[dofs[i]]]
      BY <1>2
    <3> QED  BY <3>1, <3>2
  <2> QED  BY <2>2, <2>4, <2>5
<1>4. ASSUME NEW i \in Joints, NEW j \in Joints
      PROVE  d.M[idx.qvel[i] + 1][idx.qvel[j] + 1] = fact.inertia[<<Dof(a, i), Dof(a, j)>>]
  <2>1. /\ idx.qvel[i] + 1 \in DOMAIN dofs /\ dofs[idx.qvel[i] + 1] = Dof(a, i)
        /\ idx.qvel[j] + 1 \in DOMAIN dofs /\ dofs[idx.qvel[j] + 1] = Dof(a, j)
    BY <1>1 DEF IsAt
  <2>2. d.M = [k \in DOMAIN dofs |-> [l \in DOMAIN dofs |-> fact.inertia[<<dofs[k], dofs[l]>>]]]
    BY <1>2
  <2> QED  BY <2>1, <2>2
<1>5. ASSUME NEW f \in Frames
      PROVE  /\ d.body[idx.link[f] + 1] = fact.pose[Link(a, f)]
             /\ d.site[idx.site[f] + 1] = fact.pose[<<a, "site", f>>]
  <2>1. /\ IsAt(m.bodies, idx.link[f] + 1, <<a, "link", f>>)
        /\ IsAt(m.sites, idx.site[f] + 1, <<a, "site", f>>)
    BY <1>1
  <2>2. /\ d.body = [i \in DOMAIN m.bodies |-> fact.pose[m.bodies[i]]]
        /\ d.site = [i \in DOMAIN m.sites |-> fact.pose[m.sites[i]]]
    BY <1>2
  <2> QED  BY <2>1, <2>2 DEF Link, IsAt
<1>6. ASSUME NEW f \in Frames, NEW j \in Joints, NEW r \in 0..2
      PROVE  /\ d.jacp[idx.site[f] + 1][r][idx.qvel[j] + 1]
                  = fact.slope[<<a, "site", f>>][r][Dof(a, j)]
             /\ d.jacr[idx.site[f] + 1][r][idx.qvel[j] + 1]
                  = fact.slope[<<a, "site", f>>][3 + r][Dof(a, j)]
  <2> DEFINE site == <<a, "site", f>>
             s == idx.site[f] + 1
             at == idx.qvel[j] + 1
  <2>1. s \in DOMAIN m.sites /\ m.sites[s] = site /\ IsAt(dofs, at, Dof(a, j))
    BY <1>1 DEF IsAt
  <2> HIDE DEF site, s, at
  <2>2. d.jacp[s] = Slopes(site, 0) /\ d.jacr[s] = Slopes(site, 3)
    <3> HIDE DEF Slopes
    <3> QED  BY <1>2, <2>1
  <2>3. d.jacp[s][r] = OfDofs(fact.slope[site][r]) /\ d.jacr[s][r] = OfDofs(fact.slope[site][3 + r])
    <3>1. 0 + r = r
      OBVIOUS
    <3> HIDE DEF OfDofs
    <3> QED  BY <2>2, <3>1
  <2>4. ASSUME NEW v PROVE OfDofs(v)[at] = v[Dof(a, j)]
    BY <2>1, LaidOut
  <2> HIDE DEF OfDofs
  <2>5. d.jacp[s][r][at] = fact.slope[site][r][Dof(a, j)]
        /\ d.jacr[s][r][at] = fact.slope[site][3 + r][Dof(a, j)]
    BY <2>3, <2>4
  <2> QED  BY <2>5 DEF site, s, at
<1> QED  BY <1>3, <1>4, <1>5, <1>6 DEF d, idx, m
-----------------------------------------------------------------------------
(* The state and the model of an arm                                       *)

LEMMA StateIsOwn == OwnState
<1> SUFFICES ASSUME NEW layout \in Layouts, NEW fact \in Facts, NEW a \in Arms, NEW j \in Joints
             PROVE  LET m == mjModel(layout)
                        state == populateFrankaState(mjData(m, fact), indices(m, a))
                    IN  /\ state.q[j] = fact.qpos[Dof(a, j)] /\ state.dq[j] = fact.qvel[Dof(a, j)]
                        /\ state.tau_J[j] = fact.force[<<a, "act_trq", j>>] + fact.gravity[Dof(a, j)]
                        /\ state.tau_ext_hat_filtered[j] = fact.applied[Dof(a, j)]
  BY DEF OwnState
<1> DEFINE m == mjModel(layout)
           d == mjData(m, fact)
           idx == indices(m, a)
<1>1. /\ d.qpos[idx.qpos[j] + 1] = fact.qpos[Dof(a, j)]
      /\ d.qvel[idx.qvel[j] + 1] = fact.qvel[Dof(a, j)]
      /\ d.qfrc_applied[idx.qvel[j] + 1] = fact.applied[Dof(a, j)]
      /\ d.qfrc_gravcomp[idx.qvel[j] + 1] = fact.gravity[Dof(a, j)]
      /\ d.actuator_force[idx.act_trq[j] + 1] = fact.force[<<a, "act_trq", j>>]
  BY DataOfArm, ZenonT(40)
<1> HIDE DEF d, idx, m
<1>2. LET state == populateFrankaState(d, idx)
      IN  /\ state.q = [i \in Joints |-> d.qpos[idx.qpos[i] + 1]]
          /\ state.dq = [i \in Joints |-> d.qvel[idx.qvel[i] + 1]]
          /\ state.tau_J = [i \in Joints |-> d.actuator_force[idx.act_trq[i] + 1]
                                              + d.qfrc_gravcomp[idx.qvel[i] + 1]]
          /\ state.tau_ext_hat_filtered = [i \in Joints |-> d.qfrc_applied[idx.qvel[i] + 1]]
  BY DEF populateFrankaState
<1>3. LET state == populateFrankaState(d, idx)
      IN  /\ state.q[j] = fact.qpos[Dof(a, j)] /\ state.dq[j] = fact.qvel[Dof(a, j)]
          /\ state.tau_J[j] = fact.force[<<a, "act_trq", j>>] + fact.gravity[Dof(a, j)]
          /\ state.tau_ext_hat_filtered[j] = fact.applied[Dof(a, j)]
  BY <1>1, <1>2
<1> QED  BY <1>3 DEF d, idx, m

(* The place of a pair of joints in the array of the inertias.             *)
LEMMA Unfolded ==
  ASSUME NEW n \in Nat \ {0}, NEW i \in Nat, NEW j \in 0..(n - 1)
  PROVE  (i * n + j) \div n = i /\ (i * n + j) % n = j
<1> DEFINE k == i * n + j
           q == k \div n
           r == k % n
<1>1. i * n \in Nat /\ k \in Nat
  OBVIOUS
<1> HIDE DEF k
<1>2. q \in Int /\ r \in 0..(n - 1) /\ k = n * q + r
  BY <1>1
<1> HIDE DEF q, r
<1>3. k = n * i + j
  BY DEF k
<1>4. n * (q - i) = j - r
  <2>1. n * (q - i) = n * q - n * i
    BY <1>2
  <2>2. n * q \in Int /\ n * i \in Int
    BY <1>2
  <2> QED  BY <1>2, <1>3, <2>1, <2>2
<1>5. q = i
  <2>1. ASSUME q - i >= 1 PROVE FALSE
    <3>1. n * (q - i) >= n
      BY <1>2, <2>1
    <3> QED  BY <1>2, <1>4, <3>1
  <2>2. ASSUME q - i <= -1 PROVE FALSE
    <3>1. n * (q - i) <= -n
      BY <1>2, <2>2
    <3> QED  BY <1>2, <1>4, <3>1
  <2> QED  BY <1>2, <2>1, <2>2
<1>6. n * i \in Int
  OBVIOUS
<1>7. r = j
  BY <1>2, <1>3, <1>5, <1>6
<1> QED  BY <1>5, <1>7 DEF q, r, k

LEMMA ModelIsOwn == OwnModel
<1> SUFFICES ASSUME NEW layout \in Layouts, NEW fact \in Facts, NEW a \in Arms,
                    NEW i \in Joints, NEW j \in Joints
             PROVE  LET m == mjModel(layout)
                        d == mjData(m, fact)
                        idx == indices(m, a)
                    IN  /\ massImpl(d, idx)[i * kNumberOfJoints + j]
                             = fact.inertia[<<Dof(a, i), Dof(a, j)>>]
                        /\ coriolisImpl(d, idx)[i] = fact.coriolis[Dof(a, i)]
                        /\ gravityImpl(d, idx)[i] = fact.gravity[Dof(a, i)]
  BY DEF OwnModel
<1> DEFINE m == mjModel(layout)
           d == mjData(m, fact)
           idx == indices(m, a)
           n == kNumberOfJoints
<1>1. /\ d.qfrc_gravcomp[idx.qvel[i] + 1] = fact.gravity[Dof(a, i)]
      /\ d.qfrc_bias[idx.qvel[i] + 1] = fact.gravity[Dof(a, i)] + fact.coriolis[Dof(a, i)]
  <2>1. d.qfrc_gravcomp[idx.qvel[i] + 1] = fact.gravity[Dof(a, i)]
    BY DataOfArm, ZenonT(40)
  <2>2. d.qfrc_bias[idx.qvel[i] + 1] = fact.gravity[Dof(a, i)] + fact.coriolis[Dof(a, i)]
    BY DataOfArm, ZenonT(40)
  <2> QED  BY <2>1, <2>2
<1>2. d.M[idx.qvel[i] + 1][idx.qvel[j] + 1] = fact.inertia[<<Dof(a, i), Dof(a, j)>>]
  BY DataOfArm, ZenonT(40)
<1> HIDE DEF d, idx, m
<1>3. fact.gravity[Dof(a, i)] \in Int /\ fact.coriolis[Dof(a, i)] \in Int
  <2>1. Dof(a, i) \in Dofs
    BY DEF Dof, Dofs, JointNames
  <2> QED  BY <2>1, FactsAssumption DEF IsFact
<1>4. coriolisImpl(d, idx)[i] = fact.coriolis[Dof(a, i)]
  BY <1>1, <1>3 DEF coriolisImpl
<1>5. gravityImpl(d, idx)[i] = fact.gravity[Dof(a, i)]
  BY <1>1 DEF gravityImpl
<1>6. massImpl(d, idx)[i * n + j] = fact.inertia[<<Dof(a, i), Dof(a, j)>>]
  <2>1. n \in Nat \ {0} /\ i \in 0..(n - 1) /\ j \in 0..(n - 1) /\ i \in Nat
    BY JointsAssumption DEF Joints
  <2>2. (i * n + j) \div n = i /\ (i * n + j) % n = j
    BY <2>1, Unfolded
  <2>3. i * n + j \in 0..(n * n - 1)
    <3>1. i * n <= (n - 1) * n /\ i * n >= 0 /\ i * n \in Int
      BY <2>1
    <3>2. (n - 1) * n = n * n - n /\ n * n \in Int
      BY <2>1
    <3> QED  BY <2>1, <3>1, <3>2
  <2> DEFINE k == i * n + j
  <2>4. massImpl(d, idx)[k] = d.M[idx.qvel[k \div n] + 1][idx.qvel[k % n] + 1]
    <3> HIDE DEF k
    <3> QED  BY <2>3 DEF massImpl, k
  <2> QED  BY <1>2, <2>2, <2>4
<1> QED  BY <1>4, <1>5, <1>6 DEF d, idx, m

(* For any scene and whatever is the case in it, the state and the model   *)
(* of an arm are those of its own joints (populateIndices, setIndices).    *)
THEOREM JointsAreOwn == Spec => []OwnJoints
<1>1. OwnState /\ OwnModel
  BY StateIsOwn, ModelIsOwn
<1>2. OwnJoints
  BY <1>1 DEF OwnJoints
<1> QED  BY <1>2, PTL
-----------------------------------------------------------------------------
(* Matrices                                                                *)

Matrices(C) == [0..2 -> [C -> Int]]

LEMMA TransposedIs ==
  ASSUME NEW A \in Matrices(0..2)
  PROVE  /\ Transposed(A) \in Matrices(0..2)
         /\ \A r, c \in 0..2 : Transposed(A)[r][c] = A[c][r]
<1>1. DOMAIN A = 0..2 /\ DOMAIN A[0] = 0..2
  BY DEF Matrices
<1> QED  BY <1>1 DEF Transposed, Matrices

LEMMA TimesIs ==
  ASSUME NEW A \in Matrices(0..2), NEW C, NEW B \in Matrices(C)
  PROVE  /\ Times(A, B) \in Matrices(C)
         /\ \A r \in 0..2, c \in C :
              Times(A, B)[r][c] = A[r][0] * B[0][c] + A[r][1] * B[1][c] + A[r][2] * B[2][c]
<1>1. DOMAIN A = 0..2 /\ DOMAIN B = 0..2 /\ DOMAIN B[0] = C
  BY DEF Matrices
<1> DEFINE v(r, c) == [i \in 0..2 |-> A[r][i] * B[i][c]]
<1>2. Times(A, B) = [r \in 0..2 |-> [c \in C |-> SumOf(v(r, c))]]
  BY <1>1 DEF Times
<1>3. ASSUME NEW r \in 0..2, NEW c \in C
      PROVE  /\ SumOf(v(r, c)) = A[r][0] * B[0][c] + A[r][1] * B[1][c] + A[r][2] * B[2][c]
             /\ SumOf(v(r, c)) \in Int
  <2>1. \A i \in 0..2 : A[r][i] \in Int /\ B[i][c] \in Int /\ A[r][i] * B[i][c] \in Int
    BY DEF Matrices
  <2>2. v(r, c) \in Vectors(3)
    BY <2>1 DEF Vectors
  <2>3. SumOf(v(r, c)) = v(r, c)[0] + v(r, c)[1] + v(r, c)[2]
    BY <2>2, SumOfThree
  <2> QED  BY <2>1, <2>3
<1> HIDE DEF v
<1> QED  BY <1>2, <1>3 DEF Matrices

LEMMA AppliedIs ==
  ASSUME NEW A \in Matrices(0..2), NEW w \in [0..2 -> Int]
  PROVE  /\ Applied(A, w) \in [0..2 -> Int]
         /\ \A r \in 0..2 : Applied(A, w)[r] = A[r][0] * w[0] + A[r][1] * w[1] + A[r][2] * w[2]
<1>1. DOMAIN A = 0..2 /\ DOMAIN w = 0..2
  BY DEF Matrices
<1> DEFINE v(r) == [i \in 0..2 |-> A[r][i] * w[i]]
<1>2. Applied(A, w) = [r \in 0..2 |-> SumOf(v(r))]
  BY <1>1 DEF Applied
<1>3. ASSUME NEW r \in 0..2
      PROVE  SumOf(v(r)) = A[r][0] * w[0] + A[r][1] * w[1] + A[r][2] * w[2] /\ SumOf(v(r)) \in Int
  <2>1. \A i \in 0..2 : A[r][i] \in Int /\ w[i] \in Int /\ A[r][i] * w[i] \in Int
    BY DEF Matrices
  <2>2. v(r) \in Vectors(3)
    BY <2>1 DEF Vectors
  <2>3. SumOf(v(r)) = v(r)[0] + v(r)[1] + v(r)[2]
    BY <2>2, SumOfThree
  <2> QED  BY <2>1, <2>3
<1> HIDE DEF v
<1> QED  BY <1>2, <1>3

LEMMA Distributed ==
  ASSUME NEW a \in Int, NEW x \in Int, NEW y \in Int, NEW z \in Int,
         NEW p \in Int, NEW q \in Int, NEW s \in Int
  PROVE  /\ a * (x * p + y * q + z * s) = (a * x) * p + (a * y) * q + (a * z) * s
         /\ (x + y + z) * a = x * a + y * a + z * a
OBVIOUS

(* Turned with the transposed and back again is not turned at all.         *)
LEMMA TurnedBack ==
  ASSUME NEW A \in Matrices(0..2), Times(A, Transposed(A)) = Unit,
         NEW v0 \in Int, NEW v1 \in Int, NEW v2 \in Int, NEW r \in 0..2
  PROVE  LET w(i) == A[0][i] * v0 + A[1][i] * v1 + A[2][i] * v2
         IN  A[r][0] * w(0) + A[r][1] * w(1) + A[r][2] * w(2)
               = IF r = 0 THEN v0 ELSE IF r = 1 THEN v1 ELSE v2
<1> DEFINE T == Transposed(A)
           w(i) == A[0][i] * v0 + A[1][i] * v1 + A[2][i] * v2
           t(i, k) == A[r][i] * A[k][i]
           u(k) == IF r = k THEN 1 ELSE 0
<1>1. \A k, i \in 0..2 : A[k][i] \in Int
  BY DEF Matrices
<1>2. T \in Matrices(0..2) /\ \A i, k \in 0..2 : T[i][k] = A[k][i]
  BY TransposedIs
<1>3. ASSUME NEW k \in 0..2 PROVE t(0, k) + t(1, k) + t(2, k) = u(k)
  <2>1. Times(A, T)[r][k] = A[r][0] * T[0][k] + A[r][1] * T[1][k] + A[r][2] * T[2][k]
    BY <1>2, TimesIs
  <2>2. Times(A, T)[r][k] = u(k)
    BY DEF Unit
  <2> QED  BY <1>2, <2>1, <2>2
<1>4. ASSUME NEW i \in 0..2
      PROVE  A[r][i] * w(i) = t(i, 0) * v0 + t(i, 1) * v1 + t(i, 2) * v2
  <2> DEFINE a == A[r][i]
             x == A[0][i]
             y == A[1][i]
             z == A[2][i]
  <2>1. a \in Int /\ x \in Int /\ y \in Int /\ z \in Int
    BY <1>1
  <2> HIDE DEF a, x, y, z
  <2>2. a * (x * v0 + y * v1 + z * v2) = (a * x) * v0 + (a * y) * v1 + (a * z) * v2
    BY <2>1, Distributed
  <2> QED  BY <2>2 DEF a, x, y, z
<1>5. \A i, k \in 0..2 : t(i, k) \in Int
  BY <1>1
<1>6. /\ (t(0, 0) + t(1, 0) + t(2, 0)) * v0 = t(0, 0) * v0 + t(1, 0) * v0 + t(2, 0) * v0
      /\ (t(0, 1) + t(1, 1) + t(2, 1)) * v1 = t(0, 1) * v1 + t(1, 1) * v1 + t(2, 1) * v1
      /\ (t(0, 2) + t(1, 2) + t(2, 2)) * v2 = t(0, 2) * v2 + t(1, 2) * v2 + t(2, 2) * v2
  <2> HIDE DEF t
  <2> QED  BY <1>5, Distributed
<1>7. \A i, k \in 0..2 : t(i, k) * v0 \in Int /\ t(i, k) * v1 \in Int /\ t(i, k) * v2 \in Int
  <2> HIDE DEF t
  <2> QED  BY <1>5
<1>8. u(0) * v0 + u(1) * v1 + u(2) * v2 = IF r = 0 THEN v0 ELSE IF r = 1 THEN v1 ELSE v2
  OBVIOUS
<1>9. A[r][0] * w(0) + A[r][1] * w(1) + A[r][2] * w(2) = u(0) * v0 + u(1) * v1 + u(2) * v2
  <2>1. /\ A[r][0] * w(0) = t(0, 0) * v0 + t(0, 1) * v1 + t(0, 2) * v2
        /\ A[r][1] * w(1) = t(1, 0) * v0 + t(1, 1) * v1 + t(1, 2) * v2
        /\ A[r][2] * w(2) = t(2, 0) * v0 + t(2, 1) * v1 + t(2, 2) * v2
    BY <1>4
  <2>2. /\ u(0) * v0 = t(0, 0) * v0 + t(1, 0) * v0 + t(2, 0) * v0
        /\ u(1) * v1 = t(0, 1) * v1 + t(1, 1) * v1 + t(2, 1) * v1
        /\ u(2) * v2 = t(0, 2) * v2 + t(1, 2) * v2 + t(2, 2) * v2
    <3> HIDE DEF t, u
    <3> QED  BY <1>3, <1>6
  <2> HIDE DEF t, u, w
  <2> QED  BY <1>7, <2>1, <2>2
<1> QED  BY <1>8, <1>9

(* A matrix that was written column by column is read column by column.    *)
LEMMA ColumnMajorAt ==
  ASSUME NEW rows \in Nat \ {0}, NEW cols \in Nat, NEW M,
         NEW r \in 0..(rows - 1), NEW c \in 0..(cols - 1)
  PROVE  convertToColMajor(M, rows, cols)[c * rows + r] = M[r][c]
<1> DEFINE k == c * rows + r
           V == convertToColMajor(M, rows, cols)
<1>1. k \div rows = c /\ k % rows = r
  BY Unfolded
<1>2. k \in 0..(rows * cols - 1)
  <2>1. c * rows <= (cols - 1) * rows /\ c * rows >= 0 /\ c * rows \in Int
    OBVIOUS
  <2>2. (cols - 1) * rows = rows * cols - rows /\ rows * cols \in Int
    OBVIOUS
  <2> QED  BY <2>1, <2>2
<1> HIDE DEF k
<1>3. V[k] = M[k % rows][k \div rows]
  BY <1>2 DEF convertToColMajor
<1> QED  BY <1>1, <1>3 DEF k

LEMMA ColumnsOfMajor ==
  ASSUME NEW rows \in Nat \ {0}, NEW cols \in Nat, NEW R, R = 0..(rows - 1), NEW C, C = 0..(cols - 1),
         NEW M \in [R -> [C -> Int]]
  PROVE  Columns(convertToColMajor(M, rows, cols), rows, cols) = M
<1> DEFINE V == convertToColMajor(M, rows, cols)
<1>1. ASSUME NEW r \in 0..(rows - 1), NEW c \in 0..(cols - 1) PROVE V[c * rows + r] = M[r][c]
  BY ONLY rows \in Nat \ {0}, cols \in Nat, ColumnMajorAt
<1>2. M = [r \in 0..(rows - 1) |-> [c \in 0..(cols - 1) |-> M[r][c]]]
  OBVIOUS
<1> HIDE DEF V
<1>3. Columns(V, rows, cols) = [r \in 0..(rows - 1) |-> [c \in 0..(cols - 1) |-> M[r][c]]]
  BY <1>1 DEF Columns
<1> QED  BY <1>2, <1>3 DEF V

(* A transform of four rows and four columns.                              *)
LEMMA ColumnsOfFour ==
  ASSUME NEW T \in [0..3 -> [0..3 -> Int]]
  PROVE  Columns(convertToColMajor(T, 4, 4), 4, 4) = T
<1> DEFINE four == 4
           R == 0..3
<1>1. four \in Nat \ {0} /\ four \in Nat /\ R = 0..(four - 1) /\ T \in [R -> [R -> Int]]
  OBVIOUS
<1> HIDE DEF four, R
<1>2. Columns(convertToColMajor(T, four, four), four, four) = T
  BY <1>1, ColumnsOfMajor
<1> QED  BY <1>2 DEF four

-----------------------------------------------------------------------------
(* The frame of the base                                                   *)

IsRigid(P) == P.pos \in [0..2 -> Int] /\ P.rot \in Matrices(0..2)

(* A pose put behind the one it is relative to.                            *)
Relative(P, Q) == mju_mulPose(mju_negPose(P), Q)

LEMMA NegatedPose ==
  ASSUME NEW P, IsRigid(P)
  PROVE  /\ IsRigid(mju_negPose(P)) /\ mju_negPose(P).rot = Transposed(P.rot)
         /\ \A i \in 0..2 : mju_negPose(P).pos[i] = -(P.rot[0][i] * P.pos[0] + P.rot[1][i] * P.pos[1]
                                                       + P.rot[2][i] * P.pos[2])
<1> DEFINE T == Transposed(P.rot)
           v == Applied(T, P.pos)
<1>1. T \in Matrices(0..2) /\ \A r, c \in 0..2 : T[r][c] = P.rot[c][r]
  BY TransposedIs DEF IsRigid
<1> HIDE DEF T
<1>2. v \in [0..2 -> Int]
      /\ \A r \in 0..2 : v[r] = T[r][0] * P.pos[0] + T[r][1] * P.pos[1] + T[r][2] * P.pos[2]
  BY <1>1, AppliedIs DEF IsRigid
<1>3. mju_negPose(P).pos = [i \in 0..2 |-> -v[i]] /\ mju_negPose(P).rot = T
  BY DEF mju_negPose, T
<1> HIDE DEF v
<1>4. \A i \in 0..2 : v[i] = P.rot[0][i] * P.pos[0] + P.rot[1][i] * P.pos[1] + P.rot[2][i] * P.pos[2]
  BY <1>1, <1>2
<1>5. mju_negPose(P).pos \in [0..2 -> Int] /\ \A i \in 0..2 : mju_negPose(P).pos[i] = -v[i]
  BY <1>2, <1>3
<1> QED  BY <1>1, <1>3, <1>4, <1>5 DEF IsRigid, T

LEMMA RelativePose ==
  ASSUME NEW P, IsRigid(P), NEW Q, IsRigid(Q)
  PROVE  LET R == Relative(P, Q)
             d(k) == Q.pos[k] - P.pos[k]
         IN  /\ IsRigid(R)
             /\ \A i, c \in 0..2 : R.rot[i][c] = P.rot[0][i] * Q.rot[0][c] + P.rot[1][i] * Q.rot[1][c]
                                                + P.rot[2][i] * Q.rot[2][c]
             /\ \A i \in 0..2 : R.pos[i] = P.rot[0][i] * d(0) + P.rot[1][i] * d(1) + P.rot[2][i] * d(2)
<1> DEFINE N == mju_negPose(P)
           R == Relative(P, Q)
           v == Applied(N.rot, Q.pos)
<1>1. /\ IsRigid(N) /\ N.rot = Transposed(P.rot)
      /\ \A i \in 0..2 : N.pos[i] = -(P.rot[0][i] * P.pos[0] + P.rot[1][i] * P.pos[1]
                                     + P.rot[2][i] * P.pos[2])
  BY NegatedPose
<1> HIDE DEF N
<1>2. N.rot \in Matrices(0..2) /\ \A r, c \in 0..2 : N.rot[r][c] = P.rot[c][r]
  BY <1>1, TransposedIs DEF IsRigid
<1>3. v \in [0..2 -> Int]
      /\ \A r \in 0..2 : v[r] = P.rot[0][r] * Q.pos[0] + P.rot[1][r] * Q.pos[1] + P.rot[2][r] * Q.pos[2]
  <2>1. v \in [0..2 -> Int]
        /\ \A r \in 0..2 : v[r] = N.rot[r][0] * Q.pos[0] + N.rot[r][1] * Q.pos[1] + N.rot[r][2] * Q.pos[2]
    BY <1>2, AppliedIs DEF IsRigid
  <2> HIDE DEF v
  <2> QED  BY <1>2, <2>1
<1>4. R.rot = Times(N.rot, Q.rot) /\ R.pos = [i \in 0..2 |-> N.pos[i] + v[i]]
  BY DEF mju_mulPose, Relative, N
<1> HIDE DEF v, R
<1>5. /\ R.rot \in Matrices(0..2)
      /\ \A i, c \in 0..2 : R.rot[i][c] = N.rot[i][0] * Q.rot[0][c] + N.rot[i][1] * Q.rot[1][c]
                                         + N.rot[i][2] * Q.rot[2][c]
  BY <1>2, <1>4, TimesIs DEF IsRigid
<1>6. R.pos \in [0..2 -> Int] /\ \A i \in 0..2 : R.pos[i] = N.pos[i] + v[i]
  <2>1. \A i \in 0..2 : N.pos[i] \in Int /\ v[i] \in Int
    BY <1>1, <1>3 DEF IsRigid
  <2> QED  BY <1>4, <2>1
<1>7. ASSUME NEW i \in 0..2
      PROVE  R.pos[i] = P.rot[0][i] * (Q.pos[0] - P.pos[0]) + P.rot[1][i] * (Q.pos[1] - P.pos[1])
                          + P.rot[2][i] * (Q.pos[2] - P.pos[2])
  <2>1. ASSUME NEW x \in Int, NEW q \in Int, NEW p \in Int PROVE x * (q - p) = x * q - x * p
    OBVIOUS
  <2>2. \A k \in 0..2 : P.rot[k][i] \in Int /\ P.pos[k] \in Int /\ Q.pos[k] \in Int
    BY DEF IsRigid, Matrices
  <2>3. \A k \in 0..2 : P.rot[k][i] * P.pos[k] \in Int /\ P.rot[k][i] * Q.pos[k] \in Int
    BY <2>2
  <2>4. \A k \in 0..2 : P.rot[k][i] * (Q.pos[k] - P.pos[k])
                            = P.rot[k][i] * Q.pos[k] - P.rot[k][i] * P.pos[k]
    BY <2>1, <2>2
  <2> QED  BY <1>1, <1>3, <1>6, <2>3, <2>4
<1>8. \A i, c \in 0..2 : R.rot[i][c] = P.rot[0][i] * Q.rot[0][c] + P.rot[1][i] * Q.rot[1][c]
                                     + P.rot[2][i] * Q.rot[2][c]
  BY <1>2, <1>5
<1> QED  BY <1>5, <1>6, <1>7, <1>8 DEF IsRigid, R

(* The 4 by 4 matrices of poses.                                           *)
Represents(T, P) ==
  /\ T \in [0..3 -> [0..3 -> Int]]
  /\ \A r, c \in 0..2 : T[r][c] = P.rot[r][c]
  /\ \A r \in 0..2 : T[r][3] = P.pos[r]
  /\ T[3][0] = 0 /\ T[3][1] = 0 /\ T[3][2] = 0 /\ T[3][3] = 1

LEMMA TMatIs ==
  ASSUME NEW P, IsRigid(P)
  PROVE  Represents(TMat(P), P)
<1>1. /\ \A r, c \in 0..2 : P.rot[r][c] \in Int
      /\ \A r \in 0..2 : P.pos[r] \in Int
  BY DEF IsRigid, Matrices
<1>2. \A r, c \in 0..3 : /\ r # 3 => r \in 0..2
                       /\ c # 3 => c \in 0..2
  OBVIOUS
<1>3. \A r \in 0..2 : r \in 0..3 /\ r # 3
  OBVIOUS
<1> QED  BY <1>1, <1>2, <1>3 DEF TMat, Represents

LEMMA TimesFour ==
  ASSUME NEW A \in [0..3 -> [0..3 -> Int]], NEW B \in [0..3 -> [0..3 -> Int]]
  PROVE  Times(A, B) = [r \in 0..3 |-> [c \in 0..3 |->
           A[r][0] * B[0][c] + A[r][1] * B[1][c] + A[r][2] * B[2][c] + A[r][3] * B[3][c]]]
<1>1. DOMAIN A = 0..3 /\ DOMAIN B = 0..3 /\ DOMAIN B[0] = 0..3
  OBVIOUS
<1> DEFINE v(r, c) == [i \in 0..3 |-> A[r][i] * B[i][c]]
<1>2. Times(A, B) = [r \in 0..3 |-> [c \in 0..3 |-> SumOf(v(r, c))]]
  BY <1>1 DEF Times
<1>3. ASSUME NEW r \in 0..3, NEW c \in 0..3
      PROVE  SumOf(v(r, c)) = A[r][0] * B[0][c] + A[r][1] * B[1][c] + A[r][2] * B[2][c]
                                + A[r][3] * B[3][c]
  <2>1. \A i \in 0..3 : A[r][i] \in Int /\ B[i][c] \in Int /\ A[r][i] * B[i][c] \in Int
    OBVIOUS
  <2>2. v(r, c) \in Vectors(4)
    BY <2>1 DEF Vectors
  <2>3. SumOf(v(r, c)) = v(r, c)[0] + v(r, c)[1] + v(r, c)[2] + v(r, c)[3]
    BY <2>2, SumOfFour
  <2> QED  BY <2>1, <2>3
<1> HIDE DEF v
<1> QED  BY <1>2, <1>3

LEMMA PosesLead ==
  ASSUME NEW P, IsPose(P), NEW Q, IsPose(Q)
  PROVE  Times(TMat(P), TMat(Relative(P, Q))) = TMat(Q)
<1> DEFINE R == Relative(P, Q)
           A == TMat(P)
           B == TMat(R)
           d(k) == Q.pos[k] - P.pos[k]
<1>1. IsRigid(P) /\ IsRigid(Q) /\ Times(P.rot, Transposed(P.rot)) = Unit
  BY DEF IsPose, IsRigid, Matrices
<1>2. /\ IsRigid(R)
      /\ \A i, c \in 0..2 : R.rot[i][c] = P.rot[0][i] * Q.rot[0][c] + P.rot[1][i] * Q.rot[1][c]
                                         + P.rot[2][i] * Q.rot[2][c]
      /\ \A i \in 0..2 : R.pos[i] = P.rot[0][i] * d(0) + P.rot[1][i] * d(1) + P.rot[2][i] * d(2)
  BY <1>1, RelativePose
<1> HIDE DEF R
<1>3. Represents(A, P) /\ Represents(B, R) /\ Represents(TMat(Q), Q)
  BY <1>1, <1>2, TMatIs
<1>4. Times(A, B) = [r \in 0..3 |-> [c \in 0..3 |->
        A[r][0] * B[0][c] + A[r][1] * B[1][c] + A[r][2] * B[2][c] + A[r][3] * B[3][c]]]
  BY <1>3, TimesFour DEF Represents
<1>6. /\ \A r, c \in 0..2 : P.rot[r][c] \in Int /\ Q.rot[r][c] \in Int /\ R.rot[r][c] \in Int
      /\ \A r \in 0..2 : P.pos[r] \in Int /\ Q.pos[r] \in Int /\ R.pos[r] \in Int /\ d(r) \in Int
  BY <1>1, <1>2 DEF IsRigid, Matrices
<1> HIDE DEF A, B
<1>7. ASSUME NEW r \in 0..2, NEW c \in 0..2
      PROVE  P.rot[r][0] * R.rot[0][c] + P.rot[r][1] * R.rot[1][c] + P.rot[r][2] * R.rot[2][c] = Q.rot[r][c]
  <2> DEFINE v(k) == Q.rot[k][c]
             w(i) == P.rot[0][i] * v(0) + P.rot[1][i] * v(1) + P.rot[2][i] * v(2)
  <2>1. P.rot \in Matrices(0..2) /\ v(0) \in Int /\ v(1) \in Int /\ v(2) \in Int
    BY <1>1, <1>6 DEF IsRigid
  <2>2. R.rot[0][c] = w(0) /\ R.rot[1][c] = w(1) /\ R.rot[2][c] = w(2)
    BY <1>2
  <2>3. P.rot[r][0] * w(0) + P.rot[r][1] * w(1) + P.rot[r][2] * w(2)
          = IF r = 0 THEN v(0) ELSE IF r = 1 THEN v(1) ELSE v(2)
    <3> DEFINE M == P.rot
               x0 == v(0)
               x1 == v(1)
               x2 == v(2)
    <3>1. /\ M \in Matrices(0..2) /\ Times(M, Transposed(M)) = Unit
          /\ x0 \in Int /\ x1 \in Int /\ x2 \in Int
      BY <1>1, <2>1
    <3> HIDE DEF M, x0, x1, x2
    <3>2. M[r][0] * (M[0][0] * x0 + M[1][0] * x1 + M[2][0] * x2)
            + M[r][1] * (M[0][1] * x0 + M[1][1] * x1 + M[2][1] * x2)
            + M[r][2] * (M[0][2] * x0 + M[1][2] * x1 + M[2][2] * x2)
            = IF r = 0 THEN x0 ELSE IF r = 1 THEN x1 ELSE x2
      BY <3>1, TurnedBack
    <3> QED  BY <3>2 DEF M, x0, x1, x2
  <2> HIDE DEF w
  <2> QED  BY <2>2, <2>3
<1>8. ASSUME NEW r \in 0..2
      PROVE  P.rot[r][0] * R.pos[0] + P.rot[r][1] * R.pos[1] + P.rot[r][2] * R.pos[2] = Q.pos[r] - P.pos[r]
  <2> DEFINE w(i) == P.rot[0][i] * d(0) + P.rot[1][i] * d(1) + P.rot[2][i] * d(2)
  <2>1. P.rot \in Matrices(0..2) /\ d(0) \in Int /\ d(1) \in Int /\ d(2) \in Int
    BY <1>1, <1>6 DEF IsRigid
  <2>2. R.pos[0] = w(0) /\ R.pos[1] = w(1) /\ R.pos[2] = w(2)
    BY <1>2
  <2>3. P.rot[r][0] * w(0) + P.rot[r][1] * w(1) + P.rot[r][2] * w(2)
          = IF r = 0 THEN d(0) ELSE IF r = 1 THEN d(1) ELSE d(2)
    <3> DEFINE M == P.rot
               x0 == d(0)
               x1 == d(1)
               x2 == d(2)
    <3>1. /\ M \in Matrices(0..2) /\ Times(M, Transposed(M)) = Unit
          /\ x0 \in Int /\ x1 \in Int /\ x2 \in Int
      BY <1>1, <2>1
    <3> HIDE DEF M, x0, x1, x2
    <3>2. M[r][0] * (M[0][0] * x0 + M[1][0] * x1 + M[2][0] * x2)
            + M[r][1] * (M[0][1] * x0 + M[1][1] * x1 + M[2][1] * x2)
            + M[r][2] * (M[0][2] * x0 + M[1][2] * x1 + M[2][2] * x2)
            = IF r = 0 THEN x0 ELSE IF r = 1 THEN x1 ELSE x2
      BY <3>1, TurnedBack
    <3> QED  BY <3>2 DEF M, x0, x1, x2
  <2> HIDE DEF w
  <2> QED  BY <2>2, <2>3
<1>9. ASSUME NEW r \in 0..3, NEW c \in 0..3
      PROVE  A[r][0] * B[0][c] + A[r][1] * B[1][c] + A[r][2] * B[2][c] + A[r][3] * B[3][c] = TMat(Q)[r][c]
  <2>1. (r # 3 => r \in 0..2) /\ (c # 3 => c \in 0..2)
    OBVIOUS
  <2>2. ASSUME r # 3, c # 3
        PROVE  A[r][0] * B[0][c] + A[r][1] * B[1][c] + A[r][2] * B[2][c] + A[r][3] * B[3][c] = TMat(Q)[r][c]
    <3>1. r \in 0..2 /\ c \in 0..2 /\ (c = 0 \/ c = 1 \/ c = 2)
      BY <2>1, <2>2
    <3>2. /\ A[r][0] = P.rot[r][0] /\ A[r][1] = P.rot[r][1] /\ A[r][2] = P.rot[r][2] /\ A[r][3] = P.pos[r]
          /\ B[0][c] = R.rot[0][c] /\ B[1][c] = R.rot[1][c] /\ B[2][c] = R.rot[2][c] /\ B[3][c] = 0
          /\ TMat(Q)[r][c] = Q.rot[r][c]
      BY <1>3, <3>1 DEF Represents
    <3>3. P.rot[r][0] * R.rot[0][c] \in Int /\ P.rot[r][1] * R.rot[1][c] \in Int
          /\ P.rot[r][2] * R.rot[2][c] \in Int /\ P.pos[r] * 0 = 0
      BY <1>6, <3>1
    <3> QED  BY <1>7, <3>1, <3>2, <3>3
  <2>3. ASSUME r # 3, c = 3
        PROVE  A[r][0] * B[0][c] + A[r][1] * B[1][c] + A[r][2] * B[2][c] + A[r][3] * B[3][c] = TMat(Q)[r][c]
    <3>1. r \in 0..2
      BY <2>1, <2>3
    <3>2. /\ A[r][0] = P.rot[r][0] /\ A[r][1] = P.rot[r][1] /\ A[r][2] = P.rot[r][2] /\ A[r][3] = P.pos[r]
          /\ B[0][c] = R.pos[0] /\ B[1][c] = R.pos[1] /\ B[2][c] = R.pos[2] /\ B[3][c] = 1
          /\ TMat(Q)[r][c] = Q.pos[r]
      BY <1>3, <2>3, <3>1 DEF Represents
    <3>3. P.rot[r][0] * R.pos[0] \in Int /\ P.rot[r][1] * R.pos[1] \in Int
          /\ P.rot[r][2] * R.pos[2] \in Int /\ P.pos[r] * 1 = P.pos[r] /\ P.pos[r] \in Int /\ Q.pos[r] \in Int
      BY <1>6, <3>1
    <3> QED  BY <1>8, <3>1, <3>2, <3>3
  <2>4. ASSUME r = 3
        PROVE  A[r][0] * B[0][c] + A[r][1] * B[1][c] + A[r][2] * B[2][c] + A[r][3] * B[3][c] = TMat(Q)[r][c]
    <3>1. B[0][c] \in Int /\ B[1][c] \in Int /\ B[2][c] \in Int /\ B[3][c] \in Int
      BY <1>3 DEF Represents
    <3>2. B[3][c] = TMat(Q)[3][c]
      <4>1. c = 0 \/ c = 1 \/ c = 2 \/ c = 3
        OBVIOUS
      <4> QED  BY <1>3, <4>1 DEF Represents
    <3> QED  BY <1>3, <2>4, <3>1, <3>2 DEF Represents
  <2> QED  BY <2>2, <2>3, <2>4
<1>10. TMat(Q) = [r \in 0..3 |-> [c \in 0..3 |-> TMat(Q)[r][c]]]
  <2> DEFINE Z == TMat(Q)
  <2>1. Z \in [0..3 -> [0..3 -> Int]]
    BY <1>3 DEF Represents
  <2> HIDE DEF Z
  <2>2. Z = [r \in 0..3 |-> [c \in 0..3 |-> Z[r][c]]]
    BY <2>1
  <2> QED  BY <2>2 DEF Z
<1> QED  BY <1>4, <1>9, <1>10 DEF A, B, R
LEMMA PosesOfParts ==
  ASSUME NEW fact \in Facts, NEW a \in Arms, NEW f \in Frames
  PROVE  IsPose(fact.pose[Link(a, f)]) /\ IsPose(fact.pose[<<a, "site", f>>])
<1>1. Link(a, f) \in BodyNames /\ <<a, "site", f>> \in SiteNames
  BY DEF Link, BodyNames, SiteNames
<1> QED  BY <1>1, FactsAssumption DEF IsFact

LEMMA PosesAreRelative == RelativePoses
<1>1. ASSUME NEW layout \in Layouts, NEW fact \in Facts, NEW a \in Arms, NEW frame \in Nat
      PROVE  LET m == mjModel(layout)
                 d == mjData(m, fact)
                 idx == indices(m, a)
             IN  /\ Times(TMat(fact.pose[Link(a, 0)]), Columns(poseImpl(d, idx, frame), 4, 4))
                      = TMat(fact.pose[Site(a, frame)])
                 /\ frame = kNumberOfJoints =>
                      poseImpl(d, idx, frame) = populateFrankaState(d, idx).O_T_EE
  <2> DEFINE m == mjModel(layout)
             d == mjData(m, fact)
             idx == indices(m, a)
             f == IF frame \in Frames THEN frame ELSE kNumberOfJoints + 1
             P == fact.pose[Link(a, 0)]
             Q == fact.pose[<<a, "site", f>>]
  <2>1. 0 \in Frames /\ f \in Frames /\ (frame = kNumberOfJoints => f = kNumberOfJoints)
    BY JointsAssumption DEF Frames
  <2>2. d.body[idx.link[0] + 1] = P
    BY <2>1, DataOfArm, ZenonT(40)
  <2>3. d.site[idx.site[f] + 1] = Q
    BY <2>1, DataOfArm, ZenonT(40)
  <2>4. SiteOf(idx, frame) = idx.site[f] /\ Site(a, frame) = <<a, "site", f>>
    BY DEF SiteOf, Site
  <2>5. IsPose(P) /\ IsPose(Q)
    BY <2>1, PosesOfParts
  <2> HIDE DEF m, d, idx, f, P
  <2>6. getBSiteInALinkframe(d, idx.link[0], idx.site[f]) = Relative(P, Q)
    BY <2>2, <2>3 DEF getBSiteInALinkframe, getXPosQuatbyLink, getXPosQuatbySite, Relative
  <2> HIDE DEF Q
  <2> DEFINE T == TMat(Relative(P, Q))
  <2>7. poseImpl(d, idx, frame) = convertToColMajor(T, 4, 4)
    BY <2>4, <2>6 DEF poseImpl
  <2>8. frame = kNumberOfJoints => populateFrankaState(d, idx).O_T_EE = convertToColMajor(T, 4, 4)
    <3> SUFFICES ASSUME frame = kNumberOfJoints
                 PROVE  populateFrankaState(d, idx).O_T_EE = convertToColMajor(T, 4, 4)
      OBVIOUS
    <3>1. populateFrankaState(d, idx).O_T_EE
            = convertToColMajor(TMat(getBSiteInALinkframe(d, idx.link[0], idx.site[kNumberOfJoints])), 4, 4)
      BY DEF populateFrankaState
    <3> QED  BY <2>1, <2>6, <3>1
  <2>9. T \in [0..3 -> [0..3 -> Int]]
    <3>1. IsRigid(P) /\ IsRigid(Q)
      BY <2>5 DEF IsPose, IsRigid, Matrices
    <3>2. IsRigid(Relative(P, Q))
      BY <3>1, RelativePose
    <3> QED  BY <3>2, TMatIs DEF Represents
  <2>10. Times(TMat(P), T) = TMat(Q)
    BY <2>5, PosesLead
  <2> HIDE DEF T
  <2>11. Columns(convertToColMajor(T, 4, 4), 4, 4) = T
    BY <2>9, ColumnsOfFour
  <2> QED  BY <2>4, <2>7, <2>8, <2>10, <2>11 DEF m, d, idx, P, Q
<1> SUFFICES ASSUME NEW layout \in Layouts, NEW fact \in Facts, NEW a \in Arms
             PROVE  LET m == mjModel(layout)
                        d == mjData(m, fact)
                        idx == indices(m, a)
                        Leads(pose, frame) ==
                          Times(TMat(fact.pose[Link(a, 0)]), Columns(pose, 4, 4))
                            = TMat(fact.pose[Site(a, frame)])
                    IN  /\ \A frame \in 0..(kNumberOfJoints + 2) : Leads(poseImpl(d, idx, frame), frame)
                        /\ Leads(populateFrankaState(d, idx).O_T_EE, kNumberOfJoints)
  BY DEF RelativePoses
<1>2. kNumberOfJoints \in Nat /\ \A frame \in 0..(kNumberOfJoints + 2) : frame \in Nat
  BY JointsAssumption
<1> QED  BY <1>1, <1>2

(* The rows of the transform between frames, of velocities or of forces.   *)
LEMMA ForceTransform ==
  ASSUME NEW P, IsRigid(P)
  PROVE  LET F == composeForceTransform(mju_negPose(P))
             T == Transposed(P.rot)
         IN  /\ \A r, c \in 0..2 : /\ F[r][c] = T[r][c] /\ F[r][c + 3] = 0
                                 /\ F[r + 3][c + 3] = T[r][c] /\ F[r + 3][c] \in Int
             /\ P.pos = [i \in 0..2 |-> 0] => \A r, c \in 0..2 : F[r + 3][c] = 0
             /\ DOMAIN F = 0..5
<1> DEFINE N == mju_negPose(P)
           F == composeForceTransform(N)
           T == Transposed(P.rot)
           X == Times(pCross(N.pos), N.rot)
<1>1. /\ IsRigid(N) /\ N.rot = T
      /\ \A i \in 0..2 : N.pos[i] = -(P.rot[0][i] * P.pos[0] + P.rot[1][i] * P.pos[1]
                                     + P.rot[2][i] * P.pos[2])
  BY NegatedPose
<1>2. \A r, c \in 0..2 : P.rot[r][c] \in Int
  BY DEF IsRigid, Matrices
<1> HIDE DEF N, T
<1>3. pCross(N.pos) \in Matrices(0..2)
  <2>1. N.pos[0] \in Int /\ N.pos[1] \in Int /\ N.pos[2] \in Int
    BY <1>1 DEF IsRigid
  <2>2. ASSUME NEW r \in 0..2, NEW c \in 0..2 PROVE pCross(N.pos)[r][c] \in Int
    <3>1. r = 0 \/ r = 1 \/ r = 2
      OBVIOUS
    <3>2. c = 0 \/ c = 1 \/ c = 2
      OBVIOUS
    <3> QED  BY <2>1, <3>1, <3>2 DEF pCross
  <2> QED  BY <2>2 DEF Matrices, pCross
<1>4. X \in Matrices(0..2)
  BY <1>1, <1>3, TimesIs DEF IsRigid
<1>5. P.pos = [i \in 0..2 |-> 0] => \A r, c \in 0..2 : X[r][c] = 0
  <2> SUFFICES ASSUME P.pos = [i \in 0..2 |-> 0], NEW r \in 0..2, NEW c \in 0..2 PROVE X[r][c] = 0
    OBVIOUS
  <2>1. N.pos[0] = 0 /\ N.pos[1] = 0 /\ N.pos[2] = 0
    BY <1>1, <1>2
  <2>2. ASSUME NEW k \in 0..2 PROVE pCross(N.pos)[r][k] = 0
    <3>1. r = 0 \/ r = 1 \/ r = 2
      OBVIOUS
    <3>2. k = 0 \/ k = 1 \/ k = 2
      OBVIOUS
    <3> QED  BY <2>1, <3>1, <3>2 DEF pCross
  <2>3. N.rot[0][c] \in Int /\ N.rot[1][c] \in Int /\ N.rot[2][c] \in Int
    <3>1. N.rot \in Matrices(0..2)
      BY <1>1 DEF IsRigid
    <3> QED  BY <3>1 DEF Matrices
  <2>4. X[r][c] = pCross(N.pos)[r][0] * N.rot[0][c] + pCross(N.pos)[r][1] * N.rot[1][c]
                    + pCross(N.pos)[r][2] * N.rot[2][c]
    BY <1>1, <1>3, TimesIs DEF IsRigid
  <2> HIDE DEF X
  <2>5. X[r][c] = 0 * N.rot[0][c] + 0 * N.rot[1][c] + 0 * N.rot[2][c]
    BY <2>2, <2>4
  <2> QED  BY <2>3, <2>5
<1> DEFINE Y == X
<1>6. F = [r \in 0..5 |-> [c \in 0..5 |->
            CASE r < 3 /\ c < 3 -> N.rot[r][c]
              [] r < 3 /\ c >= 3 -> 0
              [] r >= 3 /\ c < 3 -> Y[r - 3][c]
              [] r >= 3 /\ c >= 3 -> N.rot[r - 3][c - 3]]]
  BY DEF composeForceTransform
<1> HIDE DEF X, Y, F
<1>7. ASSUME NEW r \in 0..2, NEW c \in 0..2
      PROVE  /\ F[r][c] = T[r][c] /\ F[r][c + 3] = 0
             /\ F[r + 3][c + 3] = T[r][c] /\ F[r + 3][c] = X[r][c]
  <2>1. /\ r \in 0..5 /\ c \in 0..5 /\ r + 3 \in 0..5 /\ c + 3 \in 0..5
        /\ r < 3 /\ c < 3 /\ ~ (r >= 3) /\ ~ (c >= 3) /\ r + 3 >= 3 /\ c + 3 >= 3
        /\ ~ (r + 3 < 3) /\ ~ (c + 3 < 3) /\ (r + 3) - 3 = r /\ (c + 3) - 3 = c
    OBVIOUS
  <2>2. F[r][c] = N.rot[r][c]
    BY <1>6, <2>1
  <2>3. F[r][c + 3] = 0
    BY <1>6, <2>1
  <2>4. F[r + 3][c] = Y[r][c]
    BY <1>6, <2>1
  <2>5. F[r + 3][c + 3] = N.rot[r][c]
    BY <1>6, <2>1
  <2> QED  BY <1>1, <2>2, <2>3, <2>4, <2>5 DEF Y
<1>8. \A r, c \in 0..2 : X[r][c] \in Int
  BY <1>4 DEF Matrices
<1>9. DOMAIN F = 0..5
  BY <1>6
<1> QED  BY <1>5, <1>7, <1>8, <1>9 DEF F, T, N
(* The product of the transform and a Jacobian, row by row.                *)
LEMMA TimesSix ==
  ASSUME NEW F, NEW C, NEW J, DOMAIN F = 0..5, J \in [0..5 -> [C -> Int]],
         \A r, c \in 0..5 : F[r][c] \in Int
  PROVE  /\ Times(F, J) \in [0..5 -> [C -> Int]]
         /\ \A r \in 0..5, c \in C :
              Times(F, J)[r][c] = F[r][0] * J[0][c] + F[r][1] * J[1][c] + F[r][2] * J[2][c]
                                    + F[r][3] * J[3][c] + F[r][4] * J[4][c] + F[r][5] * J[5][c]
<1>1. DOMAIN J = 0..5 /\ DOMAIN J[0] = C
  OBVIOUS
<1> DEFINE v(r, c) == [i \in 0..5 |-> F[r][i] * J[i][c]]
<1>2. Times(F, J) = [r \in 0..5 |-> [c \in C |-> SumOf(v(r, c))]]
  BY <1>1 DEF Times
<1>3. ASSUME NEW r \in 0..5, NEW c \in C
      PROVE  /\ SumOf(v(r, c)) \in Int
             /\ SumOf(v(r, c)) = F[r][0] * J[0][c] + F[r][1] * J[1][c] + F[r][2] * J[2][c]
                                   + F[r][3] * J[3][c] + F[r][4] * J[4][c] + F[r][5] * J[5][c]
  <2>1. \A i \in 0..5 : F[r][i] \in Int /\ J[i][c] \in Int /\ F[r][i] * J[i][c] \in Int
    OBVIOUS
  <2>2. v(r, c) \in Vectors(6)
    BY <2>1 DEF Vectors
  <2>3. SumOf(v(r, c)) = v(r, c)[0] + v(r, c)[1] + v(r, c)[2] + v(r, c)[3] + v(r, c)[4] + v(r, c)[5]
    BY <2>2, SumOfSix
  <2>4. \A i \in 0..5 : v(r, c)[i] \in Int
    BY <2>1
  <2>5. SumOf(v(r, c)) \in Int
    <3> DEFINE w == v(r, c)
    <3>1. /\ w[0] \in Int /\ w[1] \in Int /\ w[2] \in Int
          /\ w[3] \in Int /\ w[4] \in Int /\ w[5] \in Int
      BY <2>4
    <3> HIDE DEF w
    <3>2. w[0] + w[1] + w[2] + w[3] + w[4] + w[5] \in Int
      BY <3>1
    <3> QED  BY <2>3, <3>2 DEF w
  <2> QED  BY <2>3, <2>5
<1> HIDE DEF v
<1> QED  BY <1>2, <1>3

(* The rows of a Jacobian for where a site moves, and for how it turns.    *)
Upper(J) == [r \in 0..2 |-> J[r]]
Lower(J) == [r \in 0..2 |-> J[r + 3]]

(* The velocities of a site, which its Jacobian gives in the frame of the  *)
(* base P, are those of the scene when they are turned as the base is.     *)
LEMMA VelocitiesTurned ==
  ASSUME NEW P, IsPose(P), NEW C, NEW J \in [0..5 -> [C -> Int]]
  PROVE  LET V == Times(composeForceTransform(mju_negPose(P)), J)
         IN  /\ V \in [0..5 -> [C -> Int]] /\ Times(P.rot, Upper(V)) = Upper(J)
             /\ P.pos = [i \in 0..2 |-> 0] => Times(P.rot, Lower(V)) = Lower(J)
<1> DEFINE F == composeForceTransform(mju_negPose(P))
           T == Transposed(P.rot)
           V == Times(F, J)
           Part(first) == [r \in 0..2 |-> [c \in C |-> V[r + first][c]]]
           still == P.pos = [i \in 0..2 |-> 0]
           Turned(r, i, c) == P.rot[0][r] * J[i][c] + P.rot[1][r] * J[i + 1][c] + P.rot[2][r] * J[i + 2][c]
<1>1. IsRigid(P) /\ P.rot \in Matrices(0..2) /\ Times(P.rot, Transposed(P.rot)) = Unit
  BY DEF IsPose, IsRigid, Matrices
<1>2. /\ \A r, c \in 0..2 : /\ F[r][c] = T[r][c] /\ F[r][c + 3] = 0
                          /\ F[r + 3][c + 3] = T[r][c] /\ F[r + 3][c] \in Int
      /\ still => \A r, c \in 0..2 : F[r + 3][c] = 0
      /\ DOMAIN F = 0..5
  BY <1>1, ForceTransform
<1>3. \A r, c \in 0..2 : T[r][c] = P.rot[c][r] /\ P.rot[c][r] \in Int
  BY <1>1, TransposedIs DEF Matrices
<1> HIDE DEF F, T, still
<1>4. ASSUME NEW r \in 0..2
      PROVE  /\ F[r][0] = P.rot[0][r] /\ F[r][1] = P.rot[1][r] /\ F[r][2] = P.rot[2][r]
             /\ F[r][3] = 0 /\ F[r][4] = 0 /\ F[r][5] = 0
             /\ F[r + 3][3] = P.rot[0][r] /\ F[r + 3][4] = P.rot[1][r] /\ F[r + 3][5] = P.rot[2][r]
             /\ still => F[r + 3][0] = 0 /\ F[r + 3][1] = 0 /\ F[r + 3][2] = 0
  <2>1. 0 \in 0..2 /\ 1 \in 0..2 /\ 2 \in 0..2 /\ 0 + 3 = 3 /\ 1 + 3 = 4 /\ 2 + 3 = 5
    OBVIOUS
  <2>2. /\ F[r][0] = T[r][0] /\ F[r][1] = T[r][1] /\ F[r][2] = T[r][2]
        /\ F[r][0 + 3] = 0 /\ F[r][1 + 3] = 0 /\ F[r][2 + 3] = 0
        /\ F[r + 3][0 + 3] = T[r][0] /\ F[r + 3][1 + 3] = T[r][1] /\ F[r + 3][2 + 3] = T[r][2]
        /\ still => F[r + 3][0] = 0 /\ F[r + 3][1] = 0 /\ F[r + 3][2] = 0
    BY <1>2, <2>1
  <2> QED  BY <1>3, <2>1, <2>2
<1>5. \A r, c \in 0..5 : F[r][c] \in Int
  <2> SUFFICES ASSUME NEW r \in 0..5, NEW c \in 0..5 PROVE F[r][c] \in Int
    OBVIOUS
  <2>1. \E i \in 0..2 : r = i \/ r = i + 3
    <3>1. r \in 0..2 \/ (r - 3 \in 0..2 /\ r = (r - 3) + 3)
      OBVIOUS
    <3> QED  BY <3>1
  <2>2. \E i \in 0..2 : c = i \/ c = i + 3
    <3>1. c \in 0..2 \/ (c - 3 \in 0..2 /\ c = (c - 3) + 3)
      OBVIOUS
    <3> QED  BY <3>1
  <2>3. 0 \in Int
    OBVIOUS
  <2> QED  BY <1>2, <1>3, <2>1, <2>2, <2>3
<1>6. /\ V \in [0..5 -> [C -> Int]]
      /\ \A r \in 0..5, c \in C :
           V[r][c] = F[r][0] * J[0][c] + F[r][1] * J[1][c] + F[r][2] * J[2][c]
                       + F[r][3] * J[3][c] + F[r][4] * J[4][c] + F[r][5] * J[5][c]
  <2>1. DOMAIN F = 0..5
    BY <1>2
  <2> QED  BY <1>5, <2>1, TimesSix
<1> HIDE DEF V
<1>7. \A i \in 0..5, c \in C : J[i][c] \in Int
  OBVIOUS
<1>8. ASSUME NEW r \in 0..2, NEW c \in C
      PROVE  /\ V[r][c] = Turned(r, 0, c) /\ Turned(r, 0, c) \in Int /\ Turned(r, 3, c) \in Int
             /\ still => V[r + 3][c] = Turned(r, 3, c)
  <2>1. /\ J[0][c] \in Int /\ J[1][c] \in Int /\ J[2][c] \in Int
        /\ J[3][c] \in Int /\ J[4][c] \in Int /\ J[5][c] \in Int
    BY <1>7
  <2>2. P.rot[0][r] \in Int /\ P.rot[1][r] \in Int /\ P.rot[2][r] \in Int
    BY <1>3
  <2>3. \A x \in Int : 0 * x = 0
    OBVIOUS
  <2>4. \A x, y \in Int : x * y \in Int
    OBVIOUS
  <2>5. /\ P.rot[0][r] * J[0][c] \in Int /\ P.rot[1][r] * J[1][c] \in Int /\ P.rot[2][r] * J[2][c] \in Int
        /\ P.rot[0][r] * J[3][c] \in Int /\ P.rot[1][r] * J[4][c] \in Int /\ P.rot[2][r] * J[5][c] \in Int
    BY <2>1, <2>2, <2>4
  <2>6. 0 + 1 = 1 /\ 0 + 2 = 2 /\ 3 + 1 = 4 /\ 3 + 2 = 5
    OBVIOUS
  <2>0. r \in 0..5 /\ r + 3 \in 0..5
    OBVIOUS
  <2>10. /\ F[r][0] = P.rot[0][r] /\ F[r][1] = P.rot[1][r] /\ F[r][2] = P.rot[2][r]
         /\ F[r][3] = 0 /\ F[r][4] = 0 /\ F[r][5] = 0
         /\ F[r + 3][3] = P.rot[0][r] /\ F[r + 3][4] = P.rot[1][r] /\ F[r + 3][5] = P.rot[2][r]
         /\ still => F[r + 3][0] = 0 /\ F[r + 3][1] = 0 /\ F[r + 3][2] = 0
    BY <1>4
  <2>7. V[r][c] = Turned(r, 0, c)
    <3>1. V[r][c] = P.rot[0][r] * J[0][c] + P.rot[1][r] * J[1][c] + P.rot[2][r] * J[2][c]
                      + 0 * J[3][c] + 0 * J[4][c] + 0 * J[5][c]
      <4>1. V[r][c] = F[r][0] * J[0][c] + F[r][1] * J[1][c] + F[r][2] * J[2][c]
                        + F[r][3] * J[3][c] + F[r][4] * J[4][c] + F[r][5] * J[5][c]
        BY <1>6, <2>0
      <4>2. /\ F[r][0] = P.rot[0][r] /\ F[r][1] = P.rot[1][r] /\ F[r][2] = P.rot[2][r]
            /\ F[r][3] = 0 /\ F[r][4] = 0 /\ F[r][5] = 0
        BY <2>10
      <4> QED  BY ONLY <4>1, <4>2, Zenon
    <3>2. 0 * J[3][c] = 0 /\ 0 * J[4][c] = 0 /\ 0 * J[5][c] = 0
      BY <2>1, <2>3
    <3> DEFINE x == P.rot[0][r] * J[0][c]
               y == P.rot[1][r] * J[1][c]
               z == P.rot[2][r] * J[2][c]
    <3>3. V[r][c] = x + y + z + 0 + 0 + 0 /\ x \in Int /\ y \in Int /\ z \in Int
      BY <2>5, <3>1, <3>2
    <3>4. Turned(r, 0, c) = x + y + z
      BY <2>6
    <3> HIDE DEF Turned, x, y, z
    <3> QED  BY <3>3, <3>4
  <2>8. still => V[r + 3][c] = Turned(r, 3, c)
    <3> SUFFICES ASSUME still PROVE V[r + 3][c] = Turned(r, 3, c)
      OBVIOUS
    <3>1. V[r + 3][c] = 0 * J[0][c] + 0 * J[1][c] + 0 * J[2][c]
                          + P.rot[0][r] * J[3][c] + P.rot[1][r] * J[4][c] + P.rot[2][r] * J[5][c]
      <4>1. V[r + 3][c] = F[r + 3][0] * J[0][c] + F[r + 3][1] * J[1][c] + F[r + 3][2] * J[2][c]
                            + F[r + 3][3] * J[3][c] + F[r + 3][4] * J[4][c] + F[r + 3][5] * J[5][c]
        BY <1>6, <2>0
      <4>2. /\ F[r + 3][3] = P.rot[0][r] /\ F[r + 3][4] = P.rot[1][r] /\ F[r + 3][5] = P.rot[2][r]
            /\ F[r + 3][0] = 0 /\ F[r + 3][1] = 0 /\ F[r + 3][2] = 0
        BY <2>10
      <4> QED  BY ONLY <4>1, <4>2, Zenon
    <3>2. 0 * J[0][c] = 0 /\ 0 * J[1][c] = 0 /\ 0 * J[2][c] = 0
      BY <2>1, <2>3
    <3> DEFINE x == P.rot[0][r] * J[3][c]
               y == P.rot[1][r] * J[4][c]
               z == P.rot[2][r] * J[5][c]
    <3>3. V[r + 3][c] = 0 + 0 + 0 + x + y + z /\ x \in Int /\ y \in Int /\ z \in Int
      BY <2>5, <3>1, <3>2
    <3>4. Turned(r, 3, c) = x + y + z
      BY <2>6
    <3> HIDE DEF Turned, x, y, z
    <3> QED  BY <3>3, <3>4
  <2> QED  BY <2>5, <2>6, <2>7, <2>8
<1>9. ASSUME NEW first \in {0, 3}, first = 3 => still
      PROVE  Times(P.rot, Part(first)) = [r \in 0..2 |-> [c \in C |-> J[r + first][c]]]
  <2> DEFINE B == Part(first)
  <2>1. ASSUME NEW r \in 0..2, NEW c \in C
        PROVE  B[r][c] = Turned(r, first, c) /\ Turned(r, first, c) \in Int
    <3>1. B[r][c] = V[r + first][c] /\ r + 0 = r
      OBVIOUS
    <3> HIDE DEF B, Turned
    <3> QED  BY <1>8, <1>9, <3>1
  <2>2. B = [r \in 0..2 |-> [c \in C |-> B[r][c]]]
    OBVIOUS
  <2> HIDE DEF B
  <2>3. B \in Matrices(C)
    <3> HIDE DEF Turned
    <3> QED  BY <2>1, <2>2 DEF Matrices
  <2>4. /\ Times(P.rot, B) \in Matrices(C)
        /\ \A r \in 0..2, c \in C :
             Times(P.rot, B)[r][c] = P.rot[r][0] * B[0][c] + P.rot[r][1] * B[1][c] + P.rot[r][2] * B[2][c]
    BY <1>1, <2>3, TimesIs
  <2>5. ASSUME NEW r \in 0..2, NEW c \in C PROVE Times(P.rot, B)[r][c] = J[r + first][c]
    <3> DEFINE v(k) == J[first + k][c]
               w(i) == P.rot[0][i] * v(0) + P.rot[1][i] * v(1) + P.rot[2][i] * v(2)
    <3>1. /\ first + 0 \in 0..5 /\ first + 1 \in 0..5 /\ first + 2 \in 0..5 /\ first + 0 = first
          /\ first + r = r + first /\ 0 \in 0..2 /\ 1 \in 0..2 /\ 2 \in 0..2
          /\ (r = 0 \/ r = 1 \/ r = 2)
      OBVIOUS
    <3>2. v(0) \in Int /\ v(1) \in Int /\ v(2) \in Int
      BY <1>7, <3>1
    <3>3. \A i \in 0..2 : Turned(i, first, c) = w(i)
      BY <3>1
    <3>4. B[0][c] = w(0) /\ B[1][c] = w(1) /\ B[2][c] = w(2)
      <4> HIDE DEF Turned, w
      <4> QED  BY <2>1, <3>1, <3>3
    <3>5. P.rot[r][0] * w(0) + P.rot[r][1] * w(1) + P.rot[r][2] * w(2)
            = IF r = 0 THEN v(0) ELSE IF r = 1 THEN v(1) ELSE v(2)
      <4> DEFINE v0 == v(0)
                 v1 == v(1)
                 v2 == v(2)
                 u(i) == P.rot[0][i] * v0 + P.rot[1][i] * v1 + P.rot[2][i] * v2
      <4>1. v0 \in Int /\ v1 \in Int /\ v2 \in Int
        BY <3>2
      <4>2. w(0) = u(0) /\ w(1) = u(1) /\ w(2) = u(2)
        OBVIOUS
      <4> HIDE DEF v0, v1, v2, w
      <4>3. P.rot[r][0] * u(0) + P.rot[r][1] * u(1) + P.rot[r][2] * u(2)
              = IF r = 0 THEN v0 ELSE IF r = 1 THEN v1 ELSE v2
        <5> DEFINE A == P.rot
        <5>1. A \in Matrices(0..2) /\ Times(A, Transposed(A)) = Unit
          BY <1>1
        <5> HIDE DEF A
        <5>2. A[r][0] * (A[0][0] * v0 + A[1][0] * v1 + A[2][0] * v2)
                + A[r][1] * (A[0][1] * v0 + A[1][1] * v1 + A[2][1] * v2)
                + A[r][2] * (A[0][2] * v0 + A[1][2] * v1 + A[2][2] * v2)
                = IF r = 0 THEN v0 ELSE IF r = 1 THEN v1 ELSE v2
          BY <4>1, <5>1, TurnedBack
        <5> QED  BY <5>2 DEF A
      <4> HIDE DEF u
      <4> QED  BY <4>2, <4>3 DEF v0, v1, v2
    <3>6. v(r) = IF r = 0 THEN v(0) ELSE IF r = 1 THEN v(1) ELSE v(2)
      BY <3>1
    <3>7. v(r) = J[r + first][c]
      BY <3>1
    <3> HIDE DEF v, w
    <3> QED  BY <2>4, <3>4, <3>5, <3>6, <3>7
  <2> DEFINE Z == Times(P.rot, B)
  <2>6. Z = [r \in 0..2 |-> [c \in C |-> Z[r][c]]]
    <3> HIDE DEF Z
    <3>1. Z \in [0..2 -> [C -> Int]]
      BY <2>4 DEF Matrices, Z
    <3> QED  BY <3>1
  <2> QED  BY <2>5, <2>6 DEF B
<1>10. Times(P.rot, Part(0)) = [r \in 0..2 |-> [c \in C |-> J[r][c]]]
  <2>1. Times(P.rot, Part(0)) = [r \in 0..2 |-> [c \in C |-> J[r + 0][c]]]
    <3> HIDE DEF Part
    <3> QED  BY <1>9
  <2>2. \A r \in 0..2 : r + 0 = r
    OBVIOUS
  <2> HIDE DEF Part
  <2> QED  BY <2>1, <2>2
<1>11. still => Times(P.rot, Part(3)) = [r \in 0..2 |-> [c \in C |-> J[r + 3][c]]]
  <2> HIDE DEF Part
  <2> QED  BY <1>9
<1>12. Part(0) = Upper(V) /\ Part(3) = Lower(V)
  <2>1. \A r \in 0..2 : r + 0 = r /\ r \in 0..5 /\ r + 3 \in 0..5
    OBVIOUS
  <2>2. \A r \in 0..5 : V[r] = [c \in C |-> V[r][c]]
    BY <1>6
  <2> QED  BY <2>1, <2>2 DEF Upper, Lower
<1>13. /\ [r \in 0..2 |-> [c \in C |-> J[r][c]]] = Upper(J)
       /\ [r \in 0..2 |-> [c \in C |-> J[r + 3][c]]] = Lower(J)
  <2>1. \A r \in 0..2 : r \in 0..5 /\ r + 3 \in 0..5
    OBVIOUS
  <2>2. \A r \in 0..5 : J[r] = [c \in C |-> J[r][c]]
    OBVIOUS
  <2> QED  BY <2>1, <2>2 DEF Upper, Lower
<1>14. Times(P.rot, Upper(V)) = Upper(J) /\ (still => Times(P.rot, Lower(V)) = Lower(J))
  <2> HIDE DEF Part
  <2> QED  BY <1>10, <1>11, <1>12, <1>13
<1> QED  BY <1>6, <1>14 DEF still, V, F

LEMMA JacobianIsRelative == RelativeJacobian
<1> SUFFICES ASSUME NEW layout \in Layouts, NEW fact \in Facts, NEW a \in Arms, NEW frame \in Frames
             PROVE  LET m == mjModel(layout)
                        base == fact.pose[Link(a, 0)]
                        J == Columns(zeroJacobianImpl(mjData(m, fact), indices(m, a), frame),
                                     6, kNumberOfJoints)
                        InWorld(first) == Times(base.rot, [r \in 0..2 |-> J[r + first]])
                        Own(first) == [r \in 0..2 |-> [j \in Joints |->
                                        fact.slope[Site(a, frame)][r + first][Dof(a, j)]]]
                    IN  /\ InWorld(0) = Own(0)
                        /\ base.pos = [i \in 0..2 |-> 0] => InWorld(3) = Own(3)
  BY DEF RelativeJacobian
<1> DEFINE m == mjModel(layout)
           d == mjData(m, fact)
           idx == indices(m, a)
           P == fact.pose[Link(a, 0)]
           slope == fact.slope[<<a, "site", frame>>]
           G == get6x7Jacobian(d, idx, SiteOf(idx, frame))
           V == Times(composeForceTransform(mju_negPose(P)), G)
           Own(first) == [r \in 0..2 |-> [j \in Joints |-> slope[r + first][Dof(a, j)]]]
<1>1. 0 \in Frames /\ IsPose(P)
  <2>1. 0 \in Frames
    BY JointsAssumption DEF Frames
  <2> QED  BY <2>1, PosesOfParts
<1>2. SiteOf(idx, frame) = idx.site[frame] /\ Site(a, frame) = <<a, "site", frame>>
  BY DEF SiteOf, Site
<1>3. d.body[idx.link[0] + 1] = P
  BY <1>1, DataOfArm, ZenonT(40)
<1>4. \A j \in Joints, r \in 0..2 :
        /\ d.jacp[idx.site[frame] + 1][r][idx.qvel[j] + 1] = slope[r][Dof(a, j)]
        /\ d.jacr[idx.site[frame] + 1][r][idx.qvel[j] + 1] = slope[3 + r][Dof(a, j)]
  BY DataOfArm, ZenonT(40)
<1>5. \A r \in 0..5, j \in Joints : slope[r][Dof(a, j)] \in Int
  <2>1. slope \in [0..5 -> [Dofs -> Int]]
    <3>1. <<a, "site", frame>> \in SiteNames
      BY DEF SiteNames
    <3>2. fact.slope \in [SiteNames -> [0..5 -> [Dofs -> Int]]]
      BY FactsAssumption DEF IsFact
    <3> QED  BY <3>1, <3>2
  <2>2. \A j \in Joints : Dof(a, j) \in Dofs
    BY DEF Dof, Dofs, JointNames
  <2> HIDE DEF slope
  <2> QED  BY <2>1, <2>2
<1> HIDE DEF d, idx, m, slope
<1>6. zeroJacobianImpl(d, idx, frame) = convertToColMajor(V, 6, kNumberOfJoints)
  BY <1>3 DEF zeroJacobianImpl, getXPosQuatbyLink
<1>7. G \in [0..5 -> [Joints -> Int]] /\ \A r \in 0..5, j \in Joints : G[r][j] = slope[r][Dof(a, j)]
  <2>1. G = [r \in 0..5 |-> [j \in Joints |->
              IF r < 3 THEN d.jacp[idx.site[frame] + 1][r][idx.qvel[j] + 1]
                       ELSE d.jacr[idx.site[frame] + 1][r - 3][idx.qvel[j] + 1]]]
    BY <1>2 DEF get6x7Jacobian
  <2>3. DOMAIN G = 0..5 /\ G = [r \in 0..5 |-> [j \in Joints |-> G[r][j]]]
    BY <2>1
  <2> HIDE DEF G
  <2>2. ASSUME NEW r \in 0..5, NEW j \in Joints PROVE G[r][j] = slope[r][Dof(a, j)]
    <3>1. CASE r < 3
      <4>1. r \in 0..2
        BY <3>1
      <4> QED  BY <1>4, <2>1, <3>1, <4>1
    <3>2. CASE ~ (r < 3)
      <4>1. r - 3 \in 0..2 /\ 3 + (r - 3) = r
        BY <3>2
      <4>2. G[r][j] = d.jacr[idx.site[frame] + 1][r - 3][idx.qvel[j] + 1]
        BY <2>1, <3>2
      <4>3. \A k \in 0..2 : d.jacr[idx.site[frame] + 1][k][idx.qvel[j] + 1] = slope[3 + k][Dof(a, j)]
        BY <1>4
      <4>4. d.jacr[idx.site[frame] + 1][r - 3][idx.qvel[j] + 1] = slope[3 + (r - 3)][Dof(a, j)]
        BY <4>1, <4>3
      <4> QED  BY <4>1, <4>2, <4>4
    <3> QED  BY <3>1, <3>2
  <2> QED  BY <1>5, <2>2, <2>3
<1> HIDE DEF G, P
<1>8. /\ V \in [0..5 -> [Joints -> Int]] /\ Times(P.rot, Upper(V)) = Upper(G)
      /\ P.pos = [i \in 0..2 |-> 0] => Times(P.rot, Lower(V)) = Lower(G)
  BY <1>1, <1>7, VelocitiesTurned
<1> HIDE DEF V
<1>9. Columns(zeroJacobianImpl(d, idx, frame), 6, kNumberOfJoints) = V
  <2> DEFINE six == 6
             R == 0..5
  <2>1. /\ six \in Nat \ {0} /\ R = 0..(six - 1) /\ kNumberOfJoints \in Nat
        /\ Joints = 0..(kNumberOfJoints - 1) /\ V \in [R -> [Joints -> Int]]
    BY <1>8, JointsAssumption DEF Joints
  <2>2. zeroJacobianImpl(d, idx, frame) = convertToColMajor(V, six, kNumberOfJoints)
    BY <1>6
  <2> HIDE DEF six, R
  <2>3. Columns(zeroJacobianImpl(d, idx, frame), six, kNumberOfJoints) = V
    BY <2>1, <2>2, ColumnsOfMajor
  <2> QED  BY <2>3 DEF six
<1>10. Upper(G) = Own(0) /\ Lower(G) = Own(3)
  <2>1. \A r \in 0..2 : r + 0 = r /\ r \in 0..5 /\ r + 3 \in 0..5
    OBVIOUS
  <2>2. \A r \in 0..5 : G[r] = [j \in Joints |-> slope[r][Dof(a, j)]]
    BY <1>7
  <2> QED  BY <2>1, <2>2 DEF Upper, Lower
<1>11. Upper(V) = [r \in 0..2 |-> V[r + 0]]
  <2>1. \A r \in 0..2 : r + 0 = r
    OBVIOUS
  <2> QED  BY <2>1 DEF Upper
<1>12. /\ Times(P.rot, [r \in 0..2 |-> V[r + 0]]) = Own(0)
       /\ P.pos = [i \in 0..2 |-> 0] => Times(P.rot, [r \in 0..2 |-> V[r + 3]]) = Own(3)
  <2> HIDE DEF Own
  <2> QED  BY <1>8, <1>10, <1>11 DEF Lower
<1> QED  BY <1>2, <1>9, <1>12 DEF d, idx, m, P, slope, Own

(* For any scene, any poses and any order, the poses and the velocities    *)
(* the model gives are those of the arm's own sites in the frame of its    *)
(* base, the angular velocities for a base at the origin (poseImpl,        *)
(* zeroJacobianImpl, populateFrankaState).                                 *)
THEOREM PosesAreInBaseFrame == Spec => []InBaseFrame
<1>1. RelativePoses /\ RelativeJacobian
  BY PosesAreRelative, JacobianIsRelative
<1>2. InBaseFrame
  BY <1>1 DEF InBaseFrame
<1> QED  BY <1>2, PTL

=============================================================================
