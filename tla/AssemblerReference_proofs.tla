---------------------- MODULE AssemblerReference_proofs ----------------------
(***************************************************************************)
(* One pass with queued references writes what an assembler writes that    *)
(* knows all labels from the start, for every program of any length.       *)
(*                                                                         *)
(* The argument: the statements are laid out one behind the other, so that *)
(* at a position stands one byte of one statement or none (Stands,         *)
(* StandsOnce).  At all times the file ends where the layout has come to,  *)
(* each label is defined where its name first is, or has its first         *)
(* reference (LabelsTell), and each byte of the file is what stands there, *)
(* or a reference to it is pending (CellsTell).  LInv joins them with how  *)
(* far the program has been read, and is inductive.                        *)
(***************************************************************************)
EXTENDS Assembler_proofs, WellFoundedInduction

-----------------------------------------------------------------------------
(* Induction: a set of numbers that is not empty has a least one, and what *)
(* is defined by recursion over 0 .. N exists.                             *)
LEMMA LeastOfNats ==
  ASSUME NEW S \in SUBSET Nat, S # {}
  PROVE  Min(S) \in S /\ \A y \in S : Min(S) <= y
<1>1. PICK x \in S : \A y \in S : ~(<<y, x>> \in OpToRel(<, Nat))
  BY NatLessThanWellFounded, WFMin
<1>2. \A y \in S : ~(y < x)
  BY <1>1 DEF OpToRel
<1>3. \E m \in S : \A y \in S : m <= y
  BY <1>2
<1> QED
  BY <1>3 DEF Min

(* A set of numbers that has 0, and with a number its successor up to N,   *)
(* has them all.                                                           *)
LEMMA Induction ==
  ASSUME NEW N \in Nat, NEW Holds,
         0 \in Holds, \A n \in 1 .. N : n - 1 \in Holds => n \in Holds
  PROVE  \A n \in 0 .. N : n \in Holds
<1> DEFINE Bad == {n \in 0 .. N : n \notin Holds}
<1>1. SUFFICES ASSUME Bad # {} PROVE FALSE
  OBVIOUS
<1> DEFINE n == Min(Bad)
<1>2. n \in Bad /\ \A m \in Bad : n <= m
  <2>1. Bad \in SUBSET Nat
    OBVIOUS
  <2> HIDE DEF Bad
  <2> QED
    BY <2>1, <1>1, LeastOfNats
<1> HIDE DEF n
<1>3. n \in 1 .. N /\ n - 1 \in 0 .. N /\ n - 1 \notin Bad
  BY <1>2
<1> QED
  BY <1>2, <1>3

Follows(f, n, first, G) == f[0] = first /\ \A i \in 1 .. n : f[i] = G[<<i, f[i - 1]>>]

LEMMA Recursion ==
  ASSUME NEW N \in Nat, NEW D, NEW first \in D, NEW G \in [(1 .. N) \X D -> D]
  PROVE  \E f \in [0 .. N -> D] : Follows(f, N, first, G)
<1> DEFINE Holds == {n \in 0 .. N : \E f \in [0 .. n -> D] : Follows(f, n, first, G)}
<1>1. 0 \in Holds
  <2> DEFINE f == [i \in 0 .. 0 |-> first]
  <2>1. f \in [0 .. 0 -> D] /\ Follows(f, 0, first, G)
    BY DEF Follows
  <2> HIDE DEF f
  <2> QED
    BY <2>1
<1>2. ASSUME NEW n \in 1 .. N, n - 1 \in Holds PROVE n \in Holds
  <2>1. PICK f \in [0 .. n - 1 -> D] : Follows(f, n - 1, first, G)
    BY <1>2
  <2> DEFINE last == G[<<n, f[n - 1]>>]
             g == [i \in 0 .. n |-> IF i = n THEN last ELSE f[i]]
  <2>2. last \in D
    <3>1. f[n - 1] \in D
      OBVIOUS
    <3> QED
      BY <3>1
  <2>3. /\ g[n] = last
        /\ \A i \in 0 .. n - 1 : i \in 0 .. n /\ g[i] = f[i]
        /\ g \in [0 .. n -> D]
    <3> HIDE DEF last
    <3>1. \A i \in 0 .. n : i # n => i \in 0 .. n - 1
      OBVIOUS
    <3> QED
      BY <2>2, <3>1
  <2> HIDE DEF g
  <2>4. \A i \in 1 .. n : g[i] = G[<<i, g[i - 1]>>]
    <3> SUFFICES ASSUME NEW i \in 1 .. n PROVE g[i] = G[<<i, g[i - 1]>>]
      OBVIOUS
    <3>1. i - 1 \in 0 .. n - 1 /\ g[i - 1] = f[i - 1]
      BY <2>3
    <3>2. CASE i = n
      <4>1. g[i] = G[<<i, f[i - 1]>>]
        BY <3>2, <2>3
      <4> QED
        BY <4>1, <3>1
    <3>3. CASE i # n
      <4>1. i \in 0 .. n - 1 /\ i \in 1 .. n - 1
        BY <3>3
      <4> QED
        BY <4>1, <3>1, <2>1, <2>3 DEF Follows
    <3> QED
      BY <3>2, <3>3
  <2>5. g[0] = first
    <3>1. 0 \in 0 .. n - 1
      OBVIOUS
    <3> QED
      BY <3>1, <2>1, <2>3 DEF Follows
  <2>6. Follows(g, n, first, G)
    BY <2>4, <2>5 DEF Follows
  <2> QED
    BY <2>3, <2>6
<1> HIDE DEF Holds
<1>3. N \in Holds
  <2>1. N \in 0 .. N
    OBVIOUS
  <2> QED
    BY <1>1, <1>2, <2>1, Induction
<1> QED
  BY <1>3 DEF Holds

-----------------------------------------------------------------------------
(* FlattenSeq by its prefixes. *)
Joined(seqs) ==
  LET joined[i \in 0 .. Len(seqs)] == IF i = 0 THEN <<>> ELSE joined[i - 1] \o seqs[i] IN joined

IsJoined(f, seqs) == f = [i \in 0 .. Len(seqs) |-> IF i = 0 THEN <<>> ELSE f[i - 1] \o seqs[i]]

LEMMA JoinedBySteps ==
  ASSUME NEW B, NEW seqs \in Seq(Seq(B))
  PROVE  LET f == Joined(seqs) IN
           /\ f \in [0 .. Len(seqs) -> Seq(B)] /\ f[0] = <<>>
           /\ \A i \in 1 .. Len(seqs) : f[i] = f[i - 1] \o seqs[i]
<1> DEFINE n == Len(seqs)
           G == [x \in (1 .. n) \X Seq(B) |-> x[2] \o seqs[x[1]]]
<1>1. n \in Nat /\ \A i \in 1 .. n : seqs[i] \in Seq(B)
  OBVIOUS
<1>2. G \in [(1 .. n) \X Seq(B) -> Seq(B)]
  BY <1>1
<1>3. \A i \in 1 .. n, s \in Seq(B) : G[<<i, s>>] = s \o seqs[i]
  OBVIOUS
<1> HIDE DEF G
<1>4. PICK f \in [0 .. n -> Seq(B)] : Follows(f, n, <<>>, G)
  <2>1. <<>> \in Seq(B)
    OBVIOUS
  <2> HIDE DEF n
  <2> QED
    BY <2>1, <1>1, <1>2, Recursion
<1>4a. f \in [0 .. n -> Seq(B)]
  BY <1>4
<1> HIDE DEF n
<1>5. f[0] = <<>> /\ \A i \in 1 .. n : f[i] = f[i - 1] \o seqs[i]
  <2> SUFFICES ASSUME NEW i \in 1 .. n PROVE f[i] = f[i - 1] \o seqs[i]
    BY <1>4 DEF Follows
  <2>1. f[i - 1] \in Seq(B)
    BY <1>1, <1>4a
  <2> QED
    BY <2>1, <1>3, <1>4 DEF Follows
<1>6. IsJoined(f, seqs)
  <2>1. ASSUME NEW i \in 0 .. n PROVE f[i] = IF i = 0 THEN <<>> ELSE f[i - 1] \o seqs[i]
    <3>1. i = 0 \/ i \in 1 .. n
      BY <1>1
    <3> QED
      BY <3>1, <1>5
  <2> QED
    BY <2>1, <1>4a DEF IsJoined, n
<1>7. Joined(seqs) = CHOOSE g : IsJoined(g, seqs)
  BY DEF Joined, IsJoined
<1>8. IsJoined(Joined(seqs), seqs)
  BY <1>6, <1>7
<1> DEFINE j == Joined(seqs)
<1> HIDE DEF j
<1>9. j = [i \in 0 .. n |-> IF i = 0 THEN <<>> ELSE j[i - 1] \o seqs[i]]
  BY <1>8 DEF IsJoined, j, n
<1>9a. \A i \in 0 .. n : j[i] = IF i = 0 THEN <<>> ELSE j[i - 1] \o seqs[i]
  BY <1>9
<1>10. j[0] = <<>> /\ \A i \in 1 .. n : j[i] = j[i - 1] \o seqs[i]
  <2>1. 0 \in 0 .. n /\ \A i \in 1 .. n : i \in 0 .. n /\ i # 0
    BY <1>1
  <2> QED
    BY <1>9a, <2>1
<1>11. \A i \in 0 .. n : j[i] \in Seq(B)
  <2> DEFINE Holds == {i \in 0 .. n : j[i] \in Seq(B)}
  <2>1. 0 \in Holds
    <3>1. <<>> \in Seq(B) /\ 0 \in 0 .. n
      BY <1>1
    <3> QED
      BY <1>10, <3>1
  <2>2. ASSUME NEW i \in 1 .. n, i - 1 \in Holds PROVE i \in Holds
    <3>1. j[i - 1] \in Seq(B) /\ i \in 0 .. n
      BY <2>2, <1>1
    <3>2. j[i - 1] \o seqs[i] \in Seq(B)
      BY <3>1, <1>1
    <3> QED
      BY <3>1, <3>2, <1>10
  <2> HIDE DEF Holds
  <2>3. \A i \in 0 .. n : i \in Holds
    BY <2>1, <2>2, <1>1, Induction
  <2> QED
    BY <2>3 DEF Holds
<1>12. j \in [0 .. n -> Seq(B)]
  BY <1>9, <1>11
<1> QED
  BY <1>10, <1>12 DEF j, n

(* The elements of a concatenation. *)
Chained(u, s, t) ==
  /\ Len(s) \in Nat /\ Len(t) \in Nat /\ Len(u) \in Nat
  /\ Len(u) = Len(s) + Len(t) /\ Len(s) <= Len(u)
  /\ \A k \in 1 .. Len(s) : u[k] = s[k]
  /\ \A k \in 1 .. Len(t) : u[Len(s) + k] = t[k]

LEMMA ConcatChains ==
  ASSUME NEW B, NEW s \in Seq(B), NEW t \in Seq(B)
  PROVE  s \o t \in Seq(B) /\ Chained(s \o t, s, t)
<1>1. \A k \in 1 .. Len(t) : Len(s) + k \in 1 .. Len(s) + Len(t) /\ Len(s) + k > Len(s) /\ (Len(s) + k) - Len(s) = k
  OBVIOUS
<1> QED
  BY <1>1 DEF Chained

IsFlattened(f, seqs) ==
  f = [i \in 1 .. Len(seqs) |-> IF i = 1 THEN seqs[i] ELSE f[i - 1] \o seqs[i]]

LEMMA FlattenIsJoined ==
  ASSUME NEW B, NEW seqs \in Seq(Seq(B))
  PROVE  FlattenSeq(seqs) = Joined(seqs)[Len(seqs)]
<1> DEFINE n == Len(seqs)
           j == Joined(seqs)
<1>1. n \in Nat /\ \A i \in 1 .. n : seqs[i] \in Seq(B)
  OBVIOUS
<1>2. /\ \A i \in 0 .. n : j[i] \in Seq(B)
      /\ j[0] = <<>> /\ \A i \in 1 .. n : j[i] = j[i - 1] \o seqs[i]
  BY JoinedBySteps
<1> HIDE DEF j, n
<1>3. CASE n = 0
  <2>1. FlattenSeq(seqs) = seqs /\ seqs = <<>>
    BY <1>3 DEF FlattenSeq, n
  <2> QED
    BY <2>1, <1>2, <1>3 DEF j, n
<1>4. CASE n # 0
  <2> DEFINE g == [i \in 1 .. n |-> j[i]]
  <2>1. 1 \in 1 .. n /\ n \in 1 .. n
    BY <1>1, <1>4
  <2>2. j[1] = seqs[1]
    <3>1. j[1] = <<>> \o seqs[1]
      <4>1. j[1] = j[1 - 1] \o seqs[1]
        BY <1>2, <2>1
      <4>1a. 1 - 1 = 0
        OBVIOUS
      <4> QED
        BY <4>1, <4>1a, <1>2
    <3> QED
      BY <3>1, <1>1, <2>1
  <2>3. IsFlattened(g, seqs)
    <3>1. ASSUME NEW i \in 1 .. n PROVE g[i] = IF i = 1 THEN seqs[i] ELSE g[i - 1] \o seqs[i]
      <4>1. CASE i = 1
        BY <4>1, <2>2
      <4>2. CASE i # 1
        <5>1. i - 1 \in 1 .. n
          BY <4>2, <1>1
        <5>2. g[i - 1] = j[i - 1] /\ g[i] = j[i]
          BY <5>1
        <5> QED
          BY <4>2, <5>2, <1>2
      <4> QED
        BY <4>1, <4>2
    <3>2. g = [i \in 1 .. n |-> g[i]]
      OBVIOUS
    <3> HIDE DEF g
    <3> QED
      BY <3>1, <3>2 DEF IsFlattened, n
  <2> HIDE DEF g
  <2>4. FlattenSeq(seqs) = (CHOOSE f : IsFlattened(f, seqs))[n]
    BY <1>4 DEF FlattenSeq, IsFlattened, n
  <2> DEFINE f == CHOOSE f : IsFlattened(f, seqs)
  <2>5. IsFlattened(f, seqs)
    BY <2>3
  <2> HIDE DEF f
  <2>6. \A i \in 1 .. n : f[i] = IF i = 1 THEN seqs[i] ELSE f[i - 1] \o seqs[i]
    BY <2>5 DEF IsFlattened, n
  <2> DEFINE Holds == {i \in 0 .. n : i = 0 \/ f[i] = j[i]}
  <2>7. 0 \in Holds
    BY <1>1
  <2>8. ASSUME NEW i \in 1 .. n, i - 1 \in Holds PROVE i \in Holds
    <3>1. CASE i = 1
      BY <3>1, <2>2, <2>6, <1>1
    <3>2. CASE i # 1
      <4>1. f[i - 1] = j[i - 1]
        BY <2>8, <3>2
      <4>2. i \in 0 .. n
        BY <1>1
      <4> QED
        BY <4>1, <4>2, <3>2, <2>6, <1>2
    <3> QED
      BY <3>1, <3>2
  <2> HIDE DEF Holds
  <2>9. n \in Holds
    <3>1. n \in 0 .. n
      BY <1>1
    <3> QED
      BY <2>7, <2>8, <1>1, <3>1, Induction
  <2>10. f[n] = j[n]
    BY <2>9, <1>4 DEF Holds
  <2> QED
    BY <2>10, <2>4 DEF f, j, n
<1> QED
  BY <1>3, <1>4

(* Where a piece stands in the whole. *)
StandsAt(all, start, piece) ==
  /\ start \in Nat /\ Len(piece) \in Nat /\ Len(all) \in Nat
  /\ start + Len(piece) <= Len(all)
  /\ \A k \in 1 .. Len(piece) : all[start + k] = piece[k]

LEMMA PiecesStand ==
  ASSUME NEW B, NEW seqs \in Seq(Seq(B)), NEW i \in 1 .. Len(seqs)
  PROVE  /\ FlattenSeq(seqs) \in Seq(B)
         /\ Len(Joined(seqs)[i]) = Len(Joined(seqs)[i - 1]) + Len(seqs[i])
         /\ StandsAt(FlattenSeq(seqs), Len(Joined(seqs)[i - 1]), seqs[i])
<1> DEFINE n == Len(seqs)
           j == Joined(seqs)
<1>1. n \in Nat /\ \A k \in 1 .. n : seqs[k] \in Seq(B)
  OBVIOUS
<1>2. /\ \A k \in 0 .. n : j[k] \in Seq(B)
      /\ j[0] = <<>> /\ \A k \in 1 .. n : j[k] = j[k - 1] \o seqs[k]
  BY JoinedBySteps
<1>3. FlattenSeq(seqs) = j[n]
  BY FlattenIsJoined
<1>4. i \in 1 .. n /\ i - 1 \in 0 .. n /\ i \in 0 .. n
  OBVIOUS
<1> HIDE DEF j, n
<1> DEFINE start == Len(j[i - 1])
<1>5. /\ start \in Nat /\ Len(j[i]) = start + Len(seqs[i])
      /\ \A k \in 1 .. Len(seqs[i]) : j[i][start + k] = seqs[i][k]
  <2>1. j[i - 1] \in Seq(B) /\ seqs[i] \in Seq(B) /\ j[i] = j[i - 1] \o seqs[i]
    BY <1>1, <1>2, <1>4
  <2>2. Chained(j[i], j[i - 1], seqs[i])
    BY <2>1, ConcatChains
  <2> QED
    BY <2>2 DEF Chained
<1> DEFINE len == Len(j[i])
           Holds == {m \in 0 .. n : m < i \/ (len <= Len(j[m]) /\ \A k \in 1 .. len : j[m][k] = j[i][k])}
<1>6. len \in Nat
  BY <1>2, <1>4
<1> HIDE DEF len
<1>7. 0 \in Holds
  BY <1>1, <1>4
<1>8. ASSUME NEW m \in 1 .. n, m - 1 \in Holds PROVE m \in Holds
  <2>0. m \in 0 .. n
    BY <1>1
  <2>1. CASE m < i
    BY <2>0, <2>1
  <2>2. CASE m = i
    BY <2>0, <2>2, <1>6 DEF len
  <2>3. CASE m > i
    <3>1. len <= Len(j[m - 1]) /\ \A k \in 1 .. len : j[m - 1][k] = j[i][k]
      BY <1>8, <2>3, <1>4 DEF Holds
    <3>2. j[m - 1] \in Seq(B) /\ seqs[m] \in Seq(B) /\ j[m] = j[m - 1] \o seqs[m]
      <4>1. m - 1 \in 0 .. n
        BY <1>1
      <4> QED
        BY <4>1, <1>1, <1>2
    <3>3. Chained(j[m], j[m - 1], seqs[m])
      BY <3>2, ConcatChains
    <3>3a. Len(j[m - 1]) <= Len(j[m])
      BY <3>3 DEF Chained
    <3>3b. \A k \in 1 .. Len(j[m - 1]) : j[m][k] = j[m - 1][k]
      BY <3>3 DEF Chained
    <3>4. Len(j[m - 1]) <= Len(j[m]) /\ \A k \in 1 .. Len(j[m - 1]) : j[m][k] = j[m - 1][k]
      BY <3>3a, <3>3b
    <3>5. Len(j[m]) \in Nat /\ Len(j[m - 1]) \in Nat
      BY <3>3 DEF Chained
    <3>6. len <= Len(j[m]) /\ \A k \in 1 .. len : k \in 1 .. Len(j[m - 1])
      BY <3>1, <3>4, <3>5, <1>6
    <3>7. len <= Len(j[m]) /\ \A k \in 1 .. len : j[m][k] = j[i][k]
      BY <3>1, <3>4, <3>6
    <3> QED
      BY <3>7, <2>0 DEF Holds
  <2> QED
    BY <2>1, <2>2, <2>3, <1>4
<1> HIDE DEF Holds
<1>9. n \in Holds
  <2>1. n \in 0 .. n
    BY <1>1
  <2> QED
    BY <1>7, <1>8, <1>1, <2>1, Induction
<1>10. len <= Len(j[n]) /\ \A k \in 1 .. len : j[n][k] = j[i][k]
  BY <1>9, <1>4, <1>1 DEF Holds
<1>11. j[n] \in Seq(B)
  BY <1>1, <1>2
<1>12. Len(seqs[i]) \in Nat
  BY <1>1, <1>4
<1>13. start + Len(seqs[i]) <= Len(j[n]) /\ \A k \in 1 .. Len(seqs[i]) : j[n][start + k] = seqs[i][k]
  <2>1. ASSUME NEW k \in 1 .. Len(seqs[i]) PROVE j[n][start + k] = seqs[i][k]
    <3>1. len = start + Len(seqs[i]) /\ start \in Nat
      BY <1>5 DEF len
    <3>1a. start + k \in 1 .. len
      <4> HIDE DEF start
      <4> QED
        BY <3>1, <1>12
    <3>1b. j[i][start + k] = seqs[i][k]
      BY <1>5
    <3> QED
      BY <3>1a, <3>1b, <1>10
  <2> QED
    BY <2>1, <1>5, <1>10 DEF len
<1>14. StandsAt(j[n], start, seqs[i])
  <2>1. Len(j[n]) \in Nat
    BY <1>11
  <2> HIDE DEF start
  <2> QED
    BY <2>1, <1>5, <1>12, <1>13 DEF StandsAt
<1> QED
  BY <1>3, <1>5, <1>11, <1>14 DEF j, n

(* Pieces without an element, and pieces of two elements each. *)
LEMMA EmptyPieces ==
  ASSUME NEW B, NEW seqs \in Seq(Seq(B)), \A i \in 1 .. Len(seqs) : seqs[i] = <<>>
  PROVE  /\ FlattenSeq(seqs) = <<>>
         /\ \A i \in 0 .. Len(seqs) : Joined(seqs)[i] = <<>>
<1> DEFINE n == Len(seqs)
           j == Joined(seqs)
           Holds == {i \in 0 .. n : j[i] = <<>>}
<1>1. n \in Nat /\ FlattenSeq(seqs) = j[n]
  BY FlattenIsJoined
<1>2. j[0] = <<>> /\ \A i \in 1 .. n : j[i] = j[i - 1] \o seqs[i] /\ seqs[i] = <<>>
  BY JoinedBySteps
<1> HIDE DEF n, j
<1>3. 0 \in Holds
  BY <1>1, <1>2
<1>4. ASSUME NEW i \in 1 .. n, i - 1 \in Holds PROVE i \in Holds
  <2>1. j[i] = <<>> \o <<>>
    BY <1>2, <1>4
  <2>2. j[i] = <<>> /\ i \in 0 .. n
    BY <2>1, <1>1
  <2> QED
    BY <2>2
<1> HIDE DEF Holds
<1>5. \A i \in 0 .. n : i \in Holds
  BY <1>3, <1>4, <1>1, Induction
<1>6. \A i \in 0 .. n : j[i] = <<>>
  BY <1>5 DEF Holds
<1>7. n \in 0 .. n
  BY <1>1
<1> QED
  BY <1>1, <1>6, <1>7 DEF n, j

LEMMA PairPieces ==
  ASSUME NEW B, NEW seqs \in Seq(Seq(B)), \A i \in 1 .. Len(seqs) : Len(seqs[i]) = 2
  PROVE  /\ FlattenSeq(seqs) \in Seq(B)
         /\ Len(FlattenSeq(seqs)) = 2 * Len(seqs)
         /\ \A i \in 1 .. Len(seqs) :
              /\ FlattenSeq(seqs)[2 * i - 1] = seqs[i][1]
              /\ FlattenSeq(seqs)[2 * i] = seqs[i][2]
<1> DEFINE n == Len(seqs)
           j == Joined(seqs)
           all == FlattenSeq(seqs)
           Holds == {i \in 0 .. n : Len(j[i]) = 2 * i}
<1>1. n \in Nat /\ all = j[n]
  BY FlattenIsJoined
<1>2. j[0] = <<>> /\ \A i \in 0 .. n : j[i] \in Seq(B)
  BY JoinedBySteps
<1>3a. ASSUME NEW i \in 1 .. n
       PROVE  Len(j[i]) = Len(j[i - 1]) + 2 /\ StandsAt(all, Len(j[i - 1]), seqs[i]) /\ Len(seqs[i]) = 2
  BY PiecesStand
<1> HIDE DEF n, j, all
<1>3. ASSUME NEW i \in 1 .. n
      PROVE  /\ Len(j[i]) = Len(j[i - 1]) + 2 /\ Len(j[i - 1]) \in Nat
             /\ all[Len(j[i - 1]) + 1] = seqs[i][1] /\ all[Len(j[i - 1]) + 2] = seqs[i][2]
  <2>1. 1 \in 1 .. 2 /\ 2 \in 1 .. 2
    OBVIOUS
  <2> QED
    BY <2>1, <1>3a DEF StandsAt
<1>4. 0 \in Holds
  BY <1>1, <1>2
<1>5. ASSUME NEW i \in 1 .. n, i - 1 \in Holds PROVE i \in Holds
  <2>1. Len(j[i]) = 2 * (i - 1) + 2
    BY <1>3, <1>5
  <2>2. 2 * (i - 1) + 2 = 2 * i /\ i \in 0 .. n
    BY <1>1
  <2> QED
    BY <2>1, <2>2
<1> HIDE DEF Holds
<1>6. \A i \in 0 .. n : i \in Holds
  BY <1>4, <1>5, <1>1, Induction
<1>7. \A i \in 0 .. n : Len(j[i]) = 2 * i
  BY <1>6 DEF Holds
<1>8. n \in 0 .. n
  BY <1>1
<1>9. ASSUME NEW i \in 1 .. n PROVE all[2 * i - 1] = seqs[i][1] /\ all[2 * i] = seqs[i][2]
  <2>1. i - 1 \in 0 .. n /\ 2 * (i - 1) + 1 = 2 * i - 1 /\ 2 * (i - 1) + 2 = 2 * i
    BY <1>1
  <2>2. Len(j[i - 1]) = 2 * (i - 1)
    BY <2>1, <1>7
  <2>3. all[Len(j[i - 1]) + 1] = seqs[i][1] /\ all[Len(j[i - 1]) + 2] = seqs[i][2]
    BY <1>3
  <2> QED
    BY <2>1, <2>2, <2>3
<1> QED
  BY <1>1, <1>2, <1>7, <1>8, <1>9 DEF n, j, all

-----------------------------------------------------------------------------
(* The bytes of a statement are a sequence. *)
ByteOf == [byte : Int] \cup [name : Texts, high : BOOLEAN]

LEMMA ByteRecords ==
  /\ \A b \in Int : Fixed(b) \in ByteOf
  /\ \A name \in Texts : Half(name, TRUE) \in ByteOf /\ Half(name, FALSE) \in ByteOf
BY DEF Fixed, Half, ByteOf

LEMMA HalvesDiffer ==
  /\ \A b, name, high : Fixed(b) # Half(name, high)
  /\ \A b, c : Fixed(b) = Fixed(c) => b = c
  /\ \A n, m, g, h : Half(n, g) = Half(m, h) => n = m /\ g = h
<1>1. ASSUME NEW b, NEW name, NEW high PROVE Fixed(b) # Half(name, high)
  <2>1. DOMAIN Fixed(b) = {"byte"} /\ DOMAIN Half(name, high) = {"name", "high"}
    BY DEF Fixed, Half
  <2>2. "byte" \notin {"name", "high"}
    OBVIOUS
  <2> QED
    BY <2>1, <2>2
<1>2. ASSUME NEW b, NEW c, Fixed(b) = Fixed(c) PROVE b = c
  <2>1. Fixed(b).byte = b /\ Fixed(c).byte = c
    BY DEF Fixed
  <2> QED
    BY <2>1, <1>2
<1>3. ASSUME NEW n, NEW m, NEW g, NEW h, Half(n, g) = Half(m, h) PROVE n = m /\ g = h
  <2>1. Half(n, g).name = n /\ Half(m, h).name = m /\ Half(n, g).high = g /\ Half(m, h).high = h
    BY DEF Half
  <2> QED
    BY <2>1, <1>3
<1> QED
  BY <1>1, <1>2, <1>3

Elements1(s, x)       == Len(s) = 1 /\ s[1] = x
Elements2(s, x, y)    == Len(s) = 2 /\ s[1] = x /\ s[2] = y
Elements3(s, x, y, z) == Len(s) = 3 /\ s[1] = x /\ s[2] = y /\ s[3] = z

LEMMA OneTyped ==
  ASSUME NEW B, NEW x \in B
  PROVE  <<x>> \in Seq(B) /\ Elements1(<<x>>, x)
BY DEF Elements1

LEMMA PairTyped ==
  ASSUME NEW B, NEW x \in B, NEW y \in B
  PROVE  <<x, y>> \in Seq(B) /\ Elements2(<<x, y>>, x, y)
BY DEF Elements2

LEMMA HalfWordsInt == ASSUME NEW x \in Nat PROVE Hi(x) \in Int /\ Lo(x) \in Int
BY DEF Hi, Lo

LEMMA Word16Typed ==
  ASSUME NEW x \in Nat
  PROVE  Word16(x) \in Seq(ByteOf) /\ Elements2(Word16(x), Fixed(Hi(x)), Fixed(Lo(x)))
<1>1. Fixed(Hi(x)) \in ByteOf /\ Fixed(Lo(x)) \in ByteOf
  BY HalfWordsInt, ByteRecords
<1> QED
  BY <1>1, PairTyped DEF Word16

LEMMA ReferenceTyped ==
  ASSUME NEW name \in Texts
  PROVE  Reference(name) \in Seq(ByteOf) /\ Elements2(Reference(name), Half(name, TRUE), Half(name, FALSE))
<1>1. Half(name, TRUE) \in ByteOf /\ Half(name, FALSE) \in ByteOf
  BY ByteRecords
<1> QED
  BY <1>1, PairTyped DEF Reference

LEMMA FunctionSeq ==
  ASSUME NEW B, NEW n \in Nat, NEW f, f = [i \in 1 .. n |-> f[i]], \A i \in 1 .. n : f[i] \in B
  PROVE  f \in Seq(B) /\ Len(f) = n
<1>1. f \in [1 .. n -> B]
  OBVIOUS
<1> QED
  BY <1>1

LEMMA TextTyped ==
  ASSUME NEW sv, IsQuoted(sv)
  PROVE  /\ Text(sv) \in Seq(Int) /\ Text(sv) = Characters(sv)
         /\ Len(Text(sv)) \in Nat /\ DOMAIN Text(sv) = 1 .. Len(Text(sv))
         /\ \A i \in 1 .. Len(Text(sv)) : Text(sv)[i] \in Int
<1>1. Text(sv) = Characters(sv)
  BY DEF Text, Characters
<1>2. Characters(sv) \in Seq(Int)
  BY CharactersTyped
<1> QED
  BY <1>1, <1>2

TextBytes(sv) == [i \in DOMAIN Text(sv) |-> Fixed(Text(sv)[i] % 256)]
TextWords(sv) == [i \in DOMAIN Text(sv) |-> Word16(Text(sv)[i] % 65536)]

LEMMA TextBytesTyped ==
  ASSUME NEW sv, IsQuoted(sv)
  PROVE  /\ TextBytes(sv) \in Seq(ByteOf) /\ Len(TextBytes(sv)) = Len(Text(sv))
         /\ \A i \in 1 .. Len(Text(sv)) : TextBytes(sv)[i] = Fixed(Text(sv)[i] % 256)
<1> DEFINE n == Len(Text(sv))
<1>1. n \in Nat /\ DOMAIN Text(sv) = 1 .. n /\ \A i \in 1 .. n : Text(sv)[i] \in Int
  BY TextTyped
<1> HIDE DEF n
<1>2. \A i \in 1 .. n : TextBytes(sv)[i] = Fixed(Text(sv)[i] % 256)
  BY <1>1 DEF TextBytes
<1>3. ASSUME NEW i \in 1 .. n PROVE TextBytes(sv)[i] \in ByteOf
  <2>1. Text(sv)[i] % 256 \in Int
    BY <1>1
  <2> QED
    BY <2>1, <1>2, ByteRecords
<1>4. TextBytes(sv) = [i \in 1 .. n |-> TextBytes(sv)[i]]
  BY <1>1 DEF TextBytes
<1>5. TextBytes(sv) \in Seq(ByteOf) /\ Len(TextBytes(sv)) = n
  BY <1>1, <1>3, <1>4, FunctionSeq
<1> QED
  BY <1>2, <1>5 DEF n

LEMMA TextWordsTyped ==
  ASSUME NEW sv, IsQuoted(sv)
  PROVE  LET all == FlattenSeq(TextWords(sv)) IN
         /\ all \in Seq(ByteOf) /\ Len(all) = 2 * Len(Text(sv))
         /\ \A i \in 1 .. Len(Text(sv)) :
              /\ all[2 * i - 1] = Fixed(Hi(Text(sv)[i] % 65536))
              /\ all[2 * i] = Fixed(Lo(Text(sv)[i] % 65536))
<1> DEFINE n == Len(Text(sv))
           w == TextWords(sv)
<1>1. n \in Nat /\ DOMAIN Text(sv) = 1 .. n /\ \A i \in 1 .. n : Text(sv)[i] \in Int
  BY TextTyped
<1> HIDE DEF n
<1>2. \A i \in 1 .. n : w[i] = Word16(Text(sv)[i] % 65536)
  BY <1>1 DEF TextWords
<1>3. w = [i \in 1 .. n |-> w[i]]
  BY <1>1 DEF TextWords
<1> HIDE DEF w
<1>4. ASSUME NEW i \in 1 .. n
      PROVE  /\ w[i] \in Seq(ByteOf) /\ Len(w[i]) = 2
             /\ w[i][1] = Fixed(Hi(Text(sv)[i] % 65536)) /\ w[i][2] = Fixed(Lo(Text(sv)[i] % 65536))
  <2>1. Text(sv)[i] % 65536 \in Nat
    BY <1>1
  <2> QED
    BY <2>1, <1>2, Word16Typed DEF Elements2
<1>5. w \in Seq(Seq(ByteOf)) /\ Len(w) = n
  BY <1>1, <1>3, <1>4, FunctionSeq
<1>6. /\ FlattenSeq(w) \in Seq(ByteOf)
      /\ Len(FlattenSeq(w)) = 2 * Len(w)
      /\ \A i \in 1 .. Len(w) :
           /\ FlattenSeq(w)[2 * i - 1] = w[i][1]
           /\ FlattenSeq(w)[2 * i] = w[i][2]
  BY <1>4, <1>5, PairPieces
<1> QED
  BY <1>4, <1>5, <1>6 DEF w, n

(* What an argument of DB and of DW stands for. *)
LEMMA DataOfKinds ==
  ASSUME NEW a
  PROVE  /\ a.is_imm => /\ DataOf("DB", a) = <<Fixed(parse_immediate(a.sv) % 256)>>
                        /\ DataOf("DW", a) = Word16(parse_immediate(a.sv))
         /\ ~a.is_imm /\ IsQuoted(a.sv) => /\ DataOf("DB", a) = TextBytes(a.sv)
                                           /\ DataOf("DW", a) = FlattenSeq(TextWords(a.sv))
         /\ ~a.is_imm /\ ~IsQuoted(a.sv) => /\ DataOf("DB", a) = <<>>
                                            /\ DataOf("DW", a) = Reference(a.sv)
         /\ \A m : m \notin {"DB", "DW"} => DataOf(m, a) = <<>>
BY DEF DataOf, TextBytes, TextWords

LEMMA DataOfTyped ==
  ASSUME NEW m, NEW a \in Arg
  PROVE  DataOf(m, a) \in Seq(ByteOf)
<1> DEFINE imm == parse_immediate(a.sv)
<1>1. imm \in Nat /\ imm % 256 \in Int /\ a.sv \in Texts
  <2>1. imm \in Nat
    BY ImmediateIsShort
  <2> HIDE DEF imm
  <2> QED
    BY <2>1 DEF Arg
<1>2. <<>> \in Seq(ByteOf) /\ <<Fixed(imm % 256)>> \in Seq(ByteOf)
  <2>1. Fixed(imm % 256) \in ByteOf
    BY <1>1, ByteRecords
  <2> HIDE DEF imm
  <2> QED
    BY <2>1
<1>3. Word16(imm) \in Seq(ByteOf)
  BY <1>1, Word16Typed
<1>4. Reference(a.sv) \in Seq(ByteOf)
  BY <1>1, ReferenceTyped
<1>5. IsQuoted(a.sv) => TextBytes(a.sv) \in Seq(ByteOf) /\ FlattenSeq(TextWords(a.sv)) \in Seq(ByteOf)
  BY TextBytesTyped, TextWordsTyped
<1>6. CASE m \notin {"DB", "DW"}
  BY <1>2, <1>6, DataOfKinds
<1>7. CASE m \in {"DB", "DW"}
  <2>1. CASE a.is_imm
    BY <1>2, <1>3, <1>7, <2>1, DataOfKinds
  <2>2. CASE ~a.is_imm /\ IsQuoted(a.sv)
    BY <1>5, <1>7, <2>2, DataOfKinds
  <2>3. CASE ~a.is_imm /\ ~IsQuoted(a.sv)
    BY <1>2, <1>4, <1>7, <2>3, DataOfKinds
  <2> QED
    BY <2>1, <2>2, <2>3
<1> QED
  BY <1>6, <1>7

Pieces(t) == [i \in DOMAIN t.args |-> DataOf(t.opcode, t.args[i])]

LEMMA PiecesTyped ==
  ASSUME NEW t \in TokenType
  PROVE  /\ Pieces(t) \in Seq(Seq(ByteOf)) /\ Len(Pieces(t)) = Len(t.args) /\ Len(t.args) \in Nat
         /\ DOMAIN t.args = 1 .. Len(t.args)
         /\ \A i \in 1 .. Len(t.args) : t.args[i] \in Arg /\ Pieces(t)[i] = DataOf(t.opcode, t.args[i])
<1> DEFINE n == Len(t.args)
<1>1. n \in Nat /\ DOMAIN t.args = 1 .. n /\ \A i \in 1 .. n : t.args[i] \in Arg
  BY DEF TokenType
<1> HIDE DEF n
<1>2. \A i \in 1 .. n : Pieces(t)[i] = DataOf(t.opcode, t.args[i])
  BY <1>1 DEF Pieces
<1>3. \A i \in 1 .. n : Pieces(t)[i] \in Seq(ByteOf)
  BY <1>1, <1>2, DataOfTyped
<1>4. Pieces(t) = [i \in 1 .. n |-> Pieces(t)[i]]
  BY <1>1 DEF Pieces
<1>5. Pieces(t) \in Seq(Seq(ByteOf)) /\ Len(Pieces(t)) = n
  BY <1>1, <1>3, <1>4, FunctionSeq
<1> QED
  BY <1>1, <1>2, <1>5 DEF n

(* No table has the mnemonics that the assembler handles itself.           *)
LEMMA PseudoMnemonicsApart == \A m \in PseudoMnemonics : m \notin DOMAIN BaseCode
BY DEF PseudoMnemonics, BaseCode

(* The bytes of each kind of statement. *)
LEMMA DataBytes ==
  ASSUME NEW t \in TokenType, t.opcode \notin DOMAIN BaseCode
  PROVE  Bytes(t) = FlattenSeq(Pieces(t)) /\ Bytes(t) \in Seq(ByteOf)
<1>1. Bytes(t) = FlattenSeq(Pieces(t))
  BY DEF Bytes, Pieces
<1>2. FlattenSeq(Pieces(t)) = Joined(Pieces(t))[Len(Pieces(t))] /\ Pieces(t) \in Seq(Seq(ByteOf))
  BY PiecesTyped, FlattenIsJoined
<1> DEFINE pieces == Pieces(t)
<1> HIDE DEF pieces
<1>2a. pieces \in Seq(Seq(ByteOf))
  BY <1>2 DEF pieces
<1>3. Joined(pieces) \in [0 .. Len(pieces) -> Seq(ByteOf)]
  BY <1>2a, JoinedBySteps
<1>4. Len(pieces) \in 0 .. Len(pieces)
  BY <1>2a
<1>5. Joined(pieces)[Len(pieces)] \in Seq(ByteOf)
  BY <1>3, <1>4
<1> QED
  BY <1>1, <1>2, <1>5 DEF pieces

LEMMA SilentBytes ==
  ASSUME NEW t \in TokenType, t.opcode \notin DOMAIN BaseCode \cup {"DB", "DW"}
  PROVE  Bytes(t) = <<>>
<1>1. Bytes(t) = FlattenSeq(Pieces(t)) /\ Pieces(t) \in Seq(Seq(ByteOf))
  BY DataBytes, PiecesTyped
<1>2. ASSUME NEW i \in 1 .. Len(Pieces(t)) PROVE Pieces(t)[i] = <<>>
  <2>1. Pieces(t)[i] = DataOf(t.opcode, t.args[i])
    BY PiecesTyped
  <2>2. DataOf(t.opcode, t.args[i]) = <<>>
    BY DataOfKinds
  <2> QED
    BY <2>1, <2>2
<1> QED
  BY <1>1, <1>2, EmptyPieces

LEMMA Lengths == \A op : Length(op) \in {1, 2, 3}
BY DEF Length

OpOf(t)  == Encoded(t.opcode, Argument(t, 1), Argument(t, 2))
ImmOf(t) == IF OperandOf(t).is_imm THEN parse_immediate(OperandOf(t).sv) ELSE 0

(* The elements of an instruction: opcode, and what its operand stands for. *)
LEMMA AfterFirst ==
  ASSUME NEW B, NEW x \in B, NEW rest \in Seq(B), NEW all, all = <<x>> \o rest
  PROVE  /\ all \in Seq(B)
         /\ Len(rest) = 0 => Elements1(all, x)
         /\ \A y : Elements1(rest, y) => Elements2(all, x, y)
         /\ \A y, z : Elements2(rest, y, z) => Elements3(all, x, y, z)
<1>1. <<x>> \in Seq(B) /\ Len(<<x>>) = 1 /\ <<x>>[1] = x
  OBVIOUS
<1> DEFINE first == <<x>>
<1> HIDE DEF first
<1>2. all \in Seq(B) /\ Chained(all, first, rest)
  BY <1>1, ConcatChains DEF first
<1>3. Len(first) = 1 /\ first[1] = x /\ 1 \in 1 .. 1
  BY <1>1 DEF first
<1>4. /\ Len(all) = 1 + Len(rest) /\ all[1] = x
      /\ \A k \in 1 .. Len(rest) : all[1 + k] = rest[k]
  BY <1>2, <1>3 DEF Chained
<1>5. Len(rest) = 0 => Elements1(all, x)
  BY <1>4 DEF Elements1
<1>6. ASSUME NEW y, Elements1(rest, y) PROVE Elements2(all, x, y)
  <2>1. all[1 + 1] = rest[1]
    BY <1>4, <1>6 DEF Elements1
  <2> QED
    BY <2>1, <1>4, <1>6 DEF Elements1, Elements2
<1>7. ASSUME NEW y, NEW z, Elements2(rest, y, z) PROVE Elements3(all, x, y, z)
  <2>1. all[1 + 1] = rest[1] /\ all[1 + 2] = rest[2]
    BY <1>4, <1>7 DEF Elements2
  <2> QED
    BY <2>1, <1>4, <1>7 DEF Elements2, Elements3
<1> QED
  BY <1>2, <1>5, <1>6, <1>7

LEMMA InstructionBytes ==
  ASSUME NEW t \in TokenType, t.opcode \in DOMAIN BaseCode
  PROVE  /\ Len(Bytes(t)) \in Nat /\ DOMAIN Bytes(t) = 1 .. Len(Bytes(t))
         /\ Length(OpOf(t)) = 1 => Elements1(Bytes(t), Fixed(OpOf(t)))
         /\ Length(OpOf(t)) = 2 => Elements2(Bytes(t), Fixed(OpOf(t)), Fixed(ImmOf(t) % 256))
         /\ Length(OpOf(t)) = 3 /\ OperandOf(t).is_imm =>
              Elements3(Bytes(t), Fixed(OpOf(t)), Fixed(Hi(ImmOf(t))), Fixed(Lo(ImmOf(t))))
         /\ Length(OpOf(t)) = 3 /\ ~OperandOf(t).is_imm =>
              Elements3(Bytes(t), Fixed(OpOf(t)), Half(OperandOf(t).sv, TRUE), Half(OperandOf(t).sv, FALSE))
<1> DEFINE op == OpOf(t)
           o  == OperandOf(t)
           imm == ImmOf(t)
           B == ByteOf \cup {Fixed(op)}
           rest == CASE Length(op) = 3 /\ o.is_imm  -> Word16(parse_immediate(o.sv))
                     [] Length(op) = 3 /\ ~o.is_imm -> Reference(o.sv)
                     [] Length(op) = 2 -> <<Fixed(IF o.is_imm THEN parse_immediate(o.sv) % 256 ELSE 0)>>
                     [] OTHER -> <<>>
           all == Bytes(t)
<1>1. all = <<Fixed(op)>> \o rest
  BY DEF Bytes, InstructionOf, OpOf
<1>2. IF o.is_imm THEN imm = parse_immediate(o.sv) ELSE imm = 0
  BY DEF ImmOf
<1>2a. 0 % 256 = 0
  OBVIOUS
<1>2b. (IF o.is_imm THEN parse_immediate(o.sv) % 256 ELSE 0) = imm % 256
  BY <1>2, <1>2a
<1>2c. imm \in Nat
  BY <1>2, ImmediateIsShort
<1>2d. o.sv \in Texts
  <2>1. o \in Arg
    BY ArgumentTyped DEF OperandOf
  <2> QED
    BY <2>1 DEF Arg
<1> HIDE DEF op, o, imm, all
<1>3. Length(op) = 1 => rest = <<>>
  OBVIOUS
<1>4. Length(op) = 2 => rest = <<Fixed(imm % 256)>>
  BY <1>2b
<1>5. Length(op) = 3 /\ o.is_imm => rest = Word16(imm)
  BY <1>2
<1>6. Length(op) = 3 /\ ~o.is_imm => rest = Reference(o.sv)
  OBVIOUS
<1> HIDE DEF rest
<1>7. Fixed(op) \in B /\ ByteOf \subseteq B
  OBVIOUS
<1>8. Fixed(imm % 256) \in ByteOf
  BY <1>2c, ByteRecords
<1> HIDE DEF B
<1> DEFINE low == Fixed(imm % 256)
<1> HIDE DEF low
<1>8a. Length(op) = 2 => rest = <<low>>
  BY <1>4 DEF low
<1>9. CASE Length(op) = 1
  <2>1. rest \in Seq(B) /\ Len(rest) = 0
    BY <1>3, <1>9
  <2>2. all \in Seq(B) /\ Elements1(all, Fixed(op))
    BY <2>1, <1>1, <1>7, AfterFirst
  <2>3. Len(all) \in Nat /\ DOMAIN all = 1 .. Len(all)
    BY <2>2
  <2> QED
    BY <2>2, <2>3, <1>9 DEF all, op, o, imm
<1>10. CASE Length(op) = 2
  <2>1. rest \in Seq(ByteOf) /\ Elements1(rest, low)
    BY <1>8a, <1>8, <1>10, OneTyped DEF low
  <2>2. rest \in Seq(B)
    BY <2>1, <1>7, SeqWidens
  <2>3. all \in Seq(B) /\ Elements2(all, Fixed(op), low)
    BY <2>1, <2>2, <1>1, <1>7, AfterFirst
  <2>4. Len(all) \in Nat /\ DOMAIN all = 1 .. Len(all)
    BY <2>3
  <2> QED
    BY <2>3, <2>4, <1>10 DEF all, op, o, imm, low
<1>11. CASE Length(op) = 3 /\ o.is_imm
  <2>1. rest \in Seq(ByteOf) /\ Elements2(rest, Fixed(Hi(imm)), Fixed(Lo(imm)))
    BY <1>5, <1>2c, <1>11, Word16Typed
  <2>2. rest \in Seq(B)
    BY <2>1, <1>7, SeqWidens
  <2>3. all \in Seq(B) /\ Elements3(all, Fixed(op), Fixed(Hi(imm)), Fixed(Lo(imm)))
    BY <2>1, <2>2, <1>1, <1>7, AfterFirst
  <2>4. Len(all) \in Nat /\ DOMAIN all = 1 .. Len(all)
    BY <2>3
  <2> QED
    BY <2>3, <2>4, <1>11 DEF all, op, o, imm
<1>12. CASE Length(op) = 3 /\ ~o.is_imm
  <2>1. rest \in Seq(ByteOf) /\ Elements2(rest, Half(o.sv, TRUE), Half(o.sv, FALSE))
    BY <1>6, <1>2d, <1>12, ReferenceTyped
  <2>2. rest \in Seq(B)
    BY <2>1, <1>7, SeqWidens
  <2>3. all \in Seq(B) /\ Elements3(all, Fixed(op), Half(o.sv, TRUE), Half(o.sv, FALSE))
    BY <2>1, <2>2, <1>1, <1>7, AfterFirst
  <2>4. Len(all) \in Nat /\ DOMAIN all = 1 .. Len(all)
    BY <2>3
  <2>5. Length(op) # 1 /\ Length(op) # 2
    BY <1>12
  <2> QED
    BY <2>3, <2>4, <2>5, <1>12 DEF all, op, o, imm
<1> QED
  BY <1>9, <1>10, <1>11, <1>12, Lengths

LEMMA BytesCounted ==
  ASSUME NEW t \in TokenType
  PROVE  Len(Bytes(t)) \in Nat /\ DOMAIN Bytes(t) = 1 .. Len(Bytes(t))
<1>1. CASE t.opcode \notin DOMAIN BaseCode
  <2>1. Bytes(t) \in Seq(ByteOf)
    BY <1>1, DataBytes
  <2> QED
    BY <2>1
<1>2. CASE t.opcode \in DOMAIN BaseCode
  BY <1>2, InstructionBytes
<1> QED
  BY <1>1, <1>2

-----------------------------------------------------------------------------
(* The addresses of the statements. *)
LEMMA FillTyped ==
  ASSUME NEW t, NEW a \in Nat
  PROVE  Fill(t, a) \in Nat
<1> DEFINE n == parse_immediate(Argument(t, 1).sv)
<1>1. n \in Nat
  BY ImmediateIsShort
<1> HIDE DEF n
<1>2. n - a \in Int
  BY <1>1
<1> DEFINE most == Max({n - a, 0})
<1>3. most \in {n - a, 0} /\ most >= 0
  BY <1>2, MaxOfTwo
<1> HIDE DEF most
<1>4. most \in Nat
  BY <1>2, <1>3
<1>5. Fill(t, a) \in {n, most, 0}
  BY DEF Fill, n, most
<1> QED
  BY <1>1, <1>4, <1>5

After(t, a) == a + Len(Bytes(t)) + Fill(t, a)

LEMMA AfterTyped ==
  ASSUME NEW t \in TokenType, NEW a \in Nat
  PROVE  After(t, a) \in Nat /\ a + Len(Bytes(t)) <= After(t, a) /\ a <= After(t, a)
<1>1. Len(Bytes(t)) \in Nat /\ Fill(t, a) \in Nat
  BY BytesCounted, FillTyped
<1> QED
  BY <1>1 DEF After

IsAddresses(f, ts) ==
  f = [i \in 1 .. Len(ts) + 1 |->
         IF i = 1 THEN 0
         ELSE f[i - 1] + Len(Bytes(ts[i - 1])) + Fill(ts[i - 1], f[i - 1])]

LEMMA AddressesBySteps ==
  ASSUME NEW ts \in Seq(TokenType)
  PROVE  /\ Addresses(ts) \in [1 .. Len(ts) + 1 -> Nat]
         /\ Addresses(ts)[1] = 0
         /\ \A i \in 1 .. Len(ts) : Addresses(ts)[i + 1] = After(ts[i], Addresses(ts)[i])
<1> DEFINE n == Len(ts)
           G == [x \in (1 .. n) \X Nat |-> After(ts[x[1]], x[2])]
<1>1. n \in Nat /\ \A i \in 1 .. n : ts[i] \in TokenType
  OBVIOUS
<1> HIDE DEF n
<1>2. G \in [(1 .. n) \X Nat -> Nat]
  BY <1>1, AfterTyped
<1>3. \A i \in 1 .. n, a \in Nat : G[<<i, a>>] = After(ts[i], a)
  OBVIOUS
<1> HIDE DEF G
<1>4. PICK f \in [0 .. n -> Nat] : Follows(f, n, 0, G)
  BY <1>1, <1>2, Recursion
<1>5. f \in [0 .. n -> Nat] /\ f[0] = 0 /\ \A i \in 1 .. n : f[i] = After(ts[i], f[i - 1])
  <2> SUFFICES ASSUME NEW i \in 1 .. n PROVE f[i] = After(ts[i], f[i - 1])
    BY <1>4 DEF Follows
  <2>1. f[i - 1] \in Nat
    BY <1>1, <1>4
  <2> QED
    BY <2>1, <1>3, <1>4 DEF Follows
<1> DEFINE g == [i \in 1 .. n + 1 |-> f[i - 1]]
<1>6. g \in [1 .. n + 1 -> Nat] /\ g[1] = 0
  <2>1. \A i \in 1 .. n + 1 : i - 1 \in 0 .. n
    BY <1>1
  <2>2. 1 \in 1 .. n + 1 /\ 1 - 1 = 0
    BY <1>1
  <2> QED
    BY <2>1, <2>2, <1>5
<1>7. ASSUME NEW i \in 2 .. n + 1 PROVE g[i] = After(ts[i - 1], g[i - 1])
  <2>1. i \in 1 .. n + 1 /\ i - 1 \in 1 .. n + 1 /\ i - 1 \in 1 .. n
    BY <1>1
  <2>2. g[i] = f[i - 1] /\ g[i - 1] = f[i - 1 - 1]
    BY <2>1
  <2> QED
    BY <2>1, <2>2, <1>5
<1> HIDE DEF g
<1>8. IsAddresses(g, ts)
  <2>1. ASSUME NEW i \in 1 .. n + 1
        PROVE  g[i] = IF i = 1 THEN 0 ELSE g[i - 1] + Len(Bytes(ts[i - 1])) + Fill(ts[i - 1], g[i - 1])
    <3>1. CASE i = 1
      BY <3>1, <1>6
    <3>2. CASE i # 1
      <4>1. i \in 2 .. n + 1
        BY <3>2, <1>1
      <4> QED
        BY <4>1, <3>2, <1>7 DEF After
    <3> QED
      BY <3>1, <3>2
  <2>2. g = [i \in 1 .. n + 1 |-> g[i]]
    BY <1>6
  <2> QED
    BY <2>1, <2>2 DEF IsAddresses, n
<1>9. Addresses(ts) = CHOOSE h : IsAddresses(h, ts)
  BY DEF Addresses, IsAddresses
<1> DEFINE a == Addresses(ts)
<1>10. IsAddresses(a, ts)
  BY <1>8, <1>9
<1> HIDE DEF a
<1>11. /\ a = [i \in 1 .. n + 1 |-> a[i]]
       /\ \A i \in 1 .. n + 1 : a[i] = IF i = 1 THEN 0 ELSE a[i - 1] + Len(Bytes(ts[i - 1])) + Fill(ts[i - 1], a[i - 1])
  BY <1>10 DEF IsAddresses, n
<1>12. a[1] = 0
  <2>1. 1 \in 1 .. n + 1
    BY <1>1
  <2> QED
    BY <2>1, <1>11
<1>12a. \A m \in 1 .. n + 1 : m # 1 => a[m] = After(ts[m - 1], a[m - 1])
  BY <1>11 DEF After
<1>13. ASSUME NEW i \in 1 .. n PROVE a[i + 1] = After(ts[i], a[i])
  <2> DEFINE m == i + 1
  <2>1. m \in 1 .. n + 1 /\ m # 1 /\ m - 1 = i
    BY <1>1
  <2> HIDE DEF m
  <2>2. a[m] = After(ts[m - 1], a[m - 1])
    BY <2>1, <1>12a
  <2> QED
    BY <2>1, <2>2 DEF m
<1> DEFINE Holds == {i \in 0 .. n : a[i + 1] \in Nat}
<1>14. 0 \in Holds
  BY <1>1, <1>12
<1>15. ASSUME NEW i \in 1 .. n, i - 1 \in Holds PROVE i \in Holds
  <2>1. a[i] \in Nat
    <3>1. i - 1 + 1 = i
      OBVIOUS
    <3> QED
      BY <3>1, <1>15
  <2>2. After(ts[i], a[i]) \in Nat
    BY <2>1, <1>1, AfterTyped
  <2>3. i \in 0 .. n
    BY <1>1
  <2> QED
    BY <2>2, <2>3, <1>13
<1>16. \A i \in 0 .. n : a[i + 1] \in Nat
  <2> HIDE DEF Holds
  <2>1. \A i \in 0 .. n : i \in Holds
    BY <1>14, <1>15, <1>1, Induction
  <2> QED
    BY <2>1 DEF Holds
<1>17. ASSUME NEW i \in 1 .. n + 1 PROVE a[i] \in Nat
  <2>1. i - 1 \in 0 .. n /\ i - 1 + 1 = i
    BY <1>1
  <2>2. a[i - 1 + 1] \in Nat
    BY <2>1, <1>16
  <2> QED
    BY <2>1, <2>2
<1>18. a \in [1 .. n + 1 -> Nat]
  BY <1>11, <1>17
<1> QED
  BY <1>12, <1>13, <1>18 DEF a, n

(* Statements follow each other without overlap. *)
LEMMA AddressesGrow ==
  ASSUME NEW ts \in Seq(TokenType), NEW i \in 1 .. Len(ts) + 1, NEW j \in 1 .. Len(ts) + 1
  PROVE  /\ i <= j => Addresses(ts)[i] <= Addresses(ts)[j]
         /\ i < j => Addresses(ts)[i] + Len(Bytes(ts[i])) <= Addresses(ts)[j]
<1> DEFINE n == Len(ts)
           a == Addresses(ts)
<1>1. n \in Nat /\ \A k \in 1 .. n : ts[k] \in TokenType
  OBVIOUS
<1>2. /\ \A k \in 1 .. n + 1 : a[k] \in Nat
      /\ \A k \in 1 .. n : a[k + 1] = After(ts[k], a[k])
  BY AddressesBySteps
<1>2a. i \in 1 .. n + 1 /\ j \in 1 .. n + 1
  OBVIOUS
<1> HIDE DEF n, a
<1>3. ASSUME NEW k \in 1 .. n
      PROVE a[k + 1] \in Nat /\ a[k] + Len(Bytes(ts[k])) <= a[k + 1] /\ a[k] <= a[k + 1]
  <2>1. k \in 1 .. n + 1 /\ ts[k] \in TokenType
    BY <1>1
  <2> QED
    BY <2>1, <1>2, AfterTyped
<1> DEFINE Holds == {m \in 0 .. n : m + 1 <= i \/ (a[i] <= a[m + 1] /\ a[i] + Len(Bytes(ts[i])) <= a[m + 1])}
<1>4. 0 \in Holds
  BY <1>1, <1>2a
<1>5. ASSUME NEW m \in 1 .. n, m - 1 \in Holds PROVE m \in Holds
  <2>0. m \in 0 .. n /\ a[m] \in Nat /\ a[m + 1] \in Nat /\ a[m] <= a[m + 1] /\ m - 1 + 1 = m
    <3>1. m \in 0 .. n /\ m \in 1 .. n + 1 /\ m - 1 + 1 = m
      BY <1>1
    <3> QED
      BY <3>1, <1>2, <1>3
  <2>1. CASE m + 1 <= i
    BY <2>0, <2>1
  <2>2. CASE m = i
    BY <2>0, <2>2, <1>3
  <2>3. CASE m > i
    <3>1. a[i] <= a[m] /\ a[i] + Len(Bytes(ts[i])) <= a[m]
      BY <2>3, <2>0, <1>5, <1>2a
    <3>2. a[i] \in Nat /\ Len(Bytes(ts[i])) \in Nat
      <4>1. i \in 1 .. n
        BY <2>3, <1>1, <1>2a
      <4> QED
        BY <4>1, <1>1, <1>2, <1>2a, BytesCounted
    <3>3. a[i] <= a[m + 1] /\ a[i] + Len(Bytes(ts[i])) <= a[m + 1]
      BY <3>1, <3>2, <2>0
    <3> QED
      BY <3>3, <2>0
  <2> QED
    BY <2>1, <2>2, <2>3, <1>2a
<1> HIDE DEF Holds
<1>6. \A m \in 0 .. n : m \in Holds
  BY <1>4, <1>5, <1>1, Induction
<1>7. CASE i < j
  <2> DEFINE m == j - 1
  <2>1. m \in 0 .. n /\ m + 1 = j
    BY <1>1, <1>2a
  <2> HIDE DEF m
  <2>2. ~(m + 1 <= i)
    BY <2>1, <1>7, <1>2a
  <2>3. a[i] <= a[m + 1] /\ a[i] + Len(Bytes(ts[i])) <= a[m + 1]
    BY <2>1, <2>2, <1>6 DEF Holds
  <2> QED
    BY <2>1, <2>3 DEF a
<1>8. CASE i = j
  BY <1>8, <1>2, <1>2a DEF a
<1> QED
  BY <1>7, <1>8, <1>2a DEF a

-----------------------------------------------------------------------------
(* Which byte stands where. *)
StandsIn(ts, i, p, b) ==
  \E k \in DOMAIN Bytes(ts[i]) : p = Addresses(ts)[i] + k - 1 /\ b = Bytes(ts[i])[k]
Stands(ts, p, b) == \E i \in DOMAIN ts : StandsIn(ts, i, p, b)

LEMMA StandsInBounds ==
  ASSUME NEW ts \in Seq(TokenType), NEW i \in DOMAIN ts, NEW p, NEW b, StandsIn(ts, i, p, b)
  PROVE  /\ p \in Nat /\ Addresses(ts)[i] <= p
         /\ p < Addresses(ts)[i] + Len(Bytes(ts[i]))
         /\ p < Addresses(ts)[i + 1]
         /\ p - Addresses(ts)[i] + 1 \in DOMAIN Bytes(ts[i])
         /\ b = Bytes(ts[i])[p - Addresses(ts)[i] + 1]
<1> DEFINE a == Addresses(ts)
<1>1. PICK k \in DOMAIN Bytes(ts[i]) : p = a[i] + k - 1 /\ b = Bytes(ts[i])[k]
  BY DEF StandsIn
<1>2. i \in 1 .. Len(ts) /\ i \in 1 .. Len(ts) + 1 /\ i + 1 \in 1 .. Len(ts) + 1 /\ i < i + 1 /\ ts[i] \in TokenType
  OBVIOUS
<1>3. a[i] \in Nat /\ a[i + 1] \in Nat
  BY <1>2, AddressesBySteps
<1>4. a[i] + Len(Bytes(ts[i])) <= a[i + 1]
  BY <1>2, AddressesGrow
<1>5. Len(Bytes(ts[i])) \in Nat /\ DOMAIN Bytes(ts[i]) = 1 .. Len(Bytes(ts[i]))
  BY <1>2, BytesCounted
<1> HIDE DEF a
<1>6. k \in 1 .. Len(Bytes(ts[i])) /\ p - a[i] + 1 = k
  BY <1>1, <1>3, <1>5
<1>7. p \in Nat /\ a[i] <= p /\ p < a[i] + Len(Bytes(ts[i])) /\ p < a[i + 1]
  BY <1>1, <1>3, <1>4, <1>5, <1>6
<1> QED
  BY <1>1, <1>6, <1>7 DEF a

LEMMA StandsOnce ==
  ASSUME NEW ts \in Seq(TokenType), NEW p, NEW b, NEW c, Stands(ts, p, b), Stands(ts, p, c)
  PROVE  b = c
<1> DEFINE a == Addresses(ts)
<1>1. PICK i \in DOMAIN ts : StandsIn(ts, i, p, b)
  BY DEF Stands
<1>2. PICK j \in DOMAIN ts : StandsIn(ts, j, p, c)
  BY DEF Stands
<1>3. /\ p \in Nat /\ a[i] <= p /\ p < a[i + 1] /\ a[j] <= p /\ p < a[j + 1]
      /\ b = Bytes(ts[i])[p - a[i] + 1] /\ c = Bytes(ts[j])[p - a[j] + 1]
  BY <1>1, <1>2, StandsInBounds
<1>4. /\ i \in 1 .. Len(ts) + 1 /\ j \in 1 .. Len(ts) + 1
      /\ i + 1 \in 1 .. Len(ts) + 1 /\ j + 1 \in 1 .. Len(ts) + 1 /\ i \in Int /\ j \in Int
  OBVIOUS
<1>5. a[i] \in Nat /\ a[j] \in Nat /\ a[i + 1] \in Nat /\ a[j + 1] \in Nat
  BY <1>4, AddressesBySteps
<1>6. (i + 1 <= j => a[i + 1] <= a[j]) /\ (j + 1 <= i => a[j + 1] <= a[i])
  BY <1>4, AddressesGrow
<1> HIDE DEF a
<1>7. i = j
  <2>1. ~(i < j)
    <3> SUFFICES ASSUME i < j PROVE FALSE
      OBVIOUS
    <3>1. i + 1 <= j
      BY <1>4
    <3>2. a[i + 1] <= a[j] /\ a[j] <= p /\ p < a[i + 1]
      BY <3>1, <1>3, <1>6
    <3> QED
      BY <3>2, <1>3, <1>5
  <2>2. ~(j < i)
    <3> SUFFICES ASSUME j < i PROVE FALSE
      OBVIOUS
    <3>1. j + 1 <= i
      BY <1>4
    <3>2. a[j + 1] <= a[i] /\ a[i] <= p /\ p < a[j + 1]
      BY <3>1, <1>3, <1>6
    <3> QED
      BY <3>2, <1>3, <1>5
  <2> QED
    BY <2>1, <2>2, <1>4
<1> QED
  BY <1>3, <1>7

LEMMA StandsBelow ==
  ASSUME NEW ts \in Seq(TokenType), NEW i \in DOMAIN ts, NEW p, NEW b, StandsIn(ts, i, p, b),
         NEW n \in 1 .. Len(ts) + 1
  PROVE  p < Addresses(ts)[n] <=> i < n
<1> DEFINE a == Addresses(ts)
<1>1. p \in Nat /\ a[i] <= p /\ p < a[i + 1]
  BY StandsInBounds
<1>2. i \in 1 .. Len(ts) + 1 /\ i + 1 \in 1 .. Len(ts) + 1 /\ i \in Int
  OBVIOUS
<1>3. a[i] \in Nat /\ a[i + 1] \in Nat /\ a[n] \in Nat
  BY <1>2, AddressesBySteps
<1>4. (i + 1 <= n => a[i + 1] <= a[n]) /\ (n <= i => a[n] <= a[i])
  BY <1>2, AddressesGrow
<1> HIDE DEF a
<1>5. p < a[n] <=> i < n
  BY <1>1, <1>2, <1>3, <1>4
<1> QED
  BY <1>5 DEF a

-----------------------------------------------------------------------------
(* The operations on the labels, by what they do: one entry is put, a new  *)
(* one or in place of the one of the same name, and the others stay.       *)
Longer(q, p) == \A j \in DOMAIN q : j \in DOMAIN p /\ p[j] = q[j]
Same(e, f)   == e.label = f.label /\ e.addr = f.addr /\ e.set = f.set /\ e.queued = f.queued

PutsAt(ls, after, i, e) ==
  /\ i \in DOMAIN after /\ after[i] = e
  /\ DOMAIN after = DOMAIN ls \cup {i}
  /\ \A m \in DOMAIN ls : m # i => after[m] = ls[m]
  /\ i \in DOMAIN ls => ls[i].label = e.label /\ Longer(ls[i].queued, e.queued)
  /\ i \notin DOMAIN ls => \A m \in DOMAIN ls : ls[m].label # e.label

LEMMA FindsIndex ==
  ASSUME NEW ls \in Seq(LabelEntry), NEW name
  PROVE  LET i == find_label_index(ls, name) IN
           /\ i = 0 => \A m \in DOMAIN ls : ls[m].label # name
           /\ i # 0 => i \in DOMAIN ls /\ ls[i].label = name
<1> DEFINE hits == {i \in DOMAIN ls : ls[i].label = name}
<1>1. hits \in SUBSET Nat /\ 0 \notin hits
  OBVIOUS
<1>2. find_label_index(ls, name) = IF hits = {} THEN 0 ELSE Min(hits)
  BY DEF find_label_index
<1>3. CASE hits = {}
  BY <1>2, <1>3
<1>4. CASE hits # {}
  <2> HIDE DEF hits
  <2>1. Min(hits) \in hits
    BY <1>1, <1>4, LeastOfNats
  <2>2. find_label_index(ls, name) \in hits /\ find_label_index(ls, name) # 0
    BY <2>1, <1>1, <1>2, <1>4
  <2> QED
    BY <2>2 DEF hits
<1> QED
  BY <1>3, <1>4

LEMMA Appended ==
  ASSUME NEW ls \in Seq(LabelEntry), NEW e, NEW after, after = Append(ls, e)
  PROVE  /\ DOMAIN after = DOMAIN ls \cup {Len(ls) + 1} /\ Len(ls) + 1 \notin DOMAIN ls
         /\ after[Len(ls) + 1] = e /\ \A m \in DOMAIN ls : after[m] = ls[m]
<1>1. Len(ls) \in Nat /\ DOMAIN ls = 1 .. Len(ls)
  OBVIOUS
<1>2. DOMAIN after = 1 .. Len(ls) + 1 /\ after[Len(ls) + 1] = e /\ \A m \in 1 .. Len(ls) : after[m] = ls[m]
  <2> DEFINE S == LabelEntry \cup {e}
  <2>1. ls \in Seq(S) /\ e \in S
    <3>1. LabelEntry \subseteq S /\ e \in S
      OBVIOUS
    <3> HIDE DEF S
    <3> QED
      BY <3>1, SeqWidens
  <2> HIDE DEF S
  <2> QED
    BY <2>1
<1> QED
  BY <1>1, <1>2

Pushed(name, addr, set) == [label |-> name, addr |-> addr, queued |-> <<>>, set |-> set]

LEMMA PushPuts ==
  ASSUME NEW ls \in Seq(LabelEntry), NEW name, NEW addr, NEW set,
         \A m \in DOMAIN ls : ls[m].label # name
  PROVE  PutsAt(ls, push_label(ls, name, addr, set), Len(ls) + 1, Pushed(name, addr, set))
<1> DEFINE e == Pushed(name, addr, set)
           after == push_label(ls, name, addr, set)
<1>1. e.label = name
  BY DEF Pushed
<1>2. after = Append(ls, e)
  BY DEF push_label, Pushed
<1> HIDE DEF e, after
<1>3. PutsAt(ls, after, Len(ls) + 1, e)
  BY <1>1, <1>2, Appended DEF PutsAt
<1> QED
  BY <1>1, <1>3 DEF e, after

(* add_label at addr: the entry of the name is set, to addr unless it was  *)
(* set before.                                                             *)
AddsEntry(ls, i, e, name, addr) ==
  /\ e.label = name /\ e.set
  /\ i \in DOMAIN ls => e.queued = ls[i].queued
  /\ i \notin DOMAIN ls => e.queued = <<>>
  /\ e.addr = IF i \in DOMAIN ls /\ ls[i].set THEN ls[i].addr ELSE addr

LEMMA AddPuts ==
  ASSUME NEW ls \in Seq(LabelEntry), NEW name, NEW addr
  PROVE  \E i, e : PutsAt(ls, add_label(ls, name, addr), i, e) /\ AddsEntry(ls, i, e, name, addr)
<1> DEFINE i == find_label_index(ls, name)
           after == add_label(ls, name, addr)
           updated == [ls EXCEPT ![i].addr = addr, ![i].set = TRUE]
<1>1. /\ i = 0 => \A m \in DOMAIN ls : ls[m].label # name
      /\ i # 0 => i \in DOMAIN ls /\ ls[i].label = name
  BY FindsIndex
<1>2. /\ i = 0 => after = push_label(ls, name, addr, TRUE)
      /\ i # 0 => after = IF ls[i].set THEN ls ELSE updated
  BY DEF add_label
<1> HIDE DEF i, after
<1>3. CASE i = 0
  <2> DEFINE e == Pushed(name, addr, TRUE)
             last == Len(ls) + 1
  <2>0. after = push_label(ls, name, addr, TRUE) /\ \A m \in DOMAIN ls : ls[m].label # name
    BY <1>1, <1>2, <1>3
  <2>0a. PutsAt(ls, after, last, e)
    BY <2>0, PushPuts
  <2>0b. e.label = name /\ e.addr = addr /\ e.set /\ e.queued = <<>>
    BY DEF Pushed
  <2>1. PutsAt(ls, after, last, e) /\ e.label = name /\ e.addr = addr /\ e.set /\ e.queued = <<>>
    BY <2>0a, <2>0b
  <2>2. last \notin DOMAIN ls
    OBVIOUS
  <2> HIDE DEF e, last
  <2>3. AddsEntry(ls, last, e, name, addr)
    BY <2>1, <2>2 DEF AddsEntry
  <2> QED
    BY <2>1, <2>3 DEF after
<1>4. CASE i # 0 /\ ls[i].set
  <2>1. after = ls /\ i \in DOMAIN ls /\ ls[i].label = name
    BY <1>1, <1>2, <1>4
  <2>2. PutsAt(ls, after, i, ls[i])
    BY <2>1 DEF PutsAt, Longer
  <2>3. AddsEntry(ls, i, ls[i], name, addr)
    BY <2>1, <1>4 DEF AddsEntry
  <2> QED
    BY <2>2, <2>3 DEF after
<1>5. CASE i # 0 /\ ~ls[i].set
  <2>1. after = updated /\ i \in DOMAIN ls /\ ls[i].label = name
    BY <1>1, <1>2, <1>5
  <2>2. ls[i] \in LabelEntry
    BY <2>1
  <2>3. DOMAIN updated = DOMAIN ls /\ \A m \in DOMAIN ls : m # i => updated[m] = ls[m]
    OBVIOUS
  <2> DEFINE e == [ls[i] EXCEPT !.addr = addr, !.set = TRUE]
  <2>4. updated[i] = e
    BY <2>1, <2>2 DEF LabelEntry
  <2>5. e.label = ls[i].label /\ e.addr = addr /\ e.set = TRUE /\ e.queued = ls[i].queued
    BY <2>2 DEF LabelEntry
  <2> HIDE DEF updated, e
  <2>6. PutsAt(ls, after, i, e)
    BY <2>1, <2>3, <2>4, <2>5 DEF PutsAt, Longer
  <2>7. AddsEntry(ls, i, e, name, addr)
    BY <2>1, <2>5, <1>5 DEF AddsEntry
  <2> QED
    BY <2>6, <2>7 DEF after
<1> QED
  BY <1>3, <1>4, <1>5

(* queue_or_get_label at addr: the value of a label that is set, or a      *)
(* reference in the queue of the name.                                     *)
QueuesEntry(ls, i, e, name, addr) ==
  /\ e.label = name /\ ~e.set
  /\ i \in DOMAIN ls => ~ls[i].set /\ e.addr = ls[i].addr /\ e.queued = Append(ls[i].queued, addr)
  /\ i \notin DOMAIN ls => e.addr = addr /\ e.queued = <<addr>>

WithReference(ls, i, addr) == [ls EXCEPT ![i].queued = Append(@, addr)]

LEMMA AppendsReference ==
  ASSUME NEW ls \in Seq(LabelEntry), NEW i \in DOMAIN ls, NEW addr,
         NEW after, after = WithReference(ls, i, addr)
  PROVE  /\ DOMAIN after = DOMAIN ls /\ \A m \in DOMAIN ls : m # i => after[m] = ls[m]
         /\ after[i].label = ls[i].label /\ after[i].addr = ls[i].addr /\ after[i].set = ls[i].set
         /\ after[i].queued = Append(ls[i].queued, addr)
<1>1. ls[i] \in LabelEntry
  OBVIOUS
<1>2. DOMAIN after = DOMAIN ls /\ \A m \in DOMAIN ls : m # i => after[m] = ls[m]
  BY DEF WithReference
<1>3. after[i] = [ls[i] EXCEPT !.queued = Append(@, addr)]
  BY <1>1 DEF LabelEntry, WithReference
<1>4. [ls[i] EXCEPT !.queued = Append(@, addr)] = [ls[i] EXCEPT !.queued = Append(ls[i].queued, addr)]
  BY <1>1 DEF LabelEntry
<1> DEFINE q == Append(ls[i].queued, addr)
<1> HIDE DEF q
<1>5. after[i] = [ls[i] EXCEPT !.queued = q]
  BY <1>3, <1>4 DEF q
<1>6. after[i].label = ls[i].label /\ after[i].addr = ls[i].addr /\ after[i].set = ls[i].set /\ after[i].queued = q
  BY <1>1, <1>5 DEF LabelEntry
<1> QED
  BY <1>2, <1>6 DEF q

LEMMA AppendLonger ==
  ASSUME NEW q \in Seq(Nat), NEW x, NEW p, p = Append(q, x)
  PROVE  /\ Longer(q, p) /\ Len(q) \in Nat
         /\ DOMAIN q = 1 .. Len(q) /\ DOMAIN p = 1 .. Len(q) + 1 /\ p[Len(q) + 1] = x
<1> DEFINE S == Nat \cup {x}
<1>1. q \in Seq(S) /\ x \in S
  <2>1. Nat \subseteq S /\ x \in S
    OBVIOUS
  <2> HIDE DEF S
  <2> QED
    BY <2>1, SeqWidens
<1> HIDE DEF S
<1> QED
  BY <1>1 DEF Longer

LEMMA QueuePuts ==
  ASSUME NEW ls \in Seq(LabelEntry), NEW name \in Texts, NEW addr \in Nat
  PROVE  LET got == queue_or_get_label(ls, name, addr) IN
           \/ \E i \in DOMAIN ls : ls[i].label = name /\ ls[i].set /\ got.labels = ls /\ got.value = ls[i].addr
           \/ \E i, e : PutsAt(ls, got.labels, i, e) /\ QueuesEntry(ls, i, e, name, addr)
<1> DEFINE known == Known(ls, name, addr)
           i     == find_label_index(known, name)
           after == WithReference(known, i, addr)
           got   == queue_or_get_label(ls, name, addr)
<1>1. /\ known[i].set => got.labels = known /\ got.value = known[i].addr
      /\ ~known[i].set => got.labels = after
  BY DEF queue_or_get_label, WithReference
<1> HIDE DEF got
<1>2. CASE find_label_index(ls, name) # 0
  <2>1. known = ls /\ i \in DOMAIN ls /\ ls[i].label = name
    BY <1>2, FindsIndex DEF Known
  <2> HIDE DEF known, i
  <2>2. CASE ls[i].set
    BY <1>1, <2>1, <2>2 DEF got
  <2>3. CASE ~ls[i].set
    <3>1. after = WithReference(ls, i, addr) /\ got.labels = after
      BY <1>1, <2>1, <2>3
    <3> HIDE DEF after
    <3>2. /\ DOMAIN after = DOMAIN ls /\ \A m \in DOMAIN ls : m # i => after[m] = ls[m]
          /\ after[i].label = ls[i].label /\ after[i].addr = ls[i].addr /\ after[i].set = ls[i].set
          /\ after[i].queued = Append(ls[i].queued, addr)
      BY <2>1, <3>1, AppendsReference
    <3>2a. ls[i] \in LabelEntry
      BY <2>1
    <3>3. ls[i].queued \in Seq(Nat)
      BY <3>2a DEF LabelEntry
    <3>4. Longer(ls[i].queued, after[i].queued)
      BY <3>2, <3>3, AppendLonger
    <3>5. PutsAt(ls, after, i, after[i])
      BY <2>1, <3>2, <3>4 DEF PutsAt
    <3>6. QueuesEntry(ls, i, after[i], name, addr)
      BY <2>1, <2>3, <3>2 DEF QueuesEntry
    <3> QED
      BY <3>1, <3>5, <3>6 DEF got
  <2> QED
    BY <2>2, <2>3
<1>3. CASE find_label_index(ls, name) = 0
  <2> DEFINE new  == Pushed(name, addr, FALSE)
             last == Len(ls) + 1
  <2>1. known = push_label(ls, name, addr, FALSE) /\ \A m \in DOMAIN ls : ls[m].label # name
    BY <1>3, FindsIndex DEF Known
  <2>2. PutsAt(ls, known, last, new)
    BY <2>1, PushPuts
  <2>3. new.label = name /\ new.addr = addr /\ ~new.set /\ new.queued = <<>>
    BY DEF Pushed
  <2>4. known \in Seq(LabelEntry)
    <3>1. new \in LabelEntry
      BY DEF Pushed, LabelEntry
    <3>2. known = Append(ls, new)
      BY <2>1 DEF push_label, Pushed
    <3> HIDE DEF known, new
    <3> QED
      BY <3>1, <3>2
  <2>5. last \notin DOMAIN ls /\ last # 0
    OBVIOUS
  <2> HIDE DEF known, new, last
  <2>6. i \in DOMAIN known /\ known[i].label = name
    <3>1. last \in DOMAIN known /\ known[last].label = name
      BY <2>2, <2>3 DEF PutsAt
    <3> QED
      BY <3>1, <2>4, FindsIndex
  <2> HIDE DEF i
  <2>7. i = last
    BY <2>1, <2>2, <2>6 DEF PutsAt
  <2>8. known[i] = new /\ ~known[i].set
    BY <2>2, <2>3, <2>7 DEF PutsAt
  <2>9. got.labels = after
    BY <1>1, <2>8
  <2>10. /\ DOMAIN after = DOMAIN known /\ \A m \in DOMAIN known : m # i => after[m] = known[m]
         /\ after[i].label = known[i].label /\ after[i].addr = known[i].addr /\ after[i].set = known[i].set
         /\ after[i].queued = Append(known[i].queued, addr)
    BY <2>4, <2>6, AppendsReference
  <2>11. after[i].queued = <<addr>>
    <3>1. after[i].queued = Append(<<>>, addr)
      BY <2>3, <2>8, <2>10
    <3>2. Append(<<>>, addr) = <<addr>>
      OBVIOUS
    <3> HIDE DEF after
    <3> QED
      BY <3>1, <3>2
  <2> HIDE DEF after
  <2>12. PutsAt(ls, after, last, after[i])
    BY <2>1, <2>2, <2>3, <2>5, <2>7, <2>8, <2>10 DEF PutsAt
  <2>13. QueuesEntry(ls, last, after[i], name, addr)
    BY <2>3, <2>5, <2>8, <2>10, <2>11 DEF QueuesEntry
  <2> QED
    BY <2>9, <2>12, <2>13 DEF got
<1> QED
  BY <1>2, <1>3

-----------------------------------------------------------------------------
(* What the labels tell, when the definitions of the first seen statements *)
(* and the first len bytes of the file have been gone through.             *)
Distinct(ls) == \A i, j \in DOMAIN ls : ls[i].label = ls[j].label => i = j

DefinedBy(ts, seen, e) ==
  /\ e.label # NoText
  /\ \E k \in 1 .. seen : /\ ts[k].label = e.label /\ e.addr = Addresses(ts)[k]
                          /\ \A m \in 1 .. k - 1 : ts[m].label # e.label
UsedFirst(ts, len, e) ==
  /\ Stands(ts, e.addr, Half(e.label, TRUE)) /\ e.addr < len
  /\ \A p : Stands(ts, p, Half(e.label, TRUE)) => e.addr <= p
Tells(ts, seen, len, e) == IF e.set THEN DefinedBy(ts, seen, e) ELSE UsedFirst(ts, len, e)

IsSet(ls, name) == \E i \in DOMAIN ls : ls[i].label = name /\ ls[i].set
Has(ls, name)   == \E i \in DOMAIN ls : ls[i].label = name

ReferenceAt(ts, len, name, q) ==
  /\ Stands(ts, q, Half(name, TRUE)) /\ Stands(ts, q + 1, Half(name, FALSE)) /\ q + 2 <= len
QueueRight(ts, len, e) == \A j \in DOMAIN e.queued : ReferenceAt(ts, len, e.label, e.queued[j])

LabelsTell(ts, ls, seen, len) ==
  /\ Distinct(ls)
  /\ \A i \in DOMAIN ls : Tells(ts, seen, len, ls[i]) /\ QueueRight(ts, len, ls[i])
  /\ \A k \in 1 .. seen : ts[k].label # NoText => IsSet(ls, ts[k].label)
  /\ \A p, name : Stands(ts, p, Half(name, TRUE)) /\ p < len => Has(ls, name)

LEMMA StandsNat ==
  ASSUME NEW ts \in Seq(TokenType), NEW p, NEW b, Stands(ts, p, b)
  PROVE  p \in Nat
BY StandsInBounds DEF Stands

LEMMA EntryMonotone ==
  ASSUME NEW ts, NEW seen \in Nat, NEW more \in Nat, seen <= more,
         NEW len \in Nat, NEW end \in Nat, len <= end, NEW e \in LabelEntry
  PROVE  /\ DefinedBy(ts, seen, e) => DefinedBy(ts, more, e)
         /\ UsedFirst(ts, len, e) => UsedFirst(ts, end, e)
         /\ QueueRight(ts, len, e) => QueueRight(ts, end, e)
<1>1. 1 .. seen \subseteq 1 .. more
  OBVIOUS
<1>2. e.addr \in Nat /\ \A j \in DOMAIN e.queued : e.queued[j] \in Nat
  BY DEF LabelEntry
<1>3. DefinedBy(ts, seen, e) => DefinedBy(ts, more, e)
  BY <1>1 DEF DefinedBy
<1>4. UsedFirst(ts, len, e) => UsedFirst(ts, end, e)
  <2>1. ASSUME e.addr < len PROVE e.addr < end
    BY <1>2, <2>1
  <2> QED
    BY <2>1 DEF UsedFirst
<1>5. QueueRight(ts, len, e) => QueueRight(ts, end, e)
  <2>1. ASSUME NEW q \in Nat, q + 2 <= len PROVE q + 2 <= end
    BY <2>1
  <2> QED
    BY <1>2, <2>1 DEF QueueRight, ReferenceAt
<1> QED
  BY <1>3, <1>4, <1>5

(* Fixed bytes are written, or none: the labels tell the same.             *)
LEMMA TellMonotone ==
  ASSUME NEW ts \in Seq(TokenType), NEW ls \in Seq(LabelEntry), NEW seen \in Nat,
         NEW len \in Nat, NEW end \in Nat, len <= end,
         LabelsTell(ts, ls, seen, len),
         \A p, name : Stands(ts, p, Half(name, TRUE)) /\ len <= p => end <= p
  PROVE  LabelsTell(ts, ls, seen, end)
<1>1. ASSUME NEW i \in DOMAIN ls PROVE Tells(ts, seen, end, ls[i]) /\ QueueRight(ts, end, ls[i])
  <2>1. ls[i] \in LabelEntry /\ Tells(ts, seen, len, ls[i]) /\ QueueRight(ts, len, ls[i])
    BY DEF LabelsTell
  <2> QED
    BY <2>1, EntryMonotone DEF Tells
<1>2. ASSUME NEW p, NEW name, Stands(ts, p, Half(name, TRUE)), p < end PROVE Has(ls, name)
  <2>0. p \in Nat /\ (len <= p => end <= p)
    BY <1>2, StandsNat
  <2>1. p < len
    BY <1>2, <2>0
  <2> QED
    BY <1>2, <2>1 DEF LabelsTell
<1> QED
  BY <1>1, <1>2 DEF LabelsTell

(* An entry is put that tells the truth: so do all.                        *)
LEMMA PutTells ==
  ASSUME NEW ts \in Seq(TokenType), NEW ls \in Seq(LabelEntry),
         NEW seen \in Nat, NEW more \in Nat, seen <= more,
         NEW len \in Nat, NEW end \in Nat, len <= end,
         LabelsTell(ts, ls, seen, len),
         NEW after, NEW i, NEW e, PutsAt(ls, after, i, e),
         Tells(ts, more, end, e), QueueRight(ts, end, e),
         i \in DOMAIN ls /\ ls[i].set => e.set,
         \A k \in 1 .. more : k \notin 1 .. seen /\ ts[k].label # NoText => ts[k].label = e.label /\ e.set,
         \A p, name : Stands(ts, p, Half(name, TRUE)) /\ len <= p /\ p < end => name = e.label
  PROVE  LabelsTell(ts, after, more, end)
<1>1. i \in DOMAIN after /\ after[i] = e /\ DOMAIN after = DOMAIN ls \cup {i}
  BY DEF PutsAt
<1>2. ASSUME NEW m \in DOMAIN after, m # i
      PROVE m \in DOMAIN ls /\ after[m] = ls[m] /\ ls[m].label # e.label
  BY <1>2 DEF PutsAt, LabelsTell, Distinct
<1>3. Distinct(after)
  <2> SUFFICES ASSUME NEW m \in DOMAIN after, NEW n \in DOMAIN after, after[m].label = after[n].label
               PROVE m = n
    BY DEF Distinct
  <2>1. CASE m = i \/ n = i
    BY <2>1, <1>1, <1>2
  <2>2. CASE m # i /\ n # i
    BY <2>2, <1>2 DEF LabelsTell, Distinct
  <2> QED
    BY <2>1, <2>2
<1>4. ASSUME NEW m \in DOMAIN after
      PROVE Tells(ts, more, end, after[m]) /\ QueueRight(ts, end, after[m])
  <2>1. CASE m = i
    BY <2>1, <1>1
  <2>2. CASE m # i
    <3>1. m \in DOMAIN ls /\ after[m] = ls[m]
      BY <2>2, <1>2
    <3>2. ls[m] \in LabelEntry /\ Tells(ts, seen, len, ls[m]) /\ QueueRight(ts, len, ls[m])
      BY <3>1 DEF LabelsTell
    <3>3. Tells(ts, more, end, ls[m]) /\ QueueRight(ts, end, ls[m])
      BY <3>2, EntryMonotone DEF Tells
    <3> QED
      BY <3>1, <3>3
  <2> QED
    BY <2>1, <2>2
<1>5. ASSUME NEW name, IsSet(ls, name) PROVE IsSet(after, name)
  <2>1. PICK m \in DOMAIN ls : ls[m].label = name /\ ls[m].set
    BY <1>5 DEF IsSet
  <2>2. CASE m = i
    BY <2>1, <2>2, <1>1 DEF PutsAt, IsSet
  <2>3. CASE m # i
    BY <2>1, <2>3 DEF PutsAt, IsSet
  <2> QED
    BY <2>2, <2>3
<1>6. ASSUME NEW name, Has(ls, name) PROVE Has(after, name)
  <2>1. PICK m \in DOMAIN ls : ls[m].label = name
    BY <1>6 DEF Has
  <2>2. CASE m = i
    BY <2>1, <2>2, <1>1 DEF PutsAt, Has
  <2>3. CASE m # i
    BY <2>1, <2>3 DEF PutsAt, Has
  <2> QED
    BY <2>2, <2>3
<1>7. ASSUME NEW k \in 1 .. more, ts[k].label # NoText PROVE IsSet(after, ts[k].label)
  <2>1. CASE k \in 1 .. seen
    BY <2>1, <1>5, <1>7 DEF LabelsTell
  <2>2. CASE k \notin 1 .. seen
    BY <2>2, <1>1, <1>7 DEF IsSet
  <2> QED
    BY <2>1, <2>2
<1>8. ASSUME NEW p, NEW name, Stands(ts, p, Half(name, TRUE)), p < end PROVE Has(after, name)
  <2>0. p \in Nat
    BY <1>8, StandsNat
  <2>1. CASE p < len
    BY <2>1, <1>6, <1>8 DEF LabelsTell
  <2>2. CASE len <= p
    <3>1. name = e.label
      BY <1>8, <2>2
    <3> QED
      BY <3>1, <1>1 DEF Has
  <2> QED
    BY <2>0, <2>1, <2>2
<1> QED
  BY <1>3, <1>4, <1>7, <1>8 DEF LabelsTell

(* The label of statement k is added when the file ends at its address.    *)
LEMMA AddTells ==
  ASSUME NEW ts \in Seq(TokenType), NEW ls \in Seq(LabelEntry), NEW k \in 1 .. Len(ts), NEW len \in Nat,
         LabelsTell(ts, ls, k - 1, len), ts[k].label # NoText
  PROVE  LET after == add_label(ls, ts[k].label, Addresses(ts)[k]) IN
           /\ LabelsTell(ts, after, k, len)
           /\ \E i, e : PutsAt(ls, after, i, e)
<1> DEFINE name  == ts[k].label
           addr  == Addresses(ts)[k]
           after == add_label(ls, name, addr)
<1> HIDE DEF name, addr, after
<1>1. PICK i, e : PutsAt(ls, after, i, e) /\ AddsEntry(ls, i, e, name, addr)
  BY AddPuts DEF after
<1>2. k \in Nat /\ k - 1 \in Nat /\ k - 1 <= k /\ 1 .. k = 1 .. (k - 1) \cup {k}
  OBVIOUS
<1>3. e.label = name /\ e.set
  BY <1>1 DEF AddsEntry
<1>4. DefinedBy(ts, k, e)
  <2>1. CASE i \in DOMAIN ls /\ ls[i].set
    <3>1. DefinedBy(ts, k - 1, ls[i]) /\ e.label = ls[i].label /\ e.addr = ls[i].addr
      BY <1>1, <2>1 DEF LabelsTell, Tells, PutsAt, AddsEntry
    <3>2. DefinedBy(ts, k - 1, e)
      BY <3>1 DEF DefinedBy
    <3> QED
      BY <3>2, <1>2 DEF DefinedBy
  <2>2. CASE ~(i \in DOMAIN ls /\ ls[i].set)
    <3>1. e.addr = addr
      BY <1>1, <2>2 DEF AddsEntry
    <3>2. ASSUME NEW m \in 1 .. k - 1 PROVE ts[m].label # name
      <4> SUFFICES ASSUME ts[m].label = name PROVE FALSE
        OBVIOUS
      <4>1. PICK n \in DOMAIN ls : ls[n].label = name /\ ls[n].set
        <5>1. name # NoText
          BY DEF name
        <5> QED
          BY <5>1 DEF LabelsTell, IsSet
      <4>2. i \in DOMAIN ls
        BY <1>1, <1>3, <4>1 DEF PutsAt
      <4>3. i = n
        BY <1>1, <1>3, <4>1, <4>2 DEF PutsAt, LabelsTell, Distinct
      <4> QED
        BY <2>2, <4>1, <4>3
    <3>3. k \in 1 .. k /\ ts[k].label = name /\ name # NoText
      BY <1>2 DEF name
    <3> QED
      BY <1>3, <3>1, <3>2, <3>3 DEF DefinedBy, addr
  <2> QED
    BY <2>1, <2>2
<1>5. QueueRight(ts, len, e)
  <2>1. CASE i \in DOMAIN ls
    <3>1. QueueRight(ts, len, ls[i]) /\ e.label = ls[i].label /\ e.queued = ls[i].queued
      BY <1>1, <2>1 DEF LabelsTell, PutsAt, AddsEntry
    <3> QED
      BY <3>1 DEF QueueRight
  <2>2. CASE i \notin DOMAIN ls
    <3>1. e.queued = <<>>
      BY <1>1, <2>2 DEF AddsEntry
    <3> QED
      BY <3>1 DEF QueueRight
  <2> QED
    BY <2>1, <2>2
<1>6. Tells(ts, k, len, e)
  BY <1>3, <1>4 DEF Tells
<1>7. \A m \in 1 .. k : m \notin 1 .. k - 1 /\ ts[m].label # NoText => ts[m].label = e.label /\ e.set
  BY <1>2, <1>3 DEF name
<1>8. \A p, n : Stands(ts, p, Half(n, TRUE)) /\ len <= p /\ p < len => n = e.label
  <2> SUFFICES ASSUME NEW p, NEW n, Stands(ts, p, Half(n, TRUE)), len <= p, p < len PROVE FALSE
    OBVIOUS
  <2>1. p \in Nat
    BY StandsNat
  <2> QED
    BY <2>1
<1>9. LabelsTell(ts, after, k, len)
  <2>1. len <= len
    OBVIOUS
  <2> QED
    BY <1>1, <1>2, <1>3, <1>5, <1>6, <1>7, <1>8, <2>1, PutTells
<1> QED
  BY <1>1, <1>9 DEF after, name, addr

(* No label at statement k, nothing is added.                              *)
LEMMA UnlabelledTells ==
  ASSUME NEW ts \in Seq(TokenType), NEW ls \in Seq(LabelEntry), NEW k \in 1 .. Len(ts), NEW len \in Nat,
         LabelsTell(ts, ls, k - 1, len), ts[k].label = NoText
  PROVE  LabelsTell(ts, ls, k, len)
<1>1. k \in Nat /\ k - 1 \in Nat /\ k - 1 <= k /\ 1 .. k = 1 .. (k - 1) \cup {k} /\ len <= len
  OBVIOUS
<1>2. ASSUME NEW i \in DOMAIN ls PROVE Tells(ts, k, len, ls[i]) /\ QueueRight(ts, len, ls[i])
  <2>1. ls[i] \in LabelEntry /\ Tells(ts, k - 1, len, ls[i]) /\ QueueRight(ts, len, ls[i])
    BY DEF LabelsTell
  <2> QED
    BY <2>1, <1>1, EntryMonotone DEF Tells
<1> QED
  BY <1>1, <1>2 DEF LabelsTell

(* A reference at the end of what is written is queued, or has the value.  *)
Queues(ls, name, q) == \E i \in DOMAIN ls : ls[i].label = name /\ \E j \in DOMAIN ls[i].queued : ls[i].queued[j] = q

LEMMA QueueTells ==
  ASSUME NEW ts \in Seq(TokenType), NEW ls \in Seq(LabelEntry), NEW seen \in Nat,
         NEW len \in Nat, NEW end \in Nat, NEW name \in Texts, NEW addr \in Nat,
         LabelsTell(ts, ls, seen, len), len <= addr, addr + 2 <= end,
         ReferenceAt(ts, end, name, addr),
         \A p, n : Stands(ts, p, Half(n, TRUE)) /\ len <= p /\ p < end => p = addr /\ n = name
  PROVE  LET got == queue_or_get_label(ls, name, addr) IN
           /\ LabelsTell(ts, got.labels, seen, end)
           /\ \/ \E e : e.label = name /\ e.addr = got.value /\ DefinedBy(ts, seen, e) /\ got.labels = ls
              \/ Queues(got.labels, name, addr) /\ \E i, e : PutsAt(ls, got.labels, i, e)
<1> DEFINE got == queue_or_get_label(ls, name, addr)
<1> HIDE DEF got
<1>0. len <= end /\ seen <= seen /\ addr < end
  OBVIOUS
<1>1. CASE \E i \in DOMAIN ls : ls[i].label = name /\ ls[i].set /\ got.labels = ls /\ got.value = ls[i].addr
  <2>1. PICK i \in DOMAIN ls : ls[i].label = name /\ ls[i].set /\ got.labels = ls /\ got.value = ls[i].addr
    BY <1>1
  <2>2. DefinedBy(ts, seen, ls[i])
    BY <2>1 DEF LabelsTell, Tells
  <2>3. LabelsTell(ts, ls, seen, end)
    <3> DEFINE e == ls[i]
    <3>1. PutsAt(ls, ls, i, e)
      BY <2>1 DEF PutsAt, Longer
    <3>2. ls[i] \in LabelEntry /\ QueueRight(ts, len, ls[i])
      BY DEF LabelsTell
    <3>3. QueueRight(ts, end, e) /\ Tells(ts, seen, end, e) /\ e.label = name /\ e.set
      BY <1>0, <2>1, <2>2, <3>2, EntryMonotone DEF Tells
    <3> HIDE DEF e
    <3> QED
      BY <1>0, <3>1, <3>3, PutTells
  <2> QED
    BY <2>1, <2>2, <2>3 DEF got
<1>2. CASE \E i, e : PutsAt(ls, got.labels, i, e) /\ QueuesEntry(ls, i, e, name, addr)
  <2>1. PICK i, e : PutsAt(ls, got.labels, i, e) /\ QueuesEntry(ls, i, e, name, addr)
    BY <1>2
  <2>2. e.label = name /\ ~e.set
    BY <2>1 DEF QueuesEntry
  <2>3. UsedFirst(ts, end, e) /\ QueueRight(ts, end, e) /\ \E j \in DOMAIN e.queued : e.queued[j] = addr
    <3>1. CASE i \in DOMAIN ls
      <4>1. /\ ls[i] \in LabelEntry /\ Tells(ts, seen, len, ls[i]) /\ QueueRight(ts, len, ls[i])
            /\ ~ls[i].set /\ ls[i].label = name /\ e.addr = ls[i].addr /\ e.queued = Append(ls[i].queued, addr)
        BY <2>1, <2>2, <3>1 DEF LabelsTell, PutsAt, QueuesEntry
      <4>2. UsedFirst(ts, end, ls[i]) /\ QueueRight(ts, end, ls[i])
        BY <4>1, <1>0, EntryMonotone DEF Tells
      <4>3. UsedFirst(ts, end, e)
        BY <4>1, <4>2, <2>2 DEF UsedFirst
      <4> DEFINE q == ls[i].queued
                 p == e.queued
      <4>4. q \in Seq(Nat) /\ p = Append(q, addr)
        BY <4>1 DEF LabelEntry
      <4>5. \A j \in DOMAIN q : ReferenceAt(ts, end, name, q[j])
        BY <4>1, <4>2 DEF QueueRight
      <4> HIDE DEF q, p
      <4>6. /\ Longer(q, p) /\ Len(q) \in Nat
            /\ DOMAIN q = 1 .. Len(q) /\ DOMAIN p = 1 .. Len(q) + 1 /\ p[Len(q) + 1] = addr
        BY <4>4, AppendLonger
      <4>7. Len(q) + 1 \in DOMAIN p /\ \A j \in DOMAIN p : j \in DOMAIN q \/ j = Len(q) + 1
        BY <4>6
      <4>8. \A j \in DOMAIN p : ReferenceAt(ts, end, name, p[j])
        BY <4>5, <4>6, <4>7 DEF Longer
      <4> QED
        BY <4>3, <4>6, <4>7, <4>8, <2>2 DEF QueueRight, p
    <3>2. CASE i \notin DOMAIN ls
      <4>1. e.addr = addr /\ e.queued = <<addr>> /\ ~Has(ls, name)
        BY <2>1, <2>2, <3>2 DEF PutsAt, QueuesEntry, Has
      <4>2. ASSUME NEW p, Stands(ts, p, Half(name, TRUE)) PROVE addr <= p
        <5>1. p \in Nat /\ ~(p < len)
          BY <4>1, <4>2, StandsNat DEF LabelsTell
        <5>1a. len <= p
          BY <5>1
        <5>2. p < end => p = addr
          BY <4>2, <5>1a
        <5> QED
          BY <5>1, <5>2, <1>0
      <4>3. UsedFirst(ts, end, e)
        BY <4>1, <4>2, <2>2, <1>0 DEF UsedFirst, ReferenceAt
      <4>4. DOMAIN e.queued = {1} /\ e.queued[1] = addr
        BY <4>1
      <4> QED
        BY <4>3, <4>4, <2>2 DEF QueueRight
    <3> QED
      BY <3>1, <3>2
  <2>4. Queues(got.labels, name, addr)
    BY <2>1, <2>2, <2>3 DEF Queues, PutsAt
  <2>5. LabelsTell(ts, got.labels, seen, end)
    <3>1. Tells(ts, seen, end, e)
      BY <2>2, <2>3 DEF Tells
    <3>2. ~(i \in DOMAIN ls /\ ls[i].set)
      BY <2>1 DEF QueuesEntry
    <3>3. \A p, n : Stands(ts, p, Half(n, TRUE)) /\ len <= p /\ p < end => n = e.label
      BY <2>2
    <3> QED
      BY <1>0, <2>1, <2>3, <3>1, <3>2, <3>3, PutTells
  <2> QED
    BY <2>1, <2>4, <2>5 DEF got
<1> QED
  BY <1>1, <1>2, QueuePuts DEF got

-----------------------------------------------------------------------------
(* The values that the labels have are the values of the names.            *)
LEMMA MinIs ==
  ASSUME NEW S \in SUBSET Nat, NEW m \in S, \A k \in S : m <= k
  PROVE  Min(S) = m
<1>1. Min(S) \in S /\ Min(S) <= m
  BY LeastOfNats
<1> DEFINE least == Min(S)
<1> HIDE DEF least
<1>2. least \in Nat /\ m \in Nat /\ m <= least /\ least <= m
  BY <1>1 DEF least
<1> QED
  BY <1>2 DEF least

Definers(ts, name) == {i \in DOMAIN ts : ts[i].label = name /\ name # NoText}
PlacesIn(ts, name, i) ==
  {Addresses(ts)[i] + k - 1 : k \in {j \in DOMAIN Bytes(ts[i]) : Bytes(ts[i])[j] = Half(name, TRUE)}}
Places(ts, name) == UNION {PlacesIn(ts, name, i) : i \in DOMAIN ts}

LEMMA ValueByParts ==
  ASSUME NEW ts, NEW name
  PROVE  Value(ts, name) = IF Definers(ts, name) # {} THEN Addresses(ts)[Min(Definers(ts, name))]
                           ELSE Min(Places(ts, name))
BY DEF Value, Definers, Places, PlacesIn

LEMMA PlacesStand ==
  ASSUME NEW ts, NEW name
  PROVE  \A p : p \in Places(ts, name) <=> Stands(ts, p, Half(name, TRUE))
<1>1. \A p : p \in Places(ts, name) <=> \E i \in DOMAIN ts : p \in PlacesIn(ts, name, i)
  BY DEF Places
<1>2. ASSUME NEW p, NEW i
      PROVE  p \in PlacesIn(ts, name, i) <=> StandsIn(ts, i, p, Half(name, TRUE))
  <2> DEFINE h == Half(name, TRUE)
             a == Addresses(ts)[i]
             bytes == Bytes(ts[i])
  <2>1. PlacesIn(ts, name, i) = {a + k - 1 : k \in {j \in DOMAIN bytes : bytes[j] = h}}
    BY DEF PlacesIn
  <2>2. StandsIn(ts, i, p, h) <=> \E k \in DOMAIN bytes : p = a + k - 1 /\ h = bytes[k]
    BY DEF StandsIn
  <2> HIDE DEF h, a, bytes
  <2> QED
    BY <2>1, <2>2 DEF h
<1> QED
  BY <1>1, <1>2 DEF Stands

LEMMA DefinedValue ==
  ASSUME NEW ts \in Seq(TokenType), NEW seen \in 0 .. Len(ts), NEW e, DefinedBy(ts, seen, e)
  PROVE  e.addr = Value(ts, e.label)
<1> DEFINE S == Definers(ts, e.label)
<1>1. PICK k \in 1 .. seen : /\ ts[k].label = e.label /\ e.addr = Addresses(ts)[k]
                             /\ \A m \in 1 .. k - 1 : ts[m].label # e.label
  BY DEF DefinedBy
<1>2. k \in S
  BY <1>1 DEF Definers, DefinedBy
<1>3. S \in SUBSET Nat
  BY DEF Definers
<1>4. ASSUME NEW m \in S PROVE k <= m
  <2>1. m \in Nat \ {0} /\ ts[m].label = e.label
    BY DEF Definers
  <2>2. m \notin 1 .. k - 1
    BY <2>1, <1>1
  <2> QED
    BY <2>1, <2>2
<1> HIDE DEF S
<1>5. Min(S) = k
  BY <1>2, <1>3, <1>4, MinIs
<1>6. S # {}
  BY <1>2
<1> QED
  BY <1>1, <1>5, <1>6, ValueByParts DEF S

LEMMA UsedValue ==
  ASSUME NEW ts \in Seq(TokenType), NEW len, NEW e, UsedFirst(ts, len, e),
         \A k \in DOMAIN ts : ts[k].label # NoText => ts[k].label # e.label
  PROVE  e.addr = Value(ts, e.label)
<1> DEFINE S == Places(ts, e.label)
<1>1. e.addr \in S
  BY PlacesStand DEF UsedFirst
<1>2. S \in SUBSET Nat
  <2>1. \A p \in S : p \in Nat
    BY PlacesStand, StandsNat
  <2> QED
    BY <2>1
<1>3. \A p \in S : e.addr <= p
  BY PlacesStand DEF UsedFirst
<1>4. Definers(ts, e.label) = {}
  BY DEF Definers
<1> HIDE DEF S
<1>5. Min(S) = e.addr
  BY <1>1, <1>2, <1>3, MinIs
<1> QED
  BY <1>4, <1>5, ValueByParts DEF S

(* At the end every label has the value of its name.                       *)
LEMMA AllValues ==
  ASSUME NEW ts \in Seq(TokenType), NEW ls, NEW len, LabelsTell(ts, ls, Len(ts), len), NEW i \in DOMAIN ls
  PROVE  ls[i].addr = Value(ts, ls[i].label)
<1>1. Len(ts) \in 0 .. Len(ts) /\ DOMAIN ts = 1 .. Len(ts)
  OBVIOUS
<1>2. CASE ls[i].set
  BY <1>1, <1>2, DefinedValue DEF LabelsTell, Tells
<1>3. CASE ~ls[i].set
  <2>1. UsedFirst(ts, len, ls[i])
    BY <1>3 DEF LabelsTell, Tells
  <2>2. ASSUME NEW k \in DOMAIN ts, ts[k].label # NoText, ts[k].label = ls[i].label PROVE FALSE
    <3>1. PICK n \in DOMAIN ls : ls[n].label = ts[k].label /\ ls[n].set
      BY <1>1, <2>2 DEF LabelsTell, IsSet
    <3>2. n = i
      BY <2>2, <3>1 DEF LabelsTell, Distinct
    <3> QED
      BY <1>3, <3>1, <3>2
  <2> QED
    BY <2>1, <2>2, UsedValue
<1> QED
  BY <1>2, <1>3

-----------------------------------------------------------------------------
(* What the bytes of the file tell: what stands there, or that a reference *)
(* is pending.  The queued ones before reference r of label l are patched. *)
Open(l, r, i, j)      == i > l \/ (i = l /\ j >= r)
Pending(ls, l, r, p) ==
  \E i \in DOMAIN ls : \E j \in DOMAIN ls[i].queued :
    Open(l, r, i, j) /\ p \in {ls[i].queued[j], ls[i].queued[j] + 1}
Told(ts, ls, l, r, p, b, x) == x = Resolved(ts, b) \/ Pending(ls, l, r, p)

CellsTell(ts, cells, len, ls, l, r) ==
  /\ \A p : p \in DOMAIN cells <=> p < len /\ \E b : Stands(ts, p, b)
  /\ \A p, b : Stands(ts, p, b) /\ p < len => Told(ts, ls, l, r, p, b, cells[p])

LEMMA AllOpen == ASSUME NEW i \in Nat \ {0}, NEW j \in Nat \ {0} PROVE Open(1, 1, i, j)
BY DEF Open

LEMMA StaysPending ==
  ASSUME NEW ls \in Seq(LabelEntry), NEW after \in Seq(LabelEntry), NEW i, NEW e, PutsAt(ls, after, i, e),
         NEW p, Pending(ls, 1, 1, p)
  PROVE  Pending(after, 1, 1, p)
<1>1. PICK m \in DOMAIN ls : \E j \in DOMAIN ls[m].queued : p \in {ls[m].queued[j], ls[m].queued[j] + 1}
  BY DEF Pending
<1>1a. PICK j \in DOMAIN ls[m].queued : p \in {ls[m].queued[j], ls[m].queued[j] + 1}
  BY <1>1
<1>2. m \in DOMAIN after /\ j \in DOMAIN after[m].queued /\ after[m].queued[j] = ls[m].queued[j]
  <2>1. CASE m = i
    BY <2>1, <1>1a DEF PutsAt, Longer
  <2>2. CASE m # i
    BY <2>2, <1>1a DEF PutsAt
  <2> QED
    BY <2>1, <2>2
<1>3. after[m] \in LabelEntry /\ m \in Nat \ {0}
  BY <1>2
<1>4. j \in Nat \ {0}
  <2>1. after[m].queued \in Seq(Nat)
    BY <1>3 DEF LabelEntry
  <2> QED
    BY <2>1, <1>2
<1>5. Open(1, 1, m, j)
  BY <1>3, <1>4, AllOpen
<1> QED
  BY <1>1a, <1>2, <1>5 DEF Pending

LEMMA QueuedIsPending ==
  ASSUME NEW ls \in Seq(LabelEntry), NEW name, NEW q, Queues(ls, name, q)
  PROVE  Pending(ls, 1, 1, q) /\ Pending(ls, 1, 1, q + 1)
<1>1. PICK m \in DOMAIN ls : \E j \in DOMAIN ls[m].queued : ls[m].queued[j] = q
  BY DEF Queues
<1>1a. PICK j \in DOMAIN ls[m].queued : ls[m].queued[j] = q
  BY <1>1
<1>2. ls[m].queued \in Seq(Nat) /\ m \in Nat \ {0}
  <2>1. ls[m] \in LabelEntry
    OBVIOUS
  <2> QED
    BY <2>1 DEF LabelEntry
<1>3. Open(1, 1, m, j)
  BY <1>2, AllOpen
<1> QED
  BY <1>1a, <1>3 DEF Pending

(* The labels change, the file does not.                                   *)
LEMMA CellsKeepTelling ==
  ASSUME NEW ts, NEW cells, NEW len, NEW ls, NEW after,
         CellsTell(ts, cells, len, ls, 1, 1),
         \A p : Pending(ls, 1, 1, p) => Pending(after, 1, 1, p)
  PROVE  CellsTell(ts, cells, len, after, 1, 1)
BY DEF CellsTell, Told

(* The file grows over a part where no byte of a statement stands.         *)
LEMMA FillTells ==
  ASSUME NEW ts \in Seq(TokenType), NEW cells, NEW len \in Nat, NEW end \in Nat, len <= end, NEW ls,
         CellsTell(ts, cells, len, ls, 1, 1),
         \A p, b : Stands(ts, p, b) /\ len <= p => end <= p
  PROVE  CellsTell(ts, cells, end, ls, 1, 1)
<1>1. ASSUME NEW p, NEW b, Stands(ts, p, b) PROVE p < len <=> p < end
  <2>1. p \in Nat
    BY <1>1, StandsNat
  <2>2. len <= p => end <= p
    BY <1>1
  <2> QED
    BY <2>1, <2>2
<1> QED
  BY <1>1 DEF CellsTell

LEMMA WrittenCells ==
  ASSUME NEW file, NEW bytes, file.len \in Nat, Len(bytes) \in Nat
  PROVE  LET cells == Written(file, bytes).cells IN
           /\ DOMAIN cells = DOMAIN file.cells \cup file.len .. file.len + Len(bytes) - 1
           /\ \A p \in DOMAIN file.cells : p < file.len => cells[p] = file.cells[p]
           /\ \A k \in 1 .. Len(bytes) : cells[file.len + k - 1] = bytes[k]
<1> DEFINE cells == Written(file, bytes).cells
           n == file.len
           m == Len(bytes)
<1>1. cells = [k \in DOMAIN file.cells \cup n .. n + m - 1 |->
                 IF k < n THEN file.cells[k] ELSE bytes[k - n + 1]]
  BY DEF Written
<1> HIDE DEF cells, n, m
<1>2. ASSUME NEW k \in 1 .. m PROVE cells[n + k - 1] = bytes[k]
  <2> DEFINE p == n + k - 1
  <2>1. p \in n .. n + m - 1 /\ ~(p < n) /\ p - n + 1 = k
    BY DEF n, m
  <2> HIDE DEF p
  <2>2. cells[p] = bytes[p - n + 1]
    BY <2>1, <1>1
  <2> QED
    BY <2>1, <2>2 DEF p
<1> QED
  BY <1>1, <1>2 DEF cells, n, m

(* What stands behind the end is written. *)
LEMMA WriteTells ==
  ASSUME NEW ts \in Seq(TokenType), NEW file, NEW bytes, NEW ls, NEW end,
         file.len \in Nat, Len(bytes) \in Nat, end = file.len + Len(bytes),
         CellsTell(ts, file.cells, file.len, ls, 1, 1),
         \A k \in 1 .. Len(bytes) : \E b :
           Stands(ts, file.len + k - 1, b) /\ Told(ts, ls, 1, 1, file.len + k - 1, b, bytes[k])
  PROVE  CellsTell(ts, Written(file, bytes).cells, end, ls, 1, 1)
<1> DEFINE cells == Written(file, bytes).cells
           n == file.len
           m == Len(bytes)
<1>1. /\ DOMAIN cells = DOMAIN file.cells \cup n .. n + m - 1
      /\ \A p \in DOMAIN file.cells : p < n => cells[p] = file.cells[p]
      /\ \A k \in 1 .. m : cells[n + k - 1] = bytes[k]
  BY WrittenCells
<1> HIDE DEF cells, n, m
<1>2. n \in Nat /\ m \in Nat /\ end = n + m
  BY DEF n, m
<1>3. ASSUME NEW p \in n .. n + m - 1
      PROVE \E b : Stands(ts, p, b) /\ Told(ts, ls, 1, 1, p, b, cells[p])
  <2> DEFINE k == p - n + 1
  <2>1. k \in 1 .. m /\ n + k - 1 = p
    BY <1>2
  <2> HIDE DEF k
  <2>2. PICK b : Stands(ts, n + k - 1, b) /\ Told(ts, ls, 1, 1, n + k - 1, b, bytes[k])
    BY <2>1 DEF n, m
  <2> QED
    BY <2>1, <2>2, <1>1
<1>4. ASSUME NEW p, NEW b, Stands(ts, p, b), p < end
      PROVE p \in DOMAIN cells /\ Told(ts, ls, 1, 1, p, b, cells[p])
  <2>1. p \in Nat
    BY <1>4, StandsNat
  <2>2. CASE p < n
    <3>1. p \in DOMAIN file.cells /\ Told(ts, ls, 1, 1, p, b, file.cells[p])
      BY <1>4, <2>2 DEF CellsTell, n
    <3> QED
      BY <3>1, <2>2, <1>1
  <2>3. CASE ~(p < n)
    <3>1. p \in n .. n + m - 1
      BY <2>1, <2>3, <1>2, <1>4
    <3>2. PICK c : Stands(ts, p, c) /\ Told(ts, ls, 1, 1, p, c, cells[p])
      BY <3>1, <1>3
    <3>3. c = b
      BY <3>2, <1>4, StandsOnce
    <3> QED
      BY <3>1, <3>2, <3>3, <1>1
  <2> QED
    BY <2>2, <2>3
<1>5. ASSUME NEW p \in DOMAIN cells PROVE p < end /\ \E b : Stands(ts, p, b)
  <2>1. CASE p \in n .. n + m - 1
    <3>1. p < end
      BY <2>1, <1>2
    <3> QED
      BY <3>1, <2>1, <1>3
  <2>2. CASE p \notin n .. n + m - 1
    <3>1. p < n /\ \E b : Stands(ts, p, b)
      BY <2>2, <1>1 DEF CellsTell, n
    <3>2. p \in Nat
      BY <3>1, StandsNat
    <3> QED
      BY <3>1, <3>2, <1>2
  <2> QED
    BY <2>1, <2>2
<1> QED
  BY <1>4, <1>5 DEF CellsTell, cells

LEMMA FixedResolves ==
  ASSUME NEW ts, NEW x, NEW b, b = Fixed(x)
  PROVE  Resolved(ts, b) = x
<1>1. "byte" \in DOMAIN b /\ b.byte = x
  BY DEF Fixed
<1> QED
  BY <1>1 DEF Resolved

LEMMA HighResolves ==
  ASSUME NEW ts, NEW n, NEW b, b = Half(n, TRUE)
  PROVE  Resolved(ts, b) = Hi(Value(ts, n))
<1>1. "byte" \notin DOMAIN b /\ b.name = n /\ b.high
  BY DEF Half
<1> QED
  BY <1>1 DEF Resolved

LEMMA LowResolves ==
  ASSUME NEW ts, NEW n, NEW b, b = Half(n, FALSE)
  PROVE  Resolved(ts, b) = Lo(Value(ts, n))
<1>1. "byte" \notin DOMAIN b /\ b.name = n /\ ~b.high
  BY DEF Half
<1> QED
  BY <1>1 DEF Resolved

LEMMA FixedIsNoHalf ==
  ASSUME NEW x, NEW n, NEW high, Half(n, high) = Fixed(x) PROVE FALSE
BY HalvesDiffer

LEMMA HighIsNotLow ==
  ASSUME NEW n, NEW m, Half(n, TRUE) = Half(m, FALSE) PROVE FALSE
BY HalvesDiffer

LEMMA HalvesOfOne ==
  ASSUME NEW n, NEW m, Half(n, TRUE) = Half(m, TRUE) PROVE n = m
BY HalvesDiffer

-----------------------------------------------------------------------------
(* A part of the layout that is written in one step. *)
Chunk(ts, len, c) == Len(c) \in Nat /\ \A k \in 1 .. Len(c) : Stands(ts, len + k - 1, c[k])

LEMMA ChunkOnly ==
  ASSUME NEW ts \in Seq(TokenType), NEW len \in Nat, NEW c, Chunk(ts, len, c),
         NEW p, NEW b, Stands(ts, p, b), len <= p, p < len + Len(c)
  PROVE  p - len + 1 \in 1 .. Len(c) /\ b = c[p - len + 1]
<1> DEFINE k == p - len + 1
           m == Len(c)
<1>1. p \in Nat /\ m \in Nat
  BY StandsNat DEF Chunk
<1>2. k \in 1 .. m /\ len + k - 1 = p
  <2> HIDE DEF m
  <2>1. p < len + m
    BY DEF m
  <2> QED
    BY <1>1, <2>1
<1>3. Stands(ts, len + k - 1, c[k])
  <2> HIDE DEF k
  <2> QED
    BY <1>2 DEF Chunk, m
<1>4. Stands(ts, p, c[k])
  <2> HIDE DEF k
  <2> QED
    BY <1>2, <1>3
<1> QED
  BY <1>2, <1>4, StandsOnce

LEMMA PutFixedTells ==
  ASSUME NEW ts \in Seq(TokenType), NEW file, NEW bytes, NEW c, NEW end \in Nat,
         NEW ls \in Seq(LabelEntry), NEW seen \in Nat,
         file.len \in Nat, Chunk(ts, file.len, c), Len(bytes) = Len(c), end = file.len + Len(c),
         \A k \in 1 .. Len(c) : c[k] = Fixed(bytes[k]),
         LabelsTell(ts, ls, seen, file.len), CellsTell(ts, file.cells, file.len, ls, 1, 1)
  PROVE  LabelsTell(ts, ls, seen, end) /\ CellsTell(ts, Written(file, bytes).cells, end, ls, 1, 1)
<1> DEFINE len == file.len
<1>1. len \in Nat /\ Len(c) \in Nat /\ end = len + Len(c) /\ len <= end
  BY DEF Chunk
<1> HIDE DEF len
<1>2. \A p, name : Stands(ts, p, Half(name, TRUE)) /\ len <= p => end <= p
  <2> SUFFICES ASSUME NEW p, NEW name, Stands(ts, p, Half(name, TRUE)), len <= p, ~(end <= p)
               PROVE  FALSE
    OBVIOUS
  <2> DEFINE k == p - len + 1
  <2>1. p \in Nat
    BY StandsNat
  <2>2. p < len + Len(c)
    BY <1>1, <2>1
  <2>3. k \in 1 .. Len(c) /\ Half(name, TRUE) = c[k]
    <3> DEFINE b == Half(name, TRUE)
    <3>0. Chunk(ts, len, c)
      BY DEF len
    <3>1. Stands(ts, p, b)
      OBVIOUS
    <3> HIDE DEF b
    <3>2. p - len + 1 \in 1 .. Len(c) /\ b = c[p - len + 1]
      BY <1>1, <2>2, <3>0, <3>1, ChunkOnly
    <3> QED
      BY <1>1, <3>2 DEF b
  <2> HIDE DEF k
  <2>4. c[k] = Fixed(bytes[k])
    BY <2>3
  <2> QED
    BY <2>3, <2>4, FixedIsNoHalf
<1>3. LabelsTell(ts, ls, seen, end)
  BY <1>1, <1>2, TellMonotone DEF len
<1>4. ASSUME NEW k \in 1 .. Len(bytes)
      PROVE \E b : Stands(ts, file.len + k - 1, b) /\ Told(ts, ls, 1, 1, file.len + k - 1, b, bytes[k])
  <2>1. Stands(ts, file.len + k - 1, c[k])
    BY DEF Chunk
  <2>2. c[k] = Fixed(bytes[k])
    OBVIOUS
  <2>3. bytes[k] = Resolved(ts, c[k])
    BY <2>2, FixedResolves
  <2> QED
    BY <2>1, <2>3 DEF Told
<1>5. CellsTell(ts, Written(file, bytes).cells, end, ls, 1, 1)
  BY <1>1, <1>4, WriteTells
<1> QED
  BY <1>3, <1>5

(* A reference, behind first bytes that are fixed. *)
ReferenceChunk(c, m, name) ==
  /\ Len(c) = m /\ c[m - 1] = Half(name, TRUE) /\ c[m] = Half(name, FALSE)

LEMMA PutReferenceTells ==
  ASSUME NEW ts \in Seq(TokenType), NEW file, NEW bytes, NEW c, NEW m \in Nat, m >= 2, NEW end \in Nat,
         NEW ls \in Seq(LabelEntry), NEW seen \in 0 .. Len(ts), NEW name \in Texts, NEW addr \in Nat,
         file.len \in Nat, Chunk(ts, file.len, c), Len(bytes) = m, end = file.len + m,
         addr = file.len + m - 2,
         ReferenceChunk(c, m, name),
         \A k \in 1 .. m - 2 : c[k] = Fixed(bytes[k]),
         LabelsTell(ts, ls, seen, file.len), CellsTell(ts, file.cells, file.len, ls, 1, 1),
         queue_or_get_label(ls, name, addr).labels \in Seq(LabelEntry),
         bytes[m - 1] = Hi(queue_or_get_label(ls, name, addr).value),
         bytes[m] = Lo(queue_or_get_label(ls, name, addr).value)
  PROVE  LET after == queue_or_get_label(ls, name, addr).labels IN
           LabelsTell(ts, after, seen, end) /\ CellsTell(ts, Written(file, bytes).cells, end, after, 1, 1)
<1> DEFINE len == file.len
           got == queue_or_get_label(ls, name, addr)
           after == got.labels
<1> HIDE DEF len, got
<1>1. /\ len \in Nat /\ Len(c) = m /\ end = len + m /\ len <= addr /\ addr + 2 = end /\ addr = len + m - 2
      /\ addr + 2 <= end
      /\ c[m - 1] = Half(name, TRUE) /\ c[m] = Half(name, FALSE)
      /\ m - 1 \in 1 .. m /\ m \in 1 .. m /\ len + (m - 1) - 1 = addr /\ len + m - 1 = addr + 1
  BY DEF len, ReferenceChunk
<1>2. \A k \in 1 .. m : Stands(ts, len + k - 1, c[k])
  BY <1>1 DEF Chunk, len
<1>3. Stands(ts, addr, Half(name, TRUE)) /\ Stands(ts, addr + 1, Half(name, FALSE))
  <2>1. Stands(ts, len + (m - 1) - 1, c[m - 1]) /\ Stands(ts, len + m - 1, c[m])
    BY <1>1, <1>2
  <2> QED
    BY <2>1, <1>1
<1>4. ReferenceAt(ts, end, name, addr)
  BY <1>1, <1>3 DEF ReferenceAt
<1>5. \A p, n : Stands(ts, p, Half(n, TRUE)) /\ len <= p /\ p < end => p = addr /\ n = name
  <2> SUFFICES ASSUME NEW p, NEW n, Stands(ts, p, Half(n, TRUE)), len <= p, p < end
               PROVE  p = addr /\ n = name
    OBVIOUS
  <2> DEFINE k == p - len + 1
  <2>1. p \in Nat
    BY StandsNat
  <2>2a. Chunk(ts, len, c) /\ p < len + Len(c)
    BY <1>1 DEF len
  <2>2. k \in 1 .. m /\ Half(n, TRUE) = c[k]
    <3> DEFINE b == Half(n, TRUE)
    <3>1. Stands(ts, p, b)
      OBVIOUS
    <3> HIDE DEF b
    <3>1a. len \in Nat /\ len <= p /\ Chunk(ts, len, c) /\ p < len + Len(c)
      BY <1>1, <2>2a
    <3>2. p - len + 1 \in 1 .. Len(c) /\ b = c[p - len + 1]
      BY <3>1a, <3>1, ChunkOnly
    <3> QED
      BY <1>1, <3>2 DEF b
  <2>3. p = len + k - 1
    BY <1>1, <2>1
  <2> HIDE DEF k
  <2>4. ASSUME k \in 1 .. m - 2 PROVE FALSE
    <3>1. c[k] = Fixed(bytes[k])
      BY <2>4
    <3> QED
      BY <2>2, <3>1, FixedIsNoHalf
  <2>5. k = m - 1 \/ k = m
    BY <2>2, <2>4
  <2>6. ASSUME k = m PROVE FALSE
    <3>1. Half(n, TRUE) = Half(name, FALSE)
      BY <1>1, <2>2, <2>6
    <3> QED
      BY <3>1, HighIsNotLow
  <2>7. k = m - 1
    BY <2>5, <2>6
  <2>8. n = name
    <3>1. Half(n, TRUE) = Half(name, TRUE)
      BY <1>1, <2>2, <2>7
    <3> QED
      BY <3>1, HalvesOfOne
  <2>9. p = addr
    BY <2>3, <2>7, <1>1
  <2> QED
    BY <2>8, <2>9
<1>6. /\ LabelsTell(ts, after, seen, end)
      /\ \/ \E e : e.label = name /\ e.addr = got.value /\ DefinedBy(ts, seen, e) /\ after = ls
         \/ Queues(after, name, addr) /\ \E i, e : PutsAt(ls, after, i, e)
  <2>1. LabelsTell(ts, ls, seen, len) /\ seen \in Nat
    BY DEF len
  <2> QED
    BY <2>1, <1>1, <1>4, <1>5, QueueTells DEF got
<1>7. CASE \E e : e.label = name /\ e.addr = got.value /\ DefinedBy(ts, seen, e) /\ after = ls
  <2>1. got.value = Value(ts, name) /\ after = ls
    BY <1>7, DefinedValue
  <2>2. bytes[m - 1] = Resolved(ts, c[m - 1]) /\ bytes[m] = Resolved(ts, c[m])
    <3>1. bytes[m - 1] = Hi(Value(ts, name)) /\ bytes[m] = Lo(Value(ts, name))
      BY <2>1 DEF got
    <3> QED
      BY <3>1, <1>1, HighResolves, LowResolves
  <2>3. ASSUME NEW k \in 1 .. Len(bytes)
        PROVE \E b : Stands(ts, file.len + k - 1, b) /\ Told(ts, ls, 1, 1, file.len + k - 1, b, bytes[k])
    <3>1. k \in 1 .. m - 2 \/ k = m - 1 \/ k = m
      OBVIOUS
    <3>2. bytes[k] = Resolved(ts, c[k])
      <4>1. CASE k \in 1 .. m - 2
        <5>1. c[k] = Fixed(bytes[k])
          BY <4>1
        <5> QED
          BY <5>1, FixedResolves
      <4> QED
        BY <3>1, <2>2, <4>1
    <3>3. Stands(ts, file.len + k - 1, c[k])
      BY <1>2 DEF len
    <3> QED
      BY <3>2, <3>3 DEF Told
  <2>4. CellsTell(ts, Written(file, bytes).cells, end, ls, 1, 1)
    BY <2>3, WriteTells
  <2> QED
    BY <1>6, <2>1, <2>4 DEF got
<1>8. CASE Queues(after, name, addr) /\ \E i, e : PutsAt(ls, after, i, e)
  <2>0. after \in Seq(LabelEntry)
    BY DEF got
  <2>1. Pending(after, 1, 1, addr) /\ Pending(after, 1, 1, addr + 1)
    <3> HIDE DEF after
    <3> QED
      BY <1>8, <2>0, QueuedIsPending
  <2>2. \A p : Pending(ls, 1, 1, p) => Pending(after, 1, 1, p)
    <3> HIDE DEF after
    <3> QED
      BY <1>8, <2>0, StaysPending
  <2>3. CellsTell(ts, file.cells, file.len, after, 1, 1)
    BY <2>2, CellsKeepTelling
  <2>4. ASSUME NEW k \in 1 .. Len(bytes)
        PROVE \E b : Stands(ts, file.len + k - 1, b) /\ Told(ts, after, 1, 1, file.len + k - 1, b, bytes[k])
    <3>1. k \in 1 .. m - 2 \/ k = m - 1 \/ k = m
      OBVIOUS
    <3>2. Stands(ts, file.len + k - 1, c[k])
      BY <1>2 DEF len
    <3>3. CASE k \in 1 .. m - 2
      <4>0. c[k] = Fixed(bytes[k])
        BY <3>3
      <4>1. bytes[k] = Resolved(ts, c[k])
        BY <4>0, FixedResolves
      <4> QED
        BY <3>2, <4>1 DEF Told
    <3>4. CASE k = m - 1 \/ k = m
      <4>1. Pending(after, 1, 1, file.len + k - 1)
        BY <3>4, <2>1, <1>1 DEF len
      <4> QED
        BY <3>2, <4>1 DEF Told
    <3> QED
      BY <3>1, <3>3, <3>4
  <2>5. CellsTell(ts, Written(file, bytes).cells, end, after, 1, 1)
    <3> HIDE DEF after
    <3> QED
      BY <2>3, <2>4, WriteTells
  <2> QED
    BY <1>6, <2>5 DEF got
<1> QED
  BY <1>6, <1>7, <1>8

-----------------------------------------------------------------------------
(* The statements that count are the first ones, up to END.                *)
Prefix(ts, all) ==
  /\ ts \in Seq(TokenType) /\ Len(ts) \in Nat /\ Len(ts) <= Len(all)
  /\ DOMAIN ts = 1 .. Len(ts)
  /\ \A i \in 1 .. Len(ts) : ts[i] = all[i]
  /\ \A i \in 1 .. Len(ts) : i < Len(ts) => ts[i].opcode # "END"
  /\ \/ Len(ts) = Len(all)
     \/ Len(ts) \in 1 .. Len(ts) /\ ts[Len(ts)].opcode = "END"

LEMMA LiveIsPrefix ==
  ASSUME NEW all \in Seq(TokenType)
  PROVE  Prefix(Live(all), all)
<1> DEFINE ts == Live(all)
           S == EndsAt(all)
<1>1. CASE S = {}
  <2>1. ts = all
    BY <1>1 DEF Live
  <2>2. \A i \in 1 .. Len(all) : all[i].opcode # "END"
    BY <1>1 DEF EndsAt
  <2> HIDE DEF ts
  <2>3. Prefix(ts, all)
    BY <2>1, <2>2 DEF Prefix
  <2> QED
    BY <2>3 DEF ts
<1>2. CASE S # {}
  <2>1. S \in SUBSET Nat
    BY DEF EndsAt
  <2>2. Min(S) \in S /\ \A k \in S : Min(S) <= k
    BY <1>2, <2>1, LeastOfNats
  <2> DEFINE m == Min(S)
  <2>3. ts = SubSeq(all, 1, m)
    BY <1>2 DEF Live
  <2> HIDE DEF m
  <2>4. m \in 1 .. Len(all) /\ all[m].opcode = "END"
    BY <2>2 DEF EndsAt, m
  <2>5. \A i \in 1 .. m : i < m => all[i].opcode # "END"
    <3> SUFFICES ASSUME NEW i \in 1 .. m, i < m, all[i].opcode = "END" PROVE FALSE
      OBVIOUS
    <3>1. i \in S
      BY <2>4 DEF EndsAt
    <3>2. m <= i
      BY <3>1, <2>2 DEF m
    <3> QED
      BY <3>2, <2>4
  <2> HIDE DEF ts
  <2>6. /\ ts \in Seq(TokenType) /\ Len(ts) = m /\ m \in Nat
        /\ \A i \in 1 .. m : ts[i] = all[i]
    BY <2>3, <2>4
  <2>7. Prefix(ts, all)
    <3>1. \A i \in 1 .. m : i < m => ts[i].opcode # "END"
      BY <2>5, <2>6
    <3>2. m <= Len(all) /\ m \in 1 .. m /\ ts[m].opcode = "END"
      BY <2>4, <2>6
    <3> QED
      BY <2>6, <3>1, <3>2 DEF Prefix
  <2> QED
    BY <2>7 DEF ts
<1> QED
  BY <1>1, <1>2

-----------------------------------------------------------------------------
(* The inductive invariant, for the statements ts that count.              *)
Scope(ts) ==
  /\ Determinate(ts) /\ Extent(ts) <= AddressSpace
  /\ \A k \in DOMAIN ts : Addresses(ts)[k] < AddressSpace

NoEndBefore(ts, n) == \A i \in 1 .. n - 1 : ts[i].opcode # "END"
LayCursors(ts) ==
  /\ next \in 1 .. Len(ts) + 1
  /\ force_end \in BOOLEAN
  /\ force_end => next = Len(ts) + 1 /\ stage # "data"
  /\ ~force_end => NoEndBefore(ts, next)
  /\ stage = "data" => /\ next <= Len(ts) /\ arg <= Len(ts[next].args) + 1
                       /\ ts[next].opcode \in {"DB", "DW"}
  /\ stage \in {"patch", "assembled"} => next = Len(ts) + 1
  /\ stage \in {"write", "data"} => lab = 1 /\ ref = 1
  /\ stage = "assembled" => lab > Len(labels)

LaidLength(ts) == Addresses(ts)[next] + IF stage = "data" THEN Len(Joined(Pieces(ts[next]))[arg - 1]) ELSE 0
SeenTokens   == IF stage = "data" THEN next ELSE next - 1

Stages == {"write", "data", "patch", "assembled"}
LInv(ts) ==
  stage \in Stages =>
    /\ LayCursors(ts)
    /\ fout.len = LaidLength(ts) /\ curr_addr = U16(fout.len)
    /\ LabelsTell(ts, labels, SeenTokens, fout.len)
    /\ CellsTell(ts, fout.cells, fout.len, labels, lab, ref)

Laid == \A ts : ts = Live(tokens) /\ Scope(ts) => LInv(ts)

-----------------------------------------------------------------------------
(* What the invariant says when a token is read.                           *)
Reading(ts, n) ==
  /\ ts \in Seq(TokenType) /\ n \in 1 .. Len(ts) /\ Len(ts) \in Nat /\ DOMAIN ts = 1 .. Len(ts)
  /\ ts[n] \in TokenType
  /\ fout.len \in Nat /\ fout.len = Addresses(ts)[n] /\ curr_addr = fout.len
  /\ labels \in Seq(LabelEntry)
  /\ LabelsTell(ts, labels, n - 1, fout.len)
  /\ CellsTell(ts, fout.cells, fout.len, labels, 1, 1)
  /\ NoEndBefore(ts, n)

LEMMA AddressTyped ==
  ASSUME NEW ts \in Seq(TokenType), NEW i \in 1 .. Len(ts) + 1
  PROVE  Addresses(ts)[i] \in Nat
BY AddressesBySteps

LEMMA SmallAddress ==
  ASSUME NEW ts \in Seq(TokenType), Scope(ts), NEW x \in Nat, NEW i \in 1 .. Len(ts) + 1,
         x < Addresses(ts)[i]
  PROVE  x < 65536 /\ U16(x) = x
<1>1. Len(ts) + 1 \in 1 .. Len(ts) + 1 /\ i <= Len(ts) + 1
  OBVIOUS
<1>2. Addresses(ts)[i] <= Addresses(ts)[Len(ts) + 1]
  BY <1>1, AddressesGrow
<1>3. Addresses(ts)[i] \in Nat /\ Addresses(ts)[Len(ts) + 1] \in Nat
  BY <1>1, AddressTyped
<1>4. Addresses(ts)[Len(ts) + 1] <= 65536
  BY DEF Scope, Extent, AddressSpace, MaxShort
<1> DEFINE a == Addresses(ts)[i]
           z == Addresses(ts)[Len(ts) + 1]
<1>5. x < a /\ a <= z /\ a \in Nat /\ z \in Nat /\ z <= 65536
  BY <1>2, <1>3, <1>4
<1> HIDE DEF a, z
<1>6. x < 65536
  BY <1>5
<1> QED
  BY <1>6 DEF U16

LEMMA StartAddress ==
  ASSUME NEW ts \in Seq(TokenType), Scope(ts), NEW i \in 1 .. Len(ts)
  PROVE  Addresses(ts)[i] \in Nat /\ U16(Addresses(ts)[i]) = Addresses(ts)[i]
<1>1. Addresses(ts)[i] \in Nat
  BY AddressTyped
<1>2. Addresses(ts)[i] < 65536
  BY DEF Scope, AddressSpace, MaxShort
<1> DEFINE a == Addresses(ts)[i]
<1> HIDE DEF a
<1> QED
  BY <1>1, <1>2 DEF U16, a

LEMMA ReadsToken ==
  ASSUME NEW ts, Prefix(ts, tokens), Scope(ts), IInv, LInv(ts), Writing
  PROVE  /\ Reading(ts, next) /\ ts[next] = Token /\ next \in 1 .. Len(ts)
         /\ lab = 1 /\ ref = 1 /\ force_end = FALSE /\ stage = "write"
<1>1. stage = "write" /\ next <= Len(tokens) /\ ~force_end
  BY DEF Writing
<1>2. /\ LayCursors(ts) /\ fout.len = LaidLength(ts) /\ curr_addr = U16(fout.len)
      /\ LabelsTell(ts, labels, SeenTokens, fout.len)
      /\ CellsTell(ts, fout.cells, fout.len, labels, lab, ref)
  BY <1>1 DEF LInv, Stages
<1>3. next \in 1 .. Len(ts) + 1 /\ NoEndBefore(ts, next) /\ lab = 1 /\ ref = 1 /\ force_end = FALSE
  BY <1>1, <1>2 DEF LayCursors
<1>4. next \in 1 .. Len(ts)
  <2>0. Len(ts) \in Nat
    BY DEF Prefix
  <2>1. CASE Len(ts) = Len(tokens)
    BY <2>0, <2>1, <1>1, <1>3
  <2>2. CASE Len(ts) \in 1 .. Len(ts) /\ ts[Len(ts)].opcode = "END"
    <3>1. Len(ts) \notin 1 .. next - 1
      BY <2>2, <1>3 DEF NoEndBefore
    <3> QED
      BY <2>0, <2>2, <1>3, <3>1
  <2> QED
    BY <2>1, <2>2 DEF Prefix
<1>5. fout.len = Addresses(ts)[next] /\ SeenTokens = next - 1
  <2>1. Addresses(ts)[next] \in Nat
    BY <1>3, AddressTyped DEF Prefix
  <2> QED
    BY <2>1, <1>1, <1>2 DEF LaidLength, SeenTokens
<1>6. curr_addr = fout.len /\ fout.len \in Nat
  BY <1>2, <1>4, <1>5, StartAddress DEF Prefix
<1>7. ts[next] = Token /\ ts[next] \in TokenType
  BY <1>4 DEF Prefix, Token
<1>8. labels \in Seq(LabelEntry)
  BY DEF IInv, Fine
<1> QED
  BY <1>1, <1>2, <1>3, <1>4, <1>5, <1>6, <1>7, <1>8 DEF Reading, Prefix

(* The label of the token is added first.                                  *)
Named(ts, n, ls, end, cells) ==
  /\ ls \in Seq(LabelEntry)
  /\ LabelsTell(ts, ls, n, end) /\ CellsTell(ts, cells, end, ls, 1, 1)

LEMMA LabelledTells ==
  ASSUME NEW ts, IInv, Writing, Reading(ts, next), ts[next] = Token
  PROVE  Named(ts, next, Labelled, fout.len, fout.cells)
<1>0. Labelled \in Seq(LabelEntry)
  <2>1. Fine(Labelled, fout.len)
    BY LabelledFine
  <2> QED
    BY <2>1 DEF Fine
<1>1. CASE Token.label = NoText
  <2>1. LabelsTell(ts, labels, next, fout.len)
    BY <1>1, UnlabelledTells DEF Reading
  <2>2. Labelled = labels
    BY <1>1 DEF Labelled
  <2> QED
    BY <2>1, <2>2, <1>0 DEF Reading, Named
<1>2. CASE Token.label # NoText
  <2>1. Labelled = add_label(labels, ts[next].label, Addresses(ts)[next])
    BY <1>2 DEF Labelled, Reading
  <2>2. LabelsTell(ts, Labelled, next, fout.len) /\ \E i, e : PutsAt(labels, Labelled, i, e)
    <3>1. ts \in Seq(TokenType) /\ labels \in Seq(LabelEntry) /\ next \in 1 .. Len(ts) /\ fout.len \in Nat
          /\ LabelsTell(ts, labels, next - 1, fout.len) /\ ts[next].label # NoText
      BY <1>2 DEF Reading
    <3> QED
      BY <2>1, <3>1, AddTells
  <2>3. PICK i, e : PutsAt(labels, Labelled, i, e)
    BY <2>2
  <2>4. \A p : Pending(labels, 1, 1, p) => Pending(Labelled, 1, 1, p)
    BY <1>0, <2>3, StaysPending DEF Reading
  <2>5. CellsTell(ts, fout.cells, fout.len, Labelled, 1, 1)
    BY <2>4, CellsKeepTelling DEF Reading
  <2> QED
    BY <1>0, <2>2, <2>5 DEF Named
<1> QED
  BY <1>1, <1>2

-----------------------------------------------------------------------------
(* The token is done.                                                      *)
LEMMA TokenDone ==
  ASSUME NEW ts, Prefix(ts, tokens), Reading(ts, next), ts[next] = Token,
         lab = 1, ref = 1, stage = "write", NextToken,
         force_end' = (Token.opcode = "END"),
         fout'.len = Addresses(ts)[next + 1], curr_addr' = U16(fout'.len),
         Named(ts, next, labels', fout'.len, fout'.cells)
  PROVE  LInv(ts)'
<1>1. stage' = "write" /\ lab' = 1 /\ ref' = 1 /\ next' = next + 1
  BY DEF NextToken
<1>2. next \in 1 .. Len(ts) /\ Len(ts) \in Nat /\ NoEndBefore(ts, next)
  BY DEF Reading
<1>2a. (force_end' => Token.opcode = "END") /\ (~force_end' => Token.opcode # "END")
  OBVIOUS
<1>3. force_end' => next' = Len(ts) + 1
  <2>1. Token.opcode = "END" => ~(next < Len(ts))
    BY <1>2 DEF Prefix
  <2> QED
    BY <1>1, <1>2, <1>2a, <2>1
<1>4. ~force_end' => NoEndBefore(ts, next')
  <2>1. Token.opcode # "END" => \A i \in 1 .. next : ts[i].opcode # "END"
    BY <1>2 DEF NoEndBefore
  <2> QED
    BY <1>1, <1>2, <1>2a, <2>1 DEF NoEndBefore
<1>5. next' \in 1 .. Len(ts) + 1
  BY <1>1, <1>2
<1>6. LayCursors(ts)'
  BY <1>1, <1>3, <1>4, <1>5 DEF LayCursors
<1>7. Addresses(ts)[next + 1] \in Nat
  BY <1>1, <1>5, AddressTyped DEF Prefix
<1>8. LaidLength(ts)' = Addresses(ts)[next + 1]
  <2>1. LaidLength(ts)' = Addresses(ts)[next + 1] + 0
    BY <1>1 DEF LaidLength
  <2> QED
    BY <2>1, <1>7
<1>9. SeenTokens' = next
  <2>1. SeenTokens' = (next + 1) - 1
    BY <1>1 DEF SeenTokens
  <2> QED
    BY <2>1, <1>2
<1>10. LabelsTell(ts, labels', SeenTokens', fout'.len)
  BY <1>9 DEF Named
<1>11. CellsTell(ts, fout'.cells, fout'.len, labels', lab', ref')
  BY <1>1 DEF Named
<1> QED
  BY <1>6, <1>8, <1>10, <1>11 DEF LInv

(* Statements that fill, and that do nothing.                              *)
LEMMA NextAddress ==
  ASSUME NEW ts, NEW n, Reading(ts, n)
  PROVE  /\ Addresses(ts)[n + 1] = fout.len + Len(Bytes(ts[n])) + Fill(ts[n], fout.len)
         /\ Len(Bytes(ts[n])) \in Nat /\ Fill(ts[n], fout.len) \in Nat
         /\ Addresses(ts)[n + 1] \in Nat
<1>1. Addresses(ts)[n + 1] = After(ts[n], fout.len)
  BY AddressesBySteps DEF Reading
<1>2. Len(Bytes(ts[n])) \in Nat /\ Fill(ts[n], fout.len) \in Nat /\ fout.len \in Nat
  BY BytesCounted, FillTyped DEF Reading
<1> QED
  BY <1>1, <1>2 DEF After

LEMMA NothingStands ==
  ASSUME NEW ts \in Seq(TokenType), NEW n \in DOMAIN ts, Len(Bytes(ts[n])) = 0,
         NEW p, NEW b, Stands(ts, p, b), Addresses(ts)[n] <= p
  PROVE  Addresses(ts)[n + 1] <= p
<1>1. PICK i \in DOMAIN ts : StandsIn(ts, i, p, b)
  BY DEF Stands
<1>2. n \in 1 .. Len(ts) + 1 /\ n + 1 \in 1 .. Len(ts) + 1 /\ n \in Int /\ i \in Int
  OBVIOUS
<1>3. p \in Nat /\ Addresses(ts)[n] \in Nat /\ Addresses(ts)[n + 1] \in Nat
  BY <1>2, AddressTyped, StandsNat
<1>4. i # n
  <2>1. p - Addresses(ts)[i] + 1 \in DOMAIN Bytes(ts[i])
    BY <1>1, StandsInBounds
  <2>2. ts[n] \in TokenType
    OBVIOUS
  <2>3. DOMAIN Bytes(ts[n]) = 1 .. 0
    BY <2>2, BytesCounted
  <2> QED
    BY <2>1, <2>3
<1>5. ~(p < Addresses(ts)[n])
  BY <1>3
<1>6. ~(i < n)
  BY <1>1, <1>2, <1>5, StandsBelow
<1>7. ~(i < n + 1)
  BY <1>2, <1>4, <1>6
<1>8. ~(p < Addresses(ts)[n + 1])
  BY <1>1, <1>2, <1>7, StandsBelow
<1> QED
  BY <1>3, <1>8

LEMMA FilledTells ==
  ASSUME NEW ts, NEW n, Reading(ts, n), Len(Bytes(ts[n])) = 0, NEW ls,
         Named(ts, n, ls, fout.len, fout.cells)
  PROVE  Named(ts, n, ls, Addresses(ts)[n + 1], fout.cells)
<1> DEFINE len == fout.len
           end == Addresses(ts)[n + 1]
           cells == fout.cells
<1>1. /\ ts \in Seq(TokenType) /\ n \in DOMAIN ts /\ n \in Nat /\ len \in Nat /\ len = Addresses(ts)[n]
  BY DEF Reading
<1>2. end \in Nat /\ len <= end
  BY NextAddress, <1>1
<1>3. \A p, b : Stands(ts, p, b) /\ len <= p => end <= p
  BY <1>1, NothingStands
<1>4. ls \in Seq(LabelEntry) /\ LabelsTell(ts, ls, n, len) /\ CellsTell(ts, cells, len, ls, 1, 1)
  BY DEF Named
<1> HIDE DEF len, end, cells
<1>5. LabelsTell(ts, ls, n, end)
  BY <1>1, <1>2, <1>3, <1>4, TellMonotone
<1>6. CellsTell(ts, cells, end, ls, 1, 1)
  BY <1>1, <1>2, <1>3, <1>4, FillTells
<1> QED
  BY <1>4, <1>5, <1>6 DEF Named, end, cells

LEMMA SilentLays ==
  ASSUME NEW ts, Prefix(ts, tokens), Scope(ts), IInv, LInv(ts), WriteNothing \/ END
  PROVE  LInv(ts)'
<1>1. /\ Writing /\ labels' = Labelled /\ NextToken /\ UNCHANGED <<curr_addr, fout>>
      /\ Token.opcode \notin DOMAIN BaseCode \cup {"DB", "DW", "DS", "ORG"}
      /\ force_end' = IF Token.opcode = "END" THEN TRUE ELSE force_end
  <2>1. CASE WriteNothing
    BY <2>1 DEF WriteNothing, PseudoMnemonics
  <2>2. CASE END
    <3>1. "END" \notin DOMAIN BaseCode
      BY PseudoMnemonicsApart DEF PseudoMnemonics
    <3> QED
      BY <2>2, <3>1 DEF END
  <2> QED
    BY <2>1, <2>2
<1>2. /\ Reading(ts, next) /\ ts[next] = Token /\ next \in 1 .. Len(ts)
      /\ lab = 1 /\ ref = 1 /\ force_end = FALSE /\ stage = "write"
  BY <1>1, ReadsToken
<1>3. Named(ts, next, Labelled, fout.len, fout.cells)
  BY <1>1, <1>2, LabelledTells
<1>4. Bytes(ts[next]) = <<>> /\ Len(Bytes(ts[next])) = 0
  BY <1>1, <1>2, SilentBytes DEF Reading
<1>5. Fill(ts[next], fout.len) = 0
  BY <1>1, <1>2 DEF Fill
<1>6. Addresses(ts)[next + 1] = fout.len
  BY <1>2, <1>4, <1>5, NextAddress DEF Reading
<1>7. fout'.len = Addresses(ts)[next + 1] /\ curr_addr' = U16(fout'.len)
  <2>1. curr_addr = U16(fout.len)
    BY <1>2 DEF LInv, Stages
  <2> QED
    BY <1>1, <1>6, <2>1
<1>8. Named(ts, next, labels', fout'.len, fout'.cells)
  BY <1>1, <1>3
<1>9. force_end' = (Token.opcode = "END")
  <2>1. CASE Token.opcode = "END"
    BY <1>1, <2>1
  <2>2. CASE Token.opcode # "END"
    BY <1>1, <1>2, <2>2
  <2> QED
    BY <2>1, <2>2
<1> QED
  BY <1>1, <1>2, <1>7, <1>8, <1>9, TokenDone

LEMMA MaxWithZero == ASSUME NEW x \in Nat PROVE Max({x, 0}) = x
<1> DEFINE y == Max({x, 0})
<1>1. x \in Int /\ 0 \in Int
  OBVIOUS
<1>2. y \in {x, 0} /\ y >= x
  BY <1>1, MaxOfTwo
<1> HIDE DEF y
<1>3. y = x
  BY <1>2
<1> QED
  BY <1>3 DEF y

LEMMA WrapsOnce == ASSUME NEW x \in Nat, NEW y \in Nat PROVE U16(U16(x) + y) = U16(x + y)
BY DEF U16

(* DS and ORG, whose count is a number.                                    *)
LEMMA CountIsThere ==
  ASSUME NEW ts, Scope(ts), NEW n, Reading(ts, n), ts[n] = Token, Token.opcode \in {"DS", "ORG"}
  PROVE  Count = {parse_immediate(Argument(ts[n], 1).sv)}
<1>1. Argument(ts[n], 1).is_imm
  BY DEF Scope, Determinate, Reading
<1> QED
  BY <1>1 DEF Count

LEMMA FillersLay ==
  ASSUME NEW ts, Prefix(ts, tokens), Scope(ts), IInv, LInv(ts), DS \/ ORG
  PROVE  LInv(ts)'
<1> DEFINE x == parse_immediate(Argument(ts[next], 1).sv)
           grow == Fill(ts[next], fout.len)
<1>1. /\ Writing /\ labels' = Labelled /\ NextToken /\ UNCHANGED force_end
      /\ Token.opcode \in {"DS", "ORG"}
  BY DEF DS, ORG
<1>2. /\ Reading(ts, next) /\ ts[next] = Token /\ next \in 1 .. Len(ts)
      /\ lab = 1 /\ ref = 1 /\ force_end = FALSE /\ stage = "write"
  BY <1>1, ReadsToken
<1>3. Count = {x}
  BY <1>1, <1>2, CountIsThere
<1>3a. x \in Nat
  BY ImmediateIsShort
<1>4. fout.len \in Nat /\ curr_addr = fout.len /\ grow \in Nat
  BY <1>2, FillTyped DEF Reading
<1>5. PutZeros(grow)
  <2>1. CASE Token.opcode = "DS"
    <3>1. PutZeros(Max({x, 0}))
      BY <2>1, <1>3 DEF DS, ORG
    <3>2. grow = x
      BY <2>1, <1>2 DEF Fill
    <3>3. Max({x, 0}) = x
      BY <1>3a, MaxWithZero
    <3> QED
      BY <3>1, <3>2, <3>3
  <2>2. CASE Token.opcode = "ORG"
    <3>1. PutZeros(Max({x - curr_addr, 0}))
      BY <2>2, <1>3 DEF DS, ORG
    <3>2. grow = Max({x - fout.len, 0})
      BY <2>2, <1>2 DEF Fill
    <3> QED
      BY <3>1, <3>2, <1>4
  <2> QED
    BY <1>1, <2>1, <2>2
<1>6. Len(Bytes(ts[next])) = 0
  <2>1. Token.opcode \notin DOMAIN BaseCode \cup {"DB", "DW"}
    BY <1>1, PseudoMnemonicsApart DEF PseudoMnemonics
  <2> QED
    BY <1>2, <2>1, SilentBytes DEF Reading
<1> HIDE DEF grow, x
<1>7. Addresses(ts)[next + 1] = fout.len + grow
  BY <1>2, <1>4, <1>6, NextAddress DEF grow
<1>8. fout'.len = fout.len + grow /\ fout'.cells = fout.cells /\ curr_addr' = U16(curr_addr + grow)
  <2>1. fout = [len |-> fout.len, cells |-> fout.cells]
    BY DEF IInv, FileOK
  <2>2. fout' = [fout EXCEPT !.len = @ + grow] /\ curr_addr' = U16(curr_addr + grow)
    BY <1>5 DEF PutZeros
  <2> QED
    BY <2>1, <2>2
<1>9. fout'.len = Addresses(ts)[next + 1] /\ curr_addr' = U16(fout'.len)
  BY <1>4, <1>7, <1>8
<1>10. Named(ts, next, labels', fout'.len, fout'.cells)
  <2>1. Named(ts, next, Labelled, fout.len, fout.cells)
    BY <1>1, <1>2, LabelledTells
  <2>2. Named(ts, next, Labelled, Addresses(ts)[next + 1], fout.cells)
    BY <2>1, <1>2, <1>6, FilledTells
  <2> QED
    BY <2>2, <1>1, <1>8, <1>9
<1>11. force_end' = (Token.opcode = "END")
  BY <1>1, <1>2
<1> QED
  BY <1>1, <1>2, <1>9, <1>10, <1>11, TokenDone

-----------------------------------------------------------------------------
(* Bytes are written that a chunk of the layout has.                       *)
LEMMA PutLength ==
  ASSUME NEW bytes, Len(bytes) \in Nat, Put(bytes), fout.len \in Nat, curr_addr = U16(fout.len)
  PROVE  /\ fout' = Written(fout, bytes)
         /\ fout'.len = fout.len + Len(bytes) /\ curr_addr' = U16(fout'.len)
<1>1. fout' = Written(fout, bytes) /\ curr_addr' = U16(curr_addr + Len(bytes))
  BY DEF Put
<1>2. fout'.len = fout.len + Len(bytes)
  BY <1>1 DEF Written
<1>3. U16(U16(fout.len) + Len(bytes)) = U16(fout.len + Len(bytes))
  BY WrapsOnce
<1> QED
  BY <1>1, <1>2, <1>3

FixedBytes(c, bytes) == Len(bytes) = Len(c) /\ \A k \in 1 .. Len(c) : c[k] = Fixed(bytes[k])

LEMMA PutFixed ==
  ASSUME NEW ts \in Seq(TokenType), NEW n \in Nat, NEW bytes, NEW c, NEW ls,
         Chunk(ts, fout.len, c), FixedBytes(c, bytes), Named(ts, n, ls, fout.len, fout.cells),
         Put(bytes), fout.len \in Nat, curr_addr = U16(fout.len)
  PROVE  /\ fout'.len = fout.len + Len(c) /\ curr_addr' = U16(fout'.len)
         /\ Named(ts, n, ls, fout'.len, fout'.cells)
<1>1. Len(bytes) = Len(c) /\ Len(bytes) \in Nat /\ \A k \in 1 .. Len(c) : c[k] = Fixed(bytes[k])
  BY DEF FixedBytes, Chunk
<1>2. /\ fout' = Written(fout, bytes)
      /\ fout'.len = fout.len + Len(c) /\ curr_addr' = U16(fout'.len)
  BY <1>1, PutLength
<1>3. ls \in Seq(LabelEntry) /\ LabelsTell(ts, ls, n, fout.len) /\ CellsTell(ts, fout.cells, fout.len, ls, 1, 1)
  BY DEF Named
<1> DEFINE end == fout.len + Len(c)
<1>4. end \in Nat /\ end = fout.len + Len(c)
  BY <1>1
<1> HIDE DEF end
<1>5. LabelsTell(ts, ls, n, end) /\ CellsTell(ts, Written(fout, bytes).cells, end, ls, 1, 1)
  BY <1>1, <1>3, <1>4, PutFixedTells
<1>6. fout'.len = end /\ fout'.cells = Written(fout, bytes).cells
  BY <1>2, <1>4
<1> QED
  BY <1>2, <1>3, <1>5, <1>6 DEF Named

(* The last two bytes are the halves of what the name has.                 *)
NameBytes(c, bytes, m, name, got) ==
  /\ Len(bytes) = m /\ ReferenceChunk(c, m, name)
  /\ \A k \in 1 .. m - 2 : c[k] = Fixed(bytes[k])
  /\ bytes[m - 1] = Hi(got.value) /\ bytes[m] = Lo(got.value)

LEMMA PutName ==
  ASSUME NEW ts \in Seq(TokenType), NEW n \in 0 .. Len(ts), NEW bytes, NEW c, NEW ls,
         NEW m \in Nat, m >= 2, NEW name \in Texts, NEW addr \in Nat, addr = fout.len + m - 2,
         Chunk(ts, fout.len, c), NameBytes(c, bytes, m, name, queue_or_get_label(ls, name, addr)),
         Named(ts, n, ls, fout.len, fout.cells),
         queue_or_get_label(ls, name, addr).labels \in Seq(LabelEntry),
         Put(bytes), fout.len \in Nat, curr_addr = U16(fout.len)
  PROVE  /\ fout'.len = fout.len + Len(c) /\ curr_addr' = U16(fout'.len)
         /\ Named(ts, n, queue_or_get_label(ls, name, addr).labels, fout'.len, fout'.cells)
<1> DEFINE got == queue_or_get_label(ls, name, addr)
           end == fout.len + m
<1>1. /\ Len(bytes) = m /\ Len(c) = m /\ ReferenceChunk(c, m, name)
      /\ \A k \in 1 .. m - 2 : c[k] = Fixed(bytes[k])
      /\ bytes[m - 1] = Hi(got.value) /\ bytes[m] = Lo(got.value)
  BY DEF NameBytes, ReferenceChunk
<1>2. /\ fout' = Written(fout, bytes)
      /\ fout'.len = fout.len + Len(c) /\ curr_addr' = U16(fout'.len)
  BY <1>1, PutLength
<1>3. ls \in Seq(LabelEntry) /\ LabelsTell(ts, ls, n, fout.len) /\ CellsTell(ts, fout.cells, fout.len, ls, 1, 1)
  BY DEF Named
<1>4. end \in Nat /\ end = fout.len + m
  OBVIOUS
<1> HIDE DEF end
<1>5. LabelsTell(ts, got.labels, n, end) /\ CellsTell(ts, Written(fout, bytes).cells, end, got.labels, 1, 1)
  BY <1>1, <1>3, <1>4, PutReferenceTells
<1>6. fout'.len = end /\ fout'.cells = Written(fout, bytes).cells
  BY <1>1, <1>2, <1>4
<1> QED
  BY <1>2, <1>5, <1>6 DEF Named

(* The bytes of a statement, and of an argument, are chunks.               *)
LEMMA StatementChunk ==
  ASSUME NEW ts, NEW n, Reading(ts, n)
  PROVE  Chunk(ts, fout.len, Bytes(ts[n]))
<1>1. Len(Bytes(ts[n])) \in Nat /\ DOMAIN Bytes(ts[n]) = 1 .. Len(Bytes(ts[n])) /\ n \in DOMAIN ts
  BY BytesCounted DEF Reading
<1>2. ASSUME NEW k \in 1 .. Len(Bytes(ts[n])) PROVE Stands(ts, fout.len + k - 1, Bytes(ts[n])[k])
  BY <1>1 DEF Stands, StandsIn, Reading
<1> QED
  BY <1>1, <1>2 DEF Chunk

-----------------------------------------------------------------------------
(* DB and DW go through their arguments.                                   *)
Listing(ts, n, i) ==
  /\ ts \in Seq(TokenType) /\ n \in 1 .. Len(ts) /\ Len(ts) \in Nat /\ DOMAIN ts = 1 .. Len(ts)
  /\ ts[n] \in TokenType /\ ts[n] = Token /\ ts[n].opcode \in {"DB", "DW"}
  /\ i \in 1 .. Len(ts[n].args) + 1 /\ Len(ts[n].args) \in Nat
  /\ fout.len = Addresses(ts)[n] + Len(Joined(Pieces(ts[n]))[i - 1])
  /\ fout.len \in Nat /\ curr_addr = U16(fout.len)
  /\ Named(ts, n, labels, fout.len, fout.cells)
  /\ NoEndBefore(ts, n)

JoinedNat(t) == \A i \in 0 .. Len(t.args) : Len(Joined(Pieces(t))[i]) \in Nat

LEMMA JoinedLength == ASSUME NEW t \in TokenType PROVE JoinedNat(t)
<1>1. Pieces(t) \in Seq(Seq(ByteOf)) /\ Len(Pieces(t)) = Len(t.args)
  BY PiecesTyped
<1>2. Joined(Pieces(t)) \in [0 .. Len(Pieces(t)) -> Seq(ByteOf)]
  BY <1>1, JoinedBySteps
<1>3. \A i \in 0 .. Len(t.args) : Joined(Pieces(t))[i] \in Seq(ByteOf)
  BY <1>1, <1>2
<1> QED
  BY <1>3 DEF JoinedNat

LEMMA ListsArguments ==
  ASSUME NEW ts, Prefix(ts, tokens), IInv, LInv(ts), stage = "data"
  PROVE  /\ Listing(ts, next, arg) /\ next \in 1 .. Len(ts)
         /\ lab = 1 /\ ref = 1 /\ force_end = FALSE
<1>1. /\ LayCursors(ts) /\ fout.len = LaidLength(ts) /\ curr_addr = U16(fout.len)
      /\ LabelsTell(ts, labels, SeenTokens, fout.len)
      /\ CellsTell(ts, fout.cells, fout.len, labels, lab, ref)
  BY DEF LInv, Stages
<1>2. /\ next \in 1 .. Len(ts) + 1 /\ NoEndBefore(ts, next) /\ lab = 1 /\ ref = 1 /\ force_end = FALSE
      /\ next <= Len(ts) /\ arg <= Len(ts[next].args) + 1 /\ ts[next].opcode \in {"DB", "DW"}
  BY <1>1 DEF LayCursors
<1>3. /\ next \in 1 .. Len(ts) /\ ts[next] \in TokenType /\ ts[next] = Token
      /\ ts \in Seq(TokenType) /\ Len(ts) \in Nat /\ DOMAIN ts = 1 .. Len(ts)
  BY <1>2 DEF Prefix, Token
<1>4. Len(ts[next].args) \in Nat /\ arg \in Nat \ {0}
  BY <1>3, PiecesTyped DEF IInv, CursorsOK
<1>5. arg \in 1 .. Len(ts[next].args) + 1
  BY <1>2, <1>4
<1>6. SeenTokens = next /\ LaidLength(ts) = Addresses(ts)[next] + Len(Joined(Pieces(ts[next]))[arg - 1])
  BY DEF SeenTokens, LaidLength
<1>7. fout.len \in Nat /\ labels \in Seq(LabelEntry)
  BY DEF IInv, FileOK, Fine
<1>8. Named(ts, next, labels, fout.len, fout.cells)
  BY <1>1, <1>2, <1>6, <1>7 DEF Named
<1> QED
  BY <1>1, <1>2, <1>3, <1>4, <1>5, <1>6, <1>7, <1>8 DEF Listing

LEMMA DataLays ==
  ASSUME NEW ts, Prefix(ts, tokens), Scope(ts), IInv, LInv(ts), Data
  PROVE  LInv(ts)'
<1>1. /\ Writing /\ labels' = Labelled /\ stage' = "data" /\ arg' = 1
      /\ UNCHANGED <<tokens, next, curr_addr, force_end, fout, lab, ref>>
      /\ Token.opcode \in {"DB", "DW"}
  BY DEF Data
<1>2. /\ Reading(ts, next) /\ ts[next] = Token /\ next \in 1 .. Len(ts)
      /\ lab = 1 /\ ref = 1 /\ force_end = FALSE /\ stage = "write"
  BY <1>1, ReadsToken
<1>3. Named(ts, next, Labelled, fout.len, fout.cells)
  BY <1>1, <1>2, LabelledTells
<1>4. Joined(Pieces(ts[next]))[0] = <<>> /\ Len(ts[next].args) \in Nat
  BY <1>2, JoinedBySteps, PiecesTyped DEF Reading
<1>5. Len(Joined(Pieces(ts[next]))[0]) = 0
  BY <1>4
<1>6. LaidLength(ts)' = fout.len
  <2>1. LaidLength(ts)' = Addresses(ts)[next] + Len(Joined(Pieces(ts[next]))[1 - 1])
    BY <1>1 DEF LaidLength
  <2>2. LaidLength(ts)' = Addresses(ts)[next] + 0
    BY <2>1, <1>5
  <2> QED
    BY <2>2, <1>2 DEF Reading
<1>7. SeenTokens' = next
  BY <1>1 DEF SeenTokens
<1>8. LayCursors(ts)'
  <2>1. /\ next' = next /\ lab' = 1 /\ ref' = 1 /\ force_end' = FALSE /\ stage' = "data" /\ arg' = 1
        /\ next \in 1 .. Len(ts) + 1 /\ next <= Len(ts) /\ ts[next].opcode \in {"DB", "DW"}
        /\ NoEndBefore(ts, next)
    BY <1>1, <1>2 DEF Reading
  <2>2. 1 <= Len(ts[next].args) + 1
    BY <1>4
  <2> QED
    BY <2>1, <2>2 DEF LayCursors
<1>9. curr_addr' = U16(fout'.len) /\ fout'.len = fout.len /\ fout'.cells = fout.cells
  BY <1>1, <1>2 DEF LInv, Stages
<1> QED
  BY <1>1, <1>2, <1>3, <1>6, <1>7, <1>8, <1>9 DEF LInv, Named

LEMMA ArgumentDone ==
  ASSUME NEW ts, Listing(ts, next, arg), arg <= Len(ts[next].args), stage = "data",
         lab = 1, ref = 1, force_end = FALSE, NextArgument,
         fout'.len = fout.len + Len(Pieces(ts[next])[arg]), curr_addr' = U16(fout'.len),
         Named(ts, next, labels', fout'.len, fout'.cells)
  PROVE  LInv(ts)'
<1>1. /\ arg' = arg + 1 /\ UNCHANGED <<tokens, stage, next, force_end, lab, ref>>
  BY DEF NextArgument
<1>2. /\ arg \in 1 .. Len(ts[next].args) /\ Len(ts[next].args) \in Nat /\ ts[next] \in TokenType
      /\ next \in 1 .. Len(ts) /\ Len(ts) \in Nat
      /\ ts[next].opcode \in {"DB", "DW"} /\ NoEndBefore(ts, next) /\ ts \in Seq(TokenType)
  BY DEF Listing
<1>3. Len(Joined(Pieces(ts[next]))[arg]) = Len(Joined(Pieces(ts[next]))[arg - 1]) + Len(Pieces(ts[next])[arg])
  <2>1. Pieces(ts[next]) \in Seq(Seq(ByteOf)) /\ arg \in 1 .. Len(Pieces(ts[next]))
    BY <1>2, PiecesTyped
  <2> QED
    BY <2>1, PiecesStand
<1>4. /\ Len(Joined(Pieces(ts[next]))[arg - 1]) \in Nat /\ Addresses(ts)[next] \in Nat
      /\ Len(Pieces(ts[next])[arg]) \in Nat
  <2>1. arg - 1 \in 0 .. Len(ts[next].args) /\ next \in 1 .. Len(ts) + 1
    BY <1>2
  <2>2. Pieces(ts[next])[arg] \in Seq(ByteOf)
    BY <1>2, PiecesTyped
  <2> QED
    BY <1>2, <2>1, <2>2, JoinedLength, AddressTyped DEF JoinedNat
<1>5. LaidLength(ts)' = fout'.len
  <2>1. LaidLength(ts)' = Addresses(ts)[next] + Len(Joined(Pieces(ts[next]))[(arg + 1) - 1])
    BY <1>1 DEF LaidLength
  <2>2. (arg + 1) - 1 = arg
    BY <1>2
  <2>3. LaidLength(ts)' = Addresses(ts)[next] + Len(Joined(Pieces(ts[next]))[arg])
    BY <2>1, <2>2
  <2>4. fout.len = Addresses(ts)[next] + Len(Joined(Pieces(ts[next]))[arg - 1])
    BY DEF Listing
  <2> DEFINE a == Addresses(ts)[next]
             x == Len(Joined(Pieces(ts[next]))[arg - 1])
             y == Len(Joined(Pieces(ts[next]))[arg])
             z == Len(Pieces(ts[next])[arg])
  <2>5. /\ a \in Nat /\ x \in Nat /\ z \in Nat /\ y = x + z
        /\ LaidLength(ts)' = a + y /\ fout.len = a + x /\ fout'.len = fout.len + z
    BY <2>3, <2>4, <1>3, <1>4
  <2> HIDE DEF a, x, y, z
  <2>6. fout'.len = (a + x) + z
    BY <2>5
  <2>7. a + y = (a + x) + z
    BY <2>5
  <2>8. LaidLength(ts)' = a + y
    BY <2>5
  <2> QED
    BY <2>6, <2>7, <2>8
<1>6. SeenTokens' = next
  BY <1>1 DEF SeenTokens
<1>7. LayCursors(ts)'
  <2>1. /\ next' = next /\ lab' = 1 /\ ref' = 1 /\ force_end' = FALSE /\ stage' = "data" /\ arg' = arg + 1
        /\ next \in 1 .. Len(ts) + 1 /\ next <= Len(ts) /\ ts[next].opcode \in {"DB", "DW"}
        /\ NoEndBefore(ts, next)
    BY <1>1, <1>2
  <2>2. arg + 1 <= Len(ts[next].args) + 1
    BY <1>2
  <2> QED
    BY <2>1, <2>2 DEF LayCursors
<1> QED
  BY <1>1, <1>5, <1>6, <1>7 DEF LInv, Named

LEMMA PieceChunk ==
  ASSUME NEW ts, NEW n, NEW i, Listing(ts, n, i), i <= Len(ts[n].args)
  PROVE  Chunk(ts, fout.len, Pieces(ts[n])[i])
<1> DEFINE t == ts[n]
           c == Pieces(t)[i]
           start == Len(Joined(Pieces(t))[i - 1])
           all == Bytes(t)
           a == Addresses(ts)[n]
<1>1. /\ i \in 1 .. Len(t.args) /\ Len(t.args) \in Nat /\ t \in TokenType /\ t.opcode \in {"DB", "DW"}
      /\ n \in 1 .. Len(ts) /\ n \in DOMAIN ts /\ ts \in Seq(TokenType)
      /\ fout.len = a + start
  BY DEF Listing
<1>2. Pieces(t) \in Seq(Seq(ByteOf)) /\ i \in 1 .. Len(Pieces(t))
  BY <1>1, PiecesTyped
<1>3. all = FlattenSeq(Pieces(t))
  <2>1. t.opcode \notin DOMAIN BaseCode
    BY <1>1, PseudoMnemonicsApart DEF PseudoMnemonics
  <2> QED
    BY <1>1, <2>1, DataBytes
<1>4. StandsAt(all, start, c)
  BY <1>2, <1>3, PiecesStand
<1>5. DOMAIN all = 1 .. Len(all) /\ Len(all) \in Nat
  BY <1>1, BytesCounted
<1>6. a \in Nat
  <2>1. n \in 1 .. Len(ts) + 1
    BY <1>1
  <2> QED
    BY <1>1, <2>1, AddressTyped
<1>7. \A p, b, k : k \in DOMAIN all /\ p = a + k - 1 /\ b = all[k] => Stands(ts, p, b)
  BY <1>1 DEF Stands, StandsIn
<1> HIDE DEF a, all, start, c
<1>8. start \in Nat /\ Len(c) \in Nat /\ start + Len(c) <= Len(all) /\ \A k \in 1 .. Len(c) : all[start + k] = c[k]
  BY <1>4 DEF StandsAt
<1>9. ASSUME NEW k \in 1 .. Len(c) PROVE Stands(ts, fout.len + k - 1, c[k])
  <2>1. start + k \in 1 .. Len(all) /\ fout.len + k - 1 = a + (start + k) - 1
    BY <1>1, <1>5, <1>6, <1>8
  <2> DEFINE q == start + k
  <2>2. q \in DOMAIN all /\ fout.len + k - 1 = a + q - 1 /\ c[k] = all[q]
    BY <2>1, <1>5, <1>8
  <2> HIDE DEF q
  <2> QED
    BY <2>2, <1>7
<1>10. Chunk(ts, fout.len, c)
  BY <1>8, <1>9 DEF Chunk
<1> QED
  BY <1>10 DEF c

-----------------------------------------------------------------------------
(* The bytes that DB and DW write are those of the layout.                 *)
ByteBytes(a) ==
  IF a.is_imm THEN <<U8(parse_immediate(a.sv))>>
  ELSE IF IsQuoted(a.sv) THEN [i \in DOMAIN Characters(a.sv) |-> U8(Characters(a.sv)[i])]
  ELSE <<>>

LEMMA ByteBytesFixed ==
  ASSUME NEW a \in Arg
  PROVE  FixedBytes(DataOf("DB", a), ByteBytes(a))
<1>1. CASE a.is_imm
  <2>1. DataOf("DB", a) = <<Fixed(U8(parse_immediate(a.sv)))>>
    BY <1>1, DataOfKinds DEF U8
  <2>2. ByteBytes(a) = <<U8(parse_immediate(a.sv))>>
    BY <1>1 DEF ByteBytes
  <2> QED
    BY <2>1, <2>2 DEF FixedBytes
<1>2. CASE ~a.is_imm /\ IsQuoted(a.sv)
  <2> DEFINE s     == Text(a.sv)
             bytes == ByteBytes(a)
  <2>1. /\ s \in Seq(Int) /\ s = Characters(a.sv) /\ Len(s) \in Nat /\ DOMAIN s = 1 .. Len(s)
    BY <1>2, TextTyped
  <2>2. /\ Len(TextBytes(a.sv)) = Len(s)
        /\ \A i \in 1 .. Len(s) : TextBytes(a.sv)[i] = Fixed(s[i] % 256)
    BY <1>2, TextBytesTyped
  <2>3. DataOf("DB", a) = TextBytes(a.sv)
    BY <1>2, DataOfKinds
  <2>4. bytes = [i \in 1 .. Len(s) |-> U8(s[i])]
    BY <1>2, <2>1 DEF ByteBytes
  <2> HIDE DEF s, bytes
  <2>5. Len(bytes) = Len(s)
    <3>1. bytes = [i \in 1 .. Len(s) |-> bytes[i]]
      BY <2>4
    <3> QED
      BY <3>1, <2>1, LenOfFunction
  <2>6. \A i \in 1 .. Len(s) : bytes[i] = s[i] % 256
    BY <2>4 DEF U8
  <2>7. FixedBytes(DataOf("DB", a), bytes)
    BY <2>2, <2>3, <2>5, <2>6 DEF FixedBytes
  <2> QED
    BY <2>7 DEF bytes
<1>3. CASE ~a.is_imm /\ ~IsQuoted(a.sv)
  <2>1. DataOf("DB", a) = <<>> /\ ByteBytes(a) = <<>>
    BY <1>3, DataOfKinds DEF ByteBytes
  <2> QED
    BY <2>1 DEF FixedBytes
<1> QED
  BY <1>1, <1>2, <1>3

LEMMA ShortBytesFixed ==
  ASSUME NEW x \in Nat
  PROVE  FixedBytes(Word16(x), ShortBytes(x))
<1>1. Elements2(Word16(x), Fixed(Hi(x)), Fixed(Lo(x)))
  BY Word16Typed
<1>2. Len(ShortBytes(x)) = 2 /\ ShortBytes(x)[1] = Hi(x) /\ ShortBytes(x)[2] = Lo(x)
  BY DEF ShortBytes
<1> DEFINE c == Word16(x)
           bytes == ShortBytes(x)
<1>3. Len(c) = 2 /\ c[1] = Fixed(bytes[1]) /\ c[2] = Fixed(bytes[2]) /\ Len(bytes) = 2
  BY <1>1, <1>2 DEF Elements2
<1> HIDE DEF c, bytes
<1>4. FixedBytes(c, bytes)
  <2>1. \A k \in 1 .. 2 : k = 1 \/ k = 2
    OBVIOUS
  <2> QED
    BY <1>3, <2>1 DEF FixedBytes
<1> QED
  BY <1>4 DEF c, bytes

LEMMA WideFixed ==
  ASSUME NEW sv, IsQuoted(sv)
  PROVE  FixedBytes(FlattenSeq(TextWords(sv)), WideCharacters(sv))
<1> DEFINE s     == Text(sv)
           c     == FlattenSeq(TextWords(sv))
           bytes == WideCharacters(sv)
           n     == Len(s)
<1>1. s \in Seq(Int) /\ s = Characters(sv) /\ n \in Nat
  BY TextTyped
<1>2. /\ Len(c) = 2 * n
      /\ \A i \in 1 .. n : c[2 * i - 1] = Fixed(Hi(s[i] % 65536)) /\ c[2 * i] = Fixed(Lo(s[i] % 65536))
  BY TextWordsTyped
<1>3. bytes = [k \in 1 .. 2 * n |->
                 LET sh == U16(s[(k + 1) \div 2]) IN IF k % 2 = 1 THEN Hi(sh) ELSE Lo(sh)]
  BY <1>1 DEF WideCharacters
<1> HIDE DEF s, c, bytes, n
<1>4. Len(bytes) = 2 * n
  <2>1. bytes = [k \in 1 .. 2 * n |-> bytes[k]] /\ 2 * n \in Nat
    BY <1>1, <1>3
  <2> QED
    BY <2>1, LenOfFunction
<1>5. ASSUME NEW k \in 1 .. 2 * n PROVE c[k] = Fixed(bytes[k])
  <2> DEFINE i == (k + 1) \div 2
  <2>1. i \in 1 .. n /\ (k % 2 = 1 => k = 2 * i - 1) /\ (k % 2 # 1 => k = 2 * i)
    BY <1>1
  <2>2. bytes[k] = IF k % 2 = 1 THEN Hi(U16(s[i])) ELSE Lo(U16(s[i]))
    BY <1>3
  <2> HIDE DEF i
  <2>3. U16(s[i]) = s[i] % 65536
    BY DEF U16
  <2>4. CASE k % 2 = 1
    BY <2>1, <2>2, <2>3, <2>4, <1>2
  <2>5. CASE k % 2 # 1
    BY <2>1, <2>2, <2>3, <2>5, <1>2
  <2> QED
    BY <2>4, <2>5
<1>6. FixedBytes(c, bytes)
  BY <1>2, <1>4, <1>5 DEF FixedBytes
<1> QED
  BY <1>6 DEF c, bytes

-----------------------------------------------------------------------------
(* What a listed argument is.                                              *)
LEMMA ListedArgument ==
  ASSUME NEW ts, Listing(ts, next, arg), DataArgument, next \in 1 .. Len(ts)
  PROVE  /\ stage = "data" /\ arg \in 1 .. Len(ts[next].args) /\ arg <= Len(ts[next].args)
         /\ Token.args[arg] \in Arg /\ Token = ts[next]
         /\ Pieces(ts[next])[arg] = DataOf(Token.opcode, Token.args[arg])
         /\ Chunk(ts, fout.len, Pieces(ts[next])[arg])
<1>1. Token = ts[next] /\ ts[next] \in TokenType /\ arg \in 1 .. Len(ts[next].args) + 1
      /\ Len(ts[next].args) \in Nat
  BY DEF Listing
<1>2. stage = "data" /\ arg <= Len(ts[next].args)
  BY <1>1 DEF DataArgument
<1>3. arg \in 1 .. Len(ts[next].args)
  BY <1>1, <1>2
<1>4. ts[next].args[arg] \in Arg /\ Pieces(ts[next])[arg] = DataOf(ts[next].opcode, ts[next].args[arg])
  BY <1>1, <1>3, PiecesTyped
<1>5. Chunk(ts, fout.len, Pieces(ts[next])[arg])
  BY <1>2, PieceChunk
<1> QED
  BY <1>1, <1>2, <1>3, <1>4, <1>5

(* One argument whose bytes are fixed.                                     *)
LEMMA FixedArgumentLays ==
  ASSUME NEW ts, Prefix(ts, tokens), IInv, LInv(ts), DataArgument, NextArgument, UNCHANGED labels,
         NEW bytes, FixedBytes(DataOf(Token.opcode, Token.args[arg]), bytes), Put(bytes)
  PROVE  LInv(ts)'
<1>0. stage = "data"
  BY DEF DataArgument
<1>1. Listing(ts, next, arg) /\ next \in 1 .. Len(ts) /\ lab = 1 /\ ref = 1 /\ force_end = FALSE
  BY <1>0, ListsArguments
<1>2. /\ arg <= Len(ts[next].args) /\ Pieces(ts[next])[arg] = DataOf(Token.opcode, Token.args[arg])
      /\ Chunk(ts, fout.len, Pieces(ts[next])[arg])
  BY <1>1, ListedArgument
<1> DEFINE c == Pieces(ts[next])[arg]
<1>3. FixedBytes(c, bytes) /\ Chunk(ts, fout.len, c)
  BY <1>2
<1>4. /\ ts \in Seq(TokenType) /\ next \in Nat /\ fout.len \in Nat /\ curr_addr = U16(fout.len)
      /\ Named(ts, next, labels, fout.len, fout.cells)
  BY <1>1 DEF Listing
<1>5. /\ fout'.len = fout.len + Len(c) /\ curr_addr' = U16(fout'.len)
      /\ Named(ts, next, labels, fout'.len, fout'.cells)
  <2> HIDE DEF c
  <2> QED
    BY <1>3, <1>4, PutFixed
<1>6. Named(ts, next, labels', fout'.len, fout'.cells)
  BY <1>5
<1> QED
  BY <1>0, <1>1, <1>2, <1>5, <1>6, ArgumentDone

LEMMA DBLays ==
  ASSUME NEW ts, Prefix(ts, tokens), IInv, LInv(ts), DB
  PROVE  LInv(ts)'
<1> DEFINE a == Token.args[arg]
<1>1. DataArgument /\ NextArgument /\ UNCHANGED labels /\ Token.opcode = "DB" /\ Put(ByteBytes(a))
  BY DEF DB, ByteBytes
<1>2. a \in Arg
  BY <1>1, NextArgumentKeepsCursors
<1> HIDE DEF a
<1>3. FixedBytes(DataOf("DB", a), ByteBytes(a))
  BY <1>2, ByteBytesFixed
<1> QED
  BY <1>1, <1>3, FixedArgumentLays DEF a

(* A reference ends inside the address space.                              *)
LEMMA ArgumentInside ==
  ASSUME NEW ts, Scope(ts), Listing(ts, next, arg), arg <= Len(ts[next].args),
         Len(Pieces(ts[next])[arg]) = 2
  PROVE  U16(fout.len) = fout.len
<1>1. /\ ts \in Seq(TokenType) /\ next \in 1 .. Len(ts) /\ ts[next] \in TokenType
      /\ Len(ts) \in Nat /\ DOMAIN ts = 1 .. Len(ts) /\ fout.len \in Nat
  BY DEF Listing
<1>2. Chunk(ts, fout.len, Pieces(ts[next])[arg])
  BY PieceChunk
<1>3. Stands(ts, fout.len, Pieces(ts[next])[arg][1])
  <2>1. 1 \in 1 .. Len(Pieces(ts[next])[arg]) /\ fout.len + 1 - 1 = fout.len
    BY <1>1
  <2>2. Stands(ts, fout.len + 1 - 1, Pieces(ts[next])[arg][1])
    BY <1>2, <2>1 DEF Chunk
  <2> QED
    BY <2>1, <2>2
<1> DEFINE b == Pieces(ts[next])[arg][1]
<1> HIDE DEF b
<1>4. PICK i \in DOMAIN ts : StandsIn(ts, i, fout.len, b)
  BY <1>3 DEF Stands, b
<1>5. fout.len < Addresses(ts)[i + 1]
  BY <1>1, <1>4, StandsInBounds
<1>6. i + 1 \in 1 .. Len(ts) + 1
  BY <1>1, <1>4
<1> QED
  BY <1>1, <1>5, <1>6, SmallAddress

LEMMA DWNameLays ==
  ASSUME NEW ts, Prefix(ts, tokens), Scope(ts), IInv, IInv', LInv(ts), DataArgument, NextArgument,
         Token.opcode = "DW", ~Token.args[arg].is_imm, ~IsQuoted(Token.args[arg].sv),
         Put(ShortBytes(queue_or_get_label(labels, Token.args[arg].sv, curr_addr).value)),
         labels' = queue_or_get_label(labels, Token.args[arg].sv, curr_addr).labels
  PROVE  LInv(ts)'
<1> DEFINE a     == Token.args[arg]
           name  == a.sv
           got   == queue_or_get_label(labels, name, curr_addr)
           c     == Pieces(ts[next])[arg]
           bytes == ShortBytes(got.value)
<1>0. stage = "data"
  BY DEF DataArgument
<1>1. Listing(ts, next, arg) /\ next \in 1 .. Len(ts) /\ lab = 1 /\ ref = 1 /\ force_end = FALSE
  BY <1>0, ListsArguments
<1>2. /\ arg <= Len(ts[next].args) /\ c = DataOf(Token.opcode, a) /\ a \in Arg
      /\ Chunk(ts, fout.len, c)
  BY <1>1, ListedArgument
<1>3. name \in Texts
  BY <1>2 DEF Arg
<1>4. c = Reference(name)
  BY <1>2, DataOfKinds
<1>5. Len(c) = 2 /\ c[1] = Half(name, TRUE) /\ c[2] = Half(name, FALSE)
  BY <1>3, <1>4, ReferenceTyped DEF Elements2
<1>6. U16(fout.len) = fout.len
  BY <1>1, <1>2, <1>5, ArgumentInside
<1>7. /\ ts \in Seq(TokenType) /\ next \in 0 .. Len(ts) /\ fout.len \in Nat /\ curr_addr = fout.len
      /\ curr_addr = U16(fout.len) /\ curr_addr \in Nat
      /\ Named(ts, next, labels, fout.len, fout.cells)
  BY <1>1, <1>6 DEF Listing
<1>8. Len(bytes) = 2 /\ bytes[1] = Hi(got.value) /\ bytes[2] = Lo(got.value) /\ Put(bytes) /\ labels' = got.labels
  BY DEF ShortBytes
<1>9. got.labels \in Seq(LabelEntry)
  BY <1>8 DEF IInv, Fine
<1> HIDE DEF a, name, c, bytes
<1>10. NameBytes(c, bytes, 2, name, got)
  <2>0. 2 - 1 = 1
    OBVIOUS
  <2>1. ReferenceChunk(c, 2, name)
    BY <1>5, <2>0 DEF ReferenceChunk
  <2> QED
    BY <1>8, <2>1 DEF NameBytes
<1>11. 2 \in Nat /\ 2 >= 2 /\ curr_addr = fout.len + 2 - 2
  BY <1>7
<1>12. /\ fout'.len = fout.len + Len(c) /\ curr_addr' = U16(fout'.len)
       /\ Named(ts, next, got.labels, fout'.len, fout'.cells)
  BY <1>2, <1>3, <1>7, <1>8, <1>9, <1>10, <1>11, PutName
<1>13. Named(ts, next, labels', fout'.len, fout'.cells)
  BY <1>8, <1>12
<1> QED
  BY <1>0, <1>1, <1>2, <1>12, <1>13, ArgumentDone DEF c

LEMMA DWLays ==
  ASSUME NEW ts, Prefix(ts, tokens), Scope(ts), IInv, IInv', LInv(ts), DW
  PROVE  LInv(ts)'
<1> DEFINE a == Token.args[arg]
<1>1. DataArgument /\ NextArgument /\ Token.opcode = "DW"
  BY DEF DW
<1>2. a \in Arg
  BY <1>1, NextArgumentKeepsCursors
<1>3. CASE a.is_imm /\ Put(ShortBytes(parse_immediate(a.sv))) /\ UNCHANGED labels
  <2>1. DataOf("DW", a) = Word16(parse_immediate(a.sv))
    BY <1>3, DataOfKinds
  <2>2. FixedBytes(DataOf("DW", a), ShortBytes(parse_immediate(a.sv)))
    BY <2>1, ImmediateIsShort, ShortBytesFixed
  <2> QED
    BY <1>1, <1>3, <2>2, FixedArgumentLays
<1>4. CASE ~a.is_imm /\ IsQuoted(a.sv) /\ Put(WideCharacters(a.sv)) /\ UNCHANGED labels
  <2>1. DataOf("DW", a) = FlattenSeq(TextWords(a.sv))
    BY <1>4, DataOfKinds
  <2>2. FixedBytes(DataOf("DW", a), WideCharacters(a.sv))
    BY <1>4, <2>1, WideFixed
  <2> QED
    BY <1>1, <1>4, <2>2, FixedArgumentLays
<1>5. CASE /\ ~a.is_imm /\ ~IsQuoted(a.sv)
           /\ Put(ShortBytes(queue_or_get_label(labels, a.sv, curr_addr).value))
           /\ labels' = queue_or_get_label(labels, a.sv, curr_addr).labels
  BY <1>1, <1>5, DWNameLays
<1> QED
  BY <1>3, <1>4, <1>5 DEF DW

LEMMA DataEndLays ==
  ASSUME NEW ts, Prefix(ts, tokens), Scope(ts), IInv, LInv(ts), DataEnd
  PROVE  LInv(ts)'
<1>0. /\ stage = "data" /\ arg > Len(Token.args) /\ stage' = "write" /\ next' = next + 1
      /\ UNCHANGED <<tokens, arg, curr_addr, labels, force_end, fout, lab, ref>>
  BY DEF DataEnd
<1>1. Listing(ts, next, arg) /\ next \in 1 .. Len(ts) /\ lab = 1 /\ ref = 1 /\ force_end = FALSE
  BY <1>0, ListsArguments
<1> DEFINE t == ts[next]
<1>2. /\ ts \in Seq(TokenType) /\ Len(ts) \in Nat /\ t \in TokenType /\ t = Token
      /\ t.opcode \in {"DB", "DW"} /\ arg \in 1 .. Len(t.args) + 1 /\ Len(t.args) \in Nat
      /\ fout.len = Addresses(ts)[next] + Len(Joined(Pieces(t))[arg - 1])
      /\ curr_addr = U16(fout.len) /\ Named(ts, next, labels, fout.len, fout.cells) /\ NoEndBefore(ts, next)
  BY <1>1 DEF Listing
<1> HIDE DEF t
<1>3. arg - 1 = Len(t.args)
  BY <1>0, <1>2
<1>4. Joined(Pieces(t))[arg - 1] = Bytes(t)
  <2>1. Pieces(t) \in Seq(Seq(ByteOf)) /\ Len(Pieces(t)) = Len(t.args)
    BY <1>2, PiecesTyped
  <2>2. FlattenSeq(Pieces(t)) = Joined(Pieces(t))[Len(Pieces(t))]
    BY <2>1, FlattenIsJoined
  <2>3. t.opcode \notin DOMAIN BaseCode
    BY <1>2, PseudoMnemonicsApart DEF PseudoMnemonics
  <2>4. Bytes(t) = FlattenSeq(Pieces(t))
    BY <1>2, <2>3, DataBytes
  <2> QED
    BY <1>3, <2>1, <2>2, <2>4
<1>5. /\ Addresses(ts)[next] \in Nat /\ Len(Bytes(t)) \in Nat
      /\ Addresses(ts)[next + 1] = Addresses(ts)[next] + Len(Bytes(t)) + Fill(t, Addresses(ts)[next])
  <2>1. next \in 1 .. Len(ts) + 1
    BY <1>1, <1>2
  <2> QED
    BY <1>1, <1>2, <2>1, AddressTyped, BytesCounted, AddressesBySteps DEF t, After
<1>6. Fill(t, Addresses(ts)[next]) = 0
  BY <1>2 DEF Fill
<1>7. fout.len = Addresses(ts)[next + 1] /\ Addresses(ts)[next + 1] \in Nat
  BY <1>2, <1>4, <1>5, <1>6
<1>8. LaidLength(ts)' = fout'.len
  <2>1. LaidLength(ts)' = Addresses(ts)[next + 1] + 0
    BY <1>0 DEF LaidLength
  <2> QED
    BY <2>1, <1>0, <1>7
<1>9. SeenTokens' = next
  <2>1. SeenTokens' = (next + 1) - 1
    BY <1>0 DEF SeenTokens
  <2> QED
    BY <2>1, <1>1, <1>2
<1>10. LayCursors(ts)'
  <2>1. next' \in 1 .. Len(ts) + 1 /\ next' = next + 1
    BY <1>0, <1>1, <1>2
  <2>2. NoEndBefore(ts, next + 1)
    <3>1. ts[next].opcode # "END"
      BY <1>2 DEF t
    <3> QED
      BY <3>1, <1>1, <1>2 DEF NoEndBefore
  <2>3. lab' = 1 /\ ref' = 1 /\ force_end' = FALSE /\ stage' = "write"
    BY <1>0, <1>1
  <2> QED
    BY <2>1, <2>2, <2>3 DEF LayCursors
<1>11. /\ lab' = 1 /\ ref' = 1 /\ labels' = labels /\ fout' = fout /\ curr_addr' = U16(fout'.len)
  BY <1>0, <1>1, <1>2
<1> QED
  BY <1>2, <1>8, <1>9, <1>10, <1>11 DEF LInv, Named

-----------------------------------------------------------------------------
(* The bytes of an instruction.                                            *)
LEMMA InstructionLays ==
  ASSUME NEW ts, Prefix(ts, tokens), Scope(ts), IInv, IInv', LInv(ts), Instruction
  PROVE  LInv(ts)'
<1> DEFINE t     == ts[next]
           op    == OpOf(t)
           o     == OperandOf(t)
           imm   == ImmOf(t)
           name  == o.sv
           addr  == U16(curr_addr + 1)
           got   == queue_or_get_label(Labelled, name, addr)
           c     == Bytes(t)
<1>1. Writing /\ NextToken /\ UNCHANGED force_end /\ Token.opcode \in DOMAIN BaseCode
  BY DEF Instruction
<1>2. /\ Reading(ts, next) /\ ts[next] = Token /\ next \in 1 .. Len(ts)
      /\ lab = 1 /\ ref = 1 /\ force_end = FALSE /\ stage = "write"
  BY <1>1, ReadsToken
<1>3. Named(ts, next, Labelled, fout.len, fout.cells)
  BY <1>1, <1>2, LabelledTells
<1>4. t = Token /\ t \in TokenType /\ t.opcode \in DOMAIN BaseCode /\ o = Operand
  BY <1>1, <1>2 DEF Reading, OperandOf, Operand
<1>4a. op = Encoded(Token.opcode, Argument(Token, 1), Argument(Token, 2))
       /\ imm = IF Operand.is_imm THEN parse_immediate(Operand.sv) ELSE 0
  BY <1>4 DEF OpOf, ImmOf
<1>5. /\ ts \in Seq(TokenType) /\ next \in Nat /\ next \in 0 .. Len(ts) /\ fout.len \in Nat
      /\ curr_addr = fout.len /\ curr_addr = U16(fout.len)
  <2>1. curr_addr = U16(fout.len)
    BY <1>2 DEF LInv, Stages
  <2> QED
    BY <2>1, <1>2 DEF Reading
<1>6. Chunk(ts, fout.len, c)
  BY <1>2, StatementChunk
<1>7. imm \in Nat
  BY <1>4a, ImmediateIsShort
<1>8. Addresses(ts)[next + 1] = fout.len + Len(c)
  <2>1. t.opcode \notin {"DS", "ORG"}
    BY <1>4, PseudoMnemonicsApart DEF PseudoMnemonics
  <2>2. Fill(t, fout.len) = 0
    BY <2>1 DEF Fill
  <2>3. /\ Addresses(ts)[next + 1] = fout.len + Len(c) + Fill(t, fout.len)
        /\ Len(c) \in Nat
    BY <1>2, NextAddress
  <2> DEFINE x == Addresses(ts)[next + 1]
             m == Len(c)
             f == Fill(t, fout.len)
  <2>4. x = fout.len + m + f /\ m \in Nat /\ f = 0 /\ fout.len \in Nat
    BY <1>5, <2>2, <2>3
  <2> HIDE DEF x, m, f
  <2>5. x = fout.len + m
    BY <2>4
  <2> QED
    BY <2>5 DEF x, m
<1>9. force_end' = (Token.opcode = "END")
  <2>1. Token.opcode # "END"
    BY <1>1, PseudoMnemonicsApart DEF PseudoMnemonics
  <2> QED
    BY <1>1, <1>2, <2>1
<1>10. ASSUME NEW bytes, FixedBytes(c, bytes), Put(bytes), labels' = Labelled
       PROVE  LInv(ts)'
  <2> HIDE DEF c
  <2>1. /\ fout'.len = fout.len + Len(c) /\ curr_addr' = U16(fout'.len)
        /\ Named(ts, next, Labelled, fout'.len, fout'.cells)
    BY <1>3, <1>5, <1>6, <1>10, PutFixed
  <2>2. Named(ts, next, labels', fout'.len, fout'.cells) /\ fout'.len = Addresses(ts)[next + 1]
    BY <2>1, <1>8, <1>10
  <2> QED
    BY <1>1, <1>2, <1>9, <2>1, <2>2, TokenDone
<1>11. CASE Length(op) = 1 /\ Put(<<op>>) /\ labels' = Labelled
  <2>1. Elements1(c, Fixed(op))
    BY <1>4, <1>11, InstructionBytes
  <2> DEFINE bytes == <<op>>
  <2>2. Len(bytes) = 1 /\ bytes[1] = op
    OBVIOUS
  <2> HIDE DEF c, op, bytes
  <2>3. FixedBytes(c, bytes)
    <3>1. \A k \in 1 .. 1 : k = 1
      OBVIOUS
    <3> QED
      BY <2>1, <2>2, <3>1 DEF FixedBytes, Elements1
  <2> QED
    BY <1>10, <1>11, <2>3 DEF bytes
<1>12. CASE Length(op) = 2 /\ Put(<<op, U8(imm)>>) /\ labels' = Labelled
  <2>1. Elements2(c, Fixed(op), Fixed(imm % 256))
    BY <1>4, <1>12, InstructionBytes
  <2> DEFINE bytes == <<op, U8(imm)>>
  <2>2. Len(bytes) = 2 /\ bytes[1] = op /\ bytes[2] = imm % 256
    BY DEF U8
  <2> HIDE DEF c, op, imm, bytes
  <2>3. FixedBytes(c, bytes)
    <3>1. \A k \in 1 .. 2 : k = 1 \/ k = 2
      OBVIOUS
    <3> QED
      BY <2>1, <2>2, <3>1 DEF FixedBytes, Elements2
  <2> QED
    BY <1>10, <1>12, <2>3 DEF bytes
<1>13. CASE Length(op) = 3 /\ o.is_imm /\ Put(<<op>> \o ShortBytes(imm)) /\ labels' = Labelled
  <2>1. Elements3(c, Fixed(op), Fixed(Hi(imm)), Fixed(Lo(imm)))
    BY <1>4, <1>13, InstructionBytes
  <2> DEFINE bytes == <<op>> \o ShortBytes(imm)
  <2>2. Len(bytes) = 3 /\ bytes[1] = op /\ bytes[2] = Hi(imm) /\ bytes[3] = Lo(imm)
    BY DEF ShortBytes
  <2> HIDE DEF c, op, imm, bytes
  <2>3. FixedBytes(c, bytes)
    <3>1. \A k \in 1 .. 3 : k = 1 \/ k = 2 \/ k = 3
      OBVIOUS
    <3> QED
      BY <2>1, <2>2, <3>1 DEF FixedBytes, Elements3
  <2> QED
    BY <1>10, <1>13, <2>3 DEF bytes
<1>14. CASE Length(op) = 3 /\ ~o.is_imm /\ Put(<<op>> \o ShortBytes(got.value)) /\ labels' = got.labels
  <2> DEFINE bytes == <<op>> \o ShortBytes(got.value)
  <2>1. Elements3(c, Fixed(op), Half(name, TRUE), Half(name, FALSE))
    BY <1>4, <1>14, InstructionBytes
  <2>2. Len(bytes) = 3 /\ bytes[1] = op /\ bytes[2] = Hi(got.value) /\ bytes[3] = Lo(got.value)
    BY DEF ShortBytes
  <2>3. name \in Texts
    <3>1. o \in Arg
      BY <1>4, ArgumentTyped DEF OperandOf
    <3> QED
      BY <3>1 DEF Arg
  <2>4. got.labels \in Seq(LabelEntry)
    BY <1>14 DEF IInv, Fine
  <2> HIDE DEF c, op, name, got, bytes
  <2>5. addr = fout.len + 3 - 2 /\ addr \in Nat
    <3>1. Len(c) = 3
      BY <2>1 DEF Elements3
    <3>2. curr_addr + 1 < Addresses(ts)[next + 1] /\ curr_addr + 1 \in Nat
      <4>1. Addresses(ts)[next + 1] = fout.len + 3
        BY <1>8, <3>1
      <4> DEFINE x == Addresses(ts)[next + 1]
      <4>2. x = curr_addr + 3 /\ curr_addr \in Nat
        BY <1>5, <4>1
      <4> HIDE DEF x
      <4>3. curr_addr + 1 < x /\ curr_addr + 1 \in Nat
        BY <4>2
      <4> QED
        BY <4>3 DEF x
    <3>3. next + 1 \in 1 .. Len(ts) + 1
      BY <1>2 DEF Reading
    <3>4. U16(curr_addr + 1) = curr_addr + 1
      BY <1>5, <3>2, <3>3, SmallAddress
    <3> QED
      BY <1>5, <3>4
  <2>6. NameBytes(c, bytes, 3, name, got)
    <3>0. 3 - 1 = 2 /\ \A k \in 1 .. 3 - 2 : k = 1
      OBVIOUS
    <3>1. Len(c) = 3 /\ c[1] = Fixed(bytes[1]) /\ c[2] = Half(name, TRUE) /\ c[3] = Half(name, FALSE)
      BY <2>1, <2>2 DEF Elements3
    <3>2. ReferenceChunk(c, 3, name)
      BY <3>0, <3>1 DEF ReferenceChunk
    <3> QED
      BY <2>2, <3>0, <3>1, <3>2 DEF NameBytes
  <2>7. 3 \in Nat /\ 3 >= 2
    OBVIOUS
  <2>8. Put(bytes) /\ labels' = got.labels
    BY <1>14 DEF bytes, got
  <2>9. /\ fout'.len = fout.len + Len(c) /\ curr_addr' = U16(fout'.len)
        /\ Named(ts, next, got.labels, fout'.len, fout'.cells)
    <3> HIDE DEF addr
    <3> QED
      BY <1>3, <1>5, <1>6, <2>3, <2>4, <2>5, <2>6, <2>7, <2>8, PutName DEF got
  <2>10. Named(ts, next, labels', fout'.len, fout'.cells) /\ fout'.len = Addresses(ts)[next + 1]
    BY <2>8, <2>9, <1>8
  <2> QED
    BY <1>1, <1>2, <1>9, <2>9, <2>10, TokenDone
<1>15. \/ Length(op) = 1 /\ Put(<<op>>) /\ labels' = Labelled
       \/ Length(op) = 2 /\ Put(<<op, U8(imm)>>) /\ labels' = Labelled
       \/ Length(op) = 3 /\ o.is_imm /\ Put(<<op>> \o ShortBytes(imm)) /\ labels' = Labelled
       \/ Length(op) = 3 /\ ~o.is_imm /\ Put(<<op>> \o ShortBytes(got.value)) /\ labels' = got.labels
  <2> HIDE DEF op, o, imm
  <2> QED
    BY <1>4, <1>4a DEF Instruction
<1> QED
  BY <1>11, <1>12, <1>13, <1>14, <1>15

-----------------------------------------------------------------------------
(* Patching. *)
Patch(ts) ==
  /\ ts \in Seq(TokenType) /\ Len(ts) \in Nat
  /\ next = Len(ts) + 1 /\ fout.len = Extent(ts) /\ curr_addr = U16(fout.len)
  /\ fout.len \in Nat /\ labels \in Seq(LabelEntry)
  /\ LabelsTell(ts, labels, Len(ts), fout.len)
  /\ CellsTell(ts, fout.cells, fout.len, labels, lab, ref)
  /\ lab \in Nat \ {0} /\ ref \in Nat \ {0}
  /\ force_end \in BOOLEAN /\ (~force_end => NoEndBefore(ts, next))
  /\ stage = "assembled" => lab > Len(labels)

LEMMA ExtentTyped == ASSUME NEW ts \in Seq(TokenType) PROVE Extent(ts) \in Nat
<1>1. Len(ts) + 1 \in 1 .. Len(ts) + 1
  OBVIOUS
<1> QED
  BY <1>1, AddressTyped DEF Extent

LEMMA PatchMeans ==
  ASSUME NEW ts, Prefix(ts, tokens), IInv, stage \in {"patch", "assembled"}
  PROVE  LInv(ts) <=> Patch(ts)
<1>1. /\ ts \in Seq(TokenType) /\ Len(ts) \in Nat /\ fout.len \in Nat /\ labels \in Seq(LabelEntry)
      /\ lab \in Nat \ {0} /\ ref \in Nat \ {0}
  BY DEF Prefix, IInv, FileOK, CursorsOK, Fine
<1>2. stage \in Stages /\ stage # "data" /\ stage # "write"
  BY DEF Stages
<1>3. next = Len(ts) + 1 => next \in 1 .. Len(ts) + 1 /\ next - 1 = Len(ts)
  BY <1>1
<1>4. LayCursors(ts) <=> /\ next = Len(ts) + 1
                         /\ force_end \in BOOLEAN /\ (~force_end => NoEndBefore(ts, next))
                         /\ stage = "assembled" => lab > Len(labels)
  BY <1>2, <1>3 DEF LayCursors
<1>5. next = Len(ts) + 1 => LaidLength(ts) = Extent(ts)
  <2> SUFFICES ASSUME next = Len(ts) + 1 PROVE LaidLength(ts) = Extent(ts)
    OBVIOUS
  <2>1. LaidLength(ts) = Extent(ts) + 0
    BY <1>2 DEF LaidLength, Extent
  <2> QED
    BY <2>1, <1>1, ExtentTyped
<1>6. next = Len(ts) + 1 => SeenTokens = Len(ts)
  BY <1>2, <1>3 DEF SeenTokens
<1>7. LInv(ts) <=> /\ LayCursors(ts)
                   /\ fout.len = LaidLength(ts) /\ curr_addr = U16(fout.len)
                   /\ LabelsTell(ts, labels, SeenTokens, fout.len)
                   /\ CellsTell(ts, fout.cells, fout.len, labels, lab, ref)
  BY <1>2 DEF LInv
<1> QED
  BY <1>1, <1>4, <1>5, <1>6, <1>7 DEF Patch

LEMMA PatchMeansNext ==
  ASSUME NEW ts
  PROVE  (Prefix(ts, tokens) /\ IInv /\ stage \in {"patch", "assembled"} => (LInv(ts) <=> Patch(ts)))'
<1>1. Prefix(ts, tokens) /\ IInv /\ stage \in {"patch", "assembled"} => (LInv(ts) <=> Patch(ts))
  BY PatchMeans
<1> QED
  BY <1>1, PTL

LEMMA StartPatchingLays ==
  ASSUME NEW ts, Prefix(ts, tokens), IInv, LInv(ts), StartPatching
  PROVE  LInv(ts)'
<1>1. /\ stage = "write" /\ (next > Len(tokens) \/ force_end) /\ stage' = "patch"
      /\ UNCHANGED <<tokens, next, arg, curr_addr, labels, force_end, fout, lab, ref>>
  BY DEF StartPatching
<1>2. /\ LayCursors(ts) /\ fout.len = LaidLength(ts) /\ curr_addr = U16(fout.len)
      /\ LabelsTell(ts, labels, SeenTokens, fout.len)
      /\ CellsTell(ts, fout.cells, fout.len, labels, lab, ref)
  BY <1>1 DEF LInv, Stages
<1>3. next = Len(ts) + 1
  <2>1. Len(ts) \in Nat /\ Len(ts) <= Len(tokens) /\ next \in Nat /\ Len(tokens) \in Nat
    BY DEF Prefix, IInv, CursorsOK
  <2>2. next \in 1 .. Len(ts) + 1 /\ (force_end => next = Len(ts) + 1)
    BY <1>2 DEF LayCursors
  <2> QED
    BY <1>1, <2>1, <2>2
<1>4. LayCursors(ts)'
  BY <1>1, <1>2, <1>3 DEF LayCursors
<1>5. LaidLength(ts)' = LaidLength(ts) /\ SeenTokens' = SeenTokens
  BY <1>1 DEF LaidLength, SeenTokens
<1> QED
  BY <1>1, <1>2, <1>4, <1>5 DEF LInv

(* Both bytes of a patched reference stand in the file already.            *)
Patched(cells, q, sh) ==
  [k \in DOMAIN cells \cup {q, q + 1} |->
      CASE k = q     -> Hi(sh)
        [] k = q + 1 -> Lo(sh)
        [] OTHER     -> cells[k]]

LEMMA PatchedCells ==
  ASSUME NEW cells, NEW q \in Nat, NEW sh, q \in DOMAIN cells, q + 1 \in DOMAIN cells
  PROVE  LET after == Patched(cells, q, sh) IN
           /\ DOMAIN after = DOMAIN cells /\ after[q] = Hi(sh) /\ after[q + 1] = Lo(sh)
           /\ \A k \in DOMAIN cells : k \notin {q, q + 1} => after[k] = cells[k]
<1>1. q # q + 1
  OBVIOUS
<1> QED
  BY <1>1 DEF Patched

LEMMA OverwriteInside ==
  ASSUME NEW file, file.len \in Nat, NEW q \in Nat, q + 2 <= file.len, NEW sh
  PROVE  /\ file_overwrite_short(file, q, sh).len = file.len
         /\ file_overwrite_short(file, q, sh).cells = Patched(file.cells, q, sh)
<1> DEFINE n == file.len
           m == Max({n, q + 2})
<1>1. n \in Int /\ q + 2 \in Int
  OBVIOUS
<1>2. m \in {n, q + 2} /\ m >= n
  BY <1>1, MaxOfTwo
<1>3. file_overwrite_short(file, q, sh).len = m
      /\ file_overwrite_short(file, q, sh).cells = Patched(file.cells, q, sh)
  BY DEF file_overwrite_short, Patched
<1>4. q + 2 <= n
  OBVIOUS
<1> HIDE DEF n, m
<1>5. m = n
  BY <1>1, <1>2, <1>4
<1> QED
  BY <1>3, <1>5 DEF n

LEMMA OpenSteps ==
  ASSUME NEW l \in Nat, NEW r \in Nat, NEW i \in Nat, NEW j \in Nat, Open(l, r, i, j)
  PROVE  Open(l, r + 1, i, j) \/ (i = l /\ j = r)
BY DEF Open

LEMMA PatchTells ==
  ASSUME NEW ts \in Seq(TokenType), NEW cells, NEW len \in Nat, NEW ls \in Seq(LabelEntry),
         NEW l \in DOMAIN ls, NEW r \in DOMAIN ls[l].queued,
         LabelsTell(ts, ls, Len(ts), len), CellsTell(ts, cells, len, ls, l, r)
  PROVE  /\ ls[l].queued[r] + 2 <= len /\ ls[l].queued[r] \in Nat
         /\ CellsTell(ts, Patched(cells, ls[l].queued[r], ls[l].addr), len, ls, l, r + 1)
<1> DEFINE q     == ls[l].queued[r]
           sh    == ls[l].addr
           name  == ls[l].label
           after == Patched(cells, q, sh)
<1>1. /\ Stands(ts, q, Half(name, TRUE)) /\ Stands(ts, q + 1, Half(name, FALSE)) /\ q + 2 <= len
  BY DEF LabelsTell, QueueRight, ReferenceAt
<1>2. sh = Value(ts, name)
  BY AllValues
<1>3. ls[l].queued \in Seq(Nat) /\ l \in Nat /\ r \in Nat
  <2>1. ls[l] \in LabelEntry
    OBVIOUS
  <2>2. ls[l].queued \in Seq(Nat)
    BY <2>1 DEF LabelEntry
  <2> QED
    BY <2>2
<1>4. q \in Nat
  BY <1>3
<1> HIDE DEF q, sh, name, after
<1>5. q < len /\ q + 1 < len
  BY <1>1, <1>4
<1>6. q \in DOMAIN cells /\ q + 1 \in DOMAIN cells
  BY <1>1, <1>5 DEF CellsTell
<1>7. /\ DOMAIN after = DOMAIN cells /\ after[q] = Hi(sh) /\ after[q + 1] = Lo(sh)
      /\ \A k \in DOMAIN cells : k \notin {q, q + 1} => after[k] = cells[k]
  BY <1>4, <1>6, PatchedCells DEF after
<1>8. ASSUME NEW p, NEW b, Stands(ts, p, b), p < len
      PROVE  Told(ts, ls, l, r + 1, p, b, after[p])
  <2>1. CASE p = q
    <3>1. b = Half(name, TRUE)
      BY <1>1, <1>8, <2>1, StandsOnce
    <3>2. Resolved(ts, b) = Hi(sh)
      BY <3>1, <1>2, HighResolves
    <3> QED
      BY <1>7, <2>1, <3>2 DEF Told
  <2>2. CASE p = q + 1
    <3>1. b = Half(name, FALSE)
      BY <1>1, <1>8, <2>2, StandsOnce
    <3>2. Resolved(ts, b) = Lo(sh)
      BY <3>1, <1>2, LowResolves
    <3> QED
      BY <1>7, <2>2, <3>2 DEF Told
  <2>3. CASE p \notin {q, q + 1}
    <3>1. p \in DOMAIN cells /\ Told(ts, ls, l, r, p, b, cells[p])
      BY <1>8 DEF CellsTell
    <3>2. after[p] = cells[p]
      BY <3>1, <2>3, <1>7
    <3>3. Pending(ls, l, r, p) => Pending(ls, l, r + 1, p)
      <4> SUFFICES ASSUME Pending(ls, l, r, p) PROVE Pending(ls, l, r + 1, p)
        OBVIOUS
      <4>1. PICK i \in DOMAIN ls : \E j \in DOMAIN ls[i].queued :
               Open(l, r, i, j) /\ p \in {ls[i].queued[j], ls[i].queued[j] + 1}
        BY DEF Pending
      <4>2. PICK j \in DOMAIN ls[i].queued : Open(l, r, i, j) /\ p \in {ls[i].queued[j], ls[i].queued[j] + 1}
        BY <4>1
      <4>3. ls[i].queued \in Seq(Nat)
        <5>1. ls[i] \in LabelEntry
          OBVIOUS
        <5> QED
          BY <5>1 DEF LabelEntry
      <4>4. i \in Nat /\ j \in Nat
        BY <4>3
      <4>5. ~(i = l /\ j = r)
        BY <4>2, <2>3 DEF q
      <4>6. Open(l, r + 1, i, j)
        BY <4>2, <4>4, <4>5, <1>3, OpenSteps
      <4> QED
        BY <4>2, <4>6 DEF Pending
    <3> QED
      BY <3>1, <3>2, <3>3 DEF Told
  <2> QED
    BY <2>1, <2>2, <2>3
<1>9. CellsTell(ts, after, len, ls, l, r + 1)
  BY <1>7, <1>8 DEF CellsTell
<1> QED
  BY <1>1, <1>4, <1>9 DEF after, q, sh

LEMMA PatchReferenceLays ==
  ASSUME NEW ts, Prefix(ts, tokens), IInv, IInv', LInv(ts), PatchReference
  PROVE  LInv(ts)'
<1> DEFINE q == labels[lab].queued[ref]
<1>1. /\ stage = "patch" /\ stage' = "patch" /\ lab' = lab /\ ref' = ref + 1
      /\ UNCHANGED <<tokens, next, arg, curr_addr, labels, force_end>>
      /\ lab <= Len(labels) /\ ref <= Len(labels[lab].queued)
      /\ fout' = file_overwrite_short(fout, q, labels[lab].addr)
  BY DEF PatchReference, Patching
<1>2. Patch(ts)
  BY <1>1, PatchMeans
<1>3. lab \in DOMAIN labels
  BY <1>1, <1>2 DEF Patch
<1>4. ref \in DOMAIN labels[lab].queued
  <2>1. labels[lab] \in LabelEntry
    BY <1>2, <1>3 DEF Patch
  <2>2. labels[lab].queued \in Seq(Nat)
    BY <2>1 DEF LabelEntry
  <2> QED
    BY <1>1, <1>2, <2>2 DEF Patch
<1>5. /\ q + 2 <= fout.len /\ q \in Nat
      /\ CellsTell(ts, Patched(fout.cells, q, labels[lab].addr), fout.len, labels, lab, ref + 1)
  BY <1>2, <1>3, <1>4, PatchTells DEF Patch
<1> HIDE DEF q
<1>6. fout'.len = fout.len /\ fout'.cells = Patched(fout.cells, q, labels[lab].addr)
  BY <1>1, <1>2, <1>5, OverwriteInside DEF Patch
<1>7. ref' \in Nat \ {0}
  BY <1>1, <1>2 DEF Patch
<1>8. Patch(ts)'
  BY <1>1, <1>2, <1>5, <1>6, <1>7 DEF Patch
<1>9. Prefix(ts, tokens') /\ stage' \in {"patch", "assembled"}
  BY <1>1
<1> QED
  BY <1>8, <1>9, PatchMeansNext

LEMMA NextQueueOpens ==
  ASSUME NEW ls \in Seq(LabelEntry), NEW l \in Nat \ {0}, NEW r \in Nat \ {0},
         l \in DOMAIN ls, r > Len(ls[l].queued), NEW p, Pending(ls, l, r, p)
  PROVE  Pending(ls, l + 1, 1, p)
<1>1. PICK i \in DOMAIN ls : \E j \in DOMAIN ls[i].queued :
         Open(l, r, i, j) /\ p \in {ls[i].queued[j], ls[i].queued[j] + 1}
  BY DEF Pending
<1>2. PICK j \in DOMAIN ls[i].queued : Open(l, r, i, j) /\ p \in {ls[i].queued[j], ls[i].queued[j] + 1}
  BY <1>1
<1>3. ls[i].queued \in Seq(Nat)
  <2>1. ls[i] \in LabelEntry
    OBVIOUS
  <2> QED
    BY <2>1 DEF LabelEntry
<1>4. i \in Nat /\ j \in Nat \ {0} /\ j <= Len(ls[i].queued) /\ Len(ls[i].queued) \in Nat
  BY <1>3
<1>5. i > l
  BY <1>2, <1>4 DEF Open
<1>6. Open(l + 1, 1, i, j)
  BY <1>4, <1>5 DEF Open
<1> QED
  BY <1>2, <1>6 DEF Pending

LEMMA PatchNextLabelLays ==
  ASSUME NEW ts, Prefix(ts, tokens), IInv, IInv', LInv(ts), PatchNextLabel
  PROVE  LInv(ts)'
<1>1. /\ stage = "patch" /\ stage' = "patch" /\ lab' = lab + 1 /\ ref' = 1
      /\ UNCHANGED <<tokens, next, arg, curr_addr, labels, force_end, fout>>
      /\ lab <= Len(labels) /\ ref > Len(labels[lab].queued)
  BY DEF PatchNextLabel, Patching
<1>2. Patch(ts)
  BY <1>1, PatchMeans
<1>3. labels \in Seq(LabelEntry) /\ lab \in Nat \ {0} /\ ref \in Nat \ {0} /\ lab \in DOMAIN labels
  BY <1>1, <1>2 DEF Patch
<1>4. \A p : Pending(labels, lab, ref, p) => Pending(labels, lab + 1, 1, p)
  BY <1>1, <1>3, NextQueueOpens
<1>5. CellsTell(ts, fout.cells, fout.len, labels, lab + 1, 1)
  BY <1>2, <1>4 DEF Patch, CellsTell, Told
<1>6. lab' \in Nat \ {0} /\ ref' \in Nat \ {0}
  BY <1>1, <1>3
<1>7. Patch(ts)'
  BY <1>1, <1>2, <1>5, <1>6 DEF Patch
<1>8. Prefix(ts, tokens') /\ stage' \in {"patch", "assembled"}
  BY <1>1
<1> QED
  BY <1>7, <1>8, PatchMeansNext

LEMMA CloseLays ==
  ASSUME NEW ts, Prefix(ts, tokens), IInv, IInv', LInv(ts), Close
  PROVE  LInv(ts)'
<1>1. /\ stage = "patch" /\ stage' = "assembled" /\ lab > Len(labels)
      /\ UNCHANGED <<tokens, next, arg, curr_addr, labels, force_end, fout, lab, ref>>
  BY DEF Close, Patching
<1>2. Patch(ts)
  BY <1>1, PatchMeans
<1>3. Patch(ts)'
  BY <1>1, <1>2 DEF Patch
<1>4. Prefix(ts, tokens') /\ stage' \in {"patch", "assembled"}
  BY <1>1
<1> QED
  BY <1>3, <1>4, PatchMeansNext

LEMMA OthersLay ==
  ASSUME NEW ts, Prefix(ts, tokens), LInv(ts), NullText \/ UNCHANGED vars
  PROVE  LInv(ts)'
<1>1. CASE NullText
  <2>1. stage' \notin Stages
    BY <1>1 DEF NullText, Stages
  <2> QED
    BY <2>1 DEF LInv
<1>2. CASE UNCHANGED vars
  BY <1>2 DEF vars, LInv, LayCursors, LaidLength, SeenTokens
<1> QED
  BY <1>1, <1>2

LEMMA StepLays ==
  ASSUME NEW ts, Prefix(ts, tokens), Scope(ts), IInv, IInv', LInv(ts), [Next]_vars
  PROVE  LInv(ts)'
BY SilentLays, FillersLay, DataLays, DBLays, DWLays, DataEndLays, InstructionLays,
   StartPatchingLays, PatchReferenceLays, PatchNextLabelLays, CloseLays, OthersLay
   DEF Next, write_token, write_queued_labels

LEMMA FreshLays ==
  ASSUME NEW ts, Prefix(ts, tokens), Fresh, stage = "write"
  PROVE  LInv(ts)
<1>1. /\ stage = "write" /\ next = 1 /\ arg = 1 /\ lab = 1 /\ ref = 1
      /\ curr_addr = 0 /\ labels = <<>> /\ force_end = FALSE
      /\ fout = [len |-> 0, cells |-> <<>>]
  BY DEF Fresh
<1>2. ts \in Seq(TokenType) /\ Len(ts) \in Nat
  BY DEF Prefix
<1>3. Addresses(ts)[1] = 0
  BY <1>2, AddressesBySteps
<1>4. fout.len = 0 /\ fout.cells = <<>> /\ DOMAIN fout.cells = {}
  BY <1>1
<1>5. \A p, b : Stands(ts, p, b) => ~(p < 0)
  <2> SUFFICES ASSUME NEW p, NEW b, Stands(ts, p, b) PROVE ~(p < 0)
    OBVIOUS
  <2>1. p \in Nat
    BY <1>2, StandsNat
  <2> QED
    BY <2>1
<1>6. LayCursors(ts)
  <2>1. NoEndBefore(ts, 1)
    BY DEF NoEndBefore
  <2>2. 1 \in 1 .. Len(ts) + 1
    BY <1>2
  <2> QED
    BY <1>1, <2>1, <2>2 DEF LayCursors
<1>7. LaidLength(ts) = 0 /\ SeenTokens = 0
  BY <1>1, <1>3 DEF LaidLength, SeenTokens
<1>8. LabelsTell(ts, labels, 0, 0)
  <2>1. DOMAIN labels = {} /\ 1 .. 0 = {}
    BY <1>1
  <2> QED
    BY <2>1, <1>5 DEF LabelsTell, Distinct
<1>9. CellsTell(ts, fout.cells, 0, labels, 1, 1)
  BY <1>4, <1>5 DEF CellsTell
<1>10. curr_addr = U16(0)
  BY <1>1 DEF U16
<1> QED
  BY <1>1, <1>4, <1>6, <1>7, <1>8, <1>9, <1>10 DEF LInv

LEMMA TokensStay == ASSUME [Next]_vars PROVE tokens' = tokens
BY DEF Next, write_token, write_queued_labels, vars, WriteNothing, END, DS, ORG, Data, DB, DW, NullText, DataEnd,
   Instruction, StartPatching, PatchReference, PatchNextLabel, Close, NextToken, NextArgument, Patching

LEMMA FreshLaid == ASSUME Fresh, stage = "write" PROVE Laid
<1> SUFFICES ASSUME NEW ts, ts = Live(tokens), Scope(ts) PROVE LInv(ts)
  BY DEF Laid
<1>1. Prefix(ts, tokens)
  BY LiveIsPrefix DEF Fresh
<1> QED
  BY <1>1, FreshLays

LEMMA LaidStep == ASSUME IInv, Laid, [Next]_vars PROVE Laid'
<1> SUFFICES ASSUME NEW ts, ts = Live(tokens'), Scope(ts) PROVE LInv(ts)'
  BY DEF Laid
<1>1. IInv' /\ tokens' = tokens
  BY NextIInv, TokensStay
<1>2. ts = Live(tokens)
  BY <1>1
<1>3. Prefix(ts, tokens)
  BY <1>2, LiveIsPrefix DEF IInv, CursorsOK
<1>4. LInv(ts)
  BY <1>2 DEF Laid
<1> QED
  BY <1>1, <1>3, <1>4, StepLays

(* For every program of any length, write_token and write_queued_labels    *)
(* keep the file, the labels and the queues as the layout says.            *)
THEOREM LaidHolds == Spec => [](IInv /\ Laid)
<1>1. Init => IInv /\ Laid
  BY InitFresh, FreshIInv, FreshLaid
<1>2. IInv /\ Laid /\ [Next]_vars => (IInv /\ Laid)'
  BY NextIInv, LaidStep
<1> QED
  BY <1>1, <1>2, PTL DEF Spec

-----------------------------------------------------------------------------
(* From the invariant to what the file is.                                 *)
LEMMA ImageStands ==
  ASSUME NEW ts, NEW x
  PROVE  x \in Image(ts) <=> \E p, b : Stands(ts, p, b) /\ x = <<p, Resolved(ts, b)>>
<1>1. ASSUME x \in Image(ts) PROVE \E p, b : Stands(ts, p, b) /\ x = <<p, Resolved(ts, b)>>
  <2>1. PICK i \in DOMAIN ts : x \in {<<Addresses(ts)[i] + k - 1, Resolved(ts, Bytes(ts[i])[k])>> :
                                       k \in DOMAIN Bytes(ts[i])}
    BY <1>1 DEF Image
  <2>2. PICK k \in DOMAIN Bytes(ts[i]) : x = <<Addresses(ts)[i] + k - 1, Resolved(ts, Bytes(ts[i])[k])>>
    BY <2>1
  <2>3. Stands(ts, Addresses(ts)[i] + k - 1, Bytes(ts[i])[k])
    BY DEF Stands, StandsIn
  <2> QED
    BY <2>2, <2>3
<1>2. ASSUME NEW p, NEW b, Stands(ts, p, b), x = <<p, Resolved(ts, b)>> PROVE x \in Image(ts)
  <2>1. PICK i \in DOMAIN ts : StandsIn(ts, i, p, b)
    BY <1>2 DEF Stands
  <2>2. PICK k \in DOMAIN Bytes(ts[i]) : p = Addresses(ts)[i] + k - 1 /\ b = Bytes(ts[i])[k]
    BY <2>1 DEF StandsIn
  <2>3. x = <<Addresses(ts)[i] + k - 1, Resolved(ts, Bytes(ts[i])[k])>>
    BY <1>2, <2>2
  <2> QED
    BY <2>3 DEF Image
<1> QED
  BY <1>1, <1>2

Shows(ts, cells, len) ==
  /\ \A p : p \in DOMAIN cells <=> p < len /\ \E b : Stands(ts, p, b)
  /\ \A p, b : Stands(ts, p, b) /\ p < len => cells[p] = Resolved(ts, b)

LEMMA ShownIsImage ==
  ASSUME NEW ts, NEW file, NEW len, Shows(ts, file.cells, len)
  PROVE  NonZero(file) = {p \in Image(ts) : p[2] # 0 /\ p[1] < len}
<1> DEFINE cells == file.cells
<1>1. \A x : x \in NonZero(file) <=> \E p \in DOMAIN cells : cells[p] # 0 /\ x = <<p, cells[p]>>
  BY DEF NonZero
<1>2. ASSUME NEW x, x \in NonZero(file) PROVE x \in Image(ts) /\ x[2] # 0 /\ x[1] < len
  <2>1. PICK p \in DOMAIN cells : cells[p] # 0 /\ x = <<p, cells[p]>>
    BY <1>1, <1>2
  <2>2. p < len /\ \E b : Stands(ts, p, b)
    BY <2>1 DEF Shows
  <2>3. PICK b : Stands(ts, p, b)
    BY <2>2
  <2>4. cells[p] = Resolved(ts, b)
    BY <2>2, <2>3 DEF Shows
  <2>5. x \in Image(ts)
    BY <2>1, <2>3, <2>4, ImageStands
  <2>6. x[1] = p /\ x[2] = cells[p]
    BY <2>1
  <2> QED
    BY <2>1, <2>2, <2>5, <2>6
<1>3. ASSUME NEW x, x \in Image(ts), x[2] # 0, x[1] < len PROVE x \in NonZero(file)
  <2>1. PICK p, b : Stands(ts, p, b) /\ x = <<p, Resolved(ts, b)>>
    BY <1>3, ImageStands
  <2>2. x[1] = p /\ x[2] = Resolved(ts, b)
    BY <2>1
  <2>3. p \in DOMAIN cells /\ cells[p] = Resolved(ts, b)
    BY <1>3, <2>1, <2>2 DEF Shows
  <2> QED
    BY <1>1, <1>3, <2>1, <2>2, <2>3
<1> QED
  BY <1>2, <1>3

-----------------------------------------------------------------------------
(* The references that are queued, and what they are filled in with.       *)
QueuedIn(queues) == UNION {{<<ls.label, ls.queued[j]>> : j \in DOMAIN ls.queued} : ls \in queues}
Halves(queued, k) == {q \in queued : k \in {q[2], q[2] + 1}}
FilledCell(file, ts, queued, k) ==
  IF Halves(queued, k) = {} THEN file.cells[k]
  ELSE LET q == CHOOSE q \in Halves(queued, k) : TRUE
           v == Value(ts, q[1])
       IN  IF k = q[2] THEN Hi(v) ELSE Lo(v)

LEMMA FilledByCells ==
  ASSUME NEW file, NEW ts, NEW queues
  PROVE  /\ DOMAIN Filled(file, ts, queues).cells = DOMAIN file.cells
         /\ \A k \in DOMAIN file.cells :
              Filled(file, ts, queues).cells[k] = FilledCell(file, ts, QueuedIn(queues), k)
BY DEF Filled, FilledCell, QueuedIn, Halves

EntriesOf(ls) == {ls[i] : i \in DOMAIN ls}

LEMMA QueuedMeans ==
  ASSUME NEW ls, NEW q
  PROVE  q \in QueuedIn(EntriesOf(ls)) <=>
           \E i \in DOMAIN ls : \E j \in DOMAIN ls[i].queued : q = <<ls[i].label, ls[i].queued[j]>>
BY DEF QueuedIn, EntriesOf

LEMMA FilledShows ==
  ASSUME NEW ts \in Seq(TokenType), NEW file, NEW ls, NEW seen, NEW l, NEW r,
         LabelsTell(ts, ls, seen, file.len), CellsTell(ts, file.cells, file.len, ls, l, r)
  PROVE  Shows(ts, Filled(file, ts, EntriesOf(ls)).cells, file.len)
<1> DEFINE queued == QueuedIn(EntriesOf(ls))
           cells  == Filled(file, ts, EntriesOf(ls)).cells
<1>1. /\ DOMAIN cells = DOMAIN file.cells
      /\ \A k \in DOMAIN file.cells : cells[k] = FilledCell(file, ts, queued, k)
  BY FilledByCells
<1>2. \A q : q \in queued <=> \E i \in DOMAIN ls : \E j \in DOMAIN ls[i].queued : q = <<ls[i].label, ls[i].queued[j]>>
  BY QueuedMeans
<1> HIDE DEF queued, cells
<1>3. ASSUME NEW p, NEW b, Stands(ts, p, b), p < file.len PROVE cells[p] = Resolved(ts, b)
  <2>1. p \in DOMAIN file.cells /\ Told(ts, ls, l, r, p, b, file.cells[p])
    BY <1>3 DEF CellsTell
  <2>2. cells[p] = FilledCell(file, ts, queued, p)
    BY <1>1, <2>1
  <2>3. CASE Halves(queued, p) = {}
    <3>1. ~Pending(ls, l, r, p)
      <4> SUFFICES ASSUME Pending(ls, l, r, p) PROVE FALSE
        OBVIOUS
      <4>1. PICK i \in DOMAIN ls : \E j \in DOMAIN ls[i].queued : p \in {ls[i].queued[j], ls[i].queued[j] + 1}
        BY DEF Pending
      <4>2. PICK j \in DOMAIN ls[i].queued : p \in {ls[i].queued[j], ls[i].queued[j] + 1}
        BY <4>1
      <4> DEFINE q == <<ls[i].label, ls[i].queued[j]>>
      <4>3. q \in queued
        BY <1>2
      <4>4. p \in {q[2], q[2] + 1}
        BY <4>2
      <4> QED
        BY <4>3, <4>4, <2>3 DEF Halves
    <3> QED
      BY <2>1, <2>2, <2>3, <3>1 DEF Told, FilledCell
  <2>4. CASE Halves(queued, p) # {}
    <3> DEFINE q == CHOOSE x \in Halves(queued, p) : TRUE
               v == Value(ts, q[1])
    <3>1. q \in Halves(queued, p)
      BY <2>4
    <3>2. cells[p] = IF p = q[2] THEN Hi(v) ELSE Lo(v)
      BY <2>2, <2>4 DEF FilledCell
    <3> HIDE DEF q
    <3>3. q \in queued /\ p \in {q[2], q[2] + 1}
      BY <3>1 DEF Halves
    <3>4. PICK i \in DOMAIN ls : \E j \in DOMAIN ls[i].queued : q = <<ls[i].label, ls[i].queued[j]>>
      BY <1>2, <3>3
    <3>5. PICK j \in DOMAIN ls[i].queued : q = <<ls[i].label, ls[i].queued[j]>>
      BY <3>4
    <3>6. q[1] = ls[i].label /\ q[2] = ls[i].queued[j]
      BY <3>5
    <3>7. Stands(ts, q[2], Half(q[1], TRUE)) /\ Stands(ts, q[2] + 1, Half(q[1], FALSE))
      BY <3>6 DEF LabelsTell, QueueRight, ReferenceAt
    <3>8. CASE p = q[2]
      <4>1. b = Half(q[1], TRUE)
        BY <3>7, <3>8, <1>3, StandsOnce
      <4> QED
        BY <3>2, <3>8, <4>1, HighResolves
    <3>9. CASE p # q[2]
      <4>1. p = q[2] + 1
        BY <3>3, <3>9
      <4>2. b = Half(q[1], FALSE)
        BY <3>7, <4>1, <1>3, StandsOnce
      <4> QED
        BY <3>2, <3>9, <4>2, LowResolves
    <3> QED
      BY <3>8, <3>9
  <2> QED
    BY <2>3, <2>4
<1>4. Shows(ts, cells, file.len)
  BY <1>1, <1>3 DEF Shows, CellsTell
<1> QED
  BY <1>4 DEF cells

LEMMA InScopeMeans == InScope => Scope(Live(tokens)) /\ (IInv => Live(tokens) \in Seq(TokenType))
BY LiveIsPrefix DEF InScope, Scope, IInv, CursorsOK, Prefix

LEMMA FileLaidOut == ASSUME IInv, Laid PROVE FileIsLaidOut
<1> SUFFICES ASSUME stage \in {"write", "data", "patch"}, InScope
             PROVE  LET ts == Live(tokens) IN
                      NonZero(Filled(fout, ts, {labels[i] : i \in DOMAIN labels}))
                        = {p \in Image(ts) : p[2] # 0 /\ p[1] < fout.len}
  BY DEF FileIsLaidOut
<1> DEFINE ts == Live(tokens)
           file == Filled(fout, ts, EntriesOf(labels))
<1>1. Scope(ts) /\ ts \in Seq(TokenType)
  BY InScopeMeans
<1>2. LInv(ts)
  BY <1>1 DEF Laid
<1> HIDE DEF ts
<1>3. /\ LabelsTell(ts, labels, SeenTokens, fout.len)
      /\ CellsTell(ts, fout.cells, fout.len, labels, lab, ref)
  BY <1>2 DEF LInv, Stages
<1>4. Shows(ts, file.cells, fout.len)
  BY <1>1, <1>3, FilledShows
<1>5. NonZero(file) = {p \in Image(ts) : p[2] # 0 /\ p[1] < fout.len}
  BY <1>4, ShownIsImage
<1> QED
  BY <1>5 DEF ts, EntriesOf

(* For every program, of any length: while it is assembled, the file with  *)
(* its pending references filled in is the beginning of what an assembler  *)
(* writes that knows all labels from the start.                            *)
THEOREM FileStaysLaidOut == Spec => []FileIsLaidOut
BY FileLaidOut, LaidHolds, PTL

LEMMA ImageInside ==
  ASSUME NEW ts \in Seq(TokenType), NEW x \in Image(ts)
  PROVE  x[1] < Extent(ts)
<1>1. PICK p, b : Stands(ts, p, b) /\ x = <<p, Resolved(ts, b)>>
  BY ImageStands
<1>2. PICK i \in DOMAIN ts : StandsIn(ts, i, p, b)
  BY <1>1 DEF Stands
<1>3. Len(ts) + 1 \in 1 .. Len(ts) + 1 /\ i < Len(ts) + 1
  OBVIOUS
<1>4. p < Addresses(ts)[Len(ts) + 1]
  BY <1>2, <1>3, StandsBelow
<1> QED
  BY <1>1, <1>4 DEF Extent

LEMMA AssembledShows ==
  ASSUME IInv, Laid, stage = "assembled", NEW ts, ts = Live(tokens), Scope(ts)
  PROVE  ts \in Seq(TokenType) /\ fout.len = Extent(ts) /\ Shows(ts, fout.cells, fout.len)
<1>1. ts \in Seq(TokenType) /\ Prefix(ts, tokens)
  BY LiveIsPrefix DEF IInv, CursorsOK, Prefix
<1>2. LInv(ts)
  BY DEF Laid
<1>3. Patch(ts)
  BY <1>1, <1>2, PatchMeans
<1>4. /\ fout.len = Extent(ts) /\ lab > Len(labels) /\ labels \in Seq(LabelEntry) /\ lab \in Nat
      /\ CellsTell(ts, fout.cells, fout.len, labels, lab, ref)
  BY <1>3 DEF Patch
<1>5. \A p : ~Pending(labels, lab, ref, p)
  BY <1>4 DEF Pending, Open
<1>6. Shows(ts, fout.cells, fout.len)
  BY <1>4, <1>5 DEF CellsTell, Shows, Told
<1> QED
  BY <1>1, <1>4, <1>6

LEMMA WholeImage ==
  ASSUME NEW ts \in Seq(TokenType), NEW file, Shows(ts, file.cells, Extent(ts))
  PROVE  NonZero(file) = {p \in Image(ts) : p[2] # 0}
<1>1. NonZero(file) = {p \in Image(ts) : p[2] # 0 /\ p[1] < Extent(ts)}
  BY ShownIsImage
<1>2. \A p \in Image(ts) : p[1] < Extent(ts)
  BY ImageInside
<1> QED
  BY <1>1, <1>2

LEMMA ClosedComplete == ASSUME IInv, Laid PROVE ClosedIsComplete
<1> SUFFICES ASSUME stage = "assembled", InScope
             PROVE  LET ts == Live(tokens) IN
                      /\ fout.len = Extent(ts)
                      /\ NonZero(fout) = {p \in Image(ts) : p[2] # 0}
  BY DEF ClosedIsComplete
<1> DEFINE ts == Live(tokens)
<1>1. Scope(ts)
  BY InScopeMeans
<1>2. ts \in Seq(TokenType) /\ fout.len = Extent(ts) /\ Shows(ts, fout.cells, fout.len)
  BY <1>1, AssembledShows
<1> HIDE DEF ts
<1>3. NonZero(fout) = {p \in Image(ts) : p[2] # 0}
  BY <1>2, WholeImage
<1> QED
  BY <1>2, <1>3 DEF ts

(* For every program, of any length: the file that is closed is the whole  *)
(* image, the references to labels that came later included.               *)
THEOREM ClosedStaysComplete == Spec => []ClosedIsComplete
BY ClosedComplete, LaidHolds, PTL
=============================================================================
