-------------------------- MODULE SubsequenceProofs ---------------------------
(***************************************************************************)
(* The laws of Keep.  Induction is stated for sets (of numbers, and of     *)
(* sequences) rather than for predicates, because the provers cannot       *)
(* instantiate an operator parameter.                                      *)
(***************************************************************************)
EXTENDS Subsequences, SequenceTheorems, WellFoundedInduction, TLAPS

NatLess == {ss \in Nat \X Nat : ss[1] < ss[2]}

LEMMA NatInduct ==
    ASSUME NEW T, 0 \in T, \A n \in Nat : n \in T => n + 1 \in T
    PROVE  Nat \subseteq T
<1> SUFFICES ASSUME Nat \ T # {} PROVE FALSE OBVIOUS
<1>1. IsWellFoundedOn(NatLess, Nat) BY NatLessThanWellFounded DEF OpToRel, NatLess
<1>2. PICK n \in Nat \ T : \A m \in Nat \ T : ~(<<m, n>> \in NatLess)
  <2>1. Nat \ T \subseteq Nat OBVIOUS
  <2> QED BY <1>1, <2>1, WFMin
<1>3. n \in Nat /\ n # 0 OBVIOUS
<1>4. n - 1 \in Nat /\ n - 1 < n /\ (n - 1) + 1 = n BY <1>3
<1>5. <<n - 1, n>> \in NatLess BY <1>3, <1>4 DEF NatLess
<1>6. n - 1 \in T BY <1>2, <1>4, <1>5
<1>7. (n - 1) + 1 \in T BY <1>4, <1>6
<1> QED BY <1>4, <1>7

LEMMA SeqInduct ==
    ASSUME NEW X, NEW T, <<>> \in T, \A s \in Seq(X), x \in X : s \in T => Append(s, x) \in T
    PROVE  Seq(X) \subseteq T
<1> DEFINE U == {n \in Nat : \A s \in Seq(X) : Len(s) = n => s \in T}
<1>1. 0 \in U BY EmptySeq
<1>2. ASSUME NEW n \in Nat, n \in U PROVE n + 1 \in U
  <2> SUFFICES ASSUME NEW s \in Seq(X), Len(s) = n + 1 PROVE s \in T OBVIOUS
  <2>1. s # <<>> BY EmptySeq
  <2>2. PICK r \in Seq(X), x \in X : s = Append(r, x) BY <2>1, SequenceEmptyOrAppend
  <2>3. Len(r) \in Nat /\ Len(s) = Len(r) + 1 BY <2>2, LenProperties, AppendProperties
  <2>4. Len(r) = n BY <2>3
  <2> QED BY <1>2, <2>2, <2>4
<1> HIDE DEF U
<1>3. Nat \subseteq U BY <1>1, <1>2, NatInduct
<1> QED BY <1>3, LenProperties DEF U

(* A recursion along 1..N has one solution.                                *)
Solves(f, N, base, G) ==
    /\ f[0] = base
    /\ \A n \in 1..N : f[n] = G[<<n, f[n - 1]>>]

LEMMA Recursion ==
    ASSUME NEW N \in Nat, NEW D, NEW base \in D, NEW G \in [(1..N) \X D -> D]
    PROVE  \E f \in [0..N -> D] : Solves(f, N, base, G)
<1> DEFINE T == {n \in Nat : n <= N => \E f \in [0..n -> D] : Solves(f, n, base, G)}
<1>1. 0 \in T
  <2>1. [i \in 0..0 |-> base] \in [0..0 -> D] /\ Solves([i \in 0..0 |-> base], 0, base, G)
    BY DEF Solves
  <2> QED BY <2>1
<1>2. ASSUME NEW n \in Nat, n \in T PROVE n + 1 \in T
  <2> SUFFICES ASSUME n + 1 <= N PROVE \E f \in [0..(n + 1) -> D] : Solves(f, n + 1, base, G)
    OBVIOUS
  <2>1. PICK g \in [0..n -> D] : Solves(g, n, base, G) BY <1>2
  <2>2. n + 1 \in 1..N /\ g[n] \in D /\ G[<<n + 1, g[n]>>] \in D
    <3>1. n + 1 \in 1..N /\ g[n] \in D OBVIOUS
    <3> QED BY <3>1
  <2> DEFINE f == [i \in 0..(n + 1) |-> IF i = n + 1 THEN G[<<n + 1, g[n]>>] ELSE g[i]]
  <2>3. f \in [0..(n + 1) -> D] BY <2>2
  <2>4. \A i \in 0..n : f[i] = g[i] OBVIOUS
  <2>5. f[n + 1] = G[<<n + 1, g[n]>>] OBVIOUS
  <2> HIDE DEF f
  <2>6. ASSUME NEW k \in 1..(n + 1) PROVE f[k] = G[<<k, f[k - 1]>>]
    <3>1. k - 1 \in 0..n /\ (k \in 1..n \/ k = n + 1) OBVIOUS
    <3>2. CASE k \in 1..n BY <2>1, <2>4, <3>1, <3>2 DEF Solves
    <3>3. CASE k = n + 1
      <4>1. k - 1 = n BY <3>3
      <4> QED BY <2>4, <2>5, <3>1, <3>3, <4>1
    <3> QED BY <3>1, <3>2, <3>3
  <2>7. f[0] = base BY <2>1, <2>4 DEF Solves
  <2> QED BY <2>3, <2>6, <2>7 DEF Solves
<1> HIDE DEF T
<1>3. Nat \subseteq T BY <1>1, <1>2, NatInduct
<1> QED BY <1>3 DEF T

LEMMA OneSolution ==
    ASSUME NEW N \in Nat, NEW base, NEW G, NEW f, NEW g, Solves(f, N, base, G), Solves(g, N, base, G)
    PROVE  \A n \in 0..N : f[n] = g[n]
<1> DEFINE T == {n \in Nat : n <= N => f[n] = g[n]}
<1>1. 0 \in T BY DEF Solves
<1>2. ASSUME NEW n \in Nat, n \in T PROVE n + 1 \in T
  <2> SUFFICES ASSUME n + 1 <= N PROVE f[n + 1] = g[n + 1] OBVIOUS
  <2>1. n + 1 \in 1..N /\ (n + 1) - 1 = n OBVIOUS
  <2>2. f[n + 1] = G[<<n + 1, f[n]>>] /\ g[n + 1] = G[<<n + 1, g[n]>>] BY <2>1 DEF Solves
  <2>3. f[n] = g[n] BY <1>2, <2>1
  <2> QED BY <2>2, <2>3
<1> HIDE DEF T
<1>3. Nat \subseteq T BY <1>1, <1>2, NatInduct
<1> QED BY <1>3 DEF T

-----------------------------------------------------------------------------
KeepStep(q, S, X) ==
    [p \in (1..Len(q)) \X Seq(X) |-> IF q[p[1]] \in S THEN Append(p[2], q[p[1]]) ELSE p[2]]

LEMMA KeepStepType ==
    ASSUME NEW X, NEW q \in Seq(X), NEW S
    PROVE  KeepStep(q, S, X) \in [(1..Len(q)) \X Seq(X) -> Seq(X)]
<1>1. ASSUME NEW p \in (1..Len(q)) \X Seq(X)
      PROVE  (IF q[p[1]] \in S THEN Append(p[2], q[p[1]]) ELSE p[2]) \in Seq(X)
  <2>1. q[p[1]] \in X /\ p[2] \in Seq(X) BY ElementOfSeq
  <2> QED BY <2>1, AppendProperties
<1> QED BY <1>1 DEF KeepStep

(* Keep is the value at Len(q) of any solution of its recursion.           *)
LEMMA KeepIs ==
    ASSUME NEW X, NEW q \in Seq(X), NEW S
    PROVE  \E f \in [0..Len(q) -> Seq(X)] :
              Solves(f, Len(q), <<>>, KeepStep(q, S, X)) /\ Keep(q, S) = f[Len(q)]
<1> DEFINE N == Len(q)
           G == KeepStep(q, S, X)
           body(f) == [n \in 0..N |-> IF n = 0 THEN <<>>
                          ELSE IF q[n] \in S THEN Append(f[n - 1], q[n]) ELSE f[n - 1]]
           k == CHOOSE f : f = body(f)
<1>1. N \in Nat BY LenProperties
<1>2. PICK f \in [0..N -> Seq(X)] : Solves(f, N, <<>>, G)
  <2>1. <<>> \in Seq(X) BY EmptySeq
  <2>2. G \in [(1..N) \X Seq(X) -> Seq(X)] BY KeepStepType
  <2> HIDE DEF G
  <2> QED BY <1>1, <2>1, <2>2, Recursion
<1>3. f = body(f)
  <2>1. ASSUME NEW n \in 0..N PROVE f[n] = body(f)[n]
    <3>1. CASE n = 0 BY <1>2, <3>1 DEF Solves
    <3>2. CASE n # 0
      <4>1. n \in 1..N /\ n - 1 \in 0..N BY <1>1, <3>2
      <4>2. f[n] = G[<<n, f[n - 1]>>] BY <1>2, <4>1 DEF Solves
      <4>3. f[n - 1] \in Seq(X) BY <4>1
      <4>4. <<n, f[n - 1]>> \in (1..N) \X Seq(X) BY <4>1, <4>3
      <4>5. G[<<n, f[n - 1]>>] = IF q[n] \in S THEN Append(f[n - 1], q[n]) ELSE f[n - 1]
        BY <4>4 DEF KeepStep
      <4> QED BY <3>2, <4>2, <4>5
    <3> QED BY <3>1, <3>2
  <2>2. DOMAIN f = 0..N /\ f = [n \in 0..N |-> f[n]] OBVIOUS
  <2> QED BY <2>1, <2>2
<1>4. k = body(k) BY <1>3
<1>5. Keep(q, S) = k[N] BY DEF Keep
<1> HIDE DEF k
<1> DEFINE T == {n \in Nat : n <= N => k[n] = f[n]}
<1>6. 0 \in T
  <2>1. k[0] = <<>> BY <1>1, <1>4
  <2> QED BY <1>2, <2>1 DEF Solves
<1>7. ASSUME NEW n \in Nat, n \in T PROVE n + 1 \in T
  <2> SUFFICES ASSUME n + 1 <= N PROVE k[n + 1] = f[n + 1] OBVIOUS
  <2>1. n + 1 \in 0..N /\ n + 1 # 0 /\ (n + 1) - 1 = n BY <1>1
  <2>2. k[n + 1] = IF q[n + 1] \in S THEN Append(k[n], q[n + 1]) ELSE k[n] BY <1>4, <2>1
  <2>3. f[n + 1] = IF q[n + 1] \in S THEN Append(f[n], q[n + 1]) ELSE f[n] BY <1>3, <2>1
  <2>4. k[n] = f[n] BY <1>1, <1>7
  <2> QED BY <2>2, <2>3, <2>4
<1> HIDE DEF T
<1>8. Nat \subseteq T BY <1>6, <1>7, NatInduct
<1>9. k[N] = f[N] BY <1>1, <1>8 DEF T
<1> QED BY <1>2, <1>5, <1>9

LEMMA KeepType ==
    ASSUME NEW X, NEW q \in Seq(X), NEW S
    PROVE  Keep(q, S) \in Seq(X)
BY KeepIs, LenProperties

LEMMA KeepEmpty == ASSUME NEW S PROVE Keep(<<>>, S) = <<>>
<1>1. <<>> \in Seq({}) /\ Len(<<>>) = 0 BY EmptySeq
<1>2. PICK f \in [0..0 -> Seq({})] : Solves(f, 0, <<>>, KeepStep(<<>>, S, {})) /\ Keep(<<>>, S) = f[0]
  BY <1>1, KeepIs
<1> QED BY <1>2 DEF Solves

LEMMA KeepAppend ==
    ASSUME NEW X, NEW q \in Seq(X), NEW x \in X, NEW S
    PROVE  Keep(Append(q, x), S) = IF x \in S THEN Append(Keep(q, S), x) ELSE Keep(q, S)
<1> DEFINE r == Append(q, x)
           N == Len(q)
           G == KeepStep(q, S, X)
           H == KeepStep(r, S, X)
<1>1. /\ N \in Nat /\ r \in Seq(X) /\ Len(r) = N + 1 /\ r[N + 1] = x
      /\ \A i \in 1..N : r[i] = q[i]
  BY LenProperties, AppendProperties
<1>2. PICK f \in [0..N -> Seq(X)] : Solves(f, N, <<>>, G) /\ Keep(q, S) = f[N] BY KeepIs
<1>3. PICK g \in [0..(N + 1) -> Seq(X)] : Solves(g, N + 1, <<>>, H) /\ Keep(r, S) = g[N + 1]
  BY <1>1, KeepIs
<1>4. \A n \in 1..(N + 1), s \in Seq(X) : H[<<n, s>>] = IF r[n] \in S THEN Append(s, r[n]) ELSE s
  BY <1>1 DEF KeepStep
<1>5. \A n \in 1..N, s \in Seq(X) : G[<<n, s>>] = IF q[n] \in S THEN Append(s, q[n]) ELSE s
  BY DEF KeepStep
<1> HIDE DEF G, H, r
<1>6. ASSUME NEW n \in 1..N PROVE g[n] = G[<<n, g[n - 1]>>]
  <2>1. n \in 1..(N + 1) /\ n - 1 \in 0..(N + 1) BY <1>1
  <2>2. g[n - 1] \in Seq(X) /\ g[n] = H[<<n, g[n - 1]>>] BY <1>3, <2>1 DEF Solves
  <2>3. r[n] = q[n] BY <1>1
  <2>4. H[<<n, g[n - 1]>>] = IF q[n] \in S THEN Append(g[n - 1], q[n]) ELSE g[n - 1]
    BY <1>4, <2>1, <2>2, <2>3
  <2>5. G[<<n, g[n - 1]>>] = IF q[n] \in S THEN Append(g[n - 1], q[n]) ELSE g[n - 1]
    BY <1>5, <2>2
  <2> QED BY <2>2, <2>4, <2>5
<1>7. Solves(g, N, <<>>, G) BY <1>3, <1>6 DEF Solves
<1>8. g[N] = f[N] BY <1>1, <1>2, <1>7, OneSolution
<1>9. g[N + 1] = IF x \in S THEN Append(g[N], x) ELSE g[N]
  <2>1. N + 1 \in 1..(N + 1) /\ (N + 1) - 1 = N /\ g[N] \in Seq(X) BY <1>1
  <2>2. g[N + 1] = H[<<N + 1, g[N]>>] BY <1>3, <2>1 DEF Solves
  <2> QED BY <1>1, <1>4, <2>1, <2>2
<1>10. Keep(r, S) = IF x \in S THEN Append(Keep(q, S), x) ELSE Keep(q, S) BY <1>2, <1>3, <1>8, <1>9
<1> QED BY <1>10 DEF r

(* What is kept was there, is wanted, and stays in order without being     *)
(* repeated.                                                               *)
LEMMA KeepMembers ==
    ASSUME NEW X, NEW q \in Seq(X), NEW S
    PROVE  \A i \in 1..Len(Keep(q, S)) :
              Keep(q, S)[i] \in S /\ \E j \in 1..Len(q) : q[j] = Keep(q, S)[i]
<1> DEFINE P(s) == \A i \in 1..Len(Keep(s, S)) :
                      Keep(s, S)[i] \in S /\ \E j \in 1..Len(s) : s[j] = Keep(s, S)[i]
           T == {s \in Seq(X) : P(s)}
<1>1. <<>> \in T
  <2>1. Len(<<>>) = 0 /\ <<>> \in Seq(X) BY EmptySeq
  <2> QED BY <2>1, KeepEmpty
<1>2. ASSUME NEW s \in Seq(X), NEW x \in X, s \in T PROVE Append(s, x) \in T
  <2> DEFINE r == Append(s, x)
             k == Keep(s, S)
  <2>1. /\ r \in Seq(X) /\ Len(s) \in Nat /\ Len(r) = Len(s) + 1 /\ r[Len(s) + 1] = x
        /\ \A i \in 1..Len(s) : r[i] = s[i]
    BY LenProperties, AppendProperties
  <2>2. k \in Seq(X) /\ Len(k) \in Nat BY KeepType, LenProperties
  <2>3. \A i \in 1..Len(k) : k[i] \in S /\ \E j \in 1..Len(r) : r[j] = k[i]
    BY <1>2, <2>1
  <2>4. CASE x \notin S
    <3>1. Keep(r, S) = k BY <2>4, KeepAppend
    <3> QED BY <2>1, <2>3, <3>1
  <2>5. CASE x \in S
    <3>1. Keep(r, S) = Append(k, x) BY <2>5, KeepAppend
    <3>2. /\ Len(Append(k, x)) = Len(k) + 1 /\ Append(k, x)[Len(k) + 1] = x
          /\ \A i \in 1..Len(k) : Append(k, x)[i] = k[i]
      BY <2>2, AppendProperties
    <3> HIDE DEF k, r
    <3>3. ASSUME NEW i \in 1..Len(Append(k, x))
          PROVE  Append(k, x)[i] \in S /\ \E j \in 1..Len(r) : r[j] = Append(k, x)[i]
      <4>1. CASE i \in 1..Len(k) BY <2>3, <3>2, <4>1
      <4>2. CASE i = Len(k) + 1
        <5>1. Len(r) \in 1..Len(r) /\ r[Len(r)] = x BY <2>1
        <5> QED BY <2>5, <3>2, <4>2, <5>1
      <4> QED BY <2>2, <3>2, <4>1, <4>2
    <3>4. P(r) BY <3>1, <3>3
    <3> QED BY <2>1, <3>4 DEF r
  <2> QED BY <2>4, <2>5
<1> HIDE DEF T
<1>3. Seq(X) \subseteq T BY <1>1, <1>2, SeqInduct
<1> QED BY <1>3 DEF T

LEMMA KeepHas ==
    ASSUME NEW X, NEW q \in Seq(X), NEW S
    PROVE  \A j \in 1..Len(q) : q[j] \in S => \E i \in 1..Len(Keep(q, S)) : Keep(q, S)[i] = q[j]
<1> DEFINE H(s, k) == \A j \in 1..Len(s) : s[j] \in S => \E i \in 1..Len(k) : k[i] = s[j]
           T == {s \in Seq(X) : H(s, Keep(s, S))}
<1>1. <<>> \in T
  <2>1. Len(<<>>) = 0 /\ <<>> \in Seq(X) BY EmptySeq
  <2> QED BY <2>1
<1>2. ASSUME NEW s \in Seq(X), NEW x \in X, s \in T PROVE Append(s, x) \in T
  <2> DEFINE r == Append(s, x)
             k == Keep(s, S)
             e == Keep(r, S)
  <2>1. /\ r \in Seq(X) /\ Len(s) \in Nat /\ Len(r) = Len(s) + 1 /\ r[Len(s) + 1] = x
        /\ \A i \in 1..Len(s) : r[i] = s[i]
    BY LenProperties, AppendProperties
  <2>2. k \in Seq(X) /\ Len(k) \in Nat BY KeepType, LenProperties
  <2>3. H(s, k) BY <1>2
  <2>4. e = IF x \in S THEN Append(k, x) ELSE k BY KeepAppend
  <2>5. /\ Len(Append(k, x)) = Len(k) + 1 /\ Append(k, x)[Len(k) + 1] = x
        /\ \A i \in 1..Len(k) : Append(k, x)[i] = k[i]
    BY <2>2, AppendProperties
  <2> HIDE DEF r, k, e
  <2>6. \A i \in 1..Len(k) : i \in 1..Len(e) /\ e[i] = k[i] BY <2>2, <2>4, <2>5
  <2>7. x \in S => Len(e) \in 1..Len(e) /\ e[Len(e)] = x BY <2>2, <2>4, <2>5
  <2>8. ASSUME NEW j \in 1..Len(r), r[j] \in S PROVE \E i \in 1..Len(e) : e[i] = r[j]
    <3>1. CASE j \in 1..Len(s)
      <4>1. r[j] = s[j] BY <2>1, <3>1
      <4>2. PICK i \in 1..Len(k) : k[i] = s[j] BY <2>3, <2>8, <3>1, <4>1
      <4> QED BY <2>6, <4>1, <4>2
    <3>2. CASE j = Len(s) + 1
      <4>1. r[j] = x BY <2>1, <3>2
      <4> QED BY <2>7, <2>8, <4>1
    <3> QED BY <2>1, <3>1, <3>2
  <2>9. H(r, e) BY <2>8
  <2> QED BY <2>1, <2>9 DEF r, e
<1> HIDE DEF T
<1>3. Seq(X) \subseteq T BY <1>1, <1>2, SeqInduct
<1> QED BY <1>3 DEF T

LEMMA KeepDistinct ==
    ASSUME NEW X, NEW q \in Seq(X), NEW S, \A i, j \in 1..Len(q) : q[i] = q[j] => i = j
    PROVE  \A i, j \in 1..Len(Keep(q, S)) : Keep(q, S)[i] = Keep(q, S)[j] => i = j
<1> DEFINE D(s) == \A i, j \in 1..Len(s) : s[i] = s[j] => i = j
           T == {s \in Seq(X) : D(s) => D(Keep(s, S))}
<1>1. <<>> \in T
  <2>1. Len(<<>>) = 0 /\ <<>> \in Seq(X) BY EmptySeq
  <2> QED BY <2>1, KeepEmpty
<1>2. ASSUME NEW s \in Seq(X), NEW x \in X, s \in T PROVE Append(s, x) \in T
  <2> DEFINE r == Append(s, x)
             k == Keep(s, S)
  <2>1. /\ r \in Seq(X) /\ Len(s) \in Nat /\ Len(r) = Len(s) + 1 /\ r[Len(s) + 1] = x
        /\ \A i \in 1..Len(s) : r[i] = s[i]
    BY LenProperties, AppendProperties
  <2>2. k \in Seq(X) /\ Len(k) \in Nat BY KeepType, LenProperties
  <2>m. \A i \in 1..Len(k) : \E j \in 1..Len(s) : s[j] = k[i] BY KeepMembers
  <2> HIDE DEF k, r
  <2> SUFFICES ASSUME D(r) PROVE D(Keep(r, S)) BY <2>1 DEF r
  <2>3. D(s) BY <2>1
  <2>4. D(k) BY <1>2, <2>3 DEF k
  <2>5. CASE x \notin S
    <3>1. Keep(r, S) = k BY <2>5, KeepAppend DEF k, r
    <3> QED BY <2>4, <3>1
  <2>6. CASE x \in S
    <3>1. Keep(r, S) = Append(k, x) BY <2>6, KeepAppend DEF k, r
    <3>2. /\ Len(Append(k, x)) = Len(k) + 1 /\ Append(k, x)[Len(k) + 1] = x
          /\ \A i \in 1..Len(k) : Append(k, x)[i] = k[i]
      BY <2>2, AppendProperties
    <3>3. \A i \in 1..Len(k) : k[i] # x
      <4> SUFFICES ASSUME NEW i \in 1..Len(k), k[i] = x PROVE FALSE OBVIOUS
      <4>1. PICK j \in 1..Len(s) : s[j] = x BY <2>m
      <4>2. j \in 1..Len(r) /\ Len(s) + 1 \in 1..Len(r) /\ r[j] = r[Len(s) + 1] /\ j # Len(s) + 1
        BY <2>1, <4>1
      <4> QED BY <4>2
    <3>4. ASSUME NEW i \in 1..(Len(k) + 1), NEW j \in 1..(Len(k) + 1), Append(k, x)[i] = Append(k, x)[j]
          PROVE  i = j
      <4>1. CASE i \in 1..Len(k) /\ j \in 1..Len(k) BY <2>4, <3>2, <3>4, <4>1
      <4>2. CASE i = Len(k) + 1 /\ j \in 1..Len(k) BY <3>2, <3>3, <3>4, <4>2
      <4>3. CASE i \in 1..Len(k) /\ j = Len(k) + 1 BY <3>2, <3>3, <3>4, <4>3
      <4> QED BY <2>2, <4>1, <4>2, <4>3
    <3> QED BY <3>1, <3>2, <3>4
  <2> QED BY <2>5, <2>6
<1> HIDE DEF T
<1>3. Seq(X) \subseteq T BY <1>1, <1>2, SeqInduct
<1> QED BY <1>3 DEF T

(* Only what S says of the elements of the sequence matters.               *)
LEMMA KeepSame ==
    ASSUME NEW X, NEW q \in Seq(X), NEW S, NEW R, \A i \in 1..Len(q) : q[i] \in S <=> q[i] \in R
    PROVE  Keep(q, S) = Keep(q, R)
<1> DEFINE A(s) == \A i \in 1..Len(s) : s[i] \in S <=> s[i] \in R
           T == {s \in Seq(X) : A(s) => Keep(s, S) = Keep(s, R)}
<1>1. <<>> \in T
  <2>1. <<>> \in Seq(X) BY EmptySeq
  <2> QED BY <2>1, KeepEmpty
<1>2. ASSUME NEW s \in Seq(X), NEW x \in X, s \in T PROVE Append(s, x) \in T
  <2> DEFINE r == Append(s, x)
  <2>1. /\ r \in Seq(X) /\ Len(s) \in Nat /\ Len(r) = Len(s) + 1 /\ r[Len(s) + 1] = x
        /\ \A i \in 1..Len(s) : r[i] = s[i]
    BY LenProperties, AppendProperties
  <2> SUFFICES ASSUME A(r) PROVE Keep(r, S) = Keep(r, R) BY <2>1
  <2>2. A(s) /\ (x \in S <=> x \in R)
    <3> HIDE DEF r
    <3> QED BY <2>1
  <2>3. Keep(s, S) = Keep(s, R) BY <1>2, <2>2
  <2>4. Keep(r, S) = IF x \in S THEN Append(Keep(s, S), x) ELSE Keep(s, S) BY KeepAppend
  <2>5. Keep(r, R) = IF x \in R THEN Append(Keep(s, R), x) ELSE Keep(s, R) BY KeepAppend
  <2> HIDE DEF r
  <2> QED BY <2>2, <2>3, <2>4, <2>5
<1> HIDE DEF T
<1>3. Seq(X) \subseteq T BY <1>1, <1>2, SeqInduct
<1> QED BY <1>3 DEF T

LEMMA KeepKeep ==
    ASSUME NEW X, NEW q \in Seq(X), NEW S, NEW R
    PROVE  Keep(Keep(q, S), R) = Keep(q, S \cap R)
<1> DEFINE T == {s \in Seq(X) : Keep(Keep(s, S), R) = Keep(s, S \cap R)}
<1>1. <<>> \in T
  <2>1. <<>> \in Seq(X) BY EmptySeq
  <2>2. Keep(<<>>, S) = <<>> /\ Keep(<<>>, R) = <<>> /\ Keep(<<>>, S \cap R) = <<>> BY KeepEmpty
  <2> QED BY <2>1, <2>2
<1>2. ASSUME NEW s \in Seq(X), NEW x \in X, s \in T PROVE Append(s, x) \in T
  <2>1. Keep(s, S) \in Seq(X) /\ Append(s, x) \in Seq(X) BY KeepType, AppendProperties
  <2>2. Keep(Append(s, x), S) = IF x \in S THEN Append(Keep(s, S), x) ELSE Keep(s, S)
    BY KeepAppend
  <2>3. Keep(Append(s, x), S \cap R)
          = IF x \in S \cap R THEN Append(Keep(s, S \cap R), x) ELSE Keep(s, S \cap R)
    BY KeepAppend
  <2>4. Keep(Append(Keep(s, S), x), R)
          = IF x \in R THEN Append(Keep(Keep(s, S), R), x) ELSE Keep(Keep(s, S), R)
    BY <2>1, KeepAppend
  <2>5. Keep(Keep(s, S), R) = Keep(s, S \cap R) BY <1>2
  <2>6. Keep(Keep(Append(s, x), S), R) = Keep(Append(s, x), S \cap R)
    <3>1. CASE x \in S \cap R BY <2>2, <2>3, <2>4, <2>5, <3>1
    <3>2. CASE x \in S \ R BY <2>2, <2>3, <2>4, <2>5, <3>2
    <3>3. CASE x \notin S BY <2>2, <2>3, <2>5, <3>3
    <3> QED BY <3>1, <3>2, <3>3
  <2> QED BY <2>1, <2>6
<1> HIDE DEF T
<1>3. Seq(X) \subseteq T BY <1>1, <1>2, SeqInduct
<1> QED BY <1>3 DEF T

LEMMA KeepConcat ==
    ASSUME NEW X, NEW q \in Seq(X), NEW r \in Seq(X), NEW S
    PROVE  Keep(q \o r, S) = Keep(q, S) \o Keep(r, S)
<1> DEFINE T == {s \in Seq(X) : Keep(q \o s, S) = Keep(q, S) \o Keep(s, S)}
<1>0. Keep(q, S) \in Seq(X) BY KeepType
<1>1. <<>> \in T
  <2>1. <<>> \in Seq(X) BY EmptySeq
  <2>2. q \o <<>> = q /\ Keep(q, S) \o <<>> = Keep(q, S) BY <1>0, ConcatEmptySeq
  <2> QED BY <2>1, <2>2, KeepEmpty
<1>2. ASSUME NEW s \in Seq(X), NEW x \in X, s \in T PROVE Append(s, x) \in T
  <2>1. Keep(s, S) \in Seq(X) /\ Append(s, x) \in Seq(X) /\ q \o s \in Seq(X) /\ <<x>> \in Seq(X)
    <3>1. <<x>> \in Seq(X) OBVIOUS
    <3> QED BY <3>1, KeepType, AppendProperties, ConcatProperties
  <2>2. q \o Append(s, x) = Append(q \o s, x)
    <3>1. Append(s, x) = s \o <<x>> BY AppendIsConcat
    <3>2. Append(q \o s, x) = (q \o s) \o <<x>> BY <2>1, AppendIsConcat
    <3>3. (q \o s) \o <<x>> = q \o (s \o <<x>>) BY <2>1, ConcatAssociative
    <3> QED BY <3>1, <3>2, <3>3
  <2>3. Keep(Append(q \o s, x), S) = IF x \in S THEN Append(Keep(q \o s, S), x) ELSE Keep(q \o s, S)
    BY <2>1, KeepAppend
  <2>4. Keep(Append(s, x), S) = IF x \in S THEN Append(Keep(s, S), x) ELSE Keep(s, S)
    BY KeepAppend
  <2>5. Keep(q, S) \o Append(Keep(s, S), x) = Append(Keep(q, S) \o Keep(s, S), x)
    <3> DEFINE a == Keep(q, S)
               b == Keep(s, S)
    <3>0. a \in Seq(X) /\ b \in Seq(X) /\ a \o b \in Seq(X) BY <1>0, <2>1, ConcatProperties
    <3> HIDE DEF a, b
    <3>1. Append(b, x) = b \o <<x>> BY <3>0, AppendIsConcat
    <3>2. Append(a \o b, x) = (a \o b) \o <<x>> BY <3>0, AppendIsConcat
    <3>3. (a \o b) \o <<x>> = a \o (b \o <<x>>) BY <2>1, <3>0, ConcatAssociative
    <3>4. a \o Append(b, x) = Append(a \o b, x) BY <3>1, <3>2, <3>3
    <3> QED BY <3>4 DEF a, b
  <2>6. Keep(q \o s, S) = Keep(q, S) \o Keep(s, S) BY <1>2
  <2> QED BY <2>1, <2>2, <2>3, <2>4, <2>5, <2>6
<1> HIDE DEF T
<1>3. Seq(X) \subseteq T BY <1>1, <1>2, SeqInduct
<1> QED BY <1>3 DEF T

LEMMA KeepOne ==
    ASSUME NEW x, NEW S PROVE Keep(<<x>>, S) = IF x \in S THEN <<x>> ELSE <<>>
<1>1. \A X : x \in X => Keep(Append(<<>>, x), S) = IF x \in S THEN Append(Keep(<<>>, S), x)
                                                           ELSE Keep(<<>>, S)
  BY EmptySeq, KeepAppend
<1>2. Append(<<>>, x) = <<x>> OBVIOUS
<1>3. x \in {x} OBVIOUS
<1> QED BY <1>1, <1>2, <1>3, KeepEmpty

LEMMA Retype ==
    ASSUME NEW X, NEW q \in Seq(X), NEW Y, \A i \in 1..Len(q) : q[i] \in Y
    PROVE  q \in Seq(Y)
<1>1. Len(q) \in Nat /\ q \in [1..Len(q) -> X] BY LenProperties
<1>2. q \in [1..Len(q) -> Y] BY <1>1
<1> QED BY <1>1, <1>2, SeqDef

LEMMA KeepIn ==
    ASSUME NEW X, NEW q \in Seq(X), NEW S
    PROVE  Keep(q, S) \in Seq(X \cap S)
<1> DEFINE k == Keep(q, S)
<1>1. k \in Seq(X) /\ \A i \in 1..Len(k) : k[i] \in S BY KeepType, KeepMembers
<1> HIDE DEF k
<1>2. \A i \in 1..Len(k) : k[i] \in X \cap S BY <1>1, ElementOfSeq
<1>3. k \in Seq(X \cap S) BY <1>1, <1>2, Retype
<1> QED BY <1>3 DEF k

LEMMA KeepNone ==
    ASSUME NEW X, NEW q \in Seq(X), NEW S, \A i \in 1..Len(q) : q[i] \notin S
    PROVE  Keep(q, S) = <<>>
<1> DEFINE k == Keep(q, S)
<1>1. k \in Seq(X) /\ \A i \in 1..Len(k) : k[i] \in S /\ \E j \in 1..Len(q) : q[j] = k[i]
  BY KeepType, KeepMembers
<1> HIDE DEF k
<1>2. ~ 1 \in 1..Len(k) BY <1>1
<1>3. k = <<>>
  <2>1. Len(k) \in Nat /\ (k # <<>> => Len(k) \in Nat \ {0}) BY <1>1, LenProperties, EmptySeq
  <2> QED BY <1>2, <2>1
<1> QED BY <1>3 DEF k

LEMMA KeepAll ==
    ASSUME NEW X, NEW q \in Seq(X), NEW S, \A i \in 1..Len(q) : q[i] \in S
    PROVE  Keep(q, S) = q
<1> DEFINE T == {s \in Seq(X) : Keep(s, X) = s}
<1>1. <<>> \in T
  <2>1. <<>> \in Seq(X) BY EmptySeq
  <2> QED BY <2>1, KeepEmpty
<1>2. ASSUME NEW s \in Seq(X), NEW x \in X, s \in T PROVE Append(s, x) \in T
  <2>1. Append(s, x) \in Seq(X) BY AppendProperties
  <2>2. Keep(Append(s, x), X) = IF x \in X THEN Append(Keep(s, X), x) ELSE Keep(s, X) BY KeepAppend
  <2> QED BY <1>2, <2>1, <2>2
<1> HIDE DEF T
<1>3. Seq(X) \subseteq T BY <1>1, <1>2, SeqInduct
<1>4. Keep(q, X) = q BY <1>3 DEF T
<1>5. \A i \in 1..Len(q) : q[i] \in S <=> q[i] \in X BY ElementOfSeq
<1>6. Keep(q, S) = Keep(q, X) BY <1>5, KeepSame
<1> QED BY <1>4, <1>6

(* Elements stand in the order they have in the sequence.                  *)
LEMMA KeepOrder ==
    ASSUME NEW X, NEW q \in Seq(X), NEW S
    PROVE  \A i, j \in 1..Len(Keep(q, S)) : i < j =>
              \E a, b \in 1..Len(q) : a < b /\ q[a] = Keep(q, S)[i] /\ q[b] = Keep(q, S)[j]
<1> DEFINE O(k, s) == \A i, j \in 1..Len(k) : i < j =>
                         \E a, b \in 1..Len(s) : a < b /\ s[a] = k[i] /\ s[b] = k[j]
           T == {s \in Seq(X) : O(Keep(s, S), s)}
<1>1. <<>> \in T
  <2>1. Len(<<>>) = 0 /\ <<>> \in Seq(X) BY EmptySeq
  <2> QED BY <2>1, KeepEmpty
<1>2. ASSUME NEW s \in Seq(X), NEW x \in X, s \in T PROVE Append(s, x) \in T
  <2> DEFINE r == Append(s, x)
             k == Keep(s, S)
  <2>1. /\ r \in Seq(X) /\ Len(s) \in Nat /\ Len(r) = Len(s) + 1 /\ r[Len(s) + 1] = x
        /\ \A i \in 1..Len(s) : r[i] = s[i]
    BY LenProperties, AppendProperties
  <2>2. k \in Seq(X) /\ Len(k) \in Nat BY KeepType, LenProperties
  <2>3. \A i \in 1..Len(k) : \E j \in 1..Len(s) : s[j] = k[i] BY KeepMembers
  <2>4. O(k, s) BY <1>2
  <2>5. Keep(r, S) = k \/ Keep(r, S) = Append(k, x) BY KeepAppend
  <2> HIDE DEF k, r
  <2>6. ASSUME NEW i \in 1..Len(k), NEW j \in 1..Len(k), i < j
        PROVE  \E a, b \in 1..Len(r) : a < b /\ r[a] = k[i] /\ r[b] = k[j]
    <3>1. PICK a \in 1..Len(s), b \in 1..Len(s) : a < b /\ s[a] = k[i] /\ s[b] = k[j] BY <2>4, <2>6
    <3>2. a \in 1..Len(r) /\ b \in 1..Len(r) /\ r[a] = s[a] /\ r[b] = s[b] BY <2>1
    <3> QED BY <3>1, <3>2
  <2>7. CASE Keep(r, S) = k
    <3>1. O(Keep(r, S), r) BY <2>6, <2>7
    <3> QED BY <2>1, <3>1 DEF r
  <2>8. CASE Keep(r, S) = Append(k, x)
    <3> DEFINE e == Append(k, x)
    <3>1. /\ Len(e) = Len(k) + 1 /\ e[Len(k) + 1] = x
          /\ \A i \in 1..Len(k) : e[i] = k[i]
      BY <2>2, AppendProperties
    <3> HIDE DEF e
    <3>2. ASSUME NEW i \in 1..Len(e), NEW j \in 1..Len(e), i < j
          PROVE  \E a, b \in 1..Len(r) : a < b /\ r[a] = e[i] /\ r[b] = e[j]
      <4>1. i \in 1..Len(k) /\ (j \in 1..Len(k) \/ j = Len(k) + 1) BY <2>2, <3>1, <3>2
      <4>2. CASE j \in 1..Len(k)
        <5>1. e[i] = k[i] /\ e[j] = k[j] BY <3>1, <4>1, <4>2
        <5>2. PICK a \in 1..Len(r), b \in 1..Len(r) : a < b /\ r[a] = k[i] /\ r[b] = k[j]
          BY <2>6, <3>2, <4>1, <4>2
        <5> QED BY <5>1, <5>2
      <4>3. CASE j = Len(k) + 1
        <5>1. e[i] = k[i] /\ e[j] = x BY <3>1, <4>1, <4>3
        <5>2. PICK a \in 1..Len(s) : s[a] = k[i] BY <2>3, <4>1
        <5>3. a \in 1..Len(r) /\ r[a] = k[i] /\ a < Len(r) /\ Len(r) \in 1..Len(r) /\ r[Len(r)] = x
          BY <2>1, <5>2
        <5>4. r[a] = e[i] /\ r[Len(r)] = e[j] BY <5>1, <5>3
        <5> QED BY <5>3, <5>4
      <4> QED BY <4>1, <4>2, <4>3
    <3>3. O(e, r) BY <3>2
    <3>4. Keep(r, S) = e BY <2>8 DEF e
    <3>5. O(Keep(r, S), r) BY <3>3, <3>4
    <3> QED BY <2>1, <3>5 DEF r
  <2> QED BY <2>5, <2>7, <2>8
<1> HIDE DEF T
<1>3. Seq(X) \subseteq T BY <1>1, <1>2, SeqInduct
<1> QED BY <1>3 DEF T
=============================================================================
