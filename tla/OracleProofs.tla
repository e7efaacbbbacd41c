---------------------------- MODULE OracleProofs -----------------------------
(***************************************************************************)
(* Lemmas about the operators of SqliteExec and of the oracles, for every  *)
(* output: what is cut out of the beginning of an output, what a           *)
(* disagreement says of the rows, and when the bisecting tool sees it.     *)
(***************************************************************************)
EXTENDS SqliteExec, FiniteSetTheorems, NaturalsInduction, WellFoundedInduction, TLAPS

----------------------------------------------------------------------------
(* The k-th occurrence of a mark.                                           *)

(* Every set of naturals has a least element.                               *)
LEMMA LeastNatural ==
  ASSUME NEW T \in SUBSET Nat, T # {}
  PROVE  \E m \in T : \A k \in T : m <= k
<1> DEFINE R == {p \in Nat \X Nat : p[1] < p[2]}
<1>1. IsWellFoundedOn(R, Nat)
  <2>1. OpToRel(<, Nat) = R
    BY DEF OpToRel
  <2> QED BY <2>1, NatLessThanWellFounded
<1>2. ASSUME NEW x \in Nat, NEW y \in Nat, ~ (<<y, x>> \in R) PROVE x <= y
  <2>1. y < x => <<y, x>> \in R
    OBVIOUS
  <2> QED BY <1>2, <2>1
<1> HIDE DEF R
<1>3. PICK x \in T : \A y \in T : ~ (<<y, x>> \in R)
  BY <1>1, WFMin, Zenon
<1>4. x \in Nat /\ \A y \in T : y \in Nat
  OBVIOUS
<1>5. ASSUME NEW y \in T PROVE x <= y
  BY <1>2, <1>3, <1>4, Zenon
<1> QED BY <1>5

(* The elements of S up to p, whose number is the rank of p.                *)
UpToIn(S, p) == {j \in S : j <= p}

(* A set of positions is finite, and no part of it is larger.               *)
LEMMA FiniteInterval ==
  ASSUME NEW n \in Nat, NEW S \in SUBSET (1..n)
  PROVE  IsFiniteSet(S) /\ Cardinality(S) \in Nat
<1>1. IsFiniteSet(1..n)
  BY FS_Interval
<1>2. IsFiniteSet(S)
  BY <1>1, FS_Subset
<1> QED BY <1>2, FS_CardinalityType

(* There is an element of every rank.                                       *)
LEMMA RankExists ==
  ASSUME NEW n \in Nat, NEW S \in SUBSET (1..n), NEW k \in 1..Cardinality(S)
  PROVE  \E p \in S : Cardinality(UpToIn(S, p)) = k
<1>0. /\ \A j \in S : j \in Nat /\ 1 <= j /\ j <= n
      /\ k \in Nat /\ 1 <= k
  OBVIOUS
<1>1. IsFiniteSet(S) /\ Cardinality(S) \in Nat
  BY FiniteInterval
<1>01. k <= Cardinality(S)
  BY <1>1
<1>2. \A m \in Nat : IsFiniteSet(UpToIn(S, m)) /\ Cardinality(UpToIn(S, m)) \in Nat
  <2> TAKE m \in Nat
  <2>1. UpToIn(S, m) \in SUBSET (1..n)
    BY DEF UpToIn
  <2> QED BY <2>1, FiniteInterval
<1> DEFINE T == {m \in Nat : k <= Cardinality(UpToIn(S, m))}
<1>3. n \in T
  <2>1. UpToIn(S, n) = S
    BY <1>0 DEF UpToIn
  <2> QED BY <1>01, <2>1
<1>4. PICK m \in T : \A i \in T : m <= i
  <2> HIDE DEF T
  <2>1. T \in SUBSET Nat
    BY DEF T
  <2> QED BY <1>3, <2>1, LeastNatural
<1>5. m # 0
  <2>0. \A j \in S : ~ (j <= 0)
    BY <1>0
  <2>1. UpToIn(S, 0) = {}
    BY <2>0, Zenon DEF UpToIn
  <2>2. Cardinality(UpToIn(S, 0)) = 0
    BY <2>1, FS_EmptySet
  <2> QED BY <1>0, <1>4, <2>2
<1>6. m - 1 \in Nat /\ ~ (k <= Cardinality(UpToIn(S, m - 1)))
  BY <1>4, <1>5
<1>7. UpToIn(S, m) = IF m \in S THEN UpToIn(S, m - 1) \cup {m} ELSE UpToIn(S, m - 1)
  <2>1. m \in Nat /\ m # 0
    BY <1>4, <1>5
  <2>2. \A j \in S : j <= m <=> j <= m - 1 \/ j = m
    BY <1>0, <2>1
  <2> QED BY <2>2 DEF UpToIn
<1>8. m \in S
  BY <1>4, <1>6, <1>7
<1>9. Cardinality(UpToIn(S, m)) = Cardinality(UpToIn(S, m - 1)) + 1
  <2>1. m \notin UpToIn(S, m - 1)
    BY <1>4, <1>5 DEF UpToIn
  <2> QED BY <1>2, <1>6, <1>7, <1>8, <2>1, FS_AddElement
<1> HIDE DEF T
<1>10. Cardinality(UpToIn(S, m)) = k
  <2>1. k <= Cardinality(UpToIn(S, m))
    BY <1>4 DEF T
  <2> QED BY <1>2, <1>6, <1>9, <2>1
<1> QED BY <1>8, <1>10

(* And one only.                                                            *)
LEMMA RankUnique ==
  ASSUME NEW n \in Nat, NEW S \in SUBSET (1..n), NEW p \in S, NEW q \in S,
         Cardinality(UpToIn(S, p)) = Cardinality(UpToIn(S, q))
  PROVE  p = q
<1>1. ASSUME NEW a \in S, NEW b \in S, a <= b,
             Cardinality(UpToIn(S, a)) = Cardinality(UpToIn(S, b))
      PROVE  a = b
  <2>0. \A j \in S : j \in Nat
    OBVIOUS
  <2>01. \A j \in S : j <= a => j <= b
    BY <1>1, <2>0
  <2>02. UpToIn(S, a) \in SUBSET UpToIn(S, b)
    BY <2>01 DEF UpToIn
  <2>1. UpToIn(S, a) \in SUBSET UpToIn(S, b) /\ UpToIn(S, b) \in SUBSET (1..n)
    BY <2>02 DEF UpToIn
  <2>2. IsFiniteSet(UpToIn(S, b))
    BY <2>1, FiniteInterval
  <2>3. UpToIn(S, a) = UpToIn(S, b)
    BY <1>1, <2>1, <2>2, FS_Subset
  <2>4. b \in UpToIn(S, b)
    BY <2>0 DEF UpToIn
  <2>5. b <= a
    BY <2>3, <2>4 DEF UpToIn
  <2> QED BY <1>1, <2>0, <2>5
<1>2. p <= q \/ q <= p
  OBVIOUS
<1> QED BY <1>1, <1>2

(* Where At finds a mark.                                                   *)
LEMMA AtIsMark ==
  ASSUME NEW out \in Seq(Line), NEW text, NEW k \in 1..Times(out, text)
  PROVE  /\ At(out, text, k) \in Marks(out, text)
         /\ Cardinality(UpToIn(Marks(out, text), At(out, text, k))) = k
         /\ At(out, text, k) \in 1..Len(out)
<1> DEFINE S == Marks(out, text)
<1>1. Len(out) \in Nat /\ S \in SUBSET (1..Len(out))
  BY DEF Marks
<1>2. k \in 1..Cardinality(S)
  BY DEF Times
<1>3. \E p \in S : Cardinality({j \in S : j <= p}) = k
  <2> HIDE DEF S
  <2> QED BY <1>1, <1>2, RankExists DEF UpToIn
<1>4. At(out, text, k) \in S /\ Cardinality({j \in S : j <= At(out, text, k)}) = k
  BY <1>3, Zenon DEF At
<1> QED BY <1>1, <1>4 DEF UpToIn

(* The beginning of an output.                                              *)
LEMMA PrefixFacts ==
  ASSUME NEW out \in Seq(Line), NEW m \in 0..Len(out)
  PROVE  /\ SubSeq(out, 1, m) \in Seq(Line) /\ Len(SubSeq(out, 1, m)) = m
         /\ DOMAIN SubSeq(out, 1, m) = 1..m /\ DOMAIN out = 1..Len(out) /\ Len(out) \in Nat
         /\ \A p \in 1..m : SubSeq(out, 1, m)[p] = out[p]
OBVIOUS

(* In the beginning of an output the marks are those of the whole.          *)
LEMMA AtOfPrefix ==
  ASSUME NEW out \in Seq(Line), NEW m \in 0..Len(out), NEW text
  PROVE  LET pre == SubSeq(out, 1, m) IN
           /\ Times(pre, text) \in Nat /\ Times(out, text) \in Nat
           /\ Times(pre, text) <= Times(out, text)
           /\ \A k \in 1..Times(pre, text) :
                At(pre, text, k) = At(out, text, k) /\ At(pre, text, k) \in 1..m
<1> DEFINE pre == SubSeq(out, 1, m)
           S == Marks(out, text)
           P == Marks(pre, text)
<1>1. /\ P \in SUBSET S /\ S \in SUBSET (1..Len(out)) /\ Len(out) \in Nat
      /\ \A p \in S : p \in P <=> p <= m
      /\ P \in SUBSET (1..m)
  BY PrefixFacts DEF Marks
<1>2. IsFiniteSet(S)
  <2> HIDE DEF S, P
  <2> QED BY <1>1, FiniteInterval
<1>3. Times(pre, text) = Cardinality(P) /\ Times(out, text) = Cardinality(S)
  BY DEF Times
<1>4. /\ Times(pre, text) \in Nat /\ Times(out, text) \in Nat
      /\ Times(pre, text) <= Times(out, text)
  <2> HIDE DEF S, P
  <2>1. IsFiniteSet(P) /\ Cardinality(P) <= Cardinality(S)
    BY <1>1, <1>2, FS_Subset
  <2>2. Cardinality(P) \in Nat /\ Cardinality(S) \in Nat
    BY <1>2, <2>1, FS_CardinalityType
  <2> QED BY <1>3, <2>1, <2>2
<1>5. ASSUME NEW k \in 1..Times(pre, text)
      PROVE  At(pre, text, k) = At(out, text, k) /\ At(pre, text, k) \in 1..m
  <2> DEFINE p == At(pre, text, k)
             r == At(out, text, k)
  <2>1. p \in P /\ Cardinality(UpToIn(P, p)) = k
    BY PrefixFacts, AtIsMark
  <2>2. k \in 1..Times(out, text)
    BY <1>4
  <2>3. r \in S /\ Cardinality(UpToIn(S, r)) = k
    BY <2>2, AtIsMark
  <2> HIDE DEF S, P, p, r, pre
  <2>4. p \in S /\ p \in 1..m
    BY <1>1, <2>1
  <2>5. UpToIn(S, p) = UpToIn(P, p)
    <3>1. \A j \in S : j \in Nat
      BY <1>1
    <3>2. \A j \in S : j <= p => j \in P
      BY <1>1, <2>4, <3>1
    <3> QED BY <1>1, <3>2 DEF UpToIn
  <2>6. p = r
    BY <1>1, <2>1, <2>3, <2>4, <2>5, RankUnique
  <2> QED BY <2>4, <2>6 DEF p, r
<1> QED BY <1>4, <1>5

(* What lies between two marks is a result.                                 *)
LEMMA BetweenIsResult ==
  ASSUME NEW out \in Seq(Line), NEW from \in 1..Len(out), NEW to \in 1..Len(out)
  PROVE  Between(out, from, to) \in Seq(Text)
<1> DEFINE n == IF to - from - 1 < 0 THEN 0 ELSE to - from - 1
           L(k) == out[from + k].text
<1>1. n \in Nat /\ 1..(to - from - 1) = 1..n
  OBVIOUS
<1>2. \A k \in 1..n : L(k) \in Text
  <2> TAKE k \in 1..n
  <2>1. from + k \in 1..Len(out)
    OBVIOUS
  <2>2. out[from + k] \in Line
    BY <2>1
  <2> QED BY <2>2 DEF Line
<1>3. Between(out, from, to) = [k \in 1..n |-> L(k)]
  BY <1>1 DEF Between
<1> HIDE DEF n, L
<1> QED BY <1>1, <1>2, <1>3

(* What Extract returns is a sequence of results.                           *)
LEMMA ExtractType ==
  ASSUME NEW out \in Seq(Line), NEW v
  PROVE  /\ Extract(out, v) \in Seq(Seq(Text))
         /\ DOMAIN Extract(out, v) = Pairs(out, v)
         /\ DOMAIN Extract(out, v) = 1..Len(Extract(out, v)) /\ Len(Extract(out, v)) \in Nat
<1> DEFINE n == IF Times(out, Begin(v)) <= Times(out, End(v))
                THEN Times(out, Begin(v)) ELSE Times(out, End(v))
           R(k) == Between(out, At(out, Begin(v), k), At(out, End(v), k))
           F(k) == IF HasError(R(k)) THEN <<Error>> ELSE R(k)
<1>1. \A text : Times(out, text) \in Nat
  <2> TAKE text
  <2>1. Len(out) \in 0..Len(out)
    OBVIOUS
  <2> QED BY <2>1, AtOfPrefix
<1>2. n \in Nat /\ n <= Times(out, Begin(v)) /\ n <= Times(out, End(v))
  BY <1>1
<1>3. Pairs(out, v) = 1..n /\ Extract(out, v) = [k \in 1..n |-> F(k)]
  BY DEF Pairs, Extract
<1>4. \A k \in 1..n : F(k) \in Seq(Text)
  <2> TAKE k \in 1..n
  <2>1. k \in 1..Times(out, Begin(v)) /\ k \in 1..Times(out, End(v))
    BY <1>1, <1>2
  <2>2. At(out, Begin(v), k) \in 1..Len(out) /\ At(out, End(v), k) \in 1..Len(out)
    BY <2>1, AtIsMark
  <2>3. R(k) \in Seq(Text)
    BY <2>2, BetweenIsResult
  <2>4. Error \in Text
    BY DEF Error, Text
  <2>5. <<Error>> \in Seq(Text)
    BY <2>4
  <2> QED BY <2>3, <2>5
<1> HIDE DEF n, F, R
<1> QED BY <1>2, <1>3, <1>4

(* Of the beginning of an output Extract returns the first results of the   *)
(* whole, each of them complete.                                            *)
LEMMA ExtractOfPrefix ==
  ASSUME NEW out \in Seq(Line), NEW m \in 0..Len(out), NEW v
  PROVE  LET pre == SubSeq(out, 1, m) IN
           /\ DOMAIN Extract(pre, v) \subseteq DOMAIN Extract(out, v)
           /\ \A k \in DOMAIN Extract(pre, v) : Extract(pre, v)[k] = Extract(out, v)[k]
<1> DEFINE pre == SubSeq(out, 1, m)
<1>1. pre \in Seq(Line) /\ \A p \in 1..m : pre[p] = out[p]
  BY PrefixFacts
<1>2. \A text : /\ Times(pre, text) \in Nat /\ Times(out, text) \in Nat
               /\ Times(pre, text) <= Times(out, text)
               /\ \A k \in 1..Times(pre, text) :
                    At(pre, text, k) = At(out, text, k) /\ At(pre, text, k) \in 1..m
  BY AtOfPrefix
<1>3. DOMAIN Extract(pre, v) = Pairs(pre, v) /\ DOMAIN Extract(out, v) = Pairs(out, v)
  BY <1>1, ExtractType
<1> HIDE DEF pre
<1>4. Pairs(pre, v) \subseteq Pairs(out, v)
  BY <1>2 DEF Pairs
<1>5. ASSUME NEW k \in Pairs(pre, v)
      PROVE  Extract(pre, v)[k] = Extract(out, v)[k]
  <2>1. k \in 1..Times(pre, Begin(v)) /\ k \in 1..Times(pre, End(v)) /\ k \in Pairs(out, v)
    BY <1>2, <1>4 DEF Pairs
  <2> DEFINE from == At(pre, Begin(v), k)
             to == At(pre, End(v), k)
  <2>2. /\ from = At(out, Begin(v), k) /\ from \in 1..m
        /\ to = At(out, End(v), k) /\ to \in 1..m
    BY <1>2, <2>1
  <2>3. \A i \in 1..(to - from - 1) : pre[from + i].text = out[from + i].text
    <3> TAKE i \in 1..(to - from - 1)
    <3>1. from + i \in 1..m
      BY <2>2
    <3> QED BY <1>1, <3>1
  <2>4. Between(pre, from, to) = Between(out, from, to)
    BY <2>3 DEF Between
  <2> QED BY <2>1, <2>2, <2>4 DEF Extract
<1> QED BY <1>3, <1>4, <1>5 DEF pre

----------------------------------------------------------------------------
(* How each oracle compares.                                                *)
LEMMA CompareIs ==
  ASSUME NEW tys, NEW outs
  PROVE  /\ oracle = "NOREC"  => Compare(tys, outs) = NorecVerdicts(Statements(outs[1]))
         /\ oracle = "TLP"    => Compare(tys, outs) = TlpVerdicts(tys, Statements(outs[1]))
         /\ oracle = "LIKELY" => Compare(tys, outs) = LikelyVerdicts(tys, Statements(outs[1]))
         /\ oracle = "OPT"    => Compare(tys, outs) = IF Len(outs) = 1 THEN {"ALL_Error"}
                                                     ELSE OptVerdicts(FirstStatement(outs))
         /\ oracle \in {"INDEX", "ROWID"} =>
              Compare(tys, outs) = IF Len(outs) = 1 \/ (oracle = "ROWID" /\ Constrained(outs))
                                   THEN {"ALL_Error"}
                                   ELSE CountedVerdicts(tys, FirstStatement(outs))
<1>1. CASE oracle = "NOREC"
  BY <1>1 DEF Compare, MulRunNum
<1>2. CASE oracle = "TLP"
  BY <1>2 DEF Compare, MulRunNum
<1>3. CASE oracle = "LIKELY"
  BY <1>3 DEF Compare, MulRunNum
<1>4. CASE oracle = "OPT"
  BY <1>4 DEF Compare, MulRunNum
<1>5. CASE oracle \in {"INDEX", "ROWID"}
  BY <1>5 DEF Compare, MulRunNum
<1> QED BY <1>1, <1>2, <1>3, <1>4, <1>5

----------------------------------------------------------------------------
(* Rows that are the same, each as often, are counted the same whatever is  *)
(* counted.                                                                 *)

(* A result is finite, so that its lines can be counted.                    *)
LEMMA FiniteResult ==
  ASSUME NEW a \in Seq(Text), NEW S \in SUBSET DOMAIN a
  PROVE  IsFiniteSet(S) /\ Cardinality(S) \in Nat
<1>1. Len(a) \in Nat /\ S \in SUBSET (1..Len(a))
  OBVIOUS
<1> QED BY <1>1, FiniteInterval

(* The lines of a result that are one of S.                                 *)
Places(a, S) == {i \in DOMAIN a : a[i] \in S}

(* Equal bags of rows: a row has as many places in one result as in the other. *)
LEMMA SameOccurs ==
  ASSUME NEW a \in Seq(Text), NEW b \in Seq(Text), SameRows(a, b), NEW x
  PROVE  Cardinality(Places(a, {x})) = Cardinality(Places(b, {x}))
<1>0. \A c : Places(c, {x}) = {k \in DOMAIN c : c[k] = x}
  BY DEF Places
<1>1. CASE x \in RowsAt(a, DOMAIN a) \cup RowsAt(b, DOMAIN b)
  BY <1>0, <1>1 DEF SameRows, Occurs
<1>2. CASE x \notin RowsAt(a, DOMAIN a) \cup RowsAt(b, DOMAIN b)
  <2>1. Places(a, {x}) = {} /\ Places(b, {x}) = {}
    BY <1>0, <1>2 DEF RowsAt
  <2> QED BY <2>1
<1> QED BY <1>1, <1>2

(* Equal bags of rows: as many places hold a row of a given set, whatever the set. *)
LEMMA SameCounts ==
  ASSUME NEW a \in Seq(Text), NEW b \in Seq(Text), SameRows(a, b), NEW S
  PROVE  Cardinality(Places(a, S)) = Cardinality(Places(b, S))
<1> DEFINE A(x) == Places(a, {x})
           B(x) == Places(b, {x})
           F(x) == CHOOSE f : f \in Bijection(A(x), B(x))
           PA == Places(a, S)
           PB == Places(b, S)
<1>1. ASSUME NEW x PROVE F(x) \in Bijection(A(x), B(x))
  <2>1. A(x) \in SUBSET DOMAIN a /\ B(x) \in SUBSET DOMAIN b
    BY DEF Places
  <2>2. IsFiniteSet(A(x))
    BY <2>1, FiniteResult
  <2>3. IsFiniteSet(B(x))
    BY <2>1, FiniteResult
  <2>4. Cardinality(A(x)) = Cardinality(B(x))
    BY SameOccurs
  <2>5. ExistsBijection(A(x), B(x))
    BY <2>2, <2>3, <2>4, FS_SameCardinalityBij
  <2>6. \E f : f \in Bijection(A(x), B(x))
    BY <2>5 DEF ExistsBijection
  <2> QED BY <2>6
<1>2. \A x : /\ F(x) \in [A(x) -> B(x)]
             /\ \A i, j \in A(x) : F(x)[i] = F(x)[j] => i = j
             /\ \A j \in B(x) : \E i \in A(x) : F(x)[i] = j
  <2> TAKE x
  <2> HIDE DEF A, B, F
  <2>1. F(x) \in Bijection(A(x), B(x))
    BY <1>1
  <2> QED BY <2>1 DEF Bijection, Injection, Surjection, IsInjective
<1>3. /\ \A i \in PA : i \in A(a[i]) /\ a[i] \in S
      /\ \A x \in S : A(x) \subseteq PA /\ B(x) \subseteq PB
      /\ \A j \in PB : j \in B(b[j]) /\ b[j] \in S
      /\ \A x : (\A i \in A(x) : a[i] = x) /\ (\A j \in B(x) : b[j] = x)
  BY DEF Places
<1> DEFINE g == [i \in PA |-> F(a[i])[i]]
<1>4. g \in Bijection(PA, PB)
  <2> HIDE DEF A, B, F, PA, PB
  <2>1. \A i \in PA : g[i] \in B(a[i]) /\ b[g[i]] = a[i] /\ g[i] \in PB
    BY <1>2, <1>3
  <2>2. \A i, j \in PA : g[i] = g[j] => i = j
    <3> TAKE i, j \in PA
    <3> HAVE g[i] = g[j]
    <3>1. a[i] = a[j]
      BY <2>1
    <3>2. F(a[i])[i] = F(a[i])[j]
      BY <3>1
    <3>3. i \in A(a[i]) /\ j \in A(a[i])
      BY <1>3, <3>1
    <3> QED BY <1>2, <3>2, <3>3
  <2>3. \A j \in PB : \E i \in PA : g[i] = j
    <3> TAKE j \in PB
    <3>1. j \in B(b[j]) /\ b[j] \in S
      BY <1>3
    <3>2. PICK i \in A(b[j]) : F(b[j])[i] = j
      BY <1>2, <3>1
    <3>3. i \in PA /\ a[i] = b[j]
      BY <1>3, <3>1
    <3> QED BY <3>2, <3>3
  <2>4. g \in [PA -> PB]
    BY <2>1
  <2> HIDE DEF g
  <2> QED BY <2>2, <2>3, <2>4 DEF Bijection, Injection, Surjection, IsInjective
<1>5. IsFiniteSet(PA)
  <2>1. PA \in SUBSET DOMAIN a
    BY DEF Places
  <2> QED BY <2>1, FiniteResult
<1>6. ExistsBijection(PA, PB)
  BY <1>4 DEF ExistsBijection
<1> HIDE DEF PA, PB, g
<1>7. Cardinality(PA) = Cardinality(PB)
  BY <1>5, <1>6, FS_Bijection
<1> QED BY <1>7 DEF PA, PB

(* The same rows are as many, as many of them are not blank, and the rows   *)
(* that occur at all are the same.                                          *)
LEMMA SameRowsAgree ==
  ASSUME NEW a \in Seq(Text), NEW b \in Seq(Text), SameRows(a, b)
  PROVE  /\ Len(a) = Len(b)
         /\ Cardinality(Filled(a)) = Cardinality(Filled(b))
         /\ RowsAt(a, Filled(a)) = RowsAt(b, Filled(b))
<1>1. Len(a) = Len(b)
  <2>1. \A c \in Seq(Text) : Places(c, Text) = 1..Len(c) /\ Len(c) \in Nat
    BY DEF Places
  <2>2. Cardinality(1..Len(a)) = Cardinality(1..Len(b))
    BY <2>1, SameCounts
  <2>3. \A n \in Nat : Cardinality(1..n) = n
    <3> TAKE n \in Nat
    <3>1. Cardinality(1..n) = IF 1 > n THEN 0 ELSE n - 1 + 1
      BY FS_Interval
    <3> QED BY <3>1
  <2> QED BY <2>1, <2>2, <2>3
<1>2. Cardinality(Filled(a)) = Cardinality(Filled(b))
  <2> DEFINE S == {x \in Text : x.kind # "blank"}
  <2>1. \A c \in Seq(Text) : Filled(c) = Places(c, S)
    <3> TAKE c \in Seq(Text)
    <3>1. \A k \in DOMAIN c : c[k] \in Text
      OBVIOUS
    <3> QED BY <3>1 DEF Filled, Places
  <2> HIDE DEF S
  <2> QED BY <2>1, SameCounts
<1>3. ASSUME NEW c \in Seq(Text), NEW d \in Seq(Text), NEW x \in RowsAt(c, Filled(c)),
             Cardinality(Places(c, {x})) = Cardinality(Places(d, {x}))
      PROVE  x \in RowsAt(d, Filled(d))
  <2>1. PICK i \in DOMAIN c : c[i] = x /\ x.kind # "blank"
    BY <1>3 DEF RowsAt, Filled
  <2>2. Places(c, {x}) \in SUBSET DOMAIN c /\ Places(d, {x}) \in SUBSET DOMAIN d
    BY DEF Places
  <2>3. IsFiniteSet(Places(c, {x}))
    BY <2>2, FiniteResult
  <2>4. Cardinality(Places(c, {x})) # 0
    <3>1. Places(c, {x}) # {}
      BY <2>1 DEF Places
    <3> QED BY <2>3, <3>1, FS_EmptySet
  <2>5. Places(d, {x}) # {}
    BY <1>3, <2>4, FS_EmptySet
  <2>6. PICK j \in DOMAIN d : d[j] = x
    BY <2>5 DEF Places
  <2> QED BY <2>1, <2>6 DEF RowsAt, Filled
<1>4. RowsAt(a, Filled(a)) = RowsAt(b, Filled(b))
  <2>1. \A x : Cardinality(Places(a, {x})) = Cardinality(Places(b, {x}))
    BY SameOccurs
  <2>2. RowsAt(a, Filled(a)) \subseteq RowsAt(b, Filled(b))
    BY <1>3, <2>1
  <2>3. RowsAt(b, Filled(b)) \subseteq RowsAt(a, Filled(a))
    BY <1>3, <2>1
  <2> QED BY <2>2, <2>3
<1> QED BY <1>1, <1>2, <1>4

----------------------------------------------------------------------------
(* When an oracle of the fuzzer reports an input: some select of it fails.  *)

(* The results of the statements of a run.                                  *)
Results == Seq(Seq(Text))

(* The verdict over all statements is a bug report iff that of some statement is. *)
LEMMA VerdictFails ==
  ASSUME NEW outcome, NEW uncounted
  PROVE  (Verdict(outcome, uncounted) = "Fail") <=> \E k \in DOMAIN outcome : outcome[k] = "Fail"
BY DEF Verdict

(* A result that is missing counts as one with an error.                    *)
LEMMA PairedIs ==
  ASSUME NEW stmts \in [1..3 -> Results], NEW v \in 1..3, NEW k
  PROVE  /\ k \in DOMAIN stmts[v] => Paired(stmts, k)[v] = stmts[v][k]
         /\ ~ HasError(Paired(stmts, k)[v]) => k \in DOMAIN stmts[v]
<1>1. DOMAIN stmts = 1..3
  OBVIOUS
<1>2. Paired(stmts, k)[v] = IF k \in DOMAIN stmts[v] THEN stmts[v][k] ELSE <<Error>>
  BY <1>1 DEF Paired
<1>3. HasError(<<Error>>)
  BY DEF HasError, Error
<1> QED BY <1>2, <1>3

(* As many selects are compared as the longest list of results has.         *)
LEMMA ComparedIs ==
  ASSUME NEW stmts \in [1..3 -> Results]
  PROVE  /\ Compared(stmts) \subseteq Nat
         /\ \A v \in 1..3 : DOMAIN stmts[v] \subseteq Compared(stmts)
<1> DEFINE S == {stmts[v] : v \in DOMAIN stmts}
           Longest(s) == \A v \in DOMAIN stmts : Len(stmts[v]) <= Len(s)
<1>1. DOMAIN stmts = 1..3
  OBVIOUS
<1>2. \A v \in 1..3 : stmts[v] \in S /\ Len(stmts[v]) \in Nat /\ DOMAIN stmts[v] = 1..Len(stmts[v])
  BY <1>1 DEF Results
<1>3. \E s \in S : Longest(s)
  <2>1. \E v \in 1..3 : \A w \in 1..3 : Len(stmts[w]) <= Len(stmts[v])
    <3>1. 1 \in 1..3 /\ 2 \in 1..3 /\ 3 \in 1..3 /\ \A w \in 1..3 : w = 1 \/ w = 2 \/ w = 3
      OBVIOUS
    <3> DEFINE l(w) == Len(stmts[w])
    <3>2. l(1) \in Nat /\ l(2) \in Nat /\ l(3) \in Nat
      BY <1>2, <3>1
    <3> HIDE DEF l
    <3>3. \/ l(2) <= l(1) /\ l(3) <= l(1) /\ l(1) <= l(1)
          \/ l(1) <= l(2) /\ l(3) <= l(2) /\ l(2) <= l(2)
          \/ l(1) <= l(3) /\ l(2) <= l(3) /\ l(3) <= l(3)
      BY <3>2
    <3>4. \E v \in 1..3 : \A w \in 1..3 : l(w) <= l(v)
      BY <3>1, <3>3, Zenon
    <3> QED BY <3>4 DEF l
  <2> QED BY <1>1, <1>2, <2>1
<1> DEFINE c == CHOOSE s \in S : Longest(s)
<1>4. c \in S /\ Longest(c)
  <2> HIDE DEF S, Longest
  <2> QED BY <1>3
<1>5. Compared(stmts) = 1..Len(c)
  BY DEF Compared
<1>6. Len(c) \in Nat
  <2> HIDE DEF c
  <2>1. PICK v \in 1..3 : c = stmts[v]
    BY <1>1, <1>4
  <2> QED BY <1>2, <2>1
<1> HIDE DEF c, S
<1>7. \A v \in 1..3 : 1..Len(stmts[v]) \subseteq 1..Len(c)
  BY <1>1, <1>2, <1>4, <1>6
<1> QED BY <1>2, <1>5, <1>6, <1>7

(* Two results whose numbers are reported have a number each, and not the   *)
(* same.                                                                    *)
LEMMA NumbersFail ==
  ASSUME NEW rs, Numbers(rs) = "Fail"
  PROVE  /\ \A r \in rs : ~ HasError(r) /\ HasNumber(r)
         /\ \E r, s \in rs : Number(r) # Number(s)
BY DEF Numbers, Judge

(* NOREC reports a bug iff some select and its transformed form give different numbers. *)
LEMMA NorecFails ==
  ASSUME NEW stmts \in [1..3 -> Results]
  PROVE  "Fail" \in NorecVerdicts(stmts) <=>
           \E k \in DOMAIN stmts[1] \cap DOMAIN stmts[2] :
             Numbers({stmts[1][k], stmts[2][k]}) = "Fail"
<1> DEFINE O(k) == Numbers({Paired(stmts, k)[1], Paired(stmts, k)[2]})
           outcome == [k \in Compared(stmts) |-> O(k)]
<1>1. NorecVerdicts(stmts) = {Verdict(outcome, {})}
  BY DEF NorecVerdicts
<1>2. "Fail" \in NorecVerdicts(stmts) <=> \E k \in Compared(stmts) : O(k) = "Fail"
  <2> HIDE DEF O
  <2>1. DOMAIN outcome = Compared(stmts) /\ \A k \in Compared(stmts) : outcome[k] = O(k)
    OBVIOUS
  <2> HIDE DEF outcome
  <2>2. "Fail" \in NorecVerdicts(stmts) <=> \E k \in DOMAIN outcome : outcome[k] = "Fail"
    BY <1>1, VerdictFails
  <2> QED BY <2>1, <2>2
<1>3. \A k : k \in DOMAIN stmts[1] \cap DOMAIN stmts[2] =>
               O(k) = Numbers({stmts[1][k], stmts[2][k]})
  <2> TAKE k
  <2> HAVE k \in DOMAIN stmts[1] \cap DOMAIN stmts[2]
  <2>1. Paired(stmts, k)[1] = stmts[1][k] /\ Paired(stmts, k)[2] = stmts[2][k]
    BY PairedIs
  <2> QED BY <2>1
<1>4. ASSUME NEW k, O(k) = "Fail"
      PROVE  k \in DOMAIN stmts[1] \cap DOMAIN stmts[2]
  <2>1. ~ HasError(Paired(stmts, k)[1]) /\ ~ HasError(Paired(stmts, k)[2])
    BY <1>4, NumbersFail
  <2> QED BY <2>1, PairedIs
<1>5. DOMAIN stmts[1] \subseteq Compared(stmts)
  BY ComparedIs
<1> HIDE DEF O
<1> QED BY <1>2, <1>3, <1>4, <1>5

(* What a failed comparison of TLP says about the two results, by type of select. *)
LEMMA TlpOutcomeFails ==
  ASSUME NEW type \in SelectType, NEW a, NEW b, TlpOutcome(type, a, b) = "Fail"
  PROVE  /\ ~ HasError(a) /\ ~ HasError(b)
         /\ type = "NORMAL" => Cardinality(Filled(a)) # Cardinality(Filled(b))
         /\ type \in {"DISTINCT", "GROUP_BY"} =>
              Cardinality(RowsAt(a, Filled(a))) # Cardinality(RowsAt(b, Filled(b)))
         /\ type \in Aggregate => Numbers({a, b}) = "Fail"
         /\ type # "VALUES"
<1>1. CASE type = "NORMAL"
  <2>1. TlpRows(a, b) = "Fail"
    BY <1>1 DEF TlpOutcome, Aggregate
  <2> QED BY <1>1, <2>1 DEF TlpRows, Unusable, Judge, Aggregate
<1>2. CASE type \in {"DISTINCT", "GROUP_BY"}
  <2>1. TlpUnique(a, b) = "Fail"
    BY <1>2 DEF TlpOutcome, Aggregate
  <2> QED BY <1>2, <2>1 DEF TlpUnique, Unusable, Judge, Aggregate
<1>3. CASE type \in Aggregate
  <2>1. Numbers({a, b}) = "Fail"
    BY <1>3 DEF TlpOutcome, Aggregate
  <2> QED BY <1>3, <2>1, NumbersFail DEF Aggregate
<1>4. CASE type = "VALUES"
  BY <1>4 DEF TlpOutcome, Aggregate
<1> QED BY <1>1, <1>2, <1>3, <1>4 DEF SelectType

(* TLP reports a bug iff all its selects were answered and some comparison fails. *)
LEMMA TlpFails ==
  ASSUME NEW tys \in Seq(SelectType), NEW stmts \in [1..3 -> Results]
  PROVE  "Fail" \in TlpVerdicts(tys, stmts) <=>
           /\ Compared(stmts) = DOMAIN tys
           /\ \E k \in DOMAIN tys \cap DOMAIN stmts[1] \cap DOMAIN stmts[2] :
                TlpOutcome(tys[k], stmts[1][k], stmts[2][k]) = "Fail"
<1> DEFINE O(k) == TlpOutcome(tys[k], Paired(stmts, k)[1], Paired(stmts, k)[2])
           outcome == [k \in DOMAIN tys |-> O(k)]
           uncounted == {k \in DOMAIN tys : tys[k] \in {"DISTINCT", "GROUP_BY"}}
<1>1. TlpVerdicts(tys, stmts) = IF Compared(stmts) # DOMAIN tys THEN {"ALL_Error"}
                                ELSE {Verdict(outcome, uncounted)}
  BY DEF TlpVerdicts
<1>2. "Fail" \in TlpVerdicts(tys, stmts) <=>
        Compared(stmts) = DOMAIN tys /\ \E k \in DOMAIN tys : O(k) = "Fail"
  <2> HIDE DEF O
  <2>1. DOMAIN outcome = DOMAIN tys /\ \A k \in DOMAIN tys : outcome[k] = O(k)
    OBVIOUS
  <2> HIDE DEF outcome, uncounted
  <2>2. Verdict(outcome, uncounted) = "Fail" <=> \E k \in DOMAIN outcome : outcome[k] = "Fail"
    BY VerdictFails
  <2> QED BY <1>1, <2>1, <2>2
<1>3. \A k : k \in DOMAIN stmts[1] \cap DOMAIN stmts[2] =>
               O(k) = TlpOutcome(tys[k], stmts[1][k], stmts[2][k])
  BY PairedIs
<1>4. ASSUME NEW k \in DOMAIN tys, O(k) = "Fail"
      PROVE  k \in DOMAIN stmts[1] \cap DOMAIN stmts[2]
  <2>1. tys[k] \in SelectType
    OBVIOUS
  <2>2. ~ HasError(Paired(stmts, k)[1]) /\ ~ HasError(Paired(stmts, k)[2])
    BY <1>4, <2>1, TlpOutcomeFails
  <2> QED BY <2>2, PairedIs
<1> HIDE DEF O
<1> QED BY <1>2, <1>3, <1>4

(* LIKELY takes a select it found no type for as it happens to.             *)
LEMMA LikelyOutcomeFails ==
  ASSUME NEW type, NEW rs, DOMAIN rs = 1..3, LikelyOutcome(type, rs) = "Fail",
         type \in {"NORMAL", "AGGR", "UNKNOWN"}
  PROVE  /\ \A v \in 1..3 : ~ HasError(rs[v])
         /\ type = "NORMAL" =>
              \E v \in 1..3 : Len(rs[v]) - Cardinality(Filled(rs[v]))
                               # Len(rs[1]) - Cardinality(Filled(rs[1]))
         /\ type = "AGGR" => /\ \A v \in 1..3 : HasNumber(rs[v])
                             /\ \E v, w \in 1..3 : Number(rs[v]) # Number(rs[w])
         /\ type # "UNKNOWN"
<1>1. CASE type = "NORMAL"
  <2>1. LikelyRows(rs) = "Fail"
    BY <1>1 DEF LikelyOutcome
  <2> QED BY <1>1, <2>1 DEF LikelyRows, Judge
<1>2. CASE type = "AGGR"
  <2>1. Numbers({rs[k] : k \in DOMAIN rs}) = "Fail"
    BY <1>2 DEF LikelyOutcome
  <2>2. /\ \A r \in {rs[k] : k \in DOMAIN rs} : ~ HasError(r) /\ HasNumber(r)
        /\ \E r, s \in {rs[k] : k \in DOMAIN rs} : Number(r) # Number(s)
    BY <2>1, NumbersFail
  <2> QED BY <1>2, <2>2
<1>3. CASE type = "UNKNOWN"
  BY <1>3 DEF LikelyOutcome
<1> QED BY <1>1, <1>2, <1>3

(* What LIKELY may take the k-th select for.                                *)
TakenFor(tys, k) ==
  IF k \in DOMAIN tys THEN {PlainType(tys[k])} ELSE {"NORMAL", "AGGR", "UNKNOWN"}

(* LIKELY reports a bug iff some select fails under a type it may be taken for. *)
LEMMA LikelyFails ==
  ASSUME NEW tys \in Seq(SelectType), NEW stmts \in [1..3 -> Results]
  PROVE  "Fail" \in LikelyVerdicts(tys, stmts) <=>
           \E k \in DOMAIN stmts[1] \cap DOMAIN stmts[2] \cap DOMAIN stmts[3] :
             \E type \in TakenFor(tys, k) :
               LikelyOutcome(type, [v \in 1..3 |-> stmts[v][k]]) = "Fail"
<1> DEFINE All == DOMAIN stmts[1] \cap DOMAIN stmts[2] \cap DOMAIN stmts[3]
           Stray == [Compared(stmts) \ DOMAIN tys -> {"NORMAL", "AGGR", "UNKNOWN"}]
           Type(stray, k) == IF k \in DOMAIN tys THEN PlainType(tys[k]) ELSE stray[k]
           O(stray, k) == LikelyOutcome(Type(stray, k), Paired(stmts, k))
           outcome(stray) == [k \in Compared(stmts) |-> O(stray, k)]
<1>1. LikelyVerdicts(tys, stmts) = {Verdict(outcome(stray), {}) : stray \in Stray}
  BY DEF LikelyVerdicts
<1>2. "Fail" \in LikelyVerdicts(tys, stmts) <=>
        \E stray \in Stray : \E k \in Compared(stmts) : O(stray, k) = "Fail"
  <2> HIDE DEF O, Stray
  <2>1. \A stray : /\ DOMAIN outcome(stray) = Compared(stmts)
                   /\ \A k \in Compared(stmts) : outcome(stray)[k] = O(stray, k)
    OBVIOUS
  <2> HIDE DEF outcome
  <2>2. \A stray : Verdict(outcome(stray), {}) = "Fail" <=>
                     \E k \in DOMAIN outcome(stray) : outcome(stray)[k] = "Fail"
    BY VerdictFails
  <2> QED BY <1>1, <2>1, <2>2
<1>3. \A k \in All : Paired(stmts, k) = [v \in 1..3 |-> stmts[v][k]]
  <2> TAKE k \in All
  <2>1. Paired(stmts, k) = [v \in 1..3 |-> IF k \in DOMAIN stmts[v] THEN stmts[v][k] ELSE <<Error>>]
    BY DEF Paired
  <2>2. \A v \in 1..3 : k \in DOMAIN stmts[v]
    <3>1. \A v \in 1..3 : v = 1 \/ v = 2 \/ v = 3
      OBVIOUS
    <3> QED BY <3>1
  <2> QED BY <2>1, <2>2
<1>4. All \subseteq Compared(stmts)
  BY ComparedIs
<1>5. ASSUME NEW stray \in Stray, NEW k \in Compared(stmts)
      PROVE  /\ Type(stray, k) \in TakenFor(tys, k)
             /\ Type(stray, k) \in {"NORMAL", "AGGR", "UNKNOWN"}
  <2>1. CASE k \in DOMAIN tys
    BY <2>1 DEF TakenFor, PlainType
  <2>2. CASE k \notin DOMAIN tys
    BY <2>2 DEF TakenFor
  <2> QED BY <2>1, <2>2
<1>6. ASSUME NEW stray \in Stray, NEW k \in Compared(stmts), O(stray, k) = "Fail"
      PROVE  k \in All
  <2>1. DOMAIN Paired(stmts, k) = 1..3
    BY DEF Paired
  <2>2. \A v \in 1..3 : ~ HasError(Paired(stmts, k)[v])
    <3>1. Type(stray, k) \in {"NORMAL", "AGGR", "UNKNOWN"}
      BY <1>5
    <3> HIDE DEF Type
    <3> QED BY <1>6, <2>1, <3>1, LikelyOutcomeFails
  <2>3. \A v \in 1..3 : k \in DOMAIN stmts[v]
    BY <2>2, PairedIs
  <2> QED BY <2>3
<1>7. ASSUME NEW k \in All, NEW type \in TakenFor(tys, k)
      PROVE  \E stray \in Stray : Type(stray, k) = type
  <2>1. CASE k \in DOMAIN tys
    <3>1. [j \in Compared(stmts) \ DOMAIN tys |-> "NORMAL"] \in Stray
      OBVIOUS
    <3> QED BY <2>1, <3>1 DEF TakenFor
  <2>2. CASE k \notin DOMAIN tys
    <3>1. type \in {"NORMAL", "AGGR", "UNKNOWN"}
      BY <2>2 DEF TakenFor
    <3>2. [j \in Compared(stmts) \ DOMAIN tys |-> type] \in Stray
      BY <3>1
    <3>3. k \in Compared(stmts) \ DOMAIN tys
      BY <1>4, <2>2
    <3>4. Type([j \in Compared(stmts) \ DOMAIN tys |-> type], k) = type
      BY <2>2, <3>3
    <3> QED BY <3>2, <3>4
  <2> QED BY <2>1, <2>2
<1> HIDE DEF All, Stray, Type
<1>8. ASSUME NEW stray \in Stray, NEW k \in Compared(stmts), O(stray, k) = "Fail"
      PROVE  \E j \in All : \E type \in TakenFor(tys, j) :
               LikelyOutcome(type, [v \in 1..3 |-> stmts[v][j]]) = "Fail"
  <2>1. k \in All /\ Type(stray, k) \in TakenFor(tys, k)
    BY <1>5, <1>6, <1>8
  <2> QED BY <1>3, <1>8, <2>1
<1>9. ASSUME NEW k \in All, NEW type \in TakenFor(tys, k),
             LikelyOutcome(type, [v \in 1..3 |-> stmts[v][k]]) = "Fail"
      PROVE  \E stray \in Stray : \E j \in Compared(stmts) : O(stray, j) = "Fail"
  <2>1. PICK stray \in Stray : Type(stray, k) = type
    BY <1>7
  <2>2. O(stray, k) = "Fail"
    BY <1>3, <1>9, <2>1
  <2> QED BY <1>4, <2>1, <2>2
<1>10. (\E stray \in Stray : \E k \in Compared(stmts) : O(stray, k) = "Fail") <=>
         \E k \in All : \E type \in TakenFor(tys, k) :
           LikelyOutcome(type, [v \in 1..3 |-> stmts[v][k]]) = "Fail"
  <2> HIDE DEF O
  <2> QED BY <1>8, <1>9
<1> HIDE DEF O
<1> QED BY <1>2, <1>10 DEF All

(* INDEX and ROWID report a select of no known type as it happens to be.    *)
LEMMA CountedFails ==
  ASSUME NEW tys, NEW runs
  PROVE  "Fail" \in CountedVerdicts(tys, runs) <=>
           \E k \in DOMAIN runs[1] \cap DOMAIN tys :
             /\ InAll(runs, k)
             /\ \/ PlainType(tys[k]) = "UNKNOWN"
                \/ PlainType(tys[k]) = "NORMAL" /\ CountedRows(Across(runs, k)) = "Fail"
<1> DEFINE judged == DOMAIN runs[1] \cap DOMAIN tys
           unset == {k \in judged : PlainType(tys[k]) = "UNKNOWN" /\ InAll(runs, k)}
           O(k) == IF InAll(runs, k) /\ PlainType(tys[k]) = "NORMAL"
                   THEN CountedRows(Across(runs, k)) ELSE "Error"
           outcome(failing) == [k \in judged |-> IF k \in failing THEN "Fail" ELSE O(k)]
<1>1. CountedVerdicts(tys, runs) = {Verdict(outcome(failing), {}) : failing \in SUBSET unset}
  BY DEF CountedVerdicts
<1>2. "Fail" \in CountedVerdicts(tys, runs) <=>
        \E failing \in SUBSET unset : \E k \in judged : k \in failing \/ O(k) = "Fail"
  <2> HIDE DEF O, unset, judged
  <2>1. \A failing : /\ DOMAIN outcome(failing) = judged
                     /\ \A k \in judged : outcome(failing)[k] = IF k \in failing THEN "Fail" ELSE O(k)
    OBVIOUS
  <2> HIDE DEF outcome
  <2>2. \A failing : Verdict(outcome(failing), {}) = "Fail" <=>
                       \E k \in DOMAIN outcome(failing) : outcome(failing)[k] = "Fail"
    BY VerdictFails
  <2>3. \A failing : Verdict(outcome(failing), {}) = "Fail" <=>
                       \E k \in judged : k \in failing \/ O(k) = "Fail"
    BY <2>1, <2>2
  <2> QED BY <1>1, <2>3
<1>3. (\E failing \in SUBSET unset : \E k \in judged : k \in failing \/ O(k) = "Fail")
        <=> \E k \in judged : k \in unset \/ O(k) = "Fail"
  <2> HIDE DEF O, unset, judged
  <2> QED OBVIOUS
<1>4. \A k \in judged : (k \in unset \/ O(k) = "Fail") <=>
        /\ InAll(runs, k)
        /\ \/ PlainType(tys[k]) = "UNKNOWN"
           \/ PlainType(tys[k]) = "NORMAL" /\ CountedRows(Across(runs, k)) = "Fail"
  OBVIOUS
<1> HIDE DEF O, unset
<1> QED BY <1>2, <1>3, <1>4

(* Where the number of rows decides, a failure is a difference in it. *)
LEMMA CountedRowsFail ==
  ASSUME NEW rs, CountedRows(rs) = "Fail"
  PROVE  \E r, s \in rs : Cardinality(Filled(r)) # Cardinality(Filled(s))
BY DEF CountedRows, Judge

(* OPT reports a bug iff some select fails on which all three runs gave a result. *)
LEMMA OptFails ==
  ASSUME NEW runs
  PROVE  "Fail" \in OptVerdicts(runs) <=>
           \E k \in DOMAIN runs[1] : InAll(runs, k) /\ OptOutcome(runs[1][k], runs[2][k], runs[3][k]) = "Fail"
<1> DEFINE O(k) == IF InAll(runs, k) THEN OptOutcome(runs[1][k], runs[2][k], runs[3][k])
                   ELSE "Error"
           outcome == [k \in DOMAIN runs[1] |-> O(k)]
<1>1. OptVerdicts(runs) = {Verdict(outcome, {})}
  BY DEF OptVerdicts
<1>2. "Fail" \in OptVerdicts(runs) <=> \E k \in DOMAIN runs[1] : O(k) = "Fail"
  <2> HIDE DEF O
  <2>1. DOMAIN outcome = DOMAIN runs[1] /\ \A k \in DOMAIN runs[1] : outcome[k] = O(k)
    OBVIOUS
  <2> HIDE DEF outcome
  <2>2. Verdict(outcome, {}) = "Fail" <=> \E k \in DOMAIN outcome : outcome[k] = "Fail"
    BY VerdictFails
  <2> QED BY <1>1, <2>1, <2>2
<1> QED BY <1>2

(* A failed comparison of OPT is a difference in the number of rows. *)
LEMMA OptOutcomeFails ==
  ASSUME NEW a \in Seq(Text), NEW b \in Seq(Text), NEW c \in Seq(Text),
         OptOutcome(a, b, c) = "Fail"
  PROVE  Len(a) # Len(b) \/ Len(b) # Len(c)
BY DEF OptOutcome, Judge, Pieces

----------------------------------------------------------------------------
(* An input that was cut short.                                             *)

(* What the fuzzer reads of a run that is cut short.                        *)
Begins(some, whole) == \E m \in 0..Len(whole) : some = SubSeq(whole, 1, m)

(* extract_query_result on output cut short gives the first of the results, unchanged. *)
LEMMA ExtractOfBeginning ==
  ASSUME NEW whole \in Seq(Line), NEW some, Begins(some, whole), NEW v
  PROVE  /\ Extract(some, v) \in Results /\ Extract(whole, v) \in Results
         /\ DOMAIN Extract(some, v) \subseteq DOMAIN Extract(whole, v)
         /\ \A k \in DOMAIN Extract(some, v) : Extract(some, v)[k] = Extract(whole, v)[k]
<1>1. PICK m \in 0..Len(whole) : some = SubSeq(whole, 1, m)
  BY DEF Begins
<1>2. some \in Seq(Line)
  BY <1>1, PrefixFacts
<1>3. Extract(some, v) \in Results /\ Extract(whole, v) \in Results
  BY <1>2, ExtractType DEF Results
<1> QED BY <1>1, <1>3, ExtractOfPrefix

(* The same for the results of the three forms of a run. *)
LEMMA StatementsOfBeginning ==
  ASSUME NEW whole \in Seq(Line), NEW some, Begins(some, whole)
  PROVE  /\ Statements(some) \in [1..3 -> Results] /\ Statements(whole) \in [1..3 -> Results]
         /\ \A v \in 1..3 :
              /\ DOMAIN Statements(some)[v] \subseteq DOMAIN Statements(whole)[v]
              /\ \A k \in DOMAIN Statements(some)[v] :
                   Statements(some)[v][k] = Statements(whole)[v][k]
<1>1. \A v \in 1..3 : /\ Extract(some, v - 1) \in Results /\ Extract(whole, v - 1) \in Results
                      /\ DOMAIN Extract(some, v - 1) \subseteq DOMAIN Extract(whole, v - 1)
                      /\ \A k \in DOMAIN Extract(some, v - 1) :
                           Extract(some, v - 1)[k] = Extract(whole, v - 1)[k]
  BY ExtractOfBeginning
<1> QED BY <1>1 DEF Statements

(* Where an oracle finds the forms of a select: in one run or in one run each. *)
LEMMA FormsAre ==
  ASSUME NEW outs, NEW k
  PROVE  /\ oracle \in {"NOREC", "TLP"} =>
              Forms(outs, k) = [v \in 1..2 |-> Statements(outs[1])[v][k]]
         /\ oracle = "LIKELY" => Forms(outs, k) = [v \in 1..3 |-> Statements(outs[1])[v][k]]
         /\ oracle \in {"INDEX", "ROWID", "OPT"} =>
              Forms(outs, k) = [r \in DOMAIN outs |-> Extract(outs[r], 0)[k]]
<1>1. CASE oracle \in {"NOREC", "TLP"}
  BY <1>1 DEF Forms, MulRunNum
<1>2. CASE oracle = "LIKELY"
  BY <1>2 DEF Forms, MulRunNum
<1>3. CASE oracle \in {"INDEX", "ROWID", "OPT"}
  BY <1>3 DEF Forms, MulRunNum, FirstStatement
<1> QED BY <1>1, <1>2, <1>3

(* Two forms of a select that are not the same.                             *)
LEMMA FormsDiffer ==
  ASSUME NEW k, NEW i \in DOMAIN Forms(Complete, k), NEW j \in DOMAIN Forms(Complete, k),
         NEW a, NEW b, a = Forms(Complete, k)[i], b = Forms(Complete, k)[j],
         \/ /\ ByNumber(k) \/ Untyped(k)
            /\ HasNumber(a) /\ HasNumber(b) /\ Number(a) # Number(b)
         \/ ~ ByNumber(k) /\ ~ SameRows(a, b)
  PROVE  Differs(k)
<1>1. ~ Same(a, b, k)
  BY DEF Same, SameNumbers
<1> QED BY <1>1 DEF Differs

(* NOREC reports an input cut short only if it reports the whole.           *)
LEMMA NorecCutShort ==
  ASSUME oracle = "NOREC", Complete[1] \in Seq(Line), NEW out, Begins(out, Complete[1]),
         "Fail" \in NorecVerdicts(Statements(out))
  PROVE  /\ "Fail" \in NorecVerdicts(Statements(Complete[1]))
         /\ \E k \in DOMAIN Extract(Complete[1], 0) : Differs(k)
<1> DEFINE s == Statements(out)
           w == Statements(Complete[1])
<1>1. /\ s \in [1..3 -> Results] /\ w \in [1..3 -> Results]
      /\ \A v \in 1..3 : /\ DOMAIN s[v] \subseteq DOMAIN w[v]
                         /\ \A k \in DOMAIN s[v] : s[v][k] = w[v][k]
  BY StatementsOfBeginning
<1>2. w[1] = Extract(Complete[1], 0)
  BY DEF Statements
<1>3. \A k : Forms(Complete, k) = [v \in 1..2 |-> w[v][k]]
  BY FormsAre
<1> HIDE DEF s, w
<1>4. PICK k \in DOMAIN s[1] \cap DOMAIN s[2] : Numbers({s[1][k], s[2][k]}) = "Fail"
  BY <1>1, NorecFails DEF s
<1>5. k \in DOMAIN w[1] \cap DOMAIN w[2] /\ s[1][k] = w[1][k] /\ s[2][k] = w[2][k]
  BY <1>1, <1>4
<1>6. Numbers({w[1][k], w[2][k]}) = "Fail"
  BY <1>4, <1>5
<1>7. "Fail" \in NorecVerdicts(w)
  BY <1>1, <1>5, <1>6, NorecFails
<1>8. /\ HasNumber(w[1][k]) /\ HasNumber(w[2][k]) /\ Number(w[1][k]) # Number(w[2][k])
  BY <1>6, NumbersFail
<1>9. Differs(k)
  <2>1. /\ 1 \in DOMAIN Forms(Complete, k) /\ 2 \in DOMAIN Forms(Complete, k)
        /\ Forms(Complete, k)[1] = w[1][k] /\ Forms(Complete, k)[2] = w[2][k]
    BY <1>3
  <2>2. ByNumber(k)
    BY DEF ByNumber
  <2> QED BY <1>8, <2>1, <2>2, FormsDiffer
<1> QED BY <1>2, <1>5, <1>7, <1>9 DEF w

(* TLP reports an input cut short only if it reports the whole, or does not *)
(* compare the whole for want of types.                                     *)
LEMMA TlpCutShort ==
  ASSUME oracle = "TLP", types \in Seq(SelectType), Complete[1] \in Seq(Line),
         NEW out, Begins(out, Complete[1]), "Fail" \in TlpVerdicts(types, Statements(out))
  PROVE  /\ "Fail" \in TlpVerdicts(types, Statements(Complete[1])) \/ SetAside
         /\ \E k \in DOMAIN Extract(Complete[1], 0) : Differs(k)
<1> DEFINE s == Statements(out)
           w == Statements(Complete[1])
<1>1. /\ s \in [1..3 -> Results] /\ w \in [1..3 -> Results]
      /\ \A v \in 1..3 : /\ DOMAIN s[v] \subseteq DOMAIN w[v]
                         /\ \A k \in DOMAIN s[v] : s[v][k] = w[v][k]
  BY StatementsOfBeginning
<1>2. w[1] = Extract(Complete[1], 0)
  BY DEF Statements
<1>3. \A k : Forms(Complete, k) = [v \in 1..2 |-> w[v][k]]
  BY FormsAre
<1>4. Compared(w) = DOMAIN types \/ SetAside
  BY DEF SetAside
<1> HIDE DEF s, w
<1>5. PICK k \in DOMAIN types \cap DOMAIN s[1] \cap DOMAIN s[2] :
         TlpOutcome(types[k], s[1][k], s[2][k]) = "Fail"
  BY <1>1, TlpFails DEF s
<1>6. k \in DOMAIN w[1] \cap DOMAIN w[2] /\ s[1][k] = w[1][k] /\ s[2][k] = w[2][k]
  BY <1>1, <1>5
<1> DEFINE a == w[1][k]
           b == w[2][k]
<1>7. TlpOutcome(types[k], a, b) = "Fail"
  BY <1>5, <1>6
<1>8. "Fail" \in TlpVerdicts(types, w) \/ SetAside
  BY <1>1, <1>4, <1>5, <1>6, <1>7, TlpFails
<1>9. types[k] \in SelectType /\ a \in Seq(Text) /\ b \in Seq(Text)
  BY <1>1, <1>5, <1>6 DEF Results
<1>10. /\ 1 \in DOMAIN Forms(Complete, k) /\ 2 \in DOMAIN Forms(Complete, k)
       /\ Forms(Complete, k)[1] = a /\ Forms(Complete, k)[2] = b
  BY <1>3
<1> HIDE DEF a, b
<1>11. Differs(k)
  <2>1. CASE types[k] \in Aggregate
    <3>1. Numbers({a, b}) = "Fail"
      BY <1>7, <1>9, <2>1, TlpOutcomeFails
    <3>2. HasNumber(a) /\ HasNumber(b) /\ Number(a) # Number(b)
      BY <3>1, NumbersFail
    <3>3. ByNumber(k)
      BY <2>1 DEF ByNumber
    <3> QED BY <1>10, <3>2, <3>3, FormsDiffer
  <2>2. CASE types[k] \notin Aggregate
    <3>1. ~ ByNumber(k)
      BY <2>2 DEF ByNumber
    <3>2. \/ Cardinality(Filled(a)) # Cardinality(Filled(b))
          \/ Cardinality(RowsAt(a, Filled(a))) # Cardinality(RowsAt(b, Filled(b)))
      <4>1. types[k] \in {"NORMAL", "DISTINCT", "GROUP_BY", "VALUES"}
        BY <1>9, <2>2 DEF SelectType
      <4> DEFINE type == types[k]
      <4>2. type \in SelectType /\ TlpOutcome(type, a, b) = "Fail"
        BY <1>7, <1>9
      <4> HIDE DEF type
      <4>3. /\ type = "NORMAL" => Cardinality(Filled(a)) # Cardinality(Filled(b))
            /\ type \in {"DISTINCT", "GROUP_BY"} =>
                 Cardinality(RowsAt(a, Filled(a))) # Cardinality(RowsAt(b, Filled(b)))
            /\ type # "VALUES"
        <5>1. type = "NORMAL" => Cardinality(Filled(a)) # Cardinality(Filled(b))
          <6> SUFFICES ASSUME type = "NORMAL"
                       PROVE  Cardinality(Filled(a)) # Cardinality(Filled(b))
            OBVIOUS
          <6>1. TlpRows(a, b) = "Fail"
            BY <4>2 DEF TlpOutcome, Aggregate
          <6> QED BY <6>1 DEF TlpRows, Judge
        <5>2. type \in {"DISTINCT", "GROUP_BY"} =>
                 Cardinality(RowsAt(a, Filled(a))) # Cardinality(RowsAt(b, Filled(b)))
          BY <4>2, TlpOutcomeFails
        <5>3. type # "VALUES"
          BY <4>2, TlpOutcomeFails
        <5> QED BY <5>1, <5>2, <5>3
      <4> QED BY <4>1, <4>3 DEF type
    <3>3. ~ SameRows(a, b)
      BY <1>9, <3>2, SameRowsAgree
    <3> QED BY <1>10, <3>1, <3>3, FormsDiffer
  <2> QED BY <2>1, <2>2
<1> QED BY <1>2, <1>6, <1>8, <1>11 DEF w

(* LIKELY reports an input cut short only if it reports the whole.          *)
LEMMA LikelyCutShort ==
  ASSUME oracle = "LIKELY", types \in Seq(SelectType), Complete[1] \in Seq(Line),
         NEW out, Begins(out, Complete[1]), "Fail" \in LikelyVerdicts(types, Statements(out))
  PROVE  /\ "Fail" \in LikelyVerdicts(types, Statements(Complete[1]))
         /\ \E k \in DOMAIN Extract(Complete[1], 0) : Differs(k)
<1> DEFINE s == Statements(out)
           w == Statements(Complete[1])
<1>1. /\ s \in [1..3 -> Results] /\ w \in [1..3 -> Results]
      /\ \A v \in 1..3 : /\ DOMAIN s[v] \subseteq DOMAIN w[v]
                         /\ \A k \in DOMAIN s[v] : s[v][k] = w[v][k]
  BY StatementsOfBeginning
<1>2. w[1] = Extract(Complete[1], 0)
  BY DEF Statements
<1>3. \A k : Forms(Complete, k) = [v \in 1..3 |-> w[v][k]]
  BY FormsAre
<1> HIDE DEF s, w
<1>4. PICK k \in DOMAIN s[1] \cap DOMAIN s[2] \cap DOMAIN s[3] :
         \E type \in TakenFor(types, k) : LikelyOutcome(type, [v \in 1..3 |-> s[v][k]]) = "Fail"
  BY <1>1, LikelyFails DEF s
<1>5. PICK type \in TakenFor(types, k) : LikelyOutcome(type, [v \in 1..3 |-> s[v][k]]) = "Fail"
  BY <1>4
<1>6. \A v \in 1..3 : k \in DOMAIN s[v]
  <2>1. \A v \in 1..3 : v = 1 \/ v = 2 \/ v = 3
    OBVIOUS
  <2> QED BY <1>4, <2>1
<1> DEFINE rs == [v \in 1..3 |-> w[v][k]]
<1>7. [v \in 1..3 |-> s[v][k]] = rs /\ \A v \in 1..3 : k \in DOMAIN w[v] /\ w[v][k] \in Seq(Text)
  BY <1>1, <1>6 DEF Results
<1>8. LikelyOutcome(type, rs) = "Fail"
  BY <1>5, <1>7
<1>9. "Fail" \in LikelyVerdicts(types, w)
  <2>1. k \in DOMAIN w[1] \cap DOMAIN w[2] \cap DOMAIN w[3]
    BY <1>7
  <2>2. \E j \in DOMAIN w[1] \cap DOMAIN w[2] \cap DOMAIN w[3] :
          \E ty \in TakenFor(types, j) : LikelyOutcome(ty, [v \in 1..3 |-> w[v][j]]) = "Fail"
    BY <1>5, <1>8, <2>1
  <2> QED BY <1>1, <2>2, LikelyFails
<1>10. /\ DOMAIN rs = 1..3 /\ Forms(Complete, k) = rs
       /\ \A v \in 1..3 : rs[v] \in Seq(Text)
  BY <1>3, <1>7
<1> HIDE DEF rs
<1>11. Differs(k)
  <2>1. type \in {"NORMAL", "AGGR", "UNKNOWN"} /\ (type = "AGGR" => k \notin DOMAIN types)
    <3>1. CASE k \in DOMAIN types
      BY <1>5, <3>1 DEF TakenFor, PlainType
    <3>2. CASE k \notin DOMAIN types
      BY <1>5, <3>2 DEF TakenFor
    <3> QED BY <3>1, <3>2
  <2>2. ~ ByNumber(k)
    BY DEF ByNumber
  <2>3. CASE type = "NORMAL"
    <3>1. PICK v \in 1..3 : Len(rs[v]) - Cardinality(Filled(rs[v]))
                            # Len(rs[1]) - Cardinality(Filled(rs[1]))
      BY <1>8, <1>10, <2>1, <2>3, LikelyOutcomeFails
    <3>2. ~ SameRows(rs[v], rs[1])
      BY <1>10, <3>1, SameRowsAgree
    <3> QED BY <1>10, <2>2, <3>2, FormsDiffer
  <2>4. CASE type = "AGGR"
    <3>1. /\ \A v \in 1..3 : HasNumber(rs[v])
          /\ \E v, u \in 1..3 : Number(rs[v]) # Number(rs[u])
      BY <1>8, <1>10, <2>1, <2>4, LikelyOutcomeFails
    <3>2. Untyped(k)
      BY <2>1, <2>4 DEF Untyped
    <3>3. PICK v \in 1..3, u \in 1..3 : Number(rs[v]) # Number(rs[u])
      BY <3>1
    <3> QED BY <1>10, <3>1, <3>2, <3>3, FormsDiffer
  <2>5. CASE type = "UNKNOWN"
    BY <1>8, <1>10, <2>5, LikelyOutcomeFails
  <2> QED BY <2>1, <2>3, <2>4, <2>5
<1>12. k \in DOMAIN w[1]
  BY <1>7
<1> QED BY <1>2, <1>9, <1>11, <1>12 DEF w

(* The runs of an input, each cut short or not.                             *)
CutShort(outs) ==
  /\ DOMAIN outs = DOMAIN Complete
  /\ \A r \in DOMAIN Complete : Complete[r] \in Seq(Line) /\ Begins(outs[r], Complete[r])

(* The same as StatementsOfBeginning for oracles that run each form on its own. *)
LEMMA RunsOfBeginnings ==
  ASSUME NEW outs, CutShort(outs)
  PROVE  /\ DOMAIN FirstStatement(outs) = DOMAIN Complete
         /\ DOMAIN FirstStatement(Complete) = DOMAIN Complete
         /\ \A r \in DOMAIN Complete :
              /\ FirstStatement(outs)[r] \in Results /\ FirstStatement(Complete)[r] \in Results
              /\ FirstStatement(Complete)[r] = Extract(Complete[r], 0)
              /\ DOMAIN FirstStatement(outs)[r] \subseteq DOMAIN FirstStatement(Complete)[r]
              /\ \A k \in DOMAIN FirstStatement(outs)[r] :
                   FirstStatement(outs)[r][k] = FirstStatement(Complete)[r][k]
<1>1. \A r \in DOMAIN Complete :
        /\ Extract(outs[r], 0) \in Results /\ Extract(Complete[r], 0) \in Results
        /\ DOMAIN Extract(outs[r], 0) \subseteq DOMAIN Extract(Complete[r], 0)
        /\ \A k \in DOMAIN Extract(outs[r], 0) :
             Extract(outs[r], 0)[k] = Extract(Complete[r], 0)[k]
  BY ExtractOfBeginning DEF CutShort
<1> QED BY <1>1 DEF FirstStatement, CutShort

(* INDEX and ROWID report an input cut short only if they report the whole, *)
(* or ROWID would set the whole aside for its constraints.                  *)
LEMMA CountedCutShort ==
  ASSUME oracle \in {"INDEX", "ROWID"}, types \in Seq(SelectType), NEW outs, CutShort(outs),
         1 \in DOMAIN Complete, "Fail" \in CountedVerdicts(types, FirstStatement(outs))
  PROVE  /\ "Fail" \in CountedVerdicts(types, FirstStatement(Complete))
         /\ \E k \in DOMAIN Extract(Complete[1], 0) : Differs(k) \/ NeverWritten(k)
<1> DEFINE s == FirstStatement(outs)
           w == FirstStatement(Complete)
           D == DOMAIN Complete
<1>1. /\ DOMAIN s = D /\ DOMAIN w = D
      /\ \A r \in D : /\ s[r] \in Results /\ w[r] \in Results
                      /\ w[r] = Extract(Complete[r], 0)
                      /\ DOMAIN s[r] \subseteq DOMAIN w[r]
                      /\ \A k \in DOMAIN s[r] : s[r][k] = w[r][k]
  BY RunsOfBeginnings
<1>2. \A k : Forms(Complete, k) = [r \in D |-> Extract(Complete[r], 0)[k]]
  BY FormsAre
<1> HIDE DEF s, w
<1>3. PICK k \in DOMAIN s[1] \cap DOMAIN types :
         /\ InAll(s, k)
         /\ \/ PlainType(types[k]) = "UNKNOWN"
            \/ PlainType(types[k]) = "NORMAL" /\ CountedRows(Across(s, k)) = "Fail"
  BY CountedFails DEF s
<1>4. \A r \in D : k \in DOMAIN s[r] /\ k \in DOMAIN w[r] /\ s[r][k] = w[r][k]
  BY <1>1, <1>3 DEF InAll
<1>5. InAll(w, k) /\ k \in DOMAIN w[1]
  BY <1>1, <1>4 DEF InAll
<1>6. Across(s, k) = {w[r][k] : r \in D} /\ Across(w, k) = {w[r][k] : r \in D}
  <2> HIDE DEF D
  <2>1. {q \in DOMAIN s : k \in DOMAIN s[q]} = D /\ {q \in DOMAIN w : k \in DOMAIN w[q]} = D
    BY <1>1, <1>4
  <2> QED BY <1>4, <2>1 DEF Across
<1>7. "Fail" \in CountedVerdicts(types, w)
  <2>1. /\ k \in DOMAIN w[1] \cap DOMAIN types /\ InAll(w, k)
        /\ \/ PlainType(types[k]) = "UNKNOWN"
           \/ PlainType(types[k]) = "NORMAL" /\ CountedRows(Across(w, k)) = "Fail"
    BY <1>3, <1>5, <1>6
  <2> QED BY <2>1, CountedFails
<1>8. CASE PlainType(types[k]) = "UNKNOWN"
  <2>1. NeverWritten(k)
    BY <1>8 DEF NeverWritten, PlainType
  <2> QED BY <1>1, <1>5, <1>7, <2>1 DEF w
<1>9. CASE CountedRows(Across(s, k)) = "Fail"
  <2>1. PICK r \in D, q \in D : Cardinality(Filled(w[r][k])) # Cardinality(Filled(w[q][k]))
    <3>1. \E x, y \in {w[r][k] : r \in D} : Cardinality(Filled(x)) # Cardinality(Filled(y))
      BY <1>6, <1>9, CountedRowsFail
    <3> QED BY <3>1
  <2>2. w[r][k] \in Seq(Text) /\ w[q][k] \in Seq(Text)
    BY <1>1, <1>4 DEF Results
  <2>3. ~ SameRows(w[r][k], w[q][k])
    BY <2>1, <2>2, SameRowsAgree
  <2>4. /\ r \in DOMAIN Forms(Complete, k) /\ q \in DOMAIN Forms(Complete, k)
        /\ w[r][k] = Forms(Complete, k)[r] /\ w[q][k] = Forms(Complete, k)[q]
    BY <1>1, <1>2
  <2>5. ~ ByNumber(k)
    BY DEF ByNumber
  <2>6. Differs(k)
    BY <2>3, <2>4, <2>5, FormsDiffer
  <2> QED BY <1>1, <1>5, <1>7, <2>6 DEF w
<1> QED BY <1>3, <1>8, <1>9

(* OPT reports an input cut short only if it reports the whole.             *)
LEMMA OptCutShort ==
  ASSUME oracle = "OPT", NEW outs, CutShort(outs), DOMAIN Complete = 1..3,
         "Fail" \in OptVerdicts(FirstStatement(outs))
  PROVE  /\ "Fail" \in OptVerdicts(FirstStatement(Complete))
         /\ \E k \in DOMAIN Extract(Complete[1], 0) : Differs(k)
<1> DEFINE s == FirstStatement(outs)
           w == FirstStatement(Complete)
<1>1. /\ DOMAIN s = 1..3 /\ DOMAIN w = 1..3
      /\ \A r \in 1..3 : /\ s[r] \in Results /\ w[r] \in Results
                         /\ w[r] = Extract(Complete[r], 0)
                         /\ DOMAIN s[r] \subseteq DOMAIN w[r]
                         /\ \A k \in DOMAIN s[r] : s[r][k] = w[r][k]
  BY RunsOfBeginnings
<1>2. \A k : Forms(Complete, k) = [r \in 1..3 |-> Extract(Complete[r], 0)[k]]
  BY FormsAre
<1> HIDE DEF s, w
<1>3. PICK k \in DOMAIN s[1] : InAll(s, k) /\ OptOutcome(s[1][k], s[2][k], s[3][k]) = "Fail"
  BY OptFails DEF s
<1>4. \A r \in 1..3 : k \in DOMAIN w[r] /\ s[r][k] = w[r][k] /\ w[r][k] \in Seq(Text)
  <2> TAKE r \in 1..3
  <2>1. k \in DOMAIN s[r]
    BY <1>1, <1>3 DEF InAll
  <2>2. k \in DOMAIN w[r] /\ s[r][k] = w[r][k] /\ w[r] \in Seq(Seq(Text))
    BY <1>1, <2>1 DEF Results
  <2> QED BY <2>2
<1>5. /\ InAll(w, k) /\ k \in DOMAIN w[1]
      /\ OptOutcome(w[1][k], w[2][k], w[3][k]) = "Fail"
  BY <1>1, <1>3, <1>4 DEF InAll
<1>6. "Fail" \in OptVerdicts(w)
  BY <1>5, OptFails
<1>7. Len(w[1][k]) # Len(w[2][k]) \/ Len(w[2][k]) # Len(w[3][k])
  BY <1>4, <1>5, OptOutcomeFails
<1>8. ~ SameRows(w[1][k], w[2][k]) \/ ~ SameRows(w[2][k], w[3][k])
  BY <1>4, <1>7, SameRowsAgree
<1>9. \A r \in 1..3 : r \in DOMAIN Forms(Complete, k) /\ w[r][k] = Forms(Complete, k)[r]
  BY <1>1, <1>2
<1>10. ~ ByNumber(k)
  BY DEF ByNumber
<1>11. Differs(k)
  <2>1. CASE ~ SameRows(w[1][k], w[2][k])
    BY <1>9, <1>10, <2>1, FormsDiffer
  <2>2. CASE ~ SameRows(w[2][k], w[3][k])
    BY <1>9, <1>10, <2>2, FormsDiffer
  <2> QED BY <1>8, <2>1, <2>2
<1> QED BY <1>1, <1>5, <1>6, <1>11 DEF w

----------------------------------------------------------------------------
(* What the bisecting tool sees of a select that the fuzzer reported.       *)

(* The bisecting tool fails two amounts that differ. *)
LEMMA AgreeFails ==
  ASSUME NEW amounts, NEW v \in DOMAIN amounts, NEW u \in DOMAIN amounts,
         amounts[v] # amounts[u]
  PROVE  Agree(amounts) = "FAIL"
BY DEF Agree

(* A result of one row that is not blank is that row's number.              *)
LEMMA OneRow ==
  ASSUME NEW res \in Seq(Text), Len(res) = 1, res[1].kind # "blank"
  PROVE  /\ Filled(res) = {1} /\ Cardinality(Filled(res)) = 1
         /\ Number(res) = res[1].n /\ res[1].n \in Int
         /\ (CHOOSE k \in Filled(res) : TRUE) = 1
<1>1. DOMAIN res = {1} /\ res[1] \in Text
  <2>1. 1 \in 1..Len(res) /\ DOMAIN res = 1..Len(res)
    OBVIOUS
  <2>2. 1..1 = {1}
    OBVIOUS
  <2> QED BY <2>1, <2>2
<1>2. Filled(res) = {1}
  BY <1>1 DEF Filled
<1>3. (CHOOSE k \in {1} : \A j \in {1} : k <= j) = 1 /\ (CHOOSE k \in {1} : TRUE) = 1
  <2>1. \E k \in {1} : \A j \in {1} : k <= j
    OBVIOUS
  <2> QED BY <2>1
<1>4. Leading(res) = 1
  BY <1>2, <1>3 DEF Leading
<1>5. Cardinality({1}) = 1
  BY FS_Singleton
<1>6. res[1].n \in Int
  BY <1>1 DEF Text
<1> QED BY <1>2, <1>3, <1>4, <1>5, <1>6 DEF Number

(* A difference of numbers that NOREC reports is one the bisecting tool fails too. *)
LEMMA ToolSeesNorec ==
  ASSUME NEW a \in Seq(Text), NEW b \in Seq(Text), Len(a) = 1, Len(b) = 1,
         a[1].kind = "row", a[1].n # -1, b[1].n # -1, Numbers({a, b}) = "Fail"
  PROVE  SameNumber(a, b) = "FAIL"
<1>1. HasNumber(b) /\ Number(a) # Number(b)
  BY NumbersFail
<1>2. b[1].kind \in {"row", "real"}
  <2>1. DOMAIN b = {1}
    <3>1. DOMAIN b = 1..1 /\ 1..1 = {1}
      OBVIOUS
    <3> QED BY <3>1
  <2>2. Filled(b) = {1}
    BY <1>1, <2>1 DEF HasNumber, Filled
  <2>3. b[1].kind # "blank"
    BY <2>2 DEF Filled
  <2>4. (CHOOSE k \in {1} : \A j \in {1} : k <= j) = 1
    <3>1. \E k \in {1} : \A j \in {1} : k <= j
      OBVIOUS
    <3> QED BY <3>1
  <2>5. Leading(b) = 1
    BY <2>2, <2>4 DEF Leading
  <2> QED BY <1>1, <2>5 DEF HasNumber
<1>3. a[1].kind # "blank" /\ b[1].kind # "blank"
  BY <1>2
<1>4. /\ Filled(a) = {1} /\ Cardinality(Filled(a)) = 1 /\ Number(a) = a[1].n
      /\ (CHOOSE k \in Filled(a) : TRUE) = 1
  BY <1>3, OneRow
<1>5. /\ Filled(b) = {1} /\ Cardinality(Filled(b)) = 1 /\ Number(b) = b[1].n
      /\ (CHOOSE k \in Filled(b) : TRUE) = 1
  BY <1>3, OneRow
<1>6. TheNumber(a, {"row"}) = a[1].n
  BY <1>4 DEF TheNumber
<1>7. TheNumber(b, {"row", "real"}) = b[1].n
  BY <1>2, <1>5 DEF TheNumber
<1> QED BY <1>1, <1>4, <1>5, <1>6, <1>7 DEF SameNumber

(* The accumulator after one row is the number in it.                       *)
LEMMA AccumulatedOne ==
  ASSUME NEW res \in Seq(Text), Len(res) = 1, res[1].kind = "row",
         NEW type \in Aggregate, type # "AVG",
         type = "MAX" => res[1].n >= 0, type = "MIN" => res[1].n <= MaxSize
  PROVE  Accumulated(type, res) = res[1].n
<1> DEFINE n == res[1].n
           G(g) == [i \in 0..1 |->
                      IF i = 0 THEN StartOf(type)
                      ELSE IF i \in Filled(res) THEN WithRow(type, g[i - 1], res[i]) ELSE g[i - 1]]
           acc == CHOOSE g : g = G(g)
           f == [i \in 0..1 |-> IF i = 0 THEN StartOf(type)
                                ELSE WithRow(type, StartOf(type), res[1])]
<1>1. 1 \in Filled(res) /\ n \in Int
  BY OneRow
<1>2. f = G(f)
  <2>1. f[0] = StartOf(type)
    OBVIOUS
  <2>2. \A i \in 0..1 : i = 0 \/ i = 1
    OBVIOUS
  <2>3. G(f) = [i \in 0..1 |-> IF i = 0 THEN StartOf(type)
                              ELSE WithRow(type, f[i - 1], res[i])]
    BY <1>1, <2>2
  <2>4. \A i \in 0..1 : i # 0 => i - 1 = 0 /\ i = 1
    OBVIOUS
  <2> HIDE DEF G
  <2> QED BY <2>1, <2>3, <2>4
<1>3. acc = G(acc)
  <2> HIDE DEF G, f
  <2> QED BY <1>2
<1> HIDE DEF acc, f
<1>4. acc[1] = WithRow(type, StartOf(type), res[1])
  <2>1. acc[0] = StartOf(type)
    BY <1>3
  <2>2. acc[1] = WithRow(type, acc[1 - 1], res[1])
    BY <1>1, <1>3
  <2> QED BY <2>1, <2>2
<1>5. Accumulated(type, res) = acc[1]
  BY DEF Accumulated, acc
<1>6. WithRow(type, StartOf(type), res[1]) = n
  <2>1. CASE type \in {"COUNT", "SUM"}
    BY <1>1, <2>1 DEF WithRow, StartOf
  <2>2. CASE type = "MAX"
    BY <1>1, <2>2 DEF WithRow, StartOf
  <2>3. CASE type = "MIN"
    BY <1>1, <2>3 DEF WithRow, StartOf, MaxSize
  <2> QED BY <2>1, <2>2, <2>3 DEF Aggregate
<1> QED BY <1>4, <1>5, <1>6

(* A disagreement that TLP reports the tool sees too, where its comparison  *)
(* is meant to.                                                             *)
LEMMA ToolSeesTlp ==
  ASSUME NEW rs, DOMAIN rs = 1..2, NEW type \in SelectType,
         rs[1] \in Seq(Text), rs[2] \in Seq(Text), TlpOutcome(type, rs[1], rs[2]) = "Fail",
         oracle = "TLP", ~ OutOfToolsReach(type, rs)
  PROVE  ToolVerdict("TLP", type, rs) = "FAIL"
<1> DEFINE a == rs[1]
           b == rs[2]
           rows == UNION {RowsAt(rs[v], DOMAIN rs[v]) : v \in DOMAIN rs}
<1>1. 1 \in DOMAIN rs /\ 2 \in DOMAIN rs /\ \A v \in DOMAIN rs : v = 1 \/ v = 2
  OBVIOUS
<1>2. \A v \in DOMAIN rs : \A k \in DOMAIN rs[v] : rs[v][k] \in rows
  BY DEF RowsAt
<1>3. /\ type \notin Aggregate => \A row \in rows : row.kind # "bars"
      /\ type \in Aggregate =>
           /\ \A v \in DOMAIN rs : Len(rs[v]) = 1
           /\ type # "AVG"
           /\ \A row \in rows : /\ row.kind = "row"
                                /\ type = "MAX" => ~ (row.n < 0)
                                /\ type = "MIN" => ~ (row.n > MaxSize)
  BY DEF OutOfToolsReach
<1>4. ~ HasError(a) /\ ~ HasError(b)
  BY TlpOutcomeFails
<1> HIDE DEF rows
<1>5. ~ Unreadable(rs)
  BY <1>1, <1>4 DEF Unreadable
<1>6. CASE type \in Aggregate
  <2>1. /\ Len(a) = 1 /\ Len(b) = 1 /\ type # "AVG" /\ 1 \in DOMAIN a /\ 1 \in DOMAIN b
    BY <1>1, <1>3, <1>6
  <2>2. /\ \A v \in DOMAIN rs : \A k \in DOMAIN rs[v] : rs[v][k].kind = "row"
        /\ type = "MAX" => ~ (a[1].n < 0) /\ ~ (b[1].n < 0)
        /\ type = "MIN" => ~ (a[1].n > MaxSize) /\ ~ (b[1].n > MaxSize)
    BY <1>1, <1>2, <1>3, <1>6, <2>1
  <2>3. a[1].kind = "row" /\ b[1].kind = "row" /\ a[1].n \in Int /\ b[1].n \in Int
    <3>1. a[1].kind = "row" /\ b[1].kind = "row"
      BY <1>1, <2>1, <2>2
    <3>2. a[1] \in Text /\ b[1] \in Text
      BY <2>1
    <3> QED BY <3>1, <3>2 DEF Text
  <2>4. Accumulated(type, a) = a[1].n /\ Accumulated(type, b) = b[1].n
    <3>1. type = "MAX" => a[1].n >= 0 /\ b[1].n >= 0
      BY <2>2, <2>3
    <3>2. type = "MIN" => a[1].n <= MaxSize /\ b[1].n <= MaxSize
      BY <2>2, <2>3 DEF MaxSize
    <3>3. Accumulated(type, a) = a[1].n
      BY <1>6, <2>1, <2>3, <3>1, <3>2, AccumulatedOne
    <3>4. Accumulated(type, b) = b[1].n
      BY <1>6, <2>1, <2>3, <3>1, <3>2, AccumulatedOne
    <3> QED BY <3>3, <3>4
  <2>5. a[1].n # b[1].n
    <3>1. Number(a) # Number(b)
      <4>1. Numbers({a, b}) = "Fail"
        BY <1>6, TlpOutcomeFails
      <4> QED BY <4>1, NumbersFail
    <3>2. Number(a) = a[1].n /\ Number(b) = b[1].n
      BY <2>1, <2>3, OneRow
    <3> QED BY <3>1, <3>2
  <2>6. \A v \in DOMAIN rs : AllIntegers(rs[v])
    BY <2>2 DEF AllIntegers, Filled
  <2> DEFINE amounts == [v \in DOMAIN rs |-> Accumulated(type, rs[v])]
  <2>7. 1 \in DOMAIN amounts /\ 2 \in DOMAIN amounts /\ amounts[1] # amounts[2]
    BY <1>1, <2>4, <2>5
  <2>8. SameAggregate(type, rs) = Agree(amounts)
    BY <1>5, <2>6 DEF SameAggregate
  <2> HIDE DEF amounts
  <2>9. SameAggregate(type, rs) = "FAIL"
    BY <2>7, <2>8, AgreeFails
  <2> QED BY <1>6, <2>9 DEF ToolVerdict
<1>7. CASE type \notin Aggregate
  <2>1. Visible(a) = Filled(a) /\ Visible(b) = Filled(b)
    <3>1. \A v \in DOMAIN rs : Visible(rs[v]) = Filled(rs[v])
      BY <1>2, <1>3, <1>7 DEF Visible, Filled
    <3> QED BY <1>1, <3>1
  <2>2. type \in {"NORMAL", "DISTINCT", "GROUP_BY"}
    <3>1. type # "VALUES"
      BY TlpOutcomeFails
    <3> QED BY <1>7, <3>1 DEF SelectType
  <2>3. CASE type = "NORMAL"
    <3>1. Cardinality(Filled(a)) # Cardinality(Filled(b))
      BY <2>3, TlpOutcomeFails
    <3> DEFINE amounts == [v \in DOMAIN rs |-> Cardinality(Visible(rs[v]))]
    <3>2. 1 \in DOMAIN amounts /\ 2 \in DOMAIN amounts /\ amounts[1] # amounts[2]
      BY <1>1, <2>1, <3>1
    <3>3. SameCount(rs) = Agree(amounts)
      BY <1>5 DEF SameCount
    <3> HIDE DEF amounts
    <3>4. SameCount(rs) = "FAIL"
      BY <3>2, <3>3, AgreeFails
    <3> QED BY <1>7, <2>3, <3>4 DEF ToolVerdict
  <2>4. CASE type \in {"DISTINCT", "GROUP_BY"}
    <3>1. Cardinality(RowsAt(a, Filled(a))) # Cardinality(RowsAt(b, Filled(b)))
      BY <2>4, TlpOutcomeFails
    <3> DEFINE amounts == [v \in DOMAIN rs |-> Cardinality(RowsAt(rs[v], Visible(rs[v])))]
    <3>2. 1 \in DOMAIN amounts /\ 2 \in DOMAIN amounts /\ amounts[1] # amounts[2]
      BY <1>1, <2>1, <3>1
    <3>3. SameUnique(rs) = Agree(amounts)
      BY <1>5 DEF SameUnique
    <3> HIDE DEF amounts
    <3>4. SameUnique(rs) = "FAIL"
      BY <3>2, <3>3, AgreeFails
    <3> QED BY <1>7, <2>4, <3>4 DEF ToolVerdict
  <2> QED BY <2>2, <2>3, <2>4
<1> QED BY <1>6, <1>7
=============================================================================
